----------------------------- MODULE MCSharedList -----------------------------
(***************************************************************************)
(* Small instances of SharedList for TLC.                                  *)
(***************************************************************************)
EXTENDS SharedList

CONSTANTS a, b, v, w

TwoClients == {a, b}
TwoValues == {v, w}

\* A negative index, and indices below, at and past the end of short lists.
FewArguments == {-1, 0, 1, 2}
=============================================================================
