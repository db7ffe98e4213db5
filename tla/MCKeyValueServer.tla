--------------------------- MODULE MCKeyValueServer ---------------------------
(***************************************************************************)
(* Small instances of the threaded key-value server for TLC.               *)
(***************************************************************************)
EXTENDS KeyValueServer, TLC

CONSTANTS a, b, c, k, l, v, w

ThreeClients == {a, b, c}
TwoKeys == {k, l}
TwoValues == {v, w}

Symmetry == Permutations(Clients) \cup Permutations(Keys) \cup Permutations(Values)
=============================================================================
