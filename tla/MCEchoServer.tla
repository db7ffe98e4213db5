----------------------------- MODULE MCEchoServer -----------------------------
(***************************************************************************)
(* Small instances of EchoServer for TLC.                                  *)
(***************************************************************************)
EXTENDS EchoServer, TLC

CONSTANTS a, b, c

ThreeClients == {a, b, c}

Symmetry == Permutations(Clients)
=============================================================================
