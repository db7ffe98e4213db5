-------------------------- MODULE MCServiceRegistry --------------------------
(***************************************************************************)
(* Small instances of ServiceRegistry for TLC.                             *)
(***************************************************************************)
EXTENDS ServiceRegistry

CONSTANTS s1, p1, p2, h1

OneService == {s1}
OneProvider == {p1}
TwoProviders == {p1, p2}
OneHost == {h1}
=============================================================================
