------------------------ MODULE MCSuppressingSession ------------------------
(***************************************************************************)
(* Small instances of SuppressingSession for TLC.                          *)
(***************************************************************************)
EXTENDS SuppressingSession

CONSTANTS get, quit

TwoOpcodes == {get, quit}

\* 0 is the id the cache starts with; 1 and 2 allow 1, 2, 1.
ThreeIds == {0, 1, 2}
=============================================================================
