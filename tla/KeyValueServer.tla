---------------------------- MODULE KeyValueServer ----------------------------
(***************************************************************************)
(* The key-value server with one thread per client and a mutex             *)
(* (Sockets/key-value-multi-server).  It is the server of UnguardedServer, *)
(* but handleCommand locks the mutex of the SharedStore before it uses the *)
(* map, and releases it at the end of the block, before the response is    *)
(* built from what it copied.                                              *)
(***************************************************************************)
EXTENDS UnguardedServer

CONSTANT NoClient

ASSUME ServerAssumption == NoClient \notin Clients

VARIABLE mutex  \* who holds store.mutex

vars == <<uvars, mutex>>

TypeOK == ThreadsOK /\ mutex \in Clients \cup {NoClient}

\* Mutant: the command does not wait for the mutex.
LockAlways(c) == Enter(c) /\ mutex' = c

\* Mutant: only the commands that change the map lock it.
LockForChanges(c) ==
    /\ Enter(c)
    /\ IF Changes(c) THEN mutex = NoClient /\ mutex' = c ELSE UNCHANGED mutex

Lock(c) == mutex = NoClient /\ Enter(c) /\ mutex' = c

\* The lock_guard goes out of scope.
Unlock(c) == Leave(c) /\ mutex' = NoClient

handleCommand(c) == Lock(c) \/ (UseMap(c) /\ UNCHANGED mutex) \/ Unlock(c)

handleClient(c) == handleCommand(c) \/ (Serve(c) /\ UNCHANGED mutex)

Init == UInit /\ mutex = NoClient

Next == \E c \in Clients : handleClient(c)

Spec == Init /\ [][Next]_vars

-----------------------------------------------------------------------------
(* The inductive invariant.                                                *)

\* The mutex is held exactly inside the block of the lock_guard.
Exclusive == \A c \in Clients : pc[c] \in Entered <=> mutex = c

IInv == TypeOK /\ Exclusive /\ Prepared /\ FoundStays
=============================================================================
