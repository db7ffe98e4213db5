------------------------------ MODULE LeaseTable ------------------------------
(***************************************************************************)
(* What the name server promises of its registrations: a table of leases.  *)
(* A provider holds a lease from its registration on; a heartbeat renews   *)
(* it, and it ends when the provider gives it up, when the name server     *)
(* forgets everything, or, once the provider has been silent for longer    *)
(* than the timeout, by expiry.  Expiry may be late, but only by Grace.    *)
(***************************************************************************)
EXTENDS Integers

CONSTANTS Services, ProviderIds,
          Timeout,  \* how long a lease lasts
          Grace     \* how much longer it may stand in the table

VARIABLES stamps,  \* per service and provider: the start of its lease, or none
          granted, \* the start of the last lease it was granted and has not given up
          now

tvars == <<stamps, granted, now>>

None == -1
NoLeases == [s \in Services |-> [id \in ProviderIds |-> None]]
Holds(s, id) == stamps[s][id] # None
Age(s, id) == now - stamps[s][id]
Set(s, id, stamp) == stamps' = [stamps EXCEPT ![s][id] = stamp] /\ UNCHANGED now
Agree(s, id, stamp) == Set(s, id, stamp) /\ granted' = [granted EXCEPT ![s][id] = stamp]

Grant(s, id) == ~Holds(s, id) /\ Agree(s, id, now)
Renew(s, id) == Holds(s, id) /\ Agree(s, id, now)
Release(s, id) == Holds(s, id) /\ Agree(s, id, None)

\* The provider takes no part in this, and may believe that it holds its lease.
Expire(s, id) == Holds(s, id) /\ Age(s, id) > Timeout /\ Set(s, id, None) /\ UNCHANGED granted

ForgetAll == stamps' = NoLeases /\ granted' = NoLeases /\ UNCHANGED now

\* Time does not pass a lease that is overdue by Grace.
Pass ==
    /\ now' = now + 1
    /\ \A s \in Services, id \in ProviderIds : Holds(s, id) => Age(s, id) < Timeout + Grace
    /\ UNCHANGED <<stamps, granted>>

TInit == stamps = NoLeases /\ granted = NoLeases /\ now = 0

TNext ==
    \/ \E s \in Services, id \in ProviderIds :
           Grant(s, id) \/ Renew(s, id) \/ Release(s, id) \/ Expire(s, id)
    \/ ForgetAll \/ Pass

TableSpec == TInit /\ [][TNext]_tvars
=============================================================================
