--------------------------- MODULE DiscoveryProofs ---------------------------
(***************************************************************************)
(* Theorems about the registry and about service discovery.                *)
(*                                                                         *)
(* Those about the registry come first: they hold of ServiceRegistry on    *)
(* its own, for every set of services, providers and endpoints and for     *)
(* every timeout, interval and delay, and use nothing of Discovery.  Those *)
(* about discovery hold for every number of list servers, every heartbeat  *)
(* interval and every delay of messages and threads.                       *)
(***************************************************************************)
EXTENDS Discovery, SequenceTheorems, WellFoundedInduction, TLAPS

-----------------------------------------------------------------------------
(* The data structure.                                                     *)

\* vector::erase of one element: the rest keep their order, those behind it
\* move forward by one.
LEMMA RemoveAtProperties ==
    ASSUME NEW S, NEW seq \in Seq(S), NEW i \in 1..Len(seq)
    PROVE  /\ RemoveAt(seq, i) \in Seq(S)
           /\ Len(RemoveAt(seq, i)) = Len(seq) - 1
           /\ \A j \in 1..(Len(seq) - 1) :
                 RemoveAt(seq, i)[j] = IF j < i THEN seq[j] ELSE seq[j + 1]
<1> DEFINE front == SubSeq(seq, 1, i - 1)
           back == SubSeq(seq, i + 1, Len(seq))
<1>1. RemoveAt(seq, i) = front \o back
  BY DEF RemoveAt
<1>2. /\ front \in Seq(S) /\ Len(front) = i - 1
      /\ \A j \in 1..(i - 1) : front[j] = seq[j]
  OBVIOUS
<1>3. /\ back \in Seq(S) /\ Len(back) = Len(seq) - i
      /\ \A j \in 1..(Len(seq) - i) : back[j] = seq[i + j]
  OBVIOUS
<1> HIDE DEF front, back
<1>4. /\ RemoveAt(seq, i) \in Seq(S)
      /\ Len(RemoveAt(seq, i)) = Len(seq) - 1
  BY <1>1, <1>2, <1>3, ConcatProperties
<1>5. ASSUME NEW j \in 1..(Len(seq) - 1), j < i
      PROVE  RemoveAt(seq, i)[j] = seq[j]
  <2>1. j \in 1..Len(front)
    BY <1>2, <1>5
  <2> QED
    BY <1>1, <1>2, <1>3, <2>1, ConcatProperties
<1>6. ASSUME NEW j \in 1..(Len(seq) - 1), ~(j < i)
      PROVE  RemoveAt(seq, i)[j] = seq[j + 1]
  <2>1. j \in (Len(front) + 1)..(Len(front) + Len(back))
    BY <1>2, <1>3, <1>6
  <2>2. RemoveAt(seq, i)[j] = back[j - (i - 1)]
    BY <1>1, <1>2, <1>3, <2>1, SMTT(30)
  <2> QED
    BY <1>3, <1>6, <2>2
<1> QED
  BY <1>4, <1>5, <1>6

LEMMA FindProviderProperties ==
    ASSUME NEW ps, NEW id, NEW i \in findProvider(ps, id)
    PROVE  i \in DOMAIN ps /\ ps[i].identifier = id
BY DEF findProvider

\* A set of naturals that is not empty has a least element.
LEMMA LeastElement ==
    ASSUME NEW T, T \subseteq Nat, T # {}
    PROVE  \E m \in T : \A n \in T : ~(n < m)
<1>1. PICK m \in T : \A n \in T : ~(<<n, m>> \in OpToRel(<, Nat))
  BY NatLessThanWellFounded, WFMin, Zenon
<1>2. \A n \in T : n \in Nat /\ m \in Nat
  OBVIOUS
<1>3. ASSUME NEW n \in T, n < m PROVE FALSE
  <2>1. <<n, m>> \in OpToRel(<, Nat)
    BY <1>2, <1>3, Zenon DEF OpToRel
  <2> QED
    BY <1>1, <2>1
<1> QED
  BY <1>3

\* findProvider misses nobody: it returns end only if no entry matches.
LEMMA FindProviderFinds ==
    ASSUME NEW ps \in Seq(Provider), NEW id, findProvider(ps, id) = {}
    PROVE  \A i \in DOMAIN ps : ps[i].identifier # id
<1> DEFINE T == {i \in DOMAIN ps : ps[i].identifier = id}
<1>1. SUFFICES ASSUME T # {} PROVE FALSE
  OBVIOUS
<1>2. T \subseteq Nat
  BY LenProperties
<1>3. PICK m \in T : \A n \in T : ~(n < m)
  BY <1>1, <1>2, LeastElement
<1>4. m \in findProvider(ps, id)
  BY <1>3 DEF findProvider
<1> QED
  BY <1>4

-----------------------------------------------------------------------------
(* Type correctness.                                                       *)

LEMMA InitType == Init => TypeOK
BY RegistryAssumption DEF Init, TypeOK, NobodyHeard, Instant, Never

LEMMA ProvidersType ==
    ASSUME TypeOK, NEW s
    PROVE  ProvidersOf(s) \in Seq(Provider)
BY DEF TypeOK, ProvidersOf

LEMMA BindType ==
    ASSUME TypeOK, NEW s \in Services, NEW ps \in Seq(Provider)
    PROVE  /\ Bind(s, ps) \in [DOMAIN Bind(s, ps) -> Seq(Provider)]
           /\ DOMAIN Bind(s, ps) \subseteq Services
           /\ BindOrDrop(s, ps) \in [DOMAIN BindOrDrop(s, ps) -> Seq(Provider)]
           /\ DOMAIN BindOrDrop(s, ps) \subseteq Services
BY DEF TypeOK, Bind, BindOrDrop

\* Writing through the iterator changes one field of one provider.
LEMMA EntryType ==
    ASSUME now \in Nat, NEW ps \in Seq(Provider), NEW i \in 1..Len(ps)
    PROVE  /\ \A h \in Hosts : Moved(ps, i, h) \in Seq(Provider)
           /\ Stamped(ps, i) \in Seq(Provider)
<1>1. ps[i] \in Provider
  OBVIOUS
<1>2. \A h \in Hosts : [ps[i] EXCEPT !.host = h] \in Provider
  BY <1>1 DEF Provider
<1>3. [ps[i] EXCEPT !.lastHeartbeat = now] \in Provider
  BY <1>1 DEF Provider, Instant
<1> QED
  BY <1>2, <1>3, ExceptSeq DEF Moved, Stamped

LEMMA NextType == TypeOK /\ [Next]_vars => TypeOK'
<1> SUFFICES ASSUME TypeOK, [Next]_vars
             PROVE  TypeOK'
  OBVIOUS
<1> USE DEF reaper, Instant, Never
<1>1. ASSUME NEW s \in Services, NEW id \in ProviderIds, NEW h \in Hosts,
             handleRegisterRequest(s, id, h)
      PROVE  TypeOK'
  <2>1. \E ps \in Seq(Provider) : services' = Bind(s, ps)
    <3>1. CASE RegisterKnown(s, id, h)
      <4>1. PICK i \in findProvider(ProvidersOf(s), id) :
                services' = Bind(s, Moved(ProvidersOf(s), i, h))
        BY <3>1 DEF RegisterKnown
      <4> QED
        BY <4>1, FindProviderProperties, ProvidersType, EntryType, LenProperties DEF TypeOK
    <3>2. CASE RegisterNew(s, id, h)
      <4>1. NewProvider(id, h) \in Provider
        BY DEF TypeOK, NewProvider, Provider
      <4> QED
        BY <3>2, <4>1, ProvidersType, AppendProperties DEF RegisterNew
    <3> QED
      BY <1>1, <3>1, <3>2 DEF handleRegisterRequest
  <2>2. /\ services' \in [DOMAIN services' -> Seq(Provider)]
        /\ DOMAIN services' \subseteq Services
    BY <2>1, BindType
  <2>3. leases' \in [Services -> [ProviderIds -> Instant \cup {Never}]]
    <3>1. [leases EXCEPT ![s][id] = now] \in [Services -> [ProviderIds -> Instant \cup {Never}]]
      BY DEF TypeOK
    <3> QED
      BY <1>1, <3>1 DEF handleRegisterRequest, RegisterKnown, RegisterNew, TypeOK
  <2> QED
    BY <1>1, <2>2, <2>3 DEF handleRegisterRequest, TypeOK
<1>2. ASSUME NEW s \in Services, NEW id \in ProviderIds,
             handleUnregisterRequest(s, id)
      PROVE  TypeOK'
  <2>1. PICK i \in findProvider(ProvidersOf(s), id) :
            services' = BindOrDrop(s, RemoveAt(ProvidersOf(s), i))
    BY <1>2 DEF handleUnregisterRequest
  <2>2. RemoveAt(ProvidersOf(s), i) \in Seq(Provider)
    BY FindProviderProperties, ProvidersType, RemoveAtProperties, LenProperties
  <2>3. /\ services' \in [DOMAIN services' -> Seq(Provider)]
        /\ DOMAIN services' \subseteq Services
    BY <2>1, <2>2, BindType
  <2> QED
    BY <1>2, <2>3 DEF handleUnregisterRequest, TypeOK
<1>3. ASSUME NEW s \in Services, NEW id \in ProviderIds,
             handleHeartbeatRequest(s, id)
      PROVE  TypeOK'
  <2>1. PICK i \in findProvider(ProvidersOf(s), id) :
            services' = Bind(s, Stamped(ProvidersOf(s), i))
    BY <1>3 DEF handleHeartbeatRequest
  <2>2. Stamped(ProvidersOf(s), i) \in Seq(Provider)
    BY FindProviderProperties, ProvidersType, EntryType, LenProperties DEF TypeOK
  <2>3. /\ services' \in [DOMAIN services' -> Seq(Provider)]
        /\ DOMAIN services' \subseteq Services
    BY <2>1, <2>2, BindType
  <2> QED
    BY <1>3, <2>3 DEF handleHeartbeatRequest, TypeOK
<1>4. CASE ReaperWake
  BY <1>4 DEF ReaperWake, TypeOK
<1>5. CASE ReaperLock
  BY <1>5 DEF ReaperLock, TypeOK
<1>6. ASSUME NEW s \in Services, VisitService(s)
      PROVE  TypeOK'
  BY <1>6 DEF VisitService, TypeOK
<1>7. CASE EraseProvider
  <2>1. cur \in Services
    BY <1>7, RegistryAssumption DEF EraseProvider, TypeOK, ProvidersOf
  <2>2. RemoveAt(ProvidersOf(cur), idx) \in Seq(Provider)
    BY <1>7, ProvidersType, RemoveAtProperties, LenProperties DEF EraseProvider
  <2> QED
    BY <1>7, <2>1, <2>2, BindType DEF EraseProvider, TypeOK
<1>8. CASE KeepProvider
  BY <1>8 DEF KeepProvider, TypeOK
<1>9. CASE LeaveService
  <2>1. /\ services' \in [DOMAIN services' -> Seq(Provider)]
        /\ DOMAIN services' \subseteq Services
    <3>1. CASE cur \in Services
      BY <1>9, <3>1, ProvidersType, BindType DEF LeaveService
    <3>2. CASE cur = NoService
      BY <1>9, <3>2, RegistryAssumption DEF LeaveService, BindOrDrop, ProvidersOf, TypeOK
    <3> QED
      BY <3>1, <3>2 DEF TypeOK
  <2> QED
    BY <1>9, <2>1 DEF LeaveService, TypeOK
<1>10. CASE ReaperUnlock
  BY <1>10, RegistryAssumption DEF ReaperUnlock, TypeOK
<1>11. CASE Tick
  BY <1>11 DEF Tick, TypeOK
<1>12. CASE Restart
  BY <1>12, RegistryAssumption DEF Restart, TypeOK, NobodyHeard
<1>13. CASE UNCHANGED vars
  BY <1>13 DEF vars, TypeOK
<1> QED
  BY <1>1, <1>2, <1>3, <1>4, <1>5, <1>6, <1>7, <1>8, <1>9, <1>10, <1>11, <1>12,
     <1>13 DEF Next, Request, ReaperStep

\* The state is always well formed: services have vectors of providers, the
\* clock and every time stamp are natural numbers, the reaper is in one of its
\* phases.
THEOREM TypeCorrect == Spec => []TypeOK
BY InitType, NextType, PTL DEF Spec

-----------------------------------------------------------------------------
(* What the steps do to the vectors of providers.                          *)

\* An overwritten endpoint and a new time stamp leave everything else alone.
LEMMA EntryEffect ==
    ASSUME NEW ps \in Seq(Provider), NEW i \in 1..Len(ps), NEW h \in Hosts,
           now \in Nat
    PROVE  /\ DOMAIN Moved(ps, i, h) = DOMAIN ps
           /\ DOMAIN Stamped(ps, i) = DOMAIN ps
           /\ \A j \in DOMAIN ps :
                 /\ Moved(ps, i, h)[j].identifier = ps[j].identifier
                 /\ Moved(ps, i, h)[j].lastHeartbeat = ps[j].lastHeartbeat
                 /\ Stamped(ps, i)[j].identifier = ps[j].identifier
                 /\ Stamped(ps, i)[j].lastHeartbeat =
                        IF j = i THEN now ELSE ps[j].lastHeartbeat
BY DEF Moved, Stamped, Provider

LEMMA BindEffect ==
    ASSUME NEW s, NEW ps
    PROVE  /\ DOMAIN Bind(s, ps) = DOMAIN services \cup {s}
           /\ Bind(s, ps)[s] = ps
           /\ \A t \in DOMAIN services \ {s} : Bind(s, ps)[t] = services[t]
BY DEF Bind

LEMMA BindOrDropEffect ==
    ASSUME NEW s, NEW ps
    PROVE  /\ DOMAIN BindOrDrop(s, ps) =
                  IF ps = <<>> THEN DOMAIN services \ {s} ELSE DOMAIN services \cup {s}
           /\ ps # <<>> => BindOrDrop(s, ps)[s] = ps
           /\ \A t \in DOMAIN services \ {s} : BindOrDrop(s, ps)[t] = services[t]
BY DEF Bind, BindOrDrop

\* The step replaces the vector of service s by ps and touches no other.
Rewrites(s, ps) ==
    /\ DOMAIN services' \subseteq DOMAIN services \cup {s}
    /\ DOMAIN services \ {s} \subseteq DOMAIN services'
    /\ \A t \in DOMAIN services' : services'[t] = IF t = s THEN ps ELSE services[t]
    /\ ps # <<>> => s \in DOMAIN services'
    /\ ps \in Seq(Provider)

LEMMA BindRewrites ==
    ASSUME NEW s, NEW ps \in Seq(Provider), services' = Bind(s, ps)
    PROVE  Rewrites(s, ps)
<1>1. DOMAIN services' = DOMAIN services \cup {s}
  BY BindEffect
<1>2. \A t \in DOMAIN services' : services'[t] = IF t = s THEN ps ELSE services[t]
  BY DEF Bind
<1> QED
  BY <1>1, <1>2 DEF Rewrites

LEMMA BindOrDropRewrites ==
    ASSUME NEW s, NEW ps \in Seq(Provider), services' = BindOrDrop(s, ps)
    PROVE  Rewrites(s, ps) /\ (ps = <<>> => s \notin DOMAIN services')
<1>1. DOMAIN services' =
          IF ps = <<>> THEN DOMAIN services \ {s} ELSE DOMAIN services \cup {s}
  BY BindOrDropEffect
<1>2. \A t \in DOMAIN services' : services'[t] = IF t = s THEN ps ELSE services[t]
  BY DEF Bind, BindOrDrop
<1> QED
  BY <1>1, <1>2 DEF Rewrites

\* A request rewrites one vector, in one of four ways.
RequestRewrites(s, id, ps) ==
    \/ \E h \in Hosts, i \in DOMAIN ProvidersOf(s) :
          /\ ps = Moved(ProvidersOf(s), i, h)
          /\ leases' = leases /\ ps # <<>>
    \/ \E h \in Hosts :
          /\ findProvider(ProvidersOf(s), id) = {}
          /\ ps = Append(ProvidersOf(s), NewProvider(id, h))
          /\ leases' = [leases EXCEPT ![s][id] = now]
    \/ \E i \in findProvider(ProvidersOf(s), id) :
          /\ ps = RemoveAt(ProvidersOf(s), i)
          /\ ps = <<>> => s \notin DOMAIN services'
          /\ leases' = [leases EXCEPT ![s][id] = Never]
    \/ \E i \in findProvider(ProvidersOf(s), id) :
          /\ ps = Stamped(ProvidersOf(s), i) /\ ps # <<>>
          /\ leases' = [leases EXCEPT ![s][id] = now]

LEMMA RequestEffect ==
    ASSUME TypeOK, Request
    PROVE  \E s \in Services, id \in ProviderIds, ps \in Seq(Provider) :
               Rewrites(s, ps) /\ RequestRewrites(s, id, ps)
<1>1. PICK s \in Services, id \in ProviderIds :
        \/ \E h \in Hosts : handleRegisterRequest(s, id, h)
        \/ handleUnregisterRequest(s, id)
        \/ handleHeartbeatRequest(s, id)
  BY DEF Request
<1> DEFINE old == ProvidersOf(s)
<1>2. old \in Seq(Provider)
  BY ProvidersType
<1>4. CASE \E h \in Hosts : handleRegisterRequest(s, id, h)
  <2>1. PICK h \in Hosts : RegisterKnown(s, id, h) \/ RegisterNew(s, id, h)
    BY <1>4 DEF handleRegisterRequest
  <2>2. CASE RegisterKnown(s, id, h)
    <3>1. PICK i \in findProvider(old, id) :
              services' = Bind(s, Moved(old, i, h)) /\ leases' = leases
      BY <2>2 DEF RegisterKnown
    <3>2. i \in 1..Len(old) /\ i \in DOMAIN old
      BY <1>2, FindProviderProperties, LenProperties
    <3>3. Moved(old, i, h) \in Seq(Provider) /\ Moved(old, i, h) # <<>>
      BY <1>2, <3>2, EntryType, EntryEffect DEF TypeOK, Instant
    <3>4. Rewrites(s, Moved(old, i, h))
      BY <3>1, <3>3, BindRewrites
    <3>5. RequestRewrites(s, id, Moved(old, i, h))
      BY <3>1, <3>2, <3>3 DEF RequestRewrites
    <3> QED
      BY <3>3, <3>4, <3>5
  <2>3. CASE RegisterNew(s, id, h)
    <3>1. NewProvider(id, h) \in Provider
      BY DEF TypeOK, NewProvider, Provider, Instant
    <3>2. Append(old, NewProvider(id, h)) \in Seq(Provider)
      BY <1>2, <3>1, AppendProperties
    <3>3. Rewrites(s, Append(old, NewProvider(id, h)))
      BY <2>3, <3>2, BindRewrites DEF RegisterNew
    <3>4. RequestRewrites(s, id, Append(old, NewProvider(id, h)))
      BY <2>3 DEF RegisterNew, RequestRewrites
    <3> QED
      BY <3>2, <3>3, <3>4
  <2> QED
    BY <2>1, <2>2, <2>3
<1>5. CASE handleUnregisterRequest(s, id)
  <2>1. PICK i \in findProvider(old, id) :
            services' = BindOrDrop(s, RemoveAt(old, i))
    BY <1>5 DEF handleUnregisterRequest
  <2>2. RemoveAt(old, i) \in Seq(Provider)
    BY <1>2, FindProviderProperties, LenProperties, RemoveAtProperties
  <2>3. /\ Rewrites(s, RemoveAt(old, i))
        /\ RemoveAt(old, i) = <<>> => s \notin DOMAIN services'
    BY <2>1, <2>2, BindOrDropRewrites
  <2>4. RequestRewrites(s, id, RemoveAt(old, i))
    BY <1>5, <2>3 DEF handleUnregisterRequest, RequestRewrites
  <2> QED
    BY <2>2, <2>3, <2>4
<1>6. CASE handleHeartbeatRequest(s, id)
  <2>1. PICK i \in findProvider(old, id) : services' = Bind(s, Stamped(old, i))
    BY <1>6 DEF handleHeartbeatRequest
  <2>2. i \in 1..Len(old) /\ i \in DOMAIN old
    BY <1>2, FindProviderProperties, LenProperties
  <2>3. Stamped(old, i) \in Seq(Provider) /\ Stamped(old, i) # <<>>
    BY <1>2, <2>2, EntryType DEF TypeOK, Instant, Stamped
  <2>4. Rewrites(s, Stamped(old, i))
    BY <2>1, <2>3, BindRewrites
  <2>5. RequestRewrites(s, id, Stamped(old, i))
    BY <1>6, <2>3 DEF handleHeartbeatRequest, RequestRewrites
  <2> QED
    BY <2>3, <2>4, <2>5
<1> QED
  BY <1>1, <1>4, <1>5, <1>6

-----------------------------------------------------------------------------
(* The inductive invariant.                                                *)

LEMMA InitInductive == Init => IInv
<1> SUFFICES ASSUME Init PROVE IInv
  OBVIOUS
<1>1. TypeOK
  BY InitType
<1>2. DOMAIN services = {}
  BY DEF Init
<1>3. ScanShape /\ UniqueProviders /\ EmptyIsCurrent /\ NoneMissed
  BY <1>2 DEF Init, ScanShape, UniqueProviders, EmptyIsCurrent, NoneMissed, LockFree
<1>4. Schedule
  BY RegistryAssumption DEF Init, Schedule, Deadline
<1>5. LeaseListed
  BY DEF Init, LeaseListed, NobodyHeard
<1> QED
  BY <1>1, <1>3, <1>4, <1>5 DEF IInv

\* A request finds the lock free, so it disturbs nothing of the scan; each of
\* the four rewritings keeps the vector free of duplicates and stale entries.
LEMMA RequestInductive ==
    ASSUME IInv, Request
    PROVE  IInv'
<1> USE DEF IInv
<1>1. LockFree /\ LockFree' /\ UNCHANGED <<now, reaper>>
  BY DEF Request, handleRegisterRequest, handleUnregisterRequest,
         handleHeartbeatRequest, LockFree, reaper
<1>2. PICK s \in Services, id \in ProviderIds, ps \in Seq(Provider) :
          Rewrites(s, ps) /\ RequestRewrites(s, id, ps)
  BY RequestEffect
<1> DEFINE old == ProvidersOf(s)
<1>3. old \in Seq(Provider)
  BY ProvidersType
<1>4. TypeOK'
  BY NextType DEF Next
<1>5. ScanShape'
  BY <1>1 DEF ScanShape, LockFree, reaper
<1>6. Schedule'
  BY <1>1 DEF Schedule, Deadline, reaper
<1>7. EmptyIsCurrent'
  <2>1. \A t \in DOMAIN services : services[t] # <<>>
    BY <1>1 DEF EmptyIsCurrent, LockFree
  <2>2. ps = <<>> => s \notin DOMAIN services'
    BY <1>2, <1>3, AppendProperties DEF RequestRewrites
  <2> QED
    BY <1>2, <2>1, <2>2 DEF EmptyIsCurrent, Rewrites
<1>8. /\ \A i \in DOMAIN old : old[i] \in Provider /\ old[i].lastHeartbeat + Timeout >= swept
      /\ \A i, j \in DOMAIN old : old[i].identifier = old[j].identifier => i = j
  BY <1>3 DEF ProvidersOf, NoneMissed, UniqueProviders
<1>9. now + Timeout >= swept
  BY RegistryAssumption DEF Schedule, TypeOK, Instant
<1> DEFINE Good == /\ \A i, j \in DOMAIN ps : ps[i].identifier = ps[j].identifier => i = j
                   /\ \A i \in DOMAIN ps : ps[i].lastHeartbeat + Timeout >= swept
           \* Provider q has an entry in ps stamped at t.
           Has(q, t) == \E i \in DOMAIN ps : ps[i].identifier = q /\ ps[i].lastHeartbeat = t
           Had(q, t) == \E i \in DOMAIN old : old[i].identifier = q /\ old[i].lastHeartbeat = t
           OthersStay == \A q \in ProviderIds \ {id} : \A t : Had(q, t) => Has(q, t)
<1>10. Good /\ OthersStay
       /\ \/ leases' = leases /\ \A t : Had(id, t) => Has(id, t)
          \/ leases' = [leases EXCEPT ![s][id] = now] /\ Has(id, now)
          \/ leases' = [leases EXCEPT ![s][id] = Never]
  <2>1. ASSUME NEW h \in Hosts, NEW i \in DOMAIN old,
               ps = Moved(old, i, h), leases' = leases
        PROVE  <1>10!:
    <3>1. i \in 1..Len(old)
      BY <1>3, LenProperties
    <3>2. /\ DOMAIN ps = DOMAIN old
          /\ \A j \in DOMAIN old : /\ ps[j].identifier = old[j].identifier
                                   /\ ps[j].lastHeartbeat = old[j].lastHeartbeat
      BY <1>3, <2>1, <3>1, EntryEffect DEF TypeOK, Instant
    <3> QED
      BY <1>8, <2>1, <3>2
  <2>2. ASSUME NEW h \in Hosts, findProvider(old, id) = {},
               ps = Append(old, NewProvider(id, h)),
               leases' = [leases EXCEPT ![s][id] = now]
        PROVE  <1>10!:
    <3>1. \A j \in DOMAIN old : old[j].identifier # id
      BY <1>3, <2>2, FindProviderFinds
    <3>2. /\ NewProvider(id, h) \in Provider
          /\ NewProvider(id, h).identifier = id
          /\ NewProvider(id, h).lastHeartbeat = now
      BY DEF NewProvider, Provider, TypeOK, Instant
    <3>3. /\ DOMAIN ps = 1..(Len(old) + 1) /\ DOMAIN old = 1..Len(old)
          /\ \A j \in 1..Len(old) : ps[j] = old[j]
          /\ ps[Len(old) + 1] = NewProvider(id, h)
      BY <1>3, <2>2, <3>2, AppendProperties, LenProperties
    <3>4. Good
      BY <1>3, <1>8, <1>9, <3>1, <3>2, <3>3, LenProperties
    <3>5. OthersStay /\ Has(id, now)
      BY <1>3, <3>2, <3>3, LenProperties
    <3> QED
      BY <2>2, <3>4, <3>5
  <2>3. ASSUME NEW i \in findProvider(old, id), ps = RemoveAt(old, i),
               leases' = [leases EXCEPT ![s][id] = Never]
        PROVE  <1>10!:
    <3>1. i \in 1..Len(old) /\ old[i].identifier = id
      BY <1>3, FindProviderProperties, LenProperties
    <3>2. /\ DOMAIN ps = 1..(Len(old) - 1) /\ DOMAIN old = 1..Len(old)
          /\ Len(old) \in Nat
          /\ \A j \in 1..(Len(old) - 1) : ps[j] = IF j < i THEN old[j] ELSE old[j + 1]
      BY <1>3, <2>3, <3>1, RemoveAtProperties, LenProperties
    <3>3. Good
      <4> DEFINE from(j) == IF j < i THEN j ELSE j + 1
      <4>1. \A j \in DOMAIN ps : from(j) \in DOMAIN old /\ ps[j] = old[from(j)]
        BY <3>1, <3>2
      <4>2. \A j, k \in DOMAIN ps : from(j) = from(k) => j = k
        BY <3>1, <3>2
      <4> HIDE DEF from
      <4>3. \A j, k \in DOMAIN ps : ps[j].identifier = ps[k].identifier => j = k
        BY <1>8, <4>1, <4>2
      <4>4. \A j \in DOMAIN ps : ps[j].lastHeartbeat + Timeout >= swept
        BY <1>8, <4>1
      <4> QED
        BY <4>3, <4>4
    <3>4. ASSUME NEW q \in ProviderIds \ {id}, NEW t, Had(q, t)
          PROVE  Has(q, t)
      <4>1. PICK j \in DOMAIN old : old[j].identifier = q /\ old[j].lastHeartbeat = t
        BY <3>4
      <4>2. j # i
        BY <3>1, <4>1
      <4>3. CASE j < i
        BY <3>1, <3>2, <4>1, <4>3
      <4>4. CASE j > i
        <5>1. j - 1 \in DOMAIN ps /\ ps[j - 1] = old[j]
          BY <3>1, <3>2, <4>1, <4>4
        <5> QED
          BY <4>1, <5>1
      <4> QED
        BY <3>1, <3>2, <4>2, <4>3, <4>4
    <3> QED
      BY <2>3, <3>3, <3>4
  <2>4. ASSUME NEW i \in findProvider(old, id), ps = Stamped(old, i),
               leases' = [leases EXCEPT ![s][id] = now]
        PROVE  <1>10!:
    <3>1. i \in 1..Len(old) /\ i \in DOMAIN old /\ old[i].identifier = id
      BY <1>3, FindProviderProperties, LenProperties
    <3>2. PICK h \in Hosts : TRUE
      BY <1>3, <3>1 DEF Provider
    <3>3. /\ DOMAIN ps = DOMAIN old
          /\ \A j \in DOMAIN old :
                /\ ps[j].identifier = old[j].identifier
                /\ ps[j].lastHeartbeat = IF j = i THEN now ELSE old[j].lastHeartbeat
      BY <1>3, <2>4, <3>1, <3>2, EntryEffect DEF TypeOK, Instant
    <3>4. Good
      BY <1>8, <1>9, <3>3
    <3>5. OthersStay /\ Has(id, now)
      BY <3>1, <3>3
    <3> QED
      BY <2>4, <3>4, <3>5
  <2> QED
    BY <1>2, <2>1, <2>2, <2>3, <2>4 DEF RequestRewrites
<1>11. UniqueProviders'
  BY <1>2, <1>10 DEF UniqueProviders, Rewrites
<1>12. NoneMissed'
  BY <1>1, <1>2, <1>10 DEF NoneMissed, Rewrites, Kept, reaper
<1>13. LeaseListed'
  <2> SUFFICES ASSUME NEW t \in Services, NEW q \in ProviderIds,
                      leases'[t][q] # Never, now - leases'[t][q] <= Timeout
               PROVE  /\ t \in DOMAIN services'
                      /\ \E i \in DOMAIN services'[t] :
                            /\ services'[t][i].identifier = q
                            /\ services'[t][i].lastHeartbeat = leases'[t][q]
    BY <1>1 DEF LeaseListed
  <2>1. CASE t # s
    <3>1. leases'[t][q] = leases[t][q]
      BY <1>10, <2>1 DEF TypeOK
    <3> QED
      BY <1>2, <2>1, <3>1 DEF LeaseListed, Rewrites
  <2>2. CASE t = s /\ q # id
    <3>1. leases'[s][q] = leases[s][q]
      BY <1>10, <2>2 DEF TypeOK
    <3>2. Had(q, leases[s][q])
      BY <2>2, <3>1 DEF LeaseListed, ProvidersOf
    <3>3. Has(q, leases[s][q])
      BY <1>10, <2>2, <3>2
    <3> QED
      BY <1>2, <2>2, <3>1, <3>3 DEF Rewrites
  <2>3. CASE t = s /\ q = id
    <3>1. CASE leases' = leases /\ \A u : Had(id, u) => Has(id, u)
      <4>1. Had(id, leases[s][id])
        BY <2>3, <3>1 DEF LeaseListed, ProvidersOf
      <4> QED
        BY <1>2, <2>3, <3>1, <4>1 DEF Rewrites
    <3>2. CASE leases' = [leases EXCEPT ![s][id] = now] /\ Has(id, now)
      <4>1. leases'[s][id] = now
        BY <3>2 DEF TypeOK
      <4> QED
        BY <1>2, <2>3, <3>2, <4>1 DEF Rewrites
    <3>3. CASE leases' = [leases EXCEPT ![s][id] = Never]
      BY <2>3, <3>3 DEF TypeOK
    <3> QED
      BY <1>10, <3>1, <3>2, <3>3
  <2> QED
    BY <2>1, <2>2, <2>3
<1> QED
  BY <1>4, <1>5, <1>6, <1>7, <1>11, <1>12, <1>13

\* The steps of the reaper that leave the registry as it is.
LEMMA IdleInductive ==
    ASSUME IInv, \/ ReaperWake \/ ReaperLock \/ \E s \in Services : VisitService(s)
                 \/ KeepProvider \/ ReaperUnlock \/ Tick \/ UNCHANGED vars
    PROVE  IInv'
<1> USE DEF IInv
<1>1. TypeOK'
  BY NextType DEF Next, ReaperStep
<1>2. CASE ReaperWake
  <2>1. Schedule'
    BY <1>2, RegistryAssumption DEF ReaperWake, Schedule, Deadline, TypeOK, Instant
  <2>2. ScanShape' /\ UniqueProviders' /\ EmptyIsCurrent' /\ NoneMissed' /\ LeaseListed'
    BY <1>2 DEF ReaperWake, ScanShape, UniqueProviders, EmptyIsCurrent, NoneMissed,
                LeaseListed, LockFree, Kept
  <2> QED
    BY <1>1, <2>1, <2>2
<1>3. CASE ReaperLock
  <2>1. ScanShape' /\ UniqueProviders' /\ EmptyIsCurrent' /\ NoneMissed' /\ LeaseListed'
    BY <1>3 DEF ReaperLock, ScanShape, UniqueProviders, EmptyIsCurrent, NoneMissed,
                LeaseListed, LockFree, Kept
  <2>2. Schedule'
    BY <1>3 DEF ReaperLock, Schedule, Deadline
  <2> QED
    BY <1>1, <2>1, <2>2
<1>4. ASSUME NEW s \in Services, VisitService(s)
      PROVE  IInv'
  <2>1. ScanShape'
    BY <1>4 DEF VisitService, ScanShape, LockFree, TypeOK
  <2>2. UniqueProviders' /\ EmptyIsCurrent' /\ LeaseListed'
    BY <1>4 DEF VisitService, UniqueProviders, EmptyIsCurrent, LeaseListed
  <2>3. NoneMissed'
    BY <1>4 DEF VisitService, NoneMissed, LockFree, Kept, TypeOK
  <2>4. Schedule'
    BY <1>4 DEF VisitService, Schedule, Deadline
  <2> QED
    BY <1>1, <2>1, <2>2, <2>3, <2>4
<1>5. CASE KeepProvider
  <2>1. /\ cur \in DOMAIN services /\ ProvidersOf(cur) = services[cur]
        /\ services[cur][idx].lastHeartbeat + Timeout >= snapshot
    <3>1. cur \in DOMAIN services /\ ProvidersOf(cur) = services[cur]
      BY <1>5 DEF KeepProvider, ScanShape, ProvidersOf
    <3>2. services[cur][idx] \in Provider
      BY <1>5, <3>1, ProvidersType DEF KeepProvider
    <3> QED
      BY <1>5, <3>1, <3>2, RegistryAssumption
      DEF KeepProvider, Unresponsive, Provider, TypeOK, Instant
  <2>2. ScanShape'
    BY <1>5, <2>1 DEF KeepProvider, ScanShape, LockFree, TypeOK
  <2>3. UniqueProviders' /\ EmptyIsCurrent' /\ LeaseListed'
    BY <1>5 DEF KeepProvider, UniqueProviders, EmptyIsCurrent, LeaseListed
  <2>4. NoneMissed'
    BY <1>5, <2>1 DEF KeepProvider, NoneMissed, LockFree, Kept, TypeOK
  <2>5. Schedule'
    BY <1>5 DEF KeepProvider, Schedule, Deadline
  <2> QED
    BY <1>1, <2>2, <2>3, <2>4, <2>5
<1>6. CASE ReaperUnlock
  <2>1. ScanShape' /\ UniqueProviders' /\ LeaseListed' /\ EmptyIsCurrent'
    BY <1>6 DEF ReaperUnlock, ScanShape, UniqueProviders, EmptyIsCurrent, LeaseListed, LockFree
  <2>2. NoneMissed'
    BY <1>6 DEF ReaperUnlock, NoneMissed, LockFree, Kept
  <2>3. Schedule'
    BY <1>6, RegistryAssumption DEF ReaperUnlock, Schedule, Deadline, TypeOK, Instant
  <2> QED
    BY <1>1, <2>1, <2>2, <2>3
<1>7. CASE Tick
  <2>1. ScanShape' /\ UniqueProviders' /\ EmptyIsCurrent' /\ NoneMissed'
    BY <1>7 DEF Tick, reaper, ScanShape, UniqueProviders, EmptyIsCurrent, NoneMissed,
                LockFree, Kept
  <2>2. LeaseListed'
    <3>1. \A t \in Services, q \in ProviderIds :
              leases[t][q] # Never => leases[t][q] \in Nat
      BY DEF TypeOK, Instant
    <3>2. \A t \in Services, q \in ProviderIds :
              leases[t][q] # Never /\ now' - leases[t][q] <= Timeout
                => now - leases[t][q] <= Timeout
      BY <1>7, <3>1, RegistryAssumption DEF Tick, TypeOK, Instant
    <3> QED
      BY <1>7, <3>2 DEF Tick, LeaseListed
  <2>3. Schedule'
    BY <1>7, RegistryAssumption, SMTT(30) DEF Tick, reaper, Schedule, Deadline, TypeOK, Instant
  <2> QED
    BY <1>1, <2>1, <2>2, <2>3
<1>8. CASE UNCHANGED vars
  BY <1>1, <1>8 DEF vars, reaper, ScanShape, UniqueProviders, EmptyIsCurrent, NoneMissed,
                    LeaseListed, LockFree, Kept, Schedule, Deadline
<1> QED
  BY <1>2, <1>3, <1>4, <1>5, <1>6, <1>7, <1>8

\* Erasing a stale provider takes away no lease that still runs and leaves the
\* iterator on the provider that comes next.
LEMMA EraseInductive ==
    ASSUME IInv, EraseProvider
    PROVE  IInv'
<1> USE DEF IInv
<1> DEFINE old == services[cur]
           ps == RemoveAt(old, idx)
<1>1. /\ cur \in DOMAIN services /\ cur \in Services /\ ProvidersOf(cur) = old
      /\ reaperPc = "visiting" /\ ~LockFree /\ ~LockFree'
      /\ idx \in DOMAIN old /\ Unresponsive(old[idx])
      /\ UNCHANGED <<now, leases>> /\ UNCHANGED reaper
  BY DEF EraseProvider, ScanShape, ProvidersOf, TypeOK, LockFree, reaper
<1>2. old \in Seq(Provider)
  BY <1>1, ProvidersType
<1>3. idx \in 1..Len(old)
  BY <1>1, <1>2, LenProperties
<1>4. /\ ps \in Seq(Provider)
      /\ DOMAIN ps = 1..(Len(old) - 1) /\ DOMAIN old = 1..Len(old) /\ Len(old) \in Nat
      /\ Len(ps) = Len(old) - 1
      /\ \A j \in 1..(Len(old) - 1) : ps[j] = IF j < idx THEN old[j] ELSE old[j + 1]
  <2>1. /\ ps \in Seq(Provider) /\ Len(ps) = Len(old) - 1
        /\ \A j \in 1..(Len(old) - 1) : ps[j] = IF j < idx THEN old[j] ELSE old[j + 1]
    BY <1>2, <1>3, RemoveAtProperties
  <2> HIDE DEF ps, old
  <2>2. DOMAIN ps = 1..Len(ps) /\ DOMAIN old = 1..Len(old) /\ Len(old) \in Nat
    BY <1>2, <2>1, LenProperties
  <2> QED
    BY <2>1, <2>2
<1>5. services' = Bind(cur, ps)
  BY <1>1 DEF EraseProvider
<1> HIDE DEF ps
<1>6. /\ DOMAIN services' = DOMAIN services
      /\ \A t \in DOMAIN services : services'[t] = IF t = cur THEN ps ELSE services[t]
  BY <1>1, <1>5 DEF Bind
<1>7. TypeOK'
  BY NextType DEF Next, ReaperStep
<1>8. ScanShape'
  BY <1>1, <1>3, <1>4, <1>6 DEF ScanShape, reaper
<1>9. EmptyIsCurrent'
  BY <1>1, <1>6 DEF EmptyIsCurrent, reaper
<1>10. Schedule'
  BY <1>1 DEF Schedule, Deadline, reaper
<1> DEFINE from(j) == IF j < idx THEN j ELSE j + 1
<1>11. /\ \A j \in DOMAIN ps : from(j) \in DOMAIN old /\ ps[j] = old[from(j)]
       /\ \A j, k \in DOMAIN ps : from(j) = from(k) => j = k
       /\ \A j \in DOMAIN ps : j < idx => from(j) < idx
  BY <1>3, <1>4, SMTT(30)
<1> HIDE DEF from
<1>12. UniqueProviders'
  <2>1. \A j, k \in DOMAIN ps : ps[j].identifier = ps[k].identifier => j = k
    BY <1>1, <1>11 DEF UniqueProviders
  <2> QED
    BY <1>6, <2>1 DEF UniqueProviders
<1>13. NoneMissed'
  <2> SUFFICES ASSUME NEW t \in DOMAIN services, NEW i \in DOMAIN services'[t]
               PROVE  /\ services'[t][i].lastHeartbeat + Timeout >= swept
                      /\ Kept(t, i)' => services'[t][i].lastHeartbeat + Timeout >= snapshot
    BY <1>1, <1>6 DEF NoneMissed, reaper
  <2>1. CASE t # cur
    BY <1>1, <1>6, <2>1 DEF NoneMissed, Kept, reaper
  <2>2. CASE t = cur
    <3>1. i \in DOMAIN ps /\ services'[t][i] = old[from(i)] /\ from(i) \in DOMAIN old
      BY <1>6, <1>11, <2>2
    <3>2. Kept(t, i)' => Kept(t, from(i))
      BY <1>1, <1>11, <2>2, <3>1 DEF Kept, reaper
    <3> QED
      BY <1>1, <2>2, <3>1, <3>2 DEF NoneMissed
  <2> QED
    BY <2>1, <2>2
<1>14. LeaseListed'
  <2> SUFFICES ASSUME NEW t \in Services, NEW q \in ProviderIds,
                      leases[t][q] # Never, now - leases[t][q] <= Timeout
               PROVE  /\ t \in DOMAIN services'
                      /\ \E i \in DOMAIN services'[t] :
                            /\ services'[t][i].identifier = q
                            /\ services'[t][i].lastHeartbeat = leases[t][q]
    BY <1>1 DEF LeaseListed
  <2>1. CASE t # cur
    BY <1>6, <2>1 DEF LeaseListed
  <2>2. CASE t = cur
    <3>1. PICK j \in DOMAIN old : /\ old[j].identifier = q
                                  /\ old[j].lastHeartbeat = leases[t][q]
      BY <2>2 DEF LeaseListed
    <3>2. j # idx
      BY <1>1, <3>1, RegistryAssumption, SMTT(30) DEF Unresponsive, Schedule, TypeOK, Instant
    <3>3. CASE j < idx
      <4>1. j \in DOMAIN ps /\ ps[j] = old[j]
        BY <1>3, <1>4, <3>3
      <4> QED
        BY <1>1, <1>6, <2>2, <3>1, <4>1
    <3>4. CASE j > idx
      <4>1. j - 1 \in DOMAIN ps /\ ps[j - 1] = old[j]
        BY <1>3, <1>4, <3>4
      <4> QED
        BY <1>1, <1>6, <2>2, <3>1, <4>1
    <3> QED
      BY <1>3, <1>4, <3>2, <3>3, <3>4
  <2> QED
    BY <2>1, <2>2
<1> QED
  BY <1>7, <1>8, <1>9, <1>10, <1>12, <1>13, <1>14

\* Leaving a service drops it if the scan has emptied it.
LEMMA LeaveInductive ==
    ASSUME IInv, LeaveService
    PROVE  IInv'
<1> USE DEF IInv
<1>1. /\ cur \in DOMAIN services /\ ProvidersOf(cur) = services[cur]
      /\ reaperPc = "visiting" /\ reaperPc' = "scanning"
      /\ idx > Len(services[cur]) /\ cur \notin todo
      /\ UNCHANGED <<now, wake, snapshot, todo, swept, leases>>
  BY DEF LeaveService, ScanShape, ProvidersOf
<1>2. services[cur] \in Seq(Provider)
  BY <1>1, ProvidersType
<1>3. services' = BindOrDrop(cur, services[cur])
  BY <1>1 DEF LeaveService
<1>4. /\ DOMAIN services' \subseteq DOMAIN services
      /\ \A t \in DOMAIN services' : services'[t] = services[t] /\ services'[t] # <<>>
      /\ \A t \in DOMAIN services : services[t] # <<>> => t \in DOMAIN services'
      /\ DOMAIN services \ {cur} \subseteq DOMAIN services'
  BY <1>1, <1>3 DEF BindOrDrop, Bind, EmptyIsCurrent
<1>5. TypeOK'
  BY NextType DEF Next, ReaperStep
<1>6. ScanShape'
  BY <1>1, <1>4 DEF ScanShape, LockFree
<1>7. EmptyIsCurrent' /\ UniqueProviders'
  BY <1>4 DEF EmptyIsCurrent, UniqueProviders
<1>8. Schedule'
  BY <1>1 DEF Schedule, Deadline
<1>9. NoneMissed'
  <2>1. \A t \in DOMAIN services : \A i \in DOMAIN services[t] : Kept(t, i)' => Kept(t, i)
    BY <1>1, <1>2, LenProperties DEF Kept, LockFree, TypeOK
  <2> QED
    BY <1>1, <1>4, <2>1 DEF NoneMissed
<1>10. LeaseListed'
  <2>1. \A t \in DOMAIN services : \A i \in DOMAIN services[t] : t \in DOMAIN services'
    BY <1>4
  <2> QED
    BY <1>1, <1>4, <2>1 DEF LeaseListed
<1> QED
  BY <1>5, <1>6, <1>7, <1>8, <1>9, <1>10

LEMMA RestartInductive ==
    ASSUME IInv, Restart
    PROVE  IInv'
<1> USE DEF IInv
<1>1. TypeOK'
  BY NextType DEF Next
<1>2. ScanShape' /\ UniqueProviders' /\ EmptyIsCurrent' /\ NoneMissed'
  BY DEF Restart, ScanShape, UniqueProviders, EmptyIsCurrent, NoneMissed, LockFree
<1>3. LeaseListed'
  BY DEF Restart, LeaseListed, NobodyHeard
<1>4. Schedule'
  BY RegistryAssumption DEF Restart, Schedule, Deadline, TypeOK, Instant
<1> QED
  BY <1>1, <1>2, <1>3, <1>4

LEMMA NextInductive == IInv /\ [Next]_vars => IInv'
BY RequestInductive, IdleInductive, EraseInductive, LeaveInductive, RestartInductive
DEF Next, ReaperStep

\* Every reachable state satisfies the inductive invariant: a scan is always
\* well placed, on time, and misses no stale provider.
THEOREM Invariance == Spec => []IInv
BY InitInductive, NextInductive, PTL DEF Spec

-----------------------------------------------------------------------------
(* The safety properties.                                                  *)

\* No identifier is ever twice among the providers of a service.
THEOREM ProvidersUnique == Spec => []UniqueProviders
<1>1. IInv => UniqueProviders
  BY DEF IInv
<1> QED
  BY Invariance, <1>1, PTL

\* Whoever takes the lock finds no service without providers.
THEOREM NoServiceEmpty == Spec => []NoEmptyService
<1>1. IInv => NoEmptyService
  BY DEF IInv, EmptyIsCurrent, NoEmptyService, LockFree
<1> QED
  BY Invariance, <1>1, PTL

LEMMA StalenessType == MaxStaleness \in Nat
  BY RegistryAssumption DEF MaxStaleness

\* The inductive invariant bounds how stale a provider can be.
LEMMA StalenessFromInv == IInv => StalenessBound
<1> SUFFICES ASSUME IInv, NEW s \in DOMAIN services, NEW i \in DOMAIN services[s]
             PROVE  now - services[s][i].lastHeartbeat <= MaxStaleness
  BY DEF StalenessBound
<1>1. services[s][i].lastHeartbeat \in Nat
  <2>1. services[s] \in Seq(Provider)
    BY DEF IInv, TypeOK
  <2>2. services[s][i] \in Provider
    BY <2>1
  <2> QED
    BY <2>2 DEF Provider, Instant
<1>2. services[s][i].lastHeartbeat + Timeout >= swept
  BY DEF IInv, NoneMissed
<1>3. /\ now \in Nat /\ swept \in Nat /\ wake \in Nat /\ snapshot \in Nat
      /\ Timeout \in Nat /\ ReaperInterval \in Nat /\ MaxLag \in Nat
  BY RegistryAssumption DEF IInv, TypeOK, Instant
<1>4. now <= swept + ReaperInterval + MaxLag + MaxLag + MaxLag
  <2>1. CASE reaperPc = "asleep"
    BY <1>3, <2>1 DEF IInv, Schedule, Deadline
  <2>2. CASE reaperPc # "asleep"
    BY <1>3, <2>2 DEF IInv, Schedule, Deadline
  <2> QED
    BY <2>1, <2>2
<1>5. MaxStaleness = Timeout + ReaperInterval + MaxLag + MaxLag + MaxLag
  BY <1>3 DEF MaxStaleness
<1> HIDE DEF MaxStaleness
<1> QED
  BY <1>1, <1>2, <1>3, <1>4, <1>5

\* No provider stays listed longer than MaxStaleness after its last time stamp,
\* for every timeout, reaper interval and scheduling delay.
THEOREM StalenessBounded == Spec => []StalenessBound
BY Invariance, StalenessFromInv, PTL

\* A provider whose heartbeat was answered Ok is listed for the whole timeout,
\* whatever the reaper is doing meanwhile.
THEOREM LeasesHeld == Spec => []LeaseHeld
<1>1. IInv => LeaseHeld
  BY DEF IInv, LeaseListed, LeaseHeld, Listed, ProvidersOf
<1> QED
  BY Invariance, <1>1, PTL

-----------------------------------------------------------------------------
(* The answer to RESOLVE.                                                  *)

\* The provider at the front of ps is at the front of qs, or is not in it.
Sticks(ps, qs) ==
    ps # <<>> => \/ qs # <<>> /\ Head(qs).identifier = Head(ps).identifier
                 \/ \A i \in DOMAIN qs : qs[i].identifier # Head(ps).identifier

LEMMA RemoveSticks ==
    ASSUME NEW ps \in Seq(Provider), NEW i \in 1..Len(ps),
           \A j, k \in DOMAIN ps : ps[j].identifier = ps[k].identifier => j = k
    PROVE  Sticks(ps, RemoveAt(ps, i))
<1> DEFINE rest == RemoveAt(ps, i)
<1>1. /\ rest \in Seq(Provider) /\ Len(rest) = Len(ps) - 1 /\ Len(ps) \in Nat \ {0}
      /\ \A j \in 1..(Len(ps) - 1) : rest[j] = IF j < i THEN ps[j] ELSE ps[j + 1]
  BY RemoveAtProperties
<1> HIDE DEF rest
<1>2. Head(ps) = ps[1] /\ 1 \in DOMAIN ps
  BY <1>1
<1>3. CASE i = 1
  <2>1. ASSUME NEW j \in DOMAIN rest PROVE rest[j].identifier # ps[1].identifier
    <3>1. j \in 1..(Len(ps) - 1) /\ rest[j] = ps[j + 1]
      BY <1>1, <1>3, <2>1
    <3>2. j + 1 \in DOMAIN ps /\ j + 1 # 1
      BY <1>1, <3>1
    <3> QED
      BY <1>2, <3>1, <3>2
  <2> QED
    BY <1>2, <2>1 DEF Sticks, rest
<1>4. CASE i # 1
  <2>1. 1 \in 1..(Len(ps) - 1) /\ 1 < i
    BY <1>1, <1>4
  <2>2. rest[1] = ps[1] /\ rest # <<>> /\ Head(rest) = rest[1]
    BY <1>1, <2>1
  <2> QED
    BY <1>2, <2>2 DEF Sticks, rest
<1> QED
  BY <1>3, <1>4

LEMMA RewriteSticks ==
    ASSUME NEW t, NEW ps, Rewrites(t, ps), Sticks(ProvidersOf(t), ps)
    PROVE  \A s \in Services : Sticks(ProvidersOf(s), ProvidersOf(s)')
<1> SUFFICES ASSUME NEW s \in Services PROVE Sticks(ProvidersOf(s), ProvidersOf(s)')
  OBVIOUS
<1>1. CASE s = t
  <2>1. ProvidersOf(s)' = ps
    BY <1>1 DEF Rewrites, ProvidersOf
  <2> QED
    BY <1>1, <2>1
<1>2. CASE s # t
  <2>1. ProvidersOf(s)' = ProvidersOf(s)
    BY <1>2 DEF Rewrites, ProvidersOf
  <2> QED
    BY <2>1 DEF Sticks
<1> QED
  BY <1>1, <1>2

LEMMA RequestSticks ==
    ASSUME IInv, Request
    PROVE  \A s \in Services : Sticks(ProvidersOf(s), ProvidersOf(s)')
<1>1. PICK s \in Services, id \in ProviderIds, ps \in Seq(Provider) :
          Rewrites(s, ps) /\ RequestRewrites(s, id, ps)
  BY RequestEffect DEF IInv
<1> DEFINE old == ProvidersOf(s)
<1>2. /\ old \in Seq(Provider) /\ now \in Nat
      /\ \A j, k \in DOMAIN old : old[j].identifier = old[k].identifier => j = k
  BY ProvidersType DEF IInv, UniqueProviders, ProvidersOf, TypeOK, Instant
<1> HIDE DEF old
<1>3. Sticks(old, ps)
  <2>1. ASSUME NEW i \in DOMAIN old, NEW h \in Hosts, ps = Moved(old, i, h) \/ ps = Stamped(old, i)
        PROVE  Sticks(old, ps)
    <3>1. DOMAIN ps = DOMAIN old /\ \A j \in DOMAIN old : ps[j].identifier = old[j].identifier
      <4>1. i \in 1..Len(old)
        BY <1>2, LenProperties
      <4>2. /\ DOMAIN Moved(old, i, h) = DOMAIN old /\ DOMAIN Stamped(old, i) = DOMAIN old
            /\ \A j \in DOMAIN old : /\ Moved(old, i, h)[j].identifier = old[j].identifier
                                   /\ Stamped(old, i)[j].identifier = old[j].identifier
        BY <1>2, <4>1, EntryEffect
      <4>3. CASE ps = Moved(old, i, h)
        BY <4>2, <4>3
      <4>4. CASE ps = Stamped(old, i)
        BY <4>2, <4>4
      <4> QED
        BY <2>1, <4>3, <4>4
    <3>2. old # <<>> => ps # <<>> /\ Head(ps) = ps[1] /\ Head(old) = old[1] /\ 1 \in DOMAIN old
      BY <1>1, <1>2, <3>1
    <3> QED
      BY <3>1, <3>2 DEF Sticks
  <2>2. ASSUME NEW e, e \in Provider, ps = Append(old, e)
        PROVE  Sticks(old, ps)
    <3>1. old # <<>> => ps # <<>> /\ Head(ps) = Head(old)
      BY <1>1, <1>2, <2>2
    <3> QED
      BY <3>1 DEF Sticks
  <2>3. ASSUME NEW i \in DOMAIN old, ps = RemoveAt(old, i)
        PROVE  Sticks(old, ps)
    BY <1>2, <2>3, RemoveSticks, LenProperties
  <2>4. ASSUME NEW i \in DOMAIN old, ps = Stamped(old, i)
        PROVE  Sticks(old, ps)
    <3>1. Hosts # {}
      BY <1>2, <2>4 DEF Provider
    <3> QED
      BY <2>1, <2>4, <3>1
  <2>5. \A h \in Hosts : NewProvider(id, h) \in Provider
    BY <1>2 DEF NewProvider, Provider, Instant
  <2> QED
    BY <1>1, <2>1, <2>2, <2>3, <2>4, <2>5, FindProviderProperties DEF RequestRewrites, old
<1> QED
  BY <1>1, <1>3, RewriteSticks DEF old

LEMMA EraseSticks ==
    ASSUME IInv, EraseProvider
    PROVE  \A s \in Services : Sticks(ProvidersOf(s), ProvidersOf(s)')
<1> DEFINE old == ProvidersOf(cur)
<1>1. /\ old \in Seq(Provider)
      /\ \A j, k \in DOMAIN old : old[j].identifier = old[k].identifier => j = k
      /\ idx \in 1..Len(old)
  BY ProvidersType, LenProperties DEF IInv, UniqueProviders, ProvidersOf, EraseProvider
<1>2. RemoveAt(old, idx) \in Seq(Provider) /\ Sticks(old, RemoveAt(old, idx))
  BY <1>1, RemoveAtProperties, RemoveSticks
<1>3. Rewrites(cur, RemoveAt(old, idx))
  BY <1>2, BindRewrites DEF EraseProvider
<1> QED
  BY <1>2, <1>3, RewriteSticks

\* RESOLVE changes its answer only when the provider it named has left, whatever
\* requests, scans and restarts happen.
THEOREM ResolveStays == Spec => ResolveSticky
<1>1. IInv /\ [Next]_vars => \A s \in Services : Sticks(ProvidersOf(s), ProvidersOf(s)')
  <2> SUFFICES ASSUME IInv, [Next]_vars
               PROVE  \A s \in Services : Sticks(ProvidersOf(s), ProvidersOf(s)')
    OBVIOUS
  <2>1. CASE LeaveService
    <3>1. ProvidersOf(cur) \in Seq(Provider) /\ services' = BindOrDrop(cur, ProvidersOf(cur))
      BY <2>1, ProvidersType DEF IInv, LeaveService
    <3>2. Rewrites(cur, ProvidersOf(cur)) /\ Sticks(ProvidersOf(cur), ProvidersOf(cur))
      BY <3>1, BindOrDropRewrites DEF Sticks
    <3> QED
      BY <3>2, RewriteSticks
  <2>2. CASE Restart
    <3>1. DOMAIN services' = {}
      BY <2>2 DEF Restart
    <3>2. \A s : ProvidersOf(s)' = <<>>
      BY <3>1 DEF ProvidersOf
    <3> QED
      BY <3>2 DEF Sticks
  <2>3. CASE services' = services
    BY <2>3 DEF Sticks, ProvidersOf
  <2> QED
    BY <2>1, <2>2, <2>3, RequestSticks, EraseSticks
    DEF Next, ReaperStep, ReaperWake, ReaperLock, VisitService, KeepProvider, ReaperUnlock,
        Tick, vars
<1>2. (\A s \in Services : Sticks(ProvidersOf(s), ProvidersOf(s)')) =>
          \A s \in Services : \A id \in ResolveReply(s) :
              id \notin ResolveReply(s)' => ~Listed(s, id)'
  <2> SUFFICES ASSUME NEW s \in Services, NEW id \in ResolveReply(s),
                      Sticks(ProvidersOf(s), ProvidersOf(s)'), id \notin ResolveReply(s)'
               PROVE  ~Listed(s, id)'
    OBVIOUS
  <2>1. ProvidersOf(s) # <<>> /\ id = Head(ProvidersOf(s)).identifier
    BY DEF ResolveReply
  <2>2. ~(ProvidersOf(s)' # <<>> /\ Head(ProvidersOf(s)').identifier = id)
    BY DEF ResolveReply
  <2> QED
    BY <2>1, <2>2 DEF Sticks, Listed
<1>3. IInv /\ [Next]_vars =>
          [\A s \in Services : \A id \in ResolveReply(s) :
              id \notin ResolveReply(s)' => ~Listed(s, id)']_vars
  BY <1>1, <1>2
<1> QED
  BY <1>3, Invariance, PTL DEF Spec, ResolveSticky

-----------------------------------------------------------------------------
(* The registry is a table of leases.                                      *)

Distinct(ps) == \A i, j \in DOMAIN ps : ps[i].identifier = ps[j].identifier => i = j

LEMMA StampOfEntry ==
    ASSUME NEW ps, Distinct(ps), NEW i \in DOMAIN ps
    PROVE  Stamp(ps, ps[i].identifier) = ps[i].lastHeartbeat
<1> DEFINE k == CHOOSE j \in DOMAIN ps : ps[j].identifier = ps[i].identifier
<1>1. k \in DOMAIN ps /\ ps[k].identifier = ps[i].identifier
  OBVIOUS
<1>2. k = i
  BY <1>1 DEF Distinct
<1> QED
  BY <1>2 DEF Stamp

LEMMA StampOfNobody ==
    ASSUME NEW ps, NEW id, \A i \in DOMAIN ps : ps[i].identifier # id
    PROVE  Stamp(ps, id) = Never
  BY DEF Stamp

\* The entries of ps are in qs, but for those of one provider.
Carries(ps, qs, id) ==
    \A i \in DOMAIN ps : ps[i].identifier # id =>
        \E j \in DOMAIN qs : qs[j].identifier = ps[i].identifier
                             /\ qs[j].lastHeartbeat = ps[i].lastHeartbeat

\* Vectors with the same entries, but for those of one provider, show the same
\* stamps of the others.
LEMMA SameStamps ==
    ASSUME NEW ps, NEW qs, Distinct(ps), Distinct(qs), NEW id, Carries(ps, qs, id),
           Carries(qs, ps, id), NEW other, other # id
    PROVE  Stamp(qs, other) = Stamp(ps, other)
<1> USE DEF Carries
<1>1. CASE \E i \in DOMAIN ps : ps[i].identifier = other
  <2>1. PICK i \in DOMAIN ps : ps[i].identifier = other
    BY <1>1
  <2>2. PICK j \in DOMAIN qs : qs[j].identifier = other /\ qs[j].lastHeartbeat = ps[i].lastHeartbeat
    BY <2>1
  <2> QED
    BY <2>1, <2>2, StampOfEntry
<1>2. CASE \A i \in DOMAIN ps : ps[i].identifier # other
  <2>1. \A j \in DOMAIN qs : qs[j].identifier # other
    BY <1>2
  <2> QED
    BY <1>2, <2>1, StampOfNobody
<1> QED
  BY <1>1, <1>2

\* A step that rewrites one vector changes one lease at most.
LEMMA TableChange ==
    ASSUME NEW s \in Services, NEW ps, Rewrites(s, ps), NEW id \in ProviderIds,
           \A other \in ProviderIds \ {id} : Stamp(ps, other) = Stamp(ProvidersOf(s), other)
    PROVE  Stamps' = [Stamps EXCEPT ![s][id] = Stamp(ps, id)]
<1>1. \A t : ProvidersOf(t)' = IF t = s THEN ps ELSE ProvidersOf(t)
  BY DEF Rewrites, ProvidersOf
<1> DEFINE new == [t \in Services |-> [q \in ProviderIds |-> Stamp(IF t = s THEN ps ELSE ProvidersOf(t), q)]]
<1>2. Stamps' = new
  BY <1>1 DEF Stamps
<1>3. new = [Stamps EXCEPT ![s][id] = Stamp(ps, id)]
  BY DEF Stamps
<1> QED
  BY <1>2, <1>3

LEMMA DistinctProviders ==
    ASSUME TypeOK, UniqueProviders
    PROVE  \A s : Distinct(ProvidersOf(s))
  BY DEF UniqueProviders, ProvidersOf, Distinct

LEMMA DistinctNow ==
    ASSUME TypeOK', UniqueProviders', NEW s, NEW ps, Rewrites(s, ps)
    PROVE  Distinct(ps)
<1>1. CASE ps = <<>>
  BY <1>1 DEF Distinct
<1>2. CASE ps # <<>>
  BY <1>2 DEF UniqueProviders, Rewrites, Distinct
<1> QED
  BY <1>1, <1>2

Changed(s, id, stamp) == Stamps' = [Stamps EXCEPT ![s][id] = stamp]

LEMMA RemovedStamps ==
    ASSUME NEW ps \in Seq(Provider), Distinct(ps), NEW i \in 1..Len(ps),
           Distinct(RemoveAt(ps, i))
    PROVE  /\ Stamp(RemoveAt(ps, i), ps[i].identifier) = Never
           /\ \A other : other # ps[i].identifier => Stamp(RemoveAt(ps, i), other) = Stamp(ps, other)
<1> DEFINE rest == RemoveAt(ps, i)
           id == ps[i].identifier
<1>1. /\ DOMAIN ps = 1..Len(ps) /\ Len(ps) \in Nat /\ DOMAIN rest = 1..(Len(ps) - 1)
      /\ \A j \in 1..(Len(ps) - 1) : rest[j] = IF j < i THEN ps[j] ELSE ps[j + 1]
  <2>1. rest \in Seq(Provider) /\ Len(rest) = Len(ps) - 1
    BY RemoveAtProperties
  <2> QED
    BY <2>1, RemoveAtProperties, LenProperties
<1> HIDE DEF rest
<1>2. \A j \in DOMAIN rest : \E k \in DOMAIN ps : k # i /\ rest[j] = ps[k]
  <2> SUFFICES ASSUME NEW j \in DOMAIN rest PROVE \E k \in DOMAIN ps : k # i /\ rest[j] = ps[k]
    OBVIOUS
  <2>1. CASE j < i
    BY <1>1, <2>1
  <2>2. CASE ~(j < i)
    <3>1. j + 1 \in DOMAIN ps /\ j + 1 # i /\ rest[j] = ps[j + 1]
      BY <1>1, <2>2
    <3> QED
      BY <3>1
  <2> QED
    BY <2>1, <2>2
<1>3. \A k \in DOMAIN ps : k # i => \E j \in DOMAIN rest : rest[j] = ps[k]
  <2> SUFFICES ASSUME NEW k \in DOMAIN ps, k # i PROVE \E j \in DOMAIN rest : rest[j] = ps[k]
    OBVIOUS
  <2>1. CASE k < i
    BY <1>1, <2>1
  <2>2. CASE k > i
    <3>1. k - 1 \in DOMAIN rest /\ rest[k - 1] = ps[k]
      BY <1>1, <2>2
    <3> QED
      BY <3>1
  <2> QED
    BY <1>1, <2>1, <2>2
<1>4. \A k \in DOMAIN ps : ps[k].identifier = id => k = i
  BY <1>1 DEF Distinct
<1>5. \A j \in DOMAIN rest : rest[j].identifier # id
  BY <1>2, <1>4
<1>6. Stamp(rest, id) = Never
  BY <1>5, StampOfNobody
<1>7. \A other : other # id => Stamp(rest, other) = Stamp(ps, other)
  <2>1. Carries(ps, rest, id)
    BY <1>3 DEF Carries
  <2>2. Carries(rest, ps, id)
    BY <1>2 DEF Carries
  <2>3. Distinct(rest) /\ Distinct(ps)
    BY DEF rest
  <2> QED
    BY <2>1, <2>2, <2>3, SameStamps
<1> QED
  BY <1>6, <1>7 DEF rest

\* Entries that stay where they are show the stamps they bear.
LEMMA KeptStamp ==
    ASSUME NEW ps, NEW qs, Distinct(ps), Distinct(qs), DOMAIN qs = DOMAIN ps, NEW id,
           \A j \in DOMAIN ps : /\ qs[j].identifier = ps[j].identifier
                                /\ ps[j].identifier = id =>
                                       qs[j].lastHeartbeat = ps[j].lastHeartbeat
    PROVE  Stamp(qs, id) = Stamp(ps, id)
<1>1. CASE \E i \in DOMAIN ps : ps[i].identifier = id
  BY <1>1, StampOfEntry
<1>2. CASE \A i \in DOMAIN ps : ps[i].identifier # id
  BY <1>2, StampOfNobody
<1> QED
  BY <1>1, <1>2

LEMMA AppendedStamps ==
    ASSUME NEW ps \in Seq(Provider), NEW e \in Provider, Distinct(ps), Distinct(Append(ps, e)),
           \A i \in DOMAIN ps : ps[i].identifier # e.identifier
    PROVE  /\ Stamp(Append(ps, e), e.identifier) = e.lastHeartbeat
           /\ \A other : other # e.identifier => Stamp(Append(ps, e), other) = Stamp(ps, other)
<1> DEFINE more == Append(ps, e)
<1>1. /\ DOMAIN ps = 1..Len(ps) /\ Len(ps) \in Nat /\ DOMAIN more = 1..(Len(ps) + 1)
      /\ more[Len(ps) + 1] = e /\ \A j \in 1..Len(ps) : more[j] = ps[j]
  BY AppendProperties, LenProperties
<1> HIDE DEF more
<1>2. Len(ps) + 1 \in DOMAIN more /\ Distinct(more)
  BY <1>1 DEF more
<1>3. Stamp(more, e.identifier) = e.lastHeartbeat
  BY <1>1, <1>2, StampOfEntry
<1>4. \A other : other # e.identifier => Stamp(more, other) = Stamp(ps, other)
  <2>1. \A k \in DOMAIN ps : k \in DOMAIN more /\ more[k] = ps[k]
    BY <1>1
  <2>2. \A j \in DOMAIN more : more[j].identifier # e.identifier => j \in DOMAIN ps /\ more[j] = ps[j]
    BY <1>1
  <2>3. Carries(ps, more, e.identifier) /\ Carries(more, ps, e.identifier)
    BY <2>1, <2>2 DEF Carries
  <2> QED
    BY <1>2, <2>3, SameStamps
<1> QED
  BY <1>3, <1>4 DEF more

\* A registration is a grant or changes nothing, removing is a release, and a
\* heartbeat is a renewal.
LEMMA RequestTable ==
    ASSUME IInv, IInv', Request
    PROVE  Table!TNext \/ UNCHANGED <<Stamps, leases, now>>
<1>1. PICK s \in Services, id \in ProviderIds, ps \in Seq(Provider) :
          Rewrites(s, ps) /\ RequestRewrites(s, id, ps)
  BY RequestEffect DEF IInv
<1>2. now' = now /\ now \in Nat
  BY DEF IInv, TypeOK, Instant, Request, handleRegisterRequest, handleUnregisterRequest,
         handleHeartbeatRequest
<1> DEFINE old == ProvidersOf(s)
<1>3. /\ old \in Seq(Provider) /\ Distinct(old) /\ Distinct(ps)
      /\ Stamps[s][id] = Stamp(old, id)
  <2>1. old \in Seq(Provider)
    BY ProvidersType DEF IInv
  <2> QED
    BY <1>1, <2>1, DistinctProviders, DistinctNow DEF IInv, Stamps
<1>4. \A i \in DOMAIN old : /\ i \in 1..Len(old) /\ old[i].lastHeartbeat \in Nat
                            /\ Stamp(old, old[i].identifier) = old[i].lastHeartbeat
  <2>1. \A i \in DOMAIN old : i \in 1..Len(old) /\ old[i] \in Provider
    BY <1>3, LenProperties, ElementOfSeq
  <2> QED
    BY <1>3, <2>1, StampOfEntry DEF Provider, Instant
<1>5. ASSUME NEW x, Stamp(ps, id) = x,
             \A other \in ProviderIds \ {id} : Stamp(ps, other) = Stamp(old, other)
      PROVE  Changed(s, id, x)
  BY <1>1, <1>5, TableChange DEF Changed
<1> HIDE DEF old
<1>6. ASSUME NEW i \in DOMAIN old, NEW h \in Hosts, ps = Moved(old, i, h), leases' = leases
      PROVE  UNCHANGED <<Stamps, leases, now>>
  <2>1. \A q : Stamp(ps, q) = Stamp(old, q)
    BY <1>2, <1>3, <1>4, <1>6, EntryEffect, KeptStamp, SMTT(30)
  <2>2. Changed(s, id, Stamps[s][id])
    BY <1>3, <1>5, <2>1
  <2>3. Stamps \in [Services -> [ProviderIds -> {Stamps[t][q] : t \in Services, q \in ProviderIds}]]
    BY DEF Stamps
  <2> QED
    BY <1>2, <1>6, <2>2, <2>3 DEF Changed
<1>7. ASSUME NEW h \in Hosts, findProvider(old, id) = {}, ps = Append(old, NewProvider(id, h)),
             leases' = [leases EXCEPT ![s][id] = now]
      PROVE  Table!Grant(s, id)
  <2>1. /\ NewProvider(id, h) \in Provider
        /\ NewProvider(id, h).identifier = id /\ NewProvider(id, h).lastHeartbeat = now
    BY <1>2 DEF NewProvider, Provider, Instant
  <2>2. \A i \in DOMAIN old : old[i].identifier # id
    BY <1>3, <1>7, FindProviderFinds
  <2>3. Stamp(old, id) = Never
    BY <2>2, StampOfNobody
  <2>4. Changed(s, id, now)
    BY <1>3, <1>5, <1>7, <2>1, <2>2, AppendedStamps
  <2> QED
    BY <1>2, <1>3, <1>7, <2>3, <2>4
    DEF Changed, Table!Grant, Table!Holds, Table!Agree, Table!Set, Table!None, Never
<1>8. ASSUME NEW i \in findProvider(old, id)
      PROVE  /\ i \in 1..Len(old) /\ i \in DOMAIN old /\ old[i].identifier = id
             /\ Table!Holds(s, id)
  <2>1. i \in DOMAIN old /\ old[i].identifier = id
    BY FindProviderProperties
  <2> QED
    BY <1>3, <1>4, <2>1 DEF Table!Holds, Table!None
<1>9. ASSUME NEW i \in findProvider(old, id), ps = RemoveAt(old, i),
             leases' = [leases EXCEPT ![s][id] = Never]
      PROVE  Table!Release(s, id)
  <2>1. Changed(s, id, Never)
    BY <1>3, <1>5, <1>8, <1>9, RemovedStamps
  <2> QED
    BY <1>2, <1>8, <1>9, <2>1 DEF Changed, Table!Release, Table!Agree, Table!Set, Table!None, Never
<1>10. ASSUME NEW i \in findProvider(old, id), ps = Stamped(old, i),
              leases' = [leases EXCEPT ![s][id] = now]
       PROVE  Table!Renew(s, id)
  <2>1. PICK h \in Hosts : TRUE
    BY <1>3, <1>8, ElementOfSeq DEF Provider
  <2>2. /\ DOMAIN ps = DOMAIN old
        /\ \A j \in DOMAIN old : /\ ps[j].identifier = old[j].identifier
                                 /\ ps[j].lastHeartbeat = IF j = i THEN now ELSE old[j].lastHeartbeat
    BY <1>2, <1>3, <1>8, <1>10, <2>1, EntryEffect
  <2>3. Stamp(ps, id) = now
    BY <1>3, <1>8, <2>2, StampOfEntry
  <2>4. \A other \in ProviderIds \ {id} : Stamp(ps, other) = Stamp(old, other)
    BY <1>3, <1>8, <2>2, KeptStamp
  <2>5. Changed(s, id, now)
    BY <1>5, <2>3, <2>4
  <2> QED
    BY <1>2, <1>8, <1>10, <2>5 DEF Changed, Table!Renew, Table!Agree, Table!Set
<1> QED
  BY <1>1, <1>6, <1>7, <1>9, <1>10 DEF RequestRewrites, old, Table!TNext

\* What the scan erases has run out, by a clock that was read in the past.
LEMMA EraseTable ==
    ASSUME IInv, IInv', EraseProvider
    PROVE  Table!TNext
<1> DEFINE old == ProvidersOf(cur)
           ps == RemoveAt(old, idx)
           id == old[idx].identifier
<1>1. /\ cur \in Services /\ old \in Seq(Provider) /\ idx \in 1..Len(old) /\ idx \in DOMAIN old
      /\ services' = Bind(cur, ps) /\ now' = now /\ leases' = leases /\ Unresponsive(old[idx])
  BY ProvidersType, LenProperties DEF IInv, TypeOK, ScanShape, EraseProvider
<1>2. old[idx] \in Provider
  BY <1>1, ElementOfSeq
<1>3. ps \in Seq(Provider) /\ Rewrites(cur, ps)
  BY <1>1, RemoveAtProperties, BindRewrites
<1>4. Distinct(old) /\ Distinct(ps)
  BY <1>3, DistinctProviders, DistinctNow DEF IInv
<1>5. /\ id \in ProviderIds /\ old[idx].lastHeartbeat \in Nat
      /\ Stamps[cur][id] = old[idx].lastHeartbeat
  BY <1>1, <1>2, <1>4, StampOfEntry DEF Provider, Instant, Stamps
<1>6. /\ Stamp(ps, id) = Never
      /\ \A other : other # id => Stamp(ps, other) = Stamp(old, other)
  BY <1>1, <1>4, RemovedStamps
<1>7. Changed(cur, id, Never)
  <2> HIDE DEF ps, id
  <2> QED
    BY <1>1, <1>3, <1>5, <1>6, TableChange DEF Changed
<1>8. now - Stamps[cur][id] > Timeout
  BY <1>1, <1>5, RegistryAssumption, SMTT(30) DEF IInv, Schedule, TypeOK, Instant, Unresponsive
<1>9. Table!Expire(cur, id)
  <2> HIDE DEF old, id
  <2> QED
    BY <1>1, <1>5, <1>7, <1>8
    DEF Changed, Table!Expire, Table!Holds, Table!Age, Table!Set, Table!None, Never
<1> QED
  BY <1>1, <1>5, <1>9 DEF Table!TNext

\* Dropping the service that a scan has emptied ends no lease.
LEMMA LeaveTable ==
    ASSUME IInv, LeaveService
    PROVE  UNCHANGED <<Stamps, leases, now>>
<1>1. ProvidersOf(cur) \in Seq(Provider) /\ services' = BindOrDrop(cur, ProvidersOf(cur))
      /\ now' = now /\ leases' = leases
  BY ProvidersType DEF IInv, LeaveService
<1>2. Rewrites(cur, ProvidersOf(cur))
  BY <1>1, BindOrDropRewrites
<1>3. \A s : ProvidersOf(s)' = ProvidersOf(s)
  BY <1>2 DEF Rewrites, ProvidersOf
<1> QED
  BY <1>1, <1>3 DEF Stamps

LEMMA EmptyTable ==
    (DOMAIN services = {}) => Stamps = Table!NoLeases
<1> SUFFICES ASSUME DOMAIN services = {} PROVE Stamps = Table!NoLeases
  OBVIOUS
<1>1. \A s, id : Stamp(ProvidersOf(s), id) = -1
  BY DEF ProvidersOf, Stamp, Never
<1> QED
  BY <1>1 DEF Stamps, Table!NoLeases, Table!None

\* Time stops at a lease that is overdue by the grace: no scan comes too late.
LEMMA TickTable ==
    ASSUME IInv, IInv', Tick
    PROVE  Table!Pass
<1>1. /\ now' = now + 1 /\ services' = services /\ leases' = leases /\ now \in Nat /\ Timeout \in Nat
      /\ ReaperInterval \in Nat /\ MaxLag \in Nat
  BY RegistryAssumption DEF Tick, IInv, TypeOK, Instant
<1>2. StalenessBound'
  <2>1. (IInv => StalenessBound)'
    BY StalenessFromInv, PTL
  <2> QED
    BY <2>1
<1>3. ASSUME NEW s \in Services, NEW id \in ProviderIds, Stamps[s][id] # -1
      PROVE  now - Stamps[s][id] < Timeout + (ReaperInterval + 3 * MaxLag)
  <2> DEFINE ps == ProvidersOf(s)
  <2>1. Stamp(ps, id) # Never /\ Stamps[s][id] = Stamp(ps, id)
    BY <1>3 DEF Stamps, Never
  <2>2. PICK i \in DOMAIN ps : ps[i].identifier = id
    BY <2>1, StampOfNobody
  <2>3. ps \in Seq(Provider) /\ Distinct(ps)
    BY ProvidersType, DistinctProviders DEF IInv
  <2>4. Stamps[s][id] = ps[i].lastHeartbeat
    BY <2>1, <2>2, <2>3, StampOfEntry
  <2>5. ps[i].lastHeartbeat \in Nat
    <3>1. ps[i] \in Provider
      BY <2>2, <2>3, ElementOfSeq, LenProperties
    <3> QED
      BY <3>1 DEF Provider, Instant
  <2>6. s \in DOMAIN services /\ services[s] = ps
    BY <2>2 DEF ProvidersOf
  <2>7. (now + 1) - ps[i].lastHeartbeat <= MaxStaleness
    BY <1>1, <1>2, <2>2, <2>6 DEF StalenessBound, MaxStaleness
  <2> QED
    BY <1>1, <2>4, <2>5, <2>7 DEF MaxStaleness
<1>4. Stamps' = Stamps
  BY <1>1 DEF Stamps, ProvidersOf
<1> QED
  BY <1>1, <1>3, <1>4 DEF Table!Pass, Table!Holds, Table!Age, Table!None

LEMMA NextTable ==
    IInv /\ IInv' /\ [Next]_vars => [Table!TNext]_<<Stamps, leases, now>>
<1> SUFFICES ASSUME IInv, IInv', [Next]_vars
             PROVE  Table!TNext \/ UNCHANGED <<Stamps, leases, now>>
  OBVIOUS
<1>1. CASE services' = services /\ now' = now /\ leases' = leases
  BY <1>1 DEF Stamps, ProvidersOf
<1>2. CASE Restart
  <2>1. DOMAIN services' = {} /\ now' = now /\ leases' = Table!NoLeases
    BY <1>2 DEF Restart, NobodyHeard, Never, Table!NoLeases, Table!None
  <2>2. Stamps' = Table!NoLeases
    <3>1. (DOMAIN services = {} => Stamps = Table!NoLeases)'
      BY EmptyTable, PTL
    <3> QED
      BY <2>1, <3>1 DEF Table!NoLeases, Table!None
  <2> QED
    BY <2>1, <2>2 DEF Table!TNext, Table!ForgetAll
<1>3. CASE Tick
  BY <1>3, TickTable DEF Table!TNext
<1> QED
  BY <1>1, <1>2, <1>3, RequestTable, EraseTable, LeaveTable
  DEF Next, ReaperStep, ReaperWake, ReaperLock, VisitService, KeepProvider, ReaperUnlock, vars

\* The name server implements a table of leases, for every timeout, interval
\* and delay: each request and each erasure of a scan is one change of one lease.
THEOREM LeasesImplemented == Spec => LeaseService
<1>1. Init => Table!TInit
  BY EmptyTable DEF Init, Table!TInit, NobodyHeard, Never, Table!NoLeases, Table!None
<1> QED
  BY <1>1, NextTable, Invariance, PTL DEF Spec, LeaseService, Table!TableSpec, Table!tvars

-----------------------------------------------------------------------------
(* What the steps of the name server do to the entries and leases.         *)

\* id is listed under s, and was last stamped at t.
Entry(s, id, t) ==
    \E i \in DOMAIN ProvidersOf(s) : /\ ProvidersOf(s)[i].identifier = id
                                     /\ ProvidersOf(s)[i].lastHeartbeat = t

LEMMA RewrittenProviders ==
    ASSUME NEW s, NEW ps, services' = Bind(s, ps) \/ services' = BindOrDrop(s, ps), NEW t
    PROVE  ProvidersOf(t)' = IF t = s THEN ps ELSE ProvidersOf(t)
  BY DEF Bind, BindOrDrop, ProvidersOf

\* A registration or heartbeat adds at most one stamp, of its own provider and
\* of this moment; and that is its lease, except when a provider registers that
\* was listed already.
LEMMA RequestStamps ==
    ASSUME TypeOK, NEW s \in Services, NEW id \in ProviderIds, NEW h \in Hosts,
           handleRegisterRequest(s, id, h) \/ handleHeartbeatRequest(s, id)
    PROVE  /\ \A x, j, t : Entry(x, j, t)' => Entry(x, j, t) \/ (j = id /\ t = now)
           /\ \A j \in ProviderIds \ {id} : leases'[s][j] = leases[s][j]
           /\ handleHeartbeatRequest(s, id) \/ ~Listed(s, id) => leases'[s][id] = now
           /\ now' = now
<1> DEFINE old == ProvidersOf(s)
<1>0. old \in Seq(Provider) /\ now \in Nat /\ leases \in [Services -> [ProviderIds -> Instant \cup {Never}]]
  BY ProvidersType DEF TypeOK, Instant
<1>1. ASSUME NEW i \in findProvider(old, id), services' = Bind(s, Moved(old, i, h))
      PROVE  \A x, j, t : Entry(x, j, t)' => Entry(x, j, t) \/ (j = id /\ t = now)
  <2>1. i \in 1..Len(old)
    BY <1>0, <1>1, FindProviderProperties, LenProperties
  <2>2. \A x : ProvidersOf(x)' = IF x = s THEN Moved(old, i, h) ELSE ProvidersOf(x)
    BY <1>1, RewrittenProviders
  <2> DEFINE new == Moved(old, i, h)
  <2>3. /\ DOMAIN new = DOMAIN old
        /\ \A k \in DOMAIN old : /\ new[k].identifier = old[k].identifier
                                  /\ new[k].lastHeartbeat = old[k].lastHeartbeat
    BY <1>0, <2>1, EntryEffect
  <2> HIDE DEF new
  <2> QED
    BY <2>2, <2>3 DEF Entry, new
<1>2. ASSUME services' = Bind(s, Append(old, NewProvider(id, h)))
      PROVE  \A x, j, t : Entry(x, j, t)' => Entry(x, j, t) \/ (j = id /\ t = now)
  <2>1. \A x : ProvidersOf(x)' = IF x = s THEN Append(old, NewProvider(id, h)) ELSE ProvidersOf(x)
    BY <1>2, RewrittenProviders
  <2>2. \A i \in DOMAIN Append(old, NewProvider(id, h)) :
            \/ i \in DOMAIN old /\ Append(old, NewProvider(id, h))[i] = old[i]
            \/ Append(old, NewProvider(id, h))[i] = NewProvider(id, h)
    <3> DEFINE new == Append(old, NewProvider(id, h))
    <3>1. NewProvider(id, h) \in Provider
      BY <1>0 DEF NewProvider, Provider, Instant
    <3>2. /\ Len(old) \in Nat /\ DOMAIN old = 1..Len(old)
          /\ new \in Seq(Provider) /\ Len(new) = Len(old) + 1
          /\ \A i \in 1..Len(old) : new[i] = old[i]
          /\ new[Len(old) + 1] = NewProvider(id, h)
      BY <1>0, <3>1, AppendProperties, LenProperties
    <3>3. DOMAIN new = 1..Len(new)
      BY <3>2, LenProperties
    <3> HIDE DEF new
    <3> QED
      BY <3>2, <3>3 DEF new
  <2>3. NewProvider(id, h).identifier = id /\ NewProvider(id, h).lastHeartbeat = now
    BY DEF NewProvider
  <2> QED
    BY <2>1, <2>2, <2>3 DEF Entry
<1>3. ASSUME NEW i \in findProvider(old, id), services' = Bind(s, Stamped(old, i))
      PROVE  \A x, j, t : Entry(x, j, t)' => Entry(x, j, t) \/ (j = id /\ t = now)
  <2>1. i \in 1..Len(old) /\ old[i].identifier = id
    BY <1>0, <1>3, FindProviderProperties, LenProperties
  <2>2. \A x : ProvidersOf(x)' = IF x = s THEN Stamped(old, i) ELSE ProvidersOf(x)
    BY <1>3, RewrittenProviders
  <2> DEFINE new == Stamped(old, i)
  <2>3. /\ DOMAIN new = DOMAIN old
        /\ \A k \in DOMAIN old :
              /\ new[k].identifier = old[k].identifier
              /\ new[k].lastHeartbeat = IF k = i THEN now ELSE old[k].lastHeartbeat
    BY <1>0, <2>1, EntryEffect
  <2> HIDE DEF new
  <2> QED
    BY <2>1, <2>2, <2>3 DEF Entry, new
<1>4. CASE handleRegisterRequest(s, id, h)
  <2>1. CASE RegisterKnown(s, id, h)
    <3>1. PICK i \in findProvider(old, id) : services' = Bind(s, Moved(old, i, h))
      BY <2>1 DEF RegisterKnown
    <3>2. (Listed(s, id) /\ ~handleHeartbeatRequest(s, id)) \/ leases'[s][id] = now
      BY <1>0, <3>1, FindProviderProperties DEF Listed, handleHeartbeatRequest
    <3> QED
      BY <1>1, <1>4, <2>1, <3>1, <3>2 DEF RegisterKnown, handleRegisterRequest
  <2>2. CASE RegisterNew(s, id, h)
    BY <1>0, <1>2, <1>4, <2>2 DEF RegisterNew, handleRegisterRequest
  <2> QED
    BY <1>4, <2>1, <2>2 DEF handleRegisterRequest
<1>5. CASE handleHeartbeatRequest(s, id)
  BY <1>0, <1>3, <1>5 DEF handleHeartbeatRequest
<1> QED
  BY <1>4, <1>5

\* The reaper stamps nobody and keeps no books of leases.
LEMMA ReaperStamps ==
    ASSUME TypeOK, ReaperStep
    PROVE  /\ \A x, j, t : Entry(x, j, t)' => Entry(x, j, t)
           /\ leases' = leases /\ now' = now
<1>1. CASE EraseProvider
  <2> DEFINE old == ProvidersOf(cur)
             ps == RemoveAt(old, idx)
  <2>1. old \in Seq(Provider)
    BY ProvidersType
  <2>2. idx \in 1..Len(old)
    BY <1>1, <2>1, LenProperties DEF EraseProvider
  <2>3. /\ ps \in Seq(Provider) /\ Len(ps) = Len(old) - 1
        /\ \A j \in 1..(Len(old) - 1) : ps[j] = IF j < idx THEN old[j] ELSE old[j + 1]
    BY <2>1, <2>2, RemoveAtProperties
  <2>4. \A x : ProvidersOf(x)' = IF x = cur THEN ps ELSE ProvidersOf(x)
    BY <1>1, RewrittenProviders DEF EraseProvider
  <2> HIDE DEF ps
  <2>5. DOMAIN ps = 1..(Len(old) - 1) /\ DOMAIN old = 1..Len(old) /\ Len(old) \in Nat
    BY <2>1, <2>3, LenProperties
  <2>6. \A j \in DOMAIN ps : \E i \in DOMAIN old : ps[j] = old[i]
    <3> SUFFICES ASSUME NEW j \in DOMAIN ps PROVE \E i \in DOMAIN old : ps[j] = old[i]
      OBVIOUS
    <3>1. CASE j < idx
      BY <2>2, <2>3, <2>5, <3>1
    <3>2. CASE ~(j < idx)
      BY <2>2, <2>3, <2>5, <3>2
    <3> QED
      BY <3>1, <3>2
  <2> QED
    BY <1>1, <2>4, <2>6 DEF EraseProvider, Entry
<1>2. CASE LeaveService
  <2>1. \A x : ProvidersOf(x)' = IF x = cur THEN ProvidersOf(cur) ELSE ProvidersOf(x)
    BY <1>2, RewrittenProviders DEF LeaveService
  <2> QED
    BY <1>2, <2>1 DEF LeaveService, Entry
<1>3. CASE ReaperWake \/ ReaperLock \/ (\E s \in Services : VisitService(s)) \/ KeepProvider \/ ReaperUnlock
  BY <1>3 DEF ReaperWake, ReaperLock, VisitService, KeepProvider, ReaperUnlock, Entry, ProvidersOf
<1> QED
  BY <1>1, <1>2, <1>3 DEF ReaperStep

-----------------------------------------------------------------------------
(* The steps of the system, as server p sees them.                         *)

LEMMA StepIsNext == [DNext]_dvars => [Next]_vars
<1> SUFFICES ASSUME [DNext]_dvars PROVE [Next]_vars
  OBVIOUS
<1>1. CASE Reap \/ Advance \/ RestartNameServer
  BY <1>1 DEF Reap, Advance, RestartNameServer, Next
<1>2. ASSUME NEW p \in Servers, Start(p) \/ ServerStep(p) \/ Kill(p) \/ Break(p)
      PROVE  UNCHANGED vars
  BY <1>2 DEF Start, ServerStep, SendRegister, ConnectFails, ReceiveRegistered,
              SendHeartbeat, ReceiveBeat, LoseConnection, Kill, Break
<1>3. ASSUME NEW p \in Servers, Answer(p)
      PROVE  [Next]_vars
  <2>1. CASE Replay(p) \/ RejectHeartbeat(p)
    BY <2>1 DEF Replay, RejectHeartbeat
  <2>2. CASE AnswerRegister(p) \/ AnswerHeartbeat(p)
    BY <2>2, DiscoveryAssumption DEF AnswerRegister, AnswerHeartbeat, Next, Request
  <2> QED
    BY <1>3, <2>1, <2>2 DEF Answer
<1>4. CASE UNCHANGED dvars
  BY <1>4 DEF dvars
<1> QED
  BY <1>1, <1>2, <1>3, <1>4 DEF DNext

\* What a step of the server q itself is.
StepOf(q) == Start(q) \/ ServerStep(q) \/ Kill(q) \/ Break(q) \/ Answer(q)

\* A step of another server, of the reaper or of the clock leaves the thread and
\* the connection of p as they are, and stamps nothing of p's.
Elsewhere(p) ==
    /\ thread'[p] = thread[p] /\ due'[p] = due[p] /\ messageId'[p] = messageId[p]
    /\ wire'[p] = wire[p] /\ lastMessage'[p] = lastMessage[p]
    /\ killedAt'[p] = killedAt[p]
    /\ \A t : StampedAt(p, t)' => StampedAt(p, t)
    /\ Lease(p)' = Lease(p)
    /\ now' = now \/ (now' = now + 1 /\ OnTime(p))

LEMMA EntryStamped ==
    ASSUME NEW p
    PROVE  /\ \A t : StampedAt(p, t) <=> Entry(SERVICE_NAME, IdOf[p], t)
           /\ Known(p) <=> \E t : StampedAt(p, t)
  BY DEF StampedAt, Entry, Known, Listed

LEMMA Undisturbed ==
    ASSUME NEW p, services' = services, leases' = leases
    PROVE  /\ \A t : StampedAt(p, t)' <=> StampedAt(p, t)
           /\ Lease(p)' = Lease(p)
           /\ Known(p)' <=> Known(p)
<1>1. ProvidersOf(SERVICE_NAME)' = ProvidersOf(SERVICE_NAME)
  BY DEF ProvidersOf
<1> QED
  BY <1>1 DEF StampedAt, Lease, Known, Listed

LEMMA AnswerElsewhere ==
    ASSUME DTypeOK, NEW p \in Servers, NEW q \in Servers \ {p}, Answer(q)
    PROVE  Elsewhere(p)
<1> USE DEF DTypeOK, session, Reply, Remember
<1>1. IdOf[p] \in ProviderIds \ {IdOf[q]} /\ IdOf[q] \in ProviderIds
      /\ SERVICE_NAME \in Services /\ HostOf[q] \in Hosts
  BY DiscoveryAssumption
<1>2. UNCHANGED <<thread, messageId, killedAt>>
  BY DEF Answer
<1>3. CASE Replay(q) \/ RejectHeartbeat(q)
  <2>1. UNCHANGED vars
    BY <1>3 DEF Replay, RejectHeartbeat
  <2>3. now' = now /\ services' = services /\ leases' = leases
    BY <2>1 DEF vars
  <2>2. /\ due'[p] = due[p] /\ wire'[p] = wire[p] /\ lastMessage'[p] = lastMessage[p]
    BY <1>3 DEF Replay, RejectHeartbeat
  <2> QED
    BY <1>2, <2>2, <2>3, Undisturbed DEF Elsewhere
<1>4. CASE AnswerRegister(q) \/ AnswerHeartbeat(q)
  <2>1. /\ due'[p] = due[p] /\ wire'[p] = wire[p] /\ lastMessage'[p] = lastMessage[p]
    BY <1>4 DEF AnswerRegister, AnswerHeartbeat
  <2>2. \/ handleRegisterRequest(SERVICE_NAME, IdOf[q], HostOf[q])
        \/ handleHeartbeatRequest(SERVICE_NAME, IdOf[q])
    BY <1>4 DEF AnswerRegister, AnswerHeartbeat
  <2>3. /\ \A x, j, t : Entry(x, j, t)' => Entry(x, j, t) \/ (j = IdOf[q] /\ t = now)
        /\ leases'[SERVICE_NAME][IdOf[p]] = leases[SERVICE_NAME][IdOf[p]]
        /\ now' = now
    BY <1>1, <2>2, RequestStamps
  <2>4. \A t : StampedAt(p, t)' => StampedAt(p, t)
    BY <1>1, <2>3 DEF StampedAt, Entry
  <2> QED
    BY <1>2, <2>1, <2>3, <2>4 DEF Elsewhere, Lease
<1> QED
  BY <1>3, <1>4 DEF Answer

LEMMA OtherElsewhere ==
    ASSUME DTypeOK, NEW p \in Servers, NEW q \in Servers \ {p}, StepOf(q)
    PROVE  Elsewhere(p)
<1>1. CASE Start(q) \/ ServerStep(q) \/ Kill(q) \/ Break(q)
  <2>1. UNCHANGED <<vars, lastMessage>>
    BY <1>1 DEF Start, ServerStep, SendRegister, ConnectFails, ReceiveRegistered,
                SendHeartbeat, ReceiveBeat, LoseConnection, Kill, Break, session
  <2>3. now' = now /\ services' = services /\ leases' = leases
    BY <2>1 DEF vars
  <2>2. /\ thread'[p] = thread[p] /\ due'[p] = due[p] /\ messageId'[p] = messageId[p]
        /\ wire'[p] = wire[p] /\ killedAt'[p] = killedAt[p]
    BY <1>1 DEF DTypeOK, Start, ServerStep, SendRegister, ConnectFails, ReceiveRegistered,
                SendHeartbeat, ReceiveBeat, LoseConnection, Kill, Break
  <2> QED
    BY <2>1, <2>2, <2>3, Undisturbed DEF Elsewhere
<1>2. CASE Answer(q)
  BY <1>2, AnswerElsewhere
<1> QED
  BY <1>1, <1>2 DEF StepOf

LEMMA StepSeenBy ==
    ASSUME DTypeOK, [DNext]_dvars, NEW p \in Servers
    PROVE  Elsewhere(p) \/ RestartNameServer \/ StepOf(p)
<1>1. CASE Reap
  <2>1. /\ \A t : StampedAt(p, t)' => StampedAt(p, t)
        /\ leases' = leases /\ now' = now
    <3>1. TypeOK /\ ReaperStep
      BY <1>1 DEF Reap, DTypeOK
    <3> QED
      BY <3>1, ReaperStamps DEF StampedAt, Entry
  <2> QED
    BY <1>1, <2>1 DEF Reap, servers, session, Elsewhere, Lease
<1>2. CASE Advance \/ UNCHANGED dvars
  <2>1. /\ services' = services /\ leases' = leases /\ UNCHANGED servers
        /\ now' = now \/ (now' = now + 1 /\ OnTime(p))
    BY <1>2 DEF Advance, Tick, dvars, vars
  <2> QED
    BY <2>1, Undisturbed DEF Elsewhere, servers, session
<1> QED
  BY <1>1, <1>2, OtherElsewhere DEF DNext, StepOf

-----------------------------------------------------------------------------
(* Every request carries an id that its session has not seen.              *)

LEMMA DInitType == DInit => DTypeOK
  BY InitType DEF DInit, DTypeOK, Instant, Never

\* A repeated answer is never sent: the list server counts its messages up.
LEMMA NeverReplays ==
    ASSUME DTypeOK, NEW p \in Servers, SessionFor(p), Answer(p)
    PROVE  AnswerRegister(p) \/ AnswerHeartbeat(p) \/ RejectHeartbeat(p)
<1>1. lastMessage[p] # messageId[p]
  BY DEF Answer, SessionFor, DTypeOK
<1> QED
  BY <1>1 DEF Answer

LEMMA DNextType ==
    ASSUME DTypeOK, \A p \in Servers : SessionFor(p), [DNext]_dvars
    PROVE  DTypeOK'
<1>0. TypeOK' /\ now \in Nat /\ MaxDelay \in Nat /\ HeartbeatInterval \in Nat
  BY StepIsNext, NextType, DiscoveryAssumption DEF DTypeOK, TypeOK, Instant
<1> USE <1>0 DEF DTypeOK, Instant, session
<1>1. CASE Reap \/ Advance \/ UNCHANGED dvars
  BY <1>1 DEF Reap, Advance, dvars, servers
<1>2. CASE RestartNameServer
  BY <1>2 DEF RestartNameServer
<1>3. ASSUME NEW p \in Servers, Start(p) \/ Kill(p) \/ Break(p)
      PROVE  DTypeOK'
  BY <1>3 DEF Start, Kill, Break
<1>4. ASSUME NEW p \in Servers, ServerStep(p)
      PROVE  DTypeOK'
  <2>1. CASE SendRegister(p)
    BY <2>1 DEF SendRegister
  <2>2. CASE ConnectFails(p) \/ LoseConnection(p)
    BY <2>2 DEF ConnectFails, LoseConnection
  <2>3. CASE ReceiveRegistered(p)
    BY <2>3 DEF ReceiveRegistered
  <2>4. CASE SendHeartbeat(p)
    BY <2>4 DEF SendHeartbeat
  <2>5. CASE ReceiveBeat(p)
    BY <2>5 DEF ReceiveBeat
  <2> QED
    BY <1>4, <2>1, <2>2, <2>3, <2>4, <2>5 DEF ServerStep
<1>5. ASSUME NEW p \in Servers, Answer(p)
      PROVE  DTypeOK'
  <2>1. AnswerRegister(p) \/ AnswerHeartbeat(p) \/ RejectHeartbeat(p)
    BY <1>5, NeverReplays
  <2> QED
    BY <1>5, <2>1 DEF Answer, AnswerRegister, AnswerHeartbeat, RejectHeartbeat, Reply, Remember
<1> QED
  BY <1>1, <1>2, <1>3, <1>4, <1>5 DEF DNext

\* What the steps of p itself leave alone, apart from the answer to a request.
LEMMA OwnStep ==
    ASSUME NEW p \in Servers, Start(p) \/ ServerStep(p) \/ Kill(p) \/ Break(p)
    PROVE  /\ now' = now /\ lastMessage' = lastMessage
           /\ \A t : StampedAt(p, t)' <=> StampedAt(p, t)
           /\ Lease(p)' = Lease(p)
           /\ Known(p)' <=> Known(p)
<1>1. UNCHANGED <<vars, lastMessage>>
  BY DEF Start, ServerStep, SendRegister, ConnectFails, ReceiveRegistered,
         SendHeartbeat, ReceiveBeat, LoseConnection, Kill, Break, session
<1>2. now' = now /\ services' = services /\ leases' = leases
  BY <1>1 DEF vars
<1> QED
  BY <1>1, <1>2, Undisturbed

\* A restarted name server knows nobody.
LEMMA RestartForgets ==
    ASSUME RestartNameServer, NEW p
    PROVE  now' = now /\ ~Known(p)' /\ \A t : ~StampedAt(p, t)'
<1>1. ProvidersOf(SERVICE_NAME)' = <<>> /\ now' = now
  BY DEF RestartNameServer, Restart, ProvidersOf
<1>2. DOMAIN ProvidersOf(SERVICE_NAME)' = {}
  BY <1>1
<1> QED
  BY <1>1, <1>2 DEF StampedAt, Known, Listed

\* What an answer does to the entries of p.
LEMMA AnswerStamps ==
    ASSUME DTypeOK, NEW p \in Servers, AnswerRegister(p) \/ AnswerHeartbeat(p)
    PROVE  /\ now' = now
           /\ \A t : StampedAt(p, t)' => StampedAt(p, t) \/ t = now
           /\ AnswerHeartbeat(p) \/ ~Known(p) => Lease(p)' = now
           /\ AnswerHeartbeat(p) => Known(p)
<1>1. IdOf[p] \in ProviderIds /\ SERVICE_NAME \in Services /\ HostOf[p] \in Hosts
  BY DiscoveryAssumption
<1>2. TypeOK
  BY DEF DTypeOK
<1>3. AnswerHeartbeat(p) => Known(p)
  <2> SUFFICES ASSUME AnswerHeartbeat(p) PROVE Known(p)
    OBVIOUS
  <2>1. PICK i \in findProvider(ProvidersOf(SERVICE_NAME), IdOf[p]) : TRUE
    BY DEF AnswerHeartbeat, handleHeartbeatRequest
  <2> QED
    BY <2>1, FindProviderProperties DEF Known, Listed
<1>4. ~AnswerHeartbeat(p) \/ ~AnswerRegister(p)
  BY DEF AnswerRegister, AnswerHeartbeat
<1>5. \/ handleRegisterRequest(SERVICE_NAME, IdOf[p], HostOf[p]) /\ ~AnswerHeartbeat(p)
      \/ handleHeartbeatRequest(SERVICE_NAME, IdOf[p])
  BY <1>4 DEF AnswerRegister, AnswerHeartbeat
<1>6. /\ \A t : Entry(SERVICE_NAME, IdOf[p], t)' => Entry(SERVICE_NAME, IdOf[p], t) \/ t = now
      /\ AnswerHeartbeat(p) \/ ~Known(p) => leases'[SERVICE_NAME][IdOf[p]] = now
      /\ now' = now
  BY <1>1, <1>2, <1>5, RequestStamps DEF Known
<1>7. \A t : StampedAt(p, t)' <=> Entry(SERVICE_NAME, IdOf[p], t)'
  BY DEF StampedAt, Entry
<1> QED
  BY <1>3, <1>6, <1>7, EntryStamped DEF Lease

LEMMA SessionInductive ==
    ASSUME DTypeOK, NEW p \in Servers, SessionFor(p), [DNext]_dvars
    PROVE  SessionFor(p)'
<1> USE DEF SessionFor, DTypeOK
<1>1. CASE Elsewhere(p)
  <2>1. Known(p)' => Known(p)
    BY <1>1, EntryStamped DEF Elsewhere, Known, Listed, StampedAt
  <2> QED
    BY <1>1, <2>1 DEF Elsewhere
<1>2. CASE RestartNameServer
  BY <1>2, RestartForgets DEF RestartNameServer, session
<1>3. CASE Start(p) \/ ServerStep(p) \/ Kill(p) \/ Break(p)
  <2>0. lastMessage' = lastMessage /\ (Known(p)' <=> Known(p))
    BY <1>3, OwnStep
  <2>1. CASE Start(p) \/ Kill(p) \/ Break(p)
    BY <2>0, <2>1 DEF Start, Kill, Break, Waiting
  <2>2. CASE SendRegister(p)
    BY <2>0, <2>2 DEF SendRegister
  <2>3. CASE ConnectFails(p) \/ LoseConnection(p)
    BY <2>0, <2>3 DEF ConnectFails, LoseConnection, Waiting
  <2>4. CASE ReceiveRegistered(p)
    BY <2>0, <2>4 DEF ReceiveRegistered
  <2>5. CASE SendHeartbeat(p)
    BY <2>0, <2>5 DEF SendHeartbeat
  <2>6. CASE ReceiveBeat(p)
    BY <2>0, <2>6 DEF ReceiveBeat
  <2> QED
    BY <1>3, <2>1, <2>2, <2>3, <2>4, <2>5, <2>6 DEF ServerStep
<1>4. CASE Answer(p)
  <2>1. AnswerRegister(p) \/ AnswerHeartbeat(p) \/ RejectHeartbeat(p)
    BY <1>4, NeverReplays
  <2>2. /\ UNCHANGED <<thread, messageId>>
        /\ lastMessage'[p] = messageId[p]
        /\ wire'[p] = "Ok" \/ (wire'[p] = "Error" /\ wire[p] = "heartbeat")
    BY <1>4, <2>1 DEF Answer, AnswerRegister, AnswerHeartbeat, RejectHeartbeat, Reply, Remember
  <2>3. wire[p] \in {"register", "heartbeat"} /\ messageId[p] > 0
    BY <1>4 DEF Answer
  <2> QED
    BY <2>2, <2>3
<1> QED
  BY <1>1, <1>2, <1>3, <1>4, StepSeenBy DEF StepOf

-----------------------------------------------------------------------------
(* Requests arrive in time, and a killed server is not stamped for long.   *)

\* An answer stamps nothing, or with this moment.
LEMMA AnswerTime ==
    ASSUME DTypeOK, NEW p \in Servers, SessionFor(p), Answer(p)
    PROVE  now' = now /\ \A t : StampedAt(p, t)' => StampedAt(p, t) \/ t = now
<1>1. CASE RejectHeartbeat(p)
  <2>1. now' = now /\ services' = services /\ leases' = leases
    BY <1>1 DEF RejectHeartbeat, vars
  <2> QED
    BY <2>1, Undisturbed
<1> QED
  BY <1>1, NeverReplays, AnswerStamps

LEMMA ArrivalInductive ==
    ASSUME DTypeOK, NEW p \in Servers, SessionFor(p), ArrivalFor(p), [DNext]_dvars
    PROVE  ArrivalFor(p)'
<1>0. /\ now \in Nat /\ MaxDelay \in Nat /\ HeartbeatInterval \in Nat
      /\ due[p] \in Nat /\ killedAt[p] \in Nat \cup {-1}
  BY DiscoveryAssumption DEF DTypeOK, TypeOK, Instant, Never
<1> USE <1>0 DEF ArrivalFor, LastSent, Never
<1>1. CASE Elsewhere(p)
  <2>1. CASE now' = now
    BY <1>1, <2>1 DEF Elsewhere
  <2>2. CASE now' = now + 1 /\ OnTime(p)
    BY <1>1, <2>2 DEF Elsewhere, OnTime
  <2> QED
    BY <1>1, <2>1, <2>2 DEF Elsewhere
<1>2. CASE RestartNameServer
  <2>1. wire'[p] \in {"register", "heartbeat"} => wire[p] \in {"register", "heartbeat"}
    BY <1>2 DEF RestartNameServer
  <2> QED
    BY <1>2, <2>1, RestartForgets DEF RestartNameServer
<1>3. CASE Start(p) \/ ServerStep(p) \/ Kill(p) \/ Break(p)
  <2>0. now' = now /\ \A t : StampedAt(p, t)' <=> StampedAt(p, t)
    BY <1>3, OwnStep
  <2> USE DEF DTypeOK
  <2>1. CASE Start(p)
    BY <2>0, <2>1 DEF Start, SessionFor
  <2>2. CASE Kill(p)
    BY <2>0, <2>2 DEF Kill
  <2>3. CASE Break(p)
    BY <2>0, <2>3 DEF Break
  <2>4. CASE SendRegister(p)
    BY <2>0, <2>4 DEF SendRegister
  <2>5. CASE ConnectFails(p) \/ LoseConnection(p)
    BY <2>0, <2>5 DEF ConnectFails, LoseConnection, Waiting
  <2>6. CASE ReceiveRegistered(p)
    BY <2>0, <2>6 DEF ReceiveRegistered
  <2>7. CASE SendHeartbeat(p)
    BY <2>0, <2>7 DEF SendHeartbeat
  <2>8. CASE ReceiveBeat(p)
    BY <2>0, <2>8 DEF ReceiveBeat
  <2> QED
    BY <1>3, <2>1, <2>2, <2>3, <2>4, <2>5, <2>6, <2>7, <2>8 DEF ServerStep
<1>4. CASE Answer(p)
  <2>1. AnswerRegister(p) \/ AnswerHeartbeat(p) \/ RejectHeartbeat(p)
    BY <1>4, NeverReplays
  <2>2. /\ UNCHANGED <<thread, killedAt>>
        /\ wire'[p] \in {"Ok", "Error"}
        /\ due'[p] = now + MaxDelay
        /\ wire[p] \in {"register", "heartbeat"}
    BY <1>4, <2>1 DEF DTypeOK, Answer, AnswerRegister, AnswerHeartbeat, RejectHeartbeat, Reply
  <2>3. now' = now /\ \A t : StampedAt(p, t)' => StampedAt(p, t) \/ t = now
    BY <1>4, AnswerTime
  <2>4. now <= LastSent(p) + MaxDelay
    BY <2>2
  <2>5. LastSent(p)' = LastSent(p)
    BY <2>2, <2>3
  <2> QED
    BY <2>2, <2>3, <2>4, <2>5, <1>0
<1> QED
  BY <1>1, <1>2, <1>3, <1>4, StepSeenBy DEF StepOf

LEMMA DInitInductive == DInit => DInv
<1> SUFFICES ASSUME DInit PROVE DInv
  OBVIOUS
<1>1. DTypeOK /\ IInv
  BY DInitType, InitInductive DEF DInit
<1>2. ProvidersOf(SERVICE_NAME) = <<>> /\ now = 0
  BY DEF DInit, Init, ProvidersOf
<1>3. \A p \in Servers : ~Known(p) /\ \A t : ~StampedAt(p, t)
  BY <1>2 DEF Known, Listed, StampedAt
<1>4. \A p \in Servers : SessionFor(p) /\ ArrivalFor(p)
  BY <1>2, <1>3 DEF DInit, SessionFor, ArrivalFor, Never
<1> QED
  BY <1>1, <1>4 DEF DInv

LEMMA DNextInductive == DInv /\ [DNext]_dvars => DInv'
  BY StepIsNext, NextInductive, DNextType, SessionInductive, ArrivalInductive DEF DInv

\* Connections, message ids and time stamps always fit together, for every
\* number of list servers and whatever breaks, dies or is started again.
THEOREM DiscoveryInvariance == DSpec => []DInv
  BY DInitInductive, DNextInductive, PTL DEF DSpec

-----------------------------------------------------------------------------
(* The stamps of a listed server.                                          *)

\* A listed server has a stamp, and it is not older than MaxStaleness.
LEMMA StampIsFresh ==
    ASSUME DInv, NEW p \in Servers, Known(p)
    PROVE  \E t \in Nat : StampedAt(p, t) /\ now - t <= MaxStaleness
<1> DEFINE providers == ProvidersOf(SERVICE_NAME)
<1>1. PICK i \in DOMAIN providers : providers[i].identifier = IdOf[p]
  BY DEF Known, Listed
<1>2. SERVICE_NAME \in DOMAIN services /\ providers = services[SERVICE_NAME]
  BY <1>1 DEF ProvidersOf
<1>3. providers[i].lastHeartbeat \in Nat
  <2>1. providers \in Seq(Provider)
    BY ProvidersType DEF DInv, DTypeOK
  <2>2. providers[i] \in Provider
    BY <1>1, <2>1
  <2> QED
    BY <2>2 DEF Provider, Instant
<1>4. StampedAt(p, providers[i].lastHeartbeat)
  BY <1>1 DEF StampedAt
<1>5. now - providers[i].lastHeartbeat <= MaxStaleness
  BY <1>1, <1>2, StalenessFromInv DEF DInv, StalenessBound
<1> QED
  BY <1>3, <1>4, <1>5

-----------------------------------------------------------------------------
(* The safety properties.                                                  *)

\* A killed list server is listed for MaxDelay + MaxStaleness at most.
THEOREM DeadAreForgotten == DSpec => []DeadForgotten
<1>1. DInv => DeadForgotten
  <2> SUFFICES ASSUME DInv, NEW p \in Servers, killedAt[p] # Never,
                      now - killedAt[p] > MaxDelay + MaxStaleness, Known(p)
               PROVE  FALSE
    BY DEF DeadForgotten
  <2>1. PICK t \in Nat : StampedAt(p, t) /\ now - t <= MaxStaleness
    BY StampIsFresh
  <2>2. t <= killedAt[p] + MaxDelay
    BY <2>1 DEF DInv, ArrivalFor, LastSent
  <2>3. now \in Nat /\ killedAt[p] \in Nat /\ MaxDelay \in Nat
    BY DiscoveryAssumption DEF DInv, DTypeOK, TypeOK, Instant, Never
  <2> QED
    BY <2>1, <2>2, <2>3, StalenessType
<1> QED
  BY DiscoveryInvariance, <1>1, PTL

-----------------------------------------------------------------------------
(* A generous timeout never costs a healthy list server its place.         *)

\* The room the timeout leaves, in the form the steps below use it.
LEMMA LeaseCovers ==
    ASSUME Generous, DInv, NEW p \in Servers, Lease(p) # Never,
           now <= Lease(p) + HeartbeatInterval + 2 * MaxDelay
    PROVE  Known(p)
<1>1. /\ now \in Nat /\ Lease(p) \in Nat /\ MaxDelay \in Nat
      /\ HeartbeatInterval \in Nat /\ Timeout \in Nat
      /\ SERVICE_NAME \in Services /\ IdOf[p] \in ProviderIds
  BY RegistryAssumption, DiscoveryAssumption
  DEF DInv, DTypeOK, TypeOK, Lease, Instant
<1>2. now - Lease(p) <= Timeout
  BY <1>1 DEF Generous
<1>3. LeaseListed
  BY DEF DInv, IInv
<1>4. \E i \in DOMAIN ProvidersOf(SERVICE_NAME) :
          ProvidersOf(SERVICE_NAME)[i].identifier = IdOf[p]
  BY <1>1, <1>2, <1>3 DEF LeaseListed, Lease, ProvidersOf
<1> QED
  BY <1>4 DEF Known, Listed

\* When a heartbeat is sent, and while it is on its way, its sender is listed.
LEMMA BeatingKnown ==
    ASSUME Generous, DInv, NEW p \in Servers, HealthyFor(p),
           thread[p] = "beating", wire[p] = "heartbeat"
    PROVE  Known(p)
<1>1. /\ Lease(p) # Never /\ due[p] <= Lease(p) + HeartbeatInterval + 2 * MaxDelay
      /\ now <= due[p]
  BY DEF HealthyFor, DInv, ArrivalFor
<1>2. /\ now \in Nat /\ due[p] \in Nat /\ Lease(p) \in Nat
      /\ MaxDelay \in Nat /\ HeartbeatInterval \in Nat
  BY <1>1, DiscoveryAssumption DEF DInv, DTypeOK, TypeOK, Lease, Instant
<1>3. now <= Lease(p) + HeartbeatInterval + 2 * MaxDelay
  BY <1>1, <1>2
<1> QED
  BY <1>1, <1>3, LeaseCovers

LEMMA HealthyInductive ==
    ASSUME Generous, DInv, NEW p \in Servers, HealthyFor(p), [DNext]_dvars
    PROVE  HealthyFor(p)'
<1>0. /\ now \in Nat /\ MaxDelay \in Nat /\ HeartbeatInterval \in Nat
      /\ due[p] \in Nat /\ Lease(p) \in Nat \cup {-1}
  BY DiscoveryAssumption DEF DInv, DTypeOK, TypeOK, Instant, Never, Lease
<1>t. DTypeOK /\ SessionFor(p) /\ ArrivalFor(p)
  BY DEF DInv
<1> USE <1>0, <1>t DEF HealthyFor, Never, Waiting
<1> HIDE DEF Lease
<1>1. CASE Elsewhere(p)
  <2>1. CASE now' = now
    BY <1>1, <2>1 DEF Elsewhere
  <2>2. CASE now' = now + 1 /\ OnTime(p)
    BY <1>1, <2>2 DEF Elsewhere, OnTime
  <2> QED
    BY <1>1, <2>1, <2>2 DEF Elsewhere
<1>2. CASE RestartNameServer
  <2>1. thread' = thread
    BY <1>2 DEF RestartNameServer
  <2>2. thread[p] \notin {"off", "connecting"} => wire'[p] = "lost"
    BY <1>2 DEF RestartNameServer
  <2> QED
    BY <2>1, <2>2
<1>3. CASE Start(p) \/ ServerStep(p) \/ Kill(p) \/ Break(p)
  <2>0. now' = now /\ Lease(p)' = Lease(p)
    BY <1>3, OwnStep
  <2> USE DEF DTypeOK
  <2>1. CASE Start(p) \/ Kill(p) \/ Break(p)
    BY <2>0, <2>1 DEF Start, Kill, Break
  <2>2. CASE SendRegister(p)
    BY <2>0, <2>2 DEF SendRegister
  <2>3. CASE ConnectFails(p) \/ LoseConnection(p)
    BY <2>0, <2>3 DEF ConnectFails, LoseConnection
  <2>4. CASE ReceiveRegistered(p)
    BY <2>0, <2>4 DEF ReceiveRegistered
  <2>5. CASE SendHeartbeat(p)
    BY <2>0, <2>5 DEF SendHeartbeat
  <2>6. CASE ReceiveBeat(p)
    BY <2>0, <2>6 DEF ReceiveBeat
  <2> QED
    BY <1>3, <2>1, <2>2, <2>3, <2>4, <2>5, <2>6 DEF ServerStep
<1>4. CASE Answer(p)
  <2>1. thread' = thread
    BY <1>4 DEF Answer
  <2>2. CASE AnswerRegister(p) \/ AnswerHeartbeat(p)
    <3>1. wire'[p] = "Ok" /\ due'[p] = now + MaxDelay
      BY <2>2 DEF DTypeOK, AnswerRegister, AnswerHeartbeat, Reply
    <3>2. ~AnswerHeartbeat(p) => ~Known(p)
      BY <2>2 DEF AnswerRegister, SessionFor, DTypeOK
    <3>3. now' = now /\ Lease(p)' = now
      BY <2>2, <3>2, AnswerStamps
    <3> QED
      BY <2>1, <3>1, <3>3
  <2>3. CASE RejectHeartbeat(p)
    <3>1. wire[p] = "heartbeat" /\ ~Known(p) /\ wire'[p] = "Error"
      BY <2>3 DEF RejectHeartbeat, Known, Reply, DTypeOK
    <3>2. thread[p] # "beating"
      BY <3>1, BeatingKnown
    <3> QED
      BY <2>1, <3>1, <3>2
  <2> QED
    BY <1>4, <2>2, <2>3, NeverReplays
<1> QED
  BY <1>1, <1>2, <1>3, <1>4, StepSeenBy DEF StepOf

\* With a timeout of at least the heartbeat interval and two delays, a list
\* server that stays connected stays listed.
THEOREM HealthyStayListed ==
    ASSUME Generous
    PROVE  DSpec => []HealthyListed
<1>1. DInit => HealthyInv
  BY DEF DInit, HealthyInv, HealthyFor, Waiting
<1>2. DInv /\ HealthyInv /\ [DNext]_dvars => HealthyInv'
  BY HealthyInductive DEF HealthyInv
<1>3. DInv /\ HealthyInv => HealthyListed
  <2> SUFFICES ASSUME DInv, NEW p \in Servers, HealthyFor(p), Connected(p)
               PROVE  Known(p)
    BY DEF HealthyListed, HealthyInv
  <2>0. /\ now \in Nat /\ MaxDelay \in Nat /\ HeartbeatInterval \in Nat
        /\ due[p] \in Nat /\ Lease(p) \in Nat \cup {-1}
    BY DiscoveryAssumption DEF DInv, DTypeOK, TypeOK, Instant, Never, Lease
  <2>1. DTypeOK /\ SessionFor(p) /\ ArrivalFor(p)
    BY DEF DInv
  <2>2. CASE thread[p] = "sleeping"
    <3>1. wire[p] = "none"
      BY <2>1, <2>2 DEF SessionFor, Connected
    <3>2. /\ Lease(p) # Never /\ due[p] <= Lease(p) + HeartbeatInterval + MaxDelay
          /\ now <= due[p] + MaxDelay
      BY <2>1, <2>2, <3>1 DEF HealthyFor, ArrivalFor
    <3>3. now <= Lease(p) + HeartbeatInterval + 2 * MaxDelay
      BY <2>0, <3>2 DEF Never
    <3> QED
      BY <3>2, <3>3, LeaseCovers
  <2>3. CASE thread[p] = "beating"
    <3>1. CASE wire[p] = "heartbeat"
      BY <2>3, <3>1, BeatingKnown
    <3>2. CASE wire[p] = "Ok"
      <4>1. Lease(p) # Never /\ due[p] <= Lease(p) + MaxDelay /\ now <= due[p]
        BY <2>3, <3>2 DEF HealthyFor, Waiting
      <4>2. now <= Lease(p) + HeartbeatInterval + 2 * MaxDelay
        BY <2>0, <4>1 DEF Never
      <4> QED
        BY <4>1, <4>2, LeaseCovers
    <3> QED
      BY <2>1, <2>3, <3>1, <3>2 DEF SessionFor, Connected, HealthyFor
  <2> QED
    BY <2>2, <2>3 DEF Connected
<1> QED
  BY DiscoveryInvariance, <1>1, <1>2, <1>3, PTL DEF DSpec

-----------------------------------------------------------------------------
(* The registry within the system.                                         *)

\* With list servers on it, their connections and their deaths, the name server
\* does nothing that it does not do on its own: what is proved of the registry
\* holds within the system.
THEOREM DiscoveryUsesRegistry == DSpec => Spec
<1>1. DInit => Init
  BY DEF DInit
<1> QED
  BY <1>1, StepIsNext, PTL DEF DSpec, Spec

\* Towards the list servers, too, the name server is a table of leases.
THEOREM DiscoveryKeepsLeases == DSpec => LeaseService
  BY DiscoveryUsesRegistry, LeasesImplemented

-----------------------------------------------------------------------------
(* A stingy timeout loses every list server before its next heartbeat.     *)

\* Before a heartbeat arrives its sender has been forgotten.
LEMMA OverdueForgotten ==
    ASSUME Stingy, DInv, NEW p \in Servers, SilentFor(p),
           thread[p] = "beating", wire[p] = "heartbeat"
    PROVE  ~Known(p)
<1> SUFFICES ASSUME Known(p) PROVE FALSE
  OBVIOUS
<1>1. PICK t \in Nat : StampedAt(p, t) /\ now - t <= MaxStaleness
  BY StampIsFresh
<1>2. /\ due[p] <= now + MaxDelay
      /\ t + HeartbeatInterval + MaxDelay <= due[p]
  BY <1>1 DEF SilentFor
<1>3. /\ now \in Nat /\ MaxDelay \in Nat /\ HeartbeatInterval \in Nat /\ due[p] \in Nat
  BY DiscoveryAssumption DEF DInv, DTypeOK, TypeOK, Instant
<1> QED
  BY <1>1, <1>2, <1>3, StalenessType DEF Stingy

LEMMA SilentInductive ==
    ASSUME Stingy, DInv, NEW p \in Servers, SilentFor(p), [DNext]_dvars
    PROVE  SilentFor(p)'
<1>0. /\ now \in Nat /\ MaxDelay \in Nat /\ HeartbeatInterval \in Nat /\ due[p] \in Nat
  BY DiscoveryAssumption DEF DInv, DTypeOK, TypeOK, Instant
<1>t. DTypeOK /\ SessionFor(p)
  BY DEF DInv
<1> USE <1>0, <1>t DEF SilentFor, Waiting
<1>1. CASE Elsewhere(p)
  BY <1>1 DEF Elsewhere
<1>2. CASE RestartNameServer
  <2>1. /\ thread' = thread /\ now' = now
        /\ thread[p] \notin {"off", "connecting"} => wire'[p] = "lost"
    BY <1>2 DEF RestartNameServer, Restart
  <2> QED
    BY <1>2, <2>1, RestartForgets
<1>3. CASE Start(p) \/ ServerStep(p) \/ Kill(p) \/ Break(p)
  <2>0. now' = now /\ \A t : StampedAt(p, t)' <=> StampedAt(p, t)
    BY <1>3, OwnStep
  <2> USE DEF DTypeOK
  <2>1. CASE Start(p) \/ Kill(p) \/ Break(p)
    BY <2>0, <2>1 DEF Start, Kill, Break
  <2>2. CASE SendRegister(p)
    BY <2>0, <2>2 DEF SendRegister
  <2>3. CASE ConnectFails(p) \/ LoseConnection(p)
    BY <2>0, <2>3 DEF ConnectFails, LoseConnection
  <2>4. CASE ReceiveRegistered(p)
    BY <2>0, <2>4 DEF ReceiveRegistered
  <2>5. CASE SendHeartbeat(p)
    BY <2>0, <2>5 DEF SendHeartbeat
  <2>6. CASE ReceiveBeat(p)
    BY <2>0, <2>6 DEF ReceiveBeat
  <2> QED
    BY <1>3, <2>1, <2>2, <2>3, <2>4, <2>5, <2>6 DEF ServerStep
<1>4. CASE Answer(p)
  <2>1. thread' = thread /\ (thread[p] = "beating" => wire[p] = "heartbeat")
    BY <1>4 DEF Answer, SessionFor
  <2>2. CASE thread[p] = "beating"
    <3>1. ~Known(p)
      BY <2>1, <2>2, OverdueForgotten
    <3>2. RejectHeartbeat(p)
      BY <1>4, <2>1, <2>2, <3>1, NeverReplays, AnswerStamps DEF AnswerRegister
    <3>3. now' = now /\ services' = services /\ leases' = leases
      BY <3>2 DEF RejectHeartbeat, vars
    <3>4. wire'[p] = "Error"
      BY <3>2 DEF RejectHeartbeat, Reply, DTypeOK
    <3> QED
      BY <2>1, <2>2, <3>3, <3>4, Undisturbed
  <2>3. CASE thread[p] # "beating"
    <3>1. now' = now /\ \A t : StampedAt(p, t)' => StampedAt(p, t) \/ t = now
      BY <1>4, AnswerTime
    <3>2. thread[p] # "sleeping"
      BY <1>4 DEF Answer, SessionFor
    <3> QED
      BY <2>1, <2>3, <3>1, <3>2
  <2> QED
    BY <2>2, <2>3
<1> QED
  BY <1>1, <1>2, <1>3, <1>4, StepSeenBy DEF StepOf

\* name-server-binary/src/main.cpp:22-25, for every timeout that leaves the
\* reaper time to come round between two heartbeats, whatever the phase between
\* them: no heartbeat is ever accepted.
THEOREM StingyTimeoutForgets ==
    ASSUME Stingy
    PROVE  DSpec => []TooSlow
<1>1. DInit => SilentInv
  <2> SUFFICES ASSUME DInit PROVE SilentInv
    OBVIOUS
  <2>1. ProvidersOf(SERVICE_NAME) = <<>>
    BY DEF DInit, Init, ProvidersOf
  <2>2. \A p \in Servers : \A t : ~StampedAt(p, t)
    BY <2>1 DEF StampedAt
  <2> QED
    BY <2>2 DEF DInit, SilentInv, SilentFor
<1>2. DInv /\ SilentInv /\ [DNext]_dvars => SilentInv'
  BY SilentInductive DEF SilentInv
<1>3. SilentInv => TooSlow
  BY DEF SilentInv, SilentFor, TooSlow
<1> QED
  BY DiscoveryInvariance, <1>1, <1>2, <1>3, PTL DEF DSpec
=============================================================================
