--------------------------- MODULE ServiceRegistry ---------------------------
(***************************************************************************)
(* The registry of the name server (Discovery/name-server-binary): the map *)
(* from service names to vectors of providers, the four requests that read *)
(* or change it, and the reaper thread that discards providers which have  *)
(* not sent a heartbeat for longer than the timeout.                       *)
(*                                                                         *)
(* One mutex protects the registry.  A request handler holds it for the    *)
(* whole of its effect, so a handler is one action, enabled only while the *)
(* reaper does not hold it.  The reaper reads the clock BEFORE it asks for *)
(* the mutex and then holds it for a scan of the whole registry; its steps *)
(* are modelled one by one, since time passes between them.                *)
(***************************************************************************)
EXTENDS Integers, Sequences, FiniteSets, SequencesExt

CONSTANTS Services,        \* service names
          ProviderIds,     \* provider identifiers
          Hosts,           \* endpoints: the host and port of a provider
          NoService,       \* the reaper is between two services
          Timeout,         \* seconds a provider may stay silent
          ReaperInterval,  \* seconds the reaper sleeps between two scans
          MaxLag,          \* bound: how late the reaper wakes, how long it scans
          MaxTime          \* bound: the last instant of the clock

ASSUME RegistryAssumption ==
    /\ Timeout \in Nat \ {0}
    /\ ReaperInterval \in Nat \ {0}
    /\ MaxLag \in Nat
    /\ MaxTime \in Nat
    /\ NoService \notin Services

VARIABLES services,   \* service name -> sequence of providers
          now,        \* the system clock
          reaperPc,   \* what the reaper thread is doing
          wake,       \* when the sleep of the reaper ends
          snapshot,   \* the clock as the reaper read it for this scan
          todo,       \* services the scan has not reached
          cur,        \* the service whose providers are being examined
          idx,        \* the provider iterator of the scan
          swept,      \* history: the snapshot of the last completed scan
          leases,     \* history: when a provider was last stamped, or Never
          heard       \* history: when a provider's last accepted request came

reaper == <<reaperPc, wake, snapshot, todo, cur, idx, swept>>
vars == <<services, now, reaper, leases, heard>>

Never == -1
Instant == Nat
Provider == [identifier : ProviderIds, host : Hosts, lastHeartbeat : Instant]

TypeOK ==
    /\ services \in [DOMAIN services -> Seq(Provider)]
    /\ DOMAIN services \subseteq Services
    /\ now \in Instant
    /\ reaperPc \in {"asleep", "locking", "scanning", "visiting"}
    /\ wake \in Instant
    /\ snapshot \in Instant
    /\ todo \subseteq Services
    /\ cur \in Services \cup {NoService}
    /\ idx \in Nat \ {0}
    /\ swept \in Instant
    /\ leases \in [Services -> [ProviderIds -> Instant \cup {Never}]]
    /\ heard \in [Services -> [ProviderIds -> Instant \cup {Never}]]

-----------------------------------------------------------------------------
(* The registry as a data structure.                                       *)

\* The new entry of handleRegisterRequest: the constructor stamps it.
NewProvider(id, h) == [identifier |-> id, host |-> h, lastHeartbeat |-> now]

\* What findProvider returns, as the set of its result: the index of the
\* first provider with this identifier, or nothing.
findProvider(ps, id) ==
    {i \in DOMAIN ps : /\ ps[i].identifier = id
                       /\ \A j \in DOMAIN ps : j < i => ps[j].identifier # id}

\* services.find, with the providers of an absent service read as none.
ProvidersOf(s) == IF s \in DOMAIN services THEN services[s] ELSE <<>>

\* The same vector after the handler wrote through the iterator it found.
Moved(ps, i, h) == [ps EXCEPT ![i] = [@ EXCEPT !.host = h]]
Stamped(ps, i) == [ps EXCEPT ![i] = [@ EXCEPT !.lastHeartbeat = now]]

Listed(s, id) == \E i \in DOMAIN ProvidersOf(s) : ProvidersOf(s)[i].identifier = id

Bind(s, ps) == [x \in DOMAIN services \cup {s} |-> IF x = s THEN ps ELSE services[x]]

\* Mutant: the emptied entry stays in the map.
BindAlways(s, ps) == Bind(s, ps)

\* Write back the providers of a service; an empty vector drops the service.
BindOrDrop(s, ps) ==
    IF ps = <<>> THEN [x \in DOMAIN services \ {s} |-> services[x]] ELSE Bind(s, ps)

-----------------------------------------------------------------------------
(* The requests.  An action is a request that succeeds; a request answered *)
(* with an error returns before it changes anything.                       *)

LockFree == reaperPc \in {"asleep", "locking"}

\* A provider that is listed already gets its new endpoint and keeps the time
\* stamp it had.
RegisterKnown(s, id, h) ==
    \E i \in findProvider(ProvidersOf(s), id) :
        /\ services' = Bind(s, Moved(ProvidersOf(s), i, h))
        /\ leases' = leases

\* Mutant: a registration is always appended.
RegisterAppend(s, id, h) ==
    /\ services' = Bind(s, Append(ProvidersOf(s), NewProvider(id, h)))
    /\ leases' = [leases EXCEPT ![s][id] = now]

\* Mutant: the newest provider goes to the front of the vector.
RegisterFront(s, id, h) ==
    /\ findProvider(ProvidersOf(s), id) = {}
    /\ services' = Bind(s, <<NewProvider(id, h)>> \o ProvidersOf(s))
    /\ leases' = [leases EXCEPT ![s][id] = now]

RegisterNew(s, id, h) ==
    /\ findProvider(ProvidersOf(s), id) = {}
    /\ services' = Bind(s, Append(ProvidersOf(s), NewProvider(id, h)))
    /\ leases' = [leases EXCEPT ![s][id] = now]

handleRegisterRequest(s, id, h) ==
    /\ LockFree
    /\ RegisterKnown(s, id, h) \/ RegisterNew(s, id, h)
    /\ heard' = [heard EXCEPT ![s][id] = now]
    /\ UNCHANGED <<now, reaper>>

handleUnregisterRequest(s, id) ==
    /\ LockFree
    /\ \E i \in findProvider(ProvidersOf(s), id) :
           services' = BindOrDrop(s, RemoveAt(ProvidersOf(s), i))
    /\ leases' = [leases EXCEPT ![s][id] = Never]
    /\ heard' = [heard EXCEPT ![s][id] = Never]
    /\ UNCHANGED <<now, reaper>>

handleHeartbeatRequest(s, id) ==
    /\ LockFree
    /\ \E i \in findProvider(ProvidersOf(s), id) :
           services' = Bind(s, Stamped(ProvidersOf(s), i))
    /\ leases' = [leases EXCEPT ![s][id] = now]
    /\ heard' = [heard EXCEPT ![s][id] = now]
    /\ UNCHANGED <<now, reaper>>

-----------------------------------------------------------------------------
(* The reaper thread.                                                      *)

\* sleep_for returns, and the thread reads the clock without the lock.
ReaperWake ==
    /\ reaperPc = "asleep" /\ now >= wake
    /\ snapshot' = now
    /\ reaperPc' = "locking"
    /\ UNCHANGED <<services, now, wake, todo, cur, idx, swept, leases, heard>>

ReaperLock ==
    /\ reaperPc = "locking"
    /\ reaperPc' = "scanning"
    /\ todo' = DOMAIN services
    /\ UNCHANGED <<services, now, wake, snapshot, cur, idx, swept, leases, heard>>

\* The map is unordered: the scan visits the services in any order.
VisitService(s) ==
    /\ reaperPc = "scanning" /\ s \in todo
    /\ reaperPc' = "visiting"
    /\ todo' = todo \ {s}
    /\ cur' = s /\ idx' = 1
    /\ UNCHANGED <<services, now, wake, snapshot, swept, leases, heard>>

\* Mutants: the limit itself already counts as stale; the silence is truncated,
\* here to units of four, before it is compared.
UnresponsiveAtLimit(provider) == snapshot - provider.lastHeartbeat >= Timeout
UnresponsiveTruncated(provider) == (snapshot - provider.lastHeartbeat) \div 4 > Timeout \div 4

Unresponsive(provider) == snapshot - provider.lastHeartbeat > Timeout

\* Mutant: the iterator is incremented although erase already advanced it.
EraseAndSkip ==
    /\ reaperPc = "visiting" /\ idx \in DOMAIN ProvidersOf(cur)
    /\ Unresponsive(ProvidersOf(cur)[idx])
    /\ services' = Bind(cur, RemoveAt(ProvidersOf(cur), idx))
    /\ idx' = idx + 1
    /\ UNCHANGED <<now, reaperPc, wake, snapshot, todo, cur, swept, leases, heard>>

\* vector::erase moves the rest forward: the iterator then points at the next.
\* The emptied service stays in the map until the scan leaves it.
EraseProvider ==
    /\ reaperPc = "visiting" /\ idx \in DOMAIN ProvidersOf(cur)
    /\ Unresponsive(ProvidersOf(cur)[idx])
    /\ services' = Bind(cur, RemoveAt(ProvidersOf(cur), idx))
    /\ UNCHANGED <<now, reaper, leases, heard>>

\* Mutant: the iterator is not incremented.
KeepForever ==
    /\ reaperPc = "visiting" /\ idx \in DOMAIN ProvidersOf(cur)
    /\ ~Unresponsive(ProvidersOf(cur)[idx])
    /\ UNCHANGED vars

KeepProvider ==
    /\ reaperPc = "visiting" /\ idx \in DOMAIN ProvidersOf(cur)
    /\ ~Unresponsive(ProvidersOf(cur)[idx])
    /\ idx' = idx + 1
    /\ UNCHANGED <<services, now, reaperPc, wake, snapshot, todo, cur, swept, leases, heard>>

LeaveService ==
    /\ reaperPc = "visiting" /\ idx > Len(ProvidersOf(cur))
    /\ services' = BindOrDrop(cur, ProvidersOf(cur))
    /\ reaperPc' = "scanning"
    /\ cur' = NoService /\ idx' = 1
    /\ UNCHANGED <<now, wake, snapshot, todo, swept, leases, heard>>

\* The lock_guard goes out of scope at the end of the loop body and the thread
\* goes back to sleep.
ReaperUnlock ==
    /\ reaperPc = "scanning" /\ todo = {}
    /\ reaperPc' = "asleep"
    /\ wake' = now + ReaperInterval
    /\ swept' = snapshot
    /\ UNCHANGED <<services, now, snapshot, todo, cur, idx, leases, heard>>

ReaperStep ==
    \/ ReaperWake \/ ReaperLock
    \/ \E s \in Services : VisitService(s)
    \/ EraseProvider \/ KeepProvider \/ LeaveService
    \/ ReaperUnlock

-----------------------------------------------------------------------------
\* The instant by which the reaper takes its next step: the scheduler runs it
\* at most MaxLag after its sleep ends, and a scan ends at most MaxLag after
\* its clock was read.
Deadline == IF reaperPc = "asleep" THEN wake + MaxLag ELSE snapshot + MaxLag

Tick ==
    /\ now < MaxTime /\ now < Deadline
    /\ now' = now + 1
    /\ UNCHANGED <<services, reaper, leases, heard>>

NobodyHeard == [s \in Services |-> [id \in ProviderIds |-> Never]]

\* The process ends and is started again: nothing of the registry is on disk.
Restart ==
    /\ services' = [s \in {} |-> <<>>]
    /\ reaperPc' = "asleep"
    /\ wake' = now + ReaperInterval
    /\ swept' = now /\ snapshot' = now
    /\ todo' = {} /\ cur' = NoService /\ idx' = 1
    /\ leases' = NobodyHeard /\ heard' = NobodyHeard
    /\ UNCHANGED now

Init ==
    /\ services = [s \in {} |-> <<>>]
    /\ now = 0
    /\ reaperPc = "asleep"
    /\ wake = ReaperInterval
    /\ swept = 0 /\ snapshot = 0
    /\ todo = {} /\ cur = NoService /\ idx = 1
    /\ leases = NobodyHeard /\ heard = NobodyHeard

Request ==
    \E s \in Services, id \in ProviderIds :
        \/ \E h \in Hosts : handleRegisterRequest(s, id, h)
        \/ handleUnregisterRequest(s, id)
        \/ handleHeartbeatRequest(s, id)

Next == Request \/ ReaperStep \/ Tick \/ Restart

\* The reaper is a thread the scheduler keeps running; nobody promises that a
\* client ever sends anything.
Spec == Init /\ [][Next]_vars
FairSpec == Spec /\ WF_vars(ReaperStep)
-----------------------------------------------------------------------------
(* Properties.                                                             *)

\* The first provider in the vector is the one RESOLVE answers with.
ResolveReply(s) == IF ProvidersOf(s) = <<>> THEN {} ELSE {Head(ProvidersOf(s)).identifier}

\* An identifier stands at most once in the providers of a service, whatever
\* registrations, removals and scans came before: handleUnregisterRequest and
\* handleHeartbeatRequest act on the first match only, so a second entry could
\* be neither removed nor kept alive.
UniqueProviders ==
    \A s \in DOMAIN services : \A i, j \in DOMAIN services[s] :
        services[s][i].identifier = services[s][j].identifier => i = j

\* Whoever gets the lock finds no service without providers: each of the two
\* places that remove a provider also drops the entry it empties, one at once
\* and the other (the reaper) only when its scan leaves the service.
NoEmptyService == LockFree => \A s \in DOMAIN services : services[s] # <<>>

\* How long after its last heartbeat a provider can still be listed: the
\* timeout, one sleep of the reaper, and three delays (a late wake after the
\* scan that just missed it, the scan before that, and the scan that finds it).
MaxStaleness == Timeout + ReaperInterval + 3 * MaxLag

\* A provider that went silent is not listed, and so not resolved, for longer
\* than MaxStaleness: no provider is passed over by the erasing iteration.
StalenessBound ==
    \A s \in DOMAIN services : \A i \in DOMAIN services[s] :
        now - services[s][i].lastHeartbeat <= MaxStaleness

\* A provider whose heartbeat (or first registration) was answered Ok stays
\* listed for the whole timeout unless it unregisters or the name server is
\* restarted, although the reaper judges it by a clock reading it took before
\* it had the lock.
LeaseHeld ==
    \A s \in Services, id \in ProviderIds :
        leases[s][id] # Never /\ now - leases[s][id] <= Timeout => Listed(s, id)

\* The answer to RESOLVE changes from one provider to another only when the
\* first has left the registry: registrations, heartbeats and the removal of
\* other providers never divert clients that were being sent to it.
ResolveSticky ==
    [][\A s \in Services : \A id \in ResolveReply(s) :
           id \notin ResolveReply(s)' => ~Listed(s, id)']_vars

\* The stamp of a provider in a vector.
Stamp(ps, id) ==
    IF \E i \in DOMAIN ps : ps[i].identifier = id
      THEN ps[CHOOSE i \in DOMAIN ps : ps[i].identifier = id].lastHeartbeat
      ELSE Never

Stamps == [s \in Services |-> [id \in ProviderIds |-> Stamp(ProvidersOf(s), id)]]

Table == INSTANCE LeaseTable WITH
    stamps <- Stamps,
    granted <- leases,
    Grace <- ReaperInterval + 3 * MaxLag

\* Vectors, mutex and reaper together are a table of leases: a second registration
\* changes no lease, a heartbeat renews its own and no other, and a scan that erases
\* from the vector it walks, by a clock it read before it had the lock, ends only
\* leases that have run out, one at a time, and leaves none overdue.
LeaseService == Table!TableSpec

\* The reaper never keeps the lock: every scan comes to its end, so no request
\* waits for the registry for ever.
ScanEnds == ~LockFree ~> LockFree

\* SharedRegistry.h:15-20 says that lastHeartbeat is the moment the name server
\* last heard from a provider and that a freshly registered provider starts out
\* alive: it would then be listed for a timeout after every accepted request.
FreshRegistrationAlive ==
    \A s \in Services, id \in ProviderIds :
        heard[s][id] # Never /\ now - heard[s][id] <= Timeout => Listed(s, id)
-----------------------------------------------------------------------------
(* The inductive invariant behind the safety properties.                   *)

\* The scan stands on a service of the registry, at most one past its end.
ScanShape ==
    /\ LockFree => todo = {}
    /\ todo \subseteq DOMAIN services
    /\ reaperPc = "visiting" => /\ cur \in DOMAIN services \ todo
                                /\ idx <= Len(services[cur]) + 1

\* Only the service the reaper is in may be empty.
EmptyIsCurrent ==
    \A s \in DOMAIN services :
        services[s] = <<>> => reaperPc = "visiting" /\ s = cur

\* One scan follows another in ReaperInterval and two delays at most.
Schedule ==
    /\ swept <= snapshot /\ snapshot <= now
    /\ reaperPc = "asleep" => /\ swept = snapshot
                              /\ wake <= swept + MaxLag + ReaperInterval
    /\ reaperPc # "asleep" => snapshot <= swept + ReaperInterval + 2 * MaxLag
    /\ now <= Deadline

\* The scan has decided to keep provider i of service s.
Kept(s, i) ==
    /\ ~LockFree /\ s \notin todo
    /\ reaperPc = "visiting" /\ s = cur => i < idx

\* No provider was stale at the last completed scan, none of those the present
\* scan has kept is stale in its snapshot.
NoneMissed ==
    \A s \in DOMAIN services : \A i \in DOMAIN services[s] :
        /\ services[s][i].lastHeartbeat + Timeout >= swept
        /\ Kept(s, i) => services[s][i].lastHeartbeat + Timeout >= snapshot

\* A lease that has not run out is the time stamp of a listed provider.
LeaseListed ==
    \A s \in Services, id \in ProviderIds :
        leases[s][id] # Never /\ now - leases[s][id] <= Timeout =>
            /\ s \in DOMAIN services
            /\ \E i \in DOMAIN services[s] :
                  /\ services[s][i].identifier = id
                  /\ services[s][i].lastHeartbeat = leases[s][id]

IInv == /\ TypeOK /\ ScanShape /\ UniqueProviders /\ EmptyIsCurrent
        /\ Schedule /\ NoneMissed /\ LeaseListed
=============================================================================
