# A verification project for the CECS 327 distributed-systems programs

The repository is a set of small C++ programs: a name server with the list
server that registers with it (`src/Discovery`), a key-value store behind a
binary protocol with its client (`src/RPC`), text protocols over sockets
(`src/Sockets`), and FIFOs and pipes (`src/IPC`). This directory holds TLA+
modules translated from that code, the TLC instances that check them and the
proofs that TLAPS checks.

## 1. Inventory

| component | state | operations | interacts with |
|---|---|---|---|
| name server: registry (`name-server-binary/src/RequestHandlers.cpp`, `include/SharedRegistry.h`) | map from service to vector of providers (identifier, endpoint, `lastHeartbeat`), one mutex | REGISTER, UNREGISTER, HEARTBEAT, RESOLVE, QUIT | session threads and the reaper share it |
| name server: reaper (`src/main.cpp:36-75`) | its clock reading, two iterators | wake, lock, visit, erase or keep, drop the service, unlock, sleep | the registry |
| session (`name-server-binary/src/main.cpp:185-243`, `list-server-binary/src/main.cpp:353-421`) | `lastMessage`, `lastResponsePayload` | greet, read a frame, refuse, suppress, run, respond, close | one client over TCP; the registry or the list |
| list server: registration (`list-server-binary/src/main.cpp:88-225`) | connection, `messageId` | connect, register, sleep, heartbeat | the name server's session |
| list server: shared list (`list-server-binary/src/RequestHandlers.cpp`) | vector of strings, one mutex | PUSH POP INSERT REMOVE COUNT GET SET SWAP CLEAR QUIT | one thread per client |
| RPC key-value server and client (`src/RPC`) | map and mutex; the stub's socket | PUT GET DELETE COUNT EXISTS KEYS; the menu's add and print | one thread per client |
| text key-value servers (`src/Sockets/key-value-*`) | map, with a mutex, without, or single-threaded | PUT GET DELETE COUNT (EXIST KEYS CLEAR) QUIT | clients |
| echo server and client (`src/Sockets/echo-*`) | count of active clients and its mutex | admit, refuse, ECHO TIME CLIENTS HELP QUIT | clients with a 100 ms wait |
| FIFO programs (`src/IPC/fifo-*`) | the two FIFOs in `/tmp`, file descriptors | mkfifo, open, write, read, close | server and clients, through the FIFOs |
| pipe programs (`src/IPC/pipes*`) | file descriptors | fork, write, read, close | parent and child |
| `src/Lectures` | earlier copies of the socket and IPC programs | | |

What is hard in it: threads that share a structure through one mutex and read
the clock, or build the answer, outside it; a thread that erases from the vector
it is walking; retransmissions told from new requests by one remembered id;
timeouts that race heartbeats; processes that are killed without saying so; and
waits that have no timeout. `PROJECT.json` lists these hazards line by line.


What makes each component correct, in a sentence: the registry lists a provider
as long as it has been heard from within the timeout and not much longer; a
session answers every request once and runs none twice in a row; a list server
that is healthy stays listed and one that is dead does not; the shared list and
the threaded store answer as one list and one map would; the RPC client reports
what the server did; the echo server counts its clients exactly and tells the
others so; the one-client server lets no session see another; a FIFO client is
told the truth.

## 2. Modules

| module | models | state and actions |
|---|---|---|
| `ServiceRegistry` | registry and reaper of the name server | `services`, the reaper's locals and program counter, the clock. `handle*Request` are one action each, for a handler holds the mutex throughout; the reaper is `ReaperWake` (reads the clock *before* it locks), `ReaperLock`, `VisitService`, `EraseProvider`, `KeepProvider`, `LeaveService`, `ReaperUnlock`. `leases` and `heard` are history. |
| `LeaseTable` | what the registry promises: a table of leases | `stamps`, `granted`, `now`; grant, renew, release, expire, forget all, and time, which does not pass a lease that is overdue |
| `SuppressingSession` | `handleClient` of name server and list server | two streams of frames, the one to the client bounded; `lastMessage`, `lastResponsePayload`; greet, read, refuse, suppress, execute, respond, fail, crash; the client sends, reads, hangs up. `executed`, `handled` and `replies` are the history of the thread, `received` that of the client: a reply sent to a client that has gone is in the first and never in the second |
| `Discovery` (EXTENDS `ServiceRegistry`) | `registerWithNameServer` composed with the registry and the session | the thread, its message id, what is on its connection, what the session remembers of it; delays, broken connections, kills, restarts |
| `ListRequests`, `SharedList` | the ten handlers of the list server, step by step | vector, mutex, per client the place in the handler, the request, the copied value, the response |
| `ListObject` | what the list promises: one request at a time | `list`, `answer` |
| `MapRequests`, `UnguardedServer` | the threaded text key-value server with nothing to guard its map (`key-value-multi-server-flawed`) | map, per client the place, the command, the locals; each use of the map is a step, and `Race` says that a use which overlaps a conflicting one may leave anything behind |
| `KeyValueServer` (EXTENDS `UnguardedServer`) | the same server with its mutex (`key-value-multi-server`) | the mutex; `Lock` and `Unlock` before and after the uses of the map |
| `MapObject` | what the map promises | `map`, `answer` |
| `SequentialServer` | the key-value server for one client at a time, and the text client | map, the connection served, the queue of the kernel, the terminals |
| `RemoteStore` | the RPC server, stub, remote store and menu | the map, threads and connections; the menu's place and variables; ghosts for what was applied, printed and stored |
| `EchoServer` | echo server and echo client, with the time they sleep and wait | counter, mutex, threads, terminals, clocks |
| `Turnstile` | what the echo server promises of its limit | `inside`, `turned`, `noted`, `report`; enter, turn away, exit, note a number, tell it, hear it |
| `FifoExchange` | the FIFO server and client, on the kernel's FIFOs | where each program is, what is in each FIFO |

`SharedList` implements `ListObject` and `KeyValueServer` implements `MapObject`
(`Object == INSTANCE ... WITH`, `Linearizable == Object!ObjectSpec`). The
refinement maps the vector (the map) to itself and the answer to what the
handler is bound to send once it has released the mutex: `Built(c)` between the
unlock and the building of the response, `response[c]` after it. The abstract
object carries out whole requests; the detailed one must find for each a single
step that does the same.

`ServiceRegistry` implements `LeaseTable` (`Table`, `LeaseService`). The refinement
maps a provider to its stamp in the vector of its service, or to none (`Stamps`),
the grace of a lease to `ReaperInterval + 3 * MaxLag`, and what a provider was
granted and has not given up to the history `leases`: without it a lease that ends
too early would pass for one that was given up. The table has no mutex,
no vectors and no reaper: a scan, which reads the clock, waits for the lock, walks a
vector and erases from it, must amount to leases that expire one at a time, and
none too early or too late. `EchoServer` implements `Turnstile` (`Gate`, `Admission`):
the clients inside are the threads that were admitted, the numbers noted and told are those between the
reading of the counter under the mutex and the client that reads the answer.

The two threaded key-value servers are one program but for the mutex, and so are
their modules: `KeyValueServer` takes every step of `UnguardedServer` and adds the
lock. That it adds nothing else is checked: `RaceFree` says that each of its steps
is a step of the unguarded server in which no use of the map races with another. A
data race is undefined behaviour; `Race` lets such a use leave any map and any
result, so what an interleaved execution of the flawed server does is not
promised to be anything, and what it does without an overlap is a theorem
(`UnguardedImplements`).

`MC*` modules hold the finite constants, `*Proofs` modules the proofs. A
definition called a mutant in its comment is a wrong version of the one that
follows it; it is part of no specification, and stands there to show that the
property it breaks depends on the code it replaces.

### Abstractions

- Requests and responses are records of what the code tells apart. Encoding and
  decoding of bytes are abstracted to which fields are present and well formed.
  The one conversion a property is about is kept: a size of the list beyond the
  largest int32 is answered with the error "count overflow"
  (`ResponseHandlers.cpp:30-33`); `MaxCount` stands for that number, made small.
- A line of the text protocols is one message. `echo-server/main.cpp:111` takes at
  most 1023 bytes with one `recv`, and answers a longer line more than once, so
  that its client reads later answers a line late; such lines are left out of
  `EchoServer`. The limit of clients and the counter do not depend on it.
- Time is an integer clock. In `ServiceRegistry` a unit is what the constants
  make it; `MaxLag` bounds how late the reaper wakes or goes on, `MaxDelay` how
  late a message is. In `EchoServer` only the sleep of 100 ms and the wait of
  100 ms take time (`Sleep = Window`), everything else is done in between.
- RPC handlers are one step, because each holds the mutex from its first use of
  the map to its last; the handlers of the list server and of the threaded
  store are split at every point where another thread might come in if the
  mutex did not keep it out.
- The death of a server by SIGPIPE or a signal is an action of
  `SuppressingSession`, `Discovery` and `RemoteStore`. In `FifoExchange` programs
  die by SIGPIPE only: users who kill a program that waits in an `open` or a `read`
  are left out, and what is promised there is promised to patient ones. In
  `SharedList`, `KeyValueServer`, `EchoServer` and `SequentialServer` it would
  lose the whole state and end every behaviour, and is left out.

## 3. What is checked

Each property has a mutant of the code that breaks it (`PROJECT.json`).

| run | states | question | properties |
|---|---|---|---|
| `registry` | 79,000 | requests, restarts and scans in every order, time passing within a scan | `UniqueProviders`, `NoEmptyService`, `StalenessBound`, `LeaseHeld`, `ResolveSticky`, `LeaseService`, `ScanEnds` |
| `registry_fresh` | | is a provider that registers again fresh? No. | `FreshRegistrationAlive` violated |
| `session` | 372,000 | one connection, any three frames, any failure | `RepliesMatch`, `DoubtBounded`, `NoRepeatedRun`, `NothingAfterBye`, `SessionEnds` |
| `discovery` | 1,803,000 | the default settings: timeout 10 s, heartbeat 5 s, scan 1 s | `HealthyListed`, `DeadForgotten`, `RegistrationAccepted` |
| `discovery_phase` | | does the timeout alone decide? Not between 4 and 5 s. | `TimeoutDecides` violated |
| `list` | 548,000 | two threads in the list | `UseDefined`, `TakenIsAnswered`, `Linearizable`, `LockReleased` |
| `key_value` | 61,000 | three threads in the map: against the abstract map, and against the server without the mutex | `FoundStays`, `Linearizable`, `RaceFree` |
| `sequential` | 45,000 | two terminals and the server that serves one | `AnswersFit`, `SessionAlone`, `Served` |
| `remote_store` | 454,000 | a program that adds and prints while others put and delete | `PutsAccounted`, `NoMissingValue`, `ShownWasStored`, `OwnKeysListed`, `CallsReturn` |
| `echo` | 34,000 | three terminals, room for two, and what comes of them when threads go on | `CountExact`, `RefusalNoticed`, `NobodyStuck`, `Admission`, `Answered`, `PlaceFreed` |
| `echo_two_refused` | | does the second of two refused clients notice? No. | `RefusalNoticed` violated |
| `fifo` | 82,000 | the FIFO programs, run again and again | `ReplyTrue`, `NobodyKilled`, `ExchangeEnds` |

The type invariants are theorems of section 4 and are checked in no run.

### Bounds, and why they are enough

- `registry`: one service, two providers, one endpoint; timeout, scan interval
  and lag 1, clock up to 6. Services do not interact but through the order of a
  scan; two providers are needed and enough for an erasing iterator to pass one
  over, for the front to change, and for a vector to stay non-empty. With
  timeout, interval and three lags 5, `MaxStaleness` is reached before 6.
  The proofs hold for any number of services and providers.
- `session`: `MaxFrames` 3 frames with ids 0, 1, 2, because the session compares
  two neighbouring ids and the value 0 it starts with; `Capacity` 2 lets sends
  block.
- `discovery`: one list server; messages are up to 2 s and the reaper up to 1 s
  late. `DeadForgotten` forbids a killed server to be listed more than `MaxDelay +
  MaxStaleness` = 16 s after its death. The clock runs to 22 s, so the run decides
  that for kills up to 5 s, among them one with the first heartbeat on its way;
  of later ones it shows nothing, and the theorem `DeadAreForgotten` covers them.
  `HealthyListed` sees four heartbeats. Two servers with distinct identifiers meet only
  in the vector, which `registry` covers.
- `discovery_phase`: quarters of a second, timeout 4 s, to have scans and
  heartbeats fall between each other.
- `list`: two clients, two values, at most `MaxLength` 2 elements, indices -1 to 2
  (below, inside, at and beyond the end); `MaxCount` 2 stands for the
  largest int32, which two additions under way at once exceed.
- `key_value`: three clients, so that one can hold the mutex, one wait and one
  arrive; two keys, two values, all symmetric (safety only, so symmetry is sound).
  Any three threads that disturb each other do it in pairs through the mutex.
- `sequential`: two terminals whose users come back for ever (enough to
  overtake), `Backlog` 2.
- `remote_store`: one program under observation with at most `MaxPuts` 2 pairs;
  `OtherPuts` and `handleDeleteRequest` stand for any number of others.
- `echo`: three clients and a limit of 2, so that one is refused while two are
  served; no symmetry, since liveness is checked. The violation needs a limit of 1
  only.
- `fifo`: two clients; nobody starts a program while a FIFO holds `MaxUnread` 2
  unread messages.

Runs with `CHECK_DEADLOCK FALSE` may stop: at the clock's bound, when the
process or the session has ended, when the menu has been left, or (FIFOs) when
clients that ran at once have left every program waiting.

### Fairness

Only what the operating system or the program provides: threads that can go on
do go on (`WF` of the reaper, of a session's thread, of a handler, of the
programs), a client that stays reads what it was sent, and in `Discovery` time
does not stop and a delivered request is answered. `std::mutex` promises no
order. `LockReleased` and `ScanEnds` ask nothing of threads that wait for it: they
say that the lock is given back, not that everyone gets it. Where a handler is one
atomic step the fairness of that step does assume more: `WF` of `Answer` in
`Discovery`, of `ServerStep` in `RemoteStore` and of `ServerStep` in
`SuppressingSession` is that a thread which wants the mutex of the registry, the map
or the list gets it in the end. `RegistrationAccepted`, `CallsReturn` and `SessionEnds` rest on
that; it is justified by critical sections that are short, never sleep and
are always left (`LockReleased`, `ScanEnds`). `SessionEnds` also takes the loss of a client to be
signalled: there is no keepalive and no timeout in the code, so a thread
whose client's host goes silent waits as long as the kernel does. The echo server does sleep
with its mutex held, so its steps are fair one by one, and `Answered` and `PlaceFreed` have the premise
`RefusalsEnd`: a thread that refuses a client keeps the mutex for 100 ms, a mutex
favours nobody, and with refusals that never end TLC finds a thread that never
gets it. There `FairSpec` asks for time (`Tick`), the steps of each thread and those
of each client program, and nothing of users. No fairness
is put on users, on failures, or on other programs. `Served` has the premise
that no session lasts for ever, which is the client's affair.

### What the violations say

1. `registry_fresh` (`RequestHandlers.cpp:45`): REGISTER of a listed provider
   changes its endpoint and not `lastHeartbeat`; it is answered Ok and discarded
   by the next scan. `SharedRegistry.h:15` calls the field "the moment we last
   heard from this provider".
2. `discovery_phase` (`main.cpp:28-33`): polling once a second makes the timeout
   decide "independent of when each server started" only outside a window of one
   scan interval below the heartbeat interval. `StingyTimeoutForgets` says for which timeouts
   it does (section 4).
3. `echo_two_refused` (`echo-server/main.cpp:101`): the thread that refuses a
   client sleeps 100 ms with the mutex held; a second client refused meanwhile
   hears of it after its own 100 ms, prints "Connected to server" and takes the
   refusal for the answer to its first line.

### Other things TLC showed

- Two FIFO clients at once break every promise of `FifoExchange`, hence the
  premise `alone`: without it a client is told "The server received your
  message." of a message that was lost, a server or a client is killed by
  SIGPIPE, and all programs can end up waiting in `open`.
- Session: the suppression remembers one id, so ids 1, 2, 1 run three requests.
  `NoRepeatedRun` is stated for what the code does: no two runs *in a row*. A request that is sent
  again behind a newer one is run again, and no property says otherwise.
- Session: a client may be in doubt about several runs when the connection breaks, if it sends without
  waiting for answers. `DoubtBounded` says how many: no more than it has sent without an
  answer. The list server's own thread waits for each, so for it that is one.
- Message id 0 is what a session remembers before the first request. A client that began with it
  would get an empty payload for its registration, which `readMessage` takes for the end
  of the connection: its thread would return without ever being listed. `registerWithNameServer` begins with 1;
  `RegistrationAccepted` depends on it (mutant `SendRegisterZero`).
- A list server registers once. When its connection breaks, or the name server is started again, its thread
  ends and the server goes on unlisted; when it was discarded, every heartbeat is answered with an
  error and it sends the next. That is what the code does
  (`list-server-binary/src/main.cpp:204`, `:213-222`), and no property asks for it.
- `KeyValueServer` with its mutant `LockAlways` (every thread passes the lock) is
  the flawed server: TLC finds two threads in the map at once, a step that races
  (`RaceFree`), and an answer no order of requests explains (`Linearizable`).
- Two list servers that share an identifier (process ids of two hosts) are outside
  `DiscoveryAssumption`: REGISTER of a known identifier does not restamp, so a healthy
  server could be discarded on the lease of another.

## 4. What is proved

For every value of the constants that satisfies the named `ASSUME`s.

| module | theorems |
|---|---|
| `SuppressingSessionProofs` | `TypeCorrect`, `RepliesAlwaysMatch`, `ClientInvariance`, `DoubtIsBounded`, `RunsNeverRepeated`, `ByeEnds` |
| `DiscoveryProofs`, of `ServiceRegistry` | `TypeCorrect`, `ProvidersUnique`, `NoServiceEmpty`, `StalenessBounded`, `LeasesHeld`, `ResolveStays`, `LeasesImplemented` |
| `DiscoveryProofs`, of `Discovery` | `DiscoveryInvariance`, `DeadAreForgotten`, `HealthyStayListed` (for `Generous` timeouts), `StingyTimeoutForgets` (for `Stingy` ones), `DiscoveryUsesRegistry`, `DiscoveryKeepsLeases` |
| `SharedListProofs` | `TypeCorrect`, `UseIsDefined`, `AnsweredIsTaken`, `Implements` |
| `KeyValueServerProofs` | `TypeCorrect`, `UnguardedImplements`, `NeverRaces`, `IteratorValid`, `Implements` |
| `RemoteStoreProofs` | `TypeCorrect`, `CountIsRight`, `KeysHaveValues`, `PrintedWasStored`, `ListsOwnKeys` |
| `EchoServerProofs` | `TypeCorrect`, `CounterExact`, `NoMutualWait`, `AdmissionKept`, `RefusalHeard` (for `OneTooMany`) |
| `SequentialServerProofs` | `TypeCorrect`, `RepliesFit`, `AloneWithTheMap` |
| `FifoExchangeProofs` | `TypeCorrect`, `RepliesTrue`, `NeverKilled` |

Each proof is one inductive invariant, `IInv` (`DInv` and `HealthyInv` in
`Discovery`), at the end of the component's module, with a lemma per action or per conjunct.
The proofs of the registry are the first part of `DiscoveryProofs`, which goes on from
them; they cite nothing of `Discovery`.

- **Registry.** `StalenessBound` is not inductive: a step of time alone breaks
  it. `Schedule` bounds the distance between the clock and the reading of the
  last completed scan, and `NoneMissed` says that no listed provider was stale
  at that reading and none that the present scan has passed is stale at its own;
  for that the scan must be known to stand where it does (`ScanShape`).
  `LeaseHeld` follows from `LeaseListed`: a lease that has not run out is the
  stamp of a listed provider, and a reading taken before the lock is never later
  than the clock. `NoEmptyService` needs that the only empty vector is the one
  the reaper is in. `ResolveStays` is a property of steps: every step rewrites at most one vector
  (`Rewrites`), and by `UniqueProviders` an erased front is nowhere else in it.
- **Lease table.** Every request and every erasure changes one vector, and identifiers
  are distinct in it, so it changes one stamp: `LeasesImplemented`. That an erased
  provider's lease has run out *now* follows from the reading being no later than the
  clock; that time may pass, from `StalenessBound` after the step.
- **Session.** `CacheIsLast` ties `lastMessage` and the cached response to the
  last request answered, `RunsTold` and `Pending` say which runs the thread has
  sent a reply for. `RepliesMatch` then survives every reply. What the client has of these
  replies is another matter, for a send to a client that has gone may succeed:
  `AsTold` says that what it has read, followed by what is on the stream, is the greeting, the
  replies and the error, from the first on and without a gap; `Accounted`, that the thread has
  handled no more than it was sent, and that a run without a reply is a handled frame without one;
  `RunsGrow`, that from one reply to the next there is one run more at most. So a run without an answer is among the last, and `DoubtBounded` counts
  how many those can be (`DoubtIsBounded`).
- **Discovery.** The theorems hold for any number of list servers with distinct
  identifiers, any timeout, heartbeat interval, scan interval, delay and lag. `DInv` takes over
  the registry's `IInv` (every step of `Discovery` is a step of the registry or
  leaves it alone, `StepIsNext`) and adds, for each server, that what is on its
  connection fits the place of its thread (`SessionFor`) and that nothing arrives later than
  `MaxDelay` after it was sent (`ArrivalFor`). A killed server is then stamped no
  later than `MaxDelay` after its death, and `StalenessBound` of the registry does the rest:
  `DeadAreForgotten`. `HealthyStayListed` needs the timeout to leave room for one
  heartbeat interval and two delays (`Generous`; the defaults of 10 s and 5 s do);
  `HealthyInv` is the chain of lease, sleep, heartbeat and answer, each of which
  ends before the lease does. `DiscoveryUsesRegistry` carries every theorem of the
  registry over to the system, among them the lease table.
- **A timeout that is too short.** `main.cpp:22-25` says that with a timeout of 3 s the
  heartbeat of 5 s is too slow. `StingyTimeoutForgets` proves it for every timeout
  with `MaxStaleness` (timeout, scan interval and three lags) below the heartbeat
  interval (`Stingy`): when a heartbeat arrives its sender was last stamped a
  heartbeat interval ago at least (`SilentInv`), and by `StalenessBound` is listed no
  more. For 3 s, 5 s and a scan every second that needs lags below a third
  of a second. The bound is tight: at `MaxStaleness = HeartbeatInterval` TLC finds a
  heartbeat that is accepted.
- **List and map.** `Exclusive` (the mutex is held exactly between the
  `lock_guard` and the end of its block) and `Prepared` (which request and which
  locals a thread has at each place) make the checks of one thread immune to the
  steps of another. `Implements` shows that each step maps to one abstract
  request or to a stutter. For the map it is proved once, of the unguarded server as long
  as no two uses overlap; the server with the mutex inherits it through
  `NeverRaces`.
- **RPC store.** `InvFor` of one client has four parts. `CallFor`: there is one call
  at a time, and request, response under way and response received belong to it
  or to a call that was given up. `PutsFor`: the counts of server and client are equal but while a
  put is between the two. `KeysFor`: until something is deleted, what the program has
  seen of the keys stays as long as the server lives, so a lookup that fails means a lost connection.
  `ShownFor`: a value that was collected is on the record of its key. Most of the proof is that a
  step of one client leaves all of this true of another (`OtherLeaves`), and that
  a failure only takes things off a connection (`FewerKeeps`).
- **Echo.** `CountExact` counts a finite set, with the cardinality theorems of the
  library; `NobodyStuck` needs that a thread which answers has a line to answer.
  `RefusalHeard` adds that with one client more than places (`OneTooMany`) the thread
  that refuses is the only one without a place, so no other refusal delays it
  (`Alone`); the run `echo_two_refused` shows that the premise is needed.
  `AdmissionKept` maps each step of a thread or a program to one step of the turnstile or to none.
  It needs `CountExact`, for the code compares its counter where the turnstile counts who is inside, and
  `DialogInv`: one answer to one line, so that no count is overwritten by a refusal, by the next answer
  or by a new connection before its client has heard it or gone.
- **FIFOs.** While no two clients have run at once, server and client are in one phase of one exchange
  (`OneExchange`): the seven phases say where both programs stand and what is in each
  FIFO, and allow for a server that closes early, ends, or is started again before the
  client has read. `ContentHeld` says that an unread message keeps an open end, so the
  kernel drops nothing in between. `ReplyTrue` and `NobodyKilled` are read off the phases.
- **One client at a time.** `ClientInv` says for each place of the client's program
  whether it is in the queue, served, or neither, and where its line or its reply
  is. While it is served the map changes only by its own commands
  (`HandleReplies`), so what it knows stays true (`Informed`). A reply that
  outlives its session can only be BYE.

Only model-checked: the liveness properties (`ScanEnds`, `SessionEnds`, `RegistrationAccepted`,
`LockReleased`, `Served`, `CallsReturn`, `Answered`, `PlaceFreed`, `ExchangeEnds`), which
rest on fairness and so on ENABLED. Every safety invariant, action property and refinement that
a run checks is a theorem. What is said of `FifoExchange` holds, there as here, while no two clients
have run at once, and rests on the kernel's bookkeeping of open ends.

## 5. What is not modelled

- `Sockets/echo-server-improved`: accepts one connection, echoes each line and
  exits; `IPC/pipes*`: parent and child write and read once, in an order fixed by
  the program. There is nothing in them to interleave, to fail halfway or to remember.
- COUNT, EXISTS and error responses of the RPC server: no client of the
  repository sends what leads to them, and they change nothing of the store.
- `Lectures`: earlier copies. `list-server-binary/src/demo.cpp`: a comment.
- The kernel's sockets but for queues, greetings, breaks and resets; a peer that goes
  silent without a reset; a clock that is set back; two list servers with the same
  process id on two hosts.
- Lines of the echo server that are longer than one `recv` takes; users who kill
  a FIFO program that waits.

## 6. Plan

Done, in this order: registry and reaper; session; list and its abstract object;
discovery; threaded map and its object; RPC store; echo server; one-client
server; FIFOs; the unguarded server below the threaded one; liveness of the echo
server; the proofs of discovery, of the RPC store, of the one-client server and of the FIFOs;
the lease table and the turnstile, with their refinements; the bound on timeouts that are too short.

Left:

1. An abstract specification of the session (each request run at most once, each
   answered in turn) and one of the RPC store, each with its refinement.
2. `Discovery` with identifiers that two hosts share; a registry instance of two
   services.
3. COUNT and EXISTS of the RPC server; the pipes; the improved echo server.
