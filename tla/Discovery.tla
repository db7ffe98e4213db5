------------------------------ MODULE Discovery ------------------------------
(***************************************************************************)
(* Service discovery: the name server of ServiceRegistry together with the *)
(* list servers that register with it.  A list server runs one thread,     *)
(* registerWithNameServer, that connects once, registers, and then sends a *)
(* heartbeat every HeartbeatInterval on the same connection, waiting for   *)
(* each answer.  The name server answers through the session that          *)
(* suppresses a repeated message id (see SuppressingSession).              *)
(*                                                                         *)
(* Messages and wake-ups are late by up to MaxDelay, connections break,    *)
(* either kind of process may be killed, and the name server may be        *)
(* started again.                                                          *)
(***************************************************************************)
EXTENDS ServiceRegistry

CONSTANTS Servers,            \* list server processes
          IdOf,               \* the provider id of each: made of its pid
          HostOf,             \* the endpoint each one serves on
          SERVICE_NAME,       \* the one service they all provide
          HeartbeatInterval,  \* seconds the thread sleeps between heartbeats
          MaxDelay            \* bound: from sleep to request, request to reply

ASSUME DiscoveryAssumption ==
    /\ IdOf \in [Servers -> ProviderIds]
    /\ HostOf \in [Servers -> Hosts]
    /\ SERVICE_NAME \in Services
    /\ HeartbeatInterval \in Nat \ {0}
    /\ MaxDelay \in Nat
    /\ \A p, q \in Servers : IdOf[p] = IdOf[q] => p = q

VARIABLES thread,       \* per server: where registerWithNameServer is
          due,          \* when the thread's sleep, or the message, is due
          messageId,    \* the id of its last request
          wire,         \* what is on its connection
          lastMessage,  \* the name server's session with it: last id answered
          lastReply,    \* and the response it was answered with
          killedAt      \* history: when the process was killed, or Never

session == <<lastMessage, lastReply>>
servers == <<thread, due, messageId, wire, session, killedAt>>
dvars == <<vars, servers>>

Waiting == {"registering", "beating"}

DTypeOK ==
    /\ TypeOK
    /\ thread \in [Servers -> {"off", "connecting", "registering", "sleeping",
                               "beating", "ended", "killed"}]
    /\ due \in [Servers -> Instant]
    /\ messageId \in [Servers -> Nat]
    /\ wire \in [Servers -> {"none", "register", "heartbeat", "Ok", "Error", "empty", "lost"}]
    /\ lastMessage \in [Servers -> Nat]
    /\ lastReply \in [Servers -> {"empty", "Ok", "Error"}]
    /\ killedAt \in [Servers -> Instant \cup {Never}]

-----------------------------------------------------------------------------
(* The list server.                                                        *)

Start(p) ==
    /\ thread[p] = "off"
    /\ thread' = [thread EXCEPT ![p] = "connecting"]
    /\ due' = [due EXCEPT ![p] = now]
    /\ UNCHANGED <<vars, messageId, wire, session, killedAt>>

\* Mutant: message ids start at 0, the id a session remembers before any
\* request, so the registration is answered as a repetition and never run.
SendRegisterZero(p) ==
    /\ thread[p] = "connecting"
    /\ thread' = [thread EXCEPT ![p] = "registering"]
    /\ messageId' = [messageId EXCEPT ![p] = 0]
    /\ wire' = [wire EXCEPT ![p] = "register"]
    /\ due' = [due EXCEPT ![p] = now + MaxDelay]
    /\ UNCHANGED <<vars, session, killedAt>>

\* Connect, read the greeting and send the registration as message 1.
SendRegister(p) ==
    /\ thread[p] = "connecting"
    /\ thread' = [thread EXCEPT ![p] = "registering"]
    /\ messageId' = [messageId EXCEPT ![p] = 1]
    /\ wire' = [wire EXCEPT ![p] = "register"]
    /\ due' = [due EXCEPT ![p] = now + MaxDelay]
    /\ UNCHANGED <<vars, session, killedAt>>

\* No connection, no greeting, or no registration sent: the thread returns.
ConnectFails(p) ==
    /\ thread[p] = "connecting"
    /\ thread' = [thread EXCEPT ![p] = "ended"]
    /\ UNCHANGED <<vars, due, messageId, wire, session, killedAt>>

\* The answer to the registration: an error ends the thread, and so does an
\* empty payload, which readMessage takes for no message at all.  The thread
\* closes the connection.
ReceiveRegistered(p) ==
    /\ thread[p] = "registering" /\ wire[p] \in {"Ok", "Error", "empty"}
    /\ thread' = [thread EXCEPT ![p] = IF wire[p] = "Ok" THEN "sleeping" ELSE "ended"]
    /\ due' = [due EXCEPT ![p] = now + HeartbeatInterval]
    /\ wire' = [wire EXCEPT ![p] = IF wire[p] = "Ok" THEN "none" ELSE "lost"]
    /\ UNCHANGED <<vars, messageId, session, killedAt>>

\* Mutant: every heartbeat goes out under the id of the registration.
SendHeartbeatSameId(p) ==
    /\ thread[p] = "sleeping" /\ now >= due[p] /\ wire[p] = "none"
    /\ thread' = [thread EXCEPT ![p] = "beating"]
    /\ wire' = [wire EXCEPT ![p] = "heartbeat"]
    /\ due' = [due EXCEPT ![p] = due[p] + MaxDelay]
    /\ UNCHANGED <<vars, messageId, session, killedAt>>

\* The sleep is over (by up to MaxDelay): the next heartbeat goes out.
SendHeartbeat(p) ==
    /\ thread[p] = "sleeping" /\ now >= due[p] /\ wire[p] = "none"
    /\ thread' = [thread EXCEPT ![p] = "beating"]
    /\ messageId' = [messageId EXCEPT ![p] = @ + 1]
    /\ wire' = [wire EXCEPT ![p] = "heartbeat"]
    /\ due' = [due EXCEPT ![p] = due[p] + MaxDelay]
    /\ UNCHANGED <<vars, session, killedAt>>

\* Ok or an error, the thread goes back to sleep: a provider the name server
\* does not know any more reports that and keeps trying.  Only an empty payload
\* is no message, and ends the thread.
ReceiveBeat(p) ==
    /\ thread[p] = "beating" /\ wire[p] \in {"Ok", "Error", "empty"}
    /\ thread' = [thread EXCEPT ![p] = IF wire[p] = "empty" THEN "ended" ELSE "sleeping"]
    /\ due' = [due EXCEPT ![p] = now + HeartbeatInterval]
    /\ wire' = [wire EXCEPT ![p] = IF wire[p] = "empty" THEN "lost" ELSE "none"]
    /\ UNCHANGED <<vars, messageId, session, killedAt>>

\* A send or a read on a broken connection fails: the thread returns, and the
\* process goes on serving lists.
LoseConnection(p) ==
    /\ wire[p] = "lost"
    /\ \/ thread[p] \in Waiting
       \/ thread[p] = "sleeping" /\ now >= due[p]
    /\ thread' = [thread EXCEPT ![p] = "ended"]
    /\ UNCHANGED <<vars, due, messageId, wire, session, killedAt>>

\* The process is killed.  It never unregisters; a request it sent may still
\* arrive.
Kill(p) ==
    /\ thread[p] \notin {"off", "killed"}
    /\ thread' = [thread EXCEPT ![p] = "killed"]
    /\ killedAt' = [killedAt EXCEPT ![p] = now]
    /\ UNCHANGED <<vars, due, messageId, wire, session>>

-----------------------------------------------------------------------------
(* The connection and the name server's end of it.                         *)

Break(p) ==
    /\ thread[p] \in Waiting \cup {"sleeping", "killed"} /\ wire[p] # "lost"
    /\ wire' = [wire EXCEPT ![p] = "lost"]
    /\ UNCHANGED <<vars, thread, due, messageId, session, killedAt>>

Reply(p, reply) ==
    /\ wire' = [wire EXCEPT ![p] = reply]
    /\ due' = [due EXCEPT ![p] = now + MaxDelay]

Remember(p, reply) ==
    /\ lastMessage' = [lastMessage EXCEPT ![p] = messageId[p]]
    /\ lastReply' = [lastReply EXCEPT ![p] = reply]

AnswerRegister(p) ==
    /\ wire[p] = "register"
    /\ handleRegisterRequest(SERVICE_NAME, IdOf[p], HostOf[p])
    /\ Reply(p, "Ok") /\ Remember(p, "Ok")

AnswerHeartbeat(p) ==
    /\ wire[p] = "heartbeat"
    /\ handleHeartbeatRequest(SERVICE_NAME, IdOf[p])
    /\ Reply(p, "Ok") /\ Remember(p, "Ok")

\* handleHeartbeatRequest of a provider that is not listed changes nothing.
RejectHeartbeat(p) ==
    /\ wire[p] = "heartbeat"
    /\ LockFree /\ ~Listed(SERVICE_NAME, IdOf[p])
    /\ Reply(p, "Error") /\ Remember(p, "Error")
    /\ UNCHANGED vars

\* A repeated message id never reaches the registry.
Replay(p) == Reply(p, lastReply[p]) /\ UNCHANGED <<vars, session>>

Answer(p) ==
    /\ wire[p] \in {"register", "heartbeat"}
    /\ IF lastMessage[p] = messageId[p]
         THEN Replay(p)
         ELSE AnswerRegister(p) \/ AnswerHeartbeat(p) \/ RejectHeartbeat(p)
    /\ UNCHANGED <<thread, messageId, killedAt>>

\* The name server process ends and is started again: every connection to it
\* breaks, with the session it had.
RestartNameServer ==
    /\ Restart
    /\ wire' = [p \in Servers |->
                    IF thread[p] \in {"off", "connecting"} THEN wire[p] ELSE "lost"]
    /\ UNCHANGED <<thread, due, messageId, session, killedAt>>

\* Nothing that is due may be later than MaxDelay.
OnTime(p) ==
    /\ thread[p] = "connecting" => now < due[p] + MaxDelay
    /\ thread[p] = "sleeping" => now < due[p] + MaxDelay
    /\ thread[p] \in Waiting => now < due[p]
    /\ wire[p] \in {"register", "heartbeat"} => now < due[p]

Advance ==
    /\ \A p \in Servers : OnTime(p)
    /\ Tick
    /\ UNCHANGED servers

Reap == ReaperStep /\ UNCHANGED servers

ServerStep(p) ==
    \/ SendRegister(p) \/ ConnectFails(p) \/ ReceiveRegistered(p)
    \/ SendHeartbeat(p) \/ ReceiveBeat(p) \/ LoseConnection(p)

DInit ==
    /\ Init
    /\ thread = [p \in Servers |-> "off"]
    /\ due = [p \in Servers |-> 0]
    /\ messageId = [p \in Servers |-> 0]
    /\ wire = [p \in Servers |-> "none"]
    /\ lastMessage = [p \in Servers |-> 0]
    /\ lastReply = [p \in Servers |-> "empty"]
    /\ killedAt = [p \in Servers |-> Never]

DNext ==
    \/ Reap \/ Advance \/ RestartNameServer
    \/ \E p \in Servers : \/ Start(p) \/ ServerStep(p) \/ Kill(p)
                          \/ Break(p) \/ Answer(p)

DSpec == DInit /\ [][DNext]_dvars

\* Threads that can run do run, the clock does not stop before MaxTime, and a
\* request that was delivered is answered.  Nothing obliges anything to fail.
DFairSpec ==
    /\ DSpec
    /\ WF_dvars(Reap)
    /\ WF_dvars(Advance)
    /\ \A p \in Servers : WF_dvars(ServerStep(p)) /\ WF_dvars(Answer(p))

-----------------------------------------------------------------------------
(* Properties.                                                             *)

Connected(p) == thread[p] \in {"sleeping", "beating"} /\ wire[p] # "lost"
Known(p) == Listed(SERVICE_NAME, IdOf[p])

\* With a timeout of at least the heartbeat interval and two delays, a list
\* server that stays connected stays listed: the reaper never discards it, its
\* heartbeats are never taken for repetitions, and none comes too late.
HealthyListed == \A p \in Servers : Connected(p) => Known(p)

\* A list server that was killed is forgotten within MaxStaleness of the last
\* request it can have sent, although it never unregisters.
DeadForgotten ==
    \A p \in Servers :
        killedAt[p] # Never /\ now - killedAt[p] > MaxDelay + MaxStaleness => ~Known(p)

\* name-server-binary/src/main.cpp:22-25: with a timeout of 3 seconds the
\* 5-second heartbeat is too slow to keep the list server registered.  Whatever
\* the phase between the reaper and the thread, no heartbeat is ever accepted.
TooSlow == \A p \in Servers : thread[p] = "beating" => wire[p] # "Ok"

\* name-server-binary/src/main.cpp:28-33: polling once per second "makes the
\* timeout value alone decide the outcome, independent of when each server
\* started" - then every timeout below the heartbeat interval is too short.
TimeoutDecides == Timeout < HeartbeatInterval => TooSlow

\* A registration that was sent is accepted, unless the connection breaks or
\* the process is killed on the way: the suppression of repeated ids does not
\* swallow it, the wait for the registry's mutex ends, and the thread is not left
\* in recv() waiting for an answer.
RegistrationAccepted ==
    \A p \in Servers : thread[p] = "registering" ~>
        \/ thread[p] \in {"sleeping", "killed"}
        \/ thread[p] = "registering" /\ wire[p] = "lost"

-----------------------------------------------------------------------------
(* The inductive invariants behind the safety properties.                  *)

Lease(p) == leases[SERVICE_NAME][IdOf[p]]

\* p is listed, and was last stamped at t.
StampedAt(p, t) ==
    \E i \in DOMAIN ProvidersOf(SERVICE_NAME) :
        /\ ProvidersOf(SERVICE_NAME)[i].identifier = IdOf[p]
        /\ ProvidersOf(SERVICE_NAME)[i].lastHeartbeat = t

\* What is on the connection fits the place of the thread, and a request on its
\* way carries an id that the session has not seen.
SessionFor(p) ==
    /\ thread[p] \in {"off", "connecting"} => messageId[p] = 0
    /\ thread[p] \in {"off", "connecting", "sleeping"} => wire[p] \in {"none", "lost"}
    /\ thread[p] = "registering" => wire[p] \in {"register", "Ok", "lost"}
    /\ thread[p] = "beating" => wire[p] \in {"heartbeat", "Ok", "Error", "lost"}
    /\ thread[p] = "ended" => wire[p] \in {"none", "lost"}
    /\ lastMessage[p] <= messageId[p]
    /\ wire[p] \in {"register", "heartbeat"} => lastMessage[p] < messageId[p]
    /\ wire[p] = "register" => messageId[p] = 1
    /\ lastMessage[p] = 0 => ~Known(p)

\* The instant of the last request that p can have sent.
LastSent(p) == IF killedAt[p] = Never THEN now ELSE killedAt[p]

\* A sleep ends and a request arrives within MaxDelay, and nothing stamps a
\* killed server later than that.
ArrivalFor(p) ==
    /\ killedAt[p] # Never <=> thread[p] = "killed"
    /\ killedAt[p] <= now
    /\ thread[p] = "sleeping" => now <= due[p] + MaxDelay
    /\ wire[p] \in {"register", "heartbeat"} => now <= due[p] /\ due[p] <= LastSent(p) + MaxDelay
    /\ \A t \in Nat : StampedAt(p, t) => t <= LastSent(p) + MaxDelay

DInv == DTypeOK /\ IInv /\ \A p \in Servers : SessionFor(p) /\ ArrivalFor(p)

\* Each heartbeat of a connected server arrives before its lease has run out.
HealthyFor(p) ==
    /\ thread[p] = "sleeping" /\ wire[p] = "none" =>
          /\ Lease(p) # Never /\ due[p] <= Lease(p) + HeartbeatInterval + MaxDelay
    /\ thread[p] = "beating" /\ wire[p] = "heartbeat" =>
          /\ Lease(p) # Never /\ due[p] <= Lease(p) + HeartbeatInterval + 2 * MaxDelay
    /\ thread[p] \in Waiting /\ wire[p] = "Ok" =>
          /\ Lease(p) # Never /\ due[p] <= Lease(p) + MaxDelay /\ now <= due[p]
    /\ thread[p] = "beating" => wire[p] # "Error"

HealthyInv == \A p \in Servers : HealthyFor(p)

\* The timeout leaves room for a heartbeat and two delays.
Generous == Timeout >= HeartbeatInterval + 2 * MaxDelay

\* When a heartbeat is sent, and so when it arrives, its sender was last stamped
\* a heartbeat interval ago at least.
SilentFor(p) ==
    /\ \A t \in Nat : StampedAt(p, t) => t <= now
    /\ thread[p] = "sleeping" => \A t \in Nat : StampedAt(p, t) => t + HeartbeatInterval <= due[p]
    /\ thread[p] = "beating" /\ wire[p] = "heartbeat" =>
          /\ due[p] <= now + MaxDelay
          /\ \A t \in Nat : StampedAt(p, t) => t + HeartbeatInterval + MaxDelay <= due[p]
    /\ thread[p] = "beating" => wire[p] # "Ok"

SilentInv == \A p \in Servers : SilentFor(p)

\* Between two heartbeats the reaper comes round, wherever it starts.
Stingy == MaxStaleness < HeartbeatInterval
=============================================================================
