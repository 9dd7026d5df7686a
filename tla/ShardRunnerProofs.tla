-------------------------- MODULE ShardRunnerProofs --------------------------
(***************************************************************************)
(* Theorems about ShardRunner, for any number of callers, servers, messages *)
(* read at a time and faults.                                              *)
(***************************************************************************)
EXTENDS ShardRunner, TLAPS

USE SizeAssumption, ConfigAssumption

Runners == [loop : Loops, items : SUBSET Messages, previous : {"undefined", "items", "none"}]

\* The invariant holds initially.
LEMMA InitIInv == Init => IInv
<1> SUFFICES ASSUME Init PROVE IInv
  OBVIOUS
<1>1. TypeOK
  BY DEF Init, TypeOK, Off, Loops, Messages
<1>2. ServerInv /\ MessageInv /\ CallerInv
  BY DEF Init, ServerInv, Busy, Up, Off, MessageInv, Unhandled, CallerInv
<1>3. MessageAccounted
  BY DEF Init, MessageAccounted
<1> QED BY <1>1, <1>2, <1>3 DEF IInv

\* A new message is of its type.
LEMMA MessageType ==
    ASSUME TypeOK, NEW c \in Callers
    PROVE  /\ Message(c, NewId(c)) \in Messages /\ Message(c, NewId(c)).caller = c
           /\ NewId(c) \in Callers \cup 0..MaxClock
           /\ ~InMemory => Message(c, NewId(c)).id = c /\ NewId(c) = c
  BY DEF TypeOK, Message, NewId, Messages

\* A wakeup starts runners that are not at work, and leaves the others alone.
LEMMA RunHandlerFacts ==
    ASSUME TypeOK, ServerInv, NEW woken \in SUBSET Servers, RunHandler(woken)
    PROVE  /\ active' = active \cup woken
           /\ runner' \in [Servers -> Runners]
           /\ \A s \in Servers :
                 \/ runner'[s] = runner[s]
                 \/ /\ s \in woken \ active
                    /\ runner[s].loop = "off" /\ runner[s].items = {}
                    /\ runner'[s].loop = "reading" /\ runner'[s].items = {}
<1>1. Round("undefined") \in Runners
  BY DEF Round, Runners, Loops, Messages
<1>2. \A s \in Servers : s \notin active => runner[s].loop = "off" /\ runner[s].items = {}
  BY DEF TypeOK, ServerInv
<1> QED BY <1>1, <1>2 DEF RunHandler, Round, TypeOK, Runners

\* After a round there is another one with no items, or none if the server has ended.
LEMMA NextRoundFacts ==
    ASSUME NEW s \in Servers, NEW previous \in {"undefined", "items", "none"}
    PROVE  /\ NextRound(s, previous) \in Runners
           /\ NextRound(s, previous).items = {}
           /\ NextRound(s, previous).loop = IF Up(s) THEN "reading" ELSE "off"
  BY DEF NextRound, Round, Off, Runners, Loops, Messages

\* MessageAccounted is kept by a step if what becomes waited for is queued, and
\* what is accounted for stays so while it is waited for.
LEMMA Accounted ==
    ASSUME MessageAccounted, config' = config, faults' = 0 => faults = 0,
           \A c \in Callers :
              /\ step'[c] \in {"added", "posted"} /\ answer'[c] = "none" =>
                    \/ step[c] \in {"added", "posted"} /\ answer[c] = "none"
                    \/ Queued(c)'
              /\ (~InMemory /\ faults' = 0 /\ answer'[c] = "none")
                    /\ (Queued(c) \/ Held(c) \/ runs[c] > 0) =>
                    Queued(c)' \/ Held(c)' \/ runs'[c] > 0
    PROVE  MessageAccounted'
  BY DEF MessageAccounted, InMemory

-----------------------------------------------------------------------------
(* Steps of callers *)

LEMMA CallerType ==
    ASSUME TypeOK, NEW c \in Callers,
           \/ Subscribe(c) \/ AddMessage(c) \/ AddMessageFails(c) \/ PostMessage(c)
           \/ ReceiveOutput(c) \/ Timeout(c) \/ DeleteMessage(c)
    PROVE  TypeOK'
<1> USE DEF TypeOK, servers
<1>1. CASE Subscribe(c)
  BY <1>1 DEF Subscribe
<1>2. CASE AddMessage(c)
  BY <1>2, MessageType DEF AddMessage
<1>3. CASE AddMessageFails(c)
  BY <1>3, MessageType DEF AddMessageFails
<1>4. CASE PostMessage(c)
  BY <1>4 DEF PostMessage
<1>5. CASE ReceiveOutput(c)
  BY <1>5 DEF ReceiveOutput, Settle, Cleanup
<1>6. CASE Timeout(c)
  BY <1>6 DEF Timeout, Settle, Cleanup
<1>7. CASE DeleteMessage(c)
  BY <1>7 DEF DeleteMessage
<1> QED BY <1>1, <1>2, <1>3, <1>4, <1>5, <1>6, <1>7

\* A caller adds its only message, and none while it has been answered.
LEMMA CallerMessages ==
    ASSUME TypeOK, MessageInv, CallerInv, NEW c \in Callers,
           \/ Subscribe(c) \/ AddMessage(c) \/ AddMessageFails(c) \/ PostMessage(c)
           \/ ReceiveOutput(c) \/ Timeout(c) \/ DeleteMessage(c)
    PROVE  MessageInv' /\ CallerInv'
<1> USE DEF TypeOK, servers, MessageInv, Unhandled, CallerInv, InMemory
<1>1. CASE Subscribe(c)
  BY <1>1 DEF Subscribe, Messages
<1>2. CASE AddMessage(c)
  <2> DEFINE m == Message(c, NewId(c))
  <2>1. m.caller = c /\ (~InMemory => m.id = c /\ NewId(c) = c)
    BY MessageType
  <2>2. /\ step[c] = "subscribed" /\ step' = [step EXCEPT ![c] = "added"]
        /\ queue' = queue \cup {m} /\ queueId' = [queueId EXCEPT ![c] = {NewId(c)}]
        /\ UNCHANGED <<config, runner, runs, answer, deletes, outputs>>
    BY <1>2 DEF AddMessage
  <2>3. /\ \A o \in queue : o.caller # c
        /\ \A s \in Servers : \A o \in runner[s].items : o.caller # c
    BY <2>2
  <2> HIDE DEF m
  <2>4. MessageInv'
    BY <2>1, <2>2, <2>3 DEF Messages
  <2>5. CallerInv'
    BY <2>1, <2>2
  <2> QED BY <2>4, <2>5
<1>3. CASE AddMessageFails(c)
  <2> DEFINE m == Message(c, NewId(c))
  <2>1. m.caller = c /\ (~InMemory => m.id = c)
    BY MessageType
  <2>2. /\ step[c] \in {"idle", "subscribed"} /\ step' = [step EXCEPT ![c] = "posted"]
        /\ queue' = queue \/ queue' = queue \cup {m}
        /\ answer' = [answer EXCEPT ![c] = "rejected"]
        /\ UNCHANGED <<config, runner, runs, queueId, deletes, outputs>>
    BY <1>3 DEF AddMessageFails
  <2>3. /\ \A o \in queue : o.caller # c
        /\ \A s \in Servers : \A o \in runner[s].items : o.caller # c
    BY <2>2
  <2> HIDE DEF m
  <2>4. MessageInv'
    BY <2>1, <2>2, <2>3 DEF Messages
  <2>5. CallerInv'
    BY <2>2
  <2> QED BY <2>4, <2>5
<1>4. CASE PostMessage(c)
  BY <1>4 DEF PostMessage, Messages
<1>5. CASE ReceiveOutput(c)
  BY <1>5 DEF ReceiveOutput, Settle, Cleanup, Messages
<1>6. CASE Timeout(c)
  BY <1>6 DEF Timeout, Settle, Cleanup, Messages
<1>7. CASE DeleteMessage(c)
  BY <1>7 DEF DeleteMessage, Messages
<1> QED BY <1>1, <1>2, <1>3, <1>4, <1>5, <1>6, <1>7

\* A caller removes its own message only, and when it has given up.
LEMMA CallerAccounted ==
    ASSUME IInv, NEW c \in Callers,
           \/ Subscribe(c) \/ AddMessage(c) \/ AddMessageFails(c) \/ PostMessage(c)
           \/ ReceiveOutput(c) \/ Timeout(c) \/ DeleteMessage(c)
    PROVE  MessageAccounted'
<1>0. TypeOK /\ CallerInv /\ MessageInv /\ MessageAccounted
  BY DEF IInv
<1>1. UNCHANGED <<config, runner, runs>> /\ (faults' = 0 => faults = 0)
  BY <1>0 DEF Subscribe, AddMessage, AddMessageFails, PostMessage, ReceiveOutput, Timeout,
     DeleteMessage, servers, TypeOK
<1>2. \A d \in Callers : step'[d] \in {"added", "posted"} /\ answer'[d] = "none" =>
          \/ step[d] \in {"added", "posted"} /\ answer[d] = "none"
          \/ Queued(d)'
  BY <1>0, MessageType DEF Subscribe, AddMessage, AddMessageFails, PostMessage, ReceiveOutput,
     Timeout, DeleteMessage, Settle, TypeOK, Queued
<1>3. ASSUME NEW d \in Callers, ~InMemory, answer'[d] = "none", Queued(d) PROVE Queued(d)'
  <2>1. PICK m \in queue : m.caller = d
    BY <1>3 DEF Queued
  <2>2. CASE DeleteMessage(c)
    <3>1. m.id = d /\ queueId[c] \subseteq {c} /\ answer[c] # "none" /\ answer' = answer
      BY <1>0, <1>3, <2>1, <2>2 DEF DeleteMessage, MessageInv, Unhandled, CallerInv
    <3> QED BY <1>3, <2>1, <2>2, <3>1 DEF DeleteMessage, Queued
  <2>3. CASE ~DeleteMessage(c)
    <3>1. m \in queue'
      BY <2>1, <2>3 DEF Subscribe, AddMessage, AddMessageFails, PostMessage, ReceiveOutput, Timeout
    <3> QED BY <2>1, <3>1 DEF Queued
  <2> QED BY <2>2, <2>3
<1>4. \A d \in Callers : Held(d)' = Held(d)
  BY <1>1 DEF Held
<1> QED BY <1>0, <1>1, <1>2, <1>3, <1>4, Accounted

LEMMA CallerSteps ==
    ASSUME IInv, NEW c \in Callers,
           \/ Subscribe(c) \/ AddMessage(c) \/ AddMessageFails(c) \/ PostMessage(c)
           \/ ReceiveOutput(c) \/ Timeout(c) \/ DeleteMessage(c)
    PROVE  IInv'
<1>1. UNCHANGED servers
  BY DEF Subscribe, AddMessage, AddMessageFails, PostMessage, ReceiveOutput, Timeout, DeleteMessage
<1>2. ServerInv'
  BY <1>1 DEF IInv, ServerInv, Busy, Up, InMemory, servers
<1> QED BY <1>2, CallerType, CallerMessages, CallerAccounted DEF IInv

-----------------------------------------------------------------------------
(* Steps of servers that handle no item *)

\* Servers that are started or woken hold what they held.
LEMMA Woken ==
    ASSUME IInv, NEW woken \in SUBSET Servers, RunHandler(woken), \A s \in woken : Up(s)',
           \A s \in Servers : server'[s] = "down" => server[s] = "down",
           \A s, t \in Servers : Up(s)' /\ (Up(t)' \/ runner[t].loop # "off") => s = t,
           UNCHANGED <<config, step, answer, queueId, queue, deletes, outputs, runs, faults>>
    PROVE  ServerInv' /\ MessageInv' /\ CallerInv' /\ MessageAccounted'
<1>0. TypeOK /\ ServerInv /\ MessageInv /\ CallerInv /\ MessageAccounted
  BY DEF IInv
<1>1. /\ active' = active \cup woken
      /\ \A s \in Servers :
            \/ runner'[s] = runner[s]
            \/ /\ s \in woken \ active
               /\ runner[s].loop = "off" /\ runner[s].items = {}
               /\ runner'[s].loop = "reading" /\ runner'[s].items = {}
  BY <1>0, RunHandlerFacts
<1>2. ServerInv'
  BY <1>0, <1>1 DEF ServerInv, Busy, InMemory, Up
<1>3. \A s \in Servers : runner'[s].items = runner[s].items
                         /\ (runner'[s].loop = "read" => runner[s].loop = "read")
  BY <1>1
<1>4. MessageInv'
  BY <1>0, <1>3 DEF MessageInv, Unhandled, InMemory
<1>5. CallerInv'
  BY <1>0 DEF CallerInv, InMemory
<1>6. \A c \in Callers : Held(c)' = Held(c) /\ Queued(c)' = Queued(c)
  BY <1>3 DEF Held, Queued
<1>7. MessageAccounted'
  BY <1>0, <1>6 DEF MessageAccounted, InMemory
<1> QED BY <1>2, <1>4, <1>5, <1>7
LEMMA WakingType ==
    ASSUME TypeOK, ServerInv, NEW woken \in SUBSET Servers, RunHandler(woken),
           server' \in [Servers -> {"down", "up", "ended"}], listening' \subseteq Servers,
           wakeups' \in [Servers -> Nat], alerts' \subseteq Callers,
           UNCHANGED <<config, step, answer, queueId, queue, clock, deletes, outputs, runs, faults>>
    PROVE  TypeOK'
<1>1. runner' \in [Servers -> Runners] /\ active' \subseteq Servers
  BY RunHandlerFacts DEF TypeOK
<1>2. \A s \in Servers :
          \/ runner'[s] = runner[s]
          \/ runner'[s].loop = "reading" /\ runner'[s].items = {}
  BY RunHandlerFacts
<1>3. \A s \in Servers :
          /\ runner'[s].loop \in {"off", "reading"} => runner'[s].items = {}
          /\ runner'[s].loop = "removing" => runner'[s].items # {}
  BY <1>2 DEF TypeOK
<1> QED BY <1>1, <1>3 DEF TypeOK, Runners

LEMMA WakingSteps ==
    ASSUME IInv,
           \/ \E c \in Callers : PublishWakeup(c)
           \/ \E s \in Servers : StartShardRunner(s) \/ ReceiveWakeup(s)
    PROVE  IInv'
<1>0. TypeOK /\ ServerInv
  BY DEF IInv
<1>1. CASE \E s \in Servers : StartShardRunner(s)
  <2>1. PICK s \in Servers : StartShardRunner(s)
    BY <1>1
  <2>2. /\ RunHandler({s}) /\ server' = [server EXCEPT ![s] = "up"]
        /\ listening' \subseteq Servers
        /\ UNCHANGED <<config, step, answer, queueId, alerts, queue, clock, deletes, outputs, runs,
                       faults, wakeups>>
    BY <1>0, <2>1 DEF StartShardRunner, callers, TypeOK
  <2>3. TypeOK'
    BY <1>0, <2>2, WakingType DEF TypeOK
  <2>4. \A t \in Servers : t # s => ~Up(t) /\ runner[t].loop = "off"
    BY <1>0, <2>1 DEF StartShardRunner, MayStart, ServerInv, Up
  <2>5. /\ \A t \in {s} : Up(t)'
        /\ \A t \in Servers : server'[t] = "down" => server[t] = "down"
        /\ \A t, u \in Servers : Up(t)' /\ (Up(u)' \/ runner[u].loop # "off") => t = u
    BY <1>0, <2>2, <2>4 DEF Up, TypeOK
  <2> QED BY <2>2, <2>3, <2>5, Woken DEF IInv
<1>2. CASE \E c \in Callers : PublishWakeup(c)
  <2>1. PICK c \in Callers : PublishWakeup(c)
    BY <1>2
  <2>2. alerts' \subseteq Callers
        /\ UNCHANGED <<config, step, answer, queueId, queue, clock, deletes, outputs, runs, faults,
                       server, listening>>
    BY <1>0, <2>1 DEF PublishWakeup, TypeOK
  <2>3. CASE InMemory
    <3> DEFINE woken == {s \in listening : Up(s)}
    <3>1. RunHandler(woken) /\ woken \in SUBSET Servers /\ wakeups' \in [Servers -> Nat]
      BY <1>0, <2>1, <2>3 DEF PublishWakeup, TypeOK
    <3>2. TypeOK'
      BY <1>0, <2>2, <3>1, WakingType DEF TypeOK
    <3>3. /\ \A t \in woken : Up(t)'
          /\ \A t \in Servers : server'[t] = "down" => server[t] = "down"
          /\ \A t, u \in Servers : Up(t)' /\ (Up(u)' \/ runner[u].loop # "off") => t = u
      BY <1>0, <2>2 DEF Up, ServerInv, Busy
    <3> QED BY <2>2, <3>1, <3>2, <3>3, Woken DEF IInv
  <2>4. CASE ~InMemory
    <3>1. UNCHANGED <<active, runner>>
          /\ wakeups' = [s \in Servers |-> wakeups[s] + (IF s \in listening THEN 1 ELSE 0)]
      BY <2>1, <2>4 DEF PublishWakeup
    <3>2. wakeups' \in [Servers -> Nat]
      BY <1>0, <3>1 DEF TypeOK
    <3>3. TypeOK'
      BY <1>0, <2>2, <3>1, <3>2 DEF TypeOK
    <3>4. ServerInv' /\ MessageInv' /\ CallerInv'
      BY <2>2, <3>1 DEF IInv, ServerInv, Busy, Up, MessageInv, Unhandled, CallerInv, InMemory
    <3>5. MessageAccounted'
      BY <2>2, <3>1 DEF IInv, MessageAccounted, Queued, Held, InMemory
    <3> QED BY <3>3, <3>4, <3>5 DEF IInv
  <2> QED BY <2>3, <2>4
<1>3. CASE \E s \in Servers : ReceiveWakeup(s)
  <2>1. PICK s \in Servers : ReceiveWakeup(s)
    BY <1>3
  <2> DEFINE woken == IF Up(s) THEN {s} ELSE {}
  <2>2. /\ RunHandler(woken) /\ woken \in SUBSET Servers /\ wakeups' \in [Servers -> Nat]
        /\ UNCHANGED <<config, step, answer, queueId, alerts, queue, clock, deletes, outputs, runs,
                       faults, server, listening>>
    BY <1>0, <2>1 DEF ReceiveWakeup, callers, TypeOK
  <2>3. TypeOK'
    BY <1>0, <2>2, WakingType DEF TypeOK
  <2>4. /\ \A t \in woken : Up(t)'
        /\ \A t \in Servers : server'[t] = "down" => server[t] = "down"
        /\ \A t, u \in Servers : Up(t)' /\ (Up(u)' \/ runner[u].loop # "off") => t = u
    BY <1>0, <2>2 DEF Up, ServerInv, Busy
  <2> QED BY <2>2, <2>3, <2>4, Woken DEF IInv
<1> QED BY <1>1, <1>2, <1>3

\* A runner that stops holds nothing any more, which is a fault if it held something.
LEMMA StopSteps == ASSUME IInv, NEW s \in Servers, GetMessagesFails(s) \/ CrashServer(s) PROVE IInv'
<1>0. TypeOK /\ ServerInv /\ MessageInv /\ CallerInv
  BY DEF IInv
<1>1. Off \in Runners /\ Off.loop = "off" /\ Off.items = {}
  BY DEF Off, Runners, Loops, Messages
<1>2. /\ runner' = [runner EXCEPT ![s] = Off]
      /\ faults' \in 0..MaxFaults /\ faults' # 0
      /\ server' \in [Servers -> {"down", "up", "ended"}]
      /\ \A t \in Servers : /\ server'[t] = "down" => server[t] = "down"
                            /\ Up(t)' => Up(t)
      /\ listening' \subseteq Servers /\ wakeups' \in [Servers -> Nat]
      /\ UNCHANGED <<config, step, answer, queueId, alerts, active, queue, clock, deletes, outputs,
                     runs>>
  <2>1. CASE GetMessagesFails(s)
    BY <1>0, <2>1 DEF TypeOK, GetMessagesFails, callers, Up
  <2>2. CASE CrashServer(s)
    BY <1>0, <2>2 DEF TypeOK, CrashServer, callers, Up
  <2> QED BY <2>1, <2>2
<1>3. \A t \in Servers : runner'[t] = IF t = s THEN Off ELSE runner[t]
  BY <1>0, <1>2 DEF TypeOK
<1> HIDE DEF Off
<1>4. TypeOK'
  BY <1>0, <1>1, <1>2, <1>3 DEF TypeOK, Runners
<1>5. ServerInv'
  BY <1>0, <1>1, <1>2, <1>3 DEF ServerInv, Busy, InMemory
<1>6. MessageInv' /\ CallerInv'
  BY <1>0, <1>1, <1>2, <1>3 DEF MessageInv, Unhandled, CallerInv, InMemory
<1>7. MessageAccounted'
  BY <1>2 DEF MessageAccounted
<1> QED BY <1>4, <1>5, <1>6, <1>7 DEF IInv

\* Steps that leave the runners alone.
LEMMA ServerSteps == ASSUME IInv, NEW s \in Servers, Listen(s) \/ EndServer(s) PROVE IInv'
<1>0. TypeOK /\ ServerInv /\ MessageInv /\ CallerInv /\ MessageAccounted
  BY DEF IInv
<1>1. /\ server' \in [Servers -> {"down", "up", "ended"}]
      /\ \A t \in Servers : /\ server'[t] = "down" => server[t] = "down"
                            /\ Up(t)' => Up(t)
      /\ listening' \subseteq Servers
      /\ UNCHANGED <<config, step, answer, queueId, alerts, active, runner, wakeups, queue, clock,
                     deletes, outputs, runs, faults>>
  BY <1>0 DEF TypeOK, Listen, EndServer, callers, Up
<1>2. TypeOK'
  BY <1>0, <1>1 DEF TypeOK
<1>3. ServerInv'
  BY <1>0, <1>1 DEF ServerInv, Busy, InMemory
<1>4. MessageInv' /\ CallerInv'
  BY <1>0, <1>1 DEF MessageInv, Unhandled, CallerInv, InMemory
<1>5. MessageAccounted'
  BY <1>0, <1>1 DEF MessageAccounted, Queued, Held, InMemory
<1> QED BY <1>2, <1>3, <1>4, <1>5 DEF IInv

LEMMA TickStep == ASSUME IInv, Tick PROVE IInv'
<1>1. TypeOK'
  BY DEF IInv, Tick, TypeOK, servers
<1>2. ServerInv' /\ MessageInv' /\ CallerInv'
  BY DEF IInv, Tick, servers, ServerInv, Busy, Up, MessageInv, Unhandled, CallerInv, InMemory
<1>3. MessageAccounted'
  BY DEF IInv, Tick, servers, MessageAccounted, Queued, Held, InMemory
<1> QED BY <1>1, <1>2, <1>3 DEF IInv
-----------------------------------------------------------------------------
(* Rounds of handleShardQueue *)

\* A step of one runner, which is at work before and is not elsewhere.
LEMMA RoundServers ==
    ASSUME IInv, NEW s \in Servers, NEW r \in Runners, runner' = [runner EXCEPT ![s] = r],
           runner[s].loop # "off", InMemory => r.loop # "removing",
           active' = active \/ (active' = active \ {s} /\ r.loop = "off"),
           UNCHANGED <<config, server>>
    PROVE  ServerInv'
<1>1. \A t \in Servers : runner'[t] = IF t = s THEN r ELSE runner[t]
  BY DEF IInv, TypeOK
<1> QED BY <1>1 DEF IInv, ServerInv, Busy, Up, InMemory

LEMMA ReadStep == ASSUME IInv, NEW s \in Servers, ReadMessages(s) PROVE IInv'
<1> DEFINE r == [runner[s] EXCEPT !.items = Batch,
                                  !.loop = IF InMemory \/ Batch = {} THEN "read" ELSE "removing"]
<1>0. TypeOK /\ MessageInv /\ CallerInv /\ MessageAccounted
  BY DEF IInv
<1>1. /\ runner[s].loop = "reading" /\ runner[s].items = {}
      /\ runner' = [runner EXCEPT ![s] = r]
      /\ queue' = IF InMemory THEN queue \ Batch ELSE queue
      /\ UNCHANGED <<config, step, answer, queueId, alerts, server, listening, wakeups, active,
                     clock, deletes, outputs, runs, faults>>
  BY <1>0 DEF ReadMessages, callers, TypeOK
<1>2. Batch \subseteq queue
  BY DEF Batch, First
<1>3. /\ r \in Runners /\ r.items = Batch
      /\ r.loop = IF InMemory \/ Batch = {} THEN "read" ELSE "removing"
  BY <1>0, <1>2 DEF TypeOK, Runners, Loops
<1> HIDE DEF r
<1>4. \A t \in Servers : runner'[t] = IF t = s THEN r ELSE runner[t]
  BY <1>0, <1>1 DEF TypeOK
<1>5. TypeOK'
  BY <1>0, <1>1, <1>2, <1>3, <1>4 DEF TypeOK, Runners
<1>6. ServerInv'
  BY <1>1, <1>3, RoundServers
<1>7. MessageInv'
  <2>1. Unhandled(queue)' /\ \A t \in Servers : Unhandled(runner[t].items)'
    BY <1>0, <1>1, <1>2, <1>3, <1>4 DEF MessageInv, Unhandled, InMemory
  <2>2. ASSUME NEW t \in Servers, runner'[t].loop = "read", NEW m \in runner'[t].items,
               NEW o \in queue'
        PROVE  m.caller # o.caller
    BY <1>0, <1>1, <1>2, <1>3, <1>4, <2>2 DEF MessageInv, Unhandled
  <2> QED BY <2>1, <2>2 DEF MessageInv
<1>8. CallerInv'
  BY <1>0, <1>1 DEF CallerInv, InMemory
<1>9. MessageAccounted'
  <2>1. \A c \in Callers : ~InMemory /\ Queued(c) => Queued(c)'
    BY <1>1 DEF Queued
  <2>2. \A c \in Callers : Held(c) => Held(c)'
    BY <1>1, <1>4 DEF Held
  <2> QED BY <1>0, <1>1, <2>1, <2>2 DEF MessageAccounted, InMemory
<1> QED BY <1>5, <1>6, <1>7, <1>8, <1>9 DEF IInv

LEMMA RemoveStep == ASSUME IInv, NEW s \in Servers, RemoveMessages(s) PROVE IInv'
<1> DEFINE r == [runner[s] EXCEPT !.loop = "read"]
<1>0. TypeOK /\ ServerInv /\ MessageInv /\ CallerInv /\ MessageAccounted
  BY DEF IInv
<1>1. /\ runner[s].loop = "removing" /\ ~InMemory
      /\ runner' = [runner EXCEPT ![s] = r]
      /\ queue' = {m \in queue : \A o \in runner[s].items : o.id # m.id}
      /\ UNCHANGED <<config, step, answer, queueId, alerts, server, listening, wakeups, active,
                     clock, deletes, outputs, runs, faults>>
  BY <1>0 DEF RemoveMessages, Without, callers, TypeOK, ServerInv
<1>2. r \in Runners /\ r.items = runner[s].items /\ r.loop = "read"
  BY <1>0 DEF TypeOK, Runners, Loops
<1> HIDE DEF r
<1>3. \A t \in Servers : runner'[t] = IF t = s THEN r ELSE runner[t]
  BY <1>0, <1>1 DEF TypeOK
<1>4. TypeOK'
  BY <1>0, <1>1, <1>2, <1>3 DEF TypeOK, Runners
<1>5. ServerInv'
  BY <1>1, <1>2, RoundServers
<1>6. \A t \in Servers : runner'[t].items = runner[t].items
  BY <1>2, <1>3
<1>7. MessageInv'
  <2>1. Unhandled(queue)' /\ \A t \in Servers : Unhandled(runner[t].items)'
    BY <1>0, <1>1, <1>6 DEF MessageInv, Unhandled, InMemory
  <2>2. ASSUME NEW t \in Servers, runner'[t].loop = "read", NEW m \in runner'[t].items,
               NEW o \in queue'
        PROVE  m.caller # o.caller
    <3>1. CASE t = s
      BY <1>0, <1>1, <1>6, <2>2, <3>1 DEF MessageInv, Unhandled
    <3>2. CASE t # s
      BY <1>0, <1>1, <1>3, <2>2, <3>2 DEF MessageInv
    <3> QED BY <3>1, <3>2
  <2> QED BY <2>1, <2>2 DEF MessageInv
<1>8. CallerInv'
  BY <1>0, <1>1 DEF CallerInv, InMemory
<1>9. MessageAccounted'
  <2>1. \A c \in Callers : Held(c)' = Held(c)
    BY <1>6 DEF Held
  <2>2. ASSUME NEW c \in Callers, Queued(c) PROVE Queued(c)' \/ Held(c)
    <3>1. PICK m \in queue : m.caller = c
      BY <2>2 DEF Queued
    <3>2. CASE m \in queue'
      BY <3>1, <3>2 DEF Queued
    <3>3. CASE m \notin queue'
      <4>1. PICK o \in runner[s].items : o.id = m.id
        BY <1>1, <3>1, <3>3
      <4>2. o.caller = c
        BY <1>0, <1>1, <3>1, <4>1 DEF MessageInv, Unhandled
      <4> QED BY <4>2 DEF Held
    <3> QED BY <3>2, <3>3
  <2> QED BY <1>0, <1>1, <2>1, <2>2 DEF MessageAccounted, InMemory
<1> QED BY <1>4, <1>5, <1>7, <1>8, <1>9 DEF IInv

LEMMA NothingStep == ASSUME IInv, NEW s \in Servers, GotNothing(s) PROVE IInv'
<1>0. TypeOK /\ MessageInv /\ CallerInv /\ MessageAccounted
  BY DEF IInv
<1>1. PICK r \in Runners :
          /\ runner' = [runner EXCEPT ![s] = r]
          /\ r.items = {} /\ r.loop \in {"off", "reading"}
          /\ active' = active \/ (active' = active \ {s} /\ r.loop = "off")
  <2>1. Off \in Runners /\ Off.items = {} /\ Off.loop = "off"
    BY DEF Off, Runners, Loops, Messages
  <2>2. CASE runner[s].previous # "none"
    BY <2>2, NextRoundFacts DEF GotNothing
  <2>3. CASE runner[s].previous = "none"
    BY <2>1, <2>3 DEF GotNothing
  <2> QED BY <2>2, <2>3
<1>2. /\ runner[s].loop = "read" /\ runner[s].items = {}
      /\ UNCHANGED <<config, step, answer, queueId, alerts, server, listening, wakeups, queue,
                     clock, deletes, outputs, runs, faults>>
  BY DEF GotNothing, callers
<1>3. \A t \in Servers : runner'[t] = IF t = s THEN r ELSE runner[t]
  BY <1>0, <1>1 DEF TypeOK
<1>4. TypeOK'
  BY <1>0, <1>1, <1>2, <1>3 DEF TypeOK, Runners
<1>5. ServerInv'
  BY <1>1, <1>2, RoundServers
<1>6. \A t \in Servers : runner'[t].items = runner[t].items
                         /\ (runner'[t].loop = "read" => runner[t].loop = "read")
  BY <1>1, <1>2, <1>3
<1>7. MessageInv' /\ CallerInv'
  BY <1>0, <1>2, <1>6 DEF MessageInv, Unhandled, CallerInv, InMemory
<1>8. MessageAccounted'
  BY <1>0, <1>2, <1>6 DEF MessageAccounted, Queued, Held, InMemory
<1> QED BY <1>4, <1>5, <1>7, <1>8 DEF IInv

\* The items done are handled, and the others are still to be.
LEMMA ItemsStep ==
    ASSUME IInv, NEW s \in Servers, GotItems(s), NEW done \in SUBSET runner[s].items, NEW result,
           HandleItems(s, {m.caller : m \in done}, runner[s].items \ done, result)
    PROVE  IInv'
<1> DEFINE of == {m.caller : m \in done}
           rest == runner[s].items \ done
<1>0. TypeOK /\ ServerInv /\ MessageInv /\ CallerInv /\ MessageAccounted
  BY DEF IInv
<1>1. /\ runs' = [c \in Callers |-> IF c \in of THEN runs[c] + 1 ELSE runs[c]]
      /\ outputs' = [c \in Callers |->
            IF c \in of /\ Up(s) /\ answer[c] = "none" /\ result[c] \in Results
            THEN Append(outputs[c], result[c]) ELSE outputs[c]]
      /\ UNCHANGED <<config, step, answer, queueId, alerts, server, listening, wakeups, active,
                     queue, clock, deletes, faults>>
      /\ runner[s].loop = "read" /\ runner[s].items # {}
  BY DEF HandleItems, GotItems, callers
<1>2. PICK r \in Runners :
          /\ runner' = [runner EXCEPT ![s] = r]
          /\ r.items = rest
          /\ r.loop \in {"off", "reading"} => rest = {}
          /\ r.loop # "removing"
  <2>1. CASE rest = {}
    BY <2>1, NextRoundFacts DEF HandleItems
  <2>2. CASE rest # {}
    <3>1. [runner[s] EXCEPT !.items = rest] \in Runners
      BY <1>0 DEF TypeOK, Runners
    <3>2. /\ [runner[s] EXCEPT !.items = rest].items = rest
          /\ [runner[s] EXCEPT !.items = rest].loop = "read"
      BY <1>0, <1>1 DEF TypeOK
    <3> QED BY <2>2, <3>1, <3>2 DEF HandleItems
  <2> QED BY <2>1, <2>2
<1>3. \A t \in Servers : runner'[t] = IF t = s THEN r ELSE runner[t]
  BY <1>0, <1>2 DEF TypeOK
<1>4. \A c \in of : runs[c] = 0 /\ step[c] \in {"added", "posted"}
  BY <1>0 DEF MessageInv, Unhandled
<1>5. \A t \in Servers : t # s => runner[t].items = {}
  BY <1>0, <1>1 DEF ServerInv, Busy, TypeOK
<1>6. /\ \A m \in rest : m.caller \notin of
      /\ \A m \in queue : m.caller \notin of
  BY <1>0, <1>1 DEF MessageInv, Unhandled
<1> HIDE DEF of, rest
<1>7. TypeOK'
  <2>1. runs' \in [Callers -> Nat] /\ outputs' \in [Callers -> Seq(Results)]
    BY <1>0, <1>1 DEF TypeOK
  <2>2. runner' \in [Servers -> Runners]
    BY <1>0, <1>2 DEF TypeOK, Runners
  <2>3. \A t \in Servers :
            /\ runner'[t].loop \in {"off", "reading"} => runner'[t].items = {}
            /\ runner'[t].loop = "removing" => runner'[t].items # {}
    BY <1>0, <1>2, <1>3 DEF TypeOK
  <2> QED BY <1>0, <1>1, <2>1, <2>2, <2>3 DEF TypeOK, Runners
<1>8. ServerInv'
  BY <1>1, <1>2, RoundServers
<1>9. rest \subseteq runner[s].items /\ of \subseteq Callers
  BY <1>0 DEF rest, of, TypeOK, Messages, Runners
<1>10. MessageInv'
  <2>1. \A c \in Callers : c \notin of => runs'[c] = runs[c]
    BY <1>1
  <2>2. Unhandled(queue)'
    BY <1>0, <1>1, <1>6, <2>1 DEF MessageInv, Unhandled, TypeOK, Messages, InMemory
  <2>3. /\ runner'[s].items = rest
        /\ \A t \in Servers : t # s => runner'[t].items = {}
    BY <1>2, <1>3, <1>5
  <2>4. ASSUME NEW m \in rest
        PROVE  /\ step'[m.caller] \in {"added", "posted"} /\ runs'[m.caller] = 0
               /\ (~InMemory)' => m.id = m.caller
               /\ \A o \in rest : o.caller = m.caller => o = m
    <3>1. m \in runner[s].items /\ m.caller \in Callers /\ m.caller \notin of
      BY <1>0, <1>6, <1>9 DEF TypeOK, Messages
    <3> QED BY <1>0, <1>1, <1>9, <2>1, <3>1 DEF MessageInv, Unhandled, InMemory
  <2>5. \A m \in rest, o \in queue : m.caller # o.caller
    BY <1>0, <1>1, <1>9 DEF MessageInv
  <2>6. ASSUME NEW t \in Servers
        PROVE  /\ Unhandled(runner[t].items)'
               /\ runner'[t].loop = "read" => \A m \in runner'[t].items, o \in queue' : m.caller # o.caller
    <3>1. CASE t = s
      BY <1>1, <2>3, <2>4, <2>5, <3>1 DEF Unhandled
    <3>2. CASE t # s
      BY <2>3, <3>2 DEF Unhandled
    <3> QED BY <3>1, <3>2
  <2> QED BY <2>2, <2>6 DEF MessageInv
<1>11. CallerInv'
  <2>1. \A c \in Callers : runs'[c] = IF c \in of THEN 1 ELSE runs[c]
    BY <1>0, <1>1, <1>4 DEF TypeOK
  <2>2. \A c \in Callers : c \notin of => outputs'[c] = outputs[c]
    BY <1>1
  <2> QED BY <1>0, <1>1, <1>4, <2>1, <2>2 DEF CallerInv, InMemory
<1>12. MessageAccounted'
  <2>1. ASSUME NEW c \in Callers, Held(c) PROVE Held(c)' \/ runs'[c] > 0
    <3>1. PICK m \in runner[s].items : m.caller = c
      BY <1>5, <2>1 DEF Held
    <3>2. CASE m \in rest
      BY <1>2, <1>3, <3>1, <3>2 DEF Held
    <3>3. CASE m \notin rest
      <4>1. c \in of
        BY <3>1, <3>3 DEF of, rest
      <4> QED BY <1>0, <1>1, <1>4, <4>1 DEF TypeOK
    <3> QED BY <3>2, <3>3
  <2>2. \A c \in Callers : runs[c] > 0 => runs'[c] > 0
    BY <1>0, <1>1 DEF TypeOK
  <2>3. \A c \in Callers : Queued(c)' = Queued(c)
    BY <1>1 DEF Queued
  <2> QED BY <1>0, <1>1, <2>1, <2>2, <2>3 DEF MessageAccounted, InMemory
<1> QED BY <1>7, <1>8, <1>10, <1>11, <1>12 DEF IInv

\* Both ways of handling handle some of the items a server holds.
LEMMA HandlingIsOfItems ==
    ASSUME NEW s \in Servers, HandleBatch(s) \/ HandleItem(s)
    PROVE  \E done \in SUBSET runner[s].items : \E result :
              HandleItems(s, {m.caller : m \in done}, runner[s].items \ done, result)
<1>1. CASE HandleBatch(s)
  <2>1. PICK result \in [{m.caller : m \in runner[s].items} -> Results \cup {"missing"}] :
            HandleItems(s, {m.caller : m \in runner[s].items}, {}, result)
    BY <1>1 DEF HandleBatch
  <2> DEFINE done == runner[s].items
  <2>2. done \in SUBSET runner[s].items /\ runner[s].items \ done = {}
    OBVIOUS
  <2>3. HandleItems(s, {m.caller : m \in done}, runner[s].items \ done, result)
    BY <2>1, <2>2, Zenon
  <2> HIDE DEF done
  <2> QED BY <2>2, <2>3
<1>2. CASE HandleItem(s)
  <2>1. PICK m \in runner[s].items :
            \E result \in [{m.caller} -> Results] :
               HandleItems(s, {m.caller}, runner[s].items \ {m}, result)
    BY <1>2 DEF HandleItem
  <2>2. PICK result \in [{m.caller} -> Results] :
            HandleItems(s, {m.caller}, runner[s].items \ {m}, result)
    BY <2>1
  <2> DEFINE done == {m}
  <2>3. done \in SUBSET runner[s].items /\ {o.caller : o \in done} = {m.caller}
    OBVIOUS
  <2>4. HandleItems(s, {o.caller : o \in done}, runner[s].items \ done, result)
    BY <2>2, <2>3, Zenon
  <2> HIDE DEF done
  <2> QED BY <2>3, <2>4
<1> QED BY <1>1, <1>2

-----------------------------------------------------------------------------
(* Theorems *)

\* Every step keeps the invariant.
LEMMA StepIInv == IInv /\ [Next]_vars => IInv'
<1> SUFFICES ASSUME IInv, [Next]_vars PROVE IInv'
  OBVIOUS
<1>1. ASSUME NEW c \in Callers, CallerStep(c) \/ AddMessageFails(c) \/ Timeout(c) PROVE IInv'
  BY <1>1, CallerSteps, WakingSteps DEF CallerStep
<1>2. ASSUME NEW s \in Servers, HandleBatch(s) \/ HandleItem(s) PROVE IInv'
  <2>1. GotItems(s)
    BY <1>2 DEF HandleBatch, HandleItem
  <2> QED BY <1>2, <2>1, HandlingIsOfItems, ItemsStep
<1>3. ASSUME NEW s \in Servers, RunnerStep(s) PROVE IInv'
  BY <1>2, <1>3, ReadStep, RemoveStep, NothingStep DEF RunnerStep
<1>4. ASSUME NEW s \in Servers,
             \/ StartShardRunner(s) \/ Listen(s) \/ ReceiveWakeup(s)
             \/ GetMessagesFails(s) \/ EndServer(s) \/ CrashServer(s)
      PROVE  IInv'
  BY <1>4, WakingSteps, StopSteps, ServerSteps
<1>5. CASE UNCHANGED vars
  <2>1. TypeOK'
    BY <1>5 DEF IInv, vars, TypeOK
  <2>2. ServerInv' /\ MessageInv' /\ CallerInv'
    BY <1>5 DEF IInv, vars, ServerInv, Busy, Up, MessageInv, Unhandled, CallerInv, InMemory
  <2>3. MessageAccounted'
    BY <1>5 DEF IInv, vars, MessageAccounted, Queued, Held, InMemory
  <2> QED BY <2>1, <2>2, <2>3 DEF IInv
<1> QED BY <1>1, <1>3, <1>4, <1>5, TickStep DEF Next

THEOREM Inductive == Spec => []IInv
  BY InitIInv, StepIInv, PTL DEF Spec

\* Every reachable state is of its type.
THEOREM TypeCorrect == Spec => []TypeOK
<1>1. IInv => TypeOK
  BY DEF IInv
<1> QED BY <1>1, Inductive, PTL

\* A message a caller waits for is in the queue, with a server, or handled, as long
\* as nothing fails: for any number of callers and servers, whatever the timing.
THEOREM MessageAccountedHolds == Spec => []MessageAccounted
<1>1. IInv => MessageAccounted
  BY DEF IInv
<1> QED BY <1>1, Inductive, PTL

\* The items handled in one step have not been handled before.
LEMMA HandleIsHandle ==
    ASSUME IInv, NEW s \in Servers, HandleBatch(s) \/ HandleItem(s)
    PROVE  RR!Next
<1>1. GotItems(s)
  BY DEF HandleBatch, HandleItem
<1>2. PICK done \in SUBSET runner[s].items :
          \E result : HandleItems(s, {m.caller : m \in done}, runner[s].items \ done, result)
  BY HandlingIsOfItems
<1> DEFINE of == {m.caller : m \in done}
<1>3. /\ runs' = [c \in Callers |-> IF c \in of THEN runs[c] + 1 ELSE runs[c]]
      /\ UNCHANGED answer
  BY <1>2 DEF HandleItems, callers
<1>4. of \in SUBSET Callers /\ \A c \in of : runs[c] = 0
  BY <1>2 DEF IInv, TypeOK, Messages, MessageInv, Unhandled
<1> HIDE DEF of
<1>5. runs' = [c \in Callers |-> IF c \in of THEN 1 ELSE runs[c]]
  BY <1>3, <1>4
<1> QED BY <1>3, <1>4, <1>5 DEF RR!Next, RR!Handle

\* Every other step settles one request or changes neither answers nor runs.
LEMMA StepRefines == IInv /\ [Next]_vars => [RR!Next]_<<answer, runs>>
<1> SUFFICES ASSUME IInv, [Next]_vars PROVE [RR!Next]_<<answer, runs>>
  OBVIOUS
<1>1. ASSUME NEW c \in Callers, ReceiveOutput(c) PROVE RR!Next
  <2>1. /\ outputs[c] # <<>> /\ answer[c] = "none" /\ UNCHANGED runs
        /\ \/ answer' = [answer EXCEPT ![c] = "resolved"]
           \/ answer' = [answer EXCEPT ![c] = "rejected"]
    BY <1>1 DEF ReceiveOutput, Settle
  <2>2. runs[c] = 1
    BY <2>1 DEF IInv, CallerInv
  <2> QED BY <2>1, <2>2 DEF RR!Next, RR!Resolve, RR!Reject
<1>2. ASSUME NEW c \in Callers, Timeout(c) PROVE RR!Next
  BY <1>2 DEF Timeout, Settle, RR!Next, RR!Reject
<1>3. ASSUME NEW c \in Callers, AddMessageFails(c) PROVE RR!Next
  <2>1. answer[c] = "none"
    BY <1>3 DEF AddMessageFails, IInv, CallerInv
  <2> QED BY <1>3, <2>1 DEF AddMessageFails, RR!Next, RR!Reject
<1>4. ASSUME NEW c \in Callers,
             Subscribe(c) \/ AddMessage(c) \/ PostMessage(c) \/ DeleteMessage(c) \/ PublishWakeup(c)
      PROVE  UNCHANGED <<answer, runs>>
  BY <1>4 DEF Subscribe, AddMessage, PostMessage, DeleteMessage, PublishWakeup
<1>5. ASSUME NEW s \in Servers,
             \/ ReadMessages(s) \/ RemoveMessages(s) \/ GotNothing(s) \/ StartShardRunner(s)
             \/ Listen(s) \/ ReceiveWakeup(s) \/ GetMessagesFails(s) \/ EndServer(s)
             \/ CrashServer(s)
      PROVE  UNCHANGED <<answer, runs>>
  BY <1>5 DEF ReadMessages, RemoveMessages, GotNothing, StartShardRunner, Listen, ReceiveWakeup,
     GetMessagesFails, EndServer, CrashServer, callers
<1>6. CASE Tick \/ UNCHANGED vars
  BY <1>6 DEF Tick, vars
<1> QED BY <1>1, <1>2, <1>3, <1>4, <1>5, <1>6, HandleIsHandle DEF Next, CallerStep, RunnerStep

\* The queue and its runners implement RequestReply: an item is handled once at
\* most, and a request resolved only after it, whatever fails.
THEOREM ImplementsRequestReply == Spec => KeepsPromises
<1>1. Init => RR!Init
  BY DEF Init, RR!Init
<1> QED BY <1>1, Inductive, StepRefines, PTL DEF Spec, KeepsPromises, RR!Spec
=============================================================================
