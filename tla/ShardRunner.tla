---------------------------- MODULE ShardRunner ----------------------------
(***************************************************************************)
(* A queue of requests and the servers that run them:                      *)
(* src/src/utils/shardRunner/{queue,handler,utils}.ts over the queue and   *)
(* pubsub contexts (Redis, or in memory in one process).                   *)
(*                                                                         *)
(* A caller subscribes to a channel of its own, adds its message to the    *)
(* queue, sets a timeout and publishes a wakeup, which is not awaited.  A  *)
(* server that is woken and not active reads messages until it has read    *)
(* none twice in a row, and publishes each item's result on its caller's   *)
(* channel.  A caller that gives up removes its message by its queue id.   *)
(***************************************************************************)
EXTENDS Naturals, Sequences, FiniteSets

CONSTANTS
    Callers,    \* one request each
    Servers,    \* the processes that are given the queue, one after the other
    Configs,    \* how the queue may be set up: [inMemory, wholeBatch], see below
    ReadCount,  \* how many messages a server reads at a time
    MaxClock,   \* bound on the clock in-memory queue ids are taken from
    MaxFaults   \* bound on crashes and failed queue operations

ASSUME SizeAssumption == ReadCount \in Nat \ {0} /\ MaxClock \in Nat /\ MaxFaults \in Nat
\* inMemory: InMemoryQueueContext and InMemoryPubSubContext, or else Redis;
\* wholeBatch: multiItemsHandleShardQueue, or else singleItemHandleShardQueue.
ASSUME ConfigAssumption == Configs \subseteq [inMemory : BOOLEAN, wholeBatch : BOOLEAN]

VARIABLES
    config,     \* how the queue is set up; never changes
    step,       \* step[c]: how far queueShardRunner has come
    answer,     \* answer[c]: the deferred promise: "none", "resolved" or "rejected"
    queueId,    \* queueId[c]: the ids addMessages returns, {} before
    queue,      \* the messages in the queue: [id, caller, behind]
    clock,
    deletes,    \* the callers whose deleteMessages call is on its way
    alerts,     \* the callers whose wakeup is about to be published
    server,     \* server[s]: "down", "up" or "ended" (runtimeState.isEnded)
    listening,  \* the servers subscribed to the wakeup channel
    wakeups,    \* wakeups[s]: published wakeups that s has not received yet
    active,     \* the servers in runtimeState.activeShardRunners
    runner,     \* runner[s]: what handleShardQueue is doing
    outputs,    \* outputs[c]: the results on their way to c while it listens
    runs,       \* history: runs[c]: how often c's item has been handled
    faults

vars == <<config, step, answer, queueId, queue, clock, deletes, alerts, server, listening,
          wakeups, active, runner, outputs, runs, faults>>

callers == <<config, step, answer, queueId, alerts>>
servers == <<config, server, listening, wakeups, active, runner>>

-----------------------------------------------------------------------------

InMemory == config.inMemory
WholeBatch == config.wholeBatch

Messages == [id : Callers \cup 0..MaxClock, caller : Callers, behind : SUBSET Callers]

\* A message is behind those that are in the queue when it is added.
Message(c, id) == [id |-> id, caller |-> c, behind |-> {m.caller : m \in queue}]
Results == {"success", "error"}
Loops == {"off", "reading", "removing", "read"}

\* handleShardQueue: its __previousRunHasItems is undefined on the first round.
Off == [loop |-> "off", items |-> {}, previous |-> "undefined"]
Round(previous) == [loop |-> "reading", items |-> {}, previous |-> previous]

TypeOK ==
    /\ config \in Configs
    /\ step \in [Callers -> {"idle", "subscribed", "added", "posted"}]
    /\ answer \in [Callers -> {"none", "resolved", "rejected"}]
    /\ queueId \in [Callers -> SUBSET (Callers \cup 0..MaxClock)]
    /\ queue \subseteq Messages
    /\ clock \in 0..MaxClock
    /\ deletes \subseteq Callers /\ alerts \subseteq Callers
    /\ server \in [Servers -> {"down", "up", "ended"}]
    /\ listening \subseteq Servers /\ active \subseteq Servers
    /\ wakeups \in [Servers -> Nat]
    /\ runner \in [Servers -> [loop : Loops, items : SUBSET Messages,
                               previous : {"undefined", "items", "none"}]]
    /\ \A s \in Servers :
          /\ runner[s].loop \in {"off", "reading"} => runner[s].items = {}
          /\ runner[s].loop = "removing" => runner[s].items # {}
    /\ outputs \in [Callers -> Seq(Results)]
    /\ runs \in [Callers -> Nat]
    /\ faults \in 0..MaxFaults

Init ==
    /\ config \in Configs
    /\ step = [c \in Callers |-> "idle"]
    /\ answer = [c \in Callers |-> "none"]
    /\ queueId = [c \in Callers |-> {}]
    /\ queue = {}
    /\ clock = 0
    /\ deletes = {} /\ alerts = {}
    /\ server = [s \in Servers |-> "down"]
    /\ listening = {} /\ active = {}
    /\ wakeups = [s \in Servers |-> 0]
    /\ runner = [s \in Servers |-> Off]
    /\ outputs = [c \in Callers |-> <<>>]
    /\ runs = [c \in Callers |-> 0]
    /\ faults = 0

Up(s) == server[s] = "up"
Queued(c) == \E m \in queue : m.caller = c
Held(c) == \E s \in Servers : \E m \in runner[s].items : m.caller = c

-----------------------------------------------------------------------------
(* queueShardRunner *)

\* subscribeJson(outputChannel)
Subscribe(c) ==
    /\ step[c] = "idle"
    /\ step' = [step EXCEPT ![c] = "subscribed"]
    /\ UNCHANGED <<answer, queueId, queue, clock, deletes, alerts, outputs, runs, faults>>
    /\ UNCHANGED servers

\* The id a message is given: Redis makes a new one, InMemoryQueueContext takes
\* the time in milliseconds.
NewId(c) == IF InMemory THEN clock ELSE c

\* The message is in the queue; the caller does not know its id yet.
AddMessage(c) ==
    /\ step[c] = "subscribed"
    /\ step' = [step EXCEPT ![c] = "added"]
    /\ queueId' = [queueId EXCEPT ![c] = {NewId(c)}]
    /\ queue' = queue \cup {Message(c, NewId(c))}
    /\ UNCHANGED <<answer, clock, deletes, alerts, outputs, runs, faults>>
    /\ UNCHANGED servers

\* subscribeJson throws, or addMessages before or after the message has been added.
AddMessageFails(c) ==
    /\ ~InMemory /\ faults < MaxFaults
    /\ step[c] \in {"idle", "subscribed"}
    /\ faults' = faults + 1
    /\ step' = [step EXCEPT ![c] = "posted"]
    /\ answer' = [answer EXCEPT ![c] = "rejected"]
    /\ \/ UNCHANGED queue
       \/ step[c] = "subscribed" /\ queue' = queue \cup {Message(c, NewId(c))}
    /\ UNCHANGED <<queueId, clock, deletes, alerts, outputs, runs>>
    /\ UNCHANGED servers

\* addMessages returns: the timeout is set and the wakeup published.
PostMessage(c) ==
    /\ step[c] = "added"
    /\ step' = [step EXCEPT ![c] = "posted"]
    /\ alerts' = alerts \cup {c}
    /\ UNCHANGED <<answer, queueId, queue, clock, deletes, outputs, runs, faults>>
    /\ UNCHANGED servers

\* Mutant: the message of a rejected request is left in the queue.
Cleanup_KeepMessage(c, outcome) == {}

\* cleanup: a rejected request's message is removed if its id is known.
Cleanup(c, outcome) ==
    IF outcome = "rejected" /\ step[c] = "posted" /\ queueId[c] # {} THEN {c} ELSE {}

\* The first outcome settles the promise; the listener ignores what comes later.
Settle(c, outcome) ==
    /\ answer[c] = "none"
    /\ answer' = [answer EXCEPT ![c] = outcome]
    /\ deletes' = deletes \cup Cleanup(c, outcome)
    /\ outputs' = [outputs EXCEPT ![c] = <<>>]

\* The listener of the output channel.
ReceiveOutput(c) ==
    /\ outputs[c] # <<>>
    /\ Settle(c, IF Head(outputs[c]) = "success" THEN "resolved" ELSE "rejected")
    /\ UNCHANGED <<step, queueId, queue, clock, alerts, runs, faults>>
    /\ UNCHANGED servers

\* Mutant: an acknowledged request no longer times out.
Timeout_Queued(c) ==
    /\ step[c] = "posted" /\ Queued(c)
    /\ Settle(c, "rejected")
    /\ UNCHANGED <<step, queueId, queue, clock, alerts, runs, faults>>
    /\ UNCHANGED servers

\* The timer.  It may fire whenever it is set: an ack (ackItems) makes it run for
\* longer and changes nothing else, so that acks are left out.
Timeout(c) ==
    /\ step[c] = "posted"
    /\ Settle(c, "rejected")
    /\ UNCHANGED <<step, queueId, queue, clock, alerts, runs, faults>>
    /\ UNCHANGED servers

\* deleteMessages(queueKey, queueId)
DeleteMessage(c) ==
    /\ c \in deletes
    /\ deletes' = deletes \ {c}
    /\ queue' = {m \in queue : m.id \notin queueId[c]}
    /\ UNCHANGED <<step, answer, queueId, clock, alerts, outputs, runs, faults>>
    /\ UNCHANGED servers

Tick ==
    /\ InMemory /\ clock < MaxClock
    /\ clock' = clock + 1
    /\ UNCHANGED <<step, answer, queueId, queue, deletes, alerts, outputs, runs, faults>>
    /\ UNCHANGED servers

-----------------------------------------------------------------------------
(* startShardRunner *)

\* runHandler: the servers in woken that are not active start handleShardQueue.
RunHandler(woken) ==
    /\ active' = active \cup woken
    /\ runner' = [s \in Servers |-> IF s \in woken \ active THEN Round("undefined") ELSE runner[s]]

\* A queue is given to one process.  Another takes its place when it is gone; an
\* in-memory queue is gone with it.
MayStart(s) ==
    /\ server[s] = "down"
    /\ \A t \in Servers \ {s} :
          IF InMemory THEN server[t] = "down" ELSE ~Up(t) /\ runner[t].loop = "off"

\* The handler is run at once; subscribing to the wakeup channel takes a while.
StartShardRunner(s) ==
    /\ MayStart(s)
    /\ server' = [server EXCEPT ![s] = "up"]
    /\ RunHandler({s})
    /\ listening' = IF InMemory THEN listening \cup {s} ELSE listening
    /\ UNCHANGED <<wakeups, queue, clock, deletes, outputs, runs, faults>>
    /\ UNCHANGED callers

Listen(s) ==
    /\ Up(s) /\ s \notin listening
    /\ listening' = listening \cup {s}
    /\ UNCHANGED <<server, wakeups, active, runner, queue, clock, deletes, outputs, runs, faults>>
    /\ UNCHANGED callers

\* The wakeup is published to the servers that listen; in memory it reaches them
\* in the same turn.
PublishWakeup(c) ==
    /\ c \in alerts
    /\ alerts' = alerts \ {c}
    /\ IF InMemory
       THEN RunHandler({s \in listening : Up(s)}) /\ UNCHANGED wakeups
       ELSE /\ wakeups' = [s \in Servers |-> wakeups[s] + (IF s \in listening THEN 1 ELSE 0)]
            /\ UNCHANGED <<active, runner>>
    /\ UNCHANGED <<config, step, answer, queueId, queue, clock, deletes, server, listening,
                   outputs, runs, faults>>

ReceiveWakeup(s) ==
    /\ wakeups[s] > 0
    /\ wakeups' = [wakeups EXCEPT ![s] = @ - 1]
    /\ RunHandler(IF Up(s) THEN {s} ELSE {})
    /\ UNCHANGED <<server, listening, queue, clock, deletes, outputs, runs, faults>>
    /\ UNCHANGED callers

-----------------------------------------------------------------------------
(* handleShardQueue *)

\* The first messages of the queue, and the queue without those of some ids.
First(n) == {m \in queue : Cardinality({o \in queue : o.caller \in m.behind}) < n}
Batch == First(ReadCount)
Without(messages) == {m \in queue : \A o \in messages : o.id # m.id}

\* getMessages: the first messages are read; in memory they are removed as they
\* are read, in Redis by a second command.
ReadMessages(s) ==
    /\ runner[s].loop = "reading"
    /\ runner' = [runner EXCEPT ![s].items = Batch,
                                ![s].loop = IF InMemory \/ Batch = {} THEN "read" ELSE "removing"]
    /\ queue' = IF InMemory THEN queue \ Batch ELSE queue
    /\ UNCHANGED <<server, listening, wakeups, active, clock, deletes, outputs, runs, faults>>
    /\ UNCHANGED callers

\* Mutants: the messages that are first in the queue by now are removed; the
\* messages are not removed.
RemoveMessages_First(s) ==
    /\ runner[s].loop = "removing"
    /\ runner' = [runner EXCEPT ![s].loop = "read"]
    /\ queue' = queue \ First(Cardinality(runner[s].items))
    /\ UNCHANGED <<server, listening, wakeups, active, clock, deletes, outputs, runs, faults>>
    /\ UNCHANGED callers
RemoveMessages_None(s) ==
    /\ runner[s].loop = "removing"
    /\ runner' = [runner EXCEPT ![s].loop = "read"]
    /\ UNCHANGED <<server, listening, wakeups, active, queue, clock, deletes, outputs, runs, faults>>
    /\ UNCHANGED callers

RemoveMessages(s) ==
    /\ runner[s].loop = "removing"
    /\ runner' = [runner EXCEPT ![s].loop = "read"]
    /\ queue' = Without(runner[s].items)
    /\ UNCHANGED <<server, listening, wakeups, active, clock, deletes, outputs, runs, faults>>
    /\ UNCHANGED callers

\* getMessages throws: nobody catches it, and the active flag stays set.
GetMessagesFails(s) ==
    /\ ~InMemory /\ faults < MaxFaults
    /\ faults' = faults + 1
    /\ runner[s].loop \in {"reading", "removing"}
    /\ runner' = [runner EXCEPT ![s] = Off]
    /\ UNCHANGED <<server, listening, wakeups, active, queue, clock, deletes, outputs, runs>>
    /\ UNCHANGED callers

\* Mutant: the next round starts with the items of the last.
NextRound_KeepItems(s, previous) ==
    IF Up(s) THEN [Round(previous) EXCEPT !.items = runner[s].items] ELSE Off

\* A round is over: handleShardQueue calls itself unless the server has ended.
NextRound(s, previous) == IF Up(s) THEN Round(previous) ELSE Off

GotItems(s) == runner[s].loop = "read" /\ runner[s].items # {}

\* Nothing was read: one more round after the first and after one with items,
\* and then the runner is no longer active.
GotNothing(s) ==
    /\ runner[s].loop = "read" /\ runner[s].items = {}
    /\ IF runner[s].previous # "none"
       THEN runner' = [runner EXCEPT ![s] = NextRound(s, "none")] /\ UNCHANGED active
       ELSE runner' = [runner EXCEPT ![s] = Off] /\ active' = active \ {s}
    /\ UNCHANGED <<server, listening, wakeups, queue, clock, deletes, outputs, runs, faults>>
    /\ UNCHANGED callers

\* The provided handler has run for these items; their results are published
\* unless the server has ended.  outputItems throws, unobserved, for an item the
\* handler returned no result for.
HandleItems(s, handled, rest, result) ==
    /\ runs' = [c \in Callers |-> IF c \in handled THEN runs[c] + 1 ELSE runs[c]]
    /\ outputs' = [c \in Callers |->
          IF c \in handled /\ Up(s) /\ answer[c] = "none" /\ result[c] \in Results
          THEN Append(outputs[c], result[c]) ELSE outputs[c]]
    /\ runner' = [runner EXCEPT ![s] =
          IF rest = {} THEN NextRound(s, "items") ELSE [@ EXCEPT !.items = rest]]
    /\ UNCHANGED <<server, listening, wakeups, active, queue, clock, deletes, faults>>
    /\ UNCHANGED callers

\* multiItemsHandleShardQueue: the handler is given all items at once.
HandleBatch(s) ==
    /\ WholeBatch /\ GotItems(s)
    /\ LET of == {m.caller : m \in runner[s].items}
       IN  \E result \in [of -> Results \cup {"missing"}] : HandleItems(s, of, {}, result)

\* singleItemHandleShardQueue: one after the other.
HandleItem(s) ==
    /\ ~WholeBatch /\ GotItems(s)
    /\ \E m \in runner[s].items :
          /\ \A o \in runner[s].items : o.caller \notin m.behind
          /\ \E result \in [{m.caller} -> Results] :
                HandleItems(s, {m.caller}, runner[s].items \ {m}, result)

\* globalDispose: setIsEnded(true); what runs goes on to the end of its round.
EndServer(s) ==
    /\ Up(s)
    /\ server' = [server EXCEPT ![s] = "ended"]
    /\ UNCHANGED <<listening, wakeups, active, runner, queue, clock, deletes, outputs, runs, faults>>
    /\ UNCHANGED callers

\* The process dies with the items it holds.  (With an in-memory queue it would
\* take the queue and the callers with it.)
CrashServer(s) ==
    /\ ~InMemory /\ Up(s) /\ faults < MaxFaults
    /\ faults' = faults + 1
    /\ server' = [server EXCEPT ![s] = "ended"]
    /\ listening' = listening \ {s}
    /\ wakeups' = [wakeups EXCEPT ![s] = 0]
    /\ runner' = [runner EXCEPT ![s] = Off]
    /\ UNCHANGED <<active, queue, clock, deletes, outputs, runs>>
    /\ UNCHANGED callers

-----------------------------------------------------------------------------

CallerStep(c) ==
    Subscribe(c) \/ AddMessage(c) \/ PostMessage(c) \/ ReceiveOutput(c) \/ DeleteMessage(c)
        \/ PublishWakeup(c)

RunnerStep(s) ==
    ReadMessages(s) \/ RemoveMessages(s) \/ GotNothing(s) \/ HandleBatch(s)
        \/ HandleItem(s)

Next ==
    \/ \E c \in Callers : CallerStep(c) \/ AddMessageFails(c) \/ Timeout(c)
    \/ \E s \in Servers :
          \/ RunnerStep(s) \/ StartShardRunner(s) \/ Listen(s) \/ ReceiveWakeup(s)
          \/ GetMessagesFails(s) \/ EndServer(s) \/ CrashServer(s)
    \/ Tick

Spec == Init /\ [][Next]_vars

\* The event loops run what is due: callers, timers, runners and message
\* delivery.  Nothing is assumed of servers being started, stopped or failing.
Fairness ==
    /\ \A c \in Callers :
          /\ WF_vars(AddMessage(c)) /\ WF_vars(PostMessage(c)) /\ WF_vars(ReceiveOutput(c))
          /\ WF_vars(DeleteMessage(c)) /\ WF_vars(PublishWakeup(c)) /\ WF_vars(Timeout(c))
    /\ \A s \in Servers :
          WF_vars(RunnerStep(s)) /\ WF_vars(Listen(s)) /\ WF_vars(ReceiveWakeup(s))

FairSpec == Spec /\ Fairness

-----------------------------------------------------------------------------
(* Properties *)

RR == INSTANCE RequestReply WITH Callers <- Callers, answer <- answer, runs <- runs

\* As long as one server at a time handles a queue, queueShardRunner and handleShardQueue implement
\* RequestReply, whatever fails and whoever gives up: no item is handled again, and
\* no request is resolved before its item has been handled.
KeepsPromises == RR!Spec

\* A message a caller waits for is not lost while nothing fails: it is in the
\* queue, or read by a server, or has been handled.  A server that removes what it
\* has read, and a caller that gives up, remove nobody else's message.  (Not in
\* memory, where two messages may have the same id.)
MessageAccounted ==
    ~InMemory /\ faults = 0 =>
        \A c \in Callers :
            step[c] \in {"added", "posted"} /\ answer[c] = "none" =>
                Queued(c) \/ Held(c) \/ runs[c] > 0

\* The message of a request that was rejected leaves the queue, so that nobody
\* starts work for a caller that has given up long ago.
RejectedLeavesQueue ==
    \A c \in Callers : (queueId[c] # {} /\ answer[c] = "rejected") ~> ~Queued(c)

\* Whatever servers do, a caller that has queued its request gets an answer.
RequestSettles == \A c \in Callers : (step[c] = "subscribed") ~> (answer[c] # "none")

-----------------------------------------------------------------------------
\* A server that will read the queue again before it is no longer active.
WillRead(s) ==
    \/ runner[s].loop \in {"reading", "removing"}
    \/ runner[s].loop = "read" /\ (runner[s].items # {} \/ runner[s].previous # "none")

\* handler.ts:203 "subscribe to wakeup channel to run handler when new items are
\* added": a server that receives a wakeup reads the queue afterwards.
WakeupIsServed ==
    [][\A s \in Servers : wakeups'[s] < wakeups[s] /\ Up(s) => WillRead(s)']_vars
-----------------------------------------------------------------------------
(* The inductive invariant the theorems of ShardRunnerProofs rest on. *)

\* One server at a time is up or at work, and only servers that are active work.
Busy(s) == Up(s) \/ runner[s].loop # "off"
ServerInv ==
    /\ \A s, t \in Servers : Busy(s) /\ Busy(t) => s = t
    /\ \A s \in Servers :
          /\ server[s] = "down" \/ s \notin active => runner[s].loop = "off"
          /\ InMemory => runner[s].loop # "removing"

\* A message that may still be handled is one of its kind: neither is another of its
\* caller's in the queue or with a server, nor has it been handled.
Unhandled(messages) ==
    \A m \in messages :
       /\ step[m.caller] \in {"added", "posted"} /\ runs[m.caller] = 0
       /\ ~InMemory => m.id = m.caller
       /\ \A o \in messages : o.caller = m.caller => o = m
MessageInv ==
    /\ Unhandled(queue)
    /\ \A s \in Servers :
          /\ Unhandled(runner[s].items)
          /\ runner[s].loop = "read" =>
                \A m \in runner[s].items, o \in queue : m.caller # o.caller

\* Results are those of a single run, and who has not queued a message has none.
CallerInv ==
    \A c \in Callers :
       /\ runs[c] \in {0, 1}
       /\ outputs[c] # <<>> => runs[c] = 1
       /\ step[c] \in {"idle", "subscribed"} => answer[c] = "none" /\ runs[c] = 0
       /\ c \in deletes => answer[c] # "none"
       /\ ~InMemory => queueId[c] \subseteq {c}

IInv == TypeOK /\ ServerInv /\ MessageInv /\ CallerInv /\ MessageAccounted
=============================================================================
