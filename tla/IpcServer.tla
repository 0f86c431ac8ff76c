------------------------------ MODULE IpcServer ------------------------------
(***************************************************************************)
(* One client connection of the daemon: serve_client of                    *)
(* tuxstack-daemon/src/ipc.rs, the tasks it spawns and the writer task.    *)
(*                                                                         *)
(* Five kinds of actor interleave.  The connection loop selects between    *)
(* the socket, the two completion channels, the closed writer and the      *)
(* daemon's shutdown.  Every accepted request and every accepted           *)
(* subscription has a task of its own.  The writer drains the bounded      *)
(* outbound queue into the socket.  The client may send any frame, stop    *)
(* reading or hang up at any time.                                         *)
(*                                                                         *)
(* Payloads are abstracted away: a reply is a reply, an event is an event  *)
(* of its subscription.                                                    *)
(***************************************************************************)
EXTENDS Integers, Sequences, FiniteSets, FiniteSetsExt

CONSTANTS
    RequestIds,             \* nonzero request ids the client uses
    MaxSubscriptionId,      \* bound on next_subscription_id
    Kinds,                  \* kinds of subscription
    NoKind,
    Cost,                   \* [Kinds -> Nat]: subscription_task_cost
    Terminals,              \* the kinds that open a container terminal
    MaxClientRequests,      \* MAX_CLIENT_REQUESTS
    MaxClientSubscriptions, \* MAX_CLIENT_SUBSCRIPTIONS
    MaxClientStreamTasks,   \* MAX_CLIENT_STREAM_TASKS
    MaxTerminalSessions,    \* MAX_TERMINAL_SESSIONS_PER_CONTAINER
    OutboundQueue,          \* OUTBOUND_QUEUE
    DoneQueue,              \* REQUEST_DONE_QUEUE and SUBSCRIPTION_DONE_QUEUE
    MaxFrames               \* bound on the frames the client sends

ASSUME ServerAssumption ==
    /\ MaxSubscriptionId \in Nat
    /\ NoKind \notin Kinds
    /\ Cost \in [Kinds -> Nat \ {0}]
    /\ Terminals \subseteq Kinds
    /\ {MaxClientRequests, MaxClientSubscriptions, MaxClientStreamTasks,
        MaxTerminalSessions, OutboundQueue, DoneQueue} \subseteq Nat \ {0}
    /\ MaxFrames \in Nat

SubscriptionIds == 1..MaxSubscriptionId

VARIABLES
    loop,                   \* where serve_client stands
    reader,                 \* where the socket reader stands in the byte stream
    frames,                 \* frames read so far
    outbound, writer,       \* the outbound queue and its writer task
    requests,               \* active requests, with the state of their token
    request_task, request_done,
    subscriptions,          \* the registered subscription ids
    cancelled,              \* ids whose CancellationToken is cancelled
    kind,                   \* what each id subscribed to
    subscription_tasks, next_subscription_id,
    subscription_task, subscription_done,
    terminals,              \* the terminal registry
    session,                \* the exec session of each terminal subscription
    wire                    \* what the client has read about each subscription

loopVars == <<loop, reader, frames>>
outVars == <<outbound, writer, wire>>
requestVars == <<requests, request_task, request_done>>
subscriptionVars == <<subscriptions, cancelled, kind, subscription_tasks,
                      next_subscription_id, subscription_task, subscription_done>>
terminalVars == <<terminals, session>>
vars == <<loopVars, outVars, requestVars, subscriptionVars, terminalVars>>

-----------------------------------------------------------------------------
(* Envelopes, the outbound queue and the places of each actor.             *)

Reply == [body |-> "reply", id |-> 0]
Subscribed(s) == [body |-> "subscribed", id |-> s]
Event(s) == [body |-> "event", id |-> s]
Ended(s) == [body |-> "ended", id |-> s]

Envelopes == [body : {"reply", "subscribed", "event", "ended"},
              id : SubscriptionIds \cup {0}]

(* `id` is the subscription an arm of the loop is in the middle of: the one *)
(* to spawn once Subscribed is queued, or the one whose terminal to close.  *)
At(place, id) == [at |-> place, id |-> id]
Select == At("select", 0)

Serving == {"select", "reply", "subscribed", "unsubscribe"}
Cleanup == {"cancel", "close_terminals", "join", "closed"}

(* tx.send succeeds while the writer holds the receiver and there is room;  *)
(* after OUTBOUND_SEND_TIMEOUT it gives up, and it fails when the receiver  *)
(* is gone.                                                                 *)
Queues(envelope) ==
    /\ writer = "running"
    /\ Len(outbound) < OutboundQueue
    /\ outbound' = Append(outbound, envelope)
    /\ UNCHANGED <<writer, wire>>

SendFails ==
    /\ writer = "gone" \/ Len(outbound) >= OutboundQueue
    /\ UNCHANGED outVars

(* Mutant: the completion is offered with try_send and lost when full.      *)
NotifiesOrDrops(queue, id) ==
    queue' = IF Len(queue) < DoneQueue THEN Append(queue, id) ELSE queue

(* request_done_rx and subscription_done_rx live as long as serve_client.   *)
Notifies(queue, id) ==
    \/ /\ loop.at = "closed"
       /\ queue' = queue
    \/ /\ loop.at # "closed"
       /\ Len(queue) < DoneQueue
       /\ queue' = Append(queue, id)

Init ==
    /\ loop = Select
    /\ reader = "boundary"
    /\ frames = 0
    /\ outbound = <<>>
    /\ writer = "running"
    /\ requests = [r \in RequestIds |-> "none"]
    /\ request_task = [r \in RequestIds |-> "none"]
    /\ request_done = <<>>
    /\ subscriptions = {}
    /\ cancelled = {}
    /\ kind = [s \in SubscriptionIds |-> NoKind]
    /\ subscription_tasks = 0
    /\ next_subscription_id = 1
    /\ subscription_task = [s \in SubscriptionIds |-> "none"]
    /\ subscription_done = <<>>
    /\ terminals = {}
    /\ session = [s \in SubscriptionIds |-> "none"]
    /\ wire = [s \in SubscriptionIds |-> "unknown"]

-----------------------------------------------------------------------------
(* The connection loop: the socket arm of the select.                      *)

Active == {r \in RequestIds : requests[r] # "none"}

(* The frame's length prefix is read and its body has not arrived yet.      *)
ReadPrefix ==
    /\ loop = Select
    /\ reader = "boundary"
    /\ frames < MaxFrames
    /\ reader' = "inside"
    /\ UNCHANGED <<loop, frames, outVars, requestVars, subscriptionVars, terminalVars>>

(* read_envelope returned a whole frame to the loop.                        *)
ReadFrame ==
    /\ loop = Select
    /\ reader # "astray"
    /\ frames < MaxFrames
    /\ frames' = frames + 1
    /\ reader' = "boundary"

(* The client hung up, or a length or a body did not decode.                *)
ReadFails ==
    /\ loop = Select
    /\ loop' = At("cancel", 0)
    /\ UNCHANGED <<reader, frames, outVars, requestVars, subscriptionVars, terminalVars>>

(* Another arm of the select completed.  The read_envelope future is        *)
(* dropped, and with it the prefix it had already taken off the socket.     *)
DropRead ==
    /\ reader' = IF reader = "inside" THEN "astray" ELSE reader
    /\ UNCHANGED frames

ReadRequest(r) ==
    /\ ReadFrame
    /\ IF r \in Active \/ Cardinality(Active) >= MaxClientRequests
       THEN /\ loop' = At("reply", 0)
            /\ UNCHANGED requestVars
       ELSE /\ requests' = [requests EXCEPT ![r] = "live"]
            /\ request_task' = [request_task EXCEPT ![r] = "dispatch"]
            /\ UNCHANGED <<loop, request_done>>
    /\ UNCHANGED <<outVars, subscriptionVars, terminalVars>>

ReadCancelRequest(r) ==
    /\ ReadFrame
    /\ requests' = [requests EXCEPT ![r] = IF @ = "live" THEN "cancelled" ELSE @]
    /\ UNCHANGED <<loop, request_task, request_done, outVars, subscriptionVars, terminalVars>>

(* A request the loop refuses or answers by itself: subscription options    *)
(* that do not validate, and Ping.                                          *)
ReadAnsweredInline ==
    /\ ReadFrame
    /\ loop' = At("reply", 0)
    /\ UNCHANGED <<outVars, requestVars, subscriptionVars, terminalVars>>

ReadSubscribe(k) ==
    LET s == next_subscription_id IN
    /\ ReadFrame
    /\ s \in SubscriptionIds
    /\ IF \/ Cardinality(subscriptions) >= MaxClientSubscriptions
          \/ subscription_tasks + Cost[k] > MaxClientStreamTasks
       THEN /\ loop' = At("reply", 0)
            /\ UNCHANGED subscriptionVars
       ELSE /\ loop' = At("subscribed", s)
            /\ next_subscription_id' = s + 1
            /\ subscriptions' = subscriptions \cup {s}
            /\ kind' = [kind EXCEPT ![s] = k]
            /\ subscription_tasks' = subscription_tasks + Cost[k]
            /\ UNCHANGED <<cancelled, subscription_task, subscription_done>>
    /\ UNCHANGED <<outVars, requestVars, terminalVars>>

(* saturating_sub                                                           *)
Minus(a, b) == IF a < b THEN 0 ELSE a - b

(* Mutant: no saturation, and no check that the id was registered.          *)
UnregisterUnderflows(s) ==
    /\ subscriptions' = subscriptions \ {s}
    /\ subscription_tasks' = IF kind[s] = NoKind THEN subscription_tasks
                             ELSE subscription_tasks - Cost[kind[s]]

(* Mutant: the cost is given back whether or not the id was registered.     *)
UnregisterTwice(s) ==
    /\ subscriptions' = subscriptions \ {s}
    /\ subscription_tasks' = IF kind[s] = NoKind THEN subscription_tasks
                             ELSE Minus(subscription_tasks, Cost[kind[s]])

(* subscriptions.remove(id), with the accounting both callers do when the   *)
(* id was there.                                                            *)
Unregister(s) ==
    /\ subscriptions' = subscriptions \ {s}
    /\ subscription_tasks' = IF s \in subscriptions
                             THEN Minus(subscription_tasks, Cost[kind[s]])
                             ELSE subscription_tasks

ReadUnsubscribe(s) ==
    /\ ReadFrame
    /\ Unregister(s)
    /\ cancelled' = IF s \in subscriptions THEN cancelled \cup {s} ELSE cancelled
    /\ loop' = At("unsubscribe", s)
    /\ UNCHANGED <<kind, next_subscription_id, subscription_task, subscription_done,
                   outVars, requestVars, terminalVars>>

(* A body no client may send ends the connection.                           *)
ReadUnexpected ==
    /\ ReadFrame
    /\ loop' = At("cancel", 0)
    /\ UNCHANGED <<outVars, requestVars, subscriptionVars, terminalVars>>

-----------------------------------------------------------------------------
(* The connection loop: the rest of an arm after an await.                 *)

(* session.close cancels the session before its first await.                *)
CloseSession(s) ==
    session' = [session EXCEPT ![s] = IF @ = "open" THEN "closed" ELSE @]

(* Mutant: the registry entry is left behind.                               *)
CloseWithoutRemoving(s) ==
    /\ terminals' = terminals
    /\ CloseSession(s)

close_terminal(s) ==
    /\ terminals' = terminals \ {s}
    /\ CloseSession(s)

LoopClosesTerminal ==
    /\ loop.at = "unsubscribe"
    /\ IF loop.id \in terminals THEN close_terminal(loop.id) ELSE UNCHANGED terminalVars
    /\ loop' = At("reply", 0)
    /\ UNCHANGED <<reader, frames, outVars, requestVars, subscriptionVars>>

LoopReplies ==
    /\ loop.at = "reply"
    /\ Queues(Reply)
    /\ loop' = Select
    /\ UNCHANGED <<reader, frames, requestVars, subscriptionVars, terminalVars>>

(* Mutant: the subscription is spawned before Subscribed is queued.         *)
LoopSpawnsEarly ==
    /\ loop.at = "subscribed"
    /\ \/ /\ subscription_task[loop.id] = "none"
          /\ subscription_task' = [subscription_task EXCEPT ![loop.id] =
                IF kind[loop.id] \in Terminals THEN "announce" ELSE "stream"]
          /\ UNCHANGED <<loop, outVars>>
       \/ /\ subscription_task[loop.id] # "none"
          /\ Queues(Subscribed(loop.id))
          /\ loop' = Select
          /\ UNCHANGED subscription_task
    /\ UNCHANGED <<reader, frames, subscriptions, cancelled, kind, subscription_tasks,
                   next_subscription_id, subscription_done, requestVars, terminalVars>>

LoopSpawns ==
    /\ loop.at = "subscribed"
    /\ Queues(Subscribed(loop.id))
    /\ subscription_task' = [subscription_task EXCEPT ![loop.id] =
          IF kind[loop.id] \in Terminals THEN "announce" ELSE "stream"]
    /\ loop' = Select
    /\ UNCHANGED <<reader, frames, subscriptions, cancelled, kind, subscription_tasks,
                   next_subscription_id, subscription_done, requestVars, terminalVars>>

LoopSendFails ==
    /\ loop.at \in {"reply", "subscribed"}
    /\ SendFails
    /\ loop' = At("cancel", 0)
    /\ UNCHANGED <<reader, frames, requestVars, subscriptionVars, terminalVars>>

(* The other arms of the select.                                            *)
RequestDone ==
    /\ loop = Select
    /\ request_done # <<>>
    /\ requests' = [requests EXCEPT ![Head(request_done)] = "none"]
    /\ request_done' = Tail(request_done)
    /\ DropRead
    /\ UNCHANGED <<loop, request_task, outVars, subscriptionVars, terminalVars>>

SubscriptionDone ==
    /\ loop = Select
    /\ subscription_done # <<>>
    /\ Unregister(Head(subscription_done))
    /\ subscription_done' = Tail(subscription_done)
    /\ DropRead
    /\ UNCHANGED <<loop, cancelled, kind, next_subscription_id, subscription_task,
                   outVars, requestVars, terminalVars>>

(* outbound_tx.closed(), or the daemon's shutdown token.                    *)
LoopStops ==
    /\ loop = Select
    /\ loop' = At("cancel", 0)
    /\ DropRead
    /\ UNCHANGED <<outVars, requestVars, subscriptionVars, terminalVars>>

-----------------------------------------------------------------------------
(* Cleanup after the loop.                                                 *)

(* Mutant: the subscriptions' tokens are only dropped, which cancels nothing. *)
CancelRequestsOnly ==
    /\ loop.at = "cancel"
    /\ requests' = [r \in RequestIds |->
                      IF requests[r] = "live" THEN "cancelled" ELSE requests[r]]
    /\ loop' = At("close_terminals", 0)
    /\ UNCHANGED <<reader, frames, request_task, request_done, subscriptionVars,
                   outVars, terminalVars>>

CancelTasks ==
    /\ loop.at = "cancel"
    /\ requests' = [r \in RequestIds |->
                      IF requests[r] = "live" THEN "cancelled" ELSE requests[r]]
    /\ cancelled' = cancelled \cup subscriptions
    /\ loop' = At("close_terminals", 0)
    /\ UNCHANGED <<reader, frames, request_task, request_done, subscriptions, kind,
                   subscription_tasks, next_subscription_id, subscription_task,
                   subscription_done, outVars, terminalVars>>

close_all_terminals ==
    /\ loop.at = "close_terminals"
    /\ terminals' = {}
    /\ session' = [s \in SubscriptionIds |->
                     IF s \in terminals /\ session[s] = "open" THEN "closed" ELSE session[s]]
    /\ loop' = At("join", 0)
    /\ UNCHANGED <<reader, frames, outVars, requestVars, subscriptionVars>>

(* The writer is joined, or aborted after WRITER_SHUTDOWN_TIMEOUT.          *)
JoinWriter ==
    /\ loop.at = "join"
    /\ loop' = At("closed", 0)
    /\ writer' = "gone"
    /\ outbound' = <<>>
    /\ request_done' = <<>>
    /\ subscription_done' = <<>>
    /\ UNCHANGED <<reader, frames, requests, request_task, subscriptions, cancelled, kind,
                   subscription_tasks, next_subscription_id, subscription_task,
                   terminalVars, wire>>

-----------------------------------------------------------------------------
(* The writer task.                                                        *)

(* What the client makes of an envelope: Subscribed, then events, then one  *)
(* SubscriptionEnded, then nothing.                                         *)
Reads(envelope) ==
    LET s == envelope.id IN
    CASE envelope.body = "reply" -> wire
      [] envelope.body = "subscribed" ->
           [wire EXCEPT ![s] = IF @ = "unknown" THEN "accepted" ELSE "confused"]
      [] envelope.body = "event" ->
           [wire EXCEPT ![s] = IF @ = "accepted" THEN @ ELSE "confused"]
      [] envelope.body = "ended" ->
           [wire EXCEPT ![s] = IF @ = "accepted" THEN "ended" ELSE "confused"]

WriterWrites ==
    /\ writer = "running"
    /\ outbound # <<>>
    /\ wire' = Reads(Head(outbound))
    /\ outbound' = Tail(outbound)
    /\ UNCHANGED <<writer, loopVars, requestVars, subscriptionVars, terminalVars>>

(* A write failed, or every sender is gone and the queue is drained.        *)
WriterEnds ==
    /\ writer = "running"
    /\ writer' = "gone"
    /\ outbound' = <<>>
    /\ UNCHANGED <<wire, loopVars, requestVars, subscriptionVars, terminalVars>>

-----------------------------------------------------------------------------
(* A request task.                                                         *)

RequestAt(r, from, to) ==
    /\ request_task[r] = from
    /\ request_task' = [request_task EXCEPT ![r] = to]

(* dispatch_request answered.                                               *)
Dispatched(r) ==
    /\ RequestAt(r, "dispatch", "respond")
    /\ UNCHANGED <<loopVars, outVars, requests, request_done, subscriptionVars, terminalVars>>

(* ContainerTerminalClose: the entry is taken out of the registry and the   *)
(* session closed without an await in between.                              *)
DispatchedTerminalClose(r, s) ==
    /\ RequestAt(r, "dispatch", "respond")
    /\ s \in terminals
    /\ close_terminal(s)
    /\ UNCHANGED <<loopVars, outVars, requests, request_done, subscriptionVars>>

(* The token won the select: the dispatch future is dropped.                *)
RequestCancelled(r) ==
    /\ requests[r] = "cancelled"
    /\ RequestAt(r, "dispatch", "respond")
    /\ UNCHANGED <<loopVars, outVars, requests, request_done, subscriptionVars, terminalVars>>

Responds(r) ==
    /\ RequestAt(r, "respond", "notify")
    /\ Queues(Reply) \/ SendFails
    /\ UNCHANGED <<loopVars, requests, request_done, subscriptionVars, terminalVars>>

RequestNotifies(r) ==
    /\ RequestAt(r, "notify", "none")
    /\ Notifies(request_done, r)
    /\ UNCHANGED <<loopVars, outVars, requests, subscriptionVars, terminalVars>>

-----------------------------------------------------------------------------
(* A subscription task.                                                    *)

SubscriptionAt(s, from, to) ==
    /\ subscription_task[s] = from
    /\ subscription_task' = [subscription_task EXCEPT ![s] = to]
    /\ UNCHANGED <<subscriptions, cancelled, kind, subscription_tasks, next_subscription_id>>

(* send_event with a token.  The token is looked at first, so an event may  *)
(* be queued after a cancellation that came in between; a token that was    *)
(* cancelled before, a full queue or a closed one make it return false.     *)
EventSent(s, from, to) ==
    /\ SubscriptionAt(s, from, to)
    /\ Queues(Event(s))
    /\ UNCHANGED <<loopVars, requestVars, subscription_done, terminalVars>>

EventNotSent(s, from, to) ==
    /\ SubscriptionAt(s, from, to)
    /\ \/ SendFails
       \/ s \in cancelled /\ UNCHANGED outVars
    /\ UNCHANGED <<loopVars, requestVars, subscription_done, terminalVars>>

Moves(s, from, to) ==
    /\ SubscriptionAt(s, from, to)
    /\ UNCHANGED <<loopVars, outVars, requestVars, subscription_done, terminalVars>>

(* The stream has an item for a subscription that was not cancelled yet.    *)
StreamItem(s) ==
    /\ s \notin cancelled
    /\ Moves(s, "stream", "event")

SendsItem(s) == EventSent(s, "event", "stream") \/ EventNotSent(s, "event", "ending")

(* The stream ended or failed, or the token was cancelled.  A terminal says *)
(* so in one more event first.                                              *)
StreamEnds(s) ==
    \/ Moves(s, "stream", "ending")
    \/ kind[s] \in Terminals /\ Moves(s, "stream", "farewell")

Farewell(s) == EventSent(s, "farewell", "ending") \/ EventNotSent(s, "farewell", "ending")

(* run_terminal_subscription up to its output loop.                         *)
Announces(s) == EventSent(s, "announce", "capacity") \/ EventNotSent(s, "announce", "ending")

ChecksCapacity(s) ==
    IF Cardinality(terminals) < MaxTerminalSessions
    THEN Moves(s, "capacity", "connect")
    ELSE Moves(s, "capacity", "farewell")

Connects(s) ==
    \/ /\ SubscriptionAt(s, "connect", "install")
       /\ session' = [session EXCEPT ![s] = "open"]
       /\ UNCHANGED <<loopVars, outVars, requestVars, subscription_done, terminals>>
    \/ Moves(s, "connect", "farewell")

(* The resize, which fails on a cancelled session, and then the registry.   *)
Installs(s) ==
    \/ /\ SubscriptionAt(s, "install", "ready")
       /\ terminals' = terminals \cup {s}
       /\ UNCHANGED <<loopVars, outVars, requestVars, subscription_done, session>>
    \/ /\ SubscriptionAt(s, "install", "farewell")
       /\ CloseSession(s)
       /\ UNCHANGED <<loopVars, outVars, requestVars, subscription_done, terminals>>

Ready(s) == EventSent(s, "ready", "stream") \/ EventNotSent(s, "ready", "ending")

(* The end of spawn_subscription: the task's own reference to the session   *)
(* is dropped, which closes it, and the registry entry is closed.           *)
Ends(s) ==
    /\ SubscriptionAt(s, "ending", "ended")
    /\ close_terminal(s)
    /\ UNCHANGED <<loopVars, outVars, requestVars, subscription_done>>

(* SubscriptionEnded is sent without a token and dropped if that fails.     *)
SaysEnded(s) ==
    /\ SubscriptionAt(s, "ended", "notify")
    /\ Queues(Ended(s)) \/ SendFails
    /\ UNCHANGED <<loopVars, requestVars, subscription_done, terminalVars>>

SubscriptionNotifies(s) ==
    /\ SubscriptionAt(s, "notify", "gone")
    /\ Notifies(subscription_done, s)
    /\ UNCHANGED <<loopVars, outVars, requestVars, terminalVars>>

-----------------------------------------------------------------------------

ReadStep ==
    \/ ReadPrefix
    \/ \E r \in RequestIds : ReadRequest(r) \/ ReadCancelRequest(r)
    \/ \E k \in Kinds : ReadSubscribe(k)
    \/ \E s \in SubscriptionIds : ReadUnsubscribe(s)
    \/ ReadAnsweredInline
    \/ ReadUnexpected
    \/ ReadFails

LoopStep ==
    \/ LoopClosesTerminal
    \/ LoopReplies
    \/ LoopSpawns
    \/ LoopSendFails
    \/ CancelTasks
    \/ close_all_terminals
    \/ JoinWriter

CompletionStep == RequestDone \/ SubscriptionDone

WriterStep == WriterWrites \/ WriterEnds

RequestStep(r) == RequestCancelled(r) \/ Responds(r) \/ RequestNotifies(r)

SubscriptionStep(s) ==
    \/ SendsItem(s)
    \/ Farewell(s)
    \/ Announces(s)
    \/ ChecksCapacity(s)
    \/ Connects(s)
    \/ Installs(s)
    \/ Ready(s)
    \/ Ends(s)
    \/ SaysEnded(s)
    \/ SubscriptionNotifies(s)

(* What the engine decides: how long a request or a stream goes on.         *)
EngineStep ==
    \/ \E r \in RequestIds :
          Dispatched(r) \/ \E s \in SubscriptionIds : DispatchedTerminalClose(r, s)
    \/ \E s \in SubscriptionIds : StreamItem(s) \/ StreamEnds(s)

AllGone ==
    /\ \A r \in RequestIds : request_task[r] = "none"
    /\ \A s \in SubscriptionIds : subscription_task[s] \in {"none", "gone"}

(* Everything has ended.                                                    *)
Over ==
    /\ loop.at = "closed"
    /\ AllGone
    /\ UNCHANGED vars

Next ==
    \/ ReadStep
    \/ LoopStep
    \/ CompletionStep
    \/ LoopStops
    \/ WriterStep
    \/ \E r \in RequestIds : RequestStep(r)
    \/ \E s \in SubscriptionIds : SubscriptionStep(s)
    \/ EngineStep
    \/ Over

(* The runtime polls every task that can make progress, and every send and  *)
(* join has a timeout.  Nothing is assumed of the client, of the writer it  *)
(* may block, or of a request or a stream that nobody cancelled.            *)
Fairness ==
    /\ WF_vars(LoopStep)
    /\ \A r \in RequestIds : WF_vars(RequestStep(r))
    /\ \A s \in SubscriptionIds :
          WF_vars(SubscriptionStep(s) \/ (s \in cancelled /\ StreamEnds(s)))

Spec == Init /\ [][Next]_vars /\ Fairness

-----------------------------------------------------------------------------
(* Properties.                                                             *)

RequestPlaces == {"none", "dispatch", "respond", "notify"}

(* Where a subscription task may hold, or still open, an exec session.      *)
Working == {"announce", "capacity", "connect", "install", "ready", "stream",
            "event", "farewell", "ending"}
SubscriptionPlaces == Working \cup {"none", "ended", "notify", "gone"}

(* Every variable of a connection has the shape its Rust type gives it.     *)
TypeOK ==
    /\ loop \in [at : Serving \cup Cleanup, id : SubscriptionIds \cup {0}]
    /\ loop.at \in {"subscribed", "unsubscribe"} => loop.id \in SubscriptionIds
    /\ reader \in {"boundary", "inside", "astray"}
    /\ frames \in 0..MaxFrames
    /\ outbound \in Seq(Envelopes)
    /\ writer \in {"running", "gone"}
    /\ requests \in [RequestIds -> {"none", "live", "cancelled"}]
    /\ request_task \in [RequestIds -> RequestPlaces]
    /\ request_done \in Seq(RequestIds)
    /\ subscriptions \in SUBSET SubscriptionIds
    /\ cancelled \in SUBSET SubscriptionIds
    /\ kind \in [SubscriptionIds -> Kinds \cup {NoKind}]
    /\ subscription_tasks \in Nat
    /\ next_subscription_id \in Nat \ {0}
    /\ subscription_task \in [SubscriptionIds -> SubscriptionPlaces]
    /\ subscription_done \in Seq(SubscriptionIds)
    /\ terminals \in SUBSET SubscriptionIds
    /\ session \in [SubscriptionIds -> {"none", "open", "closed"}]
    /\ wire \in [SubscriptionIds -> {"unknown", "accepted", "ended", "confused"}]

In(x, queue) == \E i \in DOMAIN queue : queue[i] = x

(* A slot of MAX_CLIENT_REQUESTS or MAX_CLIENT_SUBSCRIPTIONS is held only   *)
(* while something will give it back: the loop is still accepting it, its   *)
(* task is alive, or its completion waits in the channel.  Otherwise a long *)
(* lived client would run out of slots with nothing running.  And           *)
(* subscription_tasks is the cost of exactly the registered subscriptions   *)
(* through unsubscriptions that race with the end of the task, and the      *)
(* limits checked on Subscribe hold.                                        *)
SlotsExact ==
    /\ loop.at \in Serving =>
         /\ \A r \in RequestIds :
              (requests[r] # "none") <=> (request_task[r] # "none" \/ In(r, request_done))
         /\ \A s \in subscriptions :
              \/ loop = At("subscribed", s)
              \/ subscription_task[s] \notin {"none", "gone"}
              \/ In(s, subscription_done)
    /\ subscription_tasks =
         MapThenSumSet(LAMBDA s : Cost[kind[s]], subscriptions)
    /\ subscription_tasks <= MaxClientStreamTasks
    /\ Cardinality(subscriptions) <= MaxClientSubscriptions

(* The client learns of a subscription before its first event, and hears    *)
(* nothing of it after SubscriptionEnded.                                   *)
EventsInOrder == \A s \in SubscriptionIds : wire[s] # "confused"

(* A terminal registered, or an exec session open, belongs to a task that   *)
(* has not come to its closing step: an Unsubscribe, a close request or a   *)
(* disconnection that arrives while connect is on its way leaks neither.    *)
TerminalsOwned ==
    \A s \in SubscriptionIds :
        s \in terminals \/ session[s] = "open" => subscription_task[s] \in Working

(* Once the connection is being torn down, serve_client returns, every task *)
(* it spawned ends and every exec session is closed, even when the client   *)
(* never reads another byte.                                                *)
ConnectionDrains ==
    loop.at = "cancel" ~>
        /\ loop.at = "closed"
        /\ AllGone
        /\ \A s \in SubscriptionIds : session[s] # "open"

(* An async transport hands decode_payload a prefix and exactly its body:   *)
(* the reader never loses its place in the byte stream.                     *)
FramingKept == loop.at \in Serving => reader # "astray"
=============================================================================
