------------------------------ MODULE IpcClient ------------------------------
(***************************************************************************)
(* The Unix-socket client of tuxstack-client/src/lib.rs.                   *)
(*                                                                         *)
(* Callers make requests, subscribe, unsubscribe and drop what they hold   *)
(* at any point.  Every connection ("generation") has a reader and a       *)
(* writer task; either may find its transport broken.  establish dials and *)
(* replaces the connection.  Each mutex the code takes (connection and     *)
(* dispatch) is one step, so the steps of terminate_current interleave     *)
(* with everything else.                                                   *)
(*                                                                         *)
(* The daemon at the other end is reduced to what IpcServer lets a client  *)
(* see: one answer per request, then events, then SubscriptionEnded.       *)
(***************************************************************************)
EXTENDS Integers, Sequences, FiniteSets, Functions, SequencesExt

CONSTANTS
    Callers, NoCaller,
    MaxGeneration,          \* bound on the connections made
    MaxRequestId,           \* bound on the requests made
    MaxSubscriptionId,      \* bound on the subscriptions of a connection
    MaxEvents,              \* bound on the events of a subscription
    SubscriptionQueue,      \* SUBSCRIPTION_QUEUE_CAPACITY
    EarlyEventLimit,        \* EARLY_EVENT_LIMIT
    EarlySubscriptionLimit  \* EARLY_SUBSCRIPTION_LIMIT

ASSUME ClientAssumption ==
    /\ NoCaller \notin Callers
    /\ {MaxGeneration, MaxRequestId, MaxSubscriptionId, MaxEvents, SubscriptionQueue,
        EarlyEventLimit, EarlySubscriptionLimit} \subseteq Nat \ {0}

Generations == 1..MaxGeneration
RequestIds == 1..MaxRequestId
SubscriptionIds == 1..MaxSubscriptionId

VARIABLES
    connection,             \* generation of the current connection, 0 for none
    next_generation,
    next_request_id,
    state,                  \* the ReconnectState last published
    pending,                \* request ids with a oneshot sender in dispatch
    answers,                \* what was sent into each oneshot
    subscriptions,          \* whose sender is registered for each id
    early_events,           \* events of ids nobody registered yet
    call,                   \* what each caller is in the middle of
    handle,                 \* the Subscription each caller holds
    queue,                  \* its receiver's queue
    establishing,           \* where establish stands
    task,                   \* reader and writer task of each generation
    up,                     \* whether each generation's socket is connected
    wire,                   \* frames on their way to the client
    asked,                  \* the daemon's unanswered requests
    granted, emitted, live  \* the daemon's subscriptions

dispatchVars == <<pending, answers, subscriptions, early_events>>
callVars == <<call, handle, queue, next_request_id>>
linkVars == <<connection, next_generation, state, establishing, task>>
daemonVars == <<up, wire, asked, granted, emitted, live>>
vars == <<dispatchVars, callVars, linkVars, daemonVars>>

-----------------------------------------------------------------------------

Nothing == [body |-> "none", sub |-> 0]
Failure == [body |-> "failure", sub |-> 0]
Response == [body |-> "response", sub |-> 0]
Accepted(s) == [body |-> "subscribed", sub |-> s]

ResponseFrame(r) == [body |-> "response", id |-> r, sub |-> 0]
SubscribedFrame(r, s) == [body |-> "subscribed", id |-> r, sub |-> s]
EventFrame(s, n) == [body |-> "event", id |-> n, sub |-> s]

Idle == [at |-> "idle", op |-> "request", id |-> 0, gen |-> 0, sub |-> 0, backlog |-> <<>>]
NoHandle == [gen |-> 0, sub |-> 0]

Tasks == {"reader", "writer"} \X Generations

Init ==
    /\ connection = 0
    /\ next_generation = 1
    /\ next_request_id = 1
    /\ state = "Disconnected"
    /\ pending = {}
    /\ answers = [r \in RequestIds |-> Nothing]
    /\ subscriptions = [s \in SubscriptionIds |-> NoCaller]
    /\ early_events = <<>>
    /\ call = [c \in Callers |-> Idle]
    /\ handle = [c \in Callers |-> NoHandle]
    /\ queue = [c \in Callers |-> <<>>]
    /\ establishing = "idle"
    /\ task = [t \in Tasks |-> "none"]
    /\ up = [g \in Generations |-> FALSE]
    /\ wire = [g \in Generations |-> <<>>]
    /\ asked = [g \in Generations |-> {}]
    /\ granted = [g \in Generations |-> 0]
    /\ emitted = [g \in Generations |-> [s \in SubscriptionIds |-> 0]]
    /\ live = [g \in Generations |-> {}]

-----------------------------------------------------------------------------
(* terminate_current, in its two locked steps.                             *)

TakeConnection == connection' = 0

DrainDispatch ==
    /\ answers' = [r \in RequestIds |-> IF r \in pending THEN Failure ELSE answers[r]]
    /\ pending' = {}
    /\ subscriptions' = [s \in SubscriptionIds |-> NoCaller]
    /\ early_events' = <<>>
    /\ state' = "Disconnected"

(* A reader or writer task met an error: terminate_generation looks whether *)
(* its connection is the current one and only afterwards terminates it.     *)
(* The reader first delivers what the socket still holds; the writer meets  *)
(* the error with the next frame (request, CancelRequest or Unsubscribe).   *)
TaskFails(t) ==
    /\ task[t] = "running"
    /\ ~up[t[2]]
    /\ t[1] = "reader" => wire[t[2]] = <<>>
    /\ task' = [task EXCEPT ![t] = IF connection = t[2] THEN "take" ELSE "gone"]
    /\ UNCHANGED <<connection, next_generation, state, establishing, dispatchVars,
                   callVars, daemonVars>>

TaskTakes(t) ==
    /\ task[t] = "take"
    /\ TakeConnection
    /\ task' = [task EXCEPT ![t] = "drain"]
    /\ UNCHANGED <<next_generation, state, establishing, dispatchVars, callVars, daemonVars>>

TaskDrains(t) ==
    /\ task[t] = "drain"
    /\ DrainDispatch
    /\ task' = [task EXCEPT ![t] = "gone"]
    /\ UNCHANGED <<connection, next_generation, establishing, callVars, daemonVars>>

(* The writer's channel is closed once the connection record and every      *)
(* clone a caller took of it are dropped.                                   *)
WriterIdle(g) ==
    /\ task[<<"writer", g>>] = "running"
    /\ connection # g
    /\ \A c \in Callers : ~(call[c].at = "sending" /\ call[c].gen = g)
    /\ task' = [task EXCEPT ![<<"writer", g>>] = "gone"]
    /\ UNCHANGED <<connection, next_generation, state, establishing, dispatchVars,
                   callVars, daemonVars>>

-----------------------------------------------------------------------------
(* establish, under reconnect_lock.  reconnect is called after a transport *)
(* failure, as its documentation says.                                     *)

Dial ==
    /\ establishing = "idle"
    /\ connection = 0
    /\ next_generation \in Generations
    /\ establishing' = "dial"
    /\ state' = "Connecting"
    /\ UNCHANGED <<connection, next_generation, task, dispatchVars, callVars, daemonVars>>

(* Socket validation, connect or handshake failed or timed out.             *)
DialFails ==
    /\ establishing = "dial"
    /\ establishing' = "idle"
    /\ state' = "Failed"
    /\ UNCHANGED <<connection, next_generation, task, dispatchVars, callVars, daemonVars>>

(* replace_connection: terminate whatever is current, then install.         *)
ReplaceTakes ==
    /\ establishing = "dial"
    /\ TakeConnection
    /\ establishing' = "drain"
    /\ UNCHANGED <<next_generation, state, task, dispatchVars, callVars, daemonVars>>

ReplaceDrains ==
    /\ establishing = "drain"
    /\ DrainDispatch
    /\ establishing' = "install"
    /\ UNCHANGED <<connection, next_generation, task, callVars, daemonVars>>

ReplaceInstalls ==
    LET g == next_generation IN
    /\ establishing = "install"
    /\ establishing' = "report"
    /\ next_generation' = g + 1
    /\ connection' = g
    /\ task' = [task EXCEPT ![<<"reader", g>>] = "running", ![<<"writer", g>>] = "running"]
    /\ up' = [up EXCEPT ![g] = TRUE]
    /\ UNCHANGED <<state, dispatchVars, callVars, wire, asked, granted, emitted, live>>

ReportConnected ==
    /\ establishing = "report"
    /\ establishing' = "idle"
    /\ state' = "Connected"
    /\ UNCHANGED <<connection, next_generation, task, dispatchVars, callVars, daemonVars>>

-----------------------------------------------------------------------------
(* round_trip and its callers.                                             *)

CallAt(c, from) == call[c].at = from

(* A call ends: the PendingGuard or the code itself removes its oneshot.    *)
Withdraw(c) ==
    /\ pending' = pending \ {call[c].id}
    /\ answers' = [answers EXCEPT ![call[c].id] = Nothing]

(* Mutant: the id of a finished request is given to the next one.           *)
RegisterRecycled(c, op, s) ==
    LET r == Min(RequestIds \ {call[d].id : d \in Callers}) IN
    /\ CallAt(c, "idle")
    /\ next_request_id \in RequestIds
    /\ next_request_id' = next_request_id + 1
    /\ pending' = pending \cup {r}
    /\ call' = [call EXCEPT ![c] = [Idle EXCEPT !.at = "registered", !.op = op,
                                                !.id = r, !.sub = s]]

(* The id is taken and the oneshot sender stored before a writer is looked  *)
(* for, so that a connection that dies in between fails the request.        *)
RegisterPending(c, op, s) ==
    /\ CallAt(c, "idle")
    /\ next_request_id \in RequestIds
    /\ next_request_id' = next_request_id + 1
    /\ pending' = pending \cup {next_request_id}
    /\ call' = [call EXCEPT ![c] = [Idle EXCEPT !.at = "registered", !.op = op,
                                                !.id = next_request_id, !.sub = s]]

Request(c) ==
    /\ RegisterPending(c, "request", 0)
    /\ UNCHANGED <<handle, queue, answers, subscriptions, early_events, linkVars, daemonVars>>

Subscribe(c) ==
    /\ handle[c] = NoHandle
    /\ RegisterPending(c, "subscribe", 0)
    /\ UNCHANGED <<handle, queue, answers, subscriptions, early_events, linkVars, daemonVars>>

(* Subscription::unsubscribe deregisters its id, then makes a round trip.   *)
Unsubscribe(c) ==
    LET s == handle[c].sub IN
    /\ handle[c] # NoHandle
    /\ RegisterPending(c, "unsubscribe", s)
    /\ subscriptions' = [subscriptions EXCEPT ![s] = NoCaller]
    /\ handle' = [handle EXCEPT ![c] = NoHandle]
    /\ queue' = [queue EXCEPT ![c] = <<>>]
    /\ UNCHANGED <<answers, early_events, linkVars, daemonVars>>

(* Without a connection the PendingGuard withdraws the request.             *)
GetWriter(c) ==
    /\ CallAt(c, "registered")
    /\ IF connection = 0
       THEN /\ call' = [call EXCEPT ![c] = Idle]
            /\ Withdraw(c)
       ELSE /\ call' = [call EXCEPT ![c].at = "sending", ![c].gen = connection]
            /\ UNCHANGED <<pending, answers>>
    /\ UNCHANGED <<handle, queue, next_request_id, subscriptions, early_events,
                   linkVars, daemonVars>>

(* Mutant: the oneshot is stored only once the frame is queued.             *)
SendThenRegister(c) ==
    LET g == call[c].gen
        message == [id |-> call[c].id, op |-> call[c].op, sub |-> call[c].sub] IN
    /\ CallAt(c, "sending")
    /\ task[<<"writer", g>>] = "running"
    /\ call' = [call EXCEPT ![c].at = "waiting"]
    /\ asked' = IF up[g] THEN [asked EXCEPT ![g] = @ \cup {message}] ELSE asked
    /\ pending' = pending \cup {call[c].id}
    /\ answers' = [answers EXCEPT ![call[c].id] = Nothing]
    /\ UNCHANGED <<handle, queue, next_request_id, subscriptions, early_events,
                   linkVars, up, wire, granted, emitted, live>>

(* writer.send, and the daemon reading the frame.  A frame the socket no    *)
(* longer carries is lost; a writer task that returned refuses it.          *)
Send(c) ==
    LET g == call[c].gen
        message == [id |-> call[c].id, op |-> call[c].op, sub |-> call[c].sub] IN
    /\ CallAt(c, "sending")
    /\ IF task[<<"writer", g>>] = "running"
       THEN /\ call' = [call EXCEPT ![c].at = "waiting"]
            /\ asked' = IF up[g] THEN [asked EXCEPT ![g] = @ \cup {message}] ELSE asked
            /\ UNCHANGED <<pending, answers>>
       ELSE /\ call' = [call EXCEPT ![c] = Idle]
            /\ Withdraw(c)
            /\ UNCHANGED asked
    /\ UNCHANGED <<handle, queue, next_request_id, subscriptions, early_events,
                   linkVars, up, wire, granted, emitted, live>>

(* The oneshot resolved.                                                    *)
Answered(c) ==
    LET answer == answers[call[c].id] IN
    /\ CallAt(c, "waiting")
    /\ answer # Nothing
    /\ Withdraw(c)
    /\ call' = [call EXCEPT ![c] =
                  IF @.op = "subscribe" /\ answer.body = "subscribed"
                  THEN [@ EXCEPT !.at = "enroll", !.sub = answer.sub]
                  ELSE Idle]
    /\ UNCHANGED <<handle, queue, next_request_id, subscriptions, early_events,
                   linkVars, daemonVars>>

(* Mutant: a call that gives up leaves its oneshot behind.                  *)
GivesUpQuietly(c) ==
    /\ call[c].at \in {"registered", "sending", "waiting"}
    /\ call' = [call EXCEPT ![c] = Idle]
    /\ UNCHANGED <<pending, handle, queue, next_request_id, answers, subscriptions,
                   early_events, linkVars, daemonVars>>

(* The request timed out, or its future was dropped.  CancelRequest follows *)
(* on the current connection; the daemon answers it like any request.       *)
GivesUp(c) ==
    /\ call[c].at \in {"registered", "sending", "waiting"}
    /\ call' = [call EXCEPT ![c] = Idle]
    /\ Withdraw(c)
    /\ UNCHANGED <<handle, queue, next_request_id, subscriptions, early_events,
                   linkVars, daemonVars>>

(* subscribe registers the sender and takes the early events under the      *)
(* dispatch lock, and queues them after it.                                 *)
Early(s) == IF s \in DOMAIN early_events THEN early_events[s] ELSE <<>>

Enrolls(c) ==
    LET s == call[c].sub IN
    /\ CallAt(c, "enroll")
    /\ subscriptions' = [subscriptions EXCEPT ![s] = c]
    /\ early_events' = Restrict(early_events, DOMAIN early_events \ {s})
    /\ call' = [call EXCEPT ![c].at = "backlog", ![c].backlog = Early(s)]
    /\ queue' = [queue EXCEPT ![c] = <<>>]
    /\ UNCHANGED <<handle, next_request_id, pending, answers, linkVars, daemonVars>>

QueuesBacklog(c) ==
    /\ CallAt(c, "backlog")
    /\ \/ /\ call[c].backlog # <<>>
          /\ Len(queue[c]) < SubscriptionQueue
          /\ queue' = [queue EXCEPT ![c] = Append(@, Head(call[c].backlog))]
          /\ call' = [call EXCEPT ![c].backlog = Tail(@)]
          /\ UNCHANGED handle
       \/ /\ call[c].backlog = <<>>
          /\ handle' = [handle EXCEPT ![c] = [gen |-> call[c].gen, sub |-> call[c].sub]]
          /\ call' = [call EXCEPT ![c] = Idle]
          /\ UNCHANGED queue
    /\ UNCHANGED <<next_request_id, dispatchVars, linkVars, daemonVars>>

Receives(c) ==
    /\ handle[c] # NoHandle
    /\ queue[c] # <<>>
    /\ queue' = [queue EXCEPT ![c] = Tail(@)]
    /\ UNCHANGED <<call, handle, next_request_id, dispatchVars, linkVars, daemonVars>>

(* Drop for Subscription: Unsubscribe without waiting, on whatever          *)
(* connection is current.                                                   *)
Drops(c) ==
    LET s == handle[c].sub IN
    /\ handle[c] # NoHandle
    /\ CallAt(c, "idle")
    /\ next_request_id \in RequestIds
    /\ next_request_id' = next_request_id + 1
    /\ handle' = [handle EXCEPT ![c] = NoHandle]
    /\ queue' = [queue EXCEPT ![c] = <<>>]
    /\ subscriptions' = [subscriptions EXCEPT ![s] = NoCaller]
    /\ asked' = IF connection # 0 /\ up[connection]
                THEN [asked EXCEPT ![connection] = @ \cup
                        {[id |-> next_request_id, op |-> "unsubscribe", sub |-> s]}]
                ELSE asked
    /\ UNCHANGED <<call, pending, answers, early_events, linkVars, up, wire, granted,
                   emitted, live>>

-----------------------------------------------------------------------------
(* reader_task.                                                            *)

(* dispatch_pending                                                         *)
Resolve(r, body) ==
    IF r \in pending
    THEN /\ pending' = pending \ {r}
         /\ answers' = [answers EXCEPT ![r] = body]
    ELSE UNCHANGED <<pending, answers>>

(* Mutant: events nobody registered for are kept without a limit.           *)
dispatch_event_unbounded(s, event) ==
    IF subscriptions[s] # NoCaller
    THEN LET c == subscriptions[s] IN
         /\ queue' = IF Len(queue[c]) < SubscriptionQueue
                     THEN [queue EXCEPT ![c] = Append(@, event)] ELSE queue
         /\ UNCHANGED early_events
    ELSE /\ UNCHANGED queue
         /\ early_events' = [x \in DOMAIN early_events \cup {s} |->
                IF x = s THEN Append(Early(s), event) ELSE Early(x)]

dispatch_event(s, event) ==
    IF subscriptions[s] # NoCaller
    THEN LET c == subscriptions[s] IN
         /\ queue' = IF Len(queue[c]) < SubscriptionQueue
                     THEN [queue EXCEPT ![c] = Append(@, event)] ELSE queue
         /\ UNCHANGED early_events
    ELSE /\ UNCHANGED queue
         /\ IF \/ s \in DOMAIN early_events
               \/ Cardinality(DOMAIN early_events) < EarlySubscriptionLimit
            THEN early_events' = [x \in DOMAIN early_events \cup {s} |->
                   IF x = s /\ Len(Early(s)) < EarlyEventLimit
                   THEN Append(Early(s), event) ELSE Early(x)]
            ELSE UNCHANGED early_events

Reads(g) ==
    LET frame == Head(wire[g]) IN
    /\ task[<<"reader", g>>] = "running"
    /\ wire[g] # <<>>
    /\ wire' = [wire EXCEPT ![g] = Tail(@)]
    /\ IF frame.body = "event"
       THEN /\ dispatch_event(frame.sub, frame.id)
            /\ UNCHANGED <<pending, answers>>
       ELSE /\ Resolve(frame.id, [body |-> frame.body, sub |-> frame.sub])
            /\ UNCHANGED <<queue, early_events>>
    /\ UNCHANGED <<subscriptions, call, handle, next_request_id, linkVars, up, asked,
                   granted, emitted, live>>

-----------------------------------------------------------------------------
(* The daemon, as far as a client can see it.                              *)

Writes(g, frame) == wire' = [wire EXCEPT ![g] = Append(@, frame)]

(* An answer to a request; Subscribed for a subscription; an Unsubscribe    *)
(* cancels its subscription, whose SubscriptionEnded follows later.         *)
DaemonAnswers(g, message) ==
    /\ up[g]
    /\ message \in asked[g]
    /\ asked' = [asked EXCEPT ![g] = @ \ {message}]
    /\ IF message.op = "subscribe" /\ granted[g] < MaxSubscriptionId
       THEN /\ Writes(g, SubscribedFrame(message.id, granted[g] + 1))
            /\ granted' = [granted EXCEPT ![g] = @ + 1]
            /\ live' = [live EXCEPT ![g] = @ \cup {granted[g] + 1}]
       ELSE /\ Writes(g, ResponseFrame(message.id))
            /\ UNCHANGED <<granted, live>>
    /\ UNCHANGED <<up, emitted, dispatchVars, callVars, linkVars>>

(* An event; the last one is SubscriptionEnded.                             *)
DaemonEmits(g, s, last) ==
    /\ up[g]
    /\ s \in live[g]
    /\ emitted[g][s] < MaxEvents
    /\ emitted' = [emitted EXCEPT ![g][s] = @ + 1]
    /\ Writes(g, EventFrame(s, emitted[g][s] + 1))
    /\ live' = IF last THEN [live EXCEPT ![g] = @ \ {s}] ELSE live
    /\ UNCHANGED <<up, asked, granted, dispatchVars, callVars, linkVars>>

SocketBreaks(g) ==
    /\ up[g]
    /\ up' = [up EXCEPT ![g] = FALSE]
    /\ asked' = [asked EXCEPT ![g] = {}]
    /\ live' = [live EXCEPT ![g] = {}]
    /\ granted' = [granted EXCEPT ![g] = 0]
    /\ emitted' = [emitted EXCEPT ![g] = [s \in SubscriptionIds |-> 0]]
    /\ UNCHANGED <<wire, dispatchVars, callVars, linkVars>>

-----------------------------------------------------------------------------

EstablishStep ==
    \/ Dial \/ DialFails
    \/ ReplaceTakes \/ ReplaceDrains \/ ReplaceInstalls
    \/ ReportConnected

TaskStep(t) == TaskFails(t) \/ TaskTakes(t) \/ TaskDrains(t)

CallStep(c) ==
    \/ Request(c) \/ Subscribe(c) \/ Unsubscribe(c)
    \/ GetWriter(c) \/ Send(c) \/ Answered(c) \/ GivesUp(c)
    \/ Enrolls(c) \/ QueuesBacklog(c) \/ Receives(c) \/ Drops(c)

DaemonStep(g) ==
    \/ \E message \in asked[g] : DaemonAnswers(g, message)
    \/ \E s \in SubscriptionIds, last \in BOOLEAN : DaemonEmits(g, s, last)
    \/ SocketBreaks(g)

Next ==
    \/ EstablishStep
    \/ \E t \in Tasks : TaskStep(t)
    \/ \E c \in Callers : CallStep(c)
    \/ \E g \in Generations : WriterIdle(g) \/ Reads(g) \/ DaemonStep(g)

Spec == Init /\ [][Next]_vars

-----------------------------------------------------------------------------
(* Properties.                                                             *)

Answers == [body : {"none", "failure", "response", "subscribed"},
            sub : SubscriptionIds \cup {0}]
Places == {"idle", "registered", "sending", "waiting", "enroll", "backlog"}

(* Every variable of the client has the shape its Rust type gives it.       *)
TypeOK ==
    /\ connection \in Generations \cup {0}
    /\ next_generation \in 1..MaxGeneration + 1
    /\ next_request_id \in 1..MaxRequestId + 1
    /\ state \in {"Disconnected", "Connecting", "Connected", "Failed"}
    /\ pending \subseteq RequestIds
    /\ answers \in [RequestIds -> Answers]
    /\ subscriptions \in [SubscriptionIds -> Callers \cup {NoCaller}]
    /\ DOMAIN early_events \subseteq SubscriptionIds
    /\ Cardinality(DOMAIN early_events) <= EarlySubscriptionLimit
    /\ \A s \in DOMAIN early_events : Len(early_events[s]) <= EarlyEventLimit
    /\ \A c \in Callers : /\ call[c].at \in Places
                          /\ call[c].gen \in Generations \cup {0}
                          /\ handle[c].sub \in SubscriptionIds \cup {0}
                          /\ Len(queue[c]) <= SubscriptionQueue

Draining == establishing = "drain" \/ \E t \in Tasks : task[t] = "drain"

(* A caller that waits for an answer waits on a connection that is current, *)
(* or somebody is about to fail every pending request: no request of a dead *)
(* connection is left to its timeout.  And the pending table holds requests *)
(* somebody still waits for and nothing else, through timeouts, dropped     *)
(* futures and replaced connections.                                        *)
PendingExact ==
    /\ \A c \in Callers :
         (call[c].at \in {"sending", "waiting"} /\ call[c].id \in pending)
             => connection = call[c].gen \/ Draining
    /\ \A r \in pending :
         \E c \in Callers : /\ call[c].id = r
                            /\ call[c].at \in {"registered", "sending", "waiting"}

(* An answer is the daemon's answer to this very request: a late one of an  *)
(* earlier request, or of an earlier connection, never resolves it.  A      *)
(* request still unanswered at the daemon has got nothing but a failure.    *)
AnswersMatch ==
    \A c \in Callers, g \in Generations :
        \A message \in asked[g] :
            (call[c].at \in {"sending", "waiting"} /\ message.id = call[c].id)
                => answers[message.id].body \in {"none", "failure"}

InFlight(g, s) == Len(SelectSeq(wire[g], LAMBDA f : f.body = "event" /\ f.sub = s))

(* An event that races ahead of the subscription acknowledgement is kept    *)
(* until subscribe registers: every event read so far is waiting for it.    *)
EarlyEventsKept ==
    \A c \in Callers :
        LET g == call[c].gen
            s == call[c].sub IN
        (call[c].at = "enroll" /\ connection = g /\ next_generation = 2 /\ up[g])
            => Len(Early(s)) = emitted[g][s] - InFlight(g, s)
=============================================================================
