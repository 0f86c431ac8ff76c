------------------------------ MODULE Terminal -------------------------------
(***************************************************************************)
(* An interactive container terminal, end to end: the Docker exec, the     *)
(* session of docker-core/src/services/container_terminal.rs with its      *)
(* output and input tasks, the daemon's terminal subscription (ipc.rs),    *)
(* the client's reader and queue (tuxstack-client/src/lib.rs), its service's*)
(* forwarding task (services.rs) and the command line's drive_terminal loop *)
(* (tuxstack-cli/src/main.rs).                                             *)
(*                                                                         *)
(* Output chunks are numbered as the process writes them, input chunks as  *)
(* the user types them.  An event is lost when the daemon cannot send it in *)
(* time, when the connection ends, and when it meets a full queue at the   *)
(* client; lost remembers what and where.                                  *)
(***************************************************************************)
EXTENDS Integers, Sequences, FiniteSets

CONSTANTS
    MaxFaults,          \* bound on the daemon's stop and its sends that time out
    MaxOutput,          \* bound on the chunks the process writes
    MaxInput,           \* bound on the chunks the user types
    Candidates,         \* number of shells connect tries
    ExitCode,           \* what the process exits with
    OutputCapacity,     \* OUTPUT_CHANNEL_CAPACITY
    InputCapacity,      \* INPUT_CHANNEL_CAPACITY
    EventCapacity,      \* SUBSCRIPTION_QUEUE_CAPACITY
    ScreenCapacity      \* the client service's output channel

ASSUME TerminalAssumption ==
    /\ MaxFaults \in Nat
    /\ {MaxOutput, MaxInput, Candidates, ExitCode, OutputCapacity, InputCapacity,
        EventCapacity, ScreenCapacity} \subseteq Nat \ {0}

VARIABLES
    exec,               \* the process: "running" or "exited"
    taken,              \* output chunks the output task has read
    typed,              \* input chunks the process has read, in order
    connecting,         \* where connect stands; its candidate
    state,              \* the session's state
    cancelled, closed,  \* the session's token and its closed flag
    out, in,            \* output and input task
    output_q, input_q,  \* their channels
    sub, sub_cancelled, \* the daemon's subscription task and its token
    link,               \* the connection: "up", "stopping" (the daemon), "down"
    lost,               \* events that will not arrive, and where they were lost
    events,             \* the queue of the client's Subscription
    pump, client_state, client_exit,
    screen_q,           \* the client service's output channel
    cli, shown, sent    \* drive_terminal, what it printed, how much it sent

sessionVars == <<state, cancelled, closed, out, in, output_q, input_q>>
execVars == <<exec, taken, typed>>
daemonVars == <<connecting, sub, sub_cancelled>>
linkVars == <<link, lost, events>>
clientVars == <<pump, client_state, client_exit, screen_q>>
cliVars == <<cli, shown, sent>>
vars == <<sessionVars, execVars, daemonVars, linkVars, clientVars, cliVars>>

-----------------------------------------------------------------------------

NoCode == -1

(* What travels: output chunks, states, errors and SubscriptionEnded, with  *)
(* or without an error as its reason.                                       *)
Item(kind, n) == [kind |-> kind, n |-> n]
Chunk(n) == Item("output", n)
Nothing == Item("nothing", 0)
Failed == Item("failed", 0)
Running == Item("running", 0)
Ended == Item("ended", 0)
EndedBadly == Item("ended", 1)

Init ==
    /\ exec = "running" /\ taken = 0 /\ typed = <<>>
    /\ connecting = 0
    /\ state = "Connecting"
    /\ cancelled = FALSE /\ closed = FALSE
    /\ out = [at |-> "none", chunk |-> 0] /\ in = [at |-> "none", chunk |-> 0]
    /\ output_q = <<>> /\ input_q = <<>>
    /\ sub = [at |-> "connect", item |-> Nothing] /\ sub_cancelled = FALSE
    /\ link = "up" /\ lost = {} /\ events = <<>>
    /\ pump = "connect"
    /\ client_state = "Ready" /\ client_exit = NoCode
    /\ screen_q = <<>>
    /\ cli = "connect" /\ shown = <<>> /\ sent = 0

-----------------------------------------------------------------------------
(* transition_state borrows the state and replaces it if the move from what *)
(* it saw is allowed; another task may have moved on in between, so that a  *)
(* move which is not allowed any more may still be made.                    *)

state_transition_allowed(current, next) ==
    \/ current = next
    \/ <<current, next>> \in
         {<<"Connecting", "Ready">>, <<"Connecting", "Error">>, <<"Connecting", "Exited">>,
          <<"Ready", "Exited">>, <<"Ready", "Error">>, <<"Error", "Exited">>}

transition_state(next) ==
    state' \in {next} \cup (IF state_transition_allowed(state, next) THEN {} ELSE {state})

-----------------------------------------------------------------------------
(* spawn_session_tasks: the output task.                                   *)

OutputUnchanged == UNCHANGED <<closed, in, input_q, exec, typed, daemonVars,
                               linkVars, clientVars, cliVars>>

(* A chunk the process has written.                                         *)
OutputTakes ==
    /\ out.at = "next"
    /\ ~cancelled
    /\ taken < MaxOutput
    /\ taken' = taken + 1
    /\ out' = [at |-> "send", chunk |-> taken + 1]
    /\ UNCHANGED <<state, cancelled, output_q>>
    /\ OutputUnchanged

OutputSends ==
    /\ out.at = "send"
    /\ ~cancelled
    /\ Len(output_q) < OutputCapacity
    /\ output_q' = Append(output_q, Chunk(out.chunk))
    /\ out' = [at |-> "next", chunk |-> 0]
    /\ UNCHANGED <<state, cancelled, taken>>
    /\ OutputUnchanged

(* Cancelled while waiting, or with a chunk in hand that is dropped.        *)
OutputCancelled ==
    /\ out.at \in {"next", "send"}
    /\ cancelled
    /\ transition_state("Exited")
    /\ out' = [at |-> "gone", chunk |-> 0]
    /\ UNCHANGED <<cancelled, output_q, taken>>
    /\ OutputUnchanged

(* Mutant: the task reads on after an error in the attach stream.           *)
OutputReadsOn ==
    /\ out.at = "next"
    /\ ~cancelled
    /\ taken < MaxOutput
    /\ taken' = taken + 1
    /\ UNCHANGED <<out, state, cancelled, output_q>>
    /\ OutputUnchanged

(* The attach stream broke, or it ended and inspect_exec failed, timed out  *)
(* or reports a process that still runs.                                    *)
OutputBreaks ==
    /\ out.at = "next"
    /\ ~cancelled
    /\ transition_state("Error")
    /\ out' = [at |-> "report", chunk |-> 0]
    /\ UNCHANGED <<cancelled, output_q, taken>>
    /\ OutputUnchanged

(* The process has exited and its stream ended, and inspect_exec says so.   *)
OutputEnds ==
    /\ out.at = "next"
    /\ ~cancelled
    /\ exec' = "exited"
    /\ transition_state("Exited")
    /\ out' = [at |-> "quiet", chunk |-> 0]
    /\ UNCHANGED <<cancelled, closed, in, output_q, input_q, taken, typed, daemonVars, linkVars,
                   clientVars, cliVars>>

(* Mutant: the error is queued beyond the channel's capacity.               *)
SendAnyway(q, item) == Append(q, item)

(* try_send of the error, if any; the session's token is cancelled last.    *)
TrySend(q, item) == IF Len(q) < OutputCapacity THEN Append(q, item) ELSE q

(* Mutant: the output task ends without cancelling the session.             *)
OutputLeavesQuietly ==
    /\ out.at \in {"quiet", "report"}
    /\ output_q' = IF out.at = "report" THEN TrySend(output_q, Failed) ELSE output_q
    /\ out' = [at |-> "gone", chunk |-> 0]
    /\ UNCHANGED <<state, taken, cancelled>>
    /\ OutputUnchanged

OutputLeaves ==
    /\ out.at \in {"quiet", "report"}
    /\ output_q' = IF out.at = "report" THEN TrySend(output_q, Failed) ELSE output_q
    /\ cancelled' = TRUE
    /\ out' = [at |-> "gone", chunk |-> 0]
    /\ UNCHANGED <<state, taken>>
    /\ OutputUnchanged

-----------------------------------------------------------------------------
(* The input task.                                                         *)

InputUnchanged == UNCHANGED <<closed, out, exec, taken, daemonVars,
                              linkVars, clientVars, cliVars>>

InputReceives ==
    /\ in.at = "recv"
    /\ ~cancelled
    /\ input_q # <<>>
    /\ input_q' = Tail(input_q)
    /\ in' = [at |-> "write", chunk |-> Head(input_q)]
    /\ UNCHANGED <<state, cancelled, output_q, typed>>
    /\ InputUnchanged

InputWrites ==
    /\ in.at = "write"
    /\ ~cancelled
    /\ exec = "running"
    /\ typed' = Append(typed, in.chunk)
    /\ in' = [at |-> "recv", chunk |-> 0]
    /\ UNCHANGED <<state, cancelled, input_q, output_q>>
    /\ InputUnchanged

InputFails ==
    /\ in.at = "write"
    /\ ~cancelled
    /\ transition_state("Error")
    /\ in' = [at |-> "report", chunk |-> 0]
    /\ UNCHANGED <<cancelled, input_q, output_q, typed>>
    /\ InputUnchanged

InputLeaves ==
    /\ \/ /\ in.at = "report"
          /\ output_q' = TrySend(output_q, Failed)
          /\ cancelled' = TRUE
       \/ /\ in.at \in {"recv", "write"}
          /\ cancelled
          /\ UNCHANGED <<output_q, cancelled>>
    /\ in' = [at |-> "gone", chunk |-> 0] /\ input_q' = <<>>
    /\ UNCHANGED <<state, typed>>
    /\ InputUnchanged

OutputClosed == output_q = <<>> /\ out.at = "gone" /\ in.at = "gone"

-----------------------------------------------------------------------------
(* ContainerTerminalService::connect, called by the subscription task.  A  *)
(* candidate whose create, start or probe fails is skipped; a fatal error, *)
(* a cancellation or a failed resize ends the attempt.                     *)

ConnectUnchanged == UNCHANGED <<execVars, linkVars, clientVars, cliVars, sub_cancelled, closed,
                                output_q, input_q>>

ConnectSkips ==
    /\ sub.at = "connect"
    /\ connecting < Candidates
    /\ connecting' = connecting + 1
    /\ UNCHANGED <<state, cancelled, out, in, sub>>
    /\ ConnectUnchanged

ConnectFails ==
    /\ sub.at = "connect"
    /\ connecting <= Candidates
    /\ transition_state("Error")
    /\ sub' = [at |-> "send", item |-> Failed]
    /\ UNCHANGED <<connecting, cancelled, out, in>>
    /\ ConnectUnchanged

ConnectSpawns ==
    /\ sub.at = "connect"
    /\ connecting < Candidates
    /\ ~sub_cancelled
    /\ connecting' = Candidates + 1
    /\ out' = [at |-> "next", chunk |-> 0]
    /\ in' = [at |-> "recv", chunk |-> 0]
    /\ sub' = [at |-> "ready", item |-> Nothing]
    /\ UNCHANGED <<state, cancelled>>
    /\ ConnectUnchanged

ConnectReady ==
    /\ sub.at = "ready"
    /\ transition_state("Ready")
    /\ sub' = [at |-> "resize", item |-> Nothing]
    /\ UNCHANGED <<connecting, cancelled, out, in>>
    /\ ConnectUnchanged

-----------------------------------------------------------------------------
(* ContainerTerminalSession::close, under the registry's or the            *)
(* subscription's hand: flag, token, transition.                           *)

close ==
    /\ closed' = TRUE
    /\ cancelled' = TRUE
    /\ IF closed THEN UNCHANGED state ELSE transition_state("Exited")

(* run_terminal_subscription after connect.                                 *)
SubUnchanged == UNCHANGED <<out, in, input_q, execVars, connecting, sub_cancelled, link,
                            clientVars, cliVars>>

SubResizes ==
    /\ sub.at = "resize"
    /\ \/ /\ ~cancelled
          /\ sub' = [at |-> "send", item |-> Running]
          /\ UNCHANGED <<state, cancelled, closed>>
       \/ /\ close
          /\ sub' = [at |-> "send", item |-> Failed]
    /\ UNCHANGED <<output_q, lost, events>>
    /\ SubUnchanged

(* How the subscription ends when this was the last it had to say.          *)
Reason(item) == IF item = Failed THEN EndedBadly ELSE Ended
Farewell(item) == [at |-> "farewell", item |-> Reason(item)]

AfterSend(item) ==
    CASE item.kind \in {"running", "output"} -> [at |-> "loop", item |-> Nothing]
      [] item.kind = "ended" -> [at |-> "gone", item |-> Nothing]
      [] OTHER -> Farewell(item)

(* send_event; SubscriptionEnded is sent also when cancelled.  The outbound *)
(* queue, the socket and the client's reader are one step: they keep the    *)
(* order, and losing what they hold is a connection that ended earlier.     *)
SubSending == sub.at = "send" /\ (sub_cancelled => sub.item.kind = "ended")

(* The client's reader: an event for a full queue is dropped (try_send), as *)
(* is one whose Subscription is no more.                                    *)
dispatch_event(item) ==
    \/ /\ pump = "gone"
       /\ UNCHANGED <<events, lost>>
    \/ /\ pump # "gone" /\ Len(events) < EventCapacity
       /\ events' = Append(events, item)
       /\ UNCHANGED lost
    \/ /\ pump # "gone" /\ Len(events) = EventCapacity
       /\ lost' = lost \cup {[item |-> item, by |-> "client"]}
       /\ UNCHANGED events

SubSends ==
    /\ SubSending
    /\ link # "down"
    /\ dispatch_event(sub.item)
    /\ sub' = AfterSend(sub.item)
    /\ UNCHANGED <<state, cancelled, closed, output_q>>
    /\ SubUnchanged

Faults == Cardinality({l \in lost : l.by = "daemon"}) + (IF link = "stopping" THEN 1 ELSE 0)

(* OUTBOUND_SEND_TIMEOUT passes with a full outbound queue, or the          *)
(* connection is closed, which the client learns too.                       *)
SubSendFails ==
    /\ SubSending
    /\ link = "down" \/ Faults < MaxFaults
    /\ lost' = IF link = "down" THEN lost
               ELSE lost \cup {[item |-> sub.item, by |-> "daemon"]}
    /\ sub' = IF sub.item.kind = "ended" THEN AfterSend(sub.item) ELSE Farewell(sub.item)
    /\ UNCHANGED <<state, cancelled, closed, output_q, events>>
    /\ SubUnchanged

SubCancelled ==
    /\ sub.at \in {"send", "loop"} /\ sub.item.kind # "ended"
    /\ sub_cancelled
    /\ sub' = Farewell(sub.item)
    /\ UNCHANGED <<state, cancelled, closed, output_q, lost, events>>
    /\ SubUnchanged


SubReads ==
    /\ sub.at = "loop"
    /\ output_q # <<>>
    /\ output_q' = Tail(output_q)
    /\ sub' = [at |-> "send", item |-> Head(output_q)]
    /\ UNCHANGED <<state, cancelled, closed, lost, events>>
    /\ SubUnchanged

(* The stream is over: inspect runs under the session's token, and a        *)
(* cancelled token makes operation() fail before Docker is asked.           *)
SubInspects ==
    /\ sub.at = "loop"
    /\ OutputClosed
    /\ sub' = [at |-> "send",
               item |-> Item("exited",
                             IF ~cancelled /\ exec = "exited" THEN ExitCode ELSE NoCode)]
    /\ UNCHANGED <<state, cancelled, closed, output_q, lost, events>>
    /\ SubUnchanged

(* spawn_subscription: close the terminal, then SubscriptionEnded, which    *)
(* names the shutdown as its reason if there is one.                        *)
SubFarewell ==
    /\ sub.at = "farewell"
    /\ IF out.at = "none" THEN UNCHANGED <<state, cancelled, closed>> ELSE close
    /\ sub' = [at |-> "send", item |-> IF link = "stopping" THEN EndedBadly ELSE sub.item]
    /\ UNCHANGED <<output_q, lost, events>>
    /\ SubUnchanged

-----------------------------------------------------------------------------
(* The connection.  When serve_client is over, whoever ended it, every      *)
(* subscription is cancelled, and with it the session's token, its child.   *)

CancelSubscription == sub_cancelled' = TRUE /\ cancelled' = TRUE

LinkUnchanged == UNCHANGED <<state, closed, out, in, output_q, input_q, execVars, connecting,
                             sub, clientVars, cliVars>>

DaemonStops ==
    /\ link = "up" /\ Faults < MaxFaults
    /\ link' = "stopping"
    /\ CancelSubscription
    /\ UNCHANGED <<lost, events>>
    /\ LinkUnchanged

(* The client's terminate_current drops the Subscription's sender: what is  *)
(* queued can still be received.                                            *)
Disconnects ==
    /\ link # "down"
    /\ link' = "down"
    /\ CancelSubscription
    /\ UNCHANGED <<lost, events>>
    /\ LinkUnchanged

-----------------------------------------------------------------------------
(* The client service: connect's wait for Running, then its forwarding     *)
(* task.  A task that ends drops its Subscription, which sends Unsubscribe. *)

PumpUnchanged == UNCHANGED <<state, closed, out, in, output_q, input_q, execVars, connecting,
                             sub, link, lost, shown, sent>>

Receives == events # <<>> /\ events' = Tail(events) /\ UNCHANGED <<cancelled, sub_cancelled>>
Leaves == pump' = "gone" /\ events' = <<>> /\ CancelSubscription

PumpConnects ==
    /\ pump = "connect"
    /\ \/ /\ Receives
          /\ Head(events) = Running
          /\ pump' = "recv"
          /\ cli' = "drive"
       \/ /\ IF events = <<>> THEN link = "down" ELSE Head(events) # Running
          /\ Leaves
          /\ cli' = "done"
    /\ UNCHANGED <<client_state, client_exit, screen_q>>
    /\ PumpUnchanged

(* The output stream is drive_terminal's; a send fails once that is over.   *)
ScreenOpen == cli \in {"drive", "typing"}

Shows(item) ==
    IF ScreenOpen THEN Len(screen_q) < ScreenCapacity /\ screen_q' = Append(screen_q, item)
    ELSE UNCHANGED screen_q

PumpForwards ==
    LET item == Head(events) IN
    /\ pump = "recv" /\ events # <<>>
    /\ CASE item.kind = "output" ->
              /\ Shows(item)
              /\ IF ScreenOpen THEN Receives /\ UNCHANGED pump ELSE Leaves
              /\ UNCHANGED <<client_state, client_exit>>
         [] item = Failed ->
              /\ Shows(Failed) /\ Receives
              /\ client_state' = "Error"
              /\ UNCHANGED <<pump, client_exit>>
         [] item = EndedBadly ->
              /\ Shows(Failed) /\ Leaves
              /\ client_state' = "Error"
              /\ UNCHANGED client_exit
         [] item = Ended ->
              /\ Leaves
              /\ UNCHANGED <<screen_q, client_state, client_exit>>
         [] OTHER ->
              /\ Receives
              /\ client_state' = "Exited" /\ client_exit' = item.n
              /\ UNCHANGED <<pump, screen_q>>
    /\ UNCHANGED cli
    /\ PumpUnchanged

(* The Subscription has no sender any more and its queue is empty.          *)
PumpHearsNothing ==
    /\ pump = "recv" /\ events = <<>> /\ link = "down"
    /\ Shows(Failed) /\ Leaves
    /\ client_state' = "Error"
    /\ UNCHANGED <<client_exit, cli>>
    /\ PumpUnchanged

(* close() cancelled the task's token.                                      *)
PumpCancelled ==
    /\ pump = "recv" /\ cli = "done"
    /\ Leaves
    /\ UNCHANGED <<client_state, client_exit, screen_q, cli>>
    /\ PumpUnchanged

-----------------------------------------------------------------------------
(* drive_terminal and the close that follows it.                           *)

CliUnchanged == UNCHANGED <<execVars, output_q, out, in, daemonVars, linkVars, pump,
                            client_exit>>

(* drive_terminal returns and drops its end of the output channel.          *)
CliLeaves == cli' = "close" /\ screen_q' = <<>>

CliShows ==
    /\ cli = "drive"
    /\ screen_q # <<>>
    /\ IF Head(screen_q) = Failed
       THEN CliLeaves /\ UNCHANGED shown
       ELSE /\ shown' = Append(shown, Head(screen_q).n)
            /\ screen_q' = Tail(screen_q)
            /\ UNCHANGED cli
    /\ UNCHANGED <<state, cancelled, closed, input_q, client_state, sent>>
    /\ CliUnchanged

(* The stream is over: the last status, or 1 when it has no exit code.      *)
CliFinishes ==
    /\ cli = "drive"
    /\ screen_q = <<>> /\ pump = "gone"
    /\ CliLeaves
    /\ UNCHANGED <<state, cancelled, closed, input_q, client_state, shown, sent>>
    /\ CliUnchanged

(* Standard input ended.                                                    *)
CliQuits ==
    /\ cli = "drive"
    /\ CliLeaves
    /\ UNCHANGED <<state, cancelled, closed, input_q, client_state, shown, sent>>
    /\ CliUnchanged

(* A ContainerTerminalInput request: write_input's checks at the daemon,    *)
(* then the bounded channel; a refusal ends drive_terminal.                 *)
CliTypes ==
    /\ cli = "drive"
    /\ sent < MaxInput
    /\ cli' = "typing"
    /\ sent' = sent + 1
    /\ UNCHANGED <<state, cancelled, closed, input_q, client_state, shown,
                   screen_q>>
    /\ CliUnchanged

WriteInput ==
    /\ cli = "typing"
    /\ \/ /\ link # "down" /\ ~closed /\ ~cancelled /\ state = "Ready"
          /\ Len(input_q) < InputCapacity
          /\ input_q' = Append(input_q, sent)
          /\ cli' = "drive"
          /\ UNCHANGED screen_q
       \/ /\ link = "down" \/ closed \/ cancelled \/ state # "Ready" \/ Len(input_q) = InputCapacity
          /\ CliLeaves
          /\ UNCHANGED input_q
    /\ UNCHANGED <<state, cancelled, closed, client_state, shown, sent>>
    /\ CliUnchanged

(* ContainerTerminalSession::close of the client service: cancel its task,  *)
(* ask the daemon, if it can be reached, to close the session.              *)
CliCloses ==
    /\ cli = "close"
    /\ IF link = "down" THEN UNCHANGED <<state, cancelled, closed>> ELSE close
    /\ cli' = "done"
    /\ client_state' = "Exited"
    /\ UNCHANGED <<input_q, shown, sent, screen_q>>
    /\ CliUnchanged

-----------------------------------------------------------------------------

SessionStep ==
    \/ OutputSends \/ OutputCancelled \/ OutputLeaves
    \/ InputReceives \/ InputWrites \/ InputLeaves

DaemonStep ==
    \/ ConnectSkips \/ ConnectFails \/ ConnectSpawns \/ ConnectReady
    \/ SubResizes \/ SubSends \/ SubSendFails \/ SubCancelled \/ SubReads \/ SubInspects \/ SubFarewell

ClientStep ==
    \/ PumpConnects \/ PumpForwards \/ PumpHearsNothing \/ PumpCancelled
    \/ CliShows \/ CliFinishes \/ WriteInput \/ CliCloses

Environment ==
    \/ OutputTakes \/ OutputEnds \/ OutputBreaks \/ InputFails \/ CliQuits \/ CliTypes
    \/ DaemonStops \/ Disconnects

Over ==
    /\ cli = "done" /\ pump = "gone" /\ sub.at = "gone"
    /\ UNCHANGED vars

Next == SessionStep \/ DaemonStep \/ ClientStep \/ Environment \/ Over

(* Some task that can run does; nothing obliges the user to type, the       *)
(* process to write or to exit, or the connection to end.                   *)
Fairness == WF_vars(SessionStep \/ DaemonStep \/ ClientStep)

Spec == Init /\ [][Next]_vars /\ Fairness

-----------------------------------------------------------------------------
(* Properties.                                                             *)

(* Every variable has the shape its Rust type gives it; queues are bounded. *)
TypeOK ==
    /\ state \in {"Connecting", "Ready", "Exited", "Error"}
    /\ cancelled \in BOOLEAN /\ closed \in BOOLEAN
    /\ Len(output_q) <= OutputCapacity /\ Len(input_q) <= InputCapacity
    /\ Len(events) <= EventCapacity
    /\ Len(screen_q) <= ScreenCapacity
    /\ client_state \in {"Ready", "Exited", "Error"}
    /\ client_exit \in {NoCode, ExitCode}

Lost(kinds, by) == \E l \in lost : l.item.kind \in kinds /\ l.by = by

(* What the user sees is the process's output in order and without          *)
(* repetition, whatever task is cancelled with a chunk in hand; a chunk is  *)
(* missing before another only if the client's queue was full when it came. *)
(* The process reads a prefix of what was typed, in order.                  *)
BytesInOrder ==
    /\ \A i, j \in DOMAIN shown : i < j => shown[i] < shown[j]
    /\ \A i \in DOMAIN shown : \A n \in 1..shown[i] :
          \/ \E k \in 1..i : shown[k] = n
          \/ [item |-> Chunk(n), by |-> "client"] \in lost
    /\ \A i \in DOMAIN typed : typed[i] = i


(* SubscriptionEnded is not going to arrive.                                *)
EndLost == \E by \in {"daemon", "client"} : Lost({"ended"}, by)

(* A process that exits, a stream or an input write that fails, a closed    *)
(* session, a daemon that stops, a connection that ends: the pumps of the   *)
(* session stop and the user gets the prompt back.  Only when               *)
(* SubscriptionEnded was lost and the connection is still up may            *)
(* drive_terminal wait on, until the user types.                            *)
TerminalEnds ==
    (exec = "exited" \/ cancelled \/ cli = "close")
        ~> /\ out.at \in {"none", "gone"} /\ in.at \in {"none", "gone"}
           /\ \/ cli = "done"
              \/ EndLost /\ link # "down" /\ cli \in {"connect", "drive"}

(* The exit code of a process that ended by itself is what the command line *)
(* reports: inspect returns "the real exec process status".                 *)
ExitCodeReported ==
    (client_state = "Exited" /\ pump = "gone" /\ cli = "drive" /\ screen_q = <<>>
        /\ exec = "exited" /\ Len(shown) = taken)
    => client_exit = ExitCode
=============================================================================
