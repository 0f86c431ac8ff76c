------------------------------- MODULE Services -------------------------------
(***************************************************************************)
(* One call of a client's service, through the daemon to the Docker Engine *)
(* and back: the method's request (ClientServices), the daemon's dispatch  *)
(* (dispatch_request, dispatch_docker and the subscriptions of             *)
(* tuxstack-daemon/src/ipc.rs), the operation's calls of the engine        *)
(* (EngineServices), the error translated twice, and the result.           *)
(*                                                                         *)
(* The client waits ClientTimeout for the answer and every call of the     *)
(* engine has its own limit in the daemon; the engine takes its time, can  *)
(* fail a call, and may carry out a call nobody waits for any more.  The   *)
(* caller may drop the call.  Time passes in ticks, and no tick passes a   *)
(* limit that has been reached.                                            *)
(***************************************************************************)
EXTENDS Integers, Sequences, FiniteSets, FiniteSetsExt, TLC

CONSTANTS
    DefaultGrace, TransportSlack, MaxTimeout, Unlimited, MaxGroupConcurrency,
    ClientTimeout,          \* ClientConfig::request_timeout
    RequestTimeouts,        \* values of operation_timeout_seconds
    Graces,                 \* stop timeouts a caller asks for
    MaxNetworks, MaxTargets \* bounds on a request's networks and targets

Client == INSTANCE ClientServices
Engine == INSTANCE EngineServices

VARIABLES
    state,      \* the client's call: its method, argument and result
    requests,   \* the daemon's side: the operation's calls and its answer
    engine,     \* the calls the engine has carried out, and the part file
    ghost       \* what the properties compare with

vars == <<state, requests, engine, ghost>>

-----------------------------------------------------------------------------
(* What a caller may pass, as far as the operations look at it.            *)
Faults ==
    [KillContainer |-> {"InvalidContainerConfig"}, RenameContainer |-> {"InvalidContainerConfig"},
     CreateContainer |-> Engine!CreateFaults,
     ExecuteComposeTargets |-> {"InvalidContainerConfig"},
     ImagePullAuthenticated |-> {"InvalidImageReference"}, ExportImage |-> {"NoDestination"},
     CreateNetwork |-> {"InvalidNetworkConfig"}, InspectVolume |-> {"InvalidVolumeName"},
     CreateVolume |-> {"InvalidVolumeName"}, RemoveVolume |-> {"InvalidVolumeName"},
     PruneVolumes |-> {"InvalidVolumeName"}, CloneVolume |-> {"InvalidVolumeName"},
     ExportVolume |-> {"InvalidVolumeName"}, ContainerTerminal |-> {"TooManySessions"},
     ContainerTerminalInput |-> {"TooLong", "NoSession"},
     ContainerTerminalResize |-> {"BadSize", "NoSession"},
     ContainerTerminalClose |-> {"NoSession"}]

Args(request) ==
    LET plain == [fault |-> "none", grace |-> DefaultGrace, networks |-> 0,
                  start |-> FALSE, action |-> "stop", targets |-> 0] IN
    {[plain EXCEPT !.fault = f] :
        f \in {"none"} \union (IF request \in DOMAIN Faults THEN Faults[request] ELSE {})}
    \union (IF request \in {"StopContainer", "RestartContainer"}
            THEN {[plain EXCEPT !.grace = g] : g \in Graces \union {-1}} ELSE {})
    \union (IF request = "CreateContainer"
            THEN {[plain EXCEPT !.networks = n, !.start = s] :
                     n \in 0..MaxNetworks, s \in BOOLEAN} ELSE {})
    \union (IF request = "ExecuteComposeTargets"
            THEN {[plain EXCEPT !.targets = n] : n \in 1..MaxTargets}
                 \union {[plain EXCEPT !.targets = 1, !.action = a] :
                            a \in {"start", "restart", "kill", "pause", "unpause", "remove"}}
            ELSE {})

-----------------------------------------------------------------------------
(* dispatch_docker: the operation a request runs and the response it sends *)
(* when the operation succeeds.                                            *)
Runs(plan, response) == [plan |-> plan, response |-> response]
Acknowledges(plan) == Runs(plan, "Acknowledged")

dispatch_system(r, t) ==
    CASE r = "SystemInfo" -> Runs(Engine!Plan(Engine!system_info(t)), "SystemInfo")
      [] r = "Overview" -> Runs(Engine!Plan(Engine!overview(t)), "Overview")

dispatch_containers(r, arg, t) ==
    CASE r = "ListContainers" -> Runs(Engine!Plan(Engine!list_containers(t)), "Containers")
      [] r = "InspectContainer" ->
            Runs(Engine!Plan(Engine!inspect_container(t)), "ContainerDetail")
      [] r = "StartContainer" -> Acknowledges(Engine!Plan(Engine!start_container(t)))
      [] r = "StopContainer" -> Acknowledges(Engine!stop_container(arg, t))
      [] r = "RestartContainer" ->
            Acknowledges(Engine!restart_container_with_options(arg, t))
      [] r = "PauseContainer" -> Acknowledges(Engine!Plan(Engine!pause_container(t)))
      [] r = "UnpauseContainer" -> Acknowledges(Engine!Plan(Engine!unpause_container(t)))
      [] r = "KillContainer" -> Acknowledges(Engine!kill_container_with_options(arg, t))
      [] r = "RemoveContainer" -> Acknowledges(Engine!Plan(Engine!remove_container(t)))
      [] r = "RenameContainer" -> Acknowledges(Engine!rename_container(arg, t))
      [] r = "CreateContainer" -> Runs(Engine!create_container(arg, t), "ContainerCreated")
      [] r = "ContainerStats" -> Runs(Engine!Plan(Engine!container_stats(t)), "ContainerStats")

dispatch_compose(r, arg, t) ==
    CASE r = "ListComposeProjects" ->
            Runs(Engine!Plan(Engine!list_projects(t)), "ComposeProjects")
      [] r = "ExecuteComposeTargets" ->
            Runs(Engine!execute_group_targets(arg, t), "ComposeOperation")

(* The file the archive goes to is created, filled, then renamed.          *)
export_image_locally(arg) ==
    Engine!Checked(arg, <<Engine!Reads("io", "part", "fail", 0, Unlimited),
                          Engine!export_image,
                          Engine!Writes("io", "rename", "fail", 2, Unlimited)>>)

dispatch_images(r, arg, t) ==
    CASE r = "ListImages" -> Runs(Engine!Plan(Engine!list_images(t)), "Images")
      [] r = "InspectImage" -> Runs(Engine!Plan(Engine!inspect_image(t)), "ImageDetail")
      [] r = "RemoveImage" -> Runs(Engine!Plan(Engine!remove_image(t)), "ImagesRemoved")
      [] r = "ExportImage" -> Runs(export_image_locally(arg), "ExportCompleted")

dispatch_networks(r, arg, t) ==
    CASE r = "ListNetworks" -> Runs(Engine!Plan(Engine!list_networks(t)), "Networks")
      [] r = "InspectNetwork" -> Runs(Engine!Plan(Engine!inspect_network(t)), "NetworkDetail")
      [] r = "CreateNetwork" -> Runs(Engine!create_network(arg, t), "NetworkCreated")
      [] r = "RemoveNetwork" -> Acknowledges(Engine!Plan(Engine!remove_network(t)))

dispatch_volumes(r, arg, t) ==
    CASE r = "ListVolumes" -> Runs(Engine!Plan(Engine!list_volumes(t)), "Volumes")
      [] r = "InspectVolume" -> Runs(Engine!inspect_volume(arg, t), "VolumeDetail")
      [] r = "CreateVolume" -> Runs(Engine!create_volume(arg, t), "VolumeDetail")
      [] r = "RemoveVolume" -> Acknowledges(Engine!remove_volume(arg, t))
      [] r = "PruneVolumes" -> Runs(Engine!prune_volumes(arg, t), "VolumesPruned")
      [] r = "CloneVolume" -> Runs(Engine!clone_volume(arg), "VolumeDetail")
      [] r = "EnrichVolumes" -> Runs(Engine!Plan(Engine!enrich_usage(t)), "VolumesEnriched")
      [] r = "ExportVolume" -> Runs(Engine!export_volume(arg), "ExportCompleted")

(* dispatch_request: what is not a Docker request.                         *)
dispatch_terminal(r, arg) ==
    Acknowledges(IF r = "ContainerTerminalClose" /\ arg.fault = "none"
                 THEN Engine!Plan(<<>>)
                 ELSE Engine!Checked(arg, <<Engine!Writes("terminal", r, "fail", 0, Unlimited)>>))

(* spawn_subscription                                                      *)
spawn_subscription(r, arg) ==
    Runs(CASE r = "ContainerStats" -> Engine!Plan(Engine!watch_stats)
           [] r = "ContainerLogs" -> Engine!Plan(Engine!watch_logs)
           [] r = "ImagePullAuthenticated" -> Engine!pull_image(arg)
           [] r = "ContainerTerminal" ->
                Engine!Checked(arg, <<Engine!Writes("terminal", r, "fail", 0, Unlimited)>>),
         IF r = "ContainerTerminal" THEN "Running" ELSE "Completed")

dispatch_request(m, arg, t) ==
    LET r == m.request IN
    CASE m.kind = "ping" -> Runs(Engine!Plan(<<>>), "Pong")
      [] m.kind \in {"stream", "connect"} -> spawn_subscription(r, arg)
      [] m.kind = "terminal" -> dispatch_terminal(r, arg)
      [] r \in {"SystemInfo", "Overview"} -> dispatch_system(r, t)
      [] r \in {"ListComposeProjects", "ExecuteComposeTargets"} -> dispatch_compose(r, arg, t)
      [] m.missing = "Container" -> dispatch_containers(r, arg, t)
      [] m.missing = "Image" -> dispatch_images(r, arg, t)
      [] m.missing = "Network" -> dispatch_networks(r, arg, t)
      [] OTHER -> dispatch_volumes(r, arg, t)

-----------------------------------------------------------------------------
docker_protocol_error(error) ==
    CASE error = "EngineUnavailable" -> "DockerUnavailable"
      [] error = "OperationTimeout" -> "OperationTimedOut"
      [] error = "OperationCancelled" -> "Cancelled"
      [] error \in {"PermissionDenied", "DestinationPermissionDenied",
                    "RegistryAuthenticationFailed"} -> "PermissionDenied"
      [] error \in {"ContainerNotFound", "ImageNotFound", "NetworkNotFound",
                    "VolumeNotFound"} -> "NotFound"
      [] error \in {"Conflict", "NetworkProtected", "NetworkInUse", "VolumeInUse",
                    "VolumeAlreadyExists", "AlreadyRunning", "NotRunning", "Paused",
                    "RemovalInProgress", "PortAlreadyAllocated", "NameAlreadyInUse"} ->
            "Conflict"
      [] error \in {"InvalidContainerConfig", "InvalidImageReference",
                    "InvalidNetworkConfig", "InvalidVolumeName", "UnsupportedConnection",
                    "UnsupportedVolumeCompression"} -> "InvalidRequest"
      [] error = "DiskFull" -> "ResourceBusy"
      [] error \in {"RegistryUnavailable", "VolumeDriverUnavailable",
                    "VolumePluginError"} -> "DockerUnavailable"
      [] OTHER -> "Internal"

terminal_protocol_error(error) ==
    CASE error = "InvalidOptions" -> "InvalidRequest"
      [] error \in {"NotRunning", "Paused", "ShellNotFound"} -> "Conflict"
      [] error = "Permission" -> "PermissionDenied"
      [] error = "Timeout" -> "OperationTimedOut"
      [] error = "Cancelled" -> "Cancelled"
      [] OTHER -> "DockerUnavailable"

export_io_error(error) == IF error = "IoDenied" THEN "PermissionDenied" ELSE "Internal"

(* The code of what made the operation fail, or of why it was not begun.   *)
CodeOf(by, error) ==
    CASE error = "NoSession" -> "NotFound"
      [] error = "TooManySessions" -> "Conflict"
      [] error \in {"TooLong", "BadSize", "NoDestination"} -> "InvalidRequest"
      [] by = "terminal" -> terminal_protocol_error(error)
      [] by = "io" -> export_io_error(error)
      [] OTHER -> docker_protocol_error(error)

-----------------------------------------------------------------------------
Idle == [pc |-> "idle", now |-> 0]
Nothing == [pc |-> "none"]

Init ==
    /\ state = Idle
    /\ requests = Nothing
    /\ engine \in [done : {{}}, part : {FALSE}, timeout : RequestTimeouts]
    /\ ghost = [code |-> "none", says |-> "none"]

Calls == requests.plan.calls
Waiting == state.pc = "waiting"
Running == requests.pc = "running"

Settled(status) == {i \in DOMAIN status : status[i] \in {"ok", "failed"}}

(* A call begins when the one it follows is over, unless that was a branch *)
(* of its own that failed, and while fewer than width are in flight.       *)
Begins(rq) ==
    LET calls == rq.plan.calls
        ready == {i \in DOMAIN calls : rq.status[i] = "waiting" /\
                    (calls[i].after = 0 \/ rq.status[calls[i].after] = "ok"
                     \/ (rq.status[calls[i].after] = "failed"
                         /\ calls[i].by # "reference"))}
        flying == {i \in DOMAIN calls : rq.status[i] = "asked"}
        room == rq.plan.width - Cardinality(flying)
        begun == {i \in ready : Cardinality({j \in ready : j < i}) < room}
    IN  [rq EXCEPT
            !.status = [i \in DOMAIN calls |-> IF i \in begun THEN "asked" ELSE rq.status[i]],
            !.since = [i \in DOMAIN calls |-> IF i \in begun THEN state.now ELSE rq.since[i]]]

Answers(rq, code, says) == [rq EXCEPT !.pc = "answered", !.answer = [code |-> code, says |-> says]]

(* After a call is over: the operation fails, goes on, or is complete.     *)
Continues(rq) ==
    LET calls == rq.plan.calls
        failed == {i \in DOMAIN calls : rq.status[i] = "failed"}
        fatal == {i \in failed : calls[i].on_error \in {"fail", "absent"}}
        joined == {i \in failed : calls[i].on_error = "joined"}
        Error(i) == Answers(rq, CodeOf(calls[i].by, rq.error[i]), rq.error[i])
        next == Begins(rq)
    IN  CASE fatal # {} -> Error(Min(fatal))
          [] \E i \in DOMAIN calls : next.status[i] = "asked" -> next
          [] joined # {} -> Error(Min(joined))
          [] OTHER -> Answers(rq, "ok", rq.response)

-----------------------------------------------------------------------------
(* A method is called: docker_request sends the request with a deadline,   *)
(* the daemon dispatches it.                                               *)
docker_request(m, arg) ==
    /\ state.pc = "idle"
    /\ arg \in Args(m.request)
    /\ state' = [pc |-> "waiting", now |-> 0, method |-> m, result |-> "none"]
    /\ LET run == dispatch_request(m, arg, engine.timeout)
           n == Len(run.plan.calls)
           rq == [pc |-> "running", plan |-> run.plan, response |-> run.response,
                  status |-> [i \in 1..n |-> "waiting"], since |-> [i \in 1..n |-> 0],
                  error |-> [i \in 1..n |-> "none"], cancelled |-> FALSE,
                  answer |-> [code |-> "none", says |-> "none"]]
       IN  requests' = IF run.plan.refused = "none" THEN Continues(rq)
                       ELSE Answers(rq, CodeOf("none", run.plan.refused), run.plan.refused)
    /\ UNCHANGED <<engine, ghost>>

(* The engine carries out a call it was asked, waited for or not.          *)
EngineActs(i) ==
    /\ requests.pc # "none"
    /\ i \in DOMAIN requests.status
    /\ Calls[i].mutates
    /\ requests.status[i] \in {"asked", "abandoned"}
    /\ i \notin engine.done
    /\ engine' = [engine EXCEPT !.done = @ \union {i},
                                !.part = @ /\ Calls[i].as # "rename"]
    /\ UNCHANGED <<state, requests, ghost>>

Asked(i) == Running /\ i \in DOMAIN requests.status /\ requests.status[i] = "asked"

(* The part file lives from its creation to its renaming, or to the        *)
(* failure that removes it.                                                *)
PartAfter(rq, created) == (engine.part \/ created) /\ (rq.pc = "running" \/ rq.answer.code = "ok")

Ok(i, created) ==
    /\ requests' = Continues([requests EXCEPT !.status[i] = "ok", !.since[i] = 0])
    /\ engine' = [engine EXCEPT !.part = PartAfter(requests', created)]
    /\ UNCHANGED <<state, ghost>>

Failed(i, error) ==
    /\ requests' = Continues([requests EXCEPT
            !.status[i] = "failed", !.since[i] = 0,
            !.error[i] = IF Calls[i].on_error \in {"note", "ignore"} THEN "none" ELSE error])
    /\ engine' = [engine EXCEPT !.part = PartAfter(requests', FALSE)]
    /\ UNCHANGED <<state, ghost>>

Succeeds(i) ==
    /\ Asked(i)
    /\ Calls[i].mutates => i \in engine.done
    /\ Calls[i].on_error # "absent"
    /\ Ok(i, Calls[i].as = "part")

(* The volume to be created exists already.                                *)
FindsVolume(i) ==
    /\ Asked(i)
    /\ Calls[i].on_error = "absent"
    /\ Failed(i, "VolumeAlreadyExists")

(* An answer that cannot be made a result of: a container without a name,  *)
(* an empty statistics stream, a listing without the project.              *)
AnswersBadly(i) ==
    /\ Asked(i)
    /\ Calls[i].spoils # "none"
    /\ Failed(i, Calls[i].spoils)

(* A call fails; one that was carried out, in what follows its change.     *)
Fails(i) ==
    /\ Asked(i)
    /\ \E e \in Engine!Failures(Calls[i]) :
        LET error == Engine!Classify(Calls[i], e) IN
        /\ i \in engine.done => e.says \in Engine!FailuresAfter(Calls[i])
        /\ IF \/ Calls[i].on_error = "absent" /\ error = "VolumeNotFound"
              \/ Calls[i].by = "reference" /\ error = "ContainerNotFound"
           THEN Ok(i, FALSE)
           ELSE Failed(i, error)

Due(i) == requests.status[i] = "asked" /\ state.now - requests.since[i] >= Calls[i].budget

(* tokio::time::timeout around a call of the engine.                       *)
TimesOut(i) ==
    /\ Asked(i)
    /\ Due(i)
    /\ Failed(i, "OperationTimeout")

(* Time passes while the client waits with a deadline.                     *)
Timed == state.method.kind \notin {"stream", "connect"}

Tick ==
    /\ Waiting /\ Running /\ Timed
    /\ state.now < ClientTimeout
    /\ ~ \E i \in DOMAIN requests.status : Due(i)
    /\ state' = [state EXCEPT !.now = @ + 1]
    /\ UNCHANGED <<requests, engine, ghost>>

Returns(result) == state' = [state EXCEPT !.pc = "returned", !.result = result]

(* round_trip gives up: any ClientError becomes DaemonUnavailable, and the *)
(* daemon is told to cancel if the writer's queue has room.                *)
ClientTimesOut ==
    /\ Waiting /\ Timed
    /\ state.now >= ClientTimeout
    /\ Returns(CASE state.method \in Client!Infallible -> "Ok"
                 [] state.method.kind = "terminal" ->
                        Client!terminal_error("DaemonUnavailable", "none")
                 [] OTHER -> "DaemonUnavailable")
    /\ \E told \in BOOLEAN :
        requests' = [requests EXCEPT !.cancelled = told /\ requests.pc = "running"]
    /\ UNCHANGED <<engine, ghost>>

(* The caller drops the future or the stream (PendingGuard, DaemonStream). *)
CallerDrops ==
    /\ Waiting
    /\ Returns("Dropped")
    /\ \E told \in BOOLEAN :
        requests' = [requests EXCEPT !.cancelled = told /\ requests.pc = "running"]
    /\ UNCHANGED <<engine, ghost>>

(* The cancelled request's task stops waiting for its dispatch, which is   *)
(* dropped where it stands.  export_image_locally removes its part file    *)
(* only if it saw the cancellation first, while it reads the archive; a    *)
(* file being created is created all the same.                             *)
RequestCancelled ==
    /\ Running
    /\ requests.cancelled
    /\ requests' = [Answers(requests, "Cancelled", "none") EXCEPT
            !.status = [i \in DOMAIN requests.status |->
                          IF requests.status[i] = "asked" THEN "abandoned"
                          ELSE requests.status[i]]]
    /\ \E part \in BOOLEAN :
        /\ part # engine.part =>
            \E i \in DOMAIN requests.status :
                requests.status[i] = "asked" /\ Calls[i].by = IF part THEN "io" ELSE "export"
        /\ part /\ ~engine.part => requests.status[1] = "asked"
        /\ engine' = [engine EXCEPT !.part = part]
    /\ UNCHANGED <<state, ghost>>

(* The daemon shuts down under a subscription.                             *)
ServerShutdown ==
    /\ Running
    /\ state.method.kind \in {"stream", "connect"}
    /\ requests' = Answers(requests, "ServerShutdown", "none")
    /\ UNCHANGED <<state, engine, ghost>>

(* What the method makes of the daemon's answer.                           *)
ResultOf(m, answer) ==
    CASE answer.code = "ok" ->
            IF answer.says = m.accepts THEN "Ok" ELSE "Unexpected"
      [] m \in Client!Infallible -> "Ok"
      [] m.kind = "stream" -> Client!subscription_end_error(answer.code)
      [] m.kind = "connect" ->
            IF answer.code = "ServerShutdown"
            THEN Client!terminal_error(Client!subscription_end_error(answer.code), "none")
            ELSE Client!connect_error(answer.says)
      [] m = Client!resize ->
            Client!resize_error(Client!terminal_error(
                Client!protocol_error(answer.code, m.missing), answer.says))
      [] m.kind = "terminal" ->
            Client!terminal_error(Client!protocol_error(answer.code, m.missing), answer.says)
      [] OTHER -> Client!protocol_error(answer.code, m.missing)

(* The response, or the end of the subscription, reaches the caller.       *)
Delivered ==
    /\ Waiting
    /\ requests.pc = "answered"
    /\ Returns(ResultOf(state.method, requests.answer))
    /\ ghost' = requests.answer
    /\ UNCHANGED <<requests, engine>>

Next ==
    \/ \E m \in Client!Methods : \E arg \in Args(m.request) : docker_request(m, arg)
    \/ \E i \in 1..6 :
        \/ EngineActs(i) \/ Succeeds(i) \/ FindsVolume(i) \/ AnswersBadly(i)
        \/ Fails(i) \/ TimesOut(i)
    \/ Tick \/ ClientTimesOut \/ CallerDrops \/ RequestCancelled \/ ServerShutdown
    \/ Delivered

-----------------------------------------------------------------------------
TypeOK ==
    /\ state.pc \in {"idle", "waiting", "returned"} /\ state.now \in 0..ClientTimeout
    /\ requests.pc \in {"none", "running", "answered"}
    /\ requests.pc # "none" =>
        /\ requests.plan.width <= 6
        /\ \A i \in DOMAIN requests.status :
            requests.status[i] \in {"waiting", "asked", "ok", "failed", "abandoned"}
    /\ engine.done \subseteq 1..6 /\ engine.part \in BOOLEAN

(* The part file of an image export exists only while the export runs, or  *)
(* after a cancellation that dropped it.                                   *)
PartAccounted == engine.part => Running \/ requests.cancelled

(* The errors that leave open whether the engine did what it was asked.    *)
Unclear ==
    {"DaemonUnavailable", "OperationTimeout", "OperationCancelled", "Internal", "Dropped",
     "Timeout", "Cancelled", "Disconnected", "ResizeFailed", "DockerUnavailable"}

(* The changes an operation is to make, and those it made.                 *)
Changes == {i \in DOMAIN Calls : Calls[i].mutates}
Made == Changes \intersect engine.done

(* export_volume fails to remove its staging directory when the archive is *)
(* in its place already.                                                   *)
StagingKept(i) == Calls[i].as = "export" /\ requests.error[i] \in Engine!classify_destination_io

(* A caller told Ok can rely on every change having been made, or on its   *)
(* failure being listed in the answer; a caller told a definite error, on  *)
(* none having been made, except that the archive of an exported volume    *)
(* may be in place when its staging directory cannot be removed.           *)
Truthful ==
    state.pc = "returned" /\ state.result # "Dropped" =>
        LET noted == {i \in Changes : Calls[i].on_error = "note"
                                      /\ requests.status[i] = "failed"} IN
        /\ state.result = "Ok" => Changes \subseteq Made \union noted
        /\ state.result \notin Unclear \union {"Ok"} => \A i \in Made : StagingKept(i)

(* Does not hold: a definite error means that nothing was changed.         *)
DefiniteMeansUnchanged ==
    state.pc = "returned" /\ state.result \notin Unclear \union {"Ok"} => Made = {}

(* The errors that have one name in the daemon and in the client.          *)
Missing == {"ContainerNotFound", "ImageNotFound", "NetworkNotFound", "VolumeNotFound"}
Named(m) ==
    IF m.kind \in {"terminal", "connect"}
    THEN {"NotRunning", "Paused", "ShellNotFound", "CreateFailed", "StartFailed",
          "Disconnected", "ResizeFailed", "Timeout", "Cancelled", "InvalidOptions",
          "Permission", "DockerUnavailable"}
    ELSE {"Conflict", "PermissionDenied", "OperationTimeout", "OperationCancelled",
          "EngineUnavailable"} \union Missing

(* The named errors that the wire's codes, and connect's failure message,  *)
(* have no room for: any missing resource on a stream, another than the    *)
(* method's in an answer; most failures of a terminal.                     *)
Unsaid(m) ==
    CASE m.kind = "connect" -> Named(m) \ {"Paused", "NotRunning"}
      [] m.kind = "terminal" ->
            {"ShellNotFound", "CreateFailed", "StartFailed", "Disconnected", "ResizeFailed"}
      [] OTHER -> Missing \ {Client!MissingResource[m.missing]}

Answered == state.pc = "returned" /\ ghost.code # "none" /\ state.method \notin Client!Infallible

(* The error an operation of the daemon failed with, turned into a code of *)
(* the wire and from that into an error of the client, is in the end the   *)
(* error of the same name, if both sides have one and it is not Unsaid; no *)
(* other error is taken for a time-out, a cancellation or something        *)
(* missing; an Unsaid one is never taken for one that can be said by its   *)
(* name alone; and no answer is of a type the method does not expect.      *)
ErrorKept ==
    Answered =>
        LET m == state.method
            failure == ghost.says IN
        /\ state.result # "Unexpected"
        /\ failure \in Named(m) \ Unsaid(m) => state.result = failure
        /\ state.result \in {"OperationTimeout", "OperationCancelled", "Timeout", "Cancelled"} =>
            failure = state.result
        /\ state.result \in Missing => failure \in Missing
        /\ failure \in Unsaid(m) =>
            state.result \in {"Internal", "Disconnected", "DockerUnavailable", "ResizeFailed",
                              Client!MissingResource[m.missing]}

(* Does not hold: an error both sides have a name for keeps it.            *)
NameKept == Answered /\ ghost.says \in Named(state.method) => state.result = ghost.says

(* docs/architecture.md, on the stream lifecycle: an image export removes  *)
(* its temporary file on cancellation and on failure.                      *)
PartRemoved == requests.pc = "answered" => ~engine.part

(* docs/architecture.md, on errors: a daemon that is offline is told apart *)
(* from an operation that took too long.                                   *)
TimeoutIsNotOffline ==
    state.pc = "returned" /\ ghost.code = "none" => state.result # "DaemonUnavailable"

=============================================================================
