--------------------------- MODULE EngineServices ---------------------------
(***************************************************************************)
(* The services of docker-core: which calls of the Docker Engine each      *)
(* operation makes, in which order, within which time, and what it makes   *)
(* of an answer it did not want.  Constant level: Services runs the plans. *)
(*                                                                         *)
(* A call's on_error says what a failure does to the operation: "fail"     *)
(* ends it, "joined" ends it when the calls made concurrently are over,    *)
(* "note" is listed in the result, "ignore" is dropped, "absent" is the    *)
(* answer that was hoped for when the engine knows no such volume.         *)
(***************************************************************************)
EXTENDS Integers, Sequences

CONSTANTS
    DefaultGrace,           \* Docker's stop grace without an override (10 s)
    TransportSlack,         \* what lifecycle_timeout adds (2 s)
    MaxTimeout,             \* the largest timeout the engine's API takes (i32::MAX)
    Unlimited,              \* longer than any call is waited for
    MaxGroupConcurrency     \* MAX_GROUP_CONCURRENCY

Plan(calls) == [refused |-> "none", calls |-> calls, width |-> Len(calls)]
Refused(error) == [refused |-> error, calls |-> <<>>, width |-> 0]
Checked(arg, calls) == IF arg.fault = "none" THEN Plan(calls) ELSE Refused(arg.fault)

Reads(by, as, on_error, after, budget) ==
    [by |-> by, as |-> as, on_error |-> on_error, after |-> after, budget |-> budget,
     mutates |-> FALSE, spoils |-> "none"]
Writes(by, as, on_error, after, budget) ==
    [Reads(by, as, on_error, after, budget) EXCEPT !.mutates = TRUE]

-----------------------------------------------------------------------------
(* services/system.rs                                                      *)
system_info(t) ==
    <<Reads("api", "system", "fail", 0, t), Reads("api", "system", "ignore", 1, t)>>

overview(t) ==
    system_info(t) \o <<Reads("api", "network", "fail", 2, t),
                        Reads("api", "volume", "fail", 3, t)>>

-----------------------------------------------------------------------------
(* services/containers.rs                                                  *)
list_containers(t) == <<Reads("api", "container", "fail", 0, t)>>

inspect_container(t) ==
    <<[Reads("api", "container", "fail", 0, t) EXCEPT !.spoils = "InvalidResponse"]>>

action(operation, timeout) == <<Writes("container", operation, "fail", 0, timeout)>>

lifecycle_timeout(request_timeout, grace) == request_timeout + grace + TransportSlack

checked_timeout(grace) == grace >= 0 /\ grace <= MaxTimeout

start_container(t) == action("start", t)

stop_container(arg, t) ==
    IF checked_timeout(arg.grace)
    THEN Plan(action("stop", lifecycle_timeout(t, arg.grace)))
    ELSE Refused("InvalidContainerConfig")

restart_container_with_options(arg, t) ==
    IF checked_timeout(arg.grace)
    THEN Plan(action("restart", lifecycle_timeout(t, arg.grace)))
    ELSE Refused("InvalidContainerConfig")

pause_container(t) == action("pause", t)
unpause_container(t) == action("unpause", t)
kill_container_with_options(arg, t) == Checked(arg, action("kill", t))
remove_container(t) == action("remove", t)
rename_container(arg, t) == Checked(arg, action("rename", t))

(* What a request to create can be refused for before the engine sees it:  *)
(* itself, a mount the engine's API cannot express, a limit too large.     *)
CreateFaults == {"request", "mount", "limit"}

validate(arg) == arg.fault # "request"
map_create_mount(arg) == arg.fault # "mount"
create_body(arg) == map_create_mount(arg) /\ arg.fault # "limit"

(* The first network is part of the create request; each other one is      *)
(* connected afterwards, and the container is started last.                *)
create_container(arg, t) ==
    LET connects == IF arg.networks > 1 THEN arg.networks - 1 ELSE 0 IN
    IF validate(arg) /\ create_body(arg)
    THEN Plan(<<Writes("container", "create", "fail", 0, t)>>
              \o [i \in 1..connects |-> Writes("container", "connect network", "note", i, t)]
              \o (IF arg.start
                  THEN <<Writes("container", "start", "note", 1 + connects, t)>> ELSE <<>>))
    ELSE Refused("InvalidContainerConfig")

container_stats(t) ==
    <<[Reads("api", "container", "fail", 0, t) EXCEPT !.spoils = "InvalidResponse"]>>

watch_logs == <<Reads("api", "container", "fail", 0, Unlimited)>>
watch_stats == <<Reads("api", "container", "fail", 0, Unlimited)>>

-----------------------------------------------------------------------------
(* services/compose.rs: the project is listed, then the targets are acted  *)
(* on, at most MaxGroupConcurrency at a time; a target outside the project *)
(* is noted without a call.                                                *)
list_projects(t) == list_containers(t)

execute_action(arg, t) ==
    Writes("container", arg.action, "note", 1,
           IF arg.action \in {"stop", "restart"} THEN lifecycle_timeout(t, arg.grace) ELSE t)

execute_explicit_targets(arg, t) == [i \in 1..arg.targets |-> execute_action(arg, t)]

execute_group_targets(arg, t) ==
    LET listing == [list_projects(t)[1] EXCEPT !.spoils = "ContainerNotFound"] IN
    [Checked(arg, <<listing>> \o execute_explicit_targets(arg, t))
        EXCEPT !.width = MaxGroupConcurrency]

-----------------------------------------------------------------------------
(* services/images.rs                                                      *)
list_images(t) ==
    <<Reads("api", "image", "fail", 0, t), Reads("api", "container", "fail", 0, t)>>

inspect_image(t) ==
    <<Reads("api", "image", "fail", 0, t), Reads("api", "container", "fail", 0, t)>>

remove_image(t) == <<Writes("api", "image", "fail", 0, t)>>

pull_image(arg) == Checked(arg, <<Writes("pull", "image", "fail", 0, Unlimited)>>)

export_image == Reads("export", "image", "fail", 1, Unlimited)

-----------------------------------------------------------------------------
(* services/networks.rs                                                    *)
list_networks(t) == <<Reads("network", "list", "fail", 0, t)>>
inspect_network(t) == <<Reads("network", "inspect", "fail", 0, t)>>
create_network(arg, t) == Checked(arg, <<Writes("network", "create", "fail", 0, t)>>)
remove_network(t) == <<Writes("network", "remove", "fail", 0, t)>>

-----------------------------------------------------------------------------
(* services/volumes.rs                                                     *)
system_df_usage(after, t) == Reads("api", "system", "ignore", after, t)

(* A container that is gone by the time it is inspected is left out.       *)
container_references(on_error, after, t) ==
    <<Reads("api", "container", on_error, after, t),
      [Reads("api", "container", on_error, after + 1, t) EXCEPT !.by = "reference"]>>

list_volumes(t) ==
    container_references("joined", 0, t)
    \o <<Reads("volume", "list", "joined", 0, t), system_df_usage(0, t)>>

enrich_usage(t) ==
    container_references("ignore", 0, t) \o <<system_df_usage(0, t)>>

inspect_volume_inner(on_error, after, t) ==
    container_references(on_error, after, t)
    \o <<Reads("volume", "inspect", on_error, after, t), system_df_usage(after, t)>>

inspect_volume(arg, t) == Checked(arg, inspect_volume_inner("joined", 0, t))

(* The operator create_volume would be if it passed on a failure to        *)
(* inspect what it created.                                                *)
ReinspectsStrictly(arg, t) ==
    Checked(arg, <<Reads("volume", "inspect", "absent", 0, t),
                   Writes("volume", "create", "fail", 1, t)>>
                 \o inspect_volume_inner("joined", 2, t))

create_volume(arg, t) ==
    Checked(arg, <<Reads("volume", "inspect", "absent", 0, t),
                   Writes("volume", "create", "fail", 1, t)>>
                 \o inspect_volume_inner("ignore", 2, t))

remove_volume(arg, t) == Checked(arg, <<Writes("volume", "remove", "fail", 0, t)>>)
prune_volumes(arg, t) == Checked(arg, <<Writes("volume", "prune", "fail", 0, t)>>)

(* The jobs of VolumeJobs, here one long call.                             *)
clone_volume(arg) == Checked(arg, <<Writes("job", "clone", "fail", 0, Unlimited)>>)
export_volume(arg) == Checked(arg, <<Writes("job", "export", "fail", 0, Unlimited)>>)

-----------------------------------------------------------------------------
(* error.rs.  A failed call is an HTTP status with what its message is     *)
(* about, or (status 0) what became of the connection.                     *)
not_found(resource) ==
    CASE resource = "container" -> "ContainerNotFound"
      [] resource = "image" -> "ImageNotFound"
      [] resource = "network" -> "NetworkNotFound"
      [] resource = "volume" -> "VolumeNotFound"
      [] OTHER -> "Api"

classify_api_error(e, resource) ==
    CASE e.status = 404 -> not_found(resource)
      [] e.status = 409 -> "Conflict"
      [] e.status \in {401, 403} -> "PermissionDenied"
      [] e.status = 408 \/ (e.status = 0 /\ e.says = "timeout") -> "OperationTimeout"
      [] e.status = 0 /\ e.says = "permission" -> "PermissionDenied"
      [] e.status = 0 /\ e.says = "refused" -> "EngineUnavailable"
      [] OTHER -> "Api"

ActionFailed ==
    [start |-> "StartFailed", stop |-> "StopFailed", restart |-> "RestartFailed",
     kill |-> "KillFailed", pause |-> "PauseFailed", unpause |-> "UnpauseFailed",
     remove |-> "RemoveFailed", rename |-> "RenameFailed"]

(* Followed by From<ContainerError>, so that the errors both types have    *)
(* are named once.                                                         *)
classify_container_api_error(e, operation) ==
    CASE e.status = 0 -> classify_api_error(e, "container")
      [] e.status = 404 -> not_found(IF e.says \in {"image", "network", "volume"}
                                     THEN e.says ELSE "container")
      [] e.status \in {401, 403} -> "PermissionDenied"
      [] e.status = 408 -> "OperationTimeout"
      [] e.says = "port" -> "PortAlreadyAllocated"
      [] e.says = "name" -> "NameAlreadyInUse"
      [] e.says = "already running" -> "AlreadyRunning"
      [] e.says = "not running" -> "NotRunning"
      [] e.says = "paused" -> "Paused"
      [] e.says = "removal" -> "RemovalInProgress"
      [] operation = "create" /\ e.status = 400 -> "InvalidContainerConfig"
      [] operation \in DOMAIN ActionFailed -> ActionFailed[operation]
      [] OTHER -> "Api"

classify_volume_api_error(e, operation) ==
    CASE e.status = 0 -> classify_api_error(e, "volume")
      [] e.status \in {401, 403} -> "PermissionDenied"
      [] e.status = 404 -> IF operation = "create" /\ e.says = "plugin"
                           THEN "VolumeDriverUnavailable" ELSE "VolumeNotFound"
      [] operation = "remove" /\ (e.status = 409 \/ e.says = "in use") -> "VolumeInUse"
      [] operation = "create" /\ (e.status = 409 \/ e.says = "exists") -> "VolumeAlreadyExists"
      [] operation = "create" /\ (e.status = 400 \/ e.says = "invalid") -> "InvalidVolumeName"
      [] e.says = "plugin" -> "VolumePluginError"
      [] OTHER -> classify_api_error(e, "volume")

classify_network_api_error(e, operation) ==
    CASE e.status = 0 -> classify_api_error(e, "network")
      [] operation = "remove" /\ e.says = "predefined" -> "NetworkProtected"
      [] e.says = "in use" -> "NetworkInUse"
      [] e.status \in {401, 403} -> "PermissionDenied"
      [] \/ e.status = 400
         \/ operation = "create"
            /\ (e.status = 409 \/ e.says \in {"invalid", "plugin", "exists"}) ->
                "InvalidNetworkConfig"
      [] OTHER -> classify_api_error(e, "network")

classify_pull_error(e) ==
    CASE e.says = "denied" -> "RegistryAuthenticationFailed"
      [] e.says = "reference" -> "InvalidImageReference"
      [] e.says = "registry" -> "RegistryUnavailable"
      [] classify_api_error(e, "image") = "Api" -> "PullFailed"
      [] OTHER -> classify_api_error(e, "image")

classify_export_error(e) ==
    IF classify_api_error(e, "image") = "Api" THEN "ExportFailed"
    ELSE classify_api_error(e, "image")

(* What the operation makes of a failed call.                              *)
Classify(call, e) ==
    CASE call.by \in {"api", "reference"} -> classify_api_error(e, call.as)
      [] call.by = "container" -> classify_container_api_error(e, call.as)
      [] call.by = "volume" -> classify_volume_api_error(e, call.as)
      [] call.by = "network" -> classify_network_api_error(e, call.as)
      [] call.by = "pull" -> classify_pull_error(e)
      [] call.by = "export" -> classify_export_error(e)
      [] OTHER -> e.says

(* What a message can be about, as far as the classifiers look.            *)
Words ==
    [api |-> {}, reference |-> {},
     container |-> {"image", "network", "volume", "port", "name", "already running",
                    "not running", "paused", "removal"},
     volume |-> {"plugin", "in use", "exists", "invalid"},
     network |-> {"predefined", "in use", "invalid", "plugin", "exists"},
     pull |-> {"denied", "reference", "registry"}, export |-> {}]

Statuses == {400, 401, 404, 408, 409, 500}

(* Every way the engine, or the connection to it, can fail a call.         *)
ApiFailures(by) ==
    [status : Statuses, says : Words[by] \union {"other"}]
    \union [status : {0}, says : {"timeout", "permission", "refused", "broken"}]

ApiErrors(resource) ==
    {classify_api_error(e, resource) : e \in ApiFailures("api")} \union {"OperationTimeout"}
VolumeErrors(operation) ==
    {classify_volume_api_error(e, operation) : e \in ApiFailures("volume")}

(* The jobs on volumes.  An inspection's errors are passed on, those of    *)
(* the helper container are the job's own unless the caller can tell       *)
(* them apart.                                                             *)
InspectErrors == ApiErrors("container") \union VolumeErrors("inspect")
HelperErrors == ApiErrors("container") \union {"OperationCancelled", "InvalidResponse", "Api"}

classify_destination_io == {"DiskFull", "DestinationPermissionDenied", "ExportFailed"}

as_export_error(error) ==
    IF error \in {"OperationCancelled", "OperationTimeout", "PermissionDenied",
                  "EngineUnavailable", "DestinationPermissionDenied", "DiskFull",
                  "CleanupFailed"}
    THEN error ELSE "ExportFailed"

as_clone_error(error) ==
    IF error \in {"OperationCancelled", "OperationTimeout", "PermissionDenied",
                  "EngineUnavailable", "CleanupFailed"}
    THEN error ELSE "CloneFailed"

export_errors ==
    {"UnsupportedVolumeCompression", "UnsupportedConnection", "OperationCancelled",
     "CleanupFailed"}
    \union InspectErrors \union classify_destination_io
    \union {as_export_error(e) : e \in HelperErrors}

clone_errors ==
    {"OperationCancelled", "VolumeAlreadyExists", "CleanupFailed"}
    \union InspectErrors \union VolumeErrors("create")
    \union {as_clone_error(e) : e \in HelperErrors}

(* services/container_terminal.rs: what a failed call of the engine can be *)
(* taken for by its text, what ends the search for a shell, and what each  *)
(* operation of a terminal can fail with.                                  *)
classify_bollard_error(fallback) ==
    {"Cancelled", "Permission", "Paused", "NotRunning", "Timeout", "DockerUnavailable",
     fallback}

is_fatal_candidate_error(error) ==
    error \in {"NotRunning", "Paused", "Timeout", "Cancelled", "InvalidOptions", "Permission",
               "DockerUnavailable"}

connect_errors ==
    {"Cancelled", "InvalidOptions", "Paused", "NotRunning", "ShellNotFound"}
    \union classify_bollard_error("NotRunning")
    \union {e \in classify_bollard_error("CreateFailed")
                   \union classify_bollard_error("StartFailed") : is_fatal_candidate_error(e)}
    \union classify_bollard_error("ResizeFailed")

write_input_errors == {"Cancelled", "Disconnected", "Timeout"}
resize_errors == {"Cancelled"} \union classify_bollard_error("ResizeFailed")

(* How a call can fail: with one of the errors of its operation, or with   *)
(* an answer of the engine that is yet to be classified.                   *)
Failures(call) ==
    LET Says(words) == [status : {-1}, says : words] IN
    CASE call.as = "export" -> Says(export_errors)
      [] call.as = "clone" -> Says(clone_errors)
      [] call.as = "ContainerTerminal" -> Says(connect_errors)
      [] call.as = "ContainerTerminalInput" -> Says(write_input_errors)
      [] call.as = "ContainerTerminalResize" -> Says(resize_errors)
      [] call.by = "io" -> Says({"IoDenied", "IoError"})
      [] OTHER -> ApiFailures(call.by)

(* What can still be said of a call that was carried out: its connection   *)
(* is lost; a clone's volume is made but the making timed out, broke off,  *)
(* or could not be undone; an exported archive is in place but its staging *)
(* directory cannot be removed.  Input that was queued is acknowledged.    *)
FailuresAfter(call) ==
    CASE call.as = "export" -> classify_destination_io
      [] call.as = "clone" -> {"CleanupFailed", "OperationTimeout", "Api"}
      [] call.as = "ContainerTerminalResize" ->
            {"Timeout", "Cancelled", "DockerUnavailable", "ResizeFailed"}
      [] call.by \in {"io", "terminal"} -> {}
      [] OTHER -> {"timeout", "broken"}
=============================================================================
