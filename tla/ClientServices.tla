--------------------------- MODULE ClientServices ---------------------------
(***************************************************************************)
(* The typed services of tuxstack-client/src/services.rs: for every method *)
(* the request it sends, the answer it accepts, the resource it takes a    *)
(* NotFound to be about; and the two translations of an error, from the    *)
(* wire's code to a DaemonError and from there to a terminal error.        *)
(* Constant level: the calls themselves are steps of Services.             *)
(***************************************************************************)
EXTENDS Integers, Sequences

Asks(request, missing, accepts) ==
    [kind |-> "request", request |-> request, missing |-> missing, accepts |-> accepts]

acknowledged(request, missing) == Asks(request, missing, "Acknowledged")

(* A stream of events; whatever ends it is reported without a resource.    *)
subscription_stream(request) ==
    [kind |-> "stream", request |-> request, missing |-> "Generic", accepts |-> "Completed"]

request_ack(request) ==
    [kind |-> "terminal", request |-> request, missing |-> "Container",
     accepts |-> "Acknowledged"]

ping == [kind |-> "ping", request |-> "Ping", missing |-> "Generic", accepts |-> "Pong"]
system_info == Asks("SystemInfo", "Generic", "SystemInfo")
overview == Asks("Overview", "Generic", "Overview")

list_containers == Asks("ListContainers", "Container", "Containers")
inspect_container == Asks("InspectContainer", "Container", "ContainerDetail")
create_container == Asks("CreateContainer", "Container", "ContainerCreated")
start_container == acknowledged("StartContainer", "Container")
stop_container == acknowledged("StopContainer", "Container")
restart_container_with_options == acknowledged("RestartContainer", "Container")
kill_container == acknowledged("KillContainer", "Container")
pause_container == acknowledged("PauseContainer", "Container")
unpause_container == acknowledged("UnpauseContainer", "Container")
remove_container == acknowledged("RemoveContainer", "Container")
rename_container == acknowledged("RenameContainer", "Container")
container_stats == Asks("ContainerStats", "Container", "ContainerStats")
watch_stats == subscription_stream("ContainerStats")
watch_logs == subscription_stream("ContainerLogs")

list_images == Asks("ListImages", "Image", "Images")
inspect_image == Asks("InspectImage", "Image", "ImageDetail")
remove_image == Asks("RemoveImage", "Image", "ImagesRemoved")
pull_image == subscription_stream("ImagePullAuthenticated")
export_image == Asks("ExportImage", "Image", "ExportCompleted")

list_networks == Asks("ListNetworks", "Network", "Networks")
inspect_network == Asks("InspectNetwork", "Network", "NetworkDetail")
create_network == Asks("CreateNetwork", "Network", "NetworkCreated")
remove_network == acknowledged("RemoveNetwork", "Network")

list_volumes == Asks("ListVolumes", "Volume", "Volumes")
list_all_volumes == list_volumes
list_volume_summaries == list_all_volumes
enrich_usage == Asks("EnrichVolumes", "Volume", "VolumesEnriched")
inspect_volume == Asks("InspectVolume", "Volume", "VolumeDetail")
create_volume == Asks("CreateVolume", "Volume", "VolumeDetail")
remove_volume == acknowledged("RemoveVolume", "Volume")
prune_volumes == Asks("PruneVolumes", "Volume", "VolumesPruned")
clone_volume == Asks("CloneVolume", "Volume", "VolumeDetail")
export_volume == Asks("ExportVolume", "Volume", "ExportCompleted")

list_projects == Asks("ListComposeProjects", "Container", "ComposeProjects")
execute_group_targets == Asks("ExecuteComposeTargets", "Container", "ComposeOperation")

connect ==
    [subscription_stream("ContainerTerminal") EXCEPT !.kind = "connect", !.accepts = "Running"]
write_input == request_ack("ContainerTerminalInput")
resize == request_ack("ContainerTerminalResize")
close == request_ack("ContainerTerminalClose")

Methods ==
    {ping, system_info, overview, list_containers, inspect_container,
     create_container, start_container, stop_container,
     restart_container_with_options, kill_container, pause_container,
     unpause_container, remove_container, rename_container, container_stats,
     watch_stats, watch_logs, list_images, inspect_image, remove_image,
     pull_image, export_image, list_networks, inspect_network, create_network,
     remove_network, list_volume_summaries, enrich_usage, inspect_volume,
     create_volume, remove_volume, prune_volumes, clone_volume, export_volume,
     list_projects, execute_group_targets, connect, write_input, resize, close}

(* enrich_usage and close have no error to report.                         *)
Infallible == {enrich_usage, close}

-----------------------------------------------------------------------------
Unchanging ==
    [DaemonUnavailable |-> "DaemonUnavailable", DockerUnavailable |-> "EngineUnavailable",
     FuseUnavailable |-> "FuseUnavailable", ProviderUnavailable |-> "ProviderUnavailable",
     PermissionDenied |-> "PermissionDenied", OperationTimedOut |-> "OperationTimeout",
     Cancelled |-> "OperationCancelled", Conflict |-> "Conflict",
     ResourceBusy |-> "Conflict", InvalidRequest |-> "InvalidRequest"]

MissingResource ==
    [Container |-> "ContainerNotFound", Image |-> "ImageNotFound",
     Network |-> "NetworkNotFound", Volume |-> "VolumeNotFound",
     Generic |-> "Internal"]

(* The operator protocol_error would be without the resource of a method.  *)
ForgetsResource(error_code, missing) ==
    IF error_code \in DOMAIN Unchanging THEN Unchanging[error_code] ELSE "Internal"

(* The DaemonError of a code the daemon sent.                              *)
protocol_error(error_code, missing) ==
    IF error_code = "NotFound" THEN MissingResource[missing]
    ELSE IF error_code \in DOMAIN Unchanging THEN Unchanging[error_code]
    ELSE "Internal"

(* Why the daemon ended a subscription, as the stream's last item.         *)
subscription_end_error(reason) ==
    CASE reason \in {"Completed", "Unsubscribed"} -> "Ok"
      [] reason = "ServerShutdown" -> "DaemonUnavailable"
      [] OTHER -> protocol_error(reason, "Generic")

(* A conflict is told apart by the words of its message.                   *)
terminal_error(error, says) ==
    CASE error = "PermissionDenied" -> "Permission"
      [] error = "OperationTimeout" -> "Timeout"
      [] error = "OperationCancelled" -> "Cancelled"
      [] error = "InvalidRequest" -> "InvalidOptions"
      [] error = "Conflict" /\ says = "Paused" -> "Paused"
      [] error = "Conflict" /\ says = "NotRunning" -> "NotRunning"
      [] error \in {"EngineUnavailable", "DaemonUnavailable"} -> "DockerUnavailable"
      [] OTHER -> "Disconnected"

(* connect meets the announced failure before the subscription's end.      *)
connect_error(says) == terminal_error("Conflict", says)

(* resize names the failure it can explain no better.                      *)
resize_error(error) == IF error = "Disconnected" THEN "ResizeFailed" ELSE error
=============================================================================
