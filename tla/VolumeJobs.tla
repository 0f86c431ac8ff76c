------------------------------ MODULE VolumeJobs ------------------------------
(***************************************************************************)
(* docker-core's services/volumes.rs: creating, cloning, exporting,         *)
(* removing and pruning volumes.  Clone and export run a helper container   *)
(* and clean up behind it, in line when they get that far, and otherwise by *)
(* guards whose Drop spawns a removal that nobody waits for.                *)
(*                                                                         *)
(* One volume name matters, the one that jobs create and clone into, and    *)
(* one destination file.  A volume is the number of its creation, 0 none.   *)
(* Requests that fail validation are refused before they do anything.       *)
(***************************************************************************)
EXTENDS Naturals, FiniteSets, TLC

CONSTANTS Requests, NoRequest, JobKinds

VARIABLES
    state,      \* the removals that dropped guards spawned
    requests,   \* where each job is, its guards and its cancellation token
    engine,     \* the volume, helpers, staging directories, the destination
    ghost       \* what a removal that failed, or no guard, left behind

vars == <<state, requests, engine, ghost>>

Idle ==
    [op |-> "none", pc |-> "idle", cancelled |-> FALSE, seen |-> 0, ok |-> FALSE,
     volume_guard |-> FALSE, helper_guard |-> FALSE, file_guard |-> FALSE]

Init ==
    /\ state = {}
    /\ requests = [r \in Requests |-> Idle]
    /\ engine \in [volume : {0, 1}, by : {NoRequest}, made : {1}, helpers : {{}}, creating : {{}},
                   running : {{}}, succeeded : {{}}, staging : {{}}, partial : {{}}, destination : {NoRequest}]
    /\ ghost = [failed |-> {}, unguarded |-> {}]

-----------------------------------------------------------------------------
At(r, pc) == requests[r].pc = pc
Goes(r, pc) == requests' = [requests EXCEPT ![r].pc = pc]
Cloning(r) == requests[r].op = "clone"

(* Dropping the guards that are armed: DockerResourceGuard and              *)
(* TemporaryFileGuard spawn what removes the resource.                      *)
drop(r) ==
       (IF requests[r].volume_guard THEN {<<"volume", r>>} ELSE {})
  \cup (IF requests[r].helper_guard THEN {<<"helper", r>>} ELSE {})
  \cup (IF requests[r].file_guard   THEN {<<"files", r>>}  ELSE {})

(* The job's future ends, with its result or dropped where it waits.        *)
Ends(r) ==
    /\ requests' = [requests EXCEPT ![r] =
                        [Idle EXCEPT !.op = requests[r].op, !.pc = "done", !.seen = requests[r].seen,
                                     !.cancelled = requests[r].cancelled]]
    /\ state' = state \cup drop(r)

(* cancellable: a cancelled token wins over the operation.                  *)
cancellable(r) == ~requests[r].cancelled

check_cancellation(r) == cancellable(r)

Asks(r) ==
    /\ At(r, "idle")
    /\ \E kind \in JobKinds :
        requests' = [requests EXCEPT ![r] = [Idle EXCEPT !.op = kind,
            !.pc = CASE kind = "create" -> "create_inspect" [] OTHER -> "inspect"]]
    /\ UNCHANGED <<state, engine, ghost>>

Cancels(r) ==
    /\ ~At(r, "idle") /\ ~At(r, "done") /\ requests[r].op # "create"
    /\ ~requests[r].cancelled
    /\ requests' = [requests EXCEPT ![r].cancelled = TRUE]
    /\ UNCHANGED <<state, engine, ghost>>

-----------------------------------------------------------------------------
(* inspect_volume of the source.                                            *)
inspect_volume(r) ==
    /\ At(r, "inspect")
    /\ \/ cancellable(r) /\ Goes(r, IF Cloning(r) THEN "inspect_target" ELSE "prepare") /\ UNCHANGED state
       \/ Ends(r)
    /\ UNCHANGED <<engine, ghost>>

(* clone_volume refuses a target that exists.                               *)
InspectsTarget(r) ==
    /\ At(r, "inspect_target")
    /\ \/ cancellable(r) /\ engine.volume = 0 /\ Goes(r, "create_inspect") /\ UNCHANGED state
       \/ Ends(r)
    /\ UNCHANGED <<engine, ghost>>

(* Mutant: create_volume does not ask.                                      *)
CreatesUnasked(r) ==
    /\ At(r, "create_inspect")
    /\ requests' = [requests EXCEPT ![r].pc = "create", ![r].seen = engine.made]
    /\ UNCHANGED <<state, engine, ghost>>

(* create_volume asks once more, ...                                        *)
CreateInspects(r) ==
    /\ At(r, "create_inspect")
    /\ \/ /\ engine.volume = 0
          /\ requests' = [requests EXCEPT ![r].pc = "create", ![r].seen = engine.made]
          /\ UNCHANGED state
       \/ Ends(r)
    /\ UNCHANGED <<engine, ghost>>

(* ... and creates: Docker answers with the volume there is, or makes one.  *)
(* An answer that comes too late is an error, although the volume is there. *)
create_volume(r) ==
    /\ At(r, "create")
    /\ \/ /\ engine' = IF engine.volume # 0 THEN engine
                       ELSE [engine EXCEPT !.volume = engine.made + 1, !.made = @ + 1, !.by = r]
          /\ \/ Goes(r, "created") /\ UNCHANGED <<state, ghost>>
             \/ /\ Ends(r)
                /\ ghost' = [ghost EXCEPT !.unguarded = @ \cup {<<"volume", r>>}]
       \/ Ends(r) /\ UNCHANGED <<engine, ghost>>

(* The inspection that follows cannot fail it.  Only then does clone_volume *)
(* arm the guard of its target.                                             *)
Created(r) ==
    /\ At(r, "created")
    /\ \/ ~Cloning(r) /\ Ends(r)
       \/ /\ Cloning(r)
          /\ requests' = [requests EXCEPT ![r].volume_guard = TRUE,
                            ![r].pc = IF check_cancellation(r) THEN "create_helper" ELSE "cleanup"]
          /\ UNCHANGED state
    /\ UNCHANGED <<engine, ghost>>

-----------------------------------------------------------------------------
(* prepare_export_paths: the destination must not exist, the staging        *)
(* directory is made, then its permissions are set.                         *)
prepare_export_paths(r) ==
    /\ At(r, "prepare")
    /\ \/ /\ engine.destination = NoRequest
          /\ engine' = [engine EXCEPT !.staging = @ \cup {r}]
          /\ Goes(r, "permissions") /\ UNCHANGED state
       \/ Ends(r) /\ UNCHANGED engine
    /\ UNCHANGED ghost

set_permissions(r) ==
    /\ At(r, "permissions")
    /\ \/ Goes(r, "prepared") /\ UNCHANGED <<state, engine, ghost>>
       \/ /\ Ends(r)
          /\ \/ engine' = [engine EXCEPT !.staging = @ \ {r}] /\ UNCHANGED ghost
             \/ ghost' = [ghost EXCEPT !.failed = @ \cup {<<"directory", r>>}] /\ UNCHANGED engine

(* Mutant: no guard for the staging directory.                              *)
NoFileGuard(r) ==
    /\ At(r, "prepared") /\ check_cancellation(r)
    /\ Goes(r, "create_helper")
    /\ UNCHANGED <<state, engine, ghost>>

(* export_volume makes sure that it is not cancelled, and then arms         *)
(* TemporaryFileGuard.                                                      *)
ArmsFileGuard(r) ==
    /\ At(r, "prepared") /\ check_cancellation(r)
    /\ requests' = [requests EXCEPT ![r].file_guard = TRUE, ![r].pc = "create_helper"]
    /\ UNCHANGED <<state, engine, ghost>>

CancelledUnguarded(r) ==
    /\ At(r, "prepared") /\ ~check_cancellation(r)
    /\ Ends(r)
    /\ ghost' = [ghost EXCEPT !.unguarded = @ \cup {<<"files", r>>}]
    /\ UNCHANGED engine

-----------------------------------------------------------------------------
(* create_helper arms the guard, sends the request and waits; Docker makes  *)
(* the container when it gets to it.                                        *)
create_helper(r) ==
    /\ At(r, "create_helper")
    /\ engine' = [engine EXCEPT !.creating = @ \cup {r}]
    /\ requests' = [requests EXCEPT ![r].helper_guard = TRUE, ![r].pc = "creating"]
    /\ UNCHANGED <<state, ghost>>

DockerCreates(r) ==
    /\ r \in engine.creating
    /\ \/ engine' = [engine EXCEPT !.creating = @ \ {r}, !.helpers = @ \cup {r}]
       \/ engine' = [engine EXCEPT !.creating = @ \ {r}]
    /\ UNCHANGED <<state, requests, ghost>>

(* The answer, an error, a timeout or the cancellation.  An error drops the *)
(* helper's guard at once, a clone then goes on to remove its target.       *)
HelperCreated(r) ==
    /\ At(r, "creating")
    /\ \/ /\ cancellable(r) /\ r \in engine.helpers
          /\ Goes(r, "start") /\ UNCHANGED state
       \/ /\ Cloning(r)
          /\ requests' = [requests EXCEPT ![r].helper_guard = FALSE, ![r].pc = "cleanup"]
          /\ state' = state \cup {<<"helper", r>>}
       \/ ~Cloning(r) /\ Ends(r)
    /\ UNCHANGED <<engine, ghost>>

(* run_helper: start and wait for status 0; cancelled, timed out, failed.   *)
(* A start that is given up may still be carried out.                       *)
Started(r) == [engine EXCEPT !.running = @ \cup {r}]

run_helper(r) ==
    /\ \/ /\ At(r, "start") /\ cancellable(r) /\ r \in engine.helpers
          /\ engine' = Started(r)
          /\ Goes(r, "wait")
       \/ /\ At(r, "wait") /\ cancellable(r) /\ r \in engine.succeeded
          /\ requests' = [requests EXCEPT ![r].ok = TRUE, ![r].pc = "remove_helper"]
          /\ UNCHANGED engine
       \/ /\ At(r, "start") \/ At(r, "wait")
          /\ Goes(r, "remove_helper")
          /\ \/ UNCHANGED engine
             \/ At(r, "start") /\ r \in engine.helpers /\ engine' = Started(r)
    /\ UNCHANGED <<state, ghost>>

(* The helper of an export begins the file of the staging directory, ...    *)
HelperWrites(r) ==
    /\ r \in engine.running /\ ~Cloning(r) /\ r \in engine.staging
    /\ r \notin engine.partial
    /\ engine' = [engine EXCEPT !.partial = @ \cup {r}]
    /\ UNCHANGED <<state, requests, ghost>>

(* ... and a helper exits: with status 0 when it copied everything, or not. *)
HelperExits(r) ==
    /\ r \in engine.running
    /\ \/ /\ Cloning(r) \/ r \in engine.partial
          /\ engine' = [engine EXCEPT !.running = @ \ {r}, !.succeeded = @ \cup {r}]
       \/ engine' = [engine EXCEPT !.running = @ \ {r}]
    /\ UNCHANGED <<state, requests, ghost>>

WithoutHelper(r) == [engine EXCEPT !.helpers = @ \ {r}, !.running = @ \ {r}]

(* remove_helper, and what each job makes of the two results.               *)
AfterHelper(r, removed) ==
    IF requests[r].ok /\ removed THEN IF Cloning(r) THEN "cloned" ELSE "rename"
    ELSE IF Cloning(r) THEN "cleanup" ELSE "failed"

remove_helper(r) ==
    /\ At(r, "remove_helper")
    /\ \E removed \in BOOLEAN :
        /\ engine' = IF removed THEN WithoutHelper(r) ELSE engine
        /\ requests' = [requests EXCEPT ![r].helper_guard = ~removed, ![r].pc = AfterHelper(r, removed)]
    /\ UNCHANGED <<state, ghost>>

(* The clone succeeded: disarm the guard of the target.                     *)
CloneSucceeds(r) ==
    /\ At(r, "cloned")
    /\ requests' = [requests EXCEPT ![r].volume_guard = FALSE, ![r].pc = "done"]
    /\ UNCHANGED <<state, engine, ghost>>

ExportFails(r) == At(r, "failed") /\ Ends(r) /\ UNCHANGED <<engine, ghost>>

(* Docker keeps a volume that a container mounts.                           *)
Mounted == \E r \in engine.helpers : Cloning(r)
WithoutVolume == [engine EXCEPT !.volume = 0, !.by = NoRequest]

(* cleanup_failed_clone, after which the armed guard removes once more.     *)
cleanup_failed_clone(r) ==
    /\ At(r, "cleanup")
    /\ \/ engine' = IF Mounted THEN engine ELSE WithoutVolume
       \/ UNCHANGED engine
    /\ Ends(r)
    /\ UNCHANGED ghost

(* The export succeeded: rename, which replaces what is there, remove the   *)
(* staging directory, disarm the guard.                                     *)
rename(r) ==
    /\ At(r, "rename")
    /\ \/ /\ r \in engine.partial
          /\ engine' = [engine EXCEPT !.partial = @ \ {r}, !.destination = r]
          /\ Goes(r, "remove_dir") /\ UNCHANGED state
       \/ Ends(r) /\ UNCHANGED engine
    /\ UNCHANGED ghost

remove_dir(r) ==
    /\ At(r, "remove_dir")
    /\ \/ /\ engine' = [engine EXCEPT !.staging = @ \ {r}]
          /\ requests' = [requests EXCEPT ![r].file_guard = FALSE, ![r].pc = "done"]
          /\ UNCHANGED state
       \/ Ends(r) /\ UNCHANGED engine
    /\ UNCHANGED ghost

-----------------------------------------------------------------------------
(* The future of a job is dropped where it waits.                           *)
Waits == {"inspect", "inspect_target", "create_inspect", "created", "prepare", "permissions",
          "creating", "start", "wait", "remove_helper", "cleanup", "rename", "remove_dir"}

Unguarded(r) ==
       (IF At(r, "created") THEN {<<"volume", r>>} ELSE {})
  \cup (IF At(r, "permissions") THEN {<<"files", r>>} ELSE {})

Dropped(r) ==
    /\ requests[r].pc \in Waits
    /\ Ends(r)
    /\ ghost' = [ghost EXCEPT !.unguarded = @ \cup Unguarded(r)]
    /\ UNCHANGED engine

(* The removals that guards spawned, each of which may fail unnoticed.  The *)
(* files go first, then the directory if it is empty.                       *)
Fails(what, r) == ghost' = [ghost EXCEPT !.failed = @ \cup {<<what, r>>}] /\ UNCHANGED engine

RemovesHelper(r) ==
    /\ state' = state \ {<<"helper", r>>}
    /\ \/ r \notin engine.creating /\ engine' = WithoutHelper(r) /\ UNCHANGED ghost
       \/ Fails("helper", r)

RemovesVolume(r) ==
    /\ state' = state \ {<<"volume", r>>}
    /\ \/ ~Mounted /\ engine' = WithoutVolume /\ UNCHANGED ghost
       \/ Fails("volume", r)

RemovesFile(r) ==
    /\ state' = (state \ {<<"files", r>>}) \cup {<<"directory", r>>}
    /\ \/ engine' = [engine EXCEPT !.partial = @ \ {r}]
       \/ UNCHANGED engine
    /\ UNCHANGED ghost

RemovesDirectory(r) ==
    /\ state' = state \ {<<"directory", r>>}
    /\ \/ r \notin engine.partial /\ engine' = [engine EXCEPT !.staging = @ \ {r}] /\ UNCHANGED ghost
       \/ Fails("directory", r)

Removal(r) ==
    /\ \/ <<"helper", r>> \in state /\ RemovesHelper(r)
       \/ <<"volume", r>> \in state /\ RemovesVolume(r)
       \/ <<"files", r>> \in state /\ RemovesFile(r)
       \/ <<"directory", r>> \in state /\ RemovesDirectory(r)
    /\ UNCHANGED requests

(* remove_volume and prune_volumes of a user.                               *)
remove_volume ==
    /\ engine.volume # 0 /\ ~Mounted
    /\ engine' = WithoutVolume
    /\ UNCHANGED <<state, requests, ghost>>

Step(r) ==
    \/ Asks(r) \/ Cancels(r) \/ Dropped(r)
    \/ inspect_volume(r) \/ InspectsTarget(r) \/ CreateInspects(r) \/ create_volume(r) \/ Created(r)
    \/ prepare_export_paths(r) \/ set_permissions(r) \/ ArmsFileGuard(r) \/ CancelledUnguarded(r)
    \/ create_helper(r) \/ DockerCreates(r) \/ HelperCreated(r) \/ run_helper(r) \/ HelperWrites(r)
    \/ HelperExits(r) \/ remove_helper(r) \/ CloneSucceeds(r) \/ ExportFails(r) \/ cleanup_failed_clone(r)
    \/ rename(r) \/ remove_dir(r)
    \/ Removal(r)

Next == remove_volume \/ \E r \in Requests : Step(r)
-----------------------------------------------------------------------------
TypeOK ==
    /\ state \subseteq {"helper", "volume", "files", "directory"} \X Requests
    /\ \A r \in Requests : requests[r].op \in JobKinds \cup {"none"}
    /\ engine.volume <= engine.made
    /\ (engine.volume = 0) => (engine.by = NoRequest)
    /\ engine.running \subseteq engine.helpers /\ engine.partial \subseteq engine.staging

Left(what, r) == <<what, r>> \in state \cup ghost.failed \cup ghost.unguarded

(* Every helper container, staging directory and incomplete target volume   *)
(* of a job has the job at work on it, an armed guard or a spawned removal. *)
(* Left out, by name: what a removal that was tried and failed leaves; and  *)
(* what the code holds without a guard when the job ends there: a target    *)
(* whose create_volume answers too late or is dropped while it inspects the *)
(* volume, a staging directory whose permissions are being set, and one     *)
(* whose job is found cancelled before TemporaryFileGuard is made           *)
(* (CancellationCleansUp says what the documentation promises there).       *)
Accounted ==
    /\ \A r \in engine.helpers \cup engine.creating : requests[r].helper_guard \/ Left("helper", r)
    /\ \A r \in engine.staging :
        \/ requests[r].pc \in {"permissions", "prepared"} \/ requests[r].file_guard
        \/ Left("files", r) \/ Left("directory", r)
    /\ \A r \in Requests : engine.by = r /\ Cloning(r) =>
        \/ requests[r].pc = "created" \/ requests[r].volume_guard \/ requests[r].ok
        \/ Left("volume", r)

(* A destination is only ever an archive whose helper exited with status 0, *)
(* never the part that a failed or removed helper wrote.                    *)
DestinationComplete ==
    engine.destination # NoRequest => engine.destination \in engine.succeeded

RemovedBy(r) ==
    \/ At(r, "cleanup") /\ requests'[r].pc = "done"
    \/ <<"volume", r>> \in state \ state'

Removes == engine.volume # 0 /\ engine'.volume = 0

(* A clone that fails never removes a volume that existed when create_volume *)
(* looked for its target.                                                   *)
OnlyOwn == Removes => \A r \in Requests : RemovedBy(r) => engine.volume > requests[r].seen

(* What the clean-up of a clone removes is the target that this clone made. *)
CloneRemovesItsTarget ==
    [][Removes => \A r \in Requests : RemovedBy(r) => engine.by = r]_vars

(* Cancelling an export leaves no staging directory, unless a removal that   *)
(* was tried failed.                                                        *)
CancellationCleansUp ==
    \A r \in Requests :
        At(r, "done") /\ requests[r].cancelled /\ r \in engine.staging =>
            \E what \in {"files", "directory"} : <<what, r>> \in state \cup ghost.failed
=============================================================================
