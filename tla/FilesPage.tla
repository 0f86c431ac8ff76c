------------------------------- MODULE FilesPage -------------------------------
(***************************************************************************)
(* The files browser of the GUI: gui/src/controllers/local_fuse_files.rs    *)
(* and gui/src/bridge/local_fuse_files_bridge.rs.  A resource (container,   *)
(* image or volume) is resolved to its FUSE path over IPC; its provider's   *)
(* descriptor is asked for before each listing, and the folders are read    *)
(* through the local mount.  Files can be previewed and saved.              *)
(*                                                                         *)
(* A folder is its depth: 0 is the root, which holds a folder, a file and a *)
(* symlink; 1 is that folder.  docker is the save destination's file and    *)
(* the .part files beside it.                                               *)
(***************************************************************************)
EXTENDS PageTasks

Resources == Items
NoResource == None
Slots == {"resolve", "list", "preview", "save", "operation"}
Folders == 0..1

(* LocalFuseFilesController::default, with the bridge's properties.         *)
Default ==
    [active |-> FALSE, st |-> "Idle", resource |-> NoResource, path |-> NoResource,
     folder |-> 0, history |-> <<>>, narrowed |-> FALSE, listed |-> None,
     gen |-> [controller |-> 0, preview |-> 0, save |-> 0, operation |-> 0],
     client |-> FALSE, provider_of |-> NoResource,
     preview_loading |-> FALSE, preview_of |-> NoResource, preview_cancel |-> "none", save_in_progress |-> FALSE]

Init ==
    /\ state = Default
    /\ docker = [saved |-> None, parts |-> {}]
    /\ InitTasks(Slots)

-----------------------------------------------------------------------------
(* LocalFuseFilesController.  listed is the resource and folder whose        *)
(* entries are on show, narrowed whether the search hides them all.         *)

NoEntries(s) == [s EXCEPT !.listed = None]

OpenAt(s, resource, st) ==
    NoEntries([s EXCEPT !.gen.controller = @ + 1, !.resource = resource, !.path = NoResource,
                        !.folder = 0, !.history = <<>>, !.narrowed = FALSE, !.st = st])

select_resource(s, r) == OpenAt(s, r, "Resolving")
clear_resource(s) == OpenAt(s, NoResource, "Idle")

begin_resolve(s) == [s EXCEPT !.gen.controller = @ + 1, !.st = "Resolving"]
begin_list(s) == [s EXCEPT !.gen.controller = @ + 1, !.st = "Loading"]

(* Only a page that is Ready or Empty already moves between the two.        *)
update_content_state(s) ==
    IF s.st \notin {"Ready", "Empty"} THEN s
    ELSE [s EXCEPT !.st = IF s.listed = None \/ s.narrowed THEN "Empty" ELSE "Ready"]

(* Mutant: a listing is taken whatever the generation it was asked in.      *)
AnyEntries(s, g, r, folder) == update_content_state([s EXCEPT !.listed = <<r, folder>>])

apply_entries(s, g, r, folder) ==
    IF g # s.gen.controller THEN s
    ELSE update_content_state([s EXCEPT !.listed = <<r, folder>>])

apply_error(s, g, st) ==
    IF g # s.gen.controller THEN s ELSE NoEntries([s EXCEPT !.st = st])

set_external_state(s, st) == NoEntries([s EXCEPT !.gen.controller = @ + 1, !.st = st])

MoveTo(s, folder, history) ==
    NoEntries([s EXCEPT !.folder = folder, !.history = history, !.narrowed = FALSE])

navigate_to_token(s, folder) == MoveTo(s, folder, Append(s.history, s.folder))
ToPrevious(s) == MoveTo(s, Last(s.history), Front(s.history))

set_search(s, narrowed) == update_content_state([s EXCEPT !.narrowed = narrowed])

-----------------------------------------------------------------------------
(* The bridge.                                                             *)

clear_provider(s) == [s EXCEPT !.provider_of = NoResource]
clear_preview(s) == [s EXCEPT !.preview_loading = FALSE, !.preview_of = NoResource]
cancel_all(m) == TakeAll(m, Slots)

resolve_resource(m) ==
    LET taken == Take(m, "resolve")
        s == begin_resolve(m.state) IN
    IF m.state.resource = NoResource THEN taken
    ELSE Spawn(With(taken, s), "resolve",
               Silent(Asked("resolve", s.resource, 0, s.gen.controller)))

load_directory(m) ==
    LET taken == Take(m, "list")
        s == begin_list(m.state) IN
    IF m.state.path = NoResource THEN taken
    ELSE Spawn(With(taken, s), "list", Silent(Asked("list", s.path, s.folder, s.gen.controller)))

(* Asked with no generation; only its token says that it is out of date.    *)
query_descriptor_then_list(m) ==
    IF ~m.state.client THEN resolve_resource(m)
    ELSE IF m.state.resource = NoResource THEN m
    ELSE Spawn(Take(m, "resolve"), "resolve",
               Silent(Asked("descriptor", m.state.resource, m.state.folder, 0)))

(* A descriptor that is not ready replaces the listing.                     *)
apply_descriptor(s, r, status) ==
    LET shown == [s EXCEPT !.provider_of = r] IN
    IF status = "Ready" THEN shown ELSE apply_error(shown, s.gen.controller, status)

Activated(m, active) ==
    LET s == [m.state EXCEPT !.active = active] IN
    IF active /\ s.resource # NoResource /\ s.path = NoResource
    THEN resolve_resource(With(m, s)) ELSE With(m, s)

Opened(m, r) ==
    LET s == clear_preview(clear_provider(select_resource(m.state, r)))
        n == With(cancel_all(m), s) IN
    IF r = m.state.resource THEN m
    ELSE IF s.active THEN resolve_resource(n) ELSE n

update_active(active) == active # state.active /\ Does(Activated(Model, active))
open_resource(r) == r # state.resource /\ Does(Opened(Model, r))

(* activateFilesIfNeeded, when the tab is first shown.                      *)
FirstShown ==
    /\ state = Default /\ actions = 0
    /\ \E r \in Resources : Does(Opened(Activated(Model, TRUE), r))
    /\ UNCHANGED actions

close_resource ==
    /\ state.resource # NoResource
    /\ Does(With(cancel_all(Model), clear_preview(clear_provider(clear_resource(state)))))

refresh ==
    Does(IF state.path # NoResource THEN query_descriptor_then_list(Model)
         ELSE resolve_resource(Model))

(* retry, invalidate_snapshot of the open container, and a lost connection. *)
retry == state.resource # NoResource /\ Does(resolve_resource(Model))
set_connection_state == state.active /\ Does(resolve_resource(Model))

(* What the page shows of its controller; every slot and closure that       *)
(* changes it ends with publish_state.                                      *)
publish_state(s) ==
    [rows |-> IF s.narrowed THEN None ELSE s.listed,
     loading |-> s.st \in {"Resolving", "Loading", "Building"}]

EntriesOn == publish_state(state).rows # None
RootEntries == EntriesOn /\ state.listed[2] = 0

Goes(s) == Does(query_descriptor_then_list(With(Model, s)))

open_entry == RootEntries /\ state.folder # 1 /\ Goes(navigate_to_token(state, 1))
navigate_to(folder) == folder < state.folder /\ Goes(navigate_to_token(state, folder))
go_back == state.history # <<>> /\ Goes(ToPrevious(state))
go_up == state.folder > 0 /\ Goes(navigate_to_token(state, state.folder - 1))

update_search(narrowed) ==
    narrowed # state.narrowed /\ Does(With(Model, set_search(state, narrowed)))

Previewing(m) ==
    LET s == [m.state EXCEPT !.gen.preview = @ + 1, !.preview_loading = TRUE,
                             !.preview_cancel = "preview"] IN
    IF s.path = NoResource \/ s.listed = None THEN m
    ELSE Spawn(With(Take(m, "preview"), s), "preview",
               Silent(Asked("preview", s.path, 0, s.gen.preview)))

preview_entry == EntriesOn /\ Does(Previewing(Model))

cancel_preview ==
    Does(With(Take(Model, "preview"), clear_preview([state EXCEPT !.gen.preview = @ + 1])))

(* The link is followed through FUSE, under the controller's generation; a  *)
(* preview under way is cancelled.                                          *)
open_symlink ==
    /\ RootEntries /\ state.path # NoResource
    /\ Does(Spawn(With(Take(Model, "preview"), [state EXCEPT !.preview_cancel = "symlink"]), "preview",
                  Silent(Asked("symlink", state.path, 0, state.gen.controller))))

save_entry ==
    LET s == [state EXCEPT !.gen.save = @ + 1, !.save_in_progress = TRUE] IN
    /\ EntriesOn /\ state.path # NoResource
    /\ Does(Spawn(With(Take(Model, "save"), s), "save", Asked("save", s.path, 0, s.gen.save)))

cancel_save ==
    /\ state.save_in_progress
    /\ Does(With(Take(Model, "save"),
                 [state EXCEPT !.gen.save = @ + 1, !.save_in_progress = FALSE]))

(* perform_mount and perform_provider_refresh.                              *)
perform_operation ==
    LET s == [state EXCEPT !.gen.operation = @ + 1] IN
    Does(Spawn(With(Take(Model, "operation"), s), "operation",
               Silent(Asked("operation", NoResource, 0, s.gen.operation))))

shutdown == Closes(With(cancel_all(Model), clear_resource([state EXCEPT !.client = FALSE])))

-----------------------------------------------------------------------------
(* Requests on Tokio.                                                      *)

Descriptors == {"Ready", "Building", "Error"}

(* resolve_over_ipc and the descriptor of a folder.                         *)
resolve_over_ipc(t) ==
    /\ t.kind \in {"resolve", "descriptor"} /\ ~t.cancelled
    /\ \/ client /\ \E status \in Descriptors : Answers(t, [kind |-> "ok", data |-> status])
       \/ Answers(t, [kind |-> "error", data |-> None])
    /\ UNCHANGED docker

(* read_local_directory, preview_local_file and the symlink's metadata.     *)
read_local(t) ==
    /\ t.kind \in {"list", "preview", "symlink"}
    /\ \E data \in IF t.kind = "symlink" THEN {"folder", "file"} ELSE {"data"} : Reads(t, data)

OperationAnswers(t) == t.kind = "operation" /\ ~t.cancelled /\ Reads(t, "done")

(* copy_local_file_atomic_cancellable: a .part sibling, which is renamed    *)
(* once all of it is written; an error removes it.                          *)
Writing(t, phase) == running' = (running \ {t}) \cup {[t EXCEPT !.phase = phase]}

CopyStarts(t) ==
    /\ t.kind = "save" /\ t.phase = "asked"
    /\ docker' = [docker EXCEPT !.parts = @ \cup {t.id}]
    /\ Writing(t, "copying")
    /\ UNCHANGED <<Qt, queue>>

CopyWritten(t) ==
    /\ t.kind = "save" /\ t.phase = "copying"
    /\ Writing(t, "written")
    /\ UNCHANGED <<Qt, queue, docker>>

(* Mutant: the copy is renamed before all of it is written.                 *)
RenamedAtOnce(t) == t.kind = "save" /\ t.phase = "copying" /\ ~t.cancelled

RenameReady(t) == t.kind = "save" /\ t.phase = "written" /\ ~t.cancelled

CopyRenamed(t) ==
    /\ RenameReady(t)
    /\ docker' = [saved |-> [of |-> t.name, whole |-> t.phase = "written"],
                  parts |-> docker.parts \ {t.id}]
    /\ Answers(t, [kind |-> "ok", data |-> None])

CopyFails(t) ==
    /\ t.kind = "save"
    /\ docker' = [docker EXCEPT !.parts = @ \ {t.id}]
    /\ Answers(t, [kind |-> "error", data |-> None])

-----------------------------------------------------------------------------
(* Closures on the Qt thread, run in the order they were queued.           *)

ResolveClosure(m, t, result) ==
    LET connected == [state EXCEPT !.client = TRUE]
        installed == apply_descriptor([connected EXCEPT !.path = t.name, !.st = "Loading"],
                                      t.name, result.data) IN
    IF result.kind = "error" THEN With(m, apply_error(state, t.gen, "Error"))
    ELSE IF t.gen # state.gen.controller THEN With(m, connected)
    ELSE IF result.data = "Ready" THEN load_directory(With(m, installed))
    ELSE With(m, installed)

DescriptorClosure(m, t, result) ==
    LET s == apply_descriptor(state, t.name, result.data) IN
    IF result.kind = "error" THEN With(m, apply_error(state, state.gen.controller, "Error"))
    ELSE IF result.data = "Ready" THEN load_directory(With(m, s)) ELSE With(m, s)

ListClosure(m, t, result) ==
    With(m, IF result.kind = "ok" THEN apply_entries(state, t.gen, t.name, t.target)
            ELSE apply_error(state, t.gen, "Error"))

PreviewClosure(m, t, result) ==
    IF t.gen # state.gen.preview THEN m
    ELSE With(m, [state EXCEPT !.preview_loading = FALSE,
                               !.preview_of = IF result.kind = "ok" THEN t.name ELSE @])

SymlinkClosure(m, t, result) ==
    IF t.gen # state.gen.controller \/ result.kind = "error" THEN m
    ELSE IF result.data = "file" THEN Previewing(m)
    ELSE IF state.folder = 1 THEN m
    ELSE query_descriptor_then_list(With(m, navigate_to_token(state, 1)))

SaveClosure(m, t) ==
    IF t.gen # state.gen.save THEN m ELSE With(m, [state EXCEPT !.save_in_progress = FALSE])

OperationClosure(m, t, result) ==
    IF t.gen # state.gen.operation THEN m
    ELSE IF result.kind = "error" THEN With(m, set_external_state(state, "Error"))
    ELSE resolve_resource(With(m, [state EXCEPT !.client = TRUE]))

Closure(t, result) ==
    CASE t.kind = "resolve" -> ResolveClosure(Model, t, result)
      [] t.kind = "descriptor" -> DescriptorClosure(Model, t, result)
      [] t.kind = "list" -> ListClosure(Model, t, result)
      [] t.kind = "preview" -> PreviewClosure(Model, t, result)
      [] t.kind = "symlink" -> SymlinkClosure(Model, t, result)
      [] t.kind = "save" -> SaveClosure(Model, t)
      [] OTHER -> OperationClosure(Model, t, result)

ClosureRuns == queue # <<>> /\ RunsNext(Closure(Head(queue).task, Head(queue).result))

-----------------------------------------------------------------------------

User ==
    \/ \E active \in BOOLEAN : update_active(active)
    \/ \E r \in Resources : open_resource(r)
    \/ close_resource \/ refresh \/ retry \/ set_connection_state \/ perform_operation
    \/ open_entry \/ go_back \/ go_up \/ \E folder \in Folders : navigate_to(folder)
    \/ \E narrowed \in BOOLEAN : update_search(narrowed)
    \/ preview_entry \/ cancel_preview \/ open_symlink \/ save_entry \/ cancel_save

Tokio ==
    \E t \in running :
        \/ resolve_over_ipc(t) \/ read_local(t) \/ OperationAnswers(t) \/ GivesUp(t)
        \/ CopyStarts(t) \/ CopyWritten(t) \/ CopyRenamed(t) \/ CopyFails(t)

Next ==
    \/ FirstShown
    \/ Acts /\ (User \/ ClientChanges)
    \/ shutdown
    \/ Tokio
    \/ ClosureRuns

-----------------------------------------------------------------------------
(* Properties.                                                             *)

TypeOK ==
    /\ state.st \in {"Idle", "Resolving", "Loading", "Ready", "Empty", "Building", "Error"}
    /\ state.folder \in Folders /\ state.history \in Seq(Folders)
    /\ {state.resource, state.path, state.provider_of} \subseteq Resources \cup {NoResource}
    /\ state.path \in {NoResource, state.resource}
    /\ bridge \in [Slots -> 0..serial]

Previews == \E t \in UnderWay : t.kind = "preview" /\ t.gen = state.gen.preview

(* A save shown as going on has its copy under way; so has a preview, while *)
(* it and not a symlink's request holds preview_cancel.                     *)
BusyHasRequest ==
    /\ state.save_in_progress =>
            \E t \in UnderWay : t.kind = "save" /\ t.gen = state.gen.save
    /\ state.preview_loading /\ state.preview_cancel = "preview" /\ ~Closed => Previews

(* Does not hold: open_symlink cancels a preview and leaves its mark on.    *)
PreviewEnds == state.preview_loading /\ ~Closed => Previews

(* A page that shows itself loading has the request under way that brings   *)
(* it on, unless it has listed a folder or the daemon builds the index.     *)
LoadingHasRequest ==
    LET Waits ==
            /\ state.active /\ ~Closed
            /\ publish_state(state).loading /\ state.st # "Building"
            /\ state.st = "Loading" => state.listed = None
    IN Waits => \E t \in UnderWay :
                   \/ t.kind = "descriptor"
                   \/ t.kind \in {"resolve", "list"} /\ t.gen = state.gen.controller

(* The entries on show are the open resource's and, once a page that has     *)
(* listed its folder has nothing under way, that folder's.                   *)
DetailOfSelection ==
    state.listed # None =>
        /\ state.listed[1] = state.resource
        /\ UnderWay = {} /\ state.st = "Loading" => state.listed[2] = state.folder

(* "No partial destination is ever exposed, and an error removes the part   *)
(* file."                                                                   *)
SavedWhole ==
    /\ docker.saved # None => docker.saved.whole
    /\ \A part \in docker.parts : \E t \in running : t.kind = "save" /\ t.id = part

(* What the page says of the provider is the open resource's;               *)
(* clear_resource does not keep this.                                       *)
ProviderOfResource == state.provider_of \in {NoResource, state.resource}

(* The UI document's "This folder is empty.": a folder that has been listed, *)
(* with nothing under way, is shown as Ready or Empty.                      *)
ListedIsShown ==
    state.listed # None /\ UnderWay = {} => state.st \in {"Ready", "Empty"}
=============================================================================
