------------------------------- MODULE ImagesPage ------------------------------
(***************************************************************************)
(* The Images page of the GUI: gui/src/controllers/images.rs and            *)
(* gui/src/bridge/image_bridge.rs.  Closures are accepted by the generation *)
(* of the controller alone.  An image and the reference it is pulled by are *)
(* one item; architectures, sizes and texts are left out, and with them the *)
(* background inspects that fill in a missing architecture.                 *)
(***************************************************************************)
EXTENDS PageTasks

Images == Items
NoImage == None
Slots == {"refresh", "detail", "pull", "export"} \cup Images

NoTask == [active |-> FALSE, name |-> NoImage]

(* ImagesState::default.  rows_of and detail_of remember which request the  *)
(* rows and the detail came from.                                           *)
DefaultState(order) ==
    [initialized |-> FALSE, rows |-> {}, used |-> {}, order |-> order, search |-> NoImage,
     selected |-> NoImage, preferred |-> NoImage,
     status |-> "Loading", detail_status |-> "None", rows_of |-> 0, detail_of |-> NoImage,
     gen |-> [refresh |-> 0, detail |-> 0, operation |-> 0, pull |-> 0, export |-> 0],
     busy |-> [i \in Images |-> 0], pull |-> NoTask, export |-> NoTask,
     operation_in_progress |-> FALSE]

Init ==
    /\ \E order \in Orders : state = DefaultState(order)
    /\ docker \in SUBSET Images
    /\ InitTasks(Slots)

-----------------------------------------------------------------------------
(* ImagesState.                                                            *)

(* rebuild_visible: the rows the query matches, as sorted.                  *)
row_matches(s, i) == s.search \in {NoImage, i}
visible_rows(s) == SelectSeq(s.order, LAMBDA i : i \in s.rows /\ row_matches(s, i))

begin_refresh(s) ==
    [s EXCEPT !.gen.refresh = @ + 1, !.gen.detail = @ + 1, !.status = "Loading",
              !.detail_status = "None", !.detail_of = NoImage]

set_refresh_selection(s, i) ==
    [s EXCEPT !.selected = i, !.detail_status = "None", !.detail_of = NoImage]

(* Mutant: the detail generation survives a cleared selection.              *)
ClearKeepsGeneration(s) ==
    [s EXCEPT !.selected = NoImage, !.detail_status = "None", !.detail_of = NoImage]

clear_selection(s) ==
    [s EXCEPT !.selected = NoImage, !.detail_status = "None", !.detail_of = NoImage,
              !.gen.detail = @ + 1]

(* The previous selection if it is still listed, else the first visible row *)
(* in use, else the first.                                                  *)
restore_after_refresh(s) ==
    LET rows == visible_rows(s)
        in_use == SelectSeq(rows, LAMBDA i : i \in s.used) IN
    IF s.selected \in s.rows THEN s
    ELSE IF rows = <<>> THEN clear_selection(s)
    ELSE set_refresh_selection(s, Head(IF in_use = <<>> THEN rows ELSE in_use))

apply_list(s, listed, id) ==
    LET new == [s EXCEPT !.rows = listed.rows, !.used = listed.used, !.rows_of = id,
                         !.preferred = NoImage,
                         !.status = IF listed.rows = {} THEN "Empty" ELSE "Ready"] IN
    IF s.preferred \in new.rows THEN set_refresh_selection(new, s.preferred)
    ELSE restore_after_refresh(new)

apply_list_error(s) ==
    clear_selection([s EXCEPT !.rows = {}, !.used = {}, !.rows_of = 0, !.status = "Error"])

restore_selection(s) == IF s.selected \in s.rows THEN s ELSE clear_selection(s)
set_search_query(s, query) == restore_selection([s EXCEPT !.search = query])
set_sort_mode(s, order) == [s EXCEPT !.order = order]

select(s, i) ==
    [s EXCEPT !.selected = i, !.detail_status = "Loading", !.detail_of = NoImage,
              !.gen.detail = @ + 1]

apply_detail(s, i) == [s EXCEPT !.detail_status = "Ready", !.detail_of = i]
apply_detail_error(s, i) == [s EXCEPT !.detail_status = "Error", !.detail_of = i]

Busy(s) == \E i \in Images : s.busy[i] # 0

begin_operation(s, i) ==
    [s EXCEPT !.gen.operation = @ + 1, !.busy[i] = s.gen.operation + 1,
              !.operation_in_progress = TRUE]

finish_operation(s, i) ==
    LET f == [s EXCEPT !.busy[i] = 0] IN
    [f EXCEPT !.operation_in_progress = Busy(f) \/ f.pull.active \/ f.export.active]

(* The deleted row's neighbour is selected and shown as loading.            *)
remove_local(s, i) ==
    LET old == visible_rows(s)
        index == IF i \in Range(old) THEN CHOOSE n \in DOMAIN old : old[n] = i ELSE 1
        removed == [s EXCEPT !.rows = @ \ {i}, !.used = @ \ {i}]
        left == visible_rows(removed)
        next == IF left = <<>> THEN NoImage
                ELSE left[IF index > Len(left) THEN Len(left) ELSE index]
        moved == IF s.selected # i THEN removed
                 ELSE [removed EXCEPT
                        !.gen.detail = @ + 1, !.selected = next, !.detail_of = NoImage,
                        !.detail_status = IF next = NoImage THEN "None" ELSE "Loading"] IN
    [moved EXCEPT !.status = IF removed.rows = {} THEN "Empty" ELSE "Ready"]

begin_pull(s, reference) ==
    [s EXCEPT !.gen.pull = @ + 1, !.pull = [active |-> TRUE, name |-> reference],
              !.operation_in_progress = TRUE]

(* Mutant: the end of a pull forgets the export that goes on.               *)
PullEndsAll(s, prefer) ==
    [s EXCEPT !.preferred = IF prefer THEN s.pull.name ELSE @, !.pull.active = FALSE,
              !.operation_in_progress = Busy(s)]

finish_pull(s, prefer) ==
    [s EXCEPT !.preferred = IF prefer THEN s.pull.name ELSE @, !.pull.active = FALSE,
              !.operation_in_progress = Busy(s) \/ s.export.active]

begin_export(s, i) ==
    [s EXCEPT !.gen.export = @ + 1, !.export = [active |-> TRUE, name |-> i],
              !.operation_in_progress = TRUE]

finish_export(s) ==
    [s EXCEPT !.export.active = FALSE, !.operation_in_progress = Busy(s) \/ s.pull.active]

-----------------------------------------------------------------------------
(* The bridge.                                                             *)

refresh(m) ==
    LET taken == TakeAll(m, {"refresh", "detail"})
        s == begin_refresh(m.state) IN
    IF client
    THEN Spawn(With(taken, s), "refresh", Silent(Asked("refresh", NoImage, NoImage, s.gen.refresh)))
    ELSE With(taken, apply_list_error(s))

(* load_detail once the image is selected.                                  *)
Inspect(m, i) ==
    LET taken == Take(m, "detail")
        s == select(m.state, i) IN
    IF client
    THEN Spawn(With(taken, s), "detail", Silent(Asked("detail", i, NoImage, s.gen.detail)))
    ELSE With(taken, apply_detail_error(s, i))

load_detail(m, i, toggle) ==
    IF toggle /\ m.state.selected = i
    THEN Take(With(m, clear_selection(m.state)), "detail")
    ELSE IF i \in m.state.rows THEN Inspect(m, i) ELSE m

initialize ==
    /\ ~state.initialized /\ ~Closed
    /\ docker_ready' = client
    /\ Becomes(LET m == With(Model, [state EXCEPT !.initialized = TRUE])
               IN IF client THEN refresh(m) ELSE m)
    /\ UNCHANGED <<queue, docker, client, lost_at, actions>>

Refresh == state.initialized /\ Does(refresh(Model))

update_search_query(query) ==
    /\ query # state.search
    /\ Does(With(Model, set_search_query(state, query)))

update_sort_mode(order) == Does(With(Model, set_sort_mode(state, order)))

select_image(i) == i \in state.rows /\ Does(load_detail(Model, i, TRUE))

reload_selected_image ==
    /\ state.selected # NoImage
    /\ Does(load_detail(Model, state.selected, FALSE))

remove_image(i) ==
    LET s == begin_operation(state, i) IN
    /\ client /\ i \in state.rows /\ state.busy[i] = 0
    /\ Does(Spawn(With(Model, s), i, Asked("remove", i, NoImage, s.gen.operation)))

pull_image(reference) ==
    LET s == begin_pull(state, reference) IN
    /\ client /\ state.initialized /\ ~state.pull.active
    /\ Does(Spawn(With(Model, s), "pull", Asked("pull", reference, NoImage, s.gen.pull)))

CancelPull(m) == With(Take(m, "pull"), finish_pull(m.state, FALSE))
cancel_pull == state.pull.active /\ Does(CancelPull(Model))

export_image(i) ==
    LET s == begin_export(state, i) IN
    /\ client /\ i \in state.rows /\ ~state.export.active
    /\ Does(Spawn(With(Model, s), "export", Asked("export", i, NoImage, s.gen.export)))

CancelExport(m) == With(Take(m, "export"), finish_export(m.state))
cancel_export == state.export.active /\ Does(CancelExport(Model))

Connected ==
    /\ state.initialized /\ client /\ ~docker_ready
    /\ docker_ready' = TRUE
    /\ Becomes(refresh(Model))
    /\ UNCHANGED <<queue, docker, client, lost_at>>

(* set_connection_state with anything but a connection: pulls, exports and  *)
(* removals go on.                                                          *)
Disconnected(status) ==
    /\ state.initialized
    /\ docker_ready' = FALSE
    /\ lost_at' = serial
    /\ Becomes(With(TakeAll(Model, {"refresh", "detail"}),
           [clear_selection(state) EXCEPT
                !.gen.refresh = @ + 1, !.rows = {}, !.used = {}, !.rows_of = 0, !.status = status]))
    /\ UNCHANGED <<queue, docker, client>>

shutdown ==
    LET m == CancelExport(CancelPull(TakeAll(Model, {"refresh", "detail"} \cup Images))) IN
    Closes(With(m, [m.state EXCEPT
        !.gen = [g \in DOMAIN @ |-> @[g] + 1],
        !.busy = [i \in Images |-> 0], !.operation_in_progress = FALSE]))

-----------------------------------------------------------------------------
(* Requests on Tokio.                                                      *)

ListAnswers(t) ==
    /\ t.kind = "refresh"
    /\ \E used \in {{}, docker} : Reads(t, [rows |-> docker, used |-> used])

InspectAnswers(t) == t.kind = "detail" /\ Reads(t, IF t.name \in docker THEN t.name ELSE None)

Effects(t) ==
    CASE t.kind = "remove" -> IF t.name \in docker THEN {docker \ {t.name}} ELSE {}
      [] t.kind = "pull" -> {docker \cup {t.name}}
      [] OTHER -> {docker}

Operations == {"remove", "pull", "export"}

OperationRuns(t) == t.kind \in Operations /\ CarriesOut(t, Effects(t))
OperationFails(t) == t.kind \in Operations /\ Refused(t)

(* select! stops waiting for a cancelled operation.                         *)
OperationAnswers(t) ==
    /\ t.kind \in Operations /\ t.phase = "done"
    /\ \E kind \in {"ok"} \cup (IF t.cancelled THEN {"error"} ELSE {}) :
            Answers(t, [kind |-> kind, data |-> None])
    /\ UNCHANGED docker

-----------------------------------------------------------------------------
(* Closures on the Qt thread, run in the order they were queued.           *)

(* Mutant: a list is applied whatever generation asked for it.              *)
AnyListApplies(t) == TRUE

ListApplies(t) == t.gen = state.gen.refresh

RefreshClosure(m, t, result) ==
    IF ~ListApplies(t) THEN m
    ELSE LET s == IF result.kind = "ok" THEN apply_list(state, result.data, t.id)
                  ELSE apply_list_error(state)
             applied == With(Forget(m, "refresh"), s) IN
         IF s.selected = NoImage THEN applied ELSE load_detail(applied, s.selected, FALSE)

DetailClosure(m, t, result) ==
    IF t.gen # state.gen.detail THEN m
    ELSE IF result.kind = "error" THEN With(Forget(m, "detail"), apply_detail_error(state, t.name))
    ELSE IF t.name = state.selected THEN With(Forget(m, "detail"), apply_detail(state, t.name))
    ELSE m

(* Mutant: the closure of a removal leaves a cancelled one busy.            *)
RemoveKeepsCancelled(m, t, result) ==
    IF state.busy[t.name] # t.gen \/ result.kind = "error" THEN m
    ELSE refresh(With(Forget(m, t.name), remove_local(finish_operation(state, t.name), t.name)))

RemoveClosure(m, t, result) ==
    LET s == finish_operation(state, t.name)
        done == Forget(m, t.name) IN
    IF state.busy[t.name] # t.gen THEN m
    ELSE IF result.kind = "error" THEN With(done, s)
    ELSE refresh(With(IF s.selected = t.name THEN Take(done, "detail") ELSE done,
                      remove_local(s, t.name)))

(* apply_pull_progress changes only what the dialog shows.                  *)
PullClosure(m, t, result) ==
    LET success == ~t.cancelled /\ result.kind = "ok"
        done == With(Forget(m, "pull"), finish_pull(state, success)) IN
    IF t.gen # state.gen.pull THEN m
    ELSE IF success THEN refresh(done) ELSE done

ExportClosure(m, t) ==
    IF t.gen # state.gen.export THEN m
    ELSE With(Forget(m, "export"), finish_export(state))

Closure(t, result) ==
    CASE t.kind = "refresh" -> RefreshClosure(Model, t, result)
      [] t.kind = "detail" -> DetailClosure(Model, t, result)
      [] t.kind = "remove" -> RemoveClosure(Model, t, result)
      [] t.kind = "pull" -> PullClosure(Model, t, result)
      [] OTHER -> ExportClosure(Model, t)

ClosureRuns == queue # <<>> /\ RunsNext(Closure(Head(queue).task, Head(queue).result))

-----------------------------------------------------------------------------

User ==
    \/ Refresh \/ reload_selected_image \/ cancel_pull \/ cancel_export
    \/ \E i \in Images \cup {NoImage} : update_search_query(i)
    \/ \E order \in Orders : update_sort_mode(order)
    \/ \E i \in Images : select_image(i) \/ remove_image(i) \/ pull_image(i) \/ export_image(i)

Connection ==
    \/ ClientChanges \/ Connected
    \/ \E status \in {"Loading", "Error"} : Disconnected(status)

Tokio ==
    \E t \in running :
        \/ ListAnswers(t) \/ InspectAnswers(t) \/ GivesUp(t)
        \/ OperationRuns(t) \/ OperationFails(t) \/ OperationAnswers(t)

Next ==
    \/ initialize
    \/ Acts /\ (User \/ Connection)
    \/ shutdown
    \/ Tokio
    \/ ClosureRuns

-----------------------------------------------------------------------------
(* What the page shows of a state; every slot and closure that changes the  *)
(* state ends with apply_state.                                             *)
apply_state(s) ==
    [rows |-> visible_rows(s), loading |-> s.status = "Loading",
     selected |-> s.selected, detail_loading |-> s.detail_status = "Loading",
     detail |-> IF s.detail_status \in {"Ready", "Error"} THEN s.detail_of ELSE NoImage]

Shown == apply_state(state)

-----------------------------------------------------------------------------
(* Properties.                                                             *)

Awaited(kind, i, g) == \E t \in UnderWay : t.kind = kind /\ t.name = i /\ t.gen = g

TypeOK ==
    /\ state.used \subseteq state.rows /\ state.rows \subseteq Images /\ state.order \in Orders
    /\ state.status \in {"Loading", "Ready", "Empty", "Error"}
    /\ state.detail_status \in {"None", "Loading", "Ready", "Error"}
    /\ bridge \in [Slots -> 0..serial]
    /\ state.selected \in state.rows \cup {NoImage}

(* A removal, pull or export shown as going on has a request under way whose *)
(* closure clears it, and the page is marked busy exactly while there is one. *)
BusyHasRequest ==
    /\ \A i \in Images : state.busy[i] # 0 => Awaited("remove", i, state.busy[i])
    /\ state.pull.active => Awaited("pull", state.pull.name, state.gen.pull)
    /\ state.export.active => Awaited("export", state.export.name, state.gen.export)
    /\ state.operation_in_progress <=> Busy(state) \/ state.pull.active \/ state.export.active

(* The list's spinner, while the page is connected, and the detail's have a *)
(* request under way that ends them.                                        *)
LoadingHasRequest ==
    /\ Shown.loading /\ docker_ready /\ ~Closed => Awaited("refresh", NoImage, state.gen.refresh)
    /\ Shown.detail_loading /\ ~Closed => Awaited("detail", state.selected, state.gen.detail)

(* The detail or error on show is the selected image's, which is listed.    *)
DetailOfSelection ==
    Shown.detail # NoImage => Shown.detail = Shown.selected /\ Shown.selected \in state.rows
=============================================================================
