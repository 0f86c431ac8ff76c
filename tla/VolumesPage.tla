------------------------------ MODULE VolumesPage ------------------------------
(***************************************************************************)
(* The Volumes page of the GUI: the Qt-free state machine                  *)
(* (gui/src/controllers/volumes.rs) and the bridge that runs its requests  *)
(* on Tokio (gui/src/bridge/volume_bridge.rs).                             *)
(*                                                                         *)
(* A slot of the bridge runs to its end on the Qt thread.  The requests it *)
(* spawns run concurrently and queue a closure for the Qt thread, which    *)
(* runs the closures in order.  A result is applied only under the bridge  *)
(* generation and the state generation it was asked for with.  The bridge  *)
(* generation of a slot is modelled by the number of the request that took *)
(* it (0: bumped, nobody holds it); state generations are counters, because *)
(* losing the connection resets them.                                      *)
(***************************************************************************)
EXTENDS PageTasks

Volumes == Items
NoVolume == None
Names == Volumes \cup {NoVolume}
Jobs == {"export", "clone"}
Prepares == {"remove_prepare", "prune_prepare"}
Slots == {"refresh", "detail", "create", "prune"} \cup Jobs \cup Prepares \cup Volumes

NoJob == [active |-> FALSE, name |-> NoVolume, gen |-> 0, cancellation |-> "Idle"]

(* VolumesState::default.  rows_of and detail_of remember which request the *)
(* rows and the detail came from.                                           *)
DefaultState(order) ==
    [initialized |-> FALSE, rows |-> {}, order |-> order,
     search |-> NoVolume, selected |-> NoVolume, before_filter |-> NoVolume,
     preferred |-> NoVolume,
     list_state |-> "Idle", detail_state |-> "None", rows_of |-> 0, detail_of |-> NoVolume,
     gen |-> [refresh |-> 0, detail |-> 0, operation |-> 0, global |-> 0],
     operations |-> [v \in Volumes |-> "none"], op_gen |-> [v \in Volumes |-> 0],
     global |-> "none", prune_cancellation |-> "Idle", job |-> [j \in Jobs |-> NoJob],
     preparing |-> [p \in Prepares |-> FALSE]]

Init ==
    /\ \E order \in Orders : state = DefaultState(order)
    /\ docker \in SUBSET Volumes
    /\ InitTasks(Slots)

-----------------------------------------------------------------------------
(* VolumesState: every operation maps a state to the next one.             *)

(* rebuild_visible: the rows the query matches, as sorted.                  *)
Matches(s, v) == s.search \in {NoVolume, v}
visible_rows(s) == SelectSeq(s.order, LAMBDA v : v \in s.rows /\ Matches(s, v))
visible_row_exists(s, v) == v \in s.rows /\ Matches(s, v)
FirstVisible(s) == IF visible_rows(s) = <<>> THEN NoVolume ELSE Head(visible_rows(s))

invalidate_detail(s) ==
    [s EXCEPT !.gen.detail = @ + 1, !.detail_state = "None", !.detail_of = NoVolume]

start_selected_inspect(s) ==
    [s EXCEPT !.gen.detail = @ + 1, !.detail_state = "Loading", !.detail_of = NoVolume]

clear_selection(s) == invalidate_detail([s EXCEPT !.selected = NoVolume])

(* Mutant: a refresh leaves the detail as it is.                            *)
RefreshKeepsDetail(s) == [s EXCEPT !.gen.refresh = @ + 1, !.list_state = "Loading"]

begin_refresh(s) ==
    [invalidate_detail(s) EXCEPT !.gen.refresh = @ + 1, !.list_state = "Loading"]

(* Mutant: the previous selection is kept without looking for its row.      *)
DesiredUnchecked(s, preferred) ==
    IF preferred \in s.rows THEN preferred
    ELSE IF s.selected # NoVolume THEN s.selected
    ELSE FirstVisible(s)

(* Which row apply_list selects: the one just created, the previous one, the *)
(* one from before the search, or the first.                                *)
Desired(s, preferred) ==
    IF preferred \in s.rows THEN preferred
    ELSE IF visible_row_exists(s, s.selected) THEN s.selected
    ELSE IF s.search = NoVolume /\ s.before_filter \in s.rows THEN s.before_filter
    ELSE FirstVisible(s)

(* set_selection_without_inspect drops the detail and keeps its generation. *)
apply_list(s, rows, id) ==
    LET listed == [s EXCEPT !.rows = rows, !.rows_of = id, !.preferred = NoVolume,
                            !.list_state = IF rows = {} THEN "Empty" ELSE "Ready"]
        desired == Desired(listed, s.preferred) IN
    IF desired = NoVolume THEN clear_selection(listed)
    ELSE [listed EXCEPT !.selected = desired, !.detail_state = "None", !.detail_of = NoVolume]

apply_list_error(s) ==
    clear_selection([s EXCEPT !.rows = {}, !.rows_of = 0, !.list_state = "Error"])

change_automatic_selection(s, desired) ==
    IF desired = s.selected THEN s
    ELSE IF desired = NoVolume THEN clear_selection(s)
    ELSE start_selected_inspect([s EXCEPT !.selected = desired])

set_search_query(s, query) ==
    LET before == IF s.search = NoVolume /\ query # NoVolume THEN s.selected ELSE s.before_filter
        searched == [s EXCEPT !.search = query,
                              !.before_filter = IF query = NoVolume THEN NoVolume ELSE before]
    IN change_automatic_selection(searched,
           IF query = NoVolume /\ before \in s.rows THEN before
           ELSE IF visible_row_exists(searched, s.selected) THEN s.selected
           ELSE FirstVisible(searched))

apply_detail(s, v) ==
    [s EXCEPT !.detail_state = "Ready", !.detail_of = v]
apply_detail_error(s, v) == [s EXCEPT !.detail_state = "Error", !.detail_of = v]

(* The deleted row's next visible neighbour is selected, else the previous. *)
remove_local(s, v) ==
    LET old == visible_rows(s)
        index == IF v \in Range(old) THEN CHOOSE i \in DOMAIN old : old[i] = v ELSE 1
        removed == [s EXCEPT !.rows = @ \ {v}, !.operations[v] = "none", !.op_gen[v] = 0,
                             !.before_filter = IF @ = v THEN NoVolume ELSE @]
        left == visible_rows(removed)
        selected == IF s.selected # v THEN removed
                    ELSE IF left = <<>> THEN clear_selection(removed)
                    ELSE start_selected_inspect([removed EXCEPT !.selected =
                             left[IF index > Len(left) THEN Len(left) ELSE index]])
    IN [selected EXCEPT !.list_state = IF removed.rows = {} THEN "Empty" ELSE "Ready"]

prefer_volume(s, v) ==
    [s EXCEPT !.preferred = v, !.search = NoVolume, !.before_filter = NoVolume]

begin_global_operation(s, op) == [s EXCEPT !.gen.global = @ + 1, !.global = op]
finish_global_operation(s) == [s EXCEPT !.global = "none"]
begin_prune(s) == [begin_global_operation(s, "prune") EXCEPT !.prune_cancellation = "Cancellable"]
finish_prune(s) == [finish_global_operation(s) EXCEPT !.prune_cancellation = "Idle"]
finish_create(s, v) == prefer_volume(finish_global_operation(s), v)
fail_global_operation(s) ==
    [s EXCEPT !.global = "none", !.prune_cancellation = IF s.global = "prune" THEN "Idle" ELSE @]
global_operation_matches(s, g, op) == s.global = op /\ s.gen.global = g

begin_volume_operation(s, v, op) ==
    [s EXCEPT !.gen.operation = @ + 1, !.operations[v] = op, !.op_gen[v] = s.gen.operation + 1]
finish_volume_operation(s, v) == [s EXCEPT !.operations[v] = "none", !.op_gen[v] = 0]
volume_operation_matches(s, g, v, op) == s.operations[v] = op /\ s.op_gen[v] = g

(* begin_export and begin_clone: one at a time each.                        *)
begin_job(s, j, v) ==
    LET b == begin_volume_operation(s, v, j) IN
    [b EXCEPT !.job[j] = [active |-> TRUE, name |-> v, gen |-> b.op_gen[v],
                          cancellation |-> "Cancellable"]]
task_matches(s, j, g) == s.job[j].active /\ s.job[j].gen = g

(* finish_export, fail_export, finish_clone and fail_clone clear the task and *)
(* the volume it works on.                                                  *)
finish_job(s, j) == [finish_volume_operation(s, s.job[j].name) EXCEPT !.job[j] = NoJob]
finish_clone(s, v) == prefer_volume(finish_job(s, "clone"), v)
request_cancellation(s, j) == [s EXCEPT !.job[j].cancellation = "Requested"]

-----------------------------------------------------------------------------
(* The bridge.                                                             *)

refresh(m) ==
    LET taken == TakeAll(m, {"refresh", "detail"})
        s == begin_refresh(m.state) IN
    IF client
    THEN Spawn(With(taken, s), "refresh", Silent(Asked("refresh", NoVolume, NoVolume, s.gen.refresh)))
    ELSE With(taken, apply_list_error(s))

start_detail_request(m) ==
    LET s == m.state
        taken == Take(m, "detail") IN
    IF client
    THEN Spawn(taken, "detail", Silent(Asked("detail", s.selected, NoVolume, s.gen.detail)))
    ELSE With(taken, apply_detail_error(s, s.selected))

(* load_detail without selecting: inspect the selected row if it is visible. *)
load_detail(m) ==
    IF visible_row_exists(m.state, m.state.selected)
    THEN start_detail_request(With(m, start_selected_inspect(m.state)))
    ELSE m

cancel_all_tokens(m) == TakeAll(m, Slots)

-----------------------------------------------------------------------------
(* What the user and the application do.                                   *)

initialize ==
    /\ ~state.initialized /\ ~Closed
    /\ docker_ready' = client
    /\ Becomes(LET m == With(Model, [state EXCEPT !.initialized = TRUE])
               IN IF client THEN refresh(m) ELSE m)
    /\ UNCHANGED <<queue, docker, client, lost_at, actions>>

Refresh == state.initialized /\ Does(refresh(Model))

update_search_query(query) ==
    LET s == set_search_query(state, query)
        m == With(Model, s) IN
    /\ query # state.search
    /\ Does(IF s.gen.detail # state.gen.detail /\ s.selected # NoVolume
            THEN start_detail_request(m) ELSE m)

update_sort_mode(order) == Does(With(Model, [state EXCEPT !.order = order]))

select_volume(v) ==
    /\ visible_row_exists(state, v)
    /\ ~(state.selected = v /\ state.detail_state # "None")
    /\ Does(start_detail_request(With(Model, start_selected_inspect([state EXCEPT !.selected = v]))))

reload_selected_volume ==
    /\ visible_row_exists(state, state.selected)
    /\ Does(load_detail(Model))

create_volume(target) ==
    LET s == begin_global_operation(state, "create")
        m == With(Take(Model, "create"), s) IN
    /\ state.initialized /\ state.global = "none"
    /\ Does(IF client THEN Spawn(m, "create", Asked("create", NoVolume, target, s.gen.global))
            ELSE With(m, fail_global_operation(s)))

prune_volumes ==
    LET s == begin_prune(state)
        m == With(Take(Model, "prune"), s) IN
    /\ state.initialized /\ state.global = "none"
    /\ Does(IF client THEN Spawn(m, "prune", Asked("prune", NoVolume, NoVolume, s.gen.global))
            ELSE With(m, fail_global_operation(s)))

(* The token of an earlier removal of the volume is gone when it is idle.   *)
remove_volume(v) ==
    LET s == begin_volume_operation(state, v, "remove")
        m == With(Model, s) IN
    /\ v \in state.rows /\ state.operations[v] = "none"
    /\ Does(IF client THEN Spawn(m, v, Asked("remove", v, NoVolume, s.op_gen[v]))
            ELSE With(Forget(m, v), finish_volume_operation(s, v)))

Job(j, v, target) ==
    LET s == begin_job(state, j, v)
        m == With(Take(Model, j), s) IN
    /\ v \in state.rows /\ state.operations[v] = "none"
    /\ ~state.job[j].active
    /\ Does(IF client THEN Spawn(m, j, Asked(j, v, target, s.op_gen[v]))
            ELSE With(m, finish_job(s, j)))

export_volume(v) == Job("export", v, NoVolume)
clone_volume(v, target) == Job("clone", v, target)

(* The dialogs ask the engine what they are about to remove or prune.       *)
Prepare(slot, v) ==
    LET m == With(Take(Model, slot), [state EXCEPT !.preparing[slot] = client]) IN
    /\ state.initialized
    /\ Does(IF client THEN Spawn(m, slot, Silent(Asked(slot, v, NoVolume, 0))) ELSE m)

prepare_remove_volume(v) == Prepare("remove_prepare", v)
prepare_prune_volumes == Prepare("prune_prepare", NoVolume)

cancel_create ==
    /\ \E t \in running : t.id = bridge["create"] /\ ~t.cancelled
    /\ Does(CancelSlot(Model, "create"))

cancel_prune ==
    /\ state.global = "prune" /\ state.prune_cancellation = "Cancellable"
    /\ Does(CancelSlot(With(Model, [state EXCEPT !.prune_cancellation = "Requested"]), "prune"))

CancelJob(j) ==
    /\ state.job[j].cancellation = "Cancellable"
    /\ Does(CancelSlot(With(Model, request_cancellation(state, j)), j))

cancel_export == CancelJob("export")
cancel_clone == CancelJob("clone")

Connected ==
    /\ state.initialized /\ client /\ ~docker_ready
    /\ docker_ready' = TRUE
    /\ Becomes(refresh(Model))
    /\ UNCHANGED <<queue, docker, client, lost_at>>

(* Mutant: what is busy stays busy across a lost connection.                *)
ResetKeepsBusy(list_state) ==
    [DefaultState(state.order) EXCEPT
        !.initialized = state.initialized, !.search = state.search, !.list_state = list_state,
        !.operations = state.operations, !.op_gen = state.op_gen]

ResetState(list_state) ==
    [DefaultState(state.order) EXCEPT
        !.initialized = state.initialized, !.search = state.search, !.list_state = list_state]

(* set_connection_state with anything but a connection.                     *)
Disconnected(list_state) ==
    /\ state.initialized
    /\ docker_ready' = FALSE
    /\ lost_at' = serial
    /\ Becomes(With(cancel_all_tokens(Model), ResetState(list_state)))
    /\ UNCHANGED <<queue, docker, client>>

shutdown ==
    Closes(With(cancel_all_tokens(Model),
                [DefaultState(state.order) EXCEPT !.initialized = state.initialized]))

-----------------------------------------------------------------------------
(* Requests on Tokio.                                                      *)

(* Stage A of refresh: the names.  Stage B patches usage data into rows     *)
(* under the same bridge generation; the model has no such data.            *)
ListAnswers(t) == t.kind = "refresh" /\ Reads(t, docker)

InspectAnswers(t) ==
    /\ t.kind \in {"detail"} \cup Prepares
    /\ Reads(t, IF t.name \in docker \/ t.kind = "prune_prepare" THEN docker ELSE None)

(* What the engine may have when it has carried the operation out.          *)
Effects(t) ==
    CASE t.kind \in {"create", "clone"} -> IF t.target \in docker THEN {} ELSE {docker \cup {t.target}}
      [] t.kind = "remove" -> IF t.name \in docker THEN {docker \ {t.name}} ELSE {}
      [] t.kind = "prune" -> SUBSET docker
      [] OTHER -> {docker}

Operations == {"create", "clone", "remove", "prune", "export"}

OperationRuns(t) == t.kind \in Operations /\ CarriesOut(t, Effects(t))
OperationFails(t) == t.kind \in Operations /\ Refused(t)

(* A cancelled removal stops waiting for the answer; a cancelled creation   *)
(* does not.                                                                *)
OperationAnswers(t) ==
    /\ t.kind \in Operations /\ t.phase = "done"
    /\ t.kind = "create" => ~t.cancelled
    /\ \E kind \in {"ok"} \cup (IF t.kind = "remove" /\ t.cancelled THEN {"error"} ELSE {}) :
            Answers(t, [kind |-> kind, data |-> None])
    /\ UNCHANGED docker

(* It removes what it created, which may fail.                              *)
CreateUndone(t) ==
    /\ t.kind = "create" /\ t.cancelled /\ t.phase = "done"
    /\ Answers(t, [kind |-> "error", data |-> None])
    /\ docker' \in {docker, docker \ {t.target}}

-----------------------------------------------------------------------------
(* Closures on the Qt thread, run in the order they were queued.           *)

RefreshClosure(m, t, result) ==
    IF t.gen # state.gen.refresh THEN m
    ELSE IF result.kind = "ok"
    THEN load_detail(With(m, apply_list(state, result.data, t.id)))
    ELSE With(m, apply_list_error(state))

(* Mutant: a detail is accepted for whichever volume is selected.           *)
DetailOfAny(t) == state.selected \in state.rows

DetailApplies(t) == t.name = state.selected /\ t.name \in state.rows

DetailClosure(m, t, result) ==
    IF t.gen # state.gen.detail THEN m
    ELSE IF result.kind = "ok" THEN IF DetailApplies(t) THEN With(m, apply_detail(state, t.name)) ELSE m
    ELSE IF state.selected = NoVolume THEN m
    ELSE With(m, apply_detail_error(state, t.name))

CreateClosure(m, t, result) ==
    IF ~global_operation_matches(state, t.gen, "create") THEN m
    ELSE IF result.kind = "ok" THEN refresh(With(m, finish_create(state, t.target)))
    ELSE With(m, fail_global_operation(state))

PruneClosure(m, t, result) ==
    IF ~global_operation_matches(state, t.gen, "prune") THEN m
    ELSE IF result.kind = "ok" THEN refresh(With(m, finish_prune(state)))
    ELSE With(m, fail_global_operation(state))

RemoveClosure(m, t, result) ==
    LET done == Forget(m, t.slot)
        s == finish_volume_operation(state, t.name) IN
    IF ~volume_operation_matches(state, t.gen, t.name, "remove") THEN done
    ELSE IF result.kind = "ok" THEN refresh(With(done, remove_local(s, t.name)))
    ELSE With(done, s)

ExportClosure(m, t) ==
    IF task_matches(state, "export", t.gen) THEN With(m, finish_job(state, "export")) ELSE m

CloneClosure(m, t, result) ==
    IF ~task_matches(state, "clone", t.gen) THEN m
    ELSE IF result.kind = "ok" THEN refresh(With(m, finish_clone(state, t.target)))
    ELSE With(m, finish_job(state, "clone"))

PrepareClosure(m, t) == With(m, [state EXCEPT !.preparing[t.kind] = FALSE])

Closure(t, result) ==
    CASE t.kind = "refresh" -> RefreshClosure(Model, t, result)
      [] t.kind = "detail" -> DetailClosure(Model, t, result)
      [] t.kind = "create" -> CreateClosure(Model, t, result)
      [] t.kind = "prune" -> PruneClosure(Model, t, result)
      [] t.kind = "remove" -> RemoveClosure(Model, t, result)
      [] t.kind = "export" -> ExportClosure(Model, t)
      [] t.kind = "clone" -> CloneClosure(Model, t, result)
      [] OTHER -> PrepareClosure(Model, t)

(* Mutant: only the state generation is compared.                           *)
CurrentByState(t) == TRUE

(* The bridge generation a closure checks first.                            *)
Current(t) == bridge[t.slot] = t.id

ClosureRuns ==
    /\ queue # <<>>
    /\ LET t == Head(queue).task IN
       RunsNext(IF Current(t) THEN Closure(t, Head(queue).result) ELSE Model)

-----------------------------------------------------------------------------

User ==
    \/ Refresh \/ reload_selected_volume \/ prune_volumes \/ prepare_prune_volumes
    \/ cancel_create \/ cancel_prune \/ cancel_export \/ cancel_clone
    \/ \E v \in Names : update_search_query(v)
    \/ \E order \in Orders : update_sort_mode(order)
    \/ \E v \in Volumes :
        \/ select_volume(v) \/ create_volume(v) \/ prepare_remove_volume(v)
        \/ remove_volume(v) \/ export_volume(v)
        \/ \E target \in Volumes \ {v} : clone_volume(v, target)

Connection ==
    \/ ClientChanges \/ Connected
    \/ \E list_state \in {"Loading", "Error"} : Disconnected(list_state)

Tokio ==
    \E t \in running :
        \/ ListAnswers(t) \/ InspectAnswers(t) \/ GivesUp(t)
        \/ OperationRuns(t) \/ OperationFails(t) \/ OperationAnswers(t) \/ CreateUndone(t)

Next ==
    \/ initialize
    \/ Acts /\ (User \/ Connection)
    \/ shutdown
    \/ Tokio
    \/ ClosureRuns

-----------------------------------------------------------------------------
(* What the page shows of a state; every slot and closure that changes the  *)
(* state ends with apply_state.                                             *)
apply_state(s) ==
    [rows |-> visible_rows(s), loading |-> s.list_state = "Loading",
     selected |-> s.selected, detail_loading |-> s.detail_state = "Loading",
     detail |-> IF s.detail_state = "Ready" THEN s.detail_of ELSE NoVolume]

Shown == apply_state(state)

-----------------------------------------------------------------------------
(* Properties.                                                             *)

Awaited(kind, v, g) ==
    \E t \in UnderWay : t.kind = kind /\ t.name = v /\ t.gen = g /\ Current(t)

(* Every variable has its shape, and the visible selection is a row.        *)
TypeOK ==
    /\ state.rows \subseteq Volumes /\ state.order \in Orders
    /\ {state.search, state.selected, state.before_filter, state.preferred} \subseteq Names
    /\ state.list_state \in {"Idle", "Loading", "Ready", "Empty", "Error"}
    /\ state.detail_state \in {"None", "Loading", "Ready", "Error"}
    /\ bridge \in [Slots -> 0..serial]
    /\ docker \subseteq Volumes
    /\ state.selected \in state.rows \cup {NoVolume}

(* Whatever is shown as busy has a request under way whose answer will be   *)
(* accepted and clears it: no row, export, clone, create, prune or dialog stays *)
(* busy for ever, whatever was cancelled or reset in between.               *)
BusyHasRequest ==
    /\ \A v \in Volumes : state.operations[v] # "none" =>
            Awaited(state.operations[v], v, state.op_gen[v])
    /\ state.global # "none" => Awaited(state.global, NoVolume, state.gen.global)
    /\ \A p \in Prepares : state.preparing[p] => \E t \in UnderWay : t.kind = p /\ Current(t)
    /\ \A j \in Jobs : state.job[j].active =>
            volume_operation_matches(state, state.job[j].gen, state.job[j].name, j)

(* A spinner has a request under way that ends it: the list's while the     *)
(* page is connected, and the detail's always.                              *)
LoadingHasRequest ==
    /\ Shown.loading /\ docker_ready => Awaited("refresh", NoVolume, state.gen.refresh)
    /\ Shown.detail_loading => Awaited("detail", state.selected, state.gen.detail)

(* The detail on show belongs to the selected volume, which is in the list. *)
DetailOfSelection ==
    Shown.detail # NoVolume => Shown.detail = Shown.selected /\ Shown.selected \in state.rows

(* So does the error shown in its place: "Refresh/detail generations reject *)
(* stale results".                                                          *)
DetailErrorOfSelection ==
    state.detail_state = "Error" => state.detail_of = state.selected
=============================================================================
