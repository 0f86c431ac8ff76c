------------------------------ MODULE NetworksPage -----------------------------
(***************************************************************************)
(* The Networks page of the GUI: gui/src/controllers/networks.rs and        *)
(* gui/src/bridge/network_bridge.rs.  At most one network is created or     *)
(* removed at a time; a removal is prepared by an inspect that has a bridge *)
(* generation of its own.  A network is known by its name.                  *)
(***************************************************************************)
EXTENDS PageTasks

Networks == Items
NoNetwork == None
Slots == {"refresh", "detail", "create", "remove", "remove_prepare"}

NoOperation == [active |-> FALSE, kind |-> "none", name |-> NoNetwork, gen |-> 0]

(* NetworksState::default, with the bridge's remove preparation.            *)
DefaultState(order) ==
    [initialized |-> FALSE, rows |-> {}, order |-> order, search |-> NoNetwork,
     selected |-> NoNetwork, preferred |-> NoNetwork,
     status |-> "Loading", detail_status |-> "None", rows_of |-> 0, detail_of |-> NoNetwork,
     gen |-> [refresh |-> 0, detail |-> 0, prepare |-> 0],
     operation |-> NoOperation, preparing |-> FALSE]

Init ==
    /\ \E order \in Orders : state = DefaultState(order)
    /\ docker \in SUBSET Networks
    /\ InitTasks(Slots)

-----------------------------------------------------------------------------
(* NetworksState.                                                          *)

row_exists(s, n) == n \in s.rows
row_matches(s, n) == s.search \in {NoNetwork, n}
visible_rows(s) == SelectSeq(s.order, LAMBDA n : n \in s.rows /\ row_matches(s, n))
visible_row_exists(s, n) == n \in s.rows /\ row_matches(s, n)

(* Mutant: a refresh lets an inspect of the old list in.                    *)
InvalidateKeepsGeneration(s) == [s EXCEPT !.detail_status = "None", !.detail_of = NoNetwork]

invalidate_detail(s) ==
    [s EXCEPT !.gen.detail = @ + 1, !.detail_status = "None", !.detail_of = NoNetwork]

start_selected_inspect(s) ==
    [s EXCEPT !.gen.detail = @ + 1, !.detail_status = "Loading", !.detail_of = NoNetwork]

begin_refresh(s) == [invalidate_detail(s) EXCEPT !.gen.refresh = @ + 1, !.status = "Loading"]

set_refresh_selection(s, n) ==
    [s EXCEPT !.selected = n, !.detail_status = "None", !.detail_of = NoNetwork]

clear_selection(s) == invalidate_detail([s EXCEPT !.selected = NoNetwork])

SelectFirst(s) ==
    IF visible_rows(s) = <<>> THEN clear_selection(s)
    ELSE set_refresh_selection(s, Head(visible_rows(s)))

(* The network just created, the previous one, or the first visible one.    *)
apply_list(s, rows, id) ==
    LET listed == [s EXCEPT !.rows = rows, !.rows_of = id, !.preferred = NoNetwork,
                            !.status = IF rows = {} THEN "Empty" ELSE "Ready"] IN
    IF row_exists(listed, s.preferred) THEN set_refresh_selection(listed, s.preferred)
    ELSE IF row_exists(listed, s.selected) THEN set_refresh_selection(listed, s.selected)
    ELSE SelectFirst(listed)

apply_list_error(s) == clear_selection([s EXCEPT !.rows = {}, !.rows_of = 0, !.status = "Error"])

set_search_query(s, query) ==
    LET searched == [s EXCEPT !.search = query] IN
    IF visible_row_exists(searched, s.selected) THEN searched ELSE SelectFirst(searched)

set_sort_mode(s, order) == [s EXCEPT !.order = order]

apply_detail(s, n) == [s EXCEPT !.detail_status = "Ready", !.detail_of = n]
apply_detail_error(s, n) == [s EXCEPT !.detail_status = "Error", !.detail_of = n]

begin_operation(s, kind, n) ==
    [s EXCEPT !.operation = [active |-> TRUE, kind |-> kind, name |-> n, gen |-> @.gen + 1]]

operation_matches(s, g, kind, n) ==
    s.operation = [active |-> TRUE, kind |-> kind, name |-> n, gen |-> g]

EndOperation(s) == [s EXCEPT !.operation = [NoOperation EXCEPT !.gen = s.operation.gen]]

finish_create(s, n) == [EndOperation(s) EXCEPT !.preferred = n, !.search = NoNetwork]
finish_remove(s) == EndOperation(s)
fail_operation(s) == EndOperation(s)

(* The deleted row's next visible neighbour is selected, else the previous. *)
remove_local(s, n) ==
    LET old == visible_rows(s)
        index == IF n \in Range(old) THEN CHOOSE i \in DOMAIN old : old[i] = n ELSE 1
        removed == [s EXCEPT !.rows = @ \ {n}]
        left == visible_rows(removed)
        moved == IF s.selected # n THEN removed
                 ELSE IF left = <<>> THEN clear_selection(removed)
                 ELSE start_selected_inspect([removed EXCEPT !.selected =
                          left[IF index > Len(left) THEN Len(left) ELSE index]]) IN
    [moved EXCEPT !.status = IF removed.rows = {} THEN "Empty" ELSE "Ready"]

-----------------------------------------------------------------------------
(* The bridge.                                                             *)

DropPreparation(s) == [s EXCEPT !.gen.prepare = @ + 1, !.preparing = FALSE]

refresh(m) ==
    LET taken == TakeAll(m, {"refresh", "detail", "remove_prepare"})
        s == begin_refresh(DropPreparation(m.state)) IN
    IF client
    THEN Spawn(With(taken, s), "refresh",
               Silent(Asked("refresh", NoNetwork, NoNetwork, s.gen.refresh)))
    ELSE With(taken, apply_list_error(s))

(* Both select and begin_selected_inspect ask for a listed row.             *)
load_detail(m, n) ==
    LET taken == Take(m, "detail")
        s == start_selected_inspect([m.state EXCEPT !.selected = n]) IN
    IF ~row_exists(m.state, n) THEN m
    ELSE IF client
    THEN Spawn(With(taken, s), "detail", Silent(Asked("detail", n, NoNetwork, s.gen.detail)))
    ELSE With(taken, apply_detail_error(s, n))

initialize ==
    /\ ~state.initialized /\ ~Closed
    /\ docker_ready' = client
    /\ Becomes(LET m == With(Model, [state EXCEPT !.initialized = TRUE])
               IN IF client THEN refresh(m) ELSE m)
    /\ UNCHANGED <<queue, docker, client, lost_at, actions>>

Refresh == state.initialized /\ Does(refresh(Model))

(* Mutant: a search that moves the selection leaves the old inspect to end. *)
SearchOnly(query) ==
    /\ query # state.search
    /\ Does(With(Model, set_search_query(state, query)))

update_search_query(query) ==
    LET s == set_search_query(state, query)
        m == With(Model, s) IN
    /\ query # state.search
    /\ Does(IF s.selected = state.selected THEN m
            ELSE IF s.selected = NoNetwork THEN Take(m, "detail")
            ELSE load_detail(Take(m, "detail"), s.selected))

update_sort_mode(order) == Does(With(Model, set_sort_mode(state, order)))

select_network(n) == row_exists(state, n) /\ Does(load_detail(Model, n))

reload_selected_network ==
    /\ state.selected # NoNetwork
    /\ Does(load_detail(Model, state.selected))

create_network(n) ==
    LET s == begin_operation(state, "create", NoNetwork) IN
    /\ state.initialized /\ ~state.operation.active
    /\ Does(IF client
            THEN Spawn(With(Take(Model, "create"), s), "create",
                       Silent(Asked("create", NoNetwork, n, s.operation.gen)))
            ELSE With(Model, fail_operation(s)))

(* The preparation before is cancelled first, also when the row is gone or  *)
(* there is no connection; its mark then stays.                             *)
prepare_remove_network(n) ==
    LET taken == Take(Model, "remove_prepare")
        s == [state EXCEPT !.gen.prepare = @ + 1, !.preparing = TRUE] IN
    Does(IF client /\ row_exists(state, n)
         THEN Spawn(With(taken, s), "remove_prepare",
                    Silent(Asked("remove_prepare", n, NoNetwork, s.gen.prepare)))
         ELSE taken)

remove_network(n) ==
    LET s == begin_operation(state, "remove", n) IN
    /\ row_exists(state, n) /\ ~state.operation.active
    /\ Does(IF client
            THEN Spawn(With(Take(Model, "remove"), s), "remove",
                       Silent(Asked("remove", n, NoNetwork, s.operation.gen)))
            ELSE With(Model, fail_operation(s)))

Connected ==
    /\ state.initialized /\ client /\ ~docker_ready
    /\ docker_ready' = TRUE
    /\ Becomes(refresh(Model))
    /\ UNCHANGED <<queue, docker, client, lost_at>>

cancel_all(m) == With(TakeAll(m, Slots), DropPreparation(m.state))

Invalidate(s) ==
    [s EXCEPT !.gen.refresh = @ + 1, !.gen.detail = @ + 1,
              !.operation = [NoOperation EXCEPT !.gen = s.operation.gen + 1]]

(* Mutant: the operation stays active across a lost connection.             *)
DropKeepsOperation(s, status) ==
    clear_selection([s EXCEPT !.gen.refresh = @ + 1, !.gen.detail = @ + 1,
                              !.rows = {}, !.rows_of = 0, !.status = status])

Dropped(s, status) ==
    clear_selection([Invalidate(s) EXCEPT !.rows = {}, !.rows_of = 0, !.status = status])

(* set_connection_state with anything but a connection.                     *)
Disconnected(status) ==
    LET m == cancel_all(Model) IN
    /\ state.initialized
    /\ docker_ready' = FALSE
    /\ lost_at' = serial
    /\ Becomes(With(m, Dropped(m.state, status)))
    /\ UNCHANGED <<queue, docker, client>>

shutdown == LET m == cancel_all(Model) IN Closes(With(m, Invalidate(m.state)))

-----------------------------------------------------------------------------
(* Requests on Tokio.                                                      *)

ListAnswers(t) == t.kind = "refresh" /\ Reads(t, docker)

InspectAnswers(t) ==
    /\ t.kind \in {"detail", "remove_prepare"}
    /\ Reads(t, IF t.name \in docker THEN t.name ELSE None)

Effects(t) ==
    IF t.kind = "create" THEN IF t.target \in docker THEN {} ELSE {docker \cup {t.target}}
    ELSE IF t.name \in docker THEN {docker \ {t.name}} ELSE {}

Operations == {"create", "remove"}
OperationRuns(t) == t.kind \in Operations /\ CarriesOut(t, Effects(t))
OperationFails(t) == t.kind \in Operations /\ Refused(t)
OperationAnswers(t) ==
    /\ t.kind \in Operations /\ t.phase = "done"
    /\ Answers(t, [kind |-> "ok", data |-> None])
    /\ UNCHANGED docker

-----------------------------------------------------------------------------
(* Closures on the Qt thread, run in the order they were queued.           *)

RefreshClosure(m, t, result) ==
    IF t.gen # state.gen.refresh THEN m
    ELSE LET s == IF result.kind = "ok" THEN apply_list(state, result.data, t.id)
                  ELSE apply_list_error(state)
             applied == With(Forget(m, "refresh"), s) IN
         IF s.selected = NoNetwork THEN applied ELSE load_detail(applied, s.selected)

DetailClosure(m, t, result) ==
    IF t.gen # state.gen.detail \/ state.selected = NoNetwork THEN m
    ELSE IF result.kind = "error" THEN With(Forget(m, "detail"), apply_detail_error(state, t.name))
    ELSE IF t.name = state.selected /\ row_exists(state, t.name)
         THEN With(Forget(m, "detail"), apply_detail(state, t.name))
    ELSE m

CreateClosure(m, t, result) ==
    LET done == Forget(m, "create") IN
    IF result.kind = "ok"
    THEN IF operation_matches(state, t.gen, "create", NoNetwork)
         THEN refresh(With(done, finish_create(state, t.target))) ELSE m
    ELSE IF state.operation.active /\ state.operation.gen = t.gen
         THEN With(done, fail_operation(state)) ELSE m

RemoveClosure(m, t, result) ==
    LET done == Forget(m, "remove")
        taken == IF state.selected = t.name THEN Take(done, "detail") ELSE done IN
    IF result.kind = "ok"
    THEN IF operation_matches(state, t.gen, "remove", t.name)
         THEN refresh(With(taken, remove_local(finish_remove(state), t.name))) ELSE m
    ELSE IF state.operation.active /\ state.operation.gen = t.gen
         THEN With(done, fail_operation(state)) ELSE m

PrepareClosure(m, t) ==
    IF t.gen # state.gen.prepare THEN m
    ELSE With(Forget(m, "remove_prepare"), [state EXCEPT !.preparing = FALSE])

Closure(t, result) ==
    CASE t.kind = "refresh" -> RefreshClosure(Model, t, result)
      [] t.kind = "detail" -> DetailClosure(Model, t, result)
      [] t.kind = "create" -> CreateClosure(Model, t, result)
      [] t.kind = "remove" -> RemoveClosure(Model, t, result)
      [] OTHER -> PrepareClosure(Model, t)

ClosureRuns == queue # <<>> /\ RunsNext(Closure(Head(queue).task, Head(queue).result))

-----------------------------------------------------------------------------

User ==
    \/ Refresh \/ reload_selected_network
    \/ \E n \in Networks \cup {NoNetwork} : update_search_query(n)
    \/ \E order \in Orders : update_sort_mode(order)
    \/ \E n \in Networks :
        select_network(n) \/ create_network(n) \/ prepare_remove_network(n) \/ remove_network(n)

Connection ==
    \/ ClientChanges \/ Connected
    \/ \E status \in {"Loading", "Error"} : Disconnected(status)

Tokio ==
    \E t \in running :
        \/ ListAnswers(t) \/ InspectAnswers(t) \/ GivesUp(t)
        \/ OperationRuns(t) \/ OperationFails(t) \/ OperationAnswers(t)

Next ==
    \/ initialize
    \/ Acts /\ (User \/ Connection)
    \/ shutdown
    \/ Tokio
    \/ ClosureRuns

-----------------------------------------------------------------------------
(* What the page shows of a state; every slot and closure that changes the  *)
(* state ends with apply_state.                                             *)
apply_state(s) ==
    [rows |-> visible_rows(s), loading |-> s.status = "Loading",
     selected |-> s.selected, detail_loading |-> s.detail_status = "Loading",
     detail |-> IF s.detail_status \in {"Ready", "Error"} THEN s.detail_of ELSE NoNetwork]

Shown == apply_state(state)

-----------------------------------------------------------------------------
(* Properties.                                                             *)

Preparing == \E t \in UnderWay : t.kind = "remove_prepare" /\ t.gen = state.gen.prepare
Awaited(kind, n, g) == \E t \in UnderWay : t.kind = kind /\ t.name = n /\ t.gen = g

TypeOK ==
    /\ state.rows \subseteq Networks /\ state.order \in Orders
    /\ state.status \in {"Loading", "Ready", "Empty", "Error"}
    /\ state.detail_status \in {"None", "Loading", "Ready", "Error"}
    /\ bridge \in [Slots -> 0..serial]
    /\ state.selected \in state.rows \cup {NoNetwork}

(* A creation or removal shown as going on has a request under way that ends *)
(* it, and so has a preparation whose token the bridge holds.               *)
BusyHasRequest ==
    /\ state.operation.active =>
            Awaited(state.operation.kind, state.operation.name, state.operation.gen)
    /\ state.preparing /\ bridge["remove_prepare"] # 0 => Preparing

(* Does not hold: prepare_remove_network cancels a preparation and returns  *)
(* early, with the mark on.                                                 *)
PreparationEnds == state.preparing => Preparing

(* The list's spinner, while the page is connected, and the detail's have a *)
(* request under way that ends them.                                        *)
LoadingHasRequest ==
    /\ Shown.loading /\ docker_ready /\ ~Closed => Awaited("refresh", NoNetwork, state.gen.refresh)
    /\ Shown.detail_loading /\ ~Closed => Awaited("detail", state.selected, state.gen.detail)

(* The detail or error on show is the selected network's, which is listed.  *)
DetailOfSelection ==
    Shown.detail # NoNetwork => Shown.detail = Shown.selected /\ Shown.selected \in state.rows

(* "A newly created network must be visible when the post-create refresh    *)
(* selects it": the selected network has a row on show.                     *)
SelectionVisible ==
    Shown.selected # NoNetwork => Contains(Shown.rows, Shown.selected)
=============================================================================
