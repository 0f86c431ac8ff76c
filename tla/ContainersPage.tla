----------------------------- MODULE ContainersPage ----------------------------
(***************************************************************************)
(* The Containers page of the GUI: gui/src/controllers/containers.rs and    *)
(* gui/src/bridge/containers_bridge.rs.  Containers of a Compose project    *)
(* are listed under their group, which can be selected and operated on as a *)
(* whole.  Every container has an operation of its own.  The runtime state  *)
(* of a container is left out: a group operation then applies to any of its *)
(* members.                                                                 *)
(***************************************************************************)
EXTENDS PageTasks

Containers == Items
NoContainer == None
Group == "group"            \* the one Compose project

(* Tokens are kept for the page, for each container and for each group.     *)
Of(name) == <<name, None>>
Slots ==
    {Of("refresh"), Of("detail"), Of("create"), Of("import"), Of("group")}
        \cup ({"operation", "prepare"} \X Containers)

NoOperation == [kind |-> "Idle", gen |-> 0]

(* ContainersState::new, with the bridge's creation, import and endpoint.   *)
new(members) ==
    [initialized |-> FALSE, rows |-> {}, members |-> members, expanded |-> FALSE,
     search |-> NoContainer, selection |-> NoContainer, status |-> "Loading",
     detail_status |-> "None", rows_of |-> 0, detail_of |-> NoContainer,
     gen |-> [refresh |-> 0, selection |-> 0, operation |-> 0, create |-> 0, import |-> 0],
     operations |-> [c \in Containers |-> NoOperation], group_operation |-> NoOperation,
     missed |-> FALSE, creating |-> FALSE, local |-> FALSE]

Init ==
    /\ \E members \in SUBSET Containers : state = new(members)
    /\ docker \in SUBSET Containers
    /\ InitTasks(Slots)

-----------------------------------------------------------------------------
(* ContainersState.                                                        *)

group_members(s) == s.rows \cap s.members
group_exists(s) == group_members(s) # {}

Matches(s, c) == s.search \in {NoContainer, c}
NamesGroup(s) == s.search \in {NoContainer, Group}

(* The containers and the group that have a row on show.                    *)
visible_rows(s) ==
    {c \in s.rows \ s.members : Matches(s, c)}
      \cup (IF group_exists(s) /\ (NamesGroup(s) \/ \E c \in group_members(s) : Matches(s, c))
            THEN {Group} ELSE {})
      \cup (IF s.expanded THEN {c \in group_members(s) : NamesGroup(s) \/ Matches(s, c)} ELSE {})

(* A search that finds a member opens its group.                            *)
rebuild_visible(s) ==
    [s EXCEPT !.expanded = @ \/ \E c \in group_members(s) : s.search = c]

reset_selection_states(s) == [s EXCEPT !.detail_status = "None", !.detail_of = NoContainer]

build_group_detail(s) ==
    [s EXCEPT !.detail_status = IF group_exists(s) THEN "Ready" ELSE "Error",
              !.detail_of = Group]

set_selection(s, selection) ==
    LET reset == reset_selection_states(
                    [s EXCEPT !.selection = selection, !.gen.selection = @ + 1]) IN
    IF selection = s.selection THEN s
    ELSE rebuild_visible(
            IF selection = NoContainer THEN reset
            ELSE IF selection = Group THEN build_group_detail(reset)
            ELSE [reset EXCEPT !.detail_status = "Loading"])

selection_still_exists(s) ==
    \/ s.selection = NoContainer
    \/ s.selection = Group /\ group_exists(s)
    \/ s.selection \in s.rows

replace_source(s, rows) ==
    LET replaced == [s EXCEPT !.rows = rows, !.expanded = @ /\ rows \cap s.members # {}] IN
    rebuild_visible(
        IF ~selection_still_exists(replaced) THEN set_selection(replaced, NoContainer)
        ELSE IF s.selection = Group THEN build_group_detail(replaced)
        ELSE replaced)

ListStatus(rows) == IF rows = {} THEN "Empty" ELSE "Ready"

begin_refresh(s) ==
    [s EXCEPT !.gen.refresh = @ + 1, !.status = IF s.rows = {} THEN "Loading" ELSE @]

apply_live(s, rows, id) ==
    [replace_source(s, rows) EXCEPT !.status = ListStatus(rows), !.rows_of = id]

apply_list_error(s) ==
    [set_selection([s EXCEPT !.rows = {}, !.rows_of = 0], NoContainer) EXCEPT !.status = "Error"]

toggled(s) == rebuild_visible([s EXCEPT !.expanded = ~@])

(* A click on the selected row takes the selection away.                    *)
select_row(s, row) ==
    IF row \notin visible_rows(s) THEN s
    ELSE set_selection(s, IF row = s.selection THEN NoContainer ELSE row)

select_container(s, c) == IF c \in s.rows THEN set_selection(s, c) ELSE s

reloading(s) == [reset_selection_states(s) EXCEPT !.detail_status = "Loading"]

(* Mutant: an inspect is taken for the selection's whatever the generation. *)
DetailOfAny(s, g, c) == s.selection \in Containers

DetailApplies(s, g, c) == g = s.gen.selection /\ s.selection = c

apply_detail(s, c) == [s EXCEPT !.detail_status = "Ready", !.detail_of = c]

(* The error carries no container: the generation says whose it is.         *)
DetailErrorApplies(s, g) == g = s.gen.selection /\ s.selection \in Containers
apply_detail_error(s, c) == [s EXCEPT !.detail_status = "Error", !.detail_of = c]

Begun(s, kind) == [kind |-> kind, gen |-> s.gen.operation + 1]

begin_operation(s, c, kind) ==
    [s EXCEPT !.gen.operation = @ + 1, !.operations[c] = Begun(s, kind)]

finish_operation(s, c, g, kind) ==
    IF s.operations[c] = [kind |-> kind, gen |-> g]
    THEN [s EXCEPT !.operations[c] = NoOperation] ELSE s

begin_group_operation(s, kind) ==
    [s EXCEPT !.gen.operation = @ + 1, !.group_operation = Begun(s, kind), !.missed = FALSE]

(* The group is looked up among the current ones; missed remembers that it  *)
(* was not there.                                                           *)
finish_group_operation(s, g, kind) ==
    IF ~group_exists(s) THEN [s EXCEPT !.missed = TRUE]
    ELSE IF s.group_operation = [kind |-> kind, gen |-> g]
    THEN [s EXCEPT !.group_operation = NoOperation] ELSE s

WithoutRows(s, ids) ==
    LET left == s.rows \ ids IN
    rebuild_visible(
        [s EXCEPT !.rows = left, !.status = ListStatus(left),
                  !.operations = [c \in Containers |-> IF c \in ids THEN NoOperation ELSE @[c]],
                  !.expanded = @ /\ left \cap s.members # {}])

SelectionRemoved(s, ids) ==
    \/ s.selection \in ids
    \/ s.selection = Group /\ group_exists(s) /\ group_members(s) \subseteq ids

(* Which row is adjacent depends on the order of the list.                  *)
Neighbours(s, ids) ==
    LET visible == visible_rows(WithoutRows(s, ids)) IN
    IF ~SelectionRemoved(s, ids) \/ visible = {} THEN {NoContainer} ELSE visible

remove_local_many(s, ids, neighbour) ==
    LET left == WithoutRows(s, ids) IN
    IF SelectionRemoved(s, ids) THEN set_selection(left, neighbour) ELSE left

-----------------------------------------------------------------------------
(* The bridge.                                                             *)

refresh(m) ==
    LET taken == Take(m, Of("refresh"))
        s == begin_refresh(m.state) IN
    IF client
    THEN Spawn(With(taken, [s EXCEPT !.local = TRUE]), Of("refresh"),
               Silent(Asked("refresh", NoContainer, {}, s.gen.refresh)))
    ELSE With(taken, apply_list_error(s))

(* The inspect under way is cancelled whatever the action.                  *)
handle_selection_action(m, loads) ==
    LET taken == Take(m, Of("detail"))
        s == m.state IN
    IF ~loads THEN taken
    ELSE IF client
    THEN Spawn(taken, Of("detail"), Silent(Asked("detail", s.selection, {}, s.gen.selection)))
    ELSE With(taken, apply_detail_error(s, s.selection))

(* What set_selection returns: a container newly selected is loaded.        *)
Loads(before, after) ==
    after.gen.selection # before.gen.selection /\ after.selection \in Containers

Selects(s) == Does(handle_selection_action(With(Model, s), Loads(state, s)))

initialize ==
    /\ ~state.initialized /\ ~Closed
    /\ docker_ready' = client
    /\ Becomes(LET m == With(Model, [state EXCEPT !.initialized = TRUE])
               IN IF client THEN refresh(m) ELSE m)
    /\ UNCHANGED <<queue, docker, client, lost_at, actions>>

Refresh == state.initialized /\ Does(refresh(Model))

SelectRow(row) == row \in visible_rows(state) /\ Selects(select_row(state, row))

SelectContainer(c) == c \in state.rows /\ Selects(select_container(state, c))

toggle_group == group_exists(state) /\ Does(With(Model, toggled(state)))

set_search(query) ==
    /\ query # state.search
    /\ Does(With(Model, rebuild_visible([state EXCEPT !.search = query])))

reload_detail ==
    /\ state.selection # NoContainer
    /\ Does(IF state.selection = Group
            THEN handle_selection_action(
                     With(Model, build_group_detail(reset_selection_states(state))), FALSE)
            ELSE IF state.detail_status = "Loading" THEN handle_selection_action(Model, FALSE)
            ELSE handle_selection_action(With(Model, reloading(state)), TRUE))

(* begin_create_operation and begin_create_operation_with.                  *)
Creates(kind, c) ==
    LET s == [state EXCEPT !.gen.create = @ + 1, !.creating = TRUE] IN
    /\ state.initialized /\ ~state.creating
    /\ Does(IF client
            THEN Spawn(With(Take(Model, Of("create")), s), Of("create"),
                       Silent(Asked(kind, c, {}, s.gen.create)))
            ELSE Model)

create_container(c) == Creates("create", c)
confirm_pull_and_create(c) == Creates("pull_create", c)

import_environment_file ==
    LET m == Take(Model, Of("import"))
        dropped == [state EXCEPT !.gen.import = @ + 1]
        s == [dropped EXCEPT !.gen.import = @ + 1] IN
    Does(IF state.local
         THEN Spawn(With(m, s), Of("import"), Silent(Asked("import", NoContainer, {}, s.gen.import)))
         ELSE With(m, dropped))

prepare_remove_container(c) ==
    LET slot == <<"prepare", c>> IN
    /\ c \in state.rows
    /\ Does(IF client THEN Spawn(CancelSlot(Model, slot), slot, Silent(Asked("prepare", c, {}, 0)))
            ELSE Model)

run_container_action(c, kind) ==
    LET s == begin_operation(state, c, kind) IN
    /\ client /\ c \in state.rows
    /\ state.operations[c] = NoOperation
    /\ Does(Spawn(With(Model, s), <<"operation", c>>, Asked(kind, c, {}, s.gen.operation)))

(* Removing applies to every member, the other actions to some of them.     *)
group_operation_applies(kind) ==
    IF kind = "Removing" THEN {group_members(state)} ELSE SUBSET group_members(state) \ {{}}

run_group_action(kind, targets) ==
    LET s == begin_group_operation(state, kind) IN
    /\ client /\ group_exists(state)
    /\ state.group_operation = NoOperation
    /\ Does(Spawn(With(Model, s), Of("group"),
                  Silent([Asked("group", NoContainer, targets, s.gen.operation)
                              EXCEPT !.phase = kind])))

Connected ==
    /\ state.initialized /\ client /\ ~docker_ready
    /\ docker_ready' = TRUE
    /\ Becomes(refresh(Model))
    /\ UNCHANGED <<queue, docker, client, lost_at>>

(* Mutant: a creation keeps its generation when everything is cancelled.    *)
CancelKeepsCreation(m) ==
    With(TakeAll(m, Slots), [m.state EXCEPT !.gen.import = @ + 1])

cancel_all(m) ==
    With(TakeAll(m, Slots), [m.state EXCEPT !.gen.create = @ + 1, !.gen.import = @ + 1])

(* Mutant: a lost connection leaves the rows busy, and cancels their requests. *)
ClearsCreationOnly(s) == [s EXCEPT !.creating = FALSE, !.group_operation = NoOperation]

NoOperations(s) ==
    [s EXCEPT !.operations = [c \in Containers |-> NoOperation],
              !.group_operation = NoOperation, !.creating = FALSE]

(* set_connection_state with anything but a connection; the rows stay.      *)
Disconnected(status) ==
    LET m == cancel_all(Model)
        s == NoOperations([m.state EXCEPT !.gen.refresh = @ + 1, !.local = FALSE])
        cleared == IF s.selection # NoContainer THEN set_selection(s, NoContainer)
                   ELSE [s EXCEPT !.gen.selection = @ + 1] IN
    /\ state.initialized
    /\ docker_ready' = FALSE
    /\ lost_at' = serial
    /\ Becomes(With(m, [cleared EXCEPT !.status = status]))
    /\ UNCHANGED <<queue, docker, client>>

shutdown ==
    LET m == cancel_all(Model) IN
    Closes(With(m, NoOperations([m.state EXCEPT
        !.gen.refresh = @ + 1, !.gen.selection = @ + 1, !.gen.operation = @ + 1])))

-----------------------------------------------------------------------------
(* Requests on Tokio.                                                      *)

Kinds == {"Stopping", "Removing"}   \* an action that keeps the container, and one that does not

ListAnswers(t) == t.kind = "refresh" /\ Reads(t, docker)
InspectAnswers(t) ==
    t.kind \in {"detail", "prepare"} /\ Reads(t, IF t.name \in docker THEN t.name ELSE None)
ImportAnswers(t) == t.kind = "import" /\ Reads(t, {})

(* The image is inspected, and missing; or the creation fails.              *)
PullRequired(t) ==
    /\ t.kind = "create" /\ t.phase = "asked" /\ ~t.cancelled
    /\ Answers(t, [kind |-> "pull_required", data |-> None])
    /\ UNCHANGED docker

execute_container_action(t) ==
    IF t.kind \in {"create", "pull_create"}
    THEN IF t.name \in docker THEN {} ELSE {docker \cup {t.name}}
    ELSE IF t.name \notin docker THEN {}
    ELSE IF t.kind = "Removing" THEN {docker \ {t.name}} ELSE {docker}

Operations == Kinds \cup {"create", "pull_create"}
OperationRuns(t) == t.kind \in Operations /\ CarriesOut(t, execute_container_action(t))
OperationFails(t) == t.kind \in Operations /\ Refused(t)
OperationAnswers(t) ==
    /\ t.kind \in Operations /\ t.phase = "done"
    /\ Answers(t, [kind |-> "ok", data |-> None])
    /\ UNCHANGED docker

(* select! of a container's action yields OperationCancelled instead.       *)
ActionCancelled(t) ==
    /\ t.kind \in Kinds /\ t.cancelled
    /\ Answers(t, [kind |-> "error", data |-> None])
    /\ UNCHANGED docker

(* The members are operated on one by one; each may fail.                   *)
execute_compose_action(t) ==
    /\ t.kind = "group"
    /\ \E done \in SUBSET (t.target \cap docker) :
        /\ docker' = IF t.phase = "Removing" THEN docker \ done ELSE docker
        /\ Answers(t, [kind |-> "ok", data |-> done])

-----------------------------------------------------------------------------
(* Closures on the Qt thread, run in the order they were queued.           *)

RefreshClosure(m, t, result) ==
    IF t.gen # state.gen.refresh THEN m
    ELSE With(Forget(m, Of("refresh")),
              IF result.kind = "ok" THEN apply_live(state, result.data, t.id)
              ELSE apply_list_error(state))

DetailClosure(m, t, result) ==
    IF result.kind = "ok" /\ DetailApplies(state, t.gen, t.name)
    THEN With(Forget(m, Of("detail")), apply_detail(state, t.name))
    ELSE IF result.kind = "error" /\ DetailErrorApplies(state, t.gen)
    THEN With(Forget(m, Of("detail")), apply_detail_error(state, t.name))
    ELSE m

(* queue_create_result and the two other closures of a creation.            *)
CreateClosure(m, t, result) ==
    LET done == With(Forget(m, Of("create")), [state EXCEPT !.creating = FALSE]) IN
    IF t.gen # state.gen.create THEN m
    ELSE IF result.kind = "ok" THEN refresh(done) ELSE done

ImportClosure(m, t) == IF t.gen # state.gen.import THEN m ELSE Forget(m, Of("import"))

PrepareClosure(m, t) == Forget(m, <<"prepare", t.name>>)

(* The row of a deleted container goes whatever the generation.             *)
ActionClosure(m, t, result, neighbour) ==
    LET finished == finish_operation(state, t.name, t.gen, t.kind)
        s == IF result.kind = "ok" /\ t.kind = "Removing"
             THEN remove_local_many(finished, {t.name}, neighbour) ELSE finished
        handled == handle_selection_action(With(Forget(m, t.slot), s), Loads(state, s)) IN
    IF result.kind = "ok" THEN refresh(handled) ELSE handled

GroupClosure(m, t, result, neighbour) ==
    LET finished == finish_group_operation(state, t.gen, t.phase)
        s == IF t.phase = "Removing" /\ result.data # {}
             THEN remove_local_many(finished, result.data, neighbour) ELSE finished IN
    refresh(handle_selection_action(With(Forget(m, t.slot), s), Loads(state, s)))

Removed(t, result) ==
    IF t.kind = "group" THEN IF t.phase = "Removing" THEN result.data ELSE {}
    ELSE IF t.kind = "Removing" /\ result.kind = "ok" THEN {t.name} ELSE {}

Closure(t, result, neighbour) ==
    CASE t.kind = "refresh" -> RefreshClosure(Model, t, result)
      [] t.kind = "detail" -> DetailClosure(Model, t, result)
      [] t.kind \in {"create", "pull_create"} -> CreateClosure(Model, t, result)
      [] t.kind = "import" -> ImportClosure(Model, t)
      [] t.kind = "prepare" -> PrepareClosure(Model, t)
      [] t.kind = "group" -> GroupClosure(Model, t, result, neighbour)
      [] OTHER -> ActionClosure(Model, t, result, neighbour)

ClosureRuns ==
    /\ queue # <<>>
    /\ LET t == Head(queue).task
           result == Head(queue).result
       IN \E neighbour \in Neighbours(state, Removed(t, result)) :
              RunsNext(Closure(t, result, neighbour))

-----------------------------------------------------------------------------

User ==
    \/ Refresh \/ reload_detail \/ toggle_group \/ import_environment_file
    \/ \E query \in Containers \cup {NoContainer, Group} : set_search(query)
    \/ \E row \in Containers \cup {Group} : SelectRow(row)
    \/ \E c \in Containers :
        \/ SelectContainer(c) \/ create_container(c) \/ confirm_pull_and_create(c)
        \/ prepare_remove_container(c)
        \/ \E kind \in Kinds : run_container_action(c, kind)
    \/ \E kind \in Kinds : \E targets \in group_operation_applies(kind) :
        run_group_action(kind, targets)

Connection ==
    \/ ClientChanges \/ Connected
    \/ \E status \in {"Loading", "Error"} : Disconnected(status)

Tokio ==
    \E t \in running :
        \/ ListAnswers(t) \/ InspectAnswers(t) \/ ImportAnswers(t) \/ GivesUp(t)
        \/ PullRequired(t) \/ OperationRuns(t) \/ OperationFails(t) \/ OperationAnswers(t)
        \/ ActionCancelled(t) \/ execute_compose_action(t)

Next ==
    \/ initialize
    \/ Acts /\ (User \/ Connection)
    \/ shutdown
    \/ Tokio
    \/ ClosureRuns

-----------------------------------------------------------------------------
(* What the page shows of a state; every slot and closure that changes the  *)
(* state ends with apply_state.                                             *)
apply_state(s) ==
    [rows |-> visible_rows(s), loading |-> s.status = "Loading",
     selected |-> s.selection, detail_loading |-> s.detail_status = "Loading",
     detail |-> IF s.detail_status \in {"Ready", "Error"} THEN s.detail_of ELSE NoContainer]

Shown == apply_state(state)

-----------------------------------------------------------------------------
(* Properties.                                                             *)

Awaited(kinds, n, g) == \E t \in UnderWay : t.kind \in kinds /\ t.name = n /\ t.gen = g

TypeOK ==
    /\ state.rows \subseteq Containers
    /\ state.status \in {"Loading", "Ready", "Empty", "Error"}
    /\ state.detail_status \in {"None", "Loading", "Ready", "Error"}
    /\ bridge \in [Slots -> 0..serial]
    /\ selection_still_exists(state)

(* A container shown as busy, the creation, and the group unless it was not *)
(* listed when its answer came, have a request under way that ends them.    *)
BusyHasRequest ==
    /\ state.group_operation # NoOperation /\ ~state.missed =>
            Awaited({"group"}, NoContainer, state.group_operation.gen)
    /\ \A c \in Containers : state.operations[c] # NoOperation =>
            Awaited({state.operations[c].kind}, c, state.operations[c].gen)
    /\ state.creating =>
            \E t \in UnderWay : t.kind \in {"create", "pull_create"} /\ t.gen = state.gen.create

(* The list's spinner, while the page is connected, and the detail's, while *)
(* the bridge holds the token of an inspect, have a request under way that  *)
(* ends them.                                                               *)
LoadingHasRequest ==
    /\ Shown.loading /\ docker_ready /\ ~Closed =>
            Awaited({"refresh"}, NoContainer, state.gen.refresh)
    /\ Shown.detail_loading /\ bridge[Of("detail")] # 0 =>
            Awaited({"detail"}, state.selection, state.gen.selection)

(* Does not hold: a group that is not listed when its answer comes and is   *)
(* listed again later stays busy.                                           *)
GroupOperationEnds ==
    state.group_operation # NoOperation =>
        Awaited({"group"}, NoContainer, state.group_operation.gen)

(* The detail or error on show is the selected row's, which is listed.      *)
DetailOfSelection ==
    Shown.detail # NoContainer =>
        /\ Shown.detail = Shown.selected
        /\ IF Shown.selected = Group THEN group_exists(state) ELSE Shown.selected \in state.rows

(* The test duplicate_detail_reload_reuses_the_in_flight_request: a detail  *)
(* shown as loading has its inspect under way.                              *)
DetailLoadEnds ==
    Shown.detail_loading /\ ~Closed =>
        Awaited({"detail"}, state.selection, state.gen.selection)
=============================================================================
