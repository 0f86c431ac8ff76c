------------------------------ MODULE SettingsPage ------------------------------
(***************************************************************************)
(* The terminal settings and the launcher of external terminals:            *)
(* gui/src/terminal.rs and gui/src/bridge/terminal_settings_bridge.rs.      *)
(*                                                                         *)
(* docker is the user's machine: the directories of PATH, each a function   *)
(* from the names in it to the executable behind the name (0: not           *)
(* executable), the terminals the desktop prefers, where tuxstack-cli is    *)
(* found, the configuration file, whole or not, and the temporary file.  A  *)
(* line of the file is a header, an application key, a key that only begins *)
(* like it ("prefixed"), or another.                                        *)
(***************************************************************************)
EXTENDS PageTasks, FiniteSetsExt

CONSTANTS
    Candidates,     \* the terminals of candidate_order, in its generic order
    Machines,       \* records of path, preferred and cli
    Contents        \* the contents of the configuration file a user wrote

Auto == "auto"
Ids == {Auto} \cup Range(Candidates)

-----------------------------------------------------------------------------
(* TerminalDetector.                                                       *)

candidate_order(preferred) ==
    <<Auto>> \o SelectSeq(Candidates, LAMBDA id : id \in preferred)
             \o SelectSeq(Candidates, LAMBDA id : id \notin preferred)

(* The first directory that has the name as an executable; 0: none.         *)
find_executable(path, name) ==
    LET found == SelectSeq(path, LAMBDA directory : name \in DOMAIN directory /\ directory[name] # 0)
    IN  IF found = <<>> THEN 0 ELSE Head(found)[name]

Detects(terminals, id, executable) ==
    IF executable = 0 \/ \E i \in DOMAIN terminals : terminals[i].executable = executable
    THEN terminals ELSE Append(terminals, [id |-> id, executable |-> executable])

(* Without xdg-terminal-exec the first terminal also stands for Auto.       *)
WithAuto(terminals) ==
    IF terminals = <<>> \/ \E i \in DOMAIN terminals : terminals[i].id = Auto THEN terminals
    ELSE <<[terminals[1] EXCEPT !.id = Auto]>> \o terminals

detect_with(machine) ==
    WithAuto(FoldLeft(LAMBDA terminals, id : Detects(terminals, id, find_executable(machine.path, id)),
                      <<>>, candidate_order(machine.preferred)))

choose_terminal(terminals, requested) ==
    LET chosen == SelectSeq(terminals, LAMBDA t : t.id = requested) IN
    IF terminals = <<>> THEN "NoTerminalDetected"
    ELSE IF requested = Auto THEN terminals[1].id
    ELSE IF chosen = <<>> THEN "SelectedTerminalUnavailable" ELSE chosen[1].id

-----------------------------------------------------------------------------
(* The configuration file.                                                 *)

Header(value, note) == [kind |-> "header", value |-> value, note |-> note]
Application(value) == [kind |-> "application", value |-> value, note |-> FALSE]

Headers(lines) == {i \in DOMAIN lines : lines[i].kind = "header"}
SectionOf(lines, i) == Max({h \in Headers(lines) : h <= i} \cup {0})
InTerminal(lines, i) ==
    SectionOf(lines, i) # 0 /\ lines[SectionOf(lines, i)].value = "terminal"

(* The first application key of a terminal section decides, whatever it is. *)
Keys(lines) == {i \in DOMAIN lines : lines[i].kind = "application" /\ InTerminal(lines, i)}

parse_preference(lines) ==
    LET keys == Keys(lines)
    IN  IF keys = {} \/ lines[Min(keys)].value \notin Ids THEN Auto ELSE lines[Min(keys)].value

(* A header with a comment behind it is not recognised here.                *)
update_preference(lines, id) ==
    LET sections == {h \in Headers(lines) : lines[h].value = "terminal" /\ ~lines[h].note}
        section == Min(sections)
        end == Min({h \in Headers(lines) : h > section} \cup {Len(lines) + 1})
        keys == {i \in section + 1..end - 1 : lines[i].kind \in {"application", "prefixed"}}
    IN  IF sections = {} THEN lines \o <<Header("terminal", FALSE), Application(id)>>
        ELSE IF keys # {} THEN [lines EXCEPT ![Min(keys)] = Application(id)]
        ELSE SubSeq(lines, 1, section) \o <<Application(id)>> \o SubSeq(lines, end, Len(lines))

-----------------------------------------------------------------------------

NoWrite == [at |-> "none", id |-> Auto, before |-> <<>>, after |-> <<>>, readable |-> TRUE]
Default ==
    [terminals |-> <<>>, selected |-> Auto, error |-> FALSE, write |-> NoWrite,
     saved |-> NoWrite, launched |-> "none"]

(* home: HOME or XDG_CONFIG_HOME is set.                                    *)
Init ==
    /\ state = Default
    /\ docker \in [machine : Machines, home : BOOLEAN, temporary : {"none"},
                   lines : Contents, whole : {TRUE}, readable : BOOLEAN]
    /\ InitTasks({}) /\ client

(* An error counts as Auto for its callers; a missing file is an empty one. *)
read_preference ==
    IF docker.home /\ docker.readable THEN parse_preference(docker.lines) ELSE Auto

(* Also when the window opens.                                              *)
refresh_terminals ==
    LET terminals == detect_with(docker.machine)
        selected == read_preference IN
    Does(With(Model, [state EXCEPT
        !.terminals = terminals, !.error = FALSE,
        !.selected = IF \E i \in DOMAIN terminals : terminals[i].id = selected
                     THEN selected ELSE Auto]))

(* Up to the reading of the file in write_preference, where a file that     *)
(* cannot be read counts as empty.                                          *)
set_default_terminal(id) ==
    LET before == IF docker.readable THEN docker.lines ELSE <<>> IN
    /\ id = Auto \/ \E i \in DOMAIN state.terminals : state.terminals[i].id = id
    /\ Does(With(Model, IF ~docker.home THEN [state EXCEPT !.error = TRUE]
                        ELSE [state EXCEPT !.write =
                                [at |-> "read", id |-> id, before |-> before,
                                 after |-> update_preference(before, id),
                                 readable |-> docker.readable]]))

Writes(s, d) ==
    /\ state' = s /\ docker' = d
    /\ UNCHANGED <<bridge, running, queue, serial, client, docker_ready, lost_at, actions>>

(* create_new refuses a temporary file that is there.                       *)
WriteCreates ==
    /\ state.write.at = "read" /\ docker.temporary = "none"
    /\ Writes([state EXCEPT !.write.at = "created"], [docker EXCEPT !.temporary = "part"])

(* write_all and sync_all.                                                  *)
WriteEnds ==
    /\ state.write.at = "created"
    /\ Writes([state EXCEPT !.write.at = "written"], [docker EXCEPT !.temporary = "whole"])

(* A step fails; removing the temporary file may fail as well.              *)
WriteFails ==
    /\ state.write.at # "none"
    /\ \E kept \in BOOLEAN :
         Writes([state EXCEPT !.write = NoWrite, !.error = TRUE],
                [docker EXCEPT !.temporary = IF kept THEN @ ELSE "none"])

WriteRenames ==
    /\ state.write.at = "written"
    /\ Writes([state EXCEPT !.write = NoWrite, !.saved = state.write,
                            !.selected = state.write.id, !.error = FALSE],
              [docker EXCEPT !.temporary = "none", !.readable = TRUE,
                             !.lines = state.write.after, !.whole = docker.temporary = "whole"])

(* The GUI dies; the next one may have its process id.                      *)
Crash ==
    /\ \E same \in BOOLEAN : docker' = [docker EXCEPT !.temporary = IF same THEN @ ELSE "none"]
    /\ state' = Default
    /\ UNCHANGED <<bridge, running, queue, serial, client, docker_ready, lost_at>>

(* The override, beside the GUI, in its prefix, on PATH.                    *)
resolve_from(places) == places # {}

(* The executable may be gone since it was detected.                        *)
build_launch_command(terminal) == {terminal, "TerminalExecutableInvalid"}
spawn_detached(launch) == IF launch \in Ids THEN {launch, "LaunchFailed"} ELSE {launch}

launch_external(result) ==
    IF result \notin Ids THEN {result}
    ELSE UNION {spawn_detached(launch) : launch \in build_launch_command(result)}

launch_container_shell ==
    LET terminal == choose_terminal(detect_with(docker.machine), read_preference) IN
    \E result \in launch_external(IF ~docker.home THEN "NoConfigurationDirectory"
                                  ELSE IF ~resolve_from(docker.machine.cli) THEN "TuxStackCliNotFound"
                                  ELSE terminal) :
        Does(With(Model, [state EXCEPT !.launched = result]))

(* The terminal is looked for before the command.                           *)
test_terminal(id) ==
    LET terminal == choose_terminal(detect_with(docker.machine), id) IN
    \E result \in launch_external(IF ~docker.home THEN "NoConfigurationDirectory"
                                  ELSE IF terminal \in Ids /\ ~resolve_from(docker.machine.cli)
                                  THEN "TuxStackCliNotFound" ELSE terminal) :
        Does(With(Model, [state EXCEPT !.launched = result, !.error = result \notin Ids]))

(* Terminals are installed and removed; the user edits the file.            *)
MachineChanges ==
    /\ \/ \E m \in Machines : docker' = [docker EXCEPT !.machine = m]
       \/ \E f \in Contents : docker' = [docker EXCEPT !.lines = f]
    /\ UNCHANGED <<state, bridge, running, queue, serial, client, docker_ready, lost_at>>

Next ==
    \/ /\ Acts /\ state.write.at = "none"
       /\ \/ refresh_terminals \/ launch_container_shell
          \/ \E id \in Ids : set_default_terminal(id) \/ test_terminal(id)
    \/ Acts /\ (MachineChanges \/ Crash)
    \/ WriteCreates \/ WriteEnds \/ WriteFails \/ WriteRenames

-----------------------------------------------------------------------------
TypeOK ==
    /\ \A i \in DOMAIN state.terminals : state.terminals[i].id \in Ids
    /\ state.selected \in Ids
    /\ state.write.at \in {"none", "read", "created", "written"}
    /\ state.launched \in Ids \cup {"none", "NoConfigurationDirectory", "NoTerminalDetected",
                                    "SelectedTerminalUnavailable", "TuxStackCliNotFound",
                                    "TerminalExecutableInvalid", "LaunchFailed"}

(* The lines outside the terminal sections.                                 *)
Elsewhere(lines) ==
    LET marked == [i \in DOMAIN lines |-> IF InTerminal(lines, i) THEN Header("terminal", FALSE)
                                          ELSE lines[i]]
    IN  SelectSeq(marked, LAMBDA l : l # Header("terminal", FALSE))

(* The key that decides is in a terminal section with a comment behind its  *)
(* header, which parse_preference reads and update_preference does not see. *)
DecidedUnderComment(lines) ==
    Keys(lines) # {} /\ lines[SectionOf(lines, Min(Keys(lines)))].note

(* "config_is_atomic_shape_and_preserves_other_sections": the file is whole  *)
(* at every moment, whenever the GUI dies while it saves; what a save made  *)
(* of the file it read keeps the lines of the other sections in their order *)
(* and, unless a key under a commented header decides, is read back as the  *)
(* terminal that was chosen.                                                *)
SavedWhole ==
    /\ docker.whole
    /\ state.saved.at # "none" =>
         /\ Elsewhere(state.saved.after) = Elsewhere(state.saved.before)
         /\ ~DecidedUnderComment(state.saved.before) =>
                parse_preference(state.saved.after) = state.saved.id

(* Does not hold: every saved preference is read back.                      *)
SavedIsRead ==
    state.saved.at # "none" => parse_preference(state.saved.after) = state.saved.id

(* The same, of a file that could not be read: saving replaces it.          *)
UnreadableKept == state.saved.readable

(* "corrupt_or_unavailable_preference_falls_back_to_auto": a preference for *)
(* a terminal that is gone does not keep another from being launched.       *)
UnavailableFallsBack == state.launched # "SelectedTerminalUnavailable"
=============================================================================
