-------------------------------- MODULE MCPages --------------------------------
(***************************************************************************)
(* The pages of the GUI for TLC, one of them at a time: the pages share no  *)
(* state, and every page has the variables of PageTasks.  Items are two     *)
(* exchangeable volumes, images, networks, containers or resources.         *)
(***************************************************************************)
EXTENDS PageTasks, TLC

CONSTANTS
    Pages,                                  \* the pages to check
    MAX_LOG_LINES, MAX_LOG_BYTES, MaxLines, \* of LogsView
    StatsRequests, STATS_HISTORY_CAPACITY, MaxSeconds,  \* of StatsView
    MaxQueued,                              \* of both and of AppController
    MaxAttempts,                            \* of AppController
    MaxCrowd                                \* MaxUnderWay of the pages with most operations

VARIABLE page

Volumes == INSTANCE VolumesPage WITH MaxUnderWay <- MaxCrowd
Images == INSTANCE ImagesPage
Networks == INSTANCE NetworksPage
Containers == INSTANCE ContainersPage
Files == INSTANCE FilesPage
Logs == INSTANCE LogsView WITH MaxUnderWay <- MaxCrowd
Stats == INSTANCE StatsView
Terminals == INSTANCE TerminalPage
App == INSTANCE AppController

(* Two terminals.  Of the machines one has no terminal, one only a name     *)
(* that is not executable, one both terminals behind two directories and    *)
(* the desktop's preference, and one xdg-terminal-exec, a link to konsole.  *)
Machines ==
    {[path |-> <<>>, preferred |-> {}, cli |-> {"sibling"}],
     [path |-> <<[kitty |-> 0], [kitty |-> 2]>>, preferred |-> {}, cli |-> {}],
     [path |-> <<[kitty |-> 2], [konsole |-> 1, kitty |-> 3]>>, preferred |-> {"kitty"}, cli |-> {"path"}],
     [path |-> <<[auto |-> 1, konsole |-> 1, kitty |-> 2]>>, preferred |-> {}, cli |-> {"path"}]}

Line(kind, value, note) == [kind |-> kind, value |-> value, note |-> note]
Sections ==
    {<<>>} \cup
    {<<Line("header", "terminal", note)>> \o keys :
        note \in BOOLEAN,
        keys \in {<<>>, <<Line("other", "a", FALSE)>>, <<Line("application", "gone", FALSE)>>,
                  <<Line("prefixed", "a", FALSE), Line("application", "kitty", FALSE)>>}}
ConfigFiles ==
    {first \o <<Line("header", "docker", FALSE), Line("application", "host", FALSE)>> \o second :
        first \in Sections, second \in Sections} \cup Sections

Settings == INSTANCE SettingsPage
              WITH Candidates <- <<"konsole", "kitty">>, Contents <- ConfigFiles

Init ==
    /\ page \in Pages
    /\ \/ page = "volumes" /\ Volumes!Init
       \/ page = "images" /\ Images!Init
       \/ page = "networks" /\ Networks!Init
       \/ page = "containers" /\ Containers!Init
       \/ page = "files" /\ Files!Init
       \/ page = "logs" /\ Logs!Init
       \/ page = "stats" /\ Stats!Init
       \/ page = "terminal" /\ Terminals!Init
       \/ page = "app" /\ App!Init
       \/ page = "settings" /\ Settings!Init

Next ==
    /\ UNCHANGED page
    /\ \/ page = "volumes" /\ Volumes!Next
       \/ page = "images" /\ Images!Next
       \/ page = "networks" /\ Networks!Next
       \/ page = "containers" /\ Containers!Next
       \/ page = "files" /\ Files!Next
       \/ page = "logs" /\ Logs!Next
       \/ page = "stats" /\ Stats!Next
       \/ page = "terminal" /\ Terminals!Next
       \/ page = "app" /\ App!Next
       \/ page = "settings" /\ Settings!Next

Spec == Init /\ [][Next]_<<vars, page>>

Symmetry == Permutations(Items)

-----------------------------------------------------------------------------
(* Every page's variables have their shape; the log viewport's byte counts  *)
(* are exact and within the limits, and the history of the stats is in the  *)
(* order of time, within its capacity.                                      *)
TypeOK ==
    CASE page = "volumes" -> Volumes!TypeOK
      [] page = "images" -> Images!TypeOK
      [] page = "networks" -> Networks!TypeOK
      [] page = "containers" -> Containers!TypeOK
      [] page = "files" -> Files!TypeOK
      [] page = "logs" -> Logs!TypeOK /\ Logs!Bounded
      [] page = "stats" -> Stats!TypeOK /\ Stats!Bounded
      [] page = "terminal" -> Terminals!TypeOK
      [] page = "app" -> App!TypeOK
      [] page = "settings" -> Settings!TypeOK

(* What a page shows as busy (a row, a group, a dialog, a preparation, a    *)
(* pull, an export, a save, a preview, a connecting terminal) has a request *)
(* under way whose closure ends it, and a list, detail or folder that is    *)
(* loading has one whose answer its generation accepts, whatever was reset  *)
(* or answered late in between.  Five marks stay in five cases, each of     *)
(* which has a definition below that does not hold: PreparationEnds,        *)
(* GroupOperationEnds, PreviewEnds, DetailLoadEnds and ListedIsShown.       *)
MarksHaveRequests ==
    CASE page = "volumes" -> Volumes!BusyHasRequest /\ Volumes!LoadingHasRequest
      [] page = "images" -> Images!BusyHasRequest /\ Images!LoadingHasRequest
      [] page = "networks" -> Networks!BusyHasRequest /\ Networks!LoadingHasRequest
      [] page = "containers" -> Containers!BusyHasRequest /\ Containers!LoadingHasRequest
      [] page = "files" -> Files!BusyHasRequest /\ Files!LoadingHasRequest
      [] page = "terminal" -> Terminals!BusyHasRequest
      [] page = "app" -> App!BusyHasRequest
      [] OTHER -> TRUE

(* The detail, entries, chart or screen on show is that of what is selected, *)
(* although answers come in any order.                                      *)
DetailOfSelection ==
    CASE page = "volumes" -> Volumes!DetailOfSelection
      [] page = "images" -> Images!DetailOfSelection
      [] page = "networks" -> Networks!DetailOfSelection
      [] page = "containers" -> Containers!DetailOfSelection
      [] page = "files" -> Files!DetailOfSelection
      [] page = "stats" -> Stats!DetailOfSelection
      [] page = "terminal" -> Terminals!DetailOfSelection
      [] OTHER -> TRUE

(* "Refresh operations carry a generation id; only the newest generation    *)
(* may update the UI": a list that replaces the rows was asked for after    *)
(* the one it replaces and after the connection was last lost.              *)
ListsInOrder ==
    [][(page \in {"volumes", "images", "networks", "containers"}
        /\ state'.rows_of \notin {0, state.rows_of})
        => state'.rows_of > state.rows_of /\ state'.rows_of > lost_at']_vars

(* "No partial destination is ever exposed, and an error removes the part   *)
(* file" (copy_local_file_atomic_cancellable); the configuration is whole   *)
(* also when the GUI dies while it saves, a save leaves the other sections  *)
(* as they were ("config_is_atomic_shape_and_preserves_other_sections") and *)
(* its preference is read back, except where SavedIsRead fails: behind a    *)
(* key under a terminal header with a comment.                              *)
SavedWhole ==
    CASE page = "files" -> Files!SavedWhole
      [] page = "settings" -> Settings!SavedWhole
      [] OTHER -> TRUE

(* The log viewport and its backlog are in order, without a gap.            *)
LogsInOrder == page = "logs" => Logs!LogsInOrder

(* No exec session is left open that nobody will close.                     *)
SessionsOwned == page = "terminal" => Terminals!SessionsOwned

-----------------------------------------------------------------------------
(* "A newly created network must be visible when the post-create refresh    *)
(* selects it": the networks page's selection is a row that is shown.       *)
SelectionVisible == Networks!SelectionVisible

(* Marks whose request was cancelled, or answered when the row was away.    *)
PreparationEnds == Networks!PreparationEnds
GroupOperationEnds == Containers!GroupOperationEnds
PreviewEnds == Files!PreviewEnds

(* "duplicate_detail_reload_reuses_the_in_flight_request": the containers   *)
(* page's detail does not load for ever.                                    *)
DetailLoadEnds == Containers!DetailLoadEnds

(* "Refresh/detail generations reject stale results": the error on show is   *)
(* the selected volume's.                                                   *)
DetailErrorOfSelection == Volumes!DetailErrorOfSelection

(* "This folder is empty.": a folder that has been listed is Ready or Empty. *)
ListedIsShown == Files!ListedIsShown

(* The files page keeps no descriptor of a resource other than the present. *)
ProviderOfResource == Files!ProviderOfResource

(* A connected GUI hears the daemon's events.                               *)
EventsWatched == App!EventsWatched

(* "only the newest generation may update the UI": the overview on show is   *)
(* that of the present connection.                                          *)
OverviewOfConnection == App!OverviewOfConnection

(* Whatever the file was, the preference saved is the one read.             *)
SavedIsRead == Settings!SavedIsRead

(* A configuration file that cannot be read is not replaced.                *)
UnreadableKept == Settings!UnreadableKept

(* "corrupt_or_unavailable_preference_falls_back_to_auto".                  *)
UnavailableFallsBack == Settings!UnavailableFallsBack
=============================================================================
