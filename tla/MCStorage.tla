------------------------------- MODULE MCStorage -------------------------------
(***************************************************************************)
(* What docker-core keeps and must clean up, for TLC, one part at a time:   *)
(* the parts share no state and have variables of the same names.           *)
(***************************************************************************)
EXTENDS Naturals, FiniteSets, Sequences, TLC

CONSTANTS
    Parts,                                      \* the parts to check
    Requests, NoRequest,
    Providers, Containers, Scenarios,           \* of HelperProvider
    ArchiveScenarios, memory_threshold, max_single_bytes, max_total_bytes,
    Callers, MaxFlights,                        \* of RequestCoordinator
    Images, MaxMeasured, Sentinel,              \* of MetadataCache
    JobKinds,                                   \* of VolumeJobs
    DefaultGrace, TransportSlack, MaxTimeout, Unlimited, MaxGroupConcurrency,
    ClientTimeout, RequestTimeouts, Graces, MaxNetworks, MaxTargets,    \* of Services
    max_entries, max_path_bytes, MaxHops, TAR_BLOCK, max_archive_bytes,
    max_extension_bytes, max_entry_bytes, MaxChunk, Captures            \* of TarStream

VARIABLES part, state, requests, engine, ghost

vars == <<state, requests, engine, ghost>>

Helper == INSTANCE HelperProvider
Archive == INSTANCE ArchiveProvider
Flights == INSTANCE RequestCoordinator WITH Requests <- Callers
Cache == INSTANCE MetadataCache
Jobs == INSTANCE VolumeJobs
Calls == INSTANCE Services
Tar == INSTANCE TarStream
Format == INSTANCE TarArchive

ASSUME LimitsValid == Archive!LimitsValid /\ Tar!TarLimitsValid

(* A volume that changes and is refreshed, whose directory is listed; a     *)
(* bind mount whose file is opened and read.                                *)
HelperScenarios ==
    {[kind |-> "volume", lists |-> TRUE, changes |-> 1, refreshes |-> 1, opens |-> 0],
     [kind |-> "bind", lists |-> FALSE, changes |-> 0, refreshes |-> 0, opens |-> 1]}

(* A container that changes, an image that cannot.                          *)
ExportScenarios ==
    {[kind |-> "container", changes |-> 1, refreshes |-> 1, asks |-> 3],
     [kind |-> "image", changes |-> 0, refreshes |-> 1, asks |-> 3]}

(* Archives of up to two entries, each with the extension records it has,   *)
(* that arrive whole, stop short or end in an error, and two that arrive    *)
(* whole and have mounts laid over them, one of which does not answer.      *)
Items ==
    {<<Format!Record("Directory", <<".">>, <<>>, 0)>>,
     <<Format!Record("Directory", <<"a">>, <<>>, 0)>>,
     <<Format!Record("RegularFile", <<".", "a", "b">>, <<>>, 1)>>,
     <<Format!Record("RegularFile", <<"a", "b", "c">>, <<>>, 2)>>,
     <<Format!Record("RegularFile", <<"..", "a">>, <<>>, 0)>>,
     <<Format!Record("x", <<"c">>, <<>>, 1), Format!Record("RegularFile", <<"b">>, <<>>, 3)>>,
     <<Format!Record("L", <<"a", "c">>, <<>>, 2), Format!Record("RegularFile", <<"b">>, <<>>, 2)>>,
     <<[Format!Record("g", <<>>, <<"a">>, 3) EXCEPT !.says = 1],
       Format!Record("K", <<>>, <<"a", "b">>, 1), Format!Record("Hardlink", <<"b">>, <<"c">>, 0)>>,
     <<Format!Record("x", <<>>, <<"a", "b">>, 5), Format!Record("Hardlink", <<"b">>, <<>>, 0)>>,
     <<Format!Record("Hardlink", <<"c">>, <<"b">>, 0)>>,
     <<[Format!Record("x", <<"a", "b">>, <<>>, 1) EXCEPT !.says = 2],
       Format!Record("RegularFile", <<"b">>, <<>>, 0)>>,
     <<[Format!Record("x", <<>>, <<>>, 1) EXCEPT !.says = 0],
       Format!Record("RegularFile", <<"a">>, <<>>, 2)>>,
     <<[Format!Record("x", <<"a">>, <<>>, 1) EXCEPT !.sound = FALSE]>>,
     <<Format!Record("RegularFile", <<"c">>, <<"a", "b", "c", "a">>, 0)>>,
     <<Format!Record("damaged", <<"b">>, <<>>, 0)>>}

Archives == {<<>>} \union Items \union {i \o j : i, j \in Items}

Mount(destination, type) ==
    [destination |-> destination, root |-> <<"r">>, fails |-> "none",
     files |-> IF type = "RegularFile" THEN [p \in {<<"r">>} |-> "RegularFile"]
               ELSE [p \in {<<"r">>, <<"r", "c">>} |->
                       IF p = <<"r">> THEN "Directory" ELSE "RegularFile"]]

MountLists ==
    {<<Mount(<<"a">>, "Directory")>>, <<Mount(<<"b">>, "RegularFile")>>,
     <<Mount(<<"a", "b">>, "Directory"), Mount(<<"a">>, "Directory")>>,
     <<Mount(<<"a">>, "Directory"), Mount(<<"a", "c", "b">>, "Directory")>>,
     <<[Mount(<<"a">>, "Directory") EXCEPT !.fails = "Unavailable"],
       Mount(<<"a", "b">>, "RegularFile"), Mount(<<"c", "a">>, "Directory")>>}

TarCaptures ==
    {Format!Capture(records, tail, <<>>) : records \in Archives, tail \in {0, 3}}
    \union {[Format!Capture(records, 1, <<>>) EXCEPT !.sent = @ - 6, !.cut = cut] :
                records \in Items, cut \in BOOLEAN}
    \union {[Format!Capture(records, 1, <<>>) EXCEPT !.junk = junk] :
                records \in Items, junk \in {"second", "tail"}}
    \union {Format!Capture(records, 0, mounts) : records \in Archives, mounts \in MountLists}

Init ==
    /\ part \in Parts
    /\ \/ part = "helper" /\ Helper!Init
       \/ part = "archive" /\ Archive!Init
       \/ part = "flights" /\ Flights!Init
       \/ part = "cache" /\ Cache!Init
       \/ part = "jobs" /\ Jobs!Init
       \/ part = "services" /\ Calls!Init
       \/ part = "tar" /\ Tar!Init

Next ==
    /\ UNCHANGED part
    /\ \/ part = "helper" /\ Helper!Next
       \/ part = "archive" /\ Archive!Next
       \/ part = "flights" /\ Flights!Next
       \/ part = "cache" /\ Cache!Next
       \/ part = "jobs" /\ Jobs!Next
       \/ part = "services" /\ Calls!Next
       \/ part = "tar" /\ Tar!Next

Spec == Init /\ [][Next]_<<vars, part>>

Symmetry == Permutations(Requests)

-----------------------------------------------------------------------------
(* Every part's variables have their shape.                                 *)
TypeOK ==
    CASE part = "helper" -> Helper!TypeOK
      [] part = "archive" -> Archive!TypeOK
      [] part = "flights" -> Flights!TypeOK
      [] part = "cache" -> Cache!TypeOK
      [] part = "jobs" -> Jobs!TypeOK
      [] part = "services" -> Calls!TypeOK
      [] OTHER -> Tar!TypeOK

(* Whatever a part holds (a helper container, an inspection container, a    *)
(* spool file and its bytes, an in-flight entry, a cached value not yet in  *)
(* the file, a staging directory, an incomplete volume) has an owner that   *)
(* will let go of it, or went through one of the moments, named by the      *)
(* part's own property, in which the code gives it up; and the destination  *)
(* of an export is only ever a complete archive.                            *)
Accounted ==
    CASE part = "helper" -> Helper!Accounted
      [] part = "archive" -> Archive!Accounted
      [] part = "flights" -> Flights!Accounted
      [] part = "cache" -> Cache!Accounted
      [] part = "jobs" -> Jobs!Accounted /\ Jobs!DestinationComplete
      [] part = "services" -> Calls!PartAccounted
      [] OTHER -> TRUE

(* A listing that a request returns after a refresh completed shows what    *)
(* the refresh was to show.                                                 *)
RefreshSeen ==
    CASE part = "helper" -> Helper!RefreshSeen
      [] part = "archive" -> Archive!RefreshSeen
      [] OTHER -> TRUE

(* A provider removes no session but the one that failed under it, and a    *)
(* clone no volume that existed when it looked for its target.              *)
OnlyOwnRemoved ==
    /\ [][part = "helper" => Helper!OnlyOwn]_vars
    /\ [][part = "jobs" => Jobs!OnlyOwn]_vars

(* A caller of a service told Ok can rely on every change having been made  *)
(* or its failure being listed; one told a definite error, on none having   *)
(* been made but an archive whose staging directory stays (create_volume,   *)
(* create_container, execute_group_targets, export_volume).                 *)
Truthful == part = "services" => Calls!Truthful

(* An error of the daemon that the client has a name for and the wire has   *)
(* room for comes back under that name (docker_protocol_error, then the     *)
(* client's protocol_error); none is mistaken for a time-out, cancellation  *)
(* or absence; and every method expects the response the daemon sends.      *)
ErrorKept == part = "services" => Calls!ErrorKept

(* However an export is cut into chunks, its index holds the entries, each  *)
(* under the name its own extension records give it, and made-up parents;   *)
(* and no export is refused without a reason (TarStreamReader).             *)
IndexFaithful == part = "tar" => Tar!IndexFaithful

(* What a container's tree lists is found; it shows every mount in each     *)
(* listing that no failing provider blocks, and hides what the export holds *)
(* below one (ContainerProviderRouter).                                     *)
TreeConsistent == part = "tar" => Tar!TreeConsistent

(* Reading an export implements IndexBuild: the index changes by one entry  *)
(* with its parents, by one mount, or is given up.                          *)
BuiltIndex == IF part = "tar" THEN requests.index ELSE Tar!empty

EntryNames == {"a", "b", "c"}
EntryKinds == {"Directory", "RegularFile", "Hardlink"}
RawNames == {<<>>} \union UNION {UNION {{c.layout[o].path, c.layout[o].link} : o \in DOMAIN c.layout} :
                                   c \in Captures}

Build == INSTANCE IndexBuild WITH
    index <- BuiltIndex,
    Names <- EntryNames, Paths <- Tar!TreePaths, Kinds <- EntryKinds, Links <- RawNames

Reading == INSTANCE TarStreamProofs WITH
    Names <- EntryNames, Paths <- Tar!TreePaths, Kinds <- EntryKinds, Links <- RawNames

(* The hypotheses of IndexStaysValid and ReadingImplementsBuild.            *)
ASSUME ProofHypotheses == Build!PathsWithinLimits /\ Reading!CapturesTyped

BuildsIndex == Build!Spec
IndexValid == Build!IndexValid

-----------------------------------------------------------------------------
(* "Invalidate an event-selected volume and precisely remove its helper     *)
(* session" (VolumeProviderPool::remove).                                   *)
RemovedHasNoSession == Helper!RemovedHasNoSession

(* "Cancellation and application shutdown trigger task, temporary-file, and *)
(* helper-container cleanup" (docs/architecture.md).                        *)
CancellationCleansUp == Jobs!CancellationCleansUp

(* "Clone refuses an existing target and can clean up an incomplete target" *)
(* (docs/docker-core.md).                                                   *)
CloneRemovesItsTarget == Jobs!CloneRemovesItsTarget

(* "GUI image export writes a sibling temporary file asynchronously,        *)
(* removes it on cancellation/failure" (docs/architecture.md).              *)
PartRemoved == Calls!PartRemoved

(* Further statements that do not hold; each says why where it is defined.  *)
InspectionRemoved == Archive!InspectionRemoved
StartFailureRemoved == Helper!StartFailureRemoved
UsageRowIsLast == Cache!UsageRowIsLast
GuardTakesOwn == Flights!GuardTakesOwn
DefiniteMeansUnchanged == Calls!DefiniteMeansUnchanged
NameKept == Calls!NameKept
MountsAlwaysListed == Tar!MountsAlwaysListed
FoundIsListed == Tar!FoundIsListed

(* "... distinguish daemon, Docker, and FUSE failures: service offline,     *)
(* socket permission, Docker unavailable, timeout" (docs/architecture.md).  *)
TimeoutIsNotOffline == Calls!TimeoutIsNotOffline
=============================================================================
