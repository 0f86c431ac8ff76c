----------------------------- MODULE MCIpcServer -----------------------------
(* An instance of IpcServer for TLC: a client with one request id and two   *)
(* subscriptions, each a terminal or a stream with two members.             *)
EXTENDS IpcServer

CONSTANTS terminal, stats

MCKinds == {terminal, stats}
MCCost == [k \in MCKinds |-> IF k = stats THEN 2 ELSE 1]
MCTerminals == {terminal}

(* The registry never holds more terminals than terminal_capacity_available *)
(* allows.  It can: the check and the entry are separate lock sections.     *)
TerminalsWithinLimit == Cardinality(terminals) <= MaxTerminalSessions
=============================================================================
