-------------------------- MODULE RequestCoordinator --------------------------
(***************************************************************************)
(* docker-core/src/cache/coordinator.rs: concurrent calls for one key share *)
(* one future.                                                              *)
(*                                                                         *)
(* A flight is the shared future of one run of `produce`; it is polled by   *)
(* whoever holds a handle, and its value is the version of the resource     *)
(* when it finished.  The mutex around the map is held for a step, in which *)
(* a guard that is dropped finds it locked.                                 *)
(***************************************************************************)
EXTENDS Naturals, FiniteSets

CONSTANTS Requests, NoRequest, MaxFlights

VARIABLES
    state,      \* the map and its mutex
    requests,   \* the callers of run_once
    engine,     \* the flights, and the version of the resource
    ghost       \* flights whose entry a contended guard left in the map

vars == <<state, requests, engine, ghost>>

NoFlight == 0
Idle == [pc |-> "idle", flight |-> NoFlight, leader |-> FALSE, asked |-> 0]

Init ==
    /\ state = [in_flight |-> NoFlight, lock |-> NoRequest]
    /\ requests = [r \in Requests |-> Idle]
    /\ engine = [flights |-> 0, done |-> {}, version |-> 0, values |-> [f \in 1..MaxFlights |-> 0]]
    /\ ghost = {}

At(r, pc) == requests[r].pc = pc

-----------------------------------------------------------------------------
Calls(r) ==
    /\ requests[r].pc \in {"idle", "got"}
    /\ requests' = [requests EXCEPT ![r] = [Idle EXCEPT !.pc = "lock", !.asked = engine.version]]
    /\ UNCHANGED <<state, engine, ghost>>

Locks(r) ==
    /\ At(r, "lock") /\ state.lock = NoRequest
    /\ state' = [state EXCEPT !.lock = r]
    /\ requests' = [requests EXCEPT ![r].pc = "locked"]
    /\ UNCHANGED <<engine, ghost>>

(* run_once, under the mutex: join the flight of the key or lead a new one. *)
run_once(r) ==
    /\ At(r, "locked")
    /\ IF state.in_flight # NoFlight
       THEN /\ requests' = [requests EXCEPT ![r].pc = "await", ![r].flight = state.in_flight]
            /\ state' = [state EXCEPT !.lock = NoRequest]
            /\ UNCHANGED engine
       ELSE /\ engine.flights < MaxFlights
            /\ engine' = [engine EXCEPT !.flights = @ + 1]
            /\ requests' = [requests EXCEPT ![r].pc = "await", ![r].leader = TRUE,
                                            ![r].flight = engine.flights + 1]
            /\ state' = [state EXCEPT !.lock = NoRequest, !.in_flight = engine.flights + 1]
    /\ UNCHANGED ghost

(* The shared future finishes, polled by any holder of a handle.            *)
Finishes(flight) ==
    /\ flight \in 1..engine.flights \ engine.done
    /\ \E r \in Requests : At(r, "await") /\ requests[r].flight = flight
    /\ engine' = [engine EXCEPT !.done = @ \cup {flight}, !.values[flight] = engine.version]
    /\ UNCHANGED <<state, requests, ghost>>

(* Mutant: only a leader that got its value has its guard dropped.          *)
GuardOfSuccess(r) == requests[r].leader /\ requests[r].flight \in engine.done

(* InFlightGuard::drop removes whatever entry the key has, unless the       *)
(* mutex is taken just then.                                                *)
GuardDropped(r) == requests[r].leader

Drops(r) ==
    IF ~GuardDropped(r) THEN UNCHANGED <<state, ghost>>
    ELSE IF state.lock = NoRequest
         THEN state' = [state EXCEPT !.in_flight = NoFlight] /\ UNCHANGED ghost
         ELSE ghost' = ghost \cup {requests[r].flight} /\ UNCHANGED state

Returns(r) ==
    /\ At(r, "await") /\ requests[r].flight \in engine.done
    /\ Drops(r)
    /\ requests' = [requests EXCEPT ![r].pc = "got", ![r].leader = FALSE]
    /\ UNCHANGED engine

(* The caller's task is cancelled; the shared future goes on if somebody    *)
(* else holds a handle.                                                     *)
Cancelled(r) ==
    /\ At(r, "await")
    /\ Drops(r)
    /\ requests' = [requests EXCEPT ![r] = Idle]
    /\ UNCHANGED engine

forget ==
    /\ state.lock = NoRequest /\ state.in_flight # NoFlight
    /\ state' = [state EXCEPT !.in_flight = NoFlight]
    /\ UNCHANGED <<requests, engine, ghost>>

Changes ==
    /\ engine.version < 1
    /\ engine' = [engine EXCEPT !.version = @ + 1]
    /\ UNCHANGED <<state, requests, ghost>>

Next ==
    \/ forget \/ Changes
    \/ \E flight \in 1..MaxFlights : Finishes(flight)
    \/ \E r \in Requests : Calls(r) \/ Locks(r) \/ run_once(r) \/ Returns(r) \/ Cancelled(r)

-----------------------------------------------------------------------------
TypeOK ==
    /\ state.in_flight \in 0..engine.flights
    /\ state.lock \in Requests \cup {NoRequest}
    /\ \A r \in Requests : requests[r].pc \in {"idle", "lock", "locked", "await", "got"}

(* An entry of the map has a leader whose guard will remove it, also when   *)
(* leaders are cancelled and entries forgotten; or it was left by a guard   *)
(* that was dropped while somebody held the mutex (try_lock).               *)
Accounted ==
    state.in_flight # NoFlight =>
        \/ \E r \in Requests : requests[r].leader /\ requests[r].flight = state.in_flight
        \/ state.in_flight \in ghost

(* Does not hold: a guard takes the entry of its own flight and no newer    *)
(* one.  It removes by key, and after forget the key may be another's.      *)
GuardTakesOwn ==
    [][\A r \in Requests :
        requests[r].leader /\ ~requests'[r].leader /\ state'.in_flight # state.in_flight
            => state.in_flight = requests[r].flight]_vars

(* "When `produce` finishes (success or error), the in-flight entry is      *)
(* dropped so a subsequent call starts a fresh request" (run_once): the     *)
(* value of a call is not older than the call.                              *)
FreshRequest ==
    \A r \in Requests : At(r, "got") => engine.values[requests[r].flight] >= requests[r].asked
=============================================================================
