------------------------------ MODULE MCDaemon -------------------------------
(* An instance of Daemon for TLC: one container that mounts one volume.     *)
EXTENDS Daemon

CONSTANTS c1, v1

Mounts == [c \in {c1} |-> {v1}]

(* When no mount, unmount or remount is under way, the status says whether  *)
(* there is a session.  One request at a time keeps this, two do not.       *)
StatusMatchesSession ==
    (\A r \in Requests : request[r] = Idle)
        => /\ mount_status = "Mounted" => session
           /\ mount_status = "Unmounted" => ~session
=============================================================================
