---------------------------- MODULE ConnLifecycle ----------------------------
(***************************************************************************)
(* What the connection core promises its user, without threads: the client *)
(* is offline, connecting or online in one session, it goes online only    *)
(* through connecting, and it leaves a session before it enters another.   *)
(***************************************************************************)
CONSTANTS Sessions, None

VARIABLES phase, current

Init == phase \in {"offline", "connecting"} /\ current = None

Connect == phase = "offline" /\ phase' = "connecting" /\ UNCHANGED current

Fail == phase = "connecting" /\ phase' = "offline" /\ UNCHANGED current

Establish ==
    /\ phase = "connecting"
    /\ phase' = "online"
    /\ current' \in Sessions

Disconnect == phase = "online" /\ phase' = "offline" /\ current' = None

Next == Connect \/ Fail \/ Establish \/ Disconnect

Spec == Init /\ [][Next]_<<phase, current>>
==============================================================================
