---------------------------- MODULE Transaction ----------------------------
(***************************************************************************)
(* What the CPX protocol promises ("The protocol is transaction based": a  *)
(* block is issued, the device executes it and sends a response back,      *)
(* cpx.doc): the host and the device take turns, the device may            *)
(* acknowledge a block before it responds, and it always responds.         *)
(***************************************************************************)
VARIABLES
    turn,       \* who is to send: the host a block, or the device its response
    acked       \* the device has acknowledged the block

vars == <<turn, acked>>

TypeOK == turn \in {"host", "device"} /\ acked \in BOOLEAN

Init == turn = "host" /\ acked = FALSE

Issue ==
    /\ turn = "host"
    /\ turn' = "device"
    /\ UNCHANGED acked

Acknowledge ==
    /\ turn = "device" /\ ~acked
    /\ acked' = TRUE
    /\ UNCHANGED turn

Respond ==
    /\ turn = "device"
    /\ turn' = "host" /\ acked' = FALSE

Next == Issue \/ Acknowledge \/ Respond

\* The turns alone; and that the device takes its own in the end.
TurnsSpec == Init /\ [][Next]_vars
Spec == TurnsSpec /\ WF_vars(Respond)

=============================================================================
