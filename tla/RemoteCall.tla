----------------------------- MODULE RemoteCall -----------------------------
(***************************************************************************)
(* What the CC3000 driver promises to the functions of socket.cpp and      *)
(* wlan.cpp: a call is executed by the radio at most once, it returns only *)
(* after the radio has executed it, and the next call starts only after    *)
(* that.  A send may be refused before the radio hears of it.              *)
(***************************************************************************)
CONSTANT Kinds      \* of calls

VARIABLES
    phase,          \* of the current call
    kind            \* of the current call

vars == <<phase, kind>>

TypeOK == phase \in {"none", "issued", "executed"} /\ kind \in Kinds

Init == phase = "none" /\ kind \in Kinds

Issue(k) ==
    /\ phase = "none"
    /\ phase' = "issued" /\ kind' = k

Execute ==
    /\ phase = "issued"
    /\ phase' = "executed" /\ UNCHANGED kind

Return ==
    /\ phase = "executed"
    /\ phase' = "none" /\ UNCHANGED kind

Refuse ==
    /\ phase = "issued" /\ kind = "send"
    /\ phase' = "none" /\ UNCHANGED kind

Next == (\E k \in Kinds : Issue(k)) \/ Execute \/ Return \/ Refuse

Spec == Init /\ [][Next]_vars
=============================================================================
