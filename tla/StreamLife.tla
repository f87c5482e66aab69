----------------------------- MODULE StreamLife -----------------------------
(***************************************************************************)
(* What src/include/sgftdi/ftdistream.h promises of one FtdiStream object  *)
(* as a whole: an engine is started in one of two modes, runs, is asked to *)
(* end or fails, is over, and only then may be stopped and started anew;   *)
(* and of the data an application writes, whatever engines come and go: a  *)
(* chunk leaves the application's buffer only when the device has taken    *)
(* it, and while an engine that has not ended looks after it.              *)
(***************************************************************************)
EXTENDS Naturals

CONSTANT Streams

VARIABLES
    mode,       \* who runs the engine
    phase,      \* how far it has got
    queue,      \* stream -> chunks the application holds
    taken       \* stream -> the device has taken the first of them

lifeVars == <<mode, phase, queue, taken>>

Init ==
    /\ mode = "none" /\ phase = "stopped"
    /\ queue \in [Streams -> Nat]
    /\ taken = [s \in Streams |-> FALSE]

\* An engine may fail as soon as it is started.
Start ==
    /\ phase = "stopped"
    /\ mode' \in {"thread", "poll"} /\ phase' \in {"running", "ended"}
    /\ UNCHANGED <<queue, taken>>

AskToEnd ==
    /\ phase = "running" /\ phase' = "ending"
    /\ UNCHANGED <<mode, queue, taken>>

\* It has seen that it was asked to, or has failed.
End ==
    /\ phase \in {"running", "ending"} /\ phase' = "ended"
    /\ UNCHANGED <<mode, queue, taken>>

Stop ==
    /\ phase = "ended" /\ phase' = "stopped"
    /\ mode' = "none"
    /\ UNCHANGED <<queue, taken>>

Write(s) ==
    /\ queue' = [queue EXCEPT ![s] = @ + 1]
    /\ UNCHANGED <<mode, phase, taken>>

Take(s) ==
    /\ phase # "stopped" /\ queue[s] > 0
    /\ taken' = [taken EXCEPT ![s] = TRUE]
    /\ UNCHANGED <<mode, phase, queue>>

\* The submit of the next chunk may fail, which ends the engine.
Confirm(s) ==
    /\ phase \in {"running", "ending"} /\ taken[s]
    /\ queue' = [queue EXCEPT ![s] = @ - 1]
    /\ taken' = [taken EXCEPT ![s] = FALSE]
    /\ phase' \in {phase, "ended"}
    /\ UNCHANGED mode

Next ==
    \/ Start \/ AskToEnd \/ End \/ Stop
    \/ \E s \in Streams : Write(s) \/ Take(s) \/ Confirm(s)

Spec == Init /\ [][Next]_lifeVars
=============================================================================
