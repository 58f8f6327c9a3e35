----------------------------- MODULE RunAccount -----------------------------
(***************************************************************************)
(* What the control plane promises of one run, without the processes that  *)
(* launch, probe and cancel it: its row is an account of one execution.    *)
(* The command is executed at most once and only when the row has left the *)
(* local states for good; running is reported of a command that has been   *)
(* started and succeeded of one that has ended with exit code 0; and once  *)
(* the command has started, the first end that is written stays.           *)
(*                                                                         *)
(* It promises less before the command has started: a launch that was      *)
(* under way takes a cancelled or failed row back, and a command that was  *)
(* sent may start after its row was closed.                                *)
(***************************************************************************)
EXTENDS Naturals

VARIABLES
    status,     \* of the row
    starts,     \* executions of the command
    result      \* of the execution: none, ok or bad

vars == <<status, starts, result>>

Local      == {"queued", "preflighting"}
Observable == {"starting", "running"}
Ended      == {"succeeded", "failed", "cancelled", "lost"}

Init == status = "none" /\ starts = 0 /\ result = "none"

Becomes(st) == status' = st /\ UNCHANGED <<starts, result>>

Submit == status = "none" /\ Becomes("queued")

Prepare == starts = 0 /\ status \in Local \cup {"failed", "cancelled"} /\ Becomes("preflighting")

Begin == starts = 0 /\ status = "preflighting" /\ Becomes("starting")

Execute ==
    /\ starts = 0 /\ status \in Observable \cup Ended
    /\ starts' = 1
    /\ UNCHANGED <<status, result>>

Exit ==
    /\ starts = 1 /\ result = "none"
    /\ result' \in {"ok", "bad"}
    /\ UNCHANGED <<status, starts>>

Report == starts = 1 /\ status = "starting" /\ Becomes("running")

Succeed == result = "ok" /\ status \in Observable /\ Becomes("succeeded")

Lose == status \in Observable /\ Becomes("lost")

\* A failure or a cancellation; a failed launch is reported over a cancellation.
GiveUp ==
    /\ status \in Local \cup Observable \/ (starts = 0 /\ status = "cancelled")
    /\ \E st \in {"failed", "cancelled"} : Becomes(st)

Next ==
    \/ Submit \/ Prepare \/ Begin \/ Execute \/ Exit \/ Report
    \/ Succeed \/ Lose \/ GiveUp

Spec == Init /\ [][Next]_vars
=============================================================================
