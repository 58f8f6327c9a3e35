-------------------------- MODULE TransferAccount --------------------------
(***************************************************************************)
(* What a transfer job promises when one worker at a time drives it,       *)
(* without the worker, its commands and its lease: the stages of the job   *)
(* come one after the other; its destination is written between the        *)
(* verification and the report, never before and never after the job is    *)
(* over; completed is reported of a destination that has the planned       *)
(* content; progress does not fall and ends stay what they are.            *)
(*                                                                         *)
(* A command may outlive its worker.  From then on the account promises    *)
(* nothing of the content of the destination.  It never promises that a    *)
(* copy that others put there at the last moment is spared.                *)
(***************************************************************************)
EXTENDS Naturals

VARIABLES
    state,   \* of the row
    done,    \* progress
    final,   \* the content of the destination
    stray    \* a command has outlived its worker

vars == <<state, done, final, stray>>

Stages == <<"planning", "transferring", "verifying", "promoting">>
Mid    == {Stages[k] : k \in 1..4}

Init == state = "none" /\ done = 0 /\ final = "none" /\ stray = FALSE

\* A write of the row: what was reported before is not taken back.
Move(from, to) ==
    /\ state \in from /\ state' \in to
    /\ done' >= done
    /\ UNCHANGED final

Open ==
    /\ state \in {"none", "completed"} /\ state' = "queued" /\ done' = 0
    /\ UNCHANGED final

Claim == Move({"queued"}, {"planning"})

Advance == \E k \in 1..3 : Move({Stages[k]}, {Stages[k + 1]})

Report == Move({"transferring"}, {"transferring"})

Fail == Move(Mid, {"failed", "blocked"})

Retry == Move({"failed", "blocked"}, {"queued"})

Cancel == Move({"queued"}, {"cancelled"}) \/ Move(Mid, {"cancelling"})

FinishCancelled == Move({"cancelling"}, {"cancelled"})

Promote ==
    /\ state \in {"promoting", "cancelling"} /\ final' = "good"
    /\ UNCHANGED <<state, done>>

Complete == (final = "good" \/ stray) /\ Move({"promoting", "cancelling"}, {"completed"})

Overwrite == stray /\ final' \in {"good", "wrong"} /\ UNCHANGED <<state, done>>

Rival == final = "none" /\ final' = "other" /\ UNCHANGED <<state, done>>

Rest == UNCHANGED <<state, done, final>>

Step ==
    \/ Open \/ Claim \/ Advance \/ Report \/ Fail \/ Retry \/ Cancel \/ FinishCancelled
    \/ Promote \/ Complete \/ Overwrite \/ Rival \/ Rest

Next == Step /\ stray' \in {stray, TRUE}

Spec == Init /\ [][Next]_vars
=============================================================================
