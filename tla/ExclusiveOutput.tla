---------------------------- MODULE ExclusiveOutput ----------------------------
(***************************************************************************)
(* What extraction into a shared destination promises, with none of its    *)
(* system calls: one holder at a time, output that changes only in the     *)
(* hands of its holder, success only over a complete package, and a        *)
(* destination given up only when it is complete, clean, or known not to   *)
(* be (docs/architecture.md, "Extraction output").                         *)
(***************************************************************************)
EXTENDS Naturals

CONSTANTS
    Run,       \* the processes
    Nobody,    \* the holder of a free destination
    Package    \* Package[r]: the files of the package r extracts

VARIABLES
    holder,    \* whose marker is in the destination
    stage,     \* how far each run is
    present,   \* what of each run is in the destination, its marker left out
    full,      \* which files of it are complete
    failed,    \* whether a removal of the run has failed
    cleared    \* the runs whose marker a person has taken away

vars == <<holder, stage, present, full, failed, cleared>>

Finished == {"complete", "withdrawn", "crashed"}

Init ==
    /\ holder \notin Run
    /\ stage = [r \in Run |-> "outside"]
    /\ present = [r \in Run |-> {}]
    /\ full = [r \in Run |-> {}]
    /\ failed = [r \in Run |-> FALSE]
    /\ cleared = {}

output == <<present, full>>

\* Only r's output may be different after the step.
OnlyOutputOf(r) ==
    \A s \in Run \ {r} : present'[s] = present[s] /\ full'[s] = full[s]

Enter(r) ==
    /\ stage[r] = "outside" /\ holder = Nobody
    /\ holder' = r
    /\ stage' = [stage EXCEPT ![r] = "writing"]
    /\ UNCHANGED <<output, failed, cleared>>

\* Refused without having written anything.
StayOut(r) ==
    /\ stage[r] = "outside"
    /\ \E s \in {"withdrawing", "withdrawn"} : stage' = [stage EXCEPT ![r] = s]
    /\ UNCHANGED <<holder, output, failed, cleared>>

Write(r) ==
    /\ holder = r /\ stage[r] = "writing"
    /\ present[r] \subseteq present'[r] /\ full[r] \subseteq full'[r]
    /\ OnlyOutputOf(r)
    /\ UNCHANGED <<holder, stage, failed, cleared>>

Complete(r) ==
    /\ holder = r /\ stage[r] = "writing"
    /\ full[r] = Package[r]
    /\ holder' = Nobody
    /\ stage' = [stage EXCEPT ![r] = "complete"]
    /\ UNCHANGED <<output, failed, cleared>>

GiveUp(r) ==
    /\ holder = r /\ stage[r] = "writing"
    /\ stage' = [stage EXCEPT ![r] = "withdrawing"]
    /\ UNCHANGED <<holder, output, failed, cleared>>

TakeBack(r) ==
    /\ holder = r /\ stage[r] = "withdrawing"
    /\ present'[r] \subseteq present[r] /\ full'[r] \subseteq full[r]
    /\ OnlyOutputOf(r)
    /\ UNCHANGED <<holder, stage, failed, cleared>>

FailToTakeBack(r) ==
    /\ holder = r /\ stage[r] = "withdrawing"
    /\ failed' = [failed EXCEPT ![r] = TRUE]
    /\ UNCHANGED <<holder, stage, output, cleared>>

\* The destination is free again: nothing is left, or the run knows better.
Release(r) ==
    /\ holder = r /\ stage[r] = "withdrawing"
    /\ present[r] = {} \/ failed[r]
    /\ holder' = Nobody
    /\ UNCHANGED <<stage, output, failed, cleared>>

\* A run that still holds the destination as it ends says so.
Withdraw(r) ==
    /\ stage[r] = "withdrawing"
    /\ holder # r \/ failed[r]
    /\ stage' = [stage EXCEPT ![r] = "withdrawn"]
    /\ UNCHANGED <<holder, output, failed, cleared>>

\* A crash frees nothing.
Crash(r) ==
    /\ stage[r] \notin Finished
    /\ stage' = [stage EXCEPT ![r] = "crashed"]
    /\ UNCHANGED <<holder, output, failed, cleared>>

\* A person clears what no live run holds.
Clear ==
    /\ holder # Nobody
    /\ holder \in Run => stage[holder] \in Finished
    /\ cleared' = cleared \cup ({holder} \cap Run)
    /\ holder' = Nobody
    /\ UNCHANGED <<stage, output, failed>>

\* Something that is no run puts the marker there.
Occupy ==
    /\ holder = Nobody
    /\ holder' \notin Run
    /\ UNCHANGED <<stage, output, failed, cleared>>

Next ==
    \/ \E r \in Run :
          \/ Enter(r) \/ StayOut(r) \/ Write(r) \/ Complete(r) \/ GiveUp(r)
          \/ TakeBack(r) \/ FailToTakeBack(r) \/ Release(r) \/ Withdraw(r)
          \/ Crash(r)
    \/ Clear \/ Occupy

Spec == Init /\ [][Next]_vars
================================================================================
