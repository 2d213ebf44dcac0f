------------------------- MODULE ExtractionRefinement -------------------------
(* Extraction implements ExclusiveOutput: the marker is the lock.          *)
EXTENDS Extraction

CONSTANT Nobody   \* the holder of an unmarked destination

ASSUME NobodyAssumption == Nobody \notin Run \cup {Stranger}

\* Which promise of ExclusiveOutput a run's next step belongs to.
Stage(r) ==
    CASE pc[r] \in Looking -> "outside"
      [] pc[r] \in Writing -> "writing"
      [] pc[r] = "undo"    -> "withdrawing"
      [] pc[r] = "refused" -> "withdrawn"
      [] pc[r] = "done"    -> "complete"
      [] pc[r] = "crashed" -> "crashed"

\* Whose markers were taken away.
Cleared == {r \in Run : <<r, Marker>> \in taken}

Exclusive ==
    INSTANCE ExclusiveOutput WITH
        Package <- [r \in Run |-> ToSet(Files[r])],
        holder  <- IF Present(Marker) THEN fs[Marker].by ELSE Nobody,
        stage   <- [r \in Run |-> Stage(r)],
        present <- [r \in Run |-> Owned(r) \ {Marker}],
        full    <- [r \in Run |-> {p \in Owned(r) \ {Marker} : fs[p].full}],
        failed  <- [r \in Run |-> left[r] > 0],
        cleared <- Cleared

\* Every behaviour of the processes, crashes, foreign objects and human acts
\* included, is one of ExclusiveOutput: the marker file gives mutual
\* exclusion, frozen output outside it, and success over whole packages only.
ImplementsExclusiveOutput == Exclusive!Spec
===============================================================================
