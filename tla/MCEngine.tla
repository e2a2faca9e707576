------------------------------- MODULE MCEngine -------------------------------
(* The task engine for TLC: the tasks of each kind, and the stages and      *)
(* phases they belong to.                                                   *)
EXTENDS Engine, TLC

CONSTANTS m1, m2, m3, s1, s2, c1, c2, o1, k1

\* One mutation per stage: a DB write, a flush to disk and a deployment, so
\* that two stages are left to advance to after the first.
ThreeStages == m1 :> 1 @@ m2 :> 2 @@ m3 :> 3

\* A transaction next to outside writes, or phases of soft mutations and
\* computations.
TransactionOrPhases == {Soft \cup Comp, Mutation \cup Other}
NoneSpent == {{}}

CleanupAndDeploy == s1 :> Cleanup @@ s2 :> Deploy
\* The empty function, for a run without tasks of that kind.
NoTasks == <<>>
=============================================================================
