------------------------ MODULE MCOrchestrationStore ------------------------
(***************************************************************************)
(* Constants and symmetry for the runs of OrchestrationStore.              *)
(***************************************************************************)
EXTENDS OrchestrationRefinement, TLC

CONSTANTS c1, c2, w1, w2, t1

\* One plan, or a first plan of two units and a cheaper revision.
OneAllowance == [r \in Revisions |-> 2]
RevisedAllowance == [r \in Revisions |-> IF r = 1 THEN 2 ELSE 1]
NoAllowance == [r \in Revisions |-> 0]
Generations2 == [s \in Sessions |-> 2]
RootTwice == [s \in Sessions |-> IF s = Root THEN 3 ELSE 2]
ChildBudgets == [c \in Children |-> 1]

\* Workers are interchangeable, and so are children: their budgets are equal.
TreeSymmetry == Permutations(Workers) \cup Permutations(Children)

=============================================================================
