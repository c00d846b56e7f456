----------------------- MODULE MCAutomationScheduler -----------------------
(* Instances of AutomationScheduler for TLC.                               *)
EXTENDS AutomationScheduler, TLC

CONSTANTS a1, a2, u1

MCOwner == [a \in Automations |-> u1]

\* Every moment, the first one only, or the last one only.
Often == {1, 2}
Early == {1}
Late  == {2}
EarlyRules == {Early}
MCRules == {Often, Late}

Symmetry == Permutations(Instances)
=============================================================================
