---------------------------- MODULE MCAppRollout ----------------------------
(* Two members, project 2 first in deploy order; odd deployments are of project 1. *)
EXTENDS AppRollout

Alternating == [d \in Deployments |-> IF d % 2 = 1 THEN 1 ELSE 2]
TwoFirst == [m \in Members |-> IF m = 2 THEN 1 ELSE 2]
=============================================================================
