-------------------------- MODULE MCDeployPipeline --------------------------
(* All deployments of one target, or the second of another. *)
EXTENDS DeployPipeline

OneTarget == [d \in Deployments |-> "web"]
TwoTargets == [d \in Deployments |-> IF d = 2 THEN "api" ELSE "web"]
=============================================================================
