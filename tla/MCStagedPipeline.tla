---------------------------- MODULE MCStagedPipeline ----------------------------
(* StagedPipeline and its DeploymentView for TLC: two keys, so that one can   *)
(* fail and one survive and their tasks can end in either order.             *)
EXTENDS DeploymentView

CONSTANTS k1, k2

TwoKeys == <<k1, k2>>
================================================================================
