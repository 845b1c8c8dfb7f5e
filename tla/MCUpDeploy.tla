----------------------------- MODULE MCUpDeploy -----------------------------
(* Small instance of UpDeploy: the eight addresses Prune removes are cut to *)
(* two and the three of pruneBYOK to two, which is enough for a pruning to  *)
(* stop between two removals.                                               *)
EXTENDS UpDeploy

MCOwnRequired  == <<"null_resource.console", "helm_release.console">>
MCByokOptional == <<"helm_release.certmanager">>
MCByokRequired == <<"null_resource.console", "helm_release.console">>
=============================================================================
