------------------------------ MODULE MCUpDown ------------------------------
(* Small instance of UpDown, with the shortened lists of MCUpDeploy.        *)
EXTENDS UpDown

MCOwnRequired  == <<"null_resource.console", "helm_release.console">>
MCByokOptional == <<"helm_release.certmanager">>
MCByokRequired == <<"null_resource.console", "helm_release.console">>
=============================================================================
