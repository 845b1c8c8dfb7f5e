----------------------------- MODULE MCReadiness -----------------------------
(* The two checks of a self-hosted console with a deadline of three calls.  *)
EXTENDS Readiness

MCChecks == <<"testDns", "ping">>
MCByokChecks == <<"waitForConsole">>
=============================================================================
