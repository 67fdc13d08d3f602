---------------------------- MODULE MCMaintenance ----------------------------
(* Three commands, manual or timed, two failures of a write or a release   *)
(* and one crash: enough for a pause to be replaced while its release is   *)
(* being saved, and for a timer to outlive the process.                    *)
EXTENDS Maintenance
==============================================================================
