---------------------------- MODULE MCDashboard ----------------------------
(* Small instances of Dashboard for TLC.                                    *)
EXTENDS Dashboard

CONSTANTS f1, f2, f3
=============================================================================
