---------------------------- MODULE MCDirectPath ----------------------------
(* DirectPath, one session between one client and one burrow.                *)
EXTENDS DirectPath

=============================================================================
