----------------------------- MODULE MCTransfer -----------------------------
(* Transfer on two or three windows. *)
EXTENDS Transfer, TLC

=============================================================================
