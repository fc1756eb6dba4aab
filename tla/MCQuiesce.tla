------------------------------ MODULE MCQuiesce ------------------------------
(* QuiesceDetector with cfg.alert's spans, in units of half a second. *)
EXTENDS QuiesceDetector

=============================================================================
