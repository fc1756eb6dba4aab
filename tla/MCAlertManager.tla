--------------------------- MODULE MCAlertManager ---------------------------
(* AlertManager with two viewers, one watch key and an await of each kind. *)
EXTENDS AlertManager, TLC

CONSTANTS v1, v2, q, x

EachKind == q :> "quiet" @@ x :> "exit"

=============================================================================
