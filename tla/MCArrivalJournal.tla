-------------------------- MODULE MCArrivalJournal --------------------------
(* ArrivalJournal on two windows and two Workspaces. *)
EXTENDS ArrivalJournal, TLC

CONSTANTS main, w1, k1, k2

\* One window with both Workspaces: a move tears out or finds a window torn out.
Together == {main :> {k1, k2}}

\* A Workspace in each window: a move empties the window it leaves.
Apart == {main :> {k1} @@ w1 :> {k2}, main :> {k2} @@ w1 :> {k1}}

EitherWay == Together \cup Apart

Either == Permutations({k1, k2})

=============================================================================
