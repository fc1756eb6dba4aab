----------------------------- MODULE MCQuitFlow -----------------------------
(* QuitFlow on small sets of windows. *)
EXTENDS QuitFlow, TLC

\* main is special; the other windows open at the start are interchangeable.
OtherWindows == Permutations(InitialWindows \ {Main})

=============================================================================
