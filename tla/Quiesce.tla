------------------------------ MODULE Quiesce ------------------------------
(***************************************************************************)
(* What the output detector of lib/src/lib/quiesce-detector.ts promises    *)
(* its owner, with no clock: which status may follow which, on a chunk of  *)
(* output, on one of its timers and on a reset. AlertManager reads the     *)
(* detector through these operators; QuiesceDetector, which has the clock  *)
(* and the timers, implements this specification.                          *)
(***************************************************************************)

Nothing == "NOTHING_TO_SHOW"
Maybe == "MIGHT_BE_BUSY"
Busy == "BUSY"
Pausing == "MIGHT_NEED_ATTENTION"

Status == {Nothing, Maybe, Busy, Pausing}

\* A report to the owner: onData's answer, or onSettled.
Report == {"none", "ignored", "work", "settled"}

\* A chunk: the status after it, and whether it counted. Unconfirmed history that
\* is too old is forgotten first, and a run's first chunk may be ignored.
OnOutput(s) ==
    CASE s = Nothing -> {<<Nothing, "ignored">>, <<Nothing, "work">>, <<Maybe, "work">>}
      [] s = Maybe -> {<<Busy, "work">>, <<Nothing, "work">>, <<Nothing, "ignored">>}
      [] s \in {Busy, Pausing} -> {<<Busy, "work">>}

\* A timer. Only silence after confirmed work settles.
OnTimer(s) ==
    CASE s = Nothing -> {<<Nothing, "none">>, <<Maybe, "none">>}
      [] s = Maybe -> {<<Nothing, "none">>}
      [] s = Busy -> {<<Pausing, "none">>}
      [] s = Pausing -> {<<Nothing, "settled">>}

VARIABLES status, report

Output == <<status', report'>> \in OnOutput(status)

Timer == <<status', report'>> \in OnTimer(status)

Reset == status' = Nothing /\ report' = "none"

Spec ==
    /\ status = Nothing /\ report = "none"
    /\ [][Output \/ Timer \/ Reset]_<<status, report>>

=============================================================================
