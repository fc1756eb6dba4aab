---------------------------- MODULE QuiesceProofs ----------------------------
(***************************************************************************)
(* What QuiesceDetector guarantees for every choice of its spans and for   *)
(* callbacks as late as MaxLate allows: it implements Quiesce, a settle    *)
(* means the whole silence, a run is sustained output, and output nothing  *)
(* asked for begins none.                                                  *)
(***************************************************************************)
EXTENDS QuiesceDetector, TLAPS

USE DEF Nothing, Maybe, Busy, Pausing, Abstract!Nothing, Abstract!Maybe,
        Abstract!Busy, Abstract!Pausing, None

MinOf(a, b) == IF a <= b THEN a ELSE b

\* The ages, and the timers, are what the clock can make them.
Ages ==
    /\ first \in Nat \cup {None} /\ last \in Nat \cup {None}
    /\ expected \in Nat /\ silence \in Nat
    /\ stretch \in [chunks : 0..3, age : Nat]
    /\ count \in 0..2
    /\ status \in {Nothing, Maybe, Busy, Pausing}
    /\ report \in {"none", "ignored", "work", "settled"}

Timers ==
    /\ timers = [k \in DOMAIN timers |-> timers[k]]
    /\ DOMAIN timers \subseteq Kinds
    /\ \A k \in DOMAIN timers : timers[k] \in Int

\* A timer is set only in the status it belongs to.
TimersBelong ==
    /\ "busyCandidate" \in DOMAIN timers => status = Nothing /\ first # None
    /\ "mightNeedAttention" \in DOMAIN timers => status = Busy
    /\ "settledConfirm" \in DOMAIN timers => status = Pausing

\* Output is remembered while a run may still come of it, and a settle ends the run.
Remembered ==
    /\ count > 0 => last # None
    /\ status \in {Busy, Pausing} => first = None /\ count = 0
    /\ first # None => last # None
    /\ report = "settled" => status = Nothing

\* The silence timers run out no earlier than the silence does.
SilenceIsWaitedOut ==
    /\ status = Busy =>
          \/ silence >= AttentionGap + SettleGap
          \/ timers["mightNeedAttention"] + silence >= AttentionGap
    /\ status = Pausing =>
          \/ silence >= AttentionGap + SettleGap
          \/ timers["settledConfirm"] + silence >= AttentionGap + SettleGap

\* What the detector remembers of its last output is no younger than the output.
LastIsOld == last # None => last >= MinOf(silence, HistoryTTL + 1)

\* What it remembers of a candidate is there in the output.
StretchCovers ==
    /\ last # None => stretch.chunks >= 1
    /\ stretch.chunks >= count
    /\ first # None => stretch.age >= MinOf(first, CandidateGap)
    /\ last # None => stretch.age >= MinOf(last, CandidateGap)
    /\ "busyCandidate" \in DOMAIN timers =>
          \/ stretch.age >= CandidateGap
          \/ timers["busyCandidate"] + stretch.age >= CandidateGap
    /\ status = Maybe => stretch.chunks >= 2 /\ stretch.age >= CandidateGap

IInv ==
    /\ Ages
    /\ Timers
    /\ WaitingIsTimed
    /\ TimersBelong
    /\ Remembered
    /\ SilenceIsWaitedOut
    /\ LastIsOld
    /\ StretchCovers

-----------------------------------------------------------------------------

\* A new detector satisfies the invariant (the constructor).
LEMMA InitIInv == Init => IInv
  BY GapsAreSpans DEF Init, IInv, Ages, Timers, WaitingIsTimed, TimersBelong,
     Remembered, SilenceIsWaitedOut, LastIsOld, StretchCovers, MinOf, HistoryTTL, Off

\* onData's chunk that nothing asked for keeps it, history expired or not.
LEMMA IgnoredKeeps == IInv /\ Ignored => IInv'
<1> SUFFICES ASSUME IInv, Ignored PROVE IInv'
  OBVIOUS
<1>1. CASE Expired
  <2>1. /\ status' = Nothing /\ timers' = Off /\ ResetOutputTracking
        /\ report' = "ignored"
        /\ UNCHANGED <<expected, silence, stretch>>
    BY <1>1 DEF Ignored
  <2> QED
    BY <2>1 DEF ResetOutputTracking, Off, Kinds, IInv, Ages, Timers, WaitingIsTimed,
       TimersBelong, Remembered, SilenceIsWaitedOut, LastIsOld, StretchCovers, MinOf,
       HistoryTTL
<1>2. CASE ~Expired
  <2>1. /\ UNCHANGED <<status, timers, first, last, count, expected, silence, stretch>>
        /\ report' = "ignored"
    BY <1>2 DEF Ignored
  <2> QED
    BY <2>1 DEF IInv, Ages, Timers, WaitingIsTimed, TimersBelong, Remembered,
       SilenceIsWaitedOut, LastIsOld, StretchCovers, MinOf, HistoryTTL
<1> QED BY <1>1, <1>2

\* onData's first chunk keeps it: the candidate's timer starts with the whole gap left,
\* no candidate timer being set while there is no candidate.
LEMMA FirstChunkKeeps == IInv /\ FirstChunk => IInv'
<1> SUFFICES ASSUME IInv, FirstChunk PROVE IInv'
  OBVIOUS
<1>1. stretch' \in [chunks : 1..3, age : Nat]
  BY DEF FirstChunk, Counted, IInv, Ages
<1>2. timers' = [k \in DOMAIN timers' |-> timers'[k]]
      /\ DOMAIN timers' \subseteq {"busyCandidate", "busyConfirm"}
      /\ "busyCandidate" \in DOMAIN timers' /\ timers'["busyCandidate"] = CandidateGap
      /\ \A k \in DOMAIN timers' : timers'[k] \in Int
  <2>1. CASE Expired
    BY <2>1, GapsAreSpans DEF FirstChunk, StartCandidate, Schedule, Off
  <2>2. CASE ~Expired
    <3>1. "busyCandidate" \notin DOMAIN timers /\ status = Nothing
      BY <2>2 DEF FirstChunk, Blank, IInv, TimersBelong
    <3>2. timers' = Schedule(timers, "busyCandidate", CandidateGap)
      BY <2>2, <3>1 DEF FirstChunk, StartCandidate
    <3>3. DOMAIN timers \subseteq {"busyConfirm"} /\ \A k \in DOMAIN timers : timers[k] \in Int
      BY <3>1 DEF IInv, Timers, TimersBelong, Kinds
    <3> QED
      BY <3>2, <3>3, GapsAreSpans DEF Schedule
  <2> QED BY <2>1, <2>2
<1>3. /\ status' = Nothing /\ first' = 0 /\ last' = 0 /\ count' = 1
      /\ report' = "work" /\ silence' = 0 /\ expected' = expected
  BY DEF FirstChunk, Counted
<1>4. Ages' /\ Timers' /\ Remembered'
  BY <1>1, <1>2, <1>3 DEF IInv, Ages, Timers, Remembered, Kinds
<1>5. WaitingIsTimed' /\ TimersBelong' /\ SilenceIsWaitedOut'
  BY <1>2, <1>3 DEF WaitingIsTimed, TimersBelong, SilenceIsWaitedOut
<1>6. LastIsOld' /\ StretchCovers'
  BY <1>1, <1>2, <1>3, GapsAreSpans DEF LastIsOld, StretchCovers, MinOf, HistoryTTL
<1> QED
  BY <1>4, <1>5, <1>6 DEF IInv

\* A further chunk of a candidate keeps it (onData, enterMightBeBusy).
LEMMA CandidateChunkKeeps == IInv /\ CandidateChunk => IInv'
  BY GapsAreSpans DEF CandidateChunk, Counted, Blank, Expired, IsConfirmedBusy,
     EnterMightBeBusy, Schedule, Off, Kinds, IInv, Ages, Timers, WaitingIsTimed,
     TimersBelong, Remembered, SilenceIsWaitedOut, LastIsOld, StretchCovers, MinOf,
     HistoryTTL

\* The chunk that confirms a run, or takes it up again, keeps it (enterBusy).
LEMMA ConfirmingChunkKeeps == IInv /\ ConfirmingChunk => IInv'
  BY GapsAreSpans DEF ConfirmingChunk, Counted, Blank, Expired, IsConfirmedBusy,
     EnterBusy, ResetOutputTracking, Schedule, Off, Kinds, IInv, Ages, Timers,
     WaitingIsTimed, TimersBelong, Remembered, SilenceIsWaitedOut, LastIsOld,
     StretchCovers, MinOf, HistoryTTL

\* A chunk of a confirmed run keeps it: the silence and its timer start over together.
LEMMA BusyChunkKeeps == IInv /\ BusyChunk => IInv'
  BY GapsAreSpans DEF BusyChunk, Counted, Schedule, Kinds, IInv, Ages, Timers,
     WaitingIsTimed, TimersBelong, Remembered, SilenceIsWaitedOut, LastIsOld,
     StretchCovers, MinOf, HistoryTTL

\* expectWork keeps it.
LEMMA ExpectWorkKeeps == IInv /\ ExpectWork => IInv'
  BY GapsAreSpans DEF ExpectWork, IInv, Ages, Timers, WaitingIsTimed, TimersBelong,
     Remembered, SilenceIsWaitedOut, LastIsOld, StretchCovers, MinOf, HistoryTTL

\* reset keeps it: no timer is left set.
LEMMA ResetKeeps == IInv /\ Reset => IInv'
  BY GapsAreSpans DEF Reset, ResetOutputTracking, Off, IInv, Ages, Timers,
     WaitingIsTimed, TimersBelong, Remembered, SilenceIsWaitedOut, LastIsOld,
     StretchCovers, MinOf, HistoryTTL

\* The candidate timer keeps it (its case in schedule).
LEMMA CandidateTimerKeeps ==
    IInv /\ CandidateTimer /\ UNCHANGED <<expected, silence, stretch>> => IInv'
  BY GapsAreSpans DEF CandidateTimer, EnterMightBeBusy, Schedule, Off, Due, Fired,
     Kinds, IInv, Ages, Timers, WaitingIsTimed, TimersBelong, Remembered,
     SilenceIsWaitedOut, LastIsOld, StretchCovers, MinOf, HistoryTTL

\* The confirm timer keeps it: the seeded candidate is as old as the last chunk.
LEMMA ConfirmTimerKeeps ==
    IInv /\ ConfirmTimer /\ UNCHANGED <<expected, silence, stretch>> => IInv'
  BY GapsAreSpans DEF ConfirmTimer, StartCandidate, Schedule, Due, Fired, Kinds, IInv,
     Ages, Timers, WaitingIsTimed, TimersBelong, Remembered, SilenceIsWaitedOut, LastIsOld,
     StretchCovers, MinOf, HistoryTTL

\* The attention timer keeps it: what it was late by is taken off the next one.
LEMMA AttentionTimerKeeps ==
    IInv /\ AttentionTimer /\ UNCHANGED <<expected, silence, stretch>> => IInv'
  BY GapsAreSpans DEF AttentionTimer, Schedule, Due, Fired, Kinds, IInv, Ages, Timers,
     WaitingIsTimed, TimersBelong, Remembered, SilenceIsWaitedOut, LastIsOld,
     StretchCovers, MinOf, HistoryTTL

\* The settle timer keeps it (its case in schedule).
LEMMA SettleTimerKeeps ==
    IInv /\ SettleTimer /\ UNCHANGED <<expected, silence, stretch>> => IInv'
  BY GapsAreSpans DEF SettleTimer, ResetOutputTracking, Due, Fired, Kinds, IInv, Ages,
     Timers, WaitingIsTimed, TimersBelong, Remembered, SilenceIsWaitedOut, LastIsOld,
     StretchCovers, MinOf, HistoryTTL

\* Time keeps it: every timer loses what every age gains.
LEMMA TickKeeps == IInv /\ Tick => IInv'
  BY GapsAreSpans DEF Tick, Aged, Kinds, IInv, Ages, Timers, WaitingIsTimed,
     TimersBelong, Remembered, SilenceIsWaitedOut, LastIsOld, StretchCovers, MinOf,
     HistoryTTL

\* So does every callback.
LEMMA CallbackKeeps == IInv /\ Callback => IInv'
  BY CandidateTimerKeeps, ConfirmTimerKeeps, AttentionTimerKeeps, SettleTimerKeeps
     DEF Callback

\* So does every step.
LEMMA NextKeeps == IInv /\ [Next]_vars => IInv'
<1> SUFFICES ASSUME IInv, [Next]_vars PROVE IInv'
  OBVIOUS
<1>1. CASE OnData
  BY <1>1, IgnoredKeeps, FirstChunkKeeps, CandidateChunkKeeps, ConfirmingChunkKeeps,
     BusyChunkKeeps DEF OnData
<1>2. CASE UNCHANGED vars
  BY <1>2 DEF vars, IInv, Ages, Timers, WaitingIsTimed, TimersBelong, Remembered,
     SilenceIsWaitedOut, LastIsOld, StretchCovers
<1> QED
  BY <1>1, <1>2, ExpectWorkKeeps, ResetKeeps, CallbackKeeps, TickKeeps DEF Next

\* The invariant holds of every behaviour of the detector, for every choice of the spans
\* of cfg.alert and of the bound on how late its callbacks run.
THEOREM IInvHolds == Spec => []IInv
  BY InitIInv, NextKeeps, PTL DEF Spec

\* WaitingIsTimed: the detector never waits without a timer that ends the wait
\* (enterMightBeBusy, enterBusy, schedule).
THEOREM WaitingIsAlwaysTimed == Spec => []WaitingIsTimed
  BY IInvHolds, PTL DEF IInv

-----------------------------------------------------------------------------

\* A step that reports a settle from Pausing is the settle timer, which has waited.
LEMMA SettleStep ==
    IInv /\ [Next]_vars =>
        [report' = "settled" /\ status = Pausing => silence >= AttentionGap + SettleGap]_vars
<1> SUFFICES ASSUME IInv, Next, report' = "settled", status = Pausing
             PROVE silence >= AttentionGap + SettleGap
  BY DEF vars
<1>1. SettleTimer
  BY DEF Next, OnData, Ignored, FirstChunk, CandidateChunk, ConfirmingChunk, BusyChunk,
     Counted, ExpectWork, Reset, Callback, CandidateTimer, ConfirmTimer, AttentionTimer,
     Tick, IInv, Remembered
<1> QED
  BY <1>1, GapsAreSpans DEF SettleTimer, Due, IInv, Ages, Timers, SilenceIsWaitedOut

\* SettlesAfterSilence: onSettled runs only after a silence of both gaps, however late
\* the callbacks ran (the deadline carried over by schedule).
THEOREM SettlesOnlyAfterSilence == Spec => SettlesAfterSilence
  BY IInvHolds, SettleStep, PTL DEF Spec, SettlesAfterSilence

\* A step that confirms a run finds three chunks that belong together.
LEMMA BusyStep ==
    IInv /\ [Next]_vars =>
        [status = Maybe /\ status' = Busy =>
            stretch'.chunks = 3 /\ stretch'.age >= CandidateGap]_vars
<1> SUFFICES ASSUME IInv, Next, status = Maybe, status' = Busy
             PROVE stretch'.chunks = 3 /\ stretch'.age >= CandidateGap
  BY DEF vars
<1>1. ConfirmingChunk
  BY DEF Next, OnData, Ignored, FirstChunk, CandidateChunk, BusyChunk, ExpectWork, Reset,
     Callback, CandidateTimer, ConfirmTimer, AttentionTimer, SettleTimer, Tick,
     EnterMightBeBusy
<1>2. /\ stretch \in [chunks : 0..3, age : Nat]
      /\ stretch.chunks >= 2 /\ stretch.age >= CandidateGap
  BY DEF IInv, Ages, StretchCovers
<1>3. silence <= HistoryTTL
  BY <1>1, GapsAreSpans DEF ConfirmingChunk, Blank, Expired, IsConfirmedBusy, IInv, Ages,
     WaitingIsTimed, LastIsOld, MinOf, HistoryTTL
<1>4. stretch' = [stretch EXCEPT !.chunks = IF @ < 3 THEN @ + 1 ELSE @]
  BY <1>1, <1>2, <1>3, GapsAreSpans DEF ConfirmingChunk, Counted, IInv, Ages, HistoryTTL
<1> QED
  BY <1>2, <1>4

\* BusyIsSustained: a run is confirmed only by sustained output, late timers or not
\* (the expiry in onData, the count of the candidate timer, seedFromLatestOutput).
THEOREM BusyIsSustainedOutput == Spec => BusyIsSustained
  BY IInvHolds, BusyStep, PTL DEF Spec, BusyIsSustained

\* A step that counts output after a long silence was asked for.
LEMMA UnaskedStep ==
    IInv /\ [Next]_vars =>
        [report' = "work" /\ silence' = 0 /\ ~IsConfirmedBusy /\ silence > HistoryTTL
           => expected <= WorkStartWindow]_vars
<1> SUFFICES ASSUME IInv, Next, report' = "work", silence' = 0, ~IsConfirmedBusy,
                    silence > HistoryTTL
             PROVE expected <= WorkStartWindow
  BY DEF vars
<1>1. silence' # silence
  BY GapsAreSpans DEF HistoryTTL
<1>2. ~Tick
  BY <1>1, GapsAreSpans DEF Tick, Aged, IInv, Ages, HistoryTTL
<1>3. FirstChunk \/ CandidateChunk \/ ConfirmingChunk
  BY <1>1, <1>2 DEF Next, OnData, Ignored, BusyChunk, ExpectWork, Reset, Callback,
     IsConfirmedBusy
<1>4. last # None => Blank
  BY GapsAreSpans DEF Blank, Expired, IInv, Ages, LastIsOld, MinOf, HistoryTTL
<1>5. Blank
  BY <1>4 DEF Blank, IInv, Ages, WaitingIsTimed, IsConfirmedBusy
<1> QED
  BY <1>3, <1>5 DEF FirstChunk, CandidateChunk, ConfirmingChunk

\* NoRunUnasked: output that nothing asked for begins no run (the gate of onData).
THEOREM NoRunIsUnasked == Spec => NoRunUnasked
  BY IInvHolds, UnaskedStep, PTL DEF Spec, NoRunUnasked

-----------------------------------------------------------------------------

\* Every step of the detector is a step of Quiesce on status and report, or changes neither.
\* That a timer is set only in its own status is what makes each callback Quiesce's.
LEMMA SimulationStep ==
    IInv /\ [Next]_vars =>
        [Abstract!Output \/ Abstract!Timer \/ Abstract!Reset]_<<status, report>>
<1> SUFFICES ASSUME IInv, Next
             PROVE \/ Abstract!Output \/ Abstract!Timer \/ Abstract!Reset
                   \/ UNCHANGED <<status, report>>
  BY DEF vars
<1>1. CASE OnData
  BY <1>1 DEF OnData, Ignored, FirstChunk, CandidateChunk, ConfirmingChunk, BusyChunk,
     Counted, Blank, Expired, IsConfirmedBusy, EnterMightBeBusy, EnterBusy, IInv, Ages,
     Abstract!Output, Abstract!OnOutput
<1>2. CASE Callback
  BY <1>2 DEF Callback, CandidateTimer, ConfirmTimer, AttentionTimer, SettleTimer, Due,
     EnterMightBeBusy, IInv, TimersBelong, Abstract!Timer, Abstract!OnTimer
<1>3. CASE Reset
  BY <1>3 DEF Reset, Abstract!Reset
<1>4. CASE ExpectWork \/ Tick
  BY <1>4 DEF ExpectWork, Tick
<1> QED
  BY <1>1, <1>2, <1>3, <1>4 DEF Next

\* ImplementsQuiesce: the detector with its clock implements the untimed one that
\* AlertManager is built on (onData, the callbacks, reset).
THEOREM DetectorImplementsQuiesce == Spec => ImplementsQuiesce
<1>1. Init => status = Nothing /\ report = "none"
  BY DEF Init
<1> QED
  BY <1>1, IInvHolds, SimulationStep, PTL DEF Spec, ImplementsQuiesce, Abstract!Spec

=============================================================================
