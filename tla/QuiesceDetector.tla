--------------------------- MODULE QuiesceDetector ---------------------------
(***************************************************************************)
(* The output detector of one Session, with its clock:                     *)
(* lib/src/lib/quiesce-detector.ts. Instants are kept as ages, each up to  *)
(* the age past which nothing tells it from an older one. A timer is the   *)
(* time left on it; a callback may run late, by at most MaxLate.           *)
(***************************************************************************)
EXTENDS Integers

CONSTANTS CandidateGap,     \* cfg.alert.busyCandidateGap
          ConfirmGap,       \* cfg.alert.busyConfirmGap
          AttentionGap,     \* cfg.alert.mightNeedAttention
          SettleGap,        \* cfg.alert.needsAttentionConfirm
          WorkStartWindow,  \* cfg.alert.workStartWindow
          MaxLate           \* bound: how late a callback may run

ASSUME GapsAreSpans ==
    /\ {CandidateGap, ConfirmGap, AttentionGap, SettleGap} \subseteq Nat \ {0}
    /\ {WorkStartWindow, MaxLate} \subseteq Nat

VARIABLES status, report,
          timers,     \* what is left on each timer that is set
          first,      \* age of firstOutputAt, or None
          last,       \* age of lastOutputAt, or None
          count,      \* outputCountSinceReset, up to 2
          expected,   \* age of lastWorkExpectedAt
          silence,    \* ghost: age of the last chunk that counted
          stretch     \* ghost: counted chunks with no gap over HistoryTTL

vars == <<status, report, timers, first, last, count, expected, silence, stretch>>

Abstract == INSTANCE Quiesce

Nothing == Abstract!Nothing
Maybe == Abstract!Maybe
Busy == Abstract!Busy
Pausing == Abstract!Pausing

None == -1

HistoryTTL == CandidateGap + ConfirmGap

\* Ages beyond these are all alike.
Aged(a, cap) == IF a = None \/ a >= cap THEN a ELSE a + 1

Kinds == {"busyCandidate", "busyConfirm", "mightNeedAttention", "settledConfirm"}

Off == [k \in {} |-> 0]

\* schedule: a timer of that kind starts over.
Schedule(ts, kind, delay) ==
    [k \in DOMAIN ts \cup {kind} |-> IF k = kind THEN delay ELSE ts[k]]

Fired(kind) == [k \in DOMAIN timers \ {kind} |-> timers[k]]

StartCandidate(ts) ==
    IF "busyCandidate" \in DOMAIN ts THEN ts
    ELSE Schedule(ts, "busyCandidate", CandidateGap)

IsConfirmedBusy == status \in {Busy, Pausing}

ResetOutputTracking == first' = None /\ last' = None /\ count' = 0

Init ==
    /\ status = Nothing /\ report = "none"
    /\ timers = Off
    /\ first = None /\ last = None /\ count = 0
    /\ expected = WorkStartWindow + 1
    /\ silence = AttentionGap + SettleGap
    /\ stretch = [chunks |-> 0, age |-> 0]

-----------------------------------------------------------------------------

EnterMightBeBusy ==
    /\ status' = Maybe
    /\ timers' = Schedule(Off, "busyConfirm", ConfirmGap)

EnterBusy ==
    /\ status' = Busy
    /\ timers' = Schedule(Off, "mightNeedAttention", AttentionGap)
    /\ ResetOutputTracking

\* Mutant: only the timers end a candidate.
NeverExpired == FALSE

\* Unconfirmed history the clock says is over, whatever the timers did.
Expired == ~IsConfirmedBusy /\ last # None /\ last > HistoryTTL

\* The detector quiet, with no candidate: after expiry, or as it was.
Blank == Expired \/ (status = Nothing /\ first = None)

Counted ==
    /\ report' = "work"
    /\ silence' = 0
    /\ stretch' = IF silence > HistoryTTL \/ stretch.chunks = 0
                  THEN [chunks |-> 1, age |-> 0]
                  ELSE [stretch EXCEPT !.chunks = IF @ < 3 THEN @ + 1 ELSE @]
    /\ UNCHANGED expected

Ignored ==
    /\ Blank /\ expected > WorkStartWindow
    /\ report' = "ignored"
    /\ IF Expired THEN status' = Nothing /\ timers' = Off /\ ResetOutputTracking
       ELSE UNCHANGED <<status, timers, first, last, count>>
    /\ UNCHANGED <<expected, silence, stretch>>

FirstChunk ==
    /\ Blank /\ expected <= WorkStartWindow
    /\ status' = Nothing
    /\ timers' = StartCandidate(IF Expired THEN Off ELSE timers)
    /\ first' = 0 /\ last' = 0 /\ count' = 1
    /\ Counted

CandidateChunk ==
    /\ ~Blank /\ status = Nothing
    /\ IF first >= CandidateGap THEN EnterMightBeBusy
       ELSE UNCHANGED <<status, timers>>
    /\ last' = 0 /\ count' = IF count < 2 THEN count + 1 ELSE count
    /\ UNCHANGED first
    /\ Counted

ConfirmingChunk == ~Blank /\ status \in {Maybe, Pausing} /\ EnterBusy /\ Counted

\* Mutants: more output leaves the silence timer running, or stops it.
BusyChunkRunsOn ==
    /\ status = Busy
    /\ last' = 0
    /\ UNCHANGED <<status, timers, first, count>>
    /\ Counted

BusyChunkUntimed ==
    /\ status = Busy
    /\ timers' = Off
    /\ last' = 0
    /\ UNCHANGED <<status, first, count>>
    /\ Counted

BusyChunk ==
    /\ status = Busy
    /\ timers' = Schedule(timers, "mightNeedAttention", AttentionGap)
    /\ last' = 0
    /\ UNCHANGED <<status, first, count>>
    /\ Counted

OnData == Ignored \/ FirstChunk \/ CandidateChunk \/ ConfirmingChunk \/ BusyChunk

ExpectWork ==
    /\ expected' = 0
    /\ UNCHANGED <<status, report, timers, first, last, count, silence, stretch>>

Reset ==
    /\ status' = Nothing /\ report' = "none"
    /\ timers' = Off
    /\ ResetOutputTracking
    /\ stretch' = [chunks |-> 0, age |-> 0]
    /\ UNCHANGED <<expected, silence>>

-----------------------------------------------------------------------------
(* The callbacks, at their time or later.                                   *)

Due(kind) == kind \in DOMAIN timers /\ timers[kind] <= 0

\* Mutant: one chunk is enough of a candidate.
CandidateTimerAlone ==
    /\ Due("busyCandidate")
    /\ IF status = Nothing THEN EnterMightBeBusy
       ELSE timers' = Fired("busyCandidate") /\ UNCHANGED status
    /\ report' = "none"
    /\ UNCHANGED <<first, last, count>>

CandidateTimer ==
    /\ Due("busyCandidate")
    /\ IF status = Nothing /\ count >= 2 THEN EnterMightBeBusy
       ELSE timers' = Fired("busyCandidate") /\ UNCHANGED status
    /\ report' = "none"
    /\ UNCHANGED <<first, last, count>>

\* seedFromLatestOutput: the last chunk is a new candidate.
ConfirmTimer ==
    /\ Due("busyConfirm")
    /\ status = Maybe
    /\ status' = Nothing
    /\ first' = last /\ count' = 1
    /\ timers' = StartCandidate(Fired("busyConfirm"))
    /\ report' = "none"
    /\ UNCHANGED last

\* Mutants: the first silence already settles, or no second one is awaited.
AttentionTimerSettles ==
    /\ Due("mightNeedAttention")
    /\ status = Busy
    /\ status' = Nothing
    /\ timers' = Fired("mightNeedAttention")
    /\ ResetOutputTracking
    /\ report' = "settled"

AttentionTimerOnly ==
    /\ Due("mightNeedAttention")
    /\ status = Busy
    /\ status' = Pausing
    /\ timers' = Fired("mightNeedAttention")
    /\ report' = "none"
    /\ UNCHANGED <<first, last, count>>

\* The original deadline is carried through a callback that ran late.
AttentionTimer ==
    LET left == SettleGap + timers["mightNeedAttention"]
    IN  /\ Due("mightNeedAttention")
        /\ status = Busy
        /\ status' = Pausing
        /\ timers' = Schedule(Fired("mightNeedAttention"), "settledConfirm",
                              IF left > 0 THEN left ELSE 0)
        /\ report' = "none"
        /\ UNCHANGED <<first, last, count>>

SettleTimer ==
    /\ Due("settledConfirm")
    /\ status = Pausing
    /\ status' = Nothing
    /\ timers' = Fired("settledConfirm")
    /\ ResetOutputTracking
    /\ report' = "settled"

Callback ==
    /\ CandidateTimer \/ ConfirmTimer \/ AttentionTimer \/ SettleTimer
    /\ UNCHANGED <<expected, silence, stretch>>

Tick ==
    /\ \A k \in DOMAIN timers : timers[k] > -MaxLate
    /\ timers' = [k \in DOMAIN timers |-> timers[k] - 1]
    /\ first' = Aged(first, CandidateGap)
    /\ last' = Aged(last, HistoryTTL + 1)
    /\ expected' = Aged(expected, WorkStartWindow + 1)
    /\ silence' = Aged(silence, AttentionGap + SettleGap)
    /\ stretch' = [stretch EXCEPT !.age = IF stretch.chunks = 0 THEN @
                                          ELSE Aged(@, CandidateGap)]
    /\ UNCHANGED <<status, report, count>>

Next == OnData \/ ExpectWork \/ Reset \/ Callback \/ Tick

\* Time passes, and a callback that is due runs.
Spec == Init /\ [][Next]_vars /\ WF_vars(Callback) /\ WF_vars(Tick)

-----------------------------------------------------------------------------
(* Properties *)

TypeOK ==
    /\ status \in {Nothing, Maybe, Busy, Pausing}
    /\ report \in {"none", "ignored", "work", "settled"}
    /\ DOMAIN timers \subseteq Kinds
    /\ \A k \in DOMAIN timers : timers[k] \in Int
    /\ first \in Int /\ last \in Int /\ count \in 0..2
    /\ expected \in Nat /\ silence \in Nat
    /\ stretch \in [chunks : 0..3, age : Nat]

\* Whatever the detector is waiting out has a timer that ends it, and a candidate
\* has a chunk it began with (enterBusy, enterMightBeBusy, schedule).
WaitingIsTimed ==
    /\ status = Maybe => "busyConfirm" \in DOMAIN timers
    /\ status = Busy => "mightNeedAttention" \in DOMAIN timers
    /\ status = Pausing => "settledConfirm" \in DOMAIN timers
    /\ status = Maybe => last # None
    /\ status = Nothing => (first = None <=> last = None)

\* The detector gives its owner exactly what the untimed one does.
ImplementsQuiesce == Abstract!Spec

\* A settle means silence since the last chunk that counted, both gaps long,
\* however late the callbacks ran (schedule's carried deadline).
SettlesAfterSilence ==
    [][report' = "settled" /\ status = Pausing => silence >= AttentionGap + SettleGap]_vars

\* A run is confirmed by at least three chunks, the candidate gap between the
\* first and the last, and no gap that ends a run: late callbacks included
\* (onData's expiry, the candidate timer, seedFromLatestOutput).
BusyIsSustained ==
    [][status = Maybe /\ status' = Busy =>
           stretch'.chunks = 3 /\ stretch'.age >= CandidateGap]_vars

\* Output that nothing asked for, after a silence that ends a run, begins none
\* (onData's gate, expectWork), even when the timers that should have forgotten
\* the last run have not been called yet.
NoRunUnasked ==
    [][report' = "work" /\ silence' = 0 /\ ~IsConfirmedBusy /\ silence > HistoryTTL
           => expected <= WorkStartWindow]_vars

\* With no more output, the detector comes to rest.
SilenceSettles ==
    <>[][~(OnData \/ Reset)]_vars => <>[](status = Nothing)

=============================================================================
