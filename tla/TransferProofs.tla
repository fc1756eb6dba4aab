--------------------------- MODULE TransferProofs ---------------------------
(***************************************************************************)
(* Transfer for every set of windows and every bound.                      *)
(***************************************************************************)
EXTENDS Transfer, SequenceTheorems, TLAPS

-----------------------------------------------------------------------------
(* Types *)

LEMMA BytesTyped ==
    ASSUME NEW x \in Nat, NEW y \in Nat
    PROVE  Bytes(x, y) \in Seq(Nat)
<1>1. CASE x <= y
  <2>1. y - x \in Nat /\ \A i \in 1..(y - x) : x + i \in Nat
    BY <1>1
  <2>. QED  BY <2>1 DEF Bytes
<1>2. CASE ~(x <= y)
  <2>1. 1..(y - x) = 1..0
    BY <1>2
  <2>2. Bytes(x, y) = [i \in 1..0 |-> x + i]
    BY <2>1 DEF Bytes
  <2>. QED  BY <2>2
<1>. QED  BY <1>1, <1>2

\* What a message of each kind carries.
LEMMA EventParts ==
    ASSUME NEW e \in Event
    PROVE  /\ e.t = "data" => e.byte \in Nat
           /\ e.t = "marked" => e.mark \in Nat
           /\ e.t = "replay" => e.n \in Nat /\ e.bytes \in Seq(Nat)
           /\ e.t = "failed" => e.replay \in BOOLEAN
BY DEF Event

LEMMA LineParts ==
    ASSUME NEW l \in Line
    PROVE  /\ l.t = "data" => l \in Event /\ l.byte \in Nat
           /\ l.t = "marked" => l \in Event /\ l.mark \in Nat
           /\ l.t = "cwds" => l.for \in Window
           /\ l.t = "replay" => l.for \in Window /\ l.n \in Nat /\ l.bytes \in Seq(Nat)
BY DEF Line, Event

LEMMA RequestParts ==
    ASSUME NEW r \in Request
    PROVE  /\ r.t \in {"mark", "cwds", "init"}
           /\ r.t = "cwds" => r.for \in Window
           /\ r.t = "init" => r.for \in Window /\ r.n \in Nat /\ r.since \in Mark
BY DEF Request

LEMMA AnswerTyped ==
    ASSUME NEW r \in Request, produced \in Nat
    PROVE  Answer(r) \in Line
<1>1. CASE r.t = "mark"
  BY <1>1 DEF Answer, Line
<1>2. CASE r.t = "cwds"
  BY <1>2, RequestParts DEF Answer, Line
<1>3. CASE r.t = "init"
  <2>1. /\ r.for \in Window /\ r.n \in Nat
        /\ (IF r.since = NoMark THEN 0 ELSE r.since) \in Nat
    BY <1>3, RequestParts DEF Mark
  <2>2. Bytes(IF r.since = NoMark THEN 0 ELSE r.since, produced) \in Seq(Nat)
    BY <2>1, BytesTyped
  <2>. QED  BY <1>3, <2>1, <2>2 DEF Answer, Line
<1>. QED  BY <1>1, <1>2, <1>3, RequestParts

\* Events are emitted in their type.
LEMMA EmitTyped ==
    ASSUME TypeOK, NEW w, NEW e \in Event, Emit(w, e)
    PROVE  toWin' \in [Window -> Seq(Event)]
<1>1. CASE w \in live
  <2>1. w \in Window /\ toWin[w] \in Seq(Event)
    BY <1>1 DEF TypeOK
  <2>2. Append(toWin[w], e) \in Seq(Event)
    BY <2>1
  <2>. QED  BY <1>1, <2>1, <2>2 DEF TypeOK, Emit
<1>. QED  BY <1>1 DEF TypeOK, Emit

LEMMA EventTyped ==
    ASSUME TypeOK, NEW w \in Window, NEW t, HasEvent(w, t), TakeEvent(w)
    PROVE  /\ toWin[w] \in Seq(Event) /\ toWin[w] # <<>>
           /\ Head(toWin[w]) \in Event /\ Head(toWin[w]).t = t
           /\ Tail(toWin[w]) \in Seq(Event)
           /\ toWin' \in [Window -> Seq(Event)]
<1>1. toWin[w] \in Seq(Event) /\ toWin[w] # <<>> /\ Head(toWin[w]).t = t
  BY DEF TypeOK, HasEvent
<1>2. Head(toWin[w]) \in Event /\ Tail(toWin[w]) \in Seq(Event)
  BY <1>1
<1>. QED  BY <1>1, <1>2 DEF TypeOK, TakeEvent

LEMMA LineTyped ==
    ASSUME TypeOK, NEW t, HasLine(t), TakeLine
    PROVE  /\ Head(stdout) \in Line /\ Head(stdout).t = t
           /\ stdout' \in Seq(Line)
BY DEF TypeOK, HasLine, TakeLine

-----------------------------------------------------------------------------

LEMMA InitTyped == Init => TypeOK
<1>. SUFFICES ASSUME Init PROVE TypeOK
  OBVIOUS
<1>1. NotAdopting \in Adopting
  BY DEF NotAdopting, Adopting
<1>2. NoMark \in Mark
  BY DEF Mark
<1>3. toWin \in [Window -> Seq(Event)] /\ screen \in [Window -> Seq(Nat)]
  <2>1. <<>> \in Seq(Event) /\ <<>> \in Seq(Nat)
    OBVIOUS
  <2>. QED  BY <2>1 DEF Init
<1>4. place \in [Window -> Place]
  BY DEF Init, Place
<1>5. /\ stamp \in [Window -> Mark] /\ adopting \in [Window -> Adopting]
      /\ expecting \in [Window -> BOOLEAN]
  BY <1>1, <1>2 DEF Init
<1>6. stdin \in Seq(Request) /\ stdout \in Seq(Line)
  BY DEF Init
<1>. QED  BY <1>2, <1>3, <1>4, <1>5, <1>6, WindowsAreDistinct DEF Init, TypeOK

\* A hand-back keeps the types of what it touches.
LEMMA HandBackTyped ==
    ASSUME TypeOK, NEW a \in Arrival, HandBack(a)
    PROVE  /\ owner' \in Window \cup {NoWindow}
           /\ awaiting' \in BOOLEAN
           /\ stdin' \in Seq(Request)
           /\ toWin' \in [Window -> Seq(Event)]
           /\ cut' = NoMark /\ cut' \in Mark
           /\ marking' = NoWindow
<1>1. a.from \in Window
  BY DEF Arrival
<1>2. toWin[a.from] \in Seq(Event) /\ cut \in Mark
  BY <1>1 DEF TypeOK
<1>3. CASE a.from \in live
  <2>1. [t |-> "failed", replay |-> cut # NoMark] \in Event
    BY DEF Event
  <2>2. [t |-> "init", for |-> a.from, n |-> HandBackId, since |-> cut] \in Request
    BY <1>1, <1>2 DEF Request, HandBackId
  <2>3. Append(toWin[a.from], [t |-> "failed", replay |-> cut # NoMark]) \in Seq(Event)
    BY <1>2, <2>1
  <2>4. Append(stdin, [t |-> "init", for |-> a.from, n |-> HandBackId, since |-> cut]) \in Seq(Request)
    BY <2>2 DEF TypeOK
  <2>5. toWin' \in [Window -> Seq(Event)]
    BY <1>1, <1>3, <2>3 DEF TypeOK, HandBack
  <2>6. stdin' \in Seq(Request)
    BY <1>3, <2>4 DEF TypeOK, HandBack
  <2>7. awaiting' \in BOOLEAN
    <3>1. awaiting' = (cut # NoMark) \/ awaiting' = awaiting
      BY <1>3 DEF HandBack
    <3>. QED  BY <3>1 DEF TypeOK
  <2>. QED  BY <1>1, <1>3, <2>5, <2>6, <2>7 DEF TypeOK, HandBack, Mark
<1>4. CASE a.from \notin live
  BY <1>4 DEF TypeOK, HandBack, Mark
<1>. QED  BY <1>3, <1>4

\* The sidecar and the reader thread.
LEMMA PipesTyped ==
    ASSUME TypeOK,
           \/ ShellPrints \/ Serve \/ DispatchData \/ DispatchMarked
           \/ DispatchReplay \/ DispatchCwds \/ Sweep
    PROVE  TypeOK'
<1>1. CASE ShellPrints
  <2>1. [t |-> "data", byte |-> produced + 1] \in Line /\ produced + 1 \in Nat
    BY DEF TypeOK, Line
  <2>2. Append(stdout, [t |-> "data", byte |-> produced + 1]) \in Seq(Line)
    BY <2>1 DEF TypeOK
  <2>. QED  BY <1>1, <2>1, <2>2 DEF ShellPrints, TypeOK, hostVars, winVars
<1>2. CASE Serve
  <2>1. Head(stdin) \in Request /\ Tail(stdin) \in Seq(Request)
    BY <1>2 DEF Serve, TypeOK
  <2>2. Answer(Head(stdin)) \in Line
    BY <2>1, AnswerTyped DEF TypeOK
  <2>3. Append(stdout, Answer(Head(stdin))) \in Seq(Line)
    BY <2>2 DEF TypeOK
  <2>. QED  BY <1>2, <2>1, <2>3 DEF Serve, TypeOK, hostVars, winVars
<1>3. CASE DispatchData
  <2>1. Head(stdout) \in Line /\ Head(stdout).t = "data" /\ stdout' \in Seq(Line)
    BY <1>3, LineTyped DEF DispatchData
  <2>2. Head(stdout) \in Event
    BY <2>1, LineParts
  <2>3. toWin' \in [Window -> Seq(Event)]
    <3>1. CASE awaiting
      BY <1>3, <3>1 DEF DispatchData, TypeOK
    <3>2. CASE ~awaiting
      BY <1>3, <2>2, <3>2, EmitTyped DEF DispatchData
    <3>. QED  BY <3>1, <3>2
  <2>. QED  BY <1>3, <2>1, <2>3 DEF DispatchData, TypeOK, hostVars
<1>4. CASE DispatchMarked
  <2>1. Head(stdout) \in Line /\ Head(stdout).t = "marked" /\ stdout' \in Seq(Line)
    BY <1>4, LineTyped DEF DispatchMarked
  <2>2. Head(stdout) \in Event /\ Head(stdout).mark \in Nat
    BY <2>1, LineParts
  <2>3. toWin' \in [Window -> Seq(Event)]
    BY <1>4, <2>2, EmitTyped DEF DispatchMarked
  <2>4. /\ cut' \in Mark /\ awaiting' \in BOOLEAN /\ marking' \in Window \cup {NoWindow}
        /\ marking' # NoWindow => ~awaiting' /\ cut' = NoMark
    BY <1>4, <2>2 DEF DispatchMarked, TypeOK, Mark
  <2>. QED  BY <1>4, <2>1, <2>3, <2>4 DEF DispatchMarked, TypeOK
<1>5. CASE DispatchReplay
  <2>1. Head(stdout) \in Line /\ Head(stdout).t = "replay" /\ stdout' \in Seq(Line)
    BY <1>5, LineTyped DEF DispatchReplay
  <2>2. Head(stdout).n \in Nat /\ Head(stdout).bytes \in Seq(Nat)
    BY <2>1, LineParts
  <2>3. [t |-> "replay", n |-> Head(stdout).n, bytes |-> Head(stdout).bytes] \in Event
    BY <2>2 DEF Event
  <2>4. toWin' \in [Window -> Seq(Event)]
    BY <1>5, <2>3, EmitTyped DEF DispatchReplay
  <2>. QED  BY <1>5, <2>1, <2>4 DEF DispatchReplay, TypeOK
<1>6. CASE DispatchCwds
  <2>1. stdout' \in Seq(Line)
    BY <1>6, LineTyped DEF DispatchCwds
  <2>2. [t |-> "cwds"] \in Event
    BY DEF Event
  <2>3. toWin' \in [Window -> Seq(Event)]
    BY <1>6, <2>2, EmitTyped DEF DispatchCwds
  <2>. QED  BY <1>6, <2>1, <2>3 DEF DispatchCwds, TypeOK, hostVars
<1>7. CASE Sweep
  BY <1>7 DEF Sweep, TypeOK, winVars
<1>. QED  BY <1>1, <1>2, <1>3, <1>4, <1>5, <1>6, <1>7

\* Settling an arrival: the watchdog, the worker, a window that goes away.
LEMMA SettlingTyped ==
    ASSUME TypeOK,
           \/ \E a \in arrivals : Expire(a)
           \/ \E a \in lost : HandBackLost(a)
           \/ \E w \in Window : Destroyed(w) \/ BuildFails(w)
    PROVE  TypeOK'
<1>1. CASE \E a \in arrivals : Expire(a)
  <2>1. PICK a \in arrivals : Expire(a)
    BY <1>1
  <2>2. a \in Arrival /\ HandBack(a)
    BY <2>1 DEF TypeOK, Expire
  <2>3. /\ owner' \in Window \cup {NoWindow} /\ awaiting' \in BOOLEAN
        /\ stdin' \in Seq(Request) /\ toWin' \in [Window -> Seq(Event)]
        /\ cut' \in Mark /\ marking' = NoWindow
    BY <2>2, HandBackTyped
  <2>4. overtaken' \in BOOLEAN
    BY <2>1 DEF TypeOK, Expire
  <2>. QED  BY <2>1, <2>3, <2>4 DEF TypeOK, Expire
<1>2. CASE \E a \in lost : HandBackLost(a)
  <2>1. PICK a \in lost : HandBackLost(a)
    BY <1>2
  <2>2. a \in Arrival /\ HandBack(a)
    BY <2>1 DEF TypeOK, HandBackLost
  <2>3. /\ owner' \in Window \cup {NoWindow} /\ awaiting' \in BOOLEAN
        /\ stdin' \in Seq(Request) /\ toWin' \in [Window -> Seq(Event)]
        /\ cut' \in Mark /\ marking' = NoWindow
    BY <2>2, HandBackTyped
  <2>. QED  BY <2>1, <2>3 DEF TypeOK, HandBackLost
<1>3. ASSUME NEW w \in Window, Destroyed(w) PROVE TypeOK'
  <2>1. NotAdopting \in Adopting /\ NoMark \in Mark /\ "none" \in Place
    BY DEF NotAdopting, Adopting, Mark, Place
  <2>2. <<>> \in Seq(Event) /\ <<>> \in Seq(Nat)
    OBVIOUS
  <2>3. toWin' \in [Window -> Seq(Event)] /\ screen' \in [Window -> Seq(Nat)]
    BY <1>3, <2>2 DEF Destroyed, TypeOK
  <2>4. /\ place' \in [Window -> Place] /\ stamp' \in [Window -> Mark]
        /\ adopting' \in [Window -> Adopting] /\ expecting' \in [Window -> BOOLEAN]
    BY <1>3, <2>1 DEF Destroyed, TypeOK
  <2>5. awaiting' \in BOOLEAN /\ (awaiting' => awaiting)
    BY <1>3 DEF Destroyed, TypeOK
  <2>6. arrivals' \subseteq arrivals /\ lost' \subseteq Arrival /\ owner' \in Window \cup {NoWindow}
    BY <1>3 DEF Destroyed, TypeOK
  <2>7. /\ live' \subseteq Window /\ gone' \subseteq Window /\ mounted' \subseteq Window
        /\ UNCHANGED <<produced, stdin, stdout, marking, cut, moves>>
    BY <1>3 DEF Destroyed, TypeOK
  <2>8. overtaken' \in BOOLEAN
    BY <1>3 DEF Destroyed, TypeOK
  <2>. QED  BY <2>3, <2>4, <2>5, <2>6, <2>7, <2>8 DEF TypeOK
<1>4. ASSUME NEW w \in Window, BuildFails(w) PROVE TypeOK'
  <2>1. PICK a \in arrivals : 
          /\ place' = [place EXCEPT ![w] = "sent"] /\ arrivals' = arrivals \ {a} /\ HandBack(a)
          /\ UNCHANGED <<produced, stdout, live, gone, lost, stamp, adopting,
                         expecting, screen, mounted, moves, overtaken>>
    BY <1>4 DEF BuildFails
  <2>2. a \in Arrival
    BY <2>1 DEF TypeOK
  <2>3. /\ owner' \in Window \cup {NoWindow} /\ awaiting' \in BOOLEAN
        /\ stdin' \in Seq(Request) /\ toWin' \in [Window -> Seq(Event)]
        /\ cut' \in Mark /\ marking' = NoWindow
    BY <2>1, <2>2, HandBackTyped
  <2>4. place' \in [Window -> Place]
    BY <2>1 DEF TypeOK, Place, Moving
  <2>. QED  BY <2>1, <2>3, <2>4 DEF TypeOK
<1>. QED  BY <1>1, <1>2, <1>3, <1>4

\* The source's steps.
LEMMA SourceTyped ==
    ASSUME TypeOK, NEW w \in Window, NEW to \in Window,
           \/ StartMove(w) \/ BeginTransfer(w, to) \/ MoveRefused(w)
           \/ MarkTimeout(w) \/ SendContent(w) \/ HandBackReplayTimeout(w)
    PROVE  TypeOK'
<1>1. CASE StartMove(w)
  <2>1. [t |-> "cwds", for |-> w] \in Request
    BY DEF Request
  <2>2. Append(stdin, [t |-> "cwds", for |-> w]) \in Seq(Request)
    BY <2>1 DEF TypeOK
  <2>3. place' \in [Window -> Place]
    BY <1>1 DEF StartMove, TypeOK, Place
  <2>. QED  BY <1>1, <2>2, <2>3 DEF StartMove, TypeOK, hostVars
<1>2. CASE BeginTransfer(w, to)
  <2>1. [t |-> "mark"] \in Request
    BY DEF Request
  <2>2. Append(stdin, [t |-> "mark"]) \in Seq(Request)
    BY <2>1 DEF TypeOK
  <2>3. place' \in [Window -> Place]
    BY <1>2 DEF BeginTransfer, TypeOK, Place, Moving
  <2>4. [n |-> moves, from |-> w, to |-> to, pending |-> to \notin live,
         ready |-> FALSE, part |-> <<>>, mark |-> NoMark] \in Arrival
    <3>1. (to \notin live) \in BOOLEAN /\ <<>> \in Seq(Nat) /\ NoMark \in Mark
      BY DEF Mark
    <3>. QED  BY <3>1 DEF Arrival, TypeOK
  <2>5. arrivals' \subseteq Arrival /\ \A a, b \in arrivals' : a = b
    BY <1>2, <2>4 DEF BeginTransfer
  <2>6. /\ owner' \in Window \cup {NoWindow} /\ awaiting' = FALSE /\ cut' = NoMark /\ cut' \in Mark
        /\ marking' \in Window \cup {NoWindow}
    BY <1>2 DEF BeginTransfer, TypeOK, Mark
  <2>. QED  BY <1>2, <2>2, <2>3, <2>5, <2>6 DEF BeginTransfer, TypeOK
<1>3. CASE MoveRefused(w)
  BY <1>3 DEF MoveRefused, TypeOK, hostVars, Place
<1>4. CASE MarkTimeout(w)
  BY <1>4 DEF MarkTimeout, TypeOK, hostVars, Place, Moving, Mark
<1>5. CASE SendContent(w)
  <2>1. /\ screen[w] \in Seq(Nat) /\ stamp[w] \in Mark
    BY DEF TypeOK
  <2>2. ASSUME NEW a \in arrivals
        PROVE  [a EXCEPT !.ready = TRUE, !.part = screen[w],
                         !.mark = stamp[w], !.pending = FALSE] \in Arrival
    BY <2>1 DEF TypeOK, Arrival
  <2>3. arrivals' \subseteq Arrival /\ \A a, b \in arrivals' : a = b
    BY <1>5, <2>2 DEF SendContent, TypeOK
  <2>4. live' \subseteq Window
    <3>1. \A a \in arrivals : a.to \in Window
      BY DEF TypeOK, Arrival
    <3>2. live \subseteq Window
      BY DEF TypeOK
    <3>3. live' = live \cup {a.to : a \in {b \in arrivals : b.from = w /\ b.pending}}
      BY <1>5 DEF SendContent
    <3>. QED  BY <3>1, <3>2, <3>3
  <2>5. place' \in [Window -> Place]
    BY <1>5 DEF SendContent, TypeOK, Place, Moving
  <2>. QED  BY <1>5, <2>3, <2>4, <2>5 DEF SendContent, TypeOK
<1>6. CASE HandBackReplayTimeout(w)
  BY <1>6 DEF HandBackReplayTimeout, TypeOK, hostVars
<1>. QED  BY <1>1, <1>2, <1>3, <1>4, <1>5, <1>6

\* The target's steps.
LEMMA TargetTyped ==
    ASSUME TypeOK, NEW w \in Window,
           AdoptReady(w) \/ PlanWithoutReplay(w) \/ AdoptDone(w) \/ AdoptFailed(w)
    PROVE  TypeOK'
<1>. NotAdopting \in Adopting
  BY DEF NotAdopting, Adopting
<1>0. Discard(w) => /\ adopting' \in [Window -> Adopting] /\ screen' \in [Window -> Seq(Nat)]
                    /\ mounted' \subseteq Window
  <2>1. <<>> \in Seq(Nat)
    OBVIOUS
  <2>. QED  BY <2>1 DEF Discard, TypeOK
<1>1. CASE AdoptReady(w)
  <2>1. PICK a \in arrivals :
          /\ adopting' = [adopting EXCEPT ![w] =
                            [phase |-> "collecting", n |-> a.n, part |-> a.part]]
          /\ stdin' = Append(stdin, [t |-> "init", for |-> w, n |-> a.n, since |-> a.mark])
          /\ UNCHANGED <<produced, stdout, hostVars, toWin, place, stamp,
                         expecting, screen, mounted, moves, overtaken>>
    BY <1>1 DEF AdoptReady
  <2>2. a.n \in Nat /\ a.part \in Seq(Nat) /\ a.mark \in Mark
    BY DEF TypeOK, Arrival
  <2>3. [phase |-> "collecting", n |-> a.n, part |-> a.part] \in Adopting
    BY <2>2 DEF Adopting
  <2>4. [t |-> "init", for |-> w, n |-> a.n, since |-> a.mark] \in Request
    BY <2>2 DEF Request
  <2>5. stdin' \in Seq(Request)
    BY <2>1, <2>4 DEF TypeOK
  <2>6. adopting' \in [Window -> Adopting]
    BY <2>1, <2>3 DEF TypeOK
  <2>. QED  BY <2>1, <2>5, <2>6 DEF TypeOK, hostVars
<1>2. CASE AdoptDone(w)
  <2>1. CASE QueuedFor(w) = {} /\ Discard(w) /\ UNCHANGED <<arrivals, awaiting, marking, cut, toWin, place>>
    BY <1>0, <1>2, <2>1 DEF AdoptDone, TypeOK
  <2>2. ASSUME NEW a \in QueuedFor(w),
               arrivals' = arrivals \ {a}, awaiting' = FALSE, cut' = NoMark, marking' = NoWindow,
               Emit(a.from, [t |-> "departed"]), place' = [place EXCEPT ![w] = "held"],
               adopting' = [adopting EXCEPT ![w] = NotAdopting], UNCHANGED <<screen, mounted>>
        PROVE  TypeOK'
    <3>1. [t |-> "departed"] \in Event
      BY DEF Event
    <3>2. toWin' \in [Window -> Seq(Event)]
      BY <2>2, <3>1, EmitTyped
    <3>3. place' \in [Window -> Place] /\ adopting' \in [Window -> Adopting] /\ cut' \in Mark
      BY <2>2 DEF TypeOK, Place, Mark
    <3>. QED  BY <1>2, <2>2, <3>2, <3>3 DEF AdoptDone, TypeOK
  <2>. QED  BY <1>2, <2>1, <2>2 DEF AdoptDone
<1>3. CASE AdoptFailed(w)
  <2>1. arrivals' \subseteq arrivals /\ Discard(w) /\ overtaken' \in BOOLEAN
    BY <1>3 DEF AdoptFailed, TypeOK
  <2>2. CASE UNCHANGED <<owner, awaiting, marking, cut, stdin, toWin>>
    BY <1>0, <1>3, <2>1, <2>2 DEF AdoptFailed, TypeOK
  <2>3. ASSUME NEW a \in QueuedFor(w), HandBack(a) PROVE TypeOK'
    <3>1. a \in Arrival
      BY DEF QueuedFor, TypeOK
    <3>2. /\ owner' \in Window \cup {NoWindow} /\ awaiting' \in BOOLEAN
          /\ stdin' \in Seq(Request) /\ toWin' \in [Window -> Seq(Event)]
          /\ cut' \in Mark /\ marking' = NoWindow
      BY <2>3, <3>1, HandBackTyped
    <3>. QED  BY <1>0, <1>3, <2>1, <3>2 DEF AdoptFailed, TypeOK
  <2>. QED  BY <1>3, <2>2, <2>3 DEF AdoptFailed
<1>4. CASE PlanWithoutReplay(w)
  <2>1. adopting[w] \in Adopting
    BY DEF TypeOK
  <2>2. adopting[w].part \in Seq(Nat) /\ [adopting[w] EXCEPT !.phase = "planned"] \in Adopting
    BY <2>1 DEF Adopting
  <2>3. adopting' \in [Window -> Adopting] /\ screen' \in [Window -> Seq(Nat)]
    BY <1>4, <2>2 DEF PlanWithoutReplay, TypeOK
  <2>. QED  BY <1>4, <2>3 DEF PlanWithoutReplay, TypeOK, hostVars
<1>. QED  BY <1>1, <1>2, <1>3, <1>4

\* A terminal is given numbers.
LEMMA WriteTyped ==
    ASSUME TypeOK, NEW w \in Window, NEW b \in Seq(Nat), Write(w, b)
    PROVE  screen' \in [Window -> Seq(Nat)]
<1>1. screen[w] \o b \in Seq(Nat)
  BY DEF TypeOK
<1>. QED  BY <1>1 DEF Write, TypeOK

\* A window's events.
LEMMA EventsTyped ==
    ASSUME TypeOK, NEW w \in Window,
           \/ OnData(w) \/ OnCwds(w) \/ OnMarked(w) \/ OnReplay(w)
           \/ OnFailed(w) \/ OnDeparted(w)
    PROVE  TypeOK'
<1>1. CASE OnData(w)
  <2>1. Head(toWin[w]) \in Event /\ Head(toWin[w]).t = "data" /\ toWin' \in [Window -> Seq(Event)]
    BY <1>1, EventTyped DEF OnData
  <2>2. <<Head(toWin[w]).byte>> \in Seq(Nat)
    BY <2>1, EventParts
  <2>3. screen' \in [Window -> Seq(Nat)]
    BY <1>1, <2>2, WriteTyped DEF OnData
  <2>. QED  BY <1>1, <2>1, <2>3 DEF OnData, TypeOK, hostVars
<1>2. CASE OnCwds(w)
  <2>1. toWin' \in [Window -> Seq(Event)]
    BY <1>2, EventTyped DEF OnCwds
  <2>2. place' \in [Window -> Place]
    BY <1>2 DEF OnCwds, TypeOK, Place
  <2>. QED  BY <1>2, <2>1, <2>2 DEF OnCwds, TypeOK, hostVars
<1>3. CASE OnMarked(w)
  <2>1. Head(toWin[w]) \in Event /\ Head(toWin[w]).t = "marked" /\ toWin' \in [Window -> Seq(Event)]
    BY <1>3, EventTyped DEF OnMarked
  <2>2. Head(toWin[w]).mark \in Mark
    BY <2>1, EventParts DEF Mark
  <2>3. place' \in [Window -> Place] /\ stamp' \in [Window -> Mark]
    BY <1>3, <2>2 DEF OnMarked, TypeOK, Place, Moving
  <2>. QED  BY <1>3, <2>1, <2>3 DEF OnMarked, TypeOK, hostVars
<1>4. CASE OnReplay(w)
  <2>. DEFINE e == Head(toWin[w])
  <2>1. e \in Event /\ e.t = "replay" /\ toWin' \in [Window -> Seq(Event)]
    BY <1>4, EventTyped DEF OnReplay
  <2>2. e.bytes \in Seq(Nat)
    BY <2>1, EventParts
  <2>3. adopting[w].part \in Seq(Nat) /\ adopting[w] \in Adopting
    BY DEF TypeOK, Adopting
  <2>4. adopting[w].part \o e.bytes \in Seq(Nat)
    BY <2>2, <2>3
  <2>5. [adopting[w] EXCEPT !.phase = "planned"] \in Adopting
    BY <2>3 DEF Adopting
  <2>6. /\ screen' \in [Window -> Seq(Nat)] /\ mounted' \subseteq Window
        /\ adopting' \in [Window -> Adopting] /\ expecting' \in [Window -> BOOLEAN]
    <3>1. CASE /\ screen' = [screen EXCEPT ![w] = adopting[w].part \o e.bytes]
               /\ mounted' = mounted \cup {w}
               /\ adopting' = [adopting EXCEPT ![w].phase = "planned"]
               /\ UNCHANGED expecting
      BY <2>4, <2>5, <3>1 DEF TypeOK
    <3>2. CASE /\ Write(w, e.bytes)
               /\ expecting' = [expecting EXCEPT ![w] = FALSE]
               /\ UNCHANGED <<mounted, adopting>>
      BY <2>2, <3>2, WriteTyped DEF TypeOK
    <3>3. CASE UNCHANGED <<screen, mounted, adopting, expecting>>
      BY <3>3 DEF TypeOK
    <3>. QED  BY <1>4, <3>1, <3>2, <3>3 DEF OnReplay
  <2>7. UNCHANGED <<produced, stdin, stdout, hostVars, place, stamp, moves, overtaken>>
    BY <1>4 DEF OnReplay
  <2>. QED  BY <2>1, <2>6, <2>7 DEF TypeOK, hostVars
<1>5. CASE OnFailed(w)
  <2>1. Head(toWin[w]) \in Event /\ Head(toWin[w]).t = "failed" /\ toWin' \in [Window -> Seq(Event)]
    BY <1>5, EventTyped DEF OnFailed
  <2>2. Head(toWin[w]).replay \in BOOLEAN
    BY <2>1, EventParts
  <2>3. place' \in [Window -> Place]
    BY <1>5 DEF OnFailed, TypeOK, Place
  <2>4. expecting' \in [Window -> BOOLEAN]
    <3>1. (expecting[w] \/ Head(toWin[w]).replay) \in BOOLEAN
      OBVIOUS
    <3>2. \/ expecting' = [expecting EXCEPT ![w] = expecting[w] \/ Head(toWin[w]).replay]
          \/ expecting' = expecting
      BY <1>5 DEF OnFailed
    <3>. QED  BY <3>1, <3>2 DEF TypeOK
  <2>. QED  BY <1>5, <2>1, <2>3, <2>4 DEF OnFailed, TypeOK, hostVars
<1>6. CASE OnDeparted(w)
  <2>1. toWin' \in [Window -> Seq(Event)]
    BY <1>6, EventTyped DEF OnDeparted
  <2>2. <<>> \in Seq(Nat) /\ "none" \in Place
    BY DEF Place
  <2>3. /\ place' \in [Window -> Place] /\ screen' \in [Window -> Seq(Nat)]
        /\ mounted' \subseteq Window
    BY <1>6, <2>2 DEF OnDeparted, TypeOK
  <2>. QED  BY <1>6, <2>1, <2>3 DEF OnDeparted, TypeOK, hostVars
<1>. QED  BY <1>1, <1>2, <1>3, <1>4, <1>5, <1>6

LEMMA NextTyped == TypeOK /\ [Next]_vars => TypeOK'
<1>. SUFFICES ASSUME TypeOK, [Next]_vars PROVE TypeOK'
  OBVIOUS
<1>1. CASE HostStep
  BY <1>1, PipesTyped, SettlingTyped DEF HostStep
<1>2. CASE WindowStep
  BY <1>2, EventsTyped DEF WindowStep
<1>3. CASE SourceStep
  BY <1>3, SourceTyped, SettlingTyped DEF SourceStep
<1>4. CASE TargetStep
  BY <1>4, TargetTyped DEF TargetStep
<1>5. CASE Watchdog
  BY <1>5, SettlingTyped DEF Watchdog
<1>6. CASE Optional
  BY <1>6, PipesTyped, SourceTyped, SettlingTyped DEF Optional
<1>7. CASE UNCHANGED vars
  BY <1>7 DEF vars, hostVars, winVars, TypeOK
<1>. QED  BY <1>1, <1>2, <1>3, <1>4, <1>5, <1>6, <1>7 DEF Next

\* Type correctness of a transfer: what every party keeps and every pipe carries is
\* what its reader takes, at most one arrival is queued, and a source still consuming
\* is never suppressed (routing.rs, workspace-move.ts).
THEOREM TransferTyped == Spec => []TypeOK
BY InitTyped, NextTyped, PTL DEF Spec

-----------------------------------------------------------------------------
(* Where the Workspace is *)

\* What tells a source how its move ended.
Outcomes == {"failed", "departed"}

Unsettled(q) == \A i \in DOMAIN q : q[i].t \notin Outcomes

Settled(q, t) ==
    \E i \in DOMAIN q : q[i].t = t /\ \A j \in DOMAIN q : q[j].t \in Outcomes => j = i

Resting == {"held", "probing", "prepared"}

\* A window with place p and the events q to come: it has no part in the
\* Workspace, will let it go, has it or gets it back, or has it in a move.
Away(p, q) == p = "none" /\ Unsettled(q)

Leaving(p, q) == p \in Moving /\ Settled(q, "departed")

Holding(p, q) ==
    \/ p \in Resting /\ Unsettled(q)
    \/ p \in Moving /\ Settled(q, "failed")

Giving(p, q) == p \in Moving /\ Unsettled(q)

Records == arrivals \cup lost

\* Whoever has the Workspace has it mounted and adopts nothing; the one that holds
\* it owns the PTY, and the one that gives it is the source of the record.
Stands(w) ==
    \/ Away(place[w], toWin[w])
    \/ Leaving(place[w], toWin[w])
    \/ /\ w \in mounted /\ adopting[w].phase = "idle"
       /\ \/ Holding(place[w], toWin[w]) /\ owner = w /\ Records = {}
          \/ Giving(place[w], toWin[w]) /\ \E a \in Records : a.from = w

Blank(w) ==
    toWin[w] = <<>> /\ place[w] = "none" /\ adopting[w] = NotAdopting /\ w \notin mounted

WindowsStand ==
    /\ live \cap gone = {}
    /\ \A w \in Window : IF w \in live THEN Stands(w) ELSE Blank(w)

\* One record at most; a source still open gives; the target owns the PTY.
RecordsStand ==
    /\ \A a, b \in Records : a = b
    /\ arrivals = {} \/ lost = {}
    /\ \A a \in Records :
          /\ a.n > 0 /\ a.n <= moves /\ a.from # a.to
          /\ a.from \in live \cup gone
          /\ a.from \in live => Giving(place[a.from], toWin[a.from])
          /\ marking = a.from \/ cut # NoMark
    /\ \A a \in arrivals :
          /\ owner = a.to
          /\ IF a.pending THEN ~a.ready /\ a.to \notin live \cup gone ELSE a.to \in live
    /\ lost # {} => owner = NoWindow
    /\ Records = {} => marking = NoWindow /\ cut = NoMark

\* The PTY of a Workspace at rest belongs to the window that holds it.
OwnerHolds ==
    arrivals = {} /\ owner # NoWindow =>
        owner \in live /\ Holding(place[owner], toWin[owner])

\* A replay for move k is on its way to w.
Traffic(w, k) ==
    \/ \E r \in Range(stdin) : r.t = "init" /\ r.for = w /\ r.n = k
    \/ \E l \in Range(stdout) : l.t = "replay" /\ l.for = w /\ l.n = k
    \/ \E e \in Range(toWin[w]) : e.t = "replay" /\ e.n = k

Starting == \E w \in live : place[w] \in {"probing", "prepared"}

\* Moves are numbered: what is on its way is of moves that began, and nothing is
\* of one its target has not taken.
Numbered ==
    /\ Starting => moves > 0
    /\ \A w \in Window, k \in Nat : Traffic(w, k) => k <= moves /\ (k = moves => k = 0 \/ ~Starting)
    /\ \A a \in arrivals : adopting[a.to].n # a.n => ~Traffic(a.to, a.n)

\* Once its replay is there a target hears of no earlier move any more.
InTurn(ad, q) ==
    ad.phase = "collecting" =>
        \A i, j \in DOMAIN q :
            i < j /\ q[i].t = "replay" /\ q[i].n = ad.n => q[j].t \notin Outcomes

Target(w) ==
    /\ IF adopting[w].phase = "idle" THEN adopting[w] = NotAdopting ELSE adopting[w].n > 0
    /\ adopting[w].phase = "planned" => w \in mounted /\ Unsettled(toWin[w])
    /\ InTurn(adopting[w], toWin[w])

TargetsStand == \A w \in Window : Target(w)

PlaceInv ==
    /\ TypeOK /\ WindowsStand /\ RecordsStand /\ OwnerHolds /\ Numbered /\ TargetsStand

-----------------------------------------------------------------------------
(* A window's queue of events *)

LEMMA EmptyQueue ==
    Unsettled(<<>>) /\ \A ad : InTurn(ad, <<>>)
BY DEF Unsettled, InTurn

LEMMA AppendEvent ==
    ASSUME NEW q \in Seq(Event), NEW e \in Event, NEW r, r = Append(q, e)
    PROVE  /\ r \in Seq(Event) /\ Len(r) = Len(q) + 1 /\ Len(q) \in Nat
           /\ DOMAIN q = 1..Len(q) /\ DOMAIN r = 1..Len(q) + 1
           /\ \A i \in 1..Len(q) : r[i] = q[i]
           /\ r[Len(q) + 1] = e
OBVIOUS

LEMMA TailEvent ==
    ASSUME NEW q \in Seq(Event), q # <<>>, NEW r, r = Tail(q)
    PROVE  /\ r \in Seq(Event) /\ Len(r) = Len(q) - 1 /\ Len(q) \in Nat /\ Len(q) > 0
           /\ DOMAIN q = 1..Len(q) /\ DOMAIN r = 1..Len(q) - 1
           /\ \A i \in 1..Len(q) - 1 : r[i] = q[i + 1]
           /\ q[1] = Head(q)
OBVIOUS

\* An event that settles nothing comes or is taken.
Grows(q, r) ==
    \/ r = q
    \/ \E e \in Event : e.t \notin Outcomes /\ r = Append(q, e)
    \/ q # <<>> /\ Head(q).t \notin Outcomes /\ r = Tail(q)

LEMMA GrowsKeeps ==
    ASSUME NEW q \in Seq(Event), NEW r, Grows(q, r)
    PROVE  /\ r \in Seq(Event)
           /\ Unsettled(q) => Unsettled(r)
           /\ \A t \in Outcomes : Settled(q, t) => Settled(r, t)
           /\ \A ad : InTurn(ad, q) => InTurn(ad, r)
<1>1. CASE r = q
  BY <1>1
<1>2. ASSUME NEW e \in Event, e.t \notin Outcomes, r = Append(q, e)
      PROVE  /\ r \in Seq(Event)
             /\ Unsettled(q) => Unsettled(r)
             /\ \A t \in Outcomes : Settled(q, t) => Settled(r, t)
             /\ \A ad : InTurn(ad, q) => InTurn(ad, r)
  <2>1. /\ r \in Seq(Event) /\ Len(q) \in Nat
        /\ DOMAIN q = 1..Len(q) /\ DOMAIN r = 1..Len(q) + 1
        /\ \A i \in 1..Len(q) : r[i] = q[i]
        /\ r[Len(q) + 1] = e
    BY <1>2, AppendEvent
  <2>2. \A i \in DOMAIN r : i \in DOMAIN q \/ i = Len(q) + 1
    BY <2>1
  <2>3. DOMAIN q \subseteq DOMAIN r
    BY <2>1
  <2>4. Unsettled(q) => Unsettled(r)
    BY <1>2, <2>1, <2>2 DEF Unsettled
  <2>5. ASSUME NEW t \in Outcomes, Settled(q, t) PROVE Settled(r, t)
    BY <1>2, <2>1, <2>2, <2>3, <2>5 DEF Settled
  <2>6. ASSUME NEW ad, InTurn(ad, q) PROVE InTurn(ad, r)
    <3>1. \A i, j \in DOMAIN r : i < j => i \in DOMAIN q
      BY <2>1
    <3>. QED  BY <1>2, <2>1, <2>2, <2>6, <3>1 DEF InTurn
  <2>. QED  BY <2>1, <2>4, <2>5, <2>6
<1>3. CASE q # <<>> /\ Head(q).t \notin Outcomes /\ r = Tail(q)
  <2>1. /\ r \in Seq(Event) /\ Len(q) \in Nat /\ Len(q) > 0
        /\ DOMAIN q = 1..Len(q) /\ DOMAIN r = 1..Len(q) - 1
        /\ \A i \in 1..Len(q) - 1 : r[i] = q[i + 1]
        /\ q[1] = Head(q)
    BY <1>3, TailEvent
  <2>2. \A i \in DOMAIN r : i + 1 \in DOMAIN q /\ r[i] = q[i + 1]
    BY <2>1
  <2>3. \A i \in DOMAIN q : i = 1 \/ (i - 1 \in DOMAIN r /\ q[i] = r[i - 1])
    BY <2>1
  <2>4. Unsettled(q) => Unsettled(r)
    BY <2>2 DEF Unsettled
  <2>5. ASSUME NEW t \in Outcomes, Settled(q, t) PROVE Settled(r, t)
    <3>1. PICK i \in DOMAIN q : q[i].t = t /\ \A j \in DOMAIN q : q[j].t \in Outcomes => j = i
      BY <2>5 DEF Settled
    <3>2. i - 1 \in DOMAIN r /\ r[i - 1].t = t
      BY <1>3, <2>1, <2>3, <2>5, <3>1
    <3>3. ASSUME NEW j \in DOMAIN r, r[j].t \in Outcomes PROVE j = i - 1
      <4>1. j + 1 = i
        BY <2>2, <3>1, <3>3
      <4>. QED  BY <2>1, <4>1
    <3>. QED  BY <3>2, <3>3 DEF Settled
  <2>6. ASSUME NEW ad, InTurn(ad, q) PROVE InTurn(ad, r)
    <3>1. \A i, j \in DOMAIN r : i < j => i + 1 < j + 1
      BY <2>1
    <3>. QED  BY <2>2, <2>6, <3>1 DEF InTurn
  <2>. QED  BY <2>1, <2>4, <2>5, <2>6
<1>. QED  BY <1>1, <1>2, <1>3 DEF Grows

\* An outcome comes.
LEMMA OutcomeComes ==
    ASSUME NEW q \in Seq(Event), NEW e \in Event, e.t \in Outcomes, Unsettled(q)
    PROVE  Settled(Append(q, e), e.t)
<1>. DEFINE r == Append(q, e)
<1>1. /\ Len(q) \in Nat /\ DOMAIN q = 1..Len(q) /\ DOMAIN r = 1..Len(q) + 1
      /\ \A i \in 1..Len(q) : r[i] = q[i]
      /\ r[Len(q) + 1] = e
  BY AppendEvent
<1>. HIDE DEF r
<1>2. Len(q) + 1 \in DOMAIN r
  BY <1>1
<1>3. \A j \in DOMAIN r : r[j].t \in Outcomes => j = Len(q) + 1
  BY <1>1 DEF Unsettled
<1>4. Settled(r, e.t)
  BY <1>1, <1>2, <1>3 DEF Settled
<1>. QED  BY <1>4 DEF r

\* An outcome is taken: it was the only one.
LEMMA OutcomeTaken ==
    ASSUME NEW q \in Seq(Event), q # <<>>, Head(q).t \in Outcomes, NEW t, Settled(q, t)
    PROVE  Head(q).t = t /\ Unsettled(Tail(q))
<1>. DEFINE r == Tail(q)
<1>1. /\ Len(q) \in Nat /\ Len(q) > 0
      /\ DOMAIN q = 1..Len(q) /\ DOMAIN r = 1..Len(q) - 1
      /\ \A i \in 1..Len(q) - 1 : r[i] = q[i + 1]
      /\ q[1] = Head(q)
  BY TailEvent
<1>. HIDE DEF r
<1>2. PICK i \in DOMAIN q : q[i].t = t /\ \A j \in DOMAIN q : q[j].t \in Outcomes => j = i
  BY DEF Settled
<1>3. 1 \in DOMAIN q /\ i = 1
  BY <1>1, <1>2
<1>4. \A j \in DOMAIN r : j + 1 \in DOMAIN q /\ r[j] = q[j + 1] /\ j + 1 # 1
  BY <1>1
<1>5. Unsettled(r)
  BY <1>2, <1>3, <1>4 DEF Unsettled
<1>. QED  BY <1>1, <1>2, <1>3, <1>5 DEF r

\* A head that is an outcome belongs to a queue that is not unsettled.
LEMMA HeadSettles ==
    ASSUME NEW q \in Seq(Event), q # <<>>, Unsettled(q)
    PROVE  Head(q).t \notin Outcomes
<1>1. 1 \in DOMAIN q /\ q[1] = Head(q)
  OBVIOUS
<1>. QED  BY <1>1 DEF Unsettled

\* The four standings exclude each other.
LEMMA StandingsDiffer ==
    ASSUME NEW p, NEW q
    PROVE  /\ Giving(p, q) => ~Away(p, q) /\ ~Leaving(p, q) /\ ~Holding(p, q)
           /\ Holding(p, q) => ~Away(p, q) /\ ~Leaving(p, q)
<1>1. \A t \in Outcomes : Settled(q, t) => ~Unsettled(q)
  BY DEF Settled, Unsettled
<1>2. "failed" \in Outcomes /\ "departed" \in Outcomes /\ "failed" # "departed"
  BY DEF Outcomes
<1>3. ~(Settled(q, "failed") /\ Settled(q, "departed"))
  BY <1>2 DEF Settled
<1>4. Moving \cap Resting = {} /\ "none" \notin Moving \cup Resting
  BY DEF Moving, Resting
<1>. QED  BY <1>1, <1>2, <1>3, <1>4 DEF Giving, Away, Leaving, Holding

-----------------------------------------------------------------------------
(* Steps that leave every window's standing alone *)

\* The place may go on within the move or within rest.
SameKind(p, r) == p = r \/ {p, r} \subseteq Moving \/ {p, r} \subseteq Resting

LEMMA KindStands ==
    ASSUME NEW p, NEW r, SameKind(p, r), NEW q \in Seq(Event), NEW u, Grows(q, u)
    PROVE  /\ Away(p, q) => Away(r, u)
           /\ Leaving(p, q) => Leaving(r, u)
           /\ Holding(p, q) => Holding(r, u)
           /\ Giving(p, q) => Giving(r, u)
<1>1. /\ Unsettled(q) => Unsettled(u)
      /\ Settled(q, "failed") => Settled(u, "failed")
      /\ Settled(q, "departed") => Settled(u, "departed")
  BY GrowsKeeps DEF Outcomes
<1>2. /\ p = "none" => r = "none"
      /\ p \in Moving => r \in Moving
      /\ p \in Resting => r \in Resting
  BY DEF SameKind, Moving, Resting
<1>. QED  BY <1>1, <1>2 DEF Away, Leaving, Holding, Giving

Calm(w) ==
    /\ Grows(toWin[w], toWin'[w])
    /\ SameKind(place[w], place'[w])
    /\ w \in mounted => w \in mounted'
    /\ adopting[w].phase = "idle" =>
          adopting'[w].phase = "idle" \/ Away(place[w], toWin[w]) \/ Leaving(place[w], toWin[w])

LEMMA CalmStands ==
    ASSUME TypeOK, NEW w \in Window, Stands(w), Calm(w), owner' = owner,
           Records = {} => Records' = {},
           \A a \in Records : \E b \in Records' : b.from = a.from
    PROVE  Stands(w)'
<1>1. toWin[w] \in Seq(Event)
  BY DEF TypeOK
<1>2. /\ Away(place[w], toWin[w]) => Away(place'[w], toWin'[w])
      /\ Leaving(place[w], toWin[w]) => Leaving(place'[w], toWin'[w])
      /\ Holding(place[w], toWin[w]) => Holding(place'[w], toWin'[w])
      /\ Giving(place[w], toWin[w]) => Giving(place'[w], toWin'[w])
  BY <1>1, KindStands DEF Calm
<1>3. CASE Away(place[w], toWin[w]) \/ Leaving(place[w], toWin[w])
  BY <1>2, <1>3 DEF Stands
<1>4. CASE ~Away(place[w], toWin[w]) /\ ~Leaving(place[w], toWin[w])
  <2>1. w \in mounted' /\ adopting'[w].phase = "idle"
    BY <1>4 DEF Stands, Calm
  <2>2. \/ Holding(place[w], toWin[w]) /\ owner = w /\ Records = {}
        \/ Giving(place[w], toWin[w]) /\ \E a \in Records : a.from = w
    BY <1>4 DEF Stands
  <2>3. CASE Holding(place[w], toWin[w]) /\ owner = w /\ Records = {}
    BY <1>2, <2>1, <2>3 DEF Stands
  <2>4. CASE Giving(place[w], toWin[w]) /\ \E a \in Records : a.from = w
    BY <1>2, <2>1, <2>4 DEF Stands
  <2>. QED  BY <2>2, <2>3, <2>4
<1>. QED  BY <1>3, <1>4

\* A step that moves nothing.
Quietly ==
    /\ UNCHANGED <<live, gone, owner, arrivals, lost>>
    /\ \A w \in live : Calm(w)
    /\ \A w \in Window \ live :
          /\ toWin'[w] = toWin[w] /\ place'[w] = place[w] /\ adopting'[w] = adopting[w]
          /\ w \in mounted' => w \in mounted
    /\ \A a \in Records : marking' = a.from \/ cut' # NoMark
    /\ Records = {} => marking' = NoWindow /\ cut' = NoMark
    /\ moves' >= moves

LEMMA QuietKeeps ==
    ASSUME PlaceInv, TypeOK', Quietly
    PROVE  WindowsStand' /\ RecordsStand' /\ OwnerHolds'
<1>. USE DEF PlaceInv
<1>1. Records' = Records
  BY DEF Quietly, Records
<1>2. WindowsStand'
  <2>1. ASSUME NEW w \in Window, w \in live' PROVE Stands(w)'
    <3>1. Stands(w) /\ Calm(w) /\ owner' = owner
      BY <2>1 DEF WindowsStand, Quietly
    <3>. QED  BY <1>1, <3>1, CalmStands
  <2>2. ASSUME NEW w \in Window, w \notin live' PROVE Blank(w)'
    <3>1. Blank(w) /\ w \in Window \ live
      BY <2>2 DEF WindowsStand, Quietly
    <3>. QED  BY <3>1 DEF Blank, Quietly
  <2>. QED  BY <2>1, <2>2 DEF WindowsStand, Quietly
<1>3. RecordsStand'
  <2>1. ASSUME NEW a \in Records
        PROVE  /\ a.n > 0 /\ a.n <= moves' /\ a.from # a.to
               /\ a.from \in live' \cup gone'
               /\ a.from \in live' => Giving(place'[a.from], toWin'[a.from])
               /\ marking' = a.from \/ cut' # NoMark
    <3>1. /\ a.n > 0 /\ a.n <= moves /\ a.from # a.to /\ a.from \in live \cup gone
          /\ a.from \in live => Giving(place[a.from], toWin[a.from])
      BY DEF RecordsStand
    <3>2. a.n \in Nat /\ moves \in Nat /\ moves' \in Nat /\ a.from \in Window
      BY DEF TypeOK, Records, Arrival
    <3>3. a.n <= moves'
      BY <3>1, <3>2 DEF Quietly
    <3>4. ASSUME a.from \in live PROVE Giving(place'[a.from], toWin'[a.from])
      <4>1. Calm(a.from) /\ toWin[a.from] \in Seq(Event)
        BY <3>2, <3>4 DEF Quietly, TypeOK
      <4>. QED  BY <3>1, <3>4, <4>1, KindStands DEF Calm
    <3>. QED  BY <3>1, <3>3, <3>4 DEF Quietly
  <2>2. \A a \in arrivals :
          /\ owner' = a.to
          /\ IF a.pending THEN ~a.ready /\ a.to \notin live' \cup gone' ELSE a.to \in live'
    BY DEF RecordsStand, Quietly
  <2>. QED  BY <1>1, <2>1, <2>2 DEF RecordsStand, Quietly
<1>4. OwnerHolds'
  <2>1. ASSUME arrivals = {}, owner # NoWindow
        PROVE  owner \in live /\ Holding(place'[owner], toWin'[owner])
    <3>1. owner \in live /\ Holding(place[owner], toWin[owner])
      BY <2>1 DEF OwnerHolds
    <3>2. Calm(owner) /\ toWin[owner] \in Seq(Event)
      BY <3>1 DEF Quietly, TypeOK
    <3>. QED  BY <3>1, <3>2, KindStands DEF Calm
  <2>. QED  BY <2>1 DEF OwnerHolds, Quietly
<1>. QED  BY <1>2, <1>3, <1>4

\* Numbers: nothing new is on its way, and no window starts a move that did not
\* count it.
LEMMA NumbersKeep ==
    ASSUME TypeOK, TypeOK', Numbered, moves' >= moves,
           \A w \in Window, k \in Nat : Traffic(w, k)' => Traffic(w, k),
           Starting' => Starting \/ moves' > moves,
           \A a \in arrivals' : \E b \in arrivals :
               a.to = b.to /\ a.n = b.n /\ adopting'[a.to].n = adopting[a.to].n
    PROVE  Numbered'
<1>1. moves \in Nat /\ moves' \in Nat
  BY DEF TypeOK
<1>2. Starting' => moves' > 0
  BY <1>1 DEF Numbered
<1>3. ASSUME NEW w \in Window, NEW k \in Nat, Traffic(w, k)'
      PROVE  k <= moves' /\ (k = moves' => k = 0 \/ ~Starting')
  <2>1. k <= moves /\ (k = moves => k = 0 \/ ~Starting)
    BY <1>3 DEF Numbered
  <2>. QED  BY <1>1, <2>1
<1>4. ASSUME NEW a \in arrivals', adopting'[a.to].n # a.n PROVE ~Traffic(a.to, a.n)'
  <2>1. PICK b \in arrivals : a.to = b.to /\ a.n = b.n /\ adopting'[a.to].n = adopting[a.to].n
    OBVIOUS
  <2>2. ~Traffic(a.to, a.n)
    BY <1>4, <2>1 DEF Numbered
  <2>3. a.to \in Window /\ a.n \in Nat
    BY <2>1 DEF TypeOK, Arrival
  <2>. QED  BY <2>2, <2>3
<1>. QED  BY <1>2, <1>3, <1>4 DEF Numbered

LEMMA TargetKeeps ==
    ASSUME TypeOK, NEW w \in Window, Target(w), Grows(toWin[w], toWin'[w]),
           adopting'[w] = adopting[w], w \in mounted => w \in mounted'
    PROVE  Target(w)'
<1>1. /\ Unsettled(toWin[w]) => Unsettled(toWin'[w])
      /\ InTurn(adopting[w], toWin[w]) => InTurn(adopting[w], toWin'[w])
  BY GrowsKeeps DEF TypeOK
<1>. QED  BY <1>1 DEF Target

LEMMA RangeAppend ==
    ASSUME NEW S, NEW q \in Seq(S), NEW e \in S
    PROVE  Range(Append(q, e)) = Range(q) \cup {e}
<1>. DEFINE r == Append(q, e)
<1>1. /\ Len(q) \in Nat /\ DOMAIN q = 1..Len(q) /\ DOMAIN r = 1..Len(q) + 1
      /\ \A i \in 1..Len(q) : r[i] = q[i]
      /\ r[Len(q) + 1] = e
  OBVIOUS
<1>. HIDE DEF r
<1>2. \A i \in DOMAIN r : i \in DOMAIN q \/ i = Len(q) + 1
  BY <1>1
<1>3. DOMAIN q \subseteq DOMAIN r /\ Len(q) + 1 \in DOMAIN r
  BY <1>1
<1>4. Range(r) = Range(q) \cup {e}
  BY <1>1, <1>2, <1>3 DEF Range
<1>. QED  BY <1>4 DEF r

LEMMA RangeTail ==
    ASSUME NEW S, NEW q \in Seq(S), q # <<>>
    PROVE  Range(Tail(q)) \subseteq Range(q) /\ Head(q) \in Range(q)
<1>. DEFINE r == Tail(q)
<1>1. /\ Len(q) \in Nat /\ Len(q) > 0 /\ DOMAIN q = 1..Len(q) /\ DOMAIN r = 1..Len(q) - 1
      /\ \A i \in 1..Len(q) - 1 : r[i] = q[i + 1]
      /\ q[1] = Head(q)
  OBVIOUS
<1>. HIDE DEF r
<1>2. \A i \in DOMAIN r : i + 1 \in DOMAIN q /\ r[i] = q[i + 1]
  BY <1>1
<1>3. 1 \in DOMAIN q
  BY <1>1
<1>4. Range(r) \subseteq Range(q)
  BY <1>2 DEF Range
<1>5. Head(q) \in Range(q)
  BY <1>1, <1>3 DEF Range
<1>. QED  BY <1>4, <1>5 DEF r

\* An event emitted to v.
LEMMA EmitEach ==
    ASSUME TypeOK, NEW v, NEW e \in Event, Emit(v, e), NEW w \in Window
    PROVE  \/ toWin'[w] = toWin[w]
           \/ w \in live /\ w = v /\ toWin'[w] = Append(toWin[w], e)
BY DEF TypeOK, Emit

\* A step that touches only pipes, queues and places, the places within their kind.
Placed ==
    /\ UNCHANGED <<live, gone, owner, arrivals, lost, adopting, mounted>>
    /\ \A w \in live : SameKind(place[w], place'[w])
    /\ \A w \in Window \ live : place'[w] = place[w]
    /\ moves' >= moves
    /\ Starting' => Starting \/ moves' > moves

LEMMA PlacedKeeps ==
    ASSUME PlaceInv, TypeOK', Placed,
           \A w \in live : Grows(toWin[w], toWin'[w]),
           \A w \in Window \ live : toWin'[w] = toWin[w],
           \A a \in Records : marking' = a.from \/ cut' # NoMark,
           Records = {} => marking' = NoWindow /\ cut' = NoMark,
           \A w \in Window, k \in Nat : Traffic(w, k)' => Traffic(w, k)
    PROVE  PlaceInv'
<1>. USE DEF PlaceInv
<1>1. Quietly
  <2>1. \A w \in live : Calm(w)
    BY DEF Calm, Placed
  <2>. QED  BY <2>1 DEF Quietly, Placed
<1>2. WindowsStand' /\ RecordsStand' /\ OwnerHolds'
  BY <1>1, QuietKeeps
<1>3. Numbered'
  <2>1. \A a \in arrivals' : \E b \in arrivals :
               a.to = b.to /\ a.n = b.n /\ adopting'[a.to].n = adopting[a.to].n
    BY DEF Placed
  <2>. QED  BY <2>1, NumbersKeep DEF Placed
<1>4. TargetsStand'
  <2>1. ASSUME NEW w \in Window PROVE Target(w)'
    <3>1. Grows(toWin[w], toWin'[w]) /\ Target(w)
      BY DEF Grows, TargetsStand
    <3>. QED  BY <3>1, TargetKeeps DEF Placed
  <2>. QED  BY <2>1 DEF TargetsStand
<1>. QED  BY <1>2, <1>3, <1>4

\* A step that touches only the pipes and the queues.
Piped == UNCHANGED <<live, gone, owner, arrivals, lost, place, adopting, mounted, moves>>

LEMMA PipedIsPlaced ==
    ASSUME TypeOK, Piped
    PROVE  Placed
BY DEF Piped, Placed, SameKind, Starting, TypeOK

LEMMA PipedKeeps ==
    ASSUME PlaceInv, TypeOK', Piped,
           \A w \in live : Grows(toWin[w], toWin'[w]),
           \A w \in Window \ live : toWin'[w] = toWin[w],
           \A a \in Records : marking' = a.from \/ cut' # NoMark,
           Records = {} => marking' = NoWindow /\ cut' = NoMark,
           \A w \in Window, k \in Nat : Traffic(w, k)' => Traffic(w, k)
    PROVE  PlaceInv'
BY PlacedKeeps, PipedIsPlaced DEF PlaceInv

\* The marks of the host are as they were.
LEMMA MarksStay ==
    ASSUME PlaceInv, UNCHANGED <<marking, cut>>
    PROVE  /\ \A a \in Records : marking' = a.from \/ cut' # NoMark
           /\ Records = {} => marking' = NoWindow /\ cut' = NoMark
BY DEF PlaceInv, RecordsStand
LEMMA EmittedQueues ==
    ASSUME TypeOK, NEW v, NEW e \in Event, Emit(v, e), e.t \notin Outcomes
    PROVE  /\ \A w \in live : Grows(toWin[w], toWin'[w])
           /\ \A w \in Window \ live : toWin'[w] = toWin[w]
           /\ \A w \in Window : \A x \in Range(toWin'[w]) : x \in Range(toWin[w]) \/ (x = e /\ w = v)
<1>1. ASSUME NEW w \in Window
      PROVE  \A x \in Range(toWin'[w]) : x \in Range(toWin[w]) \/ (x = e /\ w = v)
  <2>1. toWin[w] \in Seq(Event)
    BY DEF TypeOK
  <2>2. Range(Append(toWin[w], e)) = Range(toWin[w]) \cup {e}
    BY <2>1, RangeAppend
  <2>. QED  BY <2>2, EmitEach
<1>2. live \subseteq Window
  BY DEF TypeOK
<1>3. \A w \in live : Grows(toWin[w], toWin'[w])
  BY <1>2, EmitEach DEF Grows
<1>4. \A w \in Window \ live : toWin'[w] = toWin[w]
  BY EmitEach
<1>. QED  BY <1>1, <1>3, <1>4

\* Nothing is new on its way when requests and lines that are no replays come, and
\* anything is taken.
LEMMA NoTraffic ==
    ASSUME \A r \in Range(stdin') : r \in Range(stdin) \/ r.t # "init",
           \A l \in Range(stdout') : l \in Range(stdout) \/ l.t # "replay",
           \A w \in Window : \A e \in Range(toWin'[w]) : e \in Range(toWin[w]) \/ e.t # "replay"
    PROVE  \A w \in Window, k \in Nat : Traffic(w, k)' => Traffic(w, k)
BY DEF Traffic

LEMMA ShellPrintsPlace ==
    ASSUME PlaceInv, TypeOK', ShellPrints
    PROVE  PlaceInv'
<1>1. Piped /\ UNCHANGED <<marking, cut, toWin, stdin>>
  BY DEF ShellPrints, Piped, hostVars, winVars
<1>2. [t |-> "data", byte |-> produced + 1] \in Line /\ stdout \in Seq(Line)
  BY DEF PlaceInv, TypeOK, Line
<1>3. Range(stdout') = Range(stdout) \cup {[t |-> "data", byte |-> produced + 1]}
  BY <1>2, RangeAppend DEF ShellPrints
<1>4. \A w \in Window, k \in Nat : Traffic(w, k)' => Traffic(w, k)
  BY <1>1, <1>3, NoTraffic
<1>. QED  BY <1>1, <1>4, MarksStay, PipedKeeps DEF Grows

LEMMA ServePlace ==
    ASSUME PlaceInv, TypeOK', Serve
    PROVE  PlaceInv'
<1>1. Piped /\ UNCHANGED <<marking, cut, toWin>>
  BY DEF Serve, Piped, hostVars, winVars
<1>. DEFINE r == Head(stdin)
<1>2. stdin \in Seq(Request) /\ stdin # <<>> /\ r \in Request /\ stdout \in Seq(Line)
  BY DEF PlaceInv, TypeOK, Serve
<1>3. Answer(r) \in Line
  BY <1>2, AnswerTyped DEF PlaceInv, TypeOK
<1>4. Range(stdout') = Range(stdout) \cup {Answer(r)} /\ Range(stdin') \subseteq Range(stdin) /\ r \in Range(stdin)
  BY <1>2, <1>3, RangeAppend, RangeTail DEF Serve
<1>5. Answer(r).t = "replay" => r.t = "init" /\ Answer(r).for = r.for /\ Answer(r).n = r.n
  BY <1>2, RequestParts DEF Answer
<1>. HIDE DEF r
<1>6. \A w \in Window, k \in Nat : Traffic(w, k)' => Traffic(w, k)
  <2>. SUFFICES ASSUME NEW w \in Window, NEW k \in Nat, Traffic(w, k)' PROVE Traffic(w, k)
    OBVIOUS
  <2>1. CASE \E x \in Range(stdin') : x.t = "init" /\ x.for = w /\ x.n = k
    BY <1>4, <2>1 DEF Traffic
  <2>2. CASE \E l \in Range(stdout') : l.t = "replay" /\ l.for = w /\ l.n = k
    BY <1>4, <1>5, <2>2 DEF Traffic
  <2>3. CASE \E e \in Range(toWin'[w]) : e.t = "replay" /\ e.n = k
    BY <1>1, <2>3 DEF Traffic
  <2>. QED  BY <2>1, <2>2, <2>3 DEF Traffic
<1>. QED  BY <1>1, <1>6, MarksStay, PipedKeeps DEF Grows

\* A line that is no replay is taken, and an event that is none emitted or not.
LEMMA LineTaken ==
    ASSUME TypeOK, stdout # <<>>, TakeLine, stdin' = stdin,
           \/ toWin' = toWin
           \/ \E v, e : e \in Event /\ Emit(v, e) /\ e.t \notin Outcomes /\ e.t # "replay"
    PROVE  /\ \A w \in live : Grows(toWin[w], toWin'[w])
           /\ \A w \in Window \ live : toWin'[w] = toWin[w]
           /\ \A w \in Window, k \in Nat : Traffic(w, k)' => Traffic(w, k)
<1>1. Range(stdout') \subseteq Range(stdout)
  BY RangeTail DEF TypeOK, TakeLine
<1>2. CASE toWin' = toWin
  BY <1>1, <1>2, NoTraffic DEF Grows
<1>3. ASSUME NEW v, NEW e, e \in Event /\ Emit(v, e) /\ e.t \notin Outcomes /\ e.t # "replay"
      PROVE  /\ \A w \in live : Grows(toWin[w], toWin'[w])
             /\ \A w \in Window \ live : toWin'[w] = toWin[w]
             /\ \A w \in Window, k \in Nat : Traffic(w, k)' => Traffic(w, k)
  <2>1. /\ \A w \in live : Grows(toWin[w], toWin'[w])
        /\ \A w \in Window \ live : toWin'[w] = toWin[w]
        /\ \A w \in Window : \A x \in Range(toWin'[w]) : x \in Range(toWin[w]) \/ (x = e /\ w = v)
    BY <1>3, EmittedQueues
  <2>2. \A w \in Window : \A x \in Range(toWin'[w]) : x \in Range(toWin[w]) \/ x.t # "replay"
    BY <1>3, <2>1
  <2>. QED  BY <1>1, <2>1, <2>2, NoTraffic
<1>. QED  BY <1>2, <1>3

LEMMA DispatchPlace ==
    ASSUME PlaceInv, TypeOK', DispatchData \/ DispatchMarked \/ DispatchCwds \/ DispatchReplay
    PROVE  PlaceInv'
<1>. USE DEF PlaceInv
<1>1. CASE DispatchData
  <2>1. Head(stdout) \in Line /\ Head(stdout).t = "data" /\ stdout # <<>> /\ TakeLine
    BY <1>1, LineTyped DEF DispatchData, HasLine
  <2>2. Head(stdout) \in Event
    BY <2>1, LineParts
  <2>3. toWin' = toWin \/ Emit(Showing, Head(stdout))
    BY <1>1 DEF DispatchData
  <2>4. Piped /\ UNCHANGED <<marking, cut, stdin>>
    BY <1>1 DEF DispatchData, Piped, hostVars
  <2>5. "data" \notin Outcomes
    BY DEF Outcomes
  <2>. QED  BY <2>1, <2>2, <2>3, <2>4, <2>5, LineTaken, MarksStay, PipedKeeps
<1>2. CASE DispatchMarked
  <2>1. Head(stdout) \in Line /\ Head(stdout).t = "marked" /\ stdout # <<>> /\ TakeLine
    BY <1>2, LineTyped DEF DispatchMarked, HasLine
  <2>2. Head(stdout) \in Event /\ Head(stdout).mark \in Nat
    BY <2>1, LineParts
  <2>3. Emit(Showing, Head(stdout))
    BY <1>2 DEF DispatchMarked
  <2>4. Piped /\ stdin' = stdin
    BY <1>2 DEF DispatchMarked, Piped
  <2>5. "marked" \notin Outcomes
    BY DEF Outcomes
  <2>6. /\ \A w \in live : Grows(toWin[w], toWin'[w])
        /\ \A w \in Window \ live : toWin'[w] = toWin[w]
        /\ \A w \in Window, k \in Nat : Traffic(w, k)' => Traffic(w, k)
    BY <2>1, <2>2, <2>3, <2>4, <2>5, LineTaken
  <2>7. /\ \A a \in Records : marking' = a.from \/ cut' # NoMark
        /\ Records = {} => marking' = NoWindow /\ cut' = NoMark
    <3>1. CASE marking = NoWindow
      <4>1. UNCHANGED <<marking, cut>>
        BY <1>2, <3>1 DEF DispatchMarked
      <4>. QED  BY <4>1, MarksStay
    <3>2. CASE marking # NoWindow
      <4>1. cut' = Head(stdout).mark /\ Records # {}
        BY <1>2, <3>2 DEF DispatchMarked, RecordsStand
      <4>2. cut' # NoMark
        BY <2>2, <4>1 DEF NoMark
      <4>. QED  BY <4>1, <4>2
    <3>. QED  BY <3>1, <3>2
  <2>. QED  BY <2>4, <2>6, <2>7, PipedKeeps
<1>3. CASE DispatchCwds
  <2>1. stdout # <<>> /\ TakeLine /\ [t |-> "cwds"] \in Event
    BY <1>3 DEF DispatchCwds, HasLine, Event
  <2>2. Emit(Head(stdout).for, [t |-> "cwds"])
    BY <1>3 DEF DispatchCwds
  <2>3. Piped /\ UNCHANGED <<marking, cut, stdin>>
    BY <1>3 DEF DispatchCwds, Piped, hostVars
  <2>4. "cwds" \notin Outcomes
    BY DEF Outcomes
  <2>. QED  BY <2>1, <2>2, <2>3, <2>4, LineTaken, MarksStay, PipedKeeps
<1>4. CASE DispatchReplay
  <2>. DEFINE l == Head(stdout)
              e == [t |-> "replay", n |-> l.n, bytes |-> l.bytes]
  <2>1. l \in Line /\ l.t = "replay" /\ stdout # <<>> /\ TakeLine /\ stdout \in Seq(Line)
    BY <1>4, LineTyped DEF DispatchReplay, HasLine, TypeOK
  <2>2. e \in Event /\ e.t = "replay" /\ e.n = l.n
    BY <2>1, LineParts DEF Event
  <2>3. Emit(l.for, e)
    BY <1>4 DEF DispatchReplay
  <2>4. Piped /\ UNCHANGED <<marking, cut, stdin>>
    BY <1>4 DEF DispatchReplay, Piped
  <2>5. Range(stdout') \subseteq Range(stdout) /\ l \in Range(stdout)
    BY <2>1, RangeTail DEF TakeLine
  <2>. HIDE DEF e, l
  <2>6. /\ \A w \in live : Grows(toWin[w], toWin'[w])
        /\ \A w \in Window \ live : toWin'[w] = toWin[w]
        /\ \A w \in Window : \A x \in Range(toWin'[w]) : x \in Range(toWin[w]) \/ (x = e /\ w = l.for)
    <3>1. e.t \notin Outcomes
      BY <2>2 DEF Outcomes
    <3>. QED  BY <2>2, <2>3, <3>1, EmittedQueues
  <2>7. \A w \in Window, k \in Nat : Traffic(w, k)' => Traffic(w, k)
    <3>. SUFFICES ASSUME NEW w \in Window, NEW k \in Nat, Traffic(w, k)' PROVE Traffic(w, k)
      OBVIOUS
    <3>1. CASE \E x \in Range(stdin') : x.t = "init" /\ x.for = w /\ x.n = k
      BY <2>4, <3>1 DEF Traffic
    <3>2. CASE \E x \in Range(stdout') : x.t = "replay" /\ x.for = w /\ x.n = k
      BY <2>5, <3>2 DEF Traffic
    <3>3. CASE \E x \in Range(toWin'[w]) : x.t = "replay" /\ x.n = k
      BY <2>1, <2>2, <2>5, <2>6, <3>3 DEF Traffic
    <3>. QED  BY <3>1, <3>2, <3>3 DEF Traffic
  <2>. QED  BY <2>4, <2>6, <2>7, MarksStay, PipedKeeps
<1>. QED  BY <1>1, <1>2, <1>3, <1>4

LEMMA SweepPlace ==
    ASSUME PlaceInv, TypeOK', Sweep \/ (\E w \in Window : HandBackReplayTimeout(w))
    PROVE  PlaceInv'
<1>1. Piped /\ UNCHANGED <<marking, cut, stdin, stdout, toWin>>
  BY DEF Sweep, HandBackReplayTimeout, Piped, hostVars, winVars
<1>2. \A w \in Window, k \in Nat : Traffic(w, k)' => Traffic(w, k)
  BY <1>1 DEF Traffic
<1>. QED  BY <1>1, <1>2, MarksStay, PipedKeeps DEF Grows

\* An event is taken by w.
LEMMA TakenEach ==
    ASSUME TypeOK, NEW w \in Window, TakeEvent(w), NEW v \in Window
    PROVE  toWin'[v] = IF v = w THEN Tail(toWin[w]) ELSE toWin[v]
BY DEF TypeOK, TakeEvent

LEMMA TakenQueues ==
    ASSUME TypeOK, NEW w \in Window, NEW t, HasEvent(w, t), TakeEvent(w),
           UNCHANGED <<stdin, stdout>>
    PROVE  /\ t \notin Outcomes => \A v \in live : Grows(toWin[v], toWin'[v])
           /\ \A v \in Window \ live : toWin'[v] = toWin[v]
           /\ \A v \in Window : v # w => toWin'[v] = toWin[v]
           /\ \A v \in Window, k \in Nat : Traffic(v, k)' => Traffic(v, k)
<1>1. toWin[w] \in Seq(Event) /\ toWin[w] # <<>> /\ Head(toWin[w]).t = t /\ w \in live
  BY DEF TypeOK, HasEvent
<1>2. live \subseteq Window
  BY DEF TypeOK
<1>3. t \notin Outcomes => \A v \in live : Grows(toWin[v], toWin'[v])
  BY <1>1, <1>2, TakenEach DEF Grows
<1>4. \A v \in Window : Range(toWin'[v]) \subseteq Range(toWin[v])
  BY <1>1, TakenEach, RangeTail
<1>5. \A v \in Window, k \in Nat : Traffic(v, k)' => Traffic(v, k)
  BY <1>4, NoTraffic
<1>. QED  BY <1>1, <1>3, <1>5, TakenEach

\* The place of w goes on within its kind.
LEMMA PlaceGoesOn ==
    ASSUME TypeOK, NEW w \in Window, w \in live, NEW p, SameKind(place[w], p),
           place' = [place EXCEPT ![w] = p], moves' = moves,
           UNCHANGED <<live, gone, owner, arrivals, lost, adopting, mounted>>,
           p \in {"probing", "prepared"} => place[w] \in {"probing", "prepared"}
    PROVE  Placed
<1>1. \A v \in Window : place'[v] = IF v = w THEN p ELSE place[v]
  BY DEF TypeOK
<1>2. live \subseteq Window /\ moves \in Nat
  BY DEF TypeOK
<1>3. \A v \in live : SameKind(place[v], place'[v])
  BY <1>1, <1>2 DEF SameKind
<1>4. \A v \in Window \ live : place'[v] = place[v]
  BY <1>1
<1>5. Starting' => Starting
  BY <1>1, <1>2 DEF Starting
<1>6. moves' >= moves
  BY <1>2
<1>. QED  BY <1>3, <1>4, <1>5, <1>6 DEF Placed

LEMMA EventsPlace ==
    ASSUME PlaceInv, TypeOK', NEW w \in Window, OnData(w) \/ OnCwds(w) \/ OnMarked(w)
    PROVE  PlaceInv'
<1>. USE DEF PlaceInv
<1>0. {"data", "cwds", "marked"} \cap Outcomes = {}
  BY DEF Outcomes
<1>1. CASE OnData(w)
  <2>1. /\ \A v \in live : Grows(toWin[v], toWin'[v])
        /\ \A v \in Window \ live : toWin'[v] = toWin[v]
        /\ \A v \in Window, k \in Nat : Traffic(v, k)' => Traffic(v, k)
    BY <1>0, <1>1, TakenQueues DEF OnData
  <2>2. Piped /\ UNCHANGED <<marking, cut>>
    BY <1>1 DEF OnData, Piped, hostVars
  <2>. QED  BY <2>1, <2>2, MarksStay, PipedKeeps
<1>2. CASE OnCwds(w)
  <2>1. /\ \A v \in live : Grows(toWin[v], toWin'[v])
        /\ \A v \in Window \ live : toWin'[v] = toWin[v]
        /\ \A v \in Window, k \in Nat : Traffic(v, k)' => Traffic(v, k)
    BY <1>0, <1>2, TakenQueues DEF OnCwds
  <2>. DEFINE p == IF place[w] = "probing" THEN "prepared" ELSE place[w]
  <2>2. place' = [place EXCEPT ![w] = p] /\ w \in live
    BY <1>2 DEF OnCwds, HasEvent
  <2>3. SameKind(place[w], p) /\ (p \in {"probing", "prepared"} => place[w] \in {"probing", "prepared"})
    BY DEF SameKind, Resting
  <2>4. UNCHANGED <<live, gone, owner, arrivals, lost, adopting, mounted, moves, marking, cut>>
    BY <1>2 DEF OnCwds, hostVars
  <2>. HIDE DEF p
  <2>5. Placed
    BY <2>2, <2>3, <2>4, PlaceGoesOn
  <2>. QED  BY <2>1, <2>4, <2>5, MarksStay, PlacedKeeps
<1>3. CASE OnMarked(w)
  <2>1. /\ \A v \in live : Grows(toWin[v], toWin'[v])
        /\ \A v \in Window \ live : toWin'[v] = toWin[v]
        /\ \A v \in Window, k \in Nat : Traffic(v, k)' => Traffic(v, k)
    BY <1>0, <1>3, TakenQueues DEF OnMarked
  <2>. DEFINE p == IF place[w] = "inflight" THEN "captured" ELSE place[w]
  <2>2. place' = [place EXCEPT ![w] = p] /\ w \in live
    BY <1>3 DEF OnMarked, HasEvent, TypeOK
  <2>3. SameKind(place[w], p) /\ (p \in {"probing", "prepared"} => place[w] \in {"probing", "prepared"})
    BY DEF SameKind, Moving
  <2>4. UNCHANGED <<live, gone, owner, arrivals, lost, adopting, mounted, moves, marking, cut>>
    BY <1>3 DEF OnMarked, hostVars
  <2>. HIDE DEF p
  <2>5. Placed
    BY <2>2, <2>3, <2>4, PlaceGoesOn
  <2>. QED  BY <2>1, <2>4, <2>5, MarksStay, PlacedKeeps
<1>. QED  BY <1>1, <1>2, <1>3

LEMMA SourcePlace ==
    ASSUME PlaceInv, TypeOK', NEW w \in Window, StartMove(w) \/ MoveRefused(w) \/ MarkTimeout(w)
    PROVE  PlaceInv'
<1>. USE DEF PlaceInv
<1>1. CASE StartMove(w)
  <2>1. /\ UNCHANGED <<live, gone, owner, arrivals, lost, adopting, mounted, marking, cut, toWin, stdout>>
        /\ place' = [place EXCEPT ![w] = "probing"] /\ place[w] = "held" /\ moves' = moves + 1
        /\ stdin' = Append(stdin, [t |-> "cwds", for |-> w])
    BY <1>1 DEF StartMove, hostVars
  <2>2. stdin \in Seq(Request) /\ [t |-> "cwds", for |-> w] \in Request /\ moves \in Nat
    BY DEF TypeOK, Request
  <2>3. Range(stdin') = Range(stdin) \cup {[t |-> "cwds", for |-> w]}
    BY <2>1, <2>2, RangeAppend
  <2>4. \A v \in Window, k \in Nat : Traffic(v, k)' => Traffic(v, k)
    BY <2>1, <2>3, NoTraffic
  <2>5. Placed
    <3>1. \A v \in Window : place'[v] = IF v = w THEN "probing" ELSE place[v]
      BY <2>1 DEF TypeOK
    <3>2. \A v \in live : SameKind(place[v], place'[v])
      BY <2>1, <3>1 DEF SameKind, Resting, TypeOK
    <3>3. \A v \in Window \ live : place'[v] = place[v]
      BY <1>1, <3>1 DEF StartMove
    <3>4. moves' > moves /\ moves' >= moves
      BY <2>1, <2>2
    <3>. QED  BY <2>1, <3>2, <3>3, <3>4 DEF Placed
  <2>. QED  BY <2>1, <2>4, <2>5, MarksStay, PlacedKeeps DEF Grows
<1>2. ASSUME NEW p, SameKind(place[w], p), p \notin {"probing", "prepared"}, w \in live,
             place' = [place EXCEPT ![w] = p],
             UNCHANGED <<produced, stdin, stdout, hostVars, toWin, adopting, mounted, moves>>
      PROVE  PlaceInv'
  <2>1. UNCHANGED <<live, gone, owner, arrivals, lost, adopting, mounted, moves, marking, cut, toWin>>
    BY <1>2 DEF hostVars
  <2>2. Placed
    BY <1>2, <2>1, PlaceGoesOn
  <2>3. \A v \in Window, k \in Nat : Traffic(v, k)' => Traffic(v, k)
    BY <1>2 DEF Traffic
  <2>. QED  BY <2>1, <2>2, <2>3, MarksStay, PlacedKeeps DEF Grows
<1>3. CASE MoveRefused(w)
  <2>1. SameKind(place[w], "held")
    BY <1>3 DEF MoveRefused, SameKind, Resting
  <2>. QED  BY <1>2, <1>3, <2>1 DEF MoveRefused
<1>4. CASE MarkTimeout(w)
  <2>1. SameKind(place[w], "captured")
    BY <1>4 DEF MarkTimeout, SameKind, Moving
  <2>. QED  BY <1>2, <1>4, <2>1 DEF MarkTimeout
<1>. QED  BY <1>1, <1>3, <1>4

-----------------------------------------------------------------------------
(* Steps of a target that moves nothing *)

LEMMA InTurnTail ==
    ASSUME NEW q \in Seq(Event), q # <<>>, NEW ad, InTurn(ad, q)
    PROVE  /\ InTurn(ad, Tail(q))
           /\ ad.phase = "collecting" /\ Head(q).t = "replay" /\ Head(q).n = ad.n => Unsettled(Tail(q))
<1>. DEFINE r == Tail(q)
<1>1. /\ Len(q) \in Nat /\ Len(q) > 0
      /\ DOMAIN q = 1..Len(q) /\ DOMAIN r = 1..Len(q) - 1
      /\ \A i \in 1..Len(q) - 1 : r[i] = q[i + 1]
      /\ q[1] = Head(q)
  BY TailEvent
<1>. HIDE DEF r
<1>2. \A i \in DOMAIN r : i + 1 \in DOMAIN q /\ r[i] = q[i + 1] /\ 1 < i + 1
  BY <1>1
<1>3. \A i, j \in DOMAIN r : i < j => i + 1 < j + 1
  BY <1>1
<1>4. 1 \in DOMAIN q
  BY <1>1
<1>5. InTurn(ad, r)
  BY <1>2, <1>3 DEF InTurn
<1>6. ad.phase = "collecting" /\ Head(q).t = "replay" /\ Head(q).n = ad.n => Unsettled(r)
  BY <1>1, <1>2, <1>4 DEF InTurn, Unsettled
<1>. QED  BY <1>5, <1>6 DEF r

\* A record is in the way: the window it is for neither holds nor gives.
LEMMA TargetIsAway ==
    ASSUME PlaceInv, NEW a \in arrivals, a.to \in live
    PROVE  Away(place[a.to], toWin[a.to]) \/ Leaving(place[a.to], toWin[a.to])
<1>1. Stands(a.to) /\ a \in Records /\ a.from # a.to
  BY DEF PlaceInv, WindowsStand, RecordsStand, Records, TypeOK
<1>2. \A b \in Records : b = a
  BY <1>1 DEF PlaceInv, RecordsStand
<1>. QED  BY <1>1, <1>2 DEF Stands

\* A window that adopts neither holds nor gives.
LEMMA AdopterIsAway ==
    ASSUME PlaceInv, NEW w \in Window, adopting[w].phase # "idle"
    PROVE  /\ w \in live
           /\ Away(place[w], toWin[w]) \/ Leaving(place[w], toWin[w])
           /\ ~Holding(place[w], toWin[w]) /\ ~Giving(place[w], toWin[w])
<1>1. w \in live
  BY DEF PlaceInv, WindowsStand, Blank, NotAdopting
<1>2. Stands(w)
  BY <1>1 DEF PlaceInv, WindowsStand
<1>. QED  BY <1>1, <1>2, StandingsDiffer DEF Stands

LEMMA ReplayPlace ==
    ASSUME PlaceInv, TypeOK', NEW w \in Window, OnReplay(w)
    PROVE  PlaceInv'
<1>. USE DEF PlaceInv
<1>. DEFINE e == Head(toWin[w])
<1>1. /\ HasEvent(w, "replay") /\ TakeEvent(w) /\ "replay" \notin Outcomes
      /\ UNCHANGED <<produced, stdin, stdout, hostVars, place, stamp, moves>>
  BY DEF OnReplay, Outcomes
<1>2. /\ \A v \in live : Grows(toWin[v], toWin'[v])
      /\ \A v \in Window \ live : toWin'[v] = toWin[v]
      /\ \A v \in Window : v # w => toWin'[v] = toWin[v]
      /\ \A v \in Window, k \in Nat : Traffic(v, k)' => Traffic(v, k)
  BY <1>1, TakenQueues
<1>3. CASE UNCHANGED <<mounted, adopting>>
  <2>1. Piped /\ UNCHANGED <<marking, cut>>
    BY <1>1, <1>3 DEF Piped, hostVars
  <2>. QED  BY <1>2, <2>1, MarksStay, PipedKeeps
<1>4. CASE /\ adopting[w].phase = "collecting" /\ e.n = adopting[w].n
           /\ mounted' = mounted \cup {w}
           /\ adopting' = [adopting EXCEPT ![w].phase = "planned"]
  <2>1. \A v \in Window : v # w => adopting'[v] = adopting[v]
    BY <1>4 DEF TypeOK
  <2>2. adopting'[w].phase = "planned" /\ adopting'[w].n = adopting[w].n
    BY <1>4 DEF TypeOK, Adopting
  <2>3. w \in live /\ live \subseteq Window /\ moves' >= moves
    BY <1>1 DEF HasEvent, TypeOK
  <2>4. Quietly
    <3>1. \A v \in live : Calm(v)
      <4>1. ASSUME NEW v \in live PROVE Calm(v)
        <5>1. adopting[v].phase = "idle" => adopting'[v].phase = "idle"
          BY <1>4, <2>1, <2>3
        <5>2. SameKind(place[v], place'[v]) /\ (v \in mounted => v \in mounted')
          BY <1>1, <1>4 DEF SameKind
        <5>. QED  BY <1>2, <5>1, <5>2 DEF Calm
      <4>. QED  BY <4>1
    <3>2. \A v \in Window \ live :
            /\ toWin'[v] = toWin[v] /\ place'[v] = place[v] /\ adopting'[v] = adopting[v]
            /\ v \in mounted' => v \in mounted
      BY <1>1, <1>2, <1>4, <2>1, <2>3
    <3>3. UNCHANGED <<live, gone, owner, arrivals, lost, marking, cut>>
      BY <1>1 DEF hostVars
    <3>. QED  BY <2>3, <3>1, <3>2, <3>3, MarksStay DEF Quietly
  <2>5. WindowsStand' /\ RecordsStand' /\ OwnerHolds'
    BY <2>4, QuietKeeps
  <2>6. Numbered'
    <3>1. Starting' => Starting
      BY <1>1 DEF Starting, hostVars
    <3>2. arrivals' = arrivals /\ \A a \in arrivals : a.to \in Window
      BY <1>1 DEF hostVars, TypeOK, Arrival
    <3>3. \A a \in arrivals' : \E b \in arrivals :
               a.to = b.to /\ a.n = b.n /\ adopting'[a.to].n = adopting[a.to].n
      BY <2>1, <2>2, <3>2
    <3>. QED  BY <1>2, <2>3, <3>1, <3>3, NumbersKeep
  <2>7. TargetsStand'
    <3>1. ASSUME NEW v \in Window, v # w PROVE Target(v)'
      <4>1. Grows(toWin[v], toWin'[v]) /\ Target(v)
        BY <1>2, <3>1 DEF Grows, TargetsStand
      <4>. QED  BY <1>4, <2>1, <3>1, <4>1, TargetKeeps
    <3>2. Target(w)'
      <4>1. toWin[w] \in Seq(Event) /\ toWin[w] # <<>> /\ e.t = "replay" /\ toWin'[w] = Tail(toWin[w])
        BY <1>1, EventTyped, TakenEach
      <4>2. Target(w)
        BY DEF TargetsStand
      <4>3. Unsettled(toWin'[w])
        BY <1>4, <4>1, <4>2, InTurnTail DEF Target
      <4>4. InTurn(adopting'[w], toWin'[w])
        BY <2>2 DEF InTurn
      <4>5. w \in mounted' /\ adopting'[w].n > 0
        BY <1>4, <2>2, <4>2 DEF Target
      <4>. QED  BY <2>2, <4>3, <4>4, <4>5 DEF Target
    <3>. QED  BY <3>1, <3>2 DEF TargetsStand
  <2>. QED  BY <2>5, <2>6, <2>7
<1>. QED  BY <1>3, <1>4 DEF OnReplay

\* Nothing that settles a move follows the replay a target is still to take.
LEMMA InTurnHead ==
    ASSUME NEW q \in Seq(Event), q # <<>>, NEW ad, InTurn(ad, q), ad.phase = "collecting",
           Head(q).t = "replay", Head(q).n = ad.n
    PROVE  Unsettled(q)
<1>1. /\ Len(q) \in Nat /\ Len(q) > 0 /\ DOMAIN q = 1..Len(q) /\ q[1] = Head(q)
  BY TailEvent
<1>2. ASSUME NEW j \in DOMAIN q PROVE q[j].t \notin Outcomes
  <2>1. CASE j = 1
    BY <1>1, <2>1 DEF Outcomes
  <2>2. CASE j # 1
    <3>1. 1 \in DOMAIN q /\ 1 < j
      BY <1>1, <1>2, <2>2
    <3>. QED  BY <1>1, <1>2, <3>1 DEF InTurn
  <2>. QED  BY <2>1, <2>2
<1>. QED  BY <1>2 DEF Unsettled

LEMMA PlanWithoutReplayPlace ==
    ASSUME PlaceInv, TypeOK', NEW w \in Window, PlanWithoutReplay(w)
    PROVE  PlaceInv'
<1>. USE DEF PlaceInv
<1>1. /\ w \in live /\ adopting[w].phase = "collecting" /\ mounted' = mounted \cup {w}
      /\ adopting' = [adopting EXCEPT ![w].phase = "planned"]
      /\ UNCHANGED <<produced, stdin, stdout, hostVars, toWin, place, moves>>
  BY DEF PlanWithoutReplay
<1>2. \A v \in Window : v # w => adopting'[v] = adopting[v]
  BY <1>1 DEF TypeOK
<1>3. adopting'[w].phase = "planned" /\ adopting'[w].n = adopting[w].n
  BY <1>1 DEF TypeOK, Adopting
<1>4. /\ \A v \in Window : Grows(toWin[v], toWin'[v])
      /\ \A v \in Window, k \in Nat : Traffic(v, k)' => Traffic(v, k)
      /\ live \subseteq Window /\ moves' >= moves
  BY <1>1 DEF Grows, Traffic, TypeOK
<1>5. Quietly
  <2>1. ASSUME NEW v \in live PROVE Calm(v)
    <3>1. adopting[v].phase = "idle" => adopting'[v].phase = "idle"
      BY <1>1, <1>2, <1>4
    <3>2. SameKind(place[v], place'[v]) /\ (v \in mounted => v \in mounted')
      BY <1>1 DEF SameKind
    <3>. QED  BY <1>4, <3>1, <3>2 DEF Calm
  <2>2. \A v \in Window \ live :
          /\ toWin'[v] = toWin[v] /\ place'[v] = place[v] /\ adopting'[v] = adopting[v]
          /\ v \in mounted' => v \in mounted
    BY <1>1, <1>2
  <2>3. UNCHANGED <<live, gone, owner, arrivals, lost, marking, cut>>
    BY <1>1 DEF hostVars
  <2>. QED  BY <1>4, <2>1, <2>2, <2>3, MarksStay DEF Quietly
<1>6. WindowsStand' /\ RecordsStand' /\ OwnerHolds'
  BY <1>5, QuietKeeps
<1>7. Numbered'
  <2>1. Starting' => Starting
    BY <1>1 DEF Starting, hostVars
  <2>2. arrivals' = arrivals /\ \A a \in arrivals : a.to \in Window
    BY <1>1 DEF hostVars, TypeOK, Arrival
  <2>3. \A a \in arrivals' : \E b \in arrivals :
             a.to = b.to /\ a.n = b.n /\ adopting'[a.to].n = adopting[a.to].n
    BY <1>2, <1>3, <2>2
  <2>. QED  BY <1>4, <2>1, <2>3, NumbersKeep
<1>8. TargetsStand'
  <2>1. ASSUME NEW v \in Window, v # w PROVE Target(v)'
    <3>1. Grows(toWin[v], toWin'[v]) /\ Target(v)
      BY <1>4 DEF TargetsStand
    <3>. QED  BY <1>1, <1>2, <2>1, <3>1, TargetKeeps
  <2>2. Target(w)'
    <3>1. Target(w) /\ toWin[w] \in Seq(Event) /\ toWin'[w] = toWin[w]
      BY <1>1 DEF TargetsStand, TypeOK
    <3>2. CASE toWin[w] = <<>>
      BY <3>1, <3>2, <1>1, <1>3 DEF Target, Unsettled, InTurn
    <3>3. CASE toWin[w] # <<>>
      <4>1. Head(toWin[w]).t = "replay" /\ Head(toWin[w]).n = adopting[w].n
        BY <3>3 DEF PlanWithoutReplay
      <4>2. Unsettled(toWin'[w])
        BY <1>1, <3>1, <3>3, <4>1, InTurnHead DEF Target
      <4>. QED  BY <1>1, <1>3, <3>1, <4>2 DEF Target, InTurn
    <3>. QED  BY <3>2, <3>3
  <2>. QED  BY <2>1, <2>2 DEF TargetsStand
<1>. QED  BY <1>6, <1>7, <1>8

LEMMA AdoptReadyPlace ==
    ASSUME PlaceInv, TypeOK', NEW w \in Window, AdoptReady(w)
    PROVE  PlaceInv'
<1>. USE DEF PlaceInv
<1>1. PICK a \in arrivals :
        /\ w \in live /\ a.to = w /\ adopting[w].phase = "idle"
        /\ adopting' = [adopting EXCEPT ![w] =
                          [phase |-> "collecting", n |-> a.n, part |-> a.part]]
        /\ stdin' = Append(stdin, [t |-> "init", for |-> w, n |-> a.n, since |-> a.mark])
        /\ UNCHANGED <<produced, stdout, hostVars, toWin, place, stamp,
                       expecting, screen, mounted, moves>>
  BY DEF AdoptReady
<1>2. \A v \in Window : v # w => adopting'[v] = adopting[v]
  BY <1>1 DEF TypeOK
<1>3. adopting'[w].phase = "collecting" /\ adopting'[w].n = a.n
  BY <1>1 DEF TypeOK
<1>4. /\ a.n \in Nat /\ a.n > 0 /\ a.n <= moves /\ a \in Records /\ moves \in Nat
      /\ \A b \in arrivals : b = a
  BY DEF TypeOK, Arrival, RecordsStand, Records
<1>5. Away(place[w], toWin[w]) \/ Leaving(place[w], toWin[w])
  BY <1>1, TargetIsAway
<1>6. ~Starting
  <2>1. ASSUME NEW v \in live, place[v] \in {"probing", "prepared"} PROVE FALSE
    <3>1. Stands(v) /\ Records # {}
      BY <1>4 DEF WindowsStand, TypeOK
    <3>2. Holding(place[v], toWin[v])
      BY <2>1, <3>1 DEF Stands, Away, Leaving, Giving, Moving
    <3>. QED  BY <3>1, <3>2, StandingsDiffer DEF Stands
  <2>. QED  BY <2>1 DEF Starting
<1>7. ~Traffic(w, a.n)
  <2>1. adopting[w].n # a.n
    BY <1>1, <1>4 DEF TargetsStand, Target, NotAdopting
  <2>. QED  BY <1>1, <2>1 DEF Numbered
<1>8. ASSUME NEW v \in Window, NEW k \in Nat, Traffic(v, k)' PROVE Traffic(v, k) \/ (v = w /\ k = a.n)
  <2>1. stdin \in Seq(Request) /\ a.mark \in Mark
    BY DEF TypeOK, Arrival
  <2>. DEFINE x == [t |-> "init", for |-> w, n |-> a.n, since |-> a.mark]
  <2>2. x \in Request /\ x.for = w /\ x.n = a.n
    BY <1>4, <2>1 DEF Request
  <2>3. Range(stdin') = Range(stdin) \cup {x}
    BY <1>1, <2>1, <2>2, RangeAppend
  <2>. HIDE DEF x
  <2>. QED  BY <1>1, <1>8, <2>2, <2>3 DEF Traffic
<1>9. Quietly
  <2>1. \A v \in live : Calm(v)
    BY <1>1, <1>2, <1>5 DEF Calm, Grows, SameKind, TypeOK
  <2>2. \A v \in Window \ live : adopting'[v] = adopting[v]
    BY <1>1, <1>2
  <2>3. UNCHANGED <<live, gone, owner, arrivals, lost, marking, cut>>
    BY <1>1 DEF hostVars
  <2>4. moves' >= moves
    BY <1>1, <1>4
  <2>. QED  BY <1>1, <2>1, <2>2, <2>3, <2>4, MarksStay DEF Quietly
<1>10. WindowsStand' /\ RecordsStand' /\ OwnerHolds'
  BY <1>9, QuietKeeps
<1>11. Numbered'
  <2>1. ~Starting' /\ moves' = moves /\ arrivals' = arrivals
    BY <1>1, <1>6 DEF Starting, hostVars
  <2>2. ASSUME NEW v \in Window, NEW k \in Nat, Traffic(v, k)' PROVE k <= moves
    BY <1>4, <1>8, <2>2 DEF Numbered
  <2>3. \A b \in arrivals : adopting'[b.to].n = b.n
    BY <1>1, <1>3, <1>4
  <2>. QED  BY <2>1, <2>2, <2>3 DEF Numbered
<1>12. TargetsStand'
  <2>1. ASSUME NEW v \in Window, v # w PROVE Target(v)'
    <3>1. Grows(toWin[v], toWin'[v]) /\ Target(v)
      BY <1>1 DEF Grows, TargetsStand
    <3>. QED  BY <1>1, <1>2, <2>1, <3>1, TargetKeeps
  <2>2. Target(w)'
    <3>1. \A x \in Range(toWin[w]) : ~(x.t = "replay" /\ x.n = a.n)
      BY <1>7 DEF Traffic
    <3>2. \A i \in DOMAIN toWin[w] : toWin[w][i] \in Range(toWin[w])
      BY DEF Range
    <3>3. InTurn(adopting'[w], toWin'[w])
      BY <1>1, <1>3, <3>1, <3>2 DEF InTurn
    <3>. QED  BY <1>3, <1>4, <3>3 DEF Target
  <2>. QED  BY <2>1, <2>2 DEF TargetsStand
<1>. QED  BY <1>10, <1>11, <1>12

-----------------------------------------------------------------------------
(* Steps that move the Workspace *)

\* A window that has no part in the Workspace keeps none.
LEMMA AwayStands ==
    ASSUME NEW v, place'[v] = place[v], toWin'[v] = toWin[v],
           Away(place[v], toWin[v]) \/ Leaving(place[v], toWin[v])
    PROVE  Stands(v)'
BY DEF Stands

\* Who neither holds nor gives has no part.
LEMMA OnlyOneHas ==
    ASSUME PlaceInv, NEW v \in live
    PROVE  /\ Records # {} /\ (\A a \in Records : a.from # v) =>
                 Away(place[v], toWin[v]) \/ Leaving(place[v], toWin[v])
           /\ Records = {} /\ v # owner =>
                 Away(place[v], toWin[v]) \/ Leaving(place[v], toWin[v])
<1>1. Stands(v)
  BY DEF PlaceInv, WindowsStand, TypeOK
<1>. QED  BY <1>1 DEF Stands

\* A window that is about to move the Workspace holds it.
LEMMA RestingHolds ==
    ASSUME PlaceInv, NEW v \in live, place[v] \in Resting
    PROVE  /\ Holding(place[v], toWin[v]) /\ owner = v /\ Records = {}
           /\ v \in mounted /\ adopting[v].phase = "idle" /\ Unsettled(toWin[v])
<1>1. Stands(v)
  BY DEF PlaceInv, WindowsStand, TypeOK
<1>2. place[v] # "none" /\ place[v] \notin Moving
  BY DEF Resting, Moving
<1>. QED  BY <1>1, <1>2 DEF Stands, Away, Leaving, Giving, Holding

LEMMA StartingHolds ==
    ASSUME PlaceInv, Starting
    PROVE  Records = {} /\ owner \in live /\ place[owner] \in {"probing", "prepared"}
<1>1. PICK v \in live : place[v] \in {"probing", "prepared"}
  BY DEF Starting
<1>2. place[v] \in Resting
  BY <1>1 DEF Resting
<1>. QED  BY <1>1, <1>2, RestingHolds

LEMMA OnFailedPlace ==
    ASSUME PlaceInv, TypeOK', NEW w \in Window, OnFailed(w)
    PROVE  PlaceInv'
<1>. USE DEF PlaceInv
<1>1. /\ HasEvent(w, "failed") /\ TakeEvent(w) /\ "failed" \in Outcomes /\ w \in live
      /\ UNCHANGED <<produced, stdin, stdout, hostVars, stamp, adopting, screen, mounted, moves>>
  BY DEF OnFailed, Outcomes, HasEvent
<1>2. /\ toWin[w] \in Seq(Event) /\ toWin[w] # <<>> /\ Head(toWin[w]).t = "failed"
      /\ toWin'[w] = Tail(toWin[w])
  BY <1>1, EventTyped, TakenEach
<1>3. /\ \A v \in Window : v # w => toWin'[v] = toWin[v]
      /\ \A v \in Window, k \in Nat : Traffic(v, k)' => Traffic(v, k)
  BY <1>1, TakenQueues
<1>4. Stands(w) /\ ~Unsettled(toWin[w])
  BY <1>1, <1>2, HeadSettles DEF WindowsStand
<1>5. ~Settled(toWin[w], "departed")
  BY <1>1, <1>2, OutcomeTaken
<1>6. /\ place[w] \in Moving /\ Settled(toWin[w], "failed") /\ owner = w /\ Records = {}
      /\ w \in mounted /\ adopting[w].phase = "idle"
  BY <1>4, <1>5 DEF Stands, Away, Leaving, Giving, Holding
<1>7. Unsettled(toWin'[w])
  BY <1>1, <1>2, <1>6, OutcomeTaken
<1>8. place' = [place EXCEPT ![w] = "held"]
  BY <1>6 DEF OnFailed
<1>9. place'[w] = "held" /\ \A v \in Window : v # w => place'[v] = place[v]
  BY <1>8 DEF TypeOK
<1>10. Records' = Records /\ UNCHANGED <<live, gone, owner, arrivals, lost, marking, cut>>
  BY <1>1 DEF hostVars, Records
<1>11. Holding(place'[w], toWin'[w])
  BY <1>7, <1>9 DEF Holding, Resting
<1>12. WindowsStand'
  <2>1. Stands(w)'
    BY <1>1, <1>6, <1>10, <1>11 DEF Stands
  <2>2. ASSUME NEW v \in Window, v \in live, v # w PROVE Stands(v)'
    <3>1. Away(place[v], toWin[v]) \/ Leaving(place[v], toWin[v])
      BY <1>6, <2>2, OnlyOneHas
    <3>. QED  BY <1>3, <1>9, <2>2, <3>1, AwayStands
  <2>3. ASSUME NEW v \in Window, v \notin live PROVE Blank(v)'
    BY <1>1, <1>3, <1>9, <2>3 DEF WindowsStand, Blank
  <2>. QED  BY <1>10, <2>1, <2>2, <2>3 DEF WindowsStand
<1>13. RecordsStand'
  <2>1. arrivals = {} /\ lost = {}
    BY <1>6 DEF Records
  <2>. QED  BY <1>6, <1>10, <2>1 DEF RecordsStand
<1>14. OwnerHolds'
  BY <1>1, <1>6, <1>10, <1>11 DEF OwnerHolds
<1>15. Numbered'
  <2>1. Starting' => Starting
    BY <1>9, <1>10 DEF Starting, TypeOK
  <2>2. moves' >= moves
    BY <1>1 DEF TypeOK
  <2>. QED  BY <1>1, <1>3, <1>10, <2>1, <2>2, NumbersKeep
<1>16. TargetsStand'
  <2>1. ASSUME NEW v \in Window, v # w PROVE Target(v)'
    BY <1>1, <1>3, <2>1, TargetKeeps DEF Grows, TargetsStand
  <2>2. Target(w)'
    BY <1>1, <1>6 DEF Target, TargetsStand, InTurn
  <2>. QED  BY <2>1, <2>2 DEF TargetsStand
<1>. QED  BY <1>12, <1>13, <1>14, <1>15, <1>16

LEMMA OnDepartedPlace ==
    ASSUME PlaceInv, TypeOK', NEW w \in Window, OnDeparted(w)
    PROVE  PlaceInv'
<1>. USE DEF PlaceInv
<1>1. /\ HasEvent(w, "departed") /\ TakeEvent(w) /\ "departed" \in Outcomes /\ w \in live
      /\ UNCHANGED <<produced, stdin, stdout, hostVars, stamp, adopting, expecting, moves>>
  BY DEF OnDeparted, Outcomes, HasEvent
<1>2. /\ toWin[w] \in Seq(Event) /\ toWin[w] # <<>> /\ Head(toWin[w]).t = "departed"
      /\ toWin'[w] = Tail(toWin[w])
  BY <1>1, EventTyped, TakenEach
<1>3. /\ \A v \in Window : v # w => toWin'[v] = toWin[v]
      /\ \A v \in Window, k \in Nat : Traffic(v, k)' => Traffic(v, k)
  BY <1>1, TakenQueues
<1>4. Stands(w) /\ ~Unsettled(toWin[w])
  BY <1>1, <1>2, HeadSettles DEF WindowsStand
<1>5. ~Settled(toWin[w], "failed")
  BY <1>1, <1>2, OutcomeTaken
<1>6. place[w] \in Moving /\ Settled(toWin[w], "departed") /\ Leaving(place[w], toWin[w])
  BY <1>4, <1>5 DEF Stands, Away, Leaving, Giving, Holding
<1>7. Unsettled(toWin'[w])
  BY <1>1, <1>2, <1>6, OutcomeTaken
<1>8. place' = [place EXCEPT ![w] = "none"] /\ mounted' = mounted \ {w}
  BY <1>6 DEF OnDeparted
<1>9. place'[w] = "none" /\ \A v \in Window : v # w => place'[v] = place[v]
  BY <1>8 DEF TypeOK
<1>10. Records' = Records /\ UNCHANGED <<live, gone, owner, arrivals, lost, marking, cut>>
  BY <1>1 DEF hostVars, Records
<1>11. ~Holding(place[w], toWin[w]) /\ ~Giving(place[w], toWin[w])
  BY <1>6, StandingsDiffer
<1>12. WindowsStand'
  <2>1. Stands(w)'
    BY <1>7, <1>9 DEF Stands, Away
  <2>2. ASSUME NEW v \in Window, v \in live, v # w PROVE Stands(v)'
    BY <1>1, <1>3, <1>8, <1>9, <1>10, <2>2 DEF WindowsStand, Stands
  <2>3. ASSUME NEW v \in Window, v \notin live PROVE Blank(v)'
    BY <1>1, <1>3, <1>8, <1>9, <2>3 DEF WindowsStand, Blank
  <2>. QED  BY <1>10, <2>1, <2>2, <2>3 DEF WindowsStand
<1>13. RecordsStand'
  <2>1. ASSUME NEW a \in Records, a.from \in live PROVE Giving(place'[a.from], toWin'[a.from])
    <3>1. Giving(place[a.from], toWin[a.from]) /\ a.from \in Window
      BY <2>1 DEF RecordsStand, TypeOK
    <3>. QED  BY <1>3, <1>9, <1>11, <3>1
  <2>2. moves' = moves
    BY <1>1
  <2>. QED  BY <1>10, <2>1, <2>2 DEF RecordsStand
<1>14. OwnerHolds'
  <2>1. ASSUME arrivals = {}, owner # NoWindow
        PROVE  owner \in live /\ Holding(place'[owner], toWin'[owner])
    <3>1. owner \in live /\ Holding(place[owner], toWin[owner]) /\ owner \in Window
      BY <2>1 DEF OwnerHolds, TypeOK
    <3>. QED  BY <1>3, <1>9, <1>11, <3>1
  <2>. QED  BY <1>10, <2>1 DEF OwnerHolds
<1>15. Numbered'
  <2>1. Starting' => Starting
    BY <1>9, <1>10 DEF Starting, TypeOK
  <2>2. moves' >= moves
    BY <1>1 DEF TypeOK
  <2>. QED  BY <1>1, <1>3, <1>10, <2>1, <2>2, NumbersKeep
<1>16. TargetsStand'
  <2>1. ASSUME NEW v \in Window, v # w PROVE Target(v)'
    BY <1>1, <1>3, <1>8, <2>1, TargetKeeps DEF Grows, TargetsStand
  <2>2. Target(w)'
    <3>1. Target(w) /\ adopting[w].phase # "planned"
      BY <1>4 DEF TargetsStand, Target
    <3>2. InTurn(adopting[w], toWin'[w])
      BY <1>2, <3>1, InTurnTail DEF Target
    <3>. QED  BY <1>1, <3>1, <3>2 DEF Target
  <2>. QED  BY <2>1, <2>2 DEF TargetsStand
<1>. QED  BY <1>12, <1>13, <1>14, <1>15, <1>16

LEMMA BeginTransferPlace ==
    ASSUME PlaceInv, TypeOK', NEW w \in Window, NEW to \in Window, BeginTransfer(w, to)
    PROVE  PlaceInv'
<1>. USE DEF PlaceInv
<1>. DEFINE a == [n |-> moves, from |-> w, to |-> to, pending |-> to \notin live,
                  ready |-> FALSE, part |-> <<>>, mark |-> NoMark]
<1>1. /\ w \in live /\ place[w] = "prepared" /\ arrivals' = {a}
      /\ to \in (live \ {w}) \cup (Unopened \ (live \cup gone))
      /\ owner' = IF owner # NoWindow THEN to ELSE owner
      /\ marking' = w /\ stdin' = Append(stdin, [t |-> "mark"])
      /\ place' = [place EXCEPT ![w] = "inflight"]
      /\ UNCHANGED <<produced, stdout, live, gone, lost, toWin, stamp, adopting,
                     expecting, screen, mounted, moves>>
  BY DEF BeginTransfer
<1>2. /\ a.n = moves /\ a.from = w /\ a.to = to /\ ~a.ready
      /\ a.pending <=> to \notin live
  OBVIOUS
<1>. HIDE DEF a
<1>3. /\ owner = w /\ Records = {} /\ w \in mounted /\ adopting[w].phase = "idle"
      /\ Unsettled(toWin[w]) /\ Starting
  BY <1>1, RestingHolds DEF Resting, Starting
<1>4. owner' = to /\ lost = {} /\ arrivals = {} /\ Records' = {a}
  BY <1>1, <1>3, WindowsAreDistinct DEF Records
<1>5. place'[w] = "inflight" /\ \A v \in Window : v # w => place'[v] = place[v]
  BY <1>1 DEF TypeOK
<1>6. Giving(place'[w], toWin'[w])
  BY <1>1, <1>3, <1>5 DEF Giving, Moving
<1>7. moves \in Nat /\ moves > 0
  BY <1>3 DEF Numbered, TypeOK
<1>8. WindowsStand'
  <2>1. Stands(w)'
    BY <1>1, <1>2, <1>3, <1>4, <1>6 DEF Stands
  <2>2. ASSUME NEW v \in Window, v \in live, v # w PROVE Stands(v)'
    <3>1. Away(place[v], toWin[v]) \/ Leaving(place[v], toWin[v])
      BY <1>3, <2>2, OnlyOneHas
    <3>. QED  BY <1>1, <1>5, <2>2, <3>1, AwayStands
  <2>3. ASSUME NEW v \in Window, v \notin live PROVE Blank(v)'
    BY <1>1, <1>5, <2>3 DEF WindowsStand, Blank
  <2>. QED  BY <1>1, <2>1, <2>2, <2>3 DEF WindowsStand
<1>9. RecordsStand'
  BY <1>1, <1>2, <1>4, <1>6, <1>7 DEF RecordsStand
<1>10. OwnerHolds'
  BY <1>1 DEF OwnerHolds
<1>11. \A v \in Window, k \in Nat : Traffic(v, k)' => Traffic(v, k)
  <2>1. stdin \in Seq(Request) /\ [t |-> "mark"] \in Request
    BY DEF TypeOK, Request
  <2>2. Range(stdin') = Range(stdin) \cup {[t |-> "mark"]}
    BY <1>1, <2>1, RangeAppend
  <2>. QED  BY <1>1, <2>2, NoTraffic
<1>12. Numbered'
  <2>1. ~Starting'
    <3>1. ASSUME NEW v \in live, place'[v] \in {"probing", "prepared"} PROVE FALSE
      <4>1. v # w /\ v \in Window /\ place[v] \in Resting
        BY <1>5, <3>1 DEF TypeOK, Resting
      <4>. QED  BY <1>3, <4>1, RestingHolds
    <3>. QED  BY <1>1, <3>1 DEF Starting
  <2>2. ASSUME NEW b \in arrivals' PROVE ~Traffic(b.to, b.n)'
    <3>1. b.to = to /\ b.n = moves
      BY <1>1, <1>2, <2>2
    <3>2. ~Traffic(b.to, b.n)
      BY <1>3, <1>7, <3>1 DEF Numbered
    <3>. QED  BY <1>7, <1>11, <3>1, <3>2
  <2>3. \A v \in Window, k \in Nat : Traffic(v, k)' => k <= moves'
    BY <1>1, <1>11 DEF Numbered
  <2>. QED  BY <1>1, <1>2, <2>1, <2>2, <2>3 DEF Numbered
<1>13. TargetsStand'
  BY <1>1, TargetKeeps DEF Grows, TargetsStand
<1>. QED  BY <1>8, <1>9, <1>10, <1>12, <1>13

LEMMA SendContentPlace ==
    ASSUME PlaceInv, TypeOK', NEW w \in Window, SendContent(w)
    PROVE  PlaceInv'
<1>. USE DEF PlaceInv
<1>1. /\ w \in live /\ place[w] = "captured" /\ place' = [place EXCEPT ![w] = "sent"]
      /\ arrivals' = {IF a.from = w
                      THEN [a EXCEPT !.ready = TRUE, !.part = screen[w],
                                     !.mark = stamp[w], !.pending = FALSE]
                      ELSE a : a \in arrivals}
      /\ live' = live \cup {a.to : a \in {b \in arrivals : b.from = w /\ b.pending}}
      /\ UNCHANGED <<produced, stdin, stdout, gone, owner, awaiting, marking, cut,
                     lost, toWin, stamp, adopting, expecting, screen, mounted, moves>>
  BY DEF SendContent
<1>2. place'[w] = "sent" /\ \A v \in Window : v # w => place'[v] = place[v]
  BY <1>1 DEF TypeOK
<1>. DEFINE sent(a) == IF a.from = w
                       THEN [a EXCEPT !.ready = TRUE, !.part = screen[w],
                                      !.mark = stamp[w], !.pending = FALSE]
                       ELSE a
<1>a. ASSUME NEW a \in arrivals
      PROVE  /\ sent(a).n = a.n /\ sent(a).from = a.from /\ sent(a).to = a.to
             /\ IF a.from = w THEN ~sent(a).pending ELSE sent(a) = a
  <2>1. a \in Arrival
    BY DEF TypeOK
  <2>. QED  BY <2>1 DEF Arrival
<1>b. arrivals' = {sent(a) : a \in arrivals}
  BY <1>1
<1>. HIDE DEF sent
<1>3. \A b \in arrivals' : \E a \in arrivals :
         /\ b.n = a.n /\ b.from = a.from /\ b.to = a.to
         /\ IF a.from = w THEN ~b.pending ELSE b = a
  BY <1>a, <1>b
<1>4. \A a \in arrivals : \E b \in arrivals' : b.from = a.from
  BY <1>a, <1>b
<1>5. /\ \A b \in Records' : \E a \in Records : b.n = a.n /\ b.from = a.from /\ b.to = a.to
      /\ \A a \in Records : \E b \in Records' : b.from = a.from
      /\ (Records = {} => Records' = {}) /\ (Records' = {} => Records = {})
  BY <1>1, <1>3, <1>4 DEF Records
<1>6. \A v \in Window : v \in live' /\ v \notin live =>
         \E a \in arrivals : a.to = v /\ a.pending /\ a.from = w /\ v \notin gone
  BY <1>1 DEF RecordsStand
<1>7. live \subseteq live' /\ live' \subseteq Window
  BY <1>1 DEF TypeOK
<1>8. ASSUME NEW v \in live PROVE Calm(v)
  <2>1. SameKind(place[v], place'[v])
    BY <1>1, <1>2 DEF SameKind, Moving, TypeOK
  <2>. QED  BY <1>1, <2>1 DEF Calm, Grows
<1>9. WindowsStand'
  <2>1. ASSUME NEW v \in Window, v \in live PROVE Stands(v)'
    <3>1. Stands(v) /\ Calm(v)
      BY <1>8, <2>1 DEF WindowsStand
    <3>. QED  BY <1>1, <1>5, <3>1, CalmStands
  <2>2. ASSUME NEW v \in Window, v \in live', v \notin live PROVE Stands(v)'
    <3>1. Blank(v) /\ v # w
      BY <1>1, <2>2 DEF WindowsStand
    <3>2. place'[v] = "none" /\ toWin'[v] = <<>>
      BY <1>1, <1>2, <3>1 DEF Blank
    <3>. QED  BY <3>2, EmptyQueue DEF Stands, Away
  <2>3. ASSUME NEW v \in Window, v \notin live' PROVE Blank(v)'
    <3>1. Blank(v) /\ v # w
      BY <1>1, <1>7, <2>3 DEF WindowsStand
    <3>. QED  BY <1>1, <1>2, <3>1 DEF Blank
  <2>4. live' \cap gone' = {}
    BY <1>1, <1>6, <1>7 DEF WindowsStand
  <2>. QED  BY <2>1, <2>2, <2>3, <2>4 DEF WindowsStand
<1>10. RecordsStand'
  <2>1. \A x, y \in Records' : x = y
    <3>1. arrivals = {} \/ lost = {}
      BY DEF RecordsStand
    <3>2. \A x, y \in arrivals' : x = y
      BY DEF TypeOK
    <3>3. \A x, y \in lost : x = y
      BY DEF RecordsStand, Records
    <3>. QED  BY <1>1, <1>3, <3>1, <3>2, <3>3 DEF Records
  <2>2. arrivals' = {} \/ lost' = {}
    BY <1>1, <1>3 DEF RecordsStand
  <2>3. ASSUME NEW b \in Records'
        PROVE  /\ b.n > 0 /\ b.n <= moves' /\ b.from # b.to
               /\ b.from \in live' \cup gone'
               /\ b.from \in live' => Giving(place'[b.from], toWin'[b.from])
               /\ marking' = b.from \/ cut' # NoMark
    <3>1. PICK a \in Records : b.n = a.n /\ b.from = a.from /\ b.to = a.to
      BY <1>5
    <3>2. /\ a.n > 0 /\ a.n <= moves /\ a.from # a.to /\ a.from \in live \cup gone
          /\ a.from \in live => Giving(place[a.from], toWin[a.from])
          /\ marking = a.from \/ cut # NoMark
      BY DEF RecordsStand
    <3>3. a.from \in live' => a.from \in live
      BY <3>2, <1>6, <1>7 DEF WindowsStand
    <3>4. a.from \in live => Giving(place'[a.from], toWin'[a.from])
      BY <1>8, <3>2, KindStands DEF Calm, TypeOK
    <3>. QED  BY <1>1, <3>1, <3>2, <3>3, <3>4
  <2>4. ASSUME NEW b \in arrivals'
        PROVE  /\ owner' = b.to
               /\ IF b.pending THEN ~b.ready /\ b.to \notin live' \cup gone' ELSE b.to \in live'
    <3>1. PICK a \in arrivals : /\ b.n = a.n /\ b.from = a.from /\ b.to = a.to
                                /\ IF a.from = w THEN ~b.pending ELSE b = a
      BY <1>3
    <3>2. /\ owner = a.to
          /\ IF a.pending THEN ~a.ready /\ a.to \notin live \cup gone ELSE a.to \in live
      BY DEF RecordsStand
    <3>3. CASE a.from = w
      <4>1. a.to \in live'
        BY <1>1, <3>2, <3>3
      <4>. QED  BY <1>1, <3>1, <3>2, <3>3, <4>1
    <3>4. CASE a.from # w
      <4>1. \A c \in arrivals : c = a
        BY DEF TypeOK
      <4>2. live' = live
        BY <1>1, <3>4, <4>1
      <4>. QED  BY <1>1, <3>1, <3>2, <3>4, <4>2
    <3>. QED  BY <3>3, <3>4
  <2>. QED  BY <1>1, <1>5, <2>1, <2>2, <2>3, <2>4 DEF RecordsStand
<1>11. OwnerHolds'
  <2>1. ASSUME arrivals' = {}, owner # NoWindow
        PROVE  owner \in live' /\ Holding(place'[owner], toWin'[owner])
    <3>1. arrivals = {}
      BY <1>4, <2>1
    <3>2. owner \in live /\ Holding(place[owner], toWin[owner])
      BY <2>1, <3>1 DEF OwnerHolds
    <3>. QED  BY <1>7, <1>8, <3>2, KindStands DEF Calm, TypeOK
  <2>. QED  BY <1>1, <2>1 DEF OwnerHolds
<1>12. Numbered'
  <2>1. Starting' => Starting
    <3>1. ASSUME NEW v \in live', place'[v] \in {"probing", "prepared"} PROVE Starting
      <4>1. v \in Window /\ v # w /\ place[v] \in {"probing", "prepared"}
        BY <1>2, <1>7, <3>1
      <4>2. v \in live
        BY <4>1 DEF WindowsStand, Blank
      <4>. QED  BY <4>1, <4>2 DEF Starting
    <3>. QED  BY <3>1 DEF Starting
  <2>2. moves' >= moves
    <3>1. moves \in Nat
      BY DEF TypeOK
    <3>2. moves' = moves
      BY <1>1
    <3>. QED  BY <3>1, <3>2
  <2>3. \A v \in Window, k \in Nat : Traffic(v, k)' => Traffic(v, k)
    BY <1>1 DEF Traffic
  <2>4. \A b \in arrivals' : \E a \in arrivals :
          b.to = a.to /\ b.n = a.n /\ adopting'[b.to].n = adopting[b.to].n
    BY <1>1, <1>3
  <2>. QED  BY <2>1, <2>2, <2>3, <2>4, NumbersKeep
<1>13. TargetsStand'
  BY <1>1, TargetKeeps DEF Grows, TargetsStand
<1>. QED  BY <1>9, <1>10, <1>11, <1>12, <1>13

\* What a step that takes the record a away may do to the windows: a target unwinds,
\* a source has sent its content.
Unwinds ==
    /\ UNCHANGED <<live, gone, stdout, moves>>
    /\ \A v \in Window : SameKind(place[v], place'[v])
    /\ \A v \in Window :
          \/ adopting'[v] = adopting[v] /\ (v \in mounted' <=> v \in mounted)
          \/ adopting[v].phase # "idle" /\ adopting'[v] = NotAdopting /\ v \notin mounted'

LEMMA HandBackPlace ==
    ASSUME PlaceInv, TypeOK', NEW a \in Records, HandBack(a), arrivals' = {}, lost' = {}, Unwinds
    PROVE  PlaceInv'
<1>. USE DEF PlaceInv
<1>0. /\ a \in Arrival /\ a.from \in Window /\ Records' = {}
      /\ \A b \in Records : b = a
  BY DEF TypeOK, Records, Arrival, RecordsStand
<1>1. /\ cut' = NoMark /\ marking' = NoWindow
      /\ UNCHANGED <<live, gone, stdout, moves>>
  BY <1>0, HandBackTyped DEF Unwinds
<1>2. /\ a.from \in live => Giving(place[a.from], toWin[a.from])
      /\ marking = a.from \/ cut # NoMark
  BY DEF RecordsStand
<1>. DEFINE e == [t |-> "failed", replay |-> cut # NoMark]
<1>3. e \in Event /\ e.t = "failed" /\ "failed" \in Outcomes
  BY DEF Event, Outcomes
<1>4. \A v \in Window : toWin'[v] = IF v = a.from /\ v \in live THEN Append(toWin[v], e) ELSE toWin[v]
  <2>1. CASE a.from \in live
    <3>1. toWin' = [toWin EXCEPT ![a.from] = Append(@, e)]
      BY <2>1 DEF HandBack
    <3>2. toWin \in [Window -> Seq(Event)]
      BY DEF TypeOK
    <3>. HIDE DEF e
    <3>. QED  BY <1>0, <2>1, <3>1, <3>2
  <2>2. CASE a.from \notin live
    BY <2>2 DEF HandBack
  <2>. QED  BY <2>1, <2>2
<1>5. owner' = IF a.from \in live THEN a.from ELSE NoWindow
  BY <1>0, <1>2, WindowsAreDistinct DEF HandBack
<1>. HIDE DEF e
<1>6. ASSUME NEW v \in Window, v \in live, v # a.from
      PROVE  /\ Away(place[v], toWin[v]) \/ Leaving(place[v], toWin[v])
             /\ Away(place'[v], toWin'[v]) \/ Leaving(place'[v], toWin'[v])
  <2>1. Away(place[v], toWin[v]) \/ Leaving(place[v], toWin[v])
    BY <1>0, <1>6, OnlyOneHas
  <2>2. SameKind(place[v], place'[v]) /\ Grows(toWin[v], toWin'[v]) /\ toWin[v] \in Seq(Event)
    BY <1>4, <1>6 DEF Unwinds, Grows, TypeOK
  <2>. QED  BY <2>1, <2>2, KindStands
<1>7. ASSUME a.from \in live
      PROVE  /\ Holding(place'[a.from], toWin'[a.from])
             /\ a.from \in mounted' /\ adopting'[a.from].phase = "idle"
             /\ adopting[a.from].phase = "idle"
  <2>1. Stands(a.from) /\ Giving(place[a.from], toWin[a.from]) /\ toWin[a.from] \in Seq(Event)
    BY <1>0, <1>2, <1>7 DEF WindowsStand, TypeOK
  <2>2. a.from \in mounted /\ adopting[a.from].phase = "idle"
    BY <2>1, StandingsDiffer DEF Stands
  <2>3. Settled(toWin'[a.from], "failed")
    BY <1>0, <1>3, <1>4, <1>7, <2>1, OutcomeComes DEF Giving
  <2>4. place'[a.from] \in Moving
    BY <1>0, <2>1 DEF Unwinds, SameKind, Giving, Moving, Resting
  <2>. QED  BY <1>0, <2>2, <2>3, <2>4 DEF Holding, Unwinds
<1>8. WindowsStand'
  <2>1. ASSUME NEW v \in Window, v \in live PROVE Stands(v)'
    <3>1. CASE v = a.from
      BY <1>0, <1>5, <1>7, <2>1, <3>1 DEF Stands
    <3>2. CASE v # a.from
      BY <1>6, <2>1, <3>2 DEF Stands
    <3>. QED  BY <3>1, <3>2
  <2>2. ASSUME NEW v \in Window, v \notin live PROVE Blank(v)'
    <3>1. Blank(v)
      BY <2>2 DEF WindowsStand
    <3>2. place'[v] = "none"
      BY <3>1 DEF Blank, Unwinds, SameKind, Moving, Resting
    <3>. QED  BY <1>4, <2>2, <3>1, <3>2 DEF Blank, Unwinds, NotAdopting
  <2>. QED  BY <1>1, <2>1, <2>2 DEF WindowsStand
<1>9. RecordsStand'
  BY <1>0, <1>1 DEF RecordsStand
<1>10. OwnerHolds'
  BY <1>1, <1>5, <1>7 DEF OwnerHolds
<1>11. Numbered'
  <2>1. ~Starting
    BY StartingHolds
  <2>2. ~Starting'
    <3>1. ASSUME NEW v \in live, place'[v] \in {"probing", "prepared"} PROVE FALSE
      <4>1. v \in Window /\ place'[v] # "none" /\ place'[v] \notin Moving
        BY <3>1 DEF TypeOK, Moving
      <4>2. v = a.from
        BY <1>6, <4>1 DEF Away, Leaving
      <4>3. place[v] \in Moving
        BY <1>2, <4>2 DEF Giving
      <4>4. SameKind(place[v], place'[v])
        BY <4>1 DEF Unwinds
      <4>. QED  BY <4>1, <4>3, <4>4 DEF SameKind, Moving, Resting
    <3>. QED  BY <1>1, <3>1 DEF Starting
  <2>3. ASSUME NEW v \in Window, NEW k \in Nat, Traffic(v, k)' PROVE Traffic(v, k) \/ k = 0
    <3>. DEFINE x == [t |-> "init", for |-> a.from, n |-> HandBackId, since |-> cut]
    <3>1. x \in Request /\ x.n = 0 /\ stdin \in Seq(Request)
      BY <1>0 DEF Request, HandBackId, TypeOK
    <3>2. stdin' = stdin \/ stdin' = Append(stdin, x)
      BY DEF HandBack
    <3>. HIDE DEF x
    <3>a. Range(Append(stdin, x)) = Range(stdin) \cup {x}
      BY <3>1, RangeAppend
    <3>3. \A r \in Range(stdin') : r \in Range(stdin) \/ r = x
      BY <3>2, <3>a
    <3>4. \A y \in Range(toWin'[v]) : y \in Range(toWin[v]) \/ y = e
      <4>1. toWin[v] \in Seq(Event)
        BY DEF TypeOK
      <4>2. Range(Append(toWin[v], e)) = Range(toWin[v]) \cup {e}
        BY <1>3, <4>1, RangeAppend
      <4>. QED  BY <1>4, <4>2
    <3>. QED  BY <1>1, <1>3, <2>3, <3>1, <3>3, <3>4 DEF Traffic
  <2>4. moves \in Nat /\ moves' = moves
    BY <1>1 DEF TypeOK
  <2>. QED  BY <2>2, <2>3, <2>4 DEF Numbered
<1>12. TargetsStand'
  <2>1. ASSUME NEW v \in Window PROVE Target(v)'
    <3>1. Target(v)
      BY DEF TargetsStand
    <3>2. CASE adopting'[v] = NotAdopting
      BY <3>2 DEF Target, NotAdopting, InTurn
    <3>3. CASE adopting'[v] = adopting[v] /\ (v \in mounted' <=> v \in mounted) /\ adopting[v].phase # "idle"
      <4>1. toWin'[v] = toWin[v]
        BY <1>4, <1>7, <3>3
      <4>. QED  BY <3>1, <3>3, <4>1 DEF Target
    <3>4. CASE adopting'[v] = adopting[v] /\ adopting[v].phase = "idle"
      BY <3>1, <3>2, <3>4 DEF Target
    <3>. QED  BY <3>2, <3>3, <3>4 DEF Unwinds
  <2>. QED  BY <2>1 DEF TargetsStand
<1>. QED  BY <1>8, <1>9, <1>10, <1>11, <1>12

\* The step HandBack is part of, by the action it ends.
LEMMA GivenBackPlace ==
    ASSUME PlaceInv, TypeOK',
           \/ \E a \in arrivals : Expire(a)
           \/ \E a \in lost : HandBackLost(a)
           \/ \E w \in Window : BuildFails(w)
    PROVE  PlaceInv'
<1>. USE DEF PlaceInv
<1>0. \A a \in arrivals : arrivals \ {a} = {} /\ lost = {}
  BY DEF TypeOK, RecordsStand
<1>1. \A a \in lost : lost \ {a} = {} /\ arrivals = {}
  BY DEF RecordsStand, Records
<1>2. ASSUME NEW a \in arrivals, Expire(a) PROVE PlaceInv'
  <2>1. HandBack(a) /\ arrivals' = {} /\ lost' = {} /\ a \in Records
    BY <1>0, <1>2 DEF Expire, Records
  <2>2. Unwinds
    BY <1>2 DEF Expire, Unwinds, SameKind
  <2>. QED  BY <2>1, <2>2, HandBackPlace
<1>3. ASSUME NEW a \in lost, HandBackLost(a) PROVE PlaceInv'
  <2>1. HandBack(a) /\ arrivals' = {} /\ lost' = {} /\ a \in Records
    BY <1>1, <1>3 DEF HandBackLost, Records
  <2>2. Unwinds
    BY <1>3 DEF HandBackLost, Unwinds, SameKind
  <2>. QED  BY <2>1, <2>2, HandBackPlace
<1>4. ASSUME NEW w \in Window, BuildFails(w) PROVE PlaceInv'
  <2>1. PICK a \in arrivals :
          /\ place[w] = "captured" /\ place' = [place EXCEPT ![w] = "sent"]
          /\ arrivals' = arrivals \ {a}
          /\ HandBack(a)
          /\ UNCHANGED <<produced, stdout, live, gone, lost, stamp, adopting,
                         expecting, screen, mounted, moves>>
    BY <1>4 DEF BuildFails
  <2>2. arrivals' = {} /\ lost' = {} /\ a \in Records
    BY <1>0, <2>1 DEF Records
  <2>3. \A v \in Window : SameKind(place[v], place'[v])
    BY <2>1 DEF SameKind, Moving, TypeOK
  <2>4. Unwinds
    BY <2>1, <2>3 DEF Unwinds
  <2>. QED  BY <2>1, <2>2, <2>4, HandBackPlace
<1>. QED  BY <1>2, <1>3, <1>4

\* A target unwinds what it mounted, the record being gone.
LEMMA DiscardPlace ==
    ASSUME PlaceInv, TypeOK', NEW w \in Window, adopting[w].phase # "idle", Discard(w),
           arrivals' = arrivals, QueuedFor(w) = {},
           UNCHANGED <<produced, stdin, stdout, live, gone, owner, lost, marking, cut,
                       toWin, place, moves>>
    PROVE  PlaceInv'
<1>. USE DEF PlaceInv
<1>1. /\ adopting'[w] = NotAdopting /\ mounted' = mounted \ {w}
      /\ \A v \in Window : v # w => adopting'[v] = adopting[v]
  BY DEF Discard, TypeOK
<1>2. w \in live /\ (Away(place[w], toWin[w]) \/ Leaving(place[w], toWin[w]))
  BY AdopterIsAway
<1>3. Records' = Records /\ UNCHANGED <<live, gone, owner, arrivals, lost, marking, cut, moves>>
  BY DEF Records
<1>4. WindowsStand'
  <2>1. Stands(w)'
    BY <1>2, AwayStands
  <2>2. ASSUME NEW v \in Window, v \in live, v # w PROVE Stands(v)'
    BY <1>1, <1>3, <2>2 DEF WindowsStand, Stands
  <2>3. ASSUME NEW v \in Window, v \notin live PROVE Blank(v)'
    BY <1>1, <1>2, <2>3 DEF WindowsStand, Blank
  <2>. QED  BY <1>3, <2>1, <2>2, <2>3 DEF WindowsStand
<1>5. RecordsStand' /\ OwnerHolds'
  BY <1>3 DEF RecordsStand, OwnerHolds
<1>6. Numbered'
  <2>1. \A v \in Window, k \in Nat : Traffic(v, k)' => Traffic(v, k)
    BY DEF Traffic
  <2>2. \A a \in arrivals : a.to # w
    BY DEF QueuedFor
  <2>3. \A a \in arrivals' : \E b \in arrivals :
          a.to = b.to /\ a.n = b.n /\ adopting'[a.to].n = adopting[a.to].n
    BY <1>1, <2>2 DEF TypeOK, Arrival
  <2>4. Starting' => Starting
    BY DEF Starting
  <2>5. moves \in Nat /\ moves' = moves
    BY DEF TypeOK
  <2>6. moves' >= moves
    BY <2>5
  <2>. QED  BY <2>1, <2>3, <2>4, <2>6, NumbersKeep
<1>7. TargetsStand'
  <2>1. Target(w)'
    BY <1>1 DEF Target, NotAdopting, InTurn
  <2>2. ASSUME NEW v \in Window, v # w PROVE Target(v)'
    BY <1>1, <2>2 DEF TargetsStand, Target
  <2>. QED  BY <2>1, <2>2 DEF TargetsStand
<1>. QED  BY <1>4, <1>5, <1>6, <1>7

LEMMA AdoptFailedPlace ==
    ASSUME PlaceInv, TypeOK', NEW w \in Window, AdoptFailed(w)
    PROVE  PlaceInv'
<1>. USE DEF PlaceInv
<1>1. /\ adopting[w].phase # "idle" /\ Discard(w) /\ arrivals' = arrivals \ QueuedFor(w)
      /\ UNCHANGED <<produced, stdout, live, gone, lost, place, stamp, expecting, moves>>
  BY DEF AdoptFailed
<1>2. CASE QueuedFor(w) = {} /\ UNCHANGED <<owner, awaiting, marking, cut, stdin, toWin>>
  BY <1>1, <1>2, DiscardPlace
<1>3. ASSUME NEW a \in QueuedFor(w), HandBack(a) PROVE PlaceInv'
  <2>1. /\ adopting'[w] = NotAdopting /\ mounted' = mounted \ {w}
        /\ \A v \in Window : v # w => adopting'[v] = adopting[v]
    BY <1>1 DEF Discard, TypeOK
  <2>2. a \in arrivals /\ arrivals' = {} /\ lost' = {} /\ a \in Records
    BY <1>1, <1>3 DEF QueuedFor, TypeOK, RecordsStand, Records
  <2>3. Unwinds
    BY <1>1, <2>1 DEF Unwinds, SameKind
  <2>. QED  BY <1>3, <2>2, <2>3, HandBackPlace
<1>. QED  BY <1>2, <1>3 DEF AdoptFailed

\* adopt_done: the target holds what it mounted, and the source is to let it go.
LEMMA AdoptDonePlace ==
    ASSUME PlaceInv, TypeOK', NEW w \in Window, AdoptDone(w)
    PROVE  PlaceInv'
<1>. USE DEF PlaceInv
<1>1. /\ w \in live /\ adopting[w].phase = "planned"
      /\ UNCHANGED <<produced, stdin, stdout, live, gone, owner, lost, stamp, expecting, moves>>
  BY DEF AdoptDone
<1>2. CASE QueuedFor(w) = {} /\ Discard(w) /\ UNCHANGED <<arrivals, awaiting, marking, cut, toWin, place>>
  BY <1>1, <1>2, DiscardPlace
<1>3. ASSUME NEW a \in QueuedFor(w),
             arrivals' = arrivals \ {a}, cut' = NoMark, marking' = NoWindow,
             Emit(a.from, [t |-> "departed"]),
             place' = [place EXCEPT ![w] = "held"],
             adopting' = [adopting EXCEPT ![w] = NotAdopting],
             mounted' = mounted
      PROVE  PlaceInv'
  <2>. DEFINE e == [t |-> "departed"]
  <2>1. e \in Event /\ e.t = "departed" /\ "departed" \in Outcomes
    BY DEF Event, Outcomes
  <2>2. Emit(a.from, e)
    BY <1>3
  <2>. HIDE DEF e
  <2>3. /\ a \in arrivals /\ a \in Records /\ a.to = w /\ a.from \in Window /\ a.from # w
        /\ arrivals' = {} /\ lost = {} /\ Records' = {} /\ owner = w
        /\ \A b \in Records : b = a
    BY SMTT(30), <1>1, <1>3 DEF QueuedFor, TypeOK, RecordsStand, Records, Arrival
  <2>4. /\ \A v \in Window : v # a.from => toWin'[v] = toWin[v]
        /\ a.from \notin live => toWin'[a.from] = toWin[a.from]
        /\ a.from \in live => toWin'[a.from] = Append(toWin[a.from], e)
    BY <2>2, <2>3 DEF Emit, TypeOK
  <2>5. /\ place'[w] = "held" /\ adopting'[w] = NotAdopting
        /\ \A v \in Window : v # w => place'[v] = place[v] /\ adopting'[v] = adopting[v]
    BY <1>3 DEF TypeOK
  <2>6. w \in mounted /\ Unsettled(toWin[w])
    BY <1>1 DEF TargetsStand, Target
  <2>7. Holding(place'[w], toWin'[w])
    BY <2>3, <2>4, <2>5, <2>6 DEF Holding, Resting
  <2>8. ASSUME a.from \in live
        PROVE  Leaving(place'[a.from], toWin'[a.from]) /\ adopting[a.from].phase = "idle"
    <3>1. Giving(place[a.from], toWin[a.from]) /\ Stands(a.from) /\ toWin[a.from] \in Seq(Event)
      BY <2>3, <2>8 DEF RecordsStand, WindowsStand, TypeOK
    <3>2. Settled(toWin'[a.from], "departed")
      BY <2>1, <2>4, <2>8, <3>1, OutcomeComes DEF Giving
    <3>3. adopting[a.from].phase = "idle"
      BY <3>1, StandingsDiffer DEF Stands
    <3>. QED  BY <2>3, <2>5, <3>1, <3>2, <3>3 DEF Leaving, Giving
  <2>9. ASSUME NEW v \in Window, v \in live, v # w, v # a.from
        PROVE  Away(place[v], toWin[v]) \/ Leaving(place[v], toWin[v])
    BY <2>3, <2>9, OnlyOneHas
  <2>10. WindowsStand'
    <3>1. Stands(w)'
      BY <1>1, <1>3, <2>3, <2>5, <2>6, <2>7 DEF Stands, NotAdopting
    <3>2. ASSUME NEW v \in Window, v \in live, v # w PROVE Stands(v)'
      <4>1. CASE v = a.from
        BY <2>8, <3>2, <4>1 DEF Stands
      <4>2. CASE v # a.from
        BY <2>4, <2>5, <2>9, <3>2, <4>2, AwayStands
      <4>. QED  BY <4>1, <4>2
    <3>3. ASSUME NEW v \in Window, v \notin live PROVE Blank(v)'
      <4>1. Blank(v) /\ v # w /\ toWin'[v] = toWin[v]
        BY <1>1, <2>4, <3>3 DEF WindowsStand
      <4>. QED  BY <1>3, <2>5, <4>1 DEF Blank
    <3>. QED  BY <1>1, <3>1, <3>2, <3>3 DEF WindowsStand
  <2>11. RecordsStand'
    BY <1>1, <1>3, <2>3 DEF RecordsStand
  <2>12. OwnerHolds'
    BY <1>1, <2>3, <2>7 DEF OwnerHolds
  <2>13. Numbered'
    <3>1. ~Starting
      BY <2>3, StartingHolds
    <3>2. ~Starting'
      BY <1>1, <2>5, <3>1 DEF Starting, TypeOK
    <3>3. ASSUME NEW v \in Window, NEW k \in Nat, Traffic(v, k)' PROVE Traffic(v, k)
      <4>1. \A y \in Range(toWin'[v]) : y \in Range(toWin[v]) \/ y = e
        <5>1. toWin[v] \in Seq(Event)
          BY DEF TypeOK
        <5>2. Range(Append(toWin[v], e)) = Range(toWin[v]) \cup {e}
          BY <2>1, <5>1, RangeAppend
        <5>3. toWin'[v] = toWin[v] \/ toWin'[v] = Append(toWin[v], e)
          BY <2>3, <2>4
        <5>. QED  BY <5>2, <5>3
      <4>. QED  BY <1>1, <2>1, <3>3, <4>1 DEF Traffic
    <3>4. moves \in Nat /\ moves' = moves
      BY <1>1 DEF TypeOK
    <3>. QED  BY <2>3, <3>2, <3>3, <3>4 DEF Numbered
  <2>14. TargetsStand'
    <3>1. Target(w)'
      BY <2>5 DEF Target, NotAdopting, InTurn
    <3>2. ASSUME NEW v \in Window, v # w PROVE Target(v)'
      <4>1. Target(v)
        BY DEF TargetsStand
      <4>2. CASE v = a.from /\ v \in live
        BY <2>5, <2>8, <3>2, <4>1, <4>2 DEF Target, InTurn
      <4>3. CASE ~(v = a.from /\ v \in live)
        BY <1>3, <2>4, <2>5, <3>2, <4>1, <4>3 DEF Target
      <4>. QED  BY <4>2, <4>3
    <3>. QED  BY <3>1, <3>2 DEF TargetsStand
  <2>. QED  BY <2>10, <2>11, <2>12, <2>13, <2>14
<1>4. \/ QueuedFor(w) = {} /\ Discard(w) /\ UNCHANGED <<arrivals, awaiting, marking, cut, toWin, place>>
      \/ \E a \in QueuedFor(w) :
            /\ arrivals' = arrivals \ {a}
            /\ cut' = NoMark
            /\ marking' = NoWindow
            /\ Emit(a.from, [t |-> "departed"])
            /\ place' = [place EXCEPT ![w] = "held"]
            /\ adopting' = [adopting EXCEPT ![w] = NotAdopting]
            /\ mounted' = mounted
  BY DEF AdoptDone
<1>. QED  BY <1>2, <1>3, <1>4

\* drop_window: a window goes away with what it holds.
LEMMA DestroyedPlace ==
    ASSUME PlaceInv, TypeOK', NEW w \in Window, Destroyed(w)
    PROVE  PlaceInv'
<1>. USE DEF PlaceInv
<1>. DEFINE mine == {a \in arrivals : a.to = w}
<1>1. /\ w \in live /\ live' = live \ {w} /\ gone' = gone \cup {w}
      /\ arrivals' = arrivals \ mine /\ lost' = lost \cup mine
      /\ owner' = IF mine # {} \/ owner = w THEN NoWindow ELSE owner
      /\ mounted' = mounted \ {w}
      /\ UNCHANGED <<produced, stdin, stdout, marking, cut, moves>>
  BY DEF Destroyed
<1>2. /\ toWin'[w] = <<>> /\ place'[w] = "none" /\ adopting'[w] = NotAdopting
      /\ \A v \in Window : v # w => /\ toWin'[v] = toWin[v] /\ place'[v] = place[v]
                                    /\ adopting'[v] = adopting[v]
  BY DEF Destroyed, TypeOK
<1>3. /\ Records' = Records
      /\ \A a \in mine : arrivals = {a} /\ a.to = w /\ lost = {}
      /\ \A a \in arrivals : a.to = w => a \in mine
  BY <1>1 DEF Records, TypeOK, RecordsStand
<1>4. mine = {} => arrivals' = arrivals /\ lost' = lost
  BY <1>1
<1>5. mine # {} => arrivals' = {} /\ owner' = NoWindow
  BY <1>1, <1>3
<1>. HIDE DEF mine
<1>6. \A v \in Window : v # w => (v \in live' <=> v \in live) /\ (v \in gone' <=> v \in gone)
  BY <1>1
<1>7. w \notin live' /\ w \in gone' /\ NoWindow \notin Window
  BY <1>1, WindowsAreDistinct
<1>8. WindowsStand'
  <2>1. Blank(w)'
    BY <1>1, <1>2 DEF Blank
  <2>2. ASSUME NEW v \in Window, v # w, v \in live PROVE Stands(v)'
    <3>1. Stands(v)
      BY <2>2 DEF WindowsStand
    <3>2. Records = {} /\ owner = v => owner' = v
      BY <1>1, <1>3, <2>2 DEF Records
    <3>. QED  BY <1>1, <1>2, <1>3, <2>2, <3>1, <3>2 DEF Stands
  <2>3. ASSUME NEW v \in Window, v # w, v \notin live PROVE Blank(v)'
    BY <1>1, <1>2, <2>3 DEF WindowsStand, Blank
  <2>4. live' \cap gone' = {}
    BY <1>1 DEF WindowsStand
  <2>. QED  BY <1>6, <1>7, <2>1, <2>2, <2>3, <2>4 DEF WindowsStand
<1>9. RecordsStand'
  <2>1. \A a, b \in Records' : a = b
    BY <1>3 DEF RecordsStand
  <2>2. arrivals' = {} \/ lost' = {}
    BY <1>4, <1>5 DEF RecordsStand
  <2>3. ASSUME NEW a \in Records
        PROVE  /\ a.n > 0 /\ a.n <= moves' /\ a.from # a.to
               /\ a.from \in live' \cup gone'
               /\ a.from \in live' => Giving(place'[a.from], toWin'[a.from])
               /\ marking' = a.from \/ cut' # NoMark
    <3>1. /\ a.n > 0 /\ a.n <= moves /\ a.from # a.to
          /\ a.from \in live \cup gone
          /\ a.from \in live => Giving(place[a.from], toWin[a.from])
          /\ marking = a.from \/ cut # NoMark
      BY DEF RecordsStand
    <3>2. a.from \in Window
      BY DEF Records, TypeOK, Arrival
    <3>. QED  BY <1>1, <1>2, <1>6, <1>7, <3>1, <3>2
  <2>4. ASSUME NEW a \in arrivals'
        PROVE  /\ owner' = a.to
               /\ IF a.pending THEN ~a.ready /\ a.to \notin live' \cup gone' ELSE a.to \in live'
    <3>1. mine = {} /\ a \in arrivals /\ a.to # w /\ a.to \in Window
      BY <1>3, <1>4, <1>5 DEF TypeOK, Arrival
    <3>2. /\ owner = a.to
          /\ IF a.pending THEN ~a.ready /\ a.to \notin live \cup gone ELSE a.to \in live
      BY <3>1 DEF RecordsStand
    <3>. QED  BY <1>1, <1>6, <3>1, <3>2
  <2>5. lost' # {} => owner' = NoWindow
    BY <1>1, <1>4, <1>5 DEF RecordsStand
  <2>6. Records' = {} => marking' = NoWindow /\ cut' = NoMark
    BY <1>1, <1>3 DEF RecordsStand
  <2>. QED  BY <1>3, <2>1, <2>2, <2>3, <2>4, <2>5, <2>6 DEF RecordsStand
<1>10. OwnerHolds'
  <2>1. ASSUME arrivals' = {}, owner' # NoWindow
        PROVE  owner' \in live' /\ Holding(place'[owner'], toWin'[owner'])
    <3>1. mine = {} /\ owner # w /\ owner' = owner
      BY <1>1, <2>1
    <3>2. owner \in live /\ Holding(place[owner], toWin[owner]) /\ owner \in Window
      BY <1>4, <2>1, <3>1 DEF OwnerHolds, TypeOK
    <3>. QED  BY <1>2, <1>6, <3>1, <3>2
  <2>. QED  BY <2>1 DEF OwnerHolds
<1>11. Numbered'
  <2>1. Starting' => Starting
    BY <1>1, <1>2 DEF Starting, TypeOK
  <2>2. moves \in Nat /\ moves' = moves
    BY <1>1 DEF TypeOK
  <2>3. moves' >= moves
    BY <2>2
  <2>4. ASSUME NEW v \in Window, NEW k \in Nat, Traffic(v, k)' PROVE Traffic(v, k)
    <3>1. \A y \in Range(toWin'[v]) : y \in Range(toWin[v])
      BY <1>2 DEF Range
    <3>. QED  BY <1>1, <2>4, <3>1 DEF Traffic
  <2>5. ASSUME NEW a \in arrivals'
        PROVE  a \in arrivals /\ adopting'[a.to].n = adopting[a.to].n
    <3>1. mine = {} /\ a \in arrivals /\ a.to # w /\ a.to \in Window
      BY <1>3, <1>4, <1>5 DEF TypeOK, Arrival
    <3>. QED  BY <1>2, <3>1
  <2>. QED  BY <2>1, <2>3, <2>4, <2>5, NumbersKeep
<1>12. TargetsStand'
  <2>1. Target(w)'
    BY <1>2 DEF Target, NotAdopting, InTurn
  <2>2. ASSUME NEW v \in Window, v # w PROVE Target(v)'
    BY <1>1, <1>2, <2>2 DEF TargetsStand, Target
  <2>. QED  BY <2>1, <2>2 DEF TargetsStand
<1>. QED  BY <1>8, <1>9, <1>10, <1>11, <1>12

-----------------------------------------------------------------------------
(* The theorem *)

LEMMA InitPlace == Init => PlaceInv
<1>. SUFFICES ASSUME Init PROVE PlaceInv
  OBVIOUS
<1>1. TypeOK
  BY InitTyped
<1>. DEFINE none == <<>>
<1>2. /\ \A w \in Window : toWin[w] = none /\ adopting[w] = NotAdopting
      /\ \A w \in Window : place[w] = IF w = Home THEN "held" ELSE "none"
      /\ stdin = none /\ stdout = none
      /\ Home \in live /\ owner = Home /\ mounted = {Home} /\ arrivals = {} /\ lost = {}
      /\ gone = {} /\ moves = 0 /\ marking = NoWindow /\ cut = NoMark
      /\ Home \in Window /\ live \subseteq Window
  BY WindowsAreDistinct DEF Init
<1>3. Unsettled(none) /\ (\A ad : InTurn(ad, none)) /\ Range(none) = {}
  BY EmptyQueue DEF Range
<1>4. \A w \in Window, k \in Nat : ~Traffic(w, k)
  BY <1>2, <1>3 DEF Traffic
<1>5. NotAdopting.phase = "idle"
  BY DEF NotAdopting
<1>6. Records = {}
  BY <1>2 DEF Records
<1>. HIDE DEF none
<1>7. Holding(place[Home], toWin[Home])
  BY <1>2, <1>3 DEF Holding, Resting
<1>8. \A w \in Window : w # Home => Away(place[w], toWin[w])
  BY <1>2, <1>3 DEF Away
<1>9. WindowsStand
  <2>1. \A w \in live : Stands(w)
    BY <1>2, <1>5, <1>6, <1>7, <1>8 DEF Stands
  <2>2. \A w \in Window \ live : Blank(w)
    BY <1>2 DEF Blank, none
  <2>. QED  BY <1>2, <2>1, <2>2 DEF WindowsStand
<1>10. RecordsStand /\ OwnerHolds
  BY <1>2, <1>6, <1>7 DEF RecordsStand, OwnerHolds
<1>11. Numbered
  <2>1. ~Starting
    BY <1>2 DEF Starting
  <2>. QED  BY <1>2, <1>4, <2>1 DEF Numbered
<1>12. TargetsStand
  BY <1>2, <1>3, <1>5 DEF TargetsStand, Target
<1>. QED  BY <1>1, <1>9, <1>10, <1>11, <1>12 DEF PlaceInv

LEMMA NextPlace == PlaceInv /\ [Next]_vars => PlaceInv'
<1>. SUFFICES ASSUME PlaceInv, [Next]_vars PROVE PlaceInv'
  OBVIOUS
<1>0. TypeOK'
  BY NextTyped DEF PlaceInv
<1>1. CASE HostStep
  BY <1>0, <1>1, ServePlace, DispatchPlace, GivenBackPlace DEF HostStep
<1>2. CASE WindowStep
  BY <1>0, <1>2, EventsPlace, ReplayPlace, OnFailedPlace, OnDepartedPlace DEF WindowStep
<1>3. CASE SourceStep
  BY <1>0, <1>3, SendContentPlace, GivenBackPlace DEF SourceStep
<1>4. CASE TargetStep
  BY <1>0, <1>4, AdoptReadyPlace, PlanWithoutReplayPlace, AdoptDonePlace, AdoptFailedPlace
     DEF TargetStep
<1>5. CASE Watchdog
  BY <1>0, <1>5, GivenBackPlace DEF Watchdog
<1>6. CASE Optional
  BY <1>0, <1>6, ShellPrintsPlace, SweepPlace, SourcePlace, DestroyedPlace, BeginTransferPlace
     DEF Optional
<1>7. CASE UNCHANGED vars
  <2>1. Piped /\ UNCHANGED <<stdin, stdout, toWin, marking, cut>>
    BY <1>7 DEF vars, hostVars, winVars, Piped
  <2>2. \A w \in Window, k \in Nat : Traffic(w, k)' => Traffic(w, k)
    BY <2>1 DEF Traffic
  <2>3. \A w \in live : Grows(toWin[w], toWin'[w])
    BY <2>1 DEF Grows
  <2>. QED  BY <1>0, <2>1, <2>2, <2>3, MarksStay, PipedKeeps
<1>. QED  BY <1>1, <1>2, <1>3, <1>4, <1>5, <1>6, <1>7 DEF Next

\* Every window's part and the host's books agree, through windows that go away,
\* refusals and every deadline: at most one record is in flight, its target owns the
\* PTY, its source, if still open, keeps the Workspace mounted and hears of exactly
\* one outcome; without a record the owner holds the Workspace or gets it back; and a
\* replay is only ever of a move that began (begin_arrival, adopt_done,
\* hand_back_arrival and drop_window against handOff, handleDeparted and
\* handleArrivalFailed).
THEOREM PartsAgree == Spec => []PlaceInv
BY InitPlace, NextPlace, PTL DEF Spec

\* A Workspace is never nowhere, whichever deadlines fire: as long as an open window
\* owns the shell some open window has the Workspace mounted, unless it is in flight
\* from a window that is gone (handOff, adopt_done, handleDeparted).
THEOREM AlwaysSomewhere == Spec => []NeverNowhere
<1>1. ASSUME PlaceInv PROVE NeverNowhere
  <2>. SUFFICES ASSUME owner \in live
                PROVE  \/ \E w \in live : place[w] # "none" /\ w \in mounted
                       \/ \E a \in arrivals : a.from \in gone
    BY DEF NeverNowhere
  <2>1. \A w \in live : Stands(w)
    BY <1>1 DEF PlaceInv, WindowsStand, TypeOK
  <2>2. owner # NoWindow
    BY <1>1, WindowsAreDistinct DEF PlaceInv, TypeOK
  <2>3. "none" \notin Moving \cup Resting
    BY DEF Moving, Resting
  <2>4. CASE arrivals = {}
    <3>1. Holding(place[owner], toWin[owner])
      BY <1>1, <2>2, <2>4 DEF PlaceInv, OwnerHolds
    <3>2. owner \in mounted
      BY <2>1, <3>1, StandingsDiffer DEF Stands
    <3>. QED  BY <2>3, <3>1, <3>2 DEF Holding
  <2>5. ASSUME NEW a \in arrivals, a.from \notin gone
        PROVE  \E w \in live : place[w] # "none" /\ w \in mounted
    <3>1. a.from \in live /\ Giving(place[a.from], toWin[a.from])
      BY <1>1, <2>5 DEF PlaceInv, RecordsStand, Records
    <3>2. a.from \in mounted
      BY <2>1, <3>1, StandingsDiffer DEF Stands
    <3>. QED  BY <2>3, <3>1, <3>2 DEF Giving
  <2>. QED  BY <2>4, <2>5
<1>. QED  BY <1>1, PartsAgree, PTL

-----------------------------------------------------------------------------
(* What is left when everything settled *)

\* A terminal is the one of a window that has a part in the Workspace or adopts it.
Parked == \A w \in mounted : place[w] # "none" \/ adopting[w].phase = "planned"

\* A replay is asked for or on its way.
Coming ==
    \/ \E r \in Range(stdin) : r.t = "init"
    \/ \E l \in Range(stdout) : l.t = "replay"

\* A suppression is of a move in flight, or ends with a replay that is coming.
Awaited == awaiting => Records # {} \/ Coming

RestInv == PlaceInv /\ Parked /\ Awaited

\* A hand-back suppresses only what its own replay releases.
LEMMA HandBackAwaited ==
    ASSUME PlaceInv, NEW a \in Records, HandBack(a)
    PROVE  Awaited'
<1>1. marking = a.from \/ cut # NoMark
  BY DEF PlaceInv, RecordsStand
<1>2. a.from # NoWindow /\ a.from \in Window
  BY WindowsAreDistinct DEF PlaceInv, TypeOK, Records, Arrival
<1>. DEFINE r == [t |-> "init", for |-> a.from, n |-> HandBackId, since |-> cut]
<1>3. CASE a.from \in live /\ cut # NoMark
  <2>1. stdin' = Append(stdin, r) /\ r.t = "init"
    BY <1>3 DEF HandBack
  <2>2. stdin \in Seq(Request) /\ r \in Request
    BY <1>2 DEF PlaceInv, TypeOK, Request, HandBackId
  <2>3. r \in Range(stdin')
    BY <2>1, <2>2, RangeAppend
  <2>. QED  BY <2>1, <2>3 DEF Awaited, Coming
<1>4. CASE ~(a.from \in live /\ cut # NoMark)
  <2>1. awaiting' = FALSE
    BY <1>1, <1>2, <1>4 DEF HandBack
  <2>. QED  BY <2>1 DEF Awaited
<1>. QED  BY <1>3, <1>4

LEMMA RangeSplit ==
    ASSUME NEW S, NEW q \in Seq(S), q # <<>>, NEW e \in Range(q), e # Head(q)
    PROVE  e \in Range(Tail(q))
<1>. DEFINE r == Tail(q)
<1>1. /\ Len(q) \in Nat /\ Len(q) > 0 /\ DOMAIN q = 1..Len(q) /\ DOMAIN r = 1..Len(q) - 1
      /\ \A i \in 1..Len(q) - 1 : r[i] = q[i + 1]
      /\ q[1] = Head(q)
  OBVIOUS
<1>. HIDE DEF r
<1>2. PICK i \in DOMAIN q : e = q[i]
  BY DEF Range
<1>3. i # 1
  BY <1>1, <1>2
<1>4. i - 1 \in DOMAIN r /\ r[i - 1] = q[i]
  <2>1. i - 1 \in 1..Len(q) - 1 /\ (i - 1) + 1 = i
    BY <1>1, <1>2, <1>3
  <2>. QED  BY <1>1, <2>1
<1>5. e \in Range(r)
  BY <1>2, <1>4 DEF Range
<1>. QED  BY <1>5 DEF r

\* What is asked for or on its way stays so while no replay is dispatched.
LEMMA ComingStays ==
    ASSUME TypeOK, Coming,
           stdin' = stdin \/ \E r \in Request : stdin' = Append(stdin, r),
           \/ stdout' = stdout
           \/ \E l \in Line : stdout' = Append(stdout, l)
           \/ stdout # <<>> /\ TakeLine /\ Head(stdout).t # "replay"
    PROVE  Coming'
<1>1. stdin \in Seq(Request) /\ stdout \in Seq(Line)
  BY DEF TypeOK
<1>2. Range(stdin) \subseteq Range(stdin')
  <2>1. ASSUME NEW r \in Request, stdin' = Append(stdin, r) PROVE Range(stdin) \subseteq Range(stdin')
    <3>1. Range(Append(stdin, r)) = Range(stdin) \cup {r}
      BY <1>1, RangeAppend
    <3>. QED  BY <2>1, <3>1
  <2>. QED  BY <2>1
<1>3. ASSUME NEW l \in Range(stdout), l.t = "replay" PROVE l \in Range(stdout')
  <2>1. CASE stdout # <<>> /\ TakeLine /\ Head(stdout).t # "replay"
    BY <1>1, <1>3, <2>1, RangeSplit DEF TakeLine
  <2>2. ASSUME NEW k \in Line, stdout' = Append(stdout, k) PROVE l \in Range(stdout')
    <3>1. Range(Append(stdout, k)) = Range(stdout) \cup {k}
      BY <1>1, RangeAppend
    <3>. QED  BY <1>3, <2>2, <3>1
  <2>. QED  BY <1>3, <2>1, <2>2
<1>. QED  BY <1>2, <1>3 DEF Coming

LEMMA ServeComing ==
    ASSUME TypeOK, Coming, Serve
    PROVE  Coming'
<1>. DEFINE r == Head(stdin)
<1>1. stdin \in Seq(Request) /\ stdin # <<>> /\ r \in Request /\ stdout \in Seq(Line)
  BY DEF TypeOK, Serve
<1>2. Answer(r) \in Line
  BY <1>1, AnswerTyped DEF TypeOK
<1>3. Range(stdout') = Range(stdout) \cup {Answer(r)} /\ stdin' = Tail(stdin)
  BY <1>1, <1>2, RangeAppend DEF Serve
<1>4. r.t = "init" => Answer(r).t = "replay"
  BY DEF Answer
<1>. HIDE DEF r
<1>5. \A x \in Range(stdin) : x = r \/ x \in Range(stdin')
  BY <1>1, <1>3, RangeSplit DEF r
<1>. QED  BY <1>3, <1>4, <1>5 DEF Coming

LEMMA AwaitedStays ==
    ASSUME Awaited, awaiting' => awaiting, Records # {} => Records' # {}, Coming => Coming'
    PROVE  Awaited'
BY DEF Awaited

LEMMA HostRests ==
    ASSUME RestInv, TypeOK', HostStep
    PROVE  Parked' /\ Awaited'
<1>. USE DEF RestInv, PlaceInv
<1>1. CASE Serve
  <2>1. UNCHANGED <<mounted, place, adopting, awaiting, arrivals, lost>>
    BY <1>1 DEF Serve, hostVars, winVars
  <2>. QED  BY <1>1, <2>1, ServeComing, AwaitedStays DEF Parked, Records
<1>2. CASE DispatchData \/ DispatchCwds
  <2>1. UNCHANGED <<stdin, mounted, place, adopting, awaiting, arrivals, lost>>
    BY <1>2 DEF DispatchData, DispatchCwds, hostVars
  <2>2. stdout # <<>> /\ TakeLine /\ Head(stdout).t # "replay"
    BY <1>2 DEF DispatchData, DispatchCwds, HasLine
  <2>. QED  BY <2>1, <2>2, ComingStays, AwaitedStays DEF Parked, Records
<1>3. CASE DispatchMarked
  <2>1. UNCHANGED <<stdin, mounted, place, adopting, arrivals, lost>>
    BY <1>3 DEF DispatchMarked
  <2>2. stdout # <<>> /\ TakeLine /\ Head(stdout).t # "replay"
    BY <1>3 DEF DispatchMarked, HasLine
  <2>3. CASE marking = NoWindow
    <3>1. awaiting' = awaiting
      BY <1>3, <2>3 DEF DispatchMarked
    <3>. QED  BY <2>1, <2>2, <3>1, ComingStays, AwaitedStays DEF Parked, Records
  <2>4. CASE marking # NoWindow
    <3>1. Records' # {}
      BY <2>1, <2>4 DEF RecordsStand, Records
    <3>. QED  BY <2>1, <3>1 DEF Parked, Awaited
  <2>. QED  BY <2>3, <2>4
<1>4. CASE DispatchReplay
  BY <1>4 DEF DispatchReplay, Parked, Awaited
<1>5. ASSUME NEW a \in lost, HandBackLost(a) PROVE Parked' /\ Awaited'
  <2>1. UNCHANGED <<mounted, place, adopting>> /\ HandBack(a)
    BY <1>5 DEF HandBackLost
  <2>. QED  BY <2>1, HandBackAwaited DEF Parked, Records
<1>. QED  BY <1>1, <1>2, <1>3, <1>4, <1>5 DEF HostStep

LEMMA EventsRest ==
    ASSUME RestInv, TypeOK', WindowStep
    PROVE  Parked' /\ Awaited'
<1>. USE DEF RestInv, PlaceInv
<1>1. PICK w \in Window : \/ OnData(w) \/ OnCwds(w) \/ OnMarked(w) \/ OnReplay(w)
                          \/ OnFailed(w) \/ OnDeparted(w)
  BY DEF WindowStep
<1>2. UNCHANGED <<stdin, stdout, awaiting, arrivals, lost>>
  BY <1>1 DEF OnData, OnCwds, OnMarked, OnReplay, OnFailed, OnDeparted, hostVars
<1>3. Awaited'
  BY <1>2, AwaitedStays DEF Records, Coming
<1>4. Parked'
  <2>0. place \in [Window -> Place] /\ adopting \in [Window -> Adopting] /\ mounted \subseteq Window
    BY DEF TypeOK
  <2>1. CASE OnData(w)
    BY <2>1 DEF OnData, Parked
  <2>2. CASE OnCwds(w)
    BY <2>0, <2>2 DEF OnCwds, Parked
  <2>3. CASE OnMarked(w)
    BY <2>0, <2>3 DEF OnMarked, Parked
  <2>4. CASE OnReplay(w)
    <3>1. place' = place
      BY <2>4 DEF OnReplay
    <3>2. \/ UNCHANGED <<mounted, adopting>>
          \/ mounted' = mounted \cup {w} /\ adopting' = [adopting EXCEPT ![w].phase = "planned"]
      BY <2>4 DEF OnReplay
    <3>3. CASE UNCHANGED <<mounted, adopting>>
      BY <3>1, <3>3 DEF Parked
    <3>4. CASE mounted' = mounted \cup {w} /\ adopting' = [adopting EXCEPT ![w].phase = "planned"]
      <4>1. adopting'[w].phase = "planned" /\ \A v \in Window : v # w => adopting'[v] = adopting[v]
        BY <2>0, <3>4 DEF Adopting
      <4>. QED  BY <2>0, <3>1, <3>4, <4>1 DEF Parked
    <3>. QED  BY <3>2, <3>3, <3>4
  <2>5. CASE OnFailed(w)
    BY <2>0, <2>5 DEF OnFailed, Parked
  <2>6. CASE OnDeparted(w)
    BY <2>0, <2>6 DEF OnDeparted, Parked
  <2>. QED  BY <1>1, <2>1, <2>2, <2>3, <2>4, <2>5, <2>6
<1>. QED  BY <1>3, <1>4

LEMMA SourceRests ==
    ASSUME RestInv, TypeOK', SourceStep
    PROVE  Parked' /\ Awaited'
<1>. USE DEF RestInv, PlaceInv
<1>1. PICK w \in Window : SendContent(w) \/ BuildFails(w)
  BY DEF SourceStep
<1>2. place \in [Window -> Place] /\ mounted \subseteq Window
  BY DEF TypeOK
<1>3. place' = [place EXCEPT ![w] = "sent"] /\ UNCHANGED <<mounted, adopting>>
  BY <1>1 DEF SendContent, BuildFails
<1>4. Parked'
  BY <1>2, <1>3 DEF Parked
<1>5. CASE SendContent(w)
  <2>1. UNCHANGED <<stdin, stdout, awaiting, lost>>
    BY <1>5 DEF SendContent
  <2>2. arrivals # {} => arrivals' # {}
    BY <1>5 DEF SendContent
  <2>3. Awaited'
    BY <2>1, <2>2, AwaitedStays DEF Records, Coming
  <2>. QED  BY <1>4, <2>3
<1>6. CASE BuildFails(w)
  <2>1. PICK a \in arrivals : HandBack(a)
    BY <1>6 DEF BuildFails
  <2>. QED  BY <1>4, <2>1, HandBackAwaited DEF Records
<1>. QED  BY <1>1, <1>5, <1>6

LEMMA TargetRests ==
    ASSUME RestInv, TypeOK', TargetStep
    PROVE  Parked' /\ Awaited'
<1>. USE DEF RestInv, PlaceInv
<1>1. PICK w \in Window : AdoptReady(w) \/ PlanWithoutReplay(w) \/ AdoptDone(w) \/ AdoptFailed(w)
  BY DEF TargetStep
<1>2. /\ place \in [Window -> Place] /\ mounted \subseteq Window /\ awaiting \in BOOLEAN
      /\ adopting \in [Window -> Adopting] /\ \A v \in Window : adopting[v].phase \in {"idle", "collecting", "planned"}
  BY DEF TypeOK, Adopting
<1>3. Discard(w) /\ place' = place => Parked'
  BY <1>2 DEF Discard, Parked
<1>4. CASE AdoptReady(w)
  <2>1. PICK a \in arrivals :
          /\ adopting[w].phase = "idle"
          /\ adopting' = [adopting EXCEPT ![w] = [phase |-> "collecting", n |-> a.n, part |-> a.part]]
          /\ stdin' = Append(stdin, [t |-> "init", for |-> w, n |-> a.n, since |-> a.mark])
          /\ UNCHANGED <<stdout, hostVars, place, mounted>>
    BY <1>4 DEF AdoptReady
  <2>2. [t |-> "init", for |-> w, n |-> a.n, since |-> a.mark] \in Request
    BY DEF Request, TypeOK, Arrival
  <2>3. Coming => Coming'
    BY <2>1, <2>2, ComingStays
  <2>4. Awaited'
    BY <2>1, <2>3, AwaitedStays DEF hostVars, Records
  <2>5. Parked'
    BY <1>2, <2>1 DEF Parked
  <2>. QED  BY <2>4, <2>5
<1>5. CASE PlanWithoutReplay(w)
  <2>1. /\ mounted' = mounted \cup {w} /\ adopting' = [adopting EXCEPT ![w].phase = "planned"]
        /\ UNCHANGED <<stdin, stdout, hostVars, place>>
    BY <1>5 DEF PlanWithoutReplay
  <2>2. adopting'[w].phase = "planned" /\ \A v \in Window : v # w => adopting'[v] = adopting[v]
    BY <1>2, <2>1 DEF Adopting
  <2>3. Parked'
    BY <1>2, <2>1, <2>2 DEF Parked
  <2>4. Awaited'
    BY <2>1, AwaitedStays DEF hostVars, Records, Coming
  <2>. QED  BY <2>3, <2>4
<1>6. CASE AdoptDone(w)
  <2>1. UNCHANGED <<stdin, stdout, lost>>
    BY <1>6 DEF AdoptDone
  <2>2. CASE Discard(w) /\ UNCHANGED <<arrivals, awaiting, marking, cut, toWin, place>>
    <3>1. Awaited'
      BY <2>1, <2>2, AwaitedStays DEF Records, Coming
    <3>. QED  BY <1>3, <2>2, <3>1
  <2>3. CASE /\ awaiting' = FALSE /\ place' = [place EXCEPT ![w] = "held"]
             /\ adopting' = [adopting EXCEPT ![w] = NotAdopting] /\ mounted' = mounted
    BY <1>2, <2>3 DEF Parked, Awaited
  <2>. QED  BY <1>6, <2>2, <2>3 DEF AdoptDone
<1>7. CASE AdoptFailed(w)
  <2>1. Discard(w) /\ arrivals' = arrivals \ QueuedFor(w) /\ UNCHANGED <<stdout, lost, place>>
    BY <1>7 DEF AdoptFailed
  <2>2. CASE QueuedFor(w) = {} /\ UNCHANGED <<owner, awaiting, marking, cut, stdin, toWin>>
    <3>1. Awaited'
      BY <2>1, <2>2, AwaitedStays DEF Records, Coming
    <3>. QED  BY <1>3, <2>1, <3>1
  <2>3. ASSUME NEW a \in QueuedFor(w), HandBack(a) PROVE Parked' /\ Awaited'
    <3>1. a \in Records
      BY DEF QueuedFor, Records
    <3>. QED  BY <1>3, <2>1, <2>3, <3>1, HandBackAwaited
  <2>. QED  BY <1>7, <2>2, <2>3 DEF AdoptFailed
<1>. QED  BY <1>1, <1>4, <1>5, <1>6, <1>7

LEMMA OptionalRests ==
    ASSUME RestInv, TypeOK', Optional
    PROVE  Parked' /\ Awaited'
<1>. USE DEF RestInv, PlaceInv
<1>1. place \in [Window -> Place] /\ mounted \subseteq Window /\ adopting \in [Window -> Adopting]
  BY DEF TypeOK
<1>2. CASE ShellPrints
  <2>1. [t |-> "data", byte |-> produced + 1] \in Line
    BY DEF TypeOK, Line
  <2>2. Coming => Coming'
    BY <1>2, <2>1, ComingStays DEF ShellPrints
  <2>3. UNCHANGED <<mounted, place, adopting, awaiting, arrivals, lost>>
    BY <1>2 DEF ShellPrints, hostVars, winVars
  <2>. QED  BY <2>2, <2>3, AwaitedStays DEF Parked, Records
<1>3. CASE Sweep
  BY <1>3 DEF Sweep, winVars, Parked, Awaited
<1>4. ASSUME NEW w \in Window, StartMove(w) PROVE Parked' /\ Awaited'
  <2>1. [t |-> "cwds", for |-> w] \in Request
    BY DEF Request
  <2>2. Coming => Coming'
    BY <1>4, <2>1, ComingStays DEF StartMove
  <2>3. Awaited'
    BY <1>4, <2>2, AwaitedStays DEF StartMove, hostVars, Records
  <2>4. Parked'
    BY <1>1, <1>4 DEF StartMove, Parked
  <2>. QED  BY <2>3, <2>4
<1>5. ASSUME NEW w \in Window, MoveRefused(w) \/ MarkTimeout(w) \/ HandBackReplayTimeout(w)
      PROVE  Parked' /\ Awaited'
  <2>1. UNCHANGED <<stdin, stdout, awaiting, arrivals, lost, mounted, adopting>>
    BY <1>5 DEF MoveRefused, MarkTimeout, HandBackReplayTimeout, hostVars
  <2>2. Awaited'
    BY <2>1, AwaitedStays DEF Records, Coming
  <2>3. Parked'
    BY <1>1, <1>5, <2>1 DEF MoveRefused, MarkTimeout, HandBackReplayTimeout, Parked
  <2>. QED  BY <2>2, <2>3
<1>6. ASSUME NEW w \in Window, Destroyed(w) PROVE Parked' /\ Awaited'
  <2>1. /\ Records' = Records /\ (awaiting' => awaiting) /\ mounted' = mounted \ {w}
        /\ UNCHANGED <<stdin, stdout>>
    BY <1>6 DEF Destroyed, Records
  <2>2. \A v \in Window : v # w => place'[v] = place[v] /\ adopting'[v] = adopting[v]
    BY <1>1, <1>6 DEF Destroyed
  <2>3. Awaited'
    BY <2>1, AwaitedStays DEF Coming
  <2>4. Parked'
    BY <1>1, <2>1, <2>2 DEF Parked
  <2>. QED  BY <2>3, <2>4
<1>7. ASSUME NEW w \in Window, NEW to \in Window, BeginTransfer(w, to) PROVE Parked' /\ Awaited'
  BY <1>1, <1>7 DEF BeginTransfer, Parked, Awaited
<1>. QED  BY <1>2, <1>3, <1>4, <1>5, <1>6, <1>7 DEF Optional

LEMMA NextRests == RestInv /\ [Next]_vars => RestInv'
<1>. SUFFICES ASSUME RestInv, [Next]_vars PROVE RestInv'
  OBVIOUS
<1>1. PlaceInv' /\ TypeOK'
  BY NextPlace DEF RestInv, PlaceInv
<1>2. CASE Watchdog
  <2>1. PICK a \in arrivals : Expire(a)
    BY <1>2 DEF Watchdog
  <2>2. HandBack(a) /\ UNCHANGED <<mounted, place, adopting>>
    BY <2>1 DEF Expire
  <2>. QED  BY <1>1, <2>2, HandBackAwaited DEF RestInv, Records, Parked
<1>3. CASE UNCHANGED vars
  <2>1. UNCHANGED <<stdin, stdout, awaiting, arrivals, lost, mounted, place, adopting>>
    BY <1>3 DEF vars, hostVars, winVars
  <2>. QED  BY <1>1, <2>1 DEF RestInv, Parked, Awaited, Coming, Records
<1>. QED  BY <1>1, <1>2, <1>3, HostRests, EventsRest, SourceRests, TargetRests, OptionalRests
          DEF Next, RestInv

LEMMA InitRests == Init => RestInv
<1>. SUFFICES ASSUME Init PROVE RestInv
  OBVIOUS
<1>1. Parked /\ Awaited
  BY WindowsAreDistinct DEF Init, Parked, Awaited
<1>. QED  BY <1>1, InitPlace DEF RestInv

\* A terminal belongs to a window with a part in the Workspace or one that adopts it,
\* and a PTY is silenced only by a move in flight or ahead of a replay that is coming,
\* whatever is overtaken (mark_transfer, hand_back_arrival, drop_window).
THEOREM ComesToRest == Spec => []RestInv
BY InitRests, NextRests, PTL DEF Spec

=============================================================================
