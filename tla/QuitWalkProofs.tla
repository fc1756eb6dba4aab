--------------------------- MODULE QuitWalkProofs ---------------------------
(***************************************************************************)
(* The walk of a quit, for every set of windows and every bound: a cancel  *)
(* finds nothing torn down, windows are torn down one at a time with main  *)
(* last, and the window told that it is the last one is.                   *)
(***************************************************************************)
EXTENDS QuitProofs

-----------------------------------------------------------------------------
(* What a transition of the quit machine may do *)

\* Past this no cancel is accepted: the walk runs, or the exit is approved.
Begun(k) == k.phase = "walking" \/ k.approved

MainLast(k) == \A i \in 1..Len(k.order) : k.order[i] = Main => i = Len(k.order)

\* The transition r of the machine k, when the windows in gone are no more: what
\* has begun stays so, a window told to tear down is the one the walk is at (told
\* it is the last, it ends the walk), and the window the walk was at is still the
\* one, is destroyed, or is gone.
Steps(k, r, gone) ==
    /\ r.m \in Machine
    /\ MainLast(k) => MainLast(r.m)
    /\ Begun(k) => Begun(r.m)
    /\ \A w \in Window, b \in BOOLEAN : Teardown(w, b) \in r.acts =>
          w \in Current(r.m) /\ (b => r.m.index = Len(r.m.order))
    /\ \A w \in Current(k) \ gone : w \in Current(r.m) \/ Destroy(w) \in r.acts

\* Two machines at the same point of a quit.
SamePoint(k, n) ==
    /\ n.seq = k.seq /\ n.approved = k.approved /\ n.phase = k.phase
    /\ n.order = k.order /\ n.index = k.index

\* The tags tell the actions apart.
LEMMA ActionTags ==
    ASSUME NEW w, NEW b
    PROVE  /\ Teardown(w, b).t = "teardown" /\ Teardown(w, b).label = w /\ Teardown(w, b).last = b
           /\ Destroy(w).t = "destroy" /\ ExitApp.t = "exit"
           /\ RequestAll.t = "requestAll" /\ CancelAll.t = "cancelAll"
BY DEF Teardown, Destroy, ExitApp, RequestAll, CancelAll

\* Writing or removing an entry keeps the machine at its point.
LEMMA EntryPoint ==
    ASSUME NEW k \in Machine, NEW w \in Window
    PROVE  /\ \A e \in Entry : /\ SamePoint(k, WithEntry(k, w, e))
                               /\ DOMAIN WithEntry(k, w, e).windows = DOMAIN k.windows \cup {w}
           /\ SamePoint(k, WithoutEntry(k, w))
           /\ DOMAIN WithoutEntry(k, w).windows = DOMAIN k.windows \ {w}
<1>1. ASSUME NEW f
      PROVE  SamePoint(k, [k EXCEPT !.windows = f]) /\ [k EXCEPT !.windows = f].windows = f
  BY DEF Machine, SamePoint
<1> QED
  BY <1>1 DEF WithEntry, WithoutEntry

\* A machine at the same point walks the same way.
LEMMA PointWalk ==
    ASSUME NEW k, NEW n, SamePoint(k, n)
    PROVE  /\ Current(n) = Current(k) /\ (MainLast(n) <=> MainLast(k))
           /\ Begun(n) <=> Begun(k)
BY DEF SamePoint, Current, MainLast, Begun

\* An exit ends the walk.
LEMMA ExitPoint ==
    ASSUME NEW n \in Machine
    PROVE  /\ Exit(n).m \in Machine /\ Exit(n).m.phase = "idle" /\ Exit(n).m.approved
           /\ Exit(n).m.order = <<>> /\ Exit(n).m.seq = n.seq
           /\ Exit(n).acts = {ExitApp}
<1> DEFINE x == [n EXCEPT !.phase = "idle", !.order = <<>>, !.index = 1, !.approved = TRUE]
<1>1. x.phase = "idle" /\ x.approved /\ x.order = <<>> /\ x.seq = n.seq
  BY DEF Machine
<1>2. Exit(n).m = x /\ Exit(n).acts = {ExitApp}
  BY DEF Exit, Result
<1> QED
  BY <1>1, <1>2, ExitType

LEMMA ExitSteps ==
    ASSUME NEW k \in Machine, NEW n \in Machine, NEW gone, Current(k) \subseteq gone
    PROVE  Steps(k, Exit(n), gone)
<1>1. MainLast(Exit(n).m)
  BY ExitPoint DEF MainLast
<1>2. ASSUME NEW w, NEW b, Teardown(w, b) \in Exit(n).acts PROVE FALSE
  BY <1>2, ExitPoint, ActionTags
<1> QED
  BY <1>1, <1>2, ExitPoint DEF Steps, Begun

\* A transition that owes nothing and stays at its point.
LEMMA QuietSteps ==
    ASSUME NEW k \in Machine, NEW n \in Machine, SamePoint(k, n), NEW gone,
           NEW r, r.m = n, \A w, b : Teardown(w, b) \notin r.acts
    PROVE  Steps(k, r, gone)
BY PointWalk DEF Steps

\* A walk starts at the first window of an order over the windows that voted.
LEMMA StartWalkPoint ==
    ASSUME NEW n \in Machine, NEW r \in StartWalk(n), DOMAIN n.windows # {}
    PROVE  /\ r.m \in Machine /\ r.m.phase = "walking" /\ r.m.index = 1
           /\ r.m.order \in QuitOrders(DOMAIN n.windows)
           /\ Len(r.m.order) = Cardinality(DOMAIN n.windows) /\ Len(r.m.order) >= 1
           /\ r.m.seq = n.seq /\ r.m.approved = n.approved
           /\ r.acts = {Teardown(r.m.order[1], Len(r.m.order) = 1)}
<1>1. DOMAIN n.windows \in SUBSET Window /\ IsFiniteSet(DOMAIN n.windows)
  <2>1. DOMAIN n.windows \in SUBSET Window
    BY EntryMapElim DEF Machine
  <2> QED BY <2>1, WindowsAreFinite, FS_Subset
<1>2. Cardinality(DOMAIN n.windows) \in Nat \ {0}
  BY <1>1, FS_CardinalityType, FS_EmptySet
<1>3. PICK o \in QuitOrders(DOMAIN n.windows) :
          r = Result([n EXCEPT !.phase = "walking", !.order = o, !.index = 1],
                     {Teardown(o[1], Len(o) = 1)})
  BY Zenon DEF StartWalk
<1> DEFINE x == [n EXCEPT !.phase = "walking", !.order = o, !.index = 1]
<1>4. r.m = x /\ r.acts = {Teardown(o[1], Len(o) = 1)}
  BY <1>3 DEF Result
<1>5. /\ x.phase = "walking" /\ x.order = o /\ x.index = 1
      /\ x.seq = n.seq /\ x.approved = n.approved
  BY DEF Machine
<1>6. Len(o) = Cardinality(DOMAIN n.windows)
  <2>1. o \in [1..Cardinality(DOMAIN n.windows) -> DOMAIN n.windows]
    BY DEF QuitOrders
  <2> QED BY <1>2, <2>1
<1> HIDE DEF x
<1> QED
  BY <1>2, <1>4, <1>5, <1>6, StartWalkType

LEMMA StartWalkSteps ==
    ASSUME NEW k \in Machine, k.phase = "voting", NEW n \in Machine, n.approved = k.approved,
           NEW gone, NEW r \in StartWalk(n)
    PROVE  Steps(k, r, gone)
<1>1. Current(k) = {}
  BY DEF Current
<1>2. CASE DOMAIN n.windows = {}
  BY <1>1, <1>2, ExitSteps DEF StartWalk
<1>3. CASE DOMAIN n.windows # {}
  <2> DEFINE S == DOMAIN n.windows
             o == r.m.order
  <2>1. /\ r.m \in Machine /\ r.m.phase = "walking" /\ r.m.index = 1
        /\ o \in QuitOrders(S) /\ Len(o) = Cardinality(S) /\ Len(o) >= 1
        /\ r.acts = {Teardown(o[1], Len(o) = 1)}
    BY <1>3, StartWalkPoint
  <2>2. Len(o) \in Nat
    BY <2>1 DEF Machine
  <2>3. Current(r.m) = {o[1]}
    BY <2>1, <2>2 DEF Current
  <2>4. MainLast(r.m)
    <3> SUFFICES ASSUME NEW i \in 1..Len(o), o[i] = Main PROVE i = Len(o)
      BY DEF MainLast
    <3>1. /\ o \in [1..Cardinality(S) -> S]
          /\ \A x, y \in 1..Cardinality(S) : x # y => o[x] # o[y]
          /\ Main \in S => o[Cardinality(S)] = Main
      BY <2>1 DEF QuitOrders
    <3>2. Main \in S
      BY <2>1, <3>1
    <3> QED BY <2>1, <2>2, <3>1, <3>2
  <2>5. ASSUME NEW w, NEW b \in BOOLEAN, Teardown(w, b) \in r.acts
        PROVE  w = o[1] /\ (b => Len(o) = 1)
    <3>1. Teardown(w, b) = Teardown(o[1], Len(o) = 1)
      BY <2>1, <2>5
    <3> QED BY <3>1, ActionTags
  <2> QED
    BY <1>1, <2>1, <2>3, <2>4, <2>5 DEF Steps, Begun
<1> QED BY <1>2, <1>3

\* A trigger: the walk in flight is left alone; with no window left it exits.
Asks(k, L, r) ==
    /\ r.m \in Machine /\ r.m.seq = k.seq + 1
    /\ L = {} => r.m.phase = "idle" /\ r.m.approved /\ r.m.order = <<>> /\ r.acts = {ExitApp}
    /\ L # {} => /\ r.m.phase = IF k.phase = "walking" THEN "walking" ELSE "voting"
                 /\ r.m.order = k.order /\ r.m.index = k.index
                 /\ r.m.approved = k.approved /\ DOMAIN r.m.windows = L
                 /\ r.acts = {RequestAll}

LEMMA RequestPoint ==
    ASSUME NEW k \in Machine, NEW L \in SUBSET Window, NEW restart \in BOOLEAN,
           NEW r, r = Request(k, L, restart)
    PROVE  Asks(k, L, r)
<1> DEFINE f == [w \in L |-> [acked |-> FALSE,
                              voted |-> k.phase # "idle" /\ EntryOf(k, w).voted]]
           n == [k EXCEPT
                    !.seq = @ + 1,
                    !.restart = IF k.phase = "idle" /\ ~k.approved THEN restart ELSE @,
                    !.windows = f]
           p == [n EXCEPT !.phase = IF @ = "walking" THEN @ ELSE "voting"]
<1>1. r = IF L = {} THEN Exit(n) ELSE Result(p, {RequestAll})
  BY DEF Request
<1>2. DOMAIN f = L
  OBVIOUS
<1>3. r.m \in Machine
  BY RequestType
<1>a. k.seq + 1 \in Nat
  BY DEF Machine
<1>b. f \in EntryMap
  <2>1. \A w \in L : EntryOf(k, w) \in Entry
    BY EntryOfType
  <2>2. f \in [L -> Entry]
    BY <2>1 DEF Entry
  <2> QED BY <2>2, EntryMapIntro
<1> HIDE DEF f
<1>4. n \in Machine
  <2>1. (IF k.phase = "idle" /\ ~k.approved THEN restart ELSE k.restart) \in BOOLEAN
    BY DEF Machine
  <2> QED BY <1>a, <1>b, <2>1, RequestFields
<1>5. /\ n.seq = k.seq + 1 /\ n.phase = k.phase /\ n.order = k.order /\ n.index = k.index
      /\ n.approved = k.approved /\ n.windows = f
  BY DEF Machine
<1> HIDE DEF n
<1>6. /\ p.seq = n.seq /\ p.order = n.order /\ p.index = n.index
      /\ p.approved = n.approved /\ p.windows = n.windows
      /\ p.phase = IF n.phase = "walking" THEN "walking" ELSE "voting"
  BY <1>4 DEF Machine
<1> HIDE DEF p
<1>7. CASE L = {}
  BY <1>1, <1>3, <1>4, <1>5, <1>7, ExitPoint DEF Asks
<1>8. CASE L # {}
  <2>1. r.m = p /\ r.acts = {RequestAll}
    BY <1>1, <1>8 DEF Result
  <2> QED
    BY <1>2, <1>3, <1>5, <1>6, <1>8, <2>1 DEF Asks
<1> QED BY <1>7, <1>8

LEMMA RequestSteps ==
    ASSUME NEW k \in Machine, NEW L \in SUBSET Window, NEW restart \in BOOLEAN,
           NEW r, r = Request(k, L, restart)
    PROVE  Steps(k, r, Window \ L)
<1>1. /\ r.m \in Machine
      /\ L = {} => r.m.approved /\ r.m.order = <<>> /\ r.acts = {ExitApp}
      /\ L # {} => /\ r.m.phase = IF k.phase = "walking" THEN "walking" ELSE "voting"
                   /\ r.m.order = k.order /\ r.m.index = k.index
                   /\ r.m.approved = k.approved /\ r.acts = {RequestAll}
  <2>1. Asks(k, L, r)
    BY RequestPoint
  <2> QED BY <2>1 DEF Asks
<1>2. Current(k) \subseteq Window
  BY DEF Machine, Current
<1>3. ASSUME NEW w, NEW b, Teardown(w, b) \in r.acts PROVE FALSE
  BY <1>1, <1>3, ActionTags
<1>4. CASE L = {}
  <2>1. MainLast(r.m) /\ Begun(r.m)
    BY <1>1, <1>4 DEF MainLast, Begun
  <2> QED
    BY <1>1, <1>2, <1>3, <1>4, <2>1 DEF Steps
<1>5. CASE L # {}
  <2>1. Current(r.m) = Current(k) /\ (MainLast(k) => MainLast(r.m)) /\ (Begun(k) => Begun(r.m))
    BY <1>1, <1>5 DEF Current, MainLast, Begun
  <2> QED
    BY <1>1, <1>3, <2>1 DEF Steps
<1> QED BY <1>4, <1>5

\* A vote, which may complete the round.
LEMMA VoteSteps ==
    ASSUME NEW k \in Machine, NEW w \in Window, NEW r \in Vote(k, w)
    PROVE  Steps(k, r, {})
<1> DEFINE e == [EntryOf(k, w) EXCEPT !.voted = TRUE]
           n == WithEntry(k, w, e)
<1>1. e \in Entry
  BY EntryOfType DEF Entry
<1>2. n \in Machine /\ SamePoint(k, n)
  BY <1>1, WithEntryType, EntryPoint
<1>3. r = Result(k, {}) \/ r = Result(n, {}) \/ (k.phase = "voting" /\ r \in StartWalk(n))
  BY DEF Vote
<1> HIDE DEF n
<1>4. CASE r = Result(k, {}) \/ r = Result(n, {})
  <2>1. (r.m = k \/ r.m = n) /\ r.acts = {} /\ SamePoint(k, k)
    BY <1>4 DEF Result, SamePoint
  <2> QED
    BY <1>2, <2>1, QuietSteps
<1>5. CASE k.phase = "voting" /\ r \in StartWalk(n)
  BY <1>2, <1>5, StartWalkSteps DEF SamePoint
<1> QED BY <1>3, <1>4, <1>5

\* A cancel is accepted while the windows vote.
LEMMA CancelPoint ==
    ASSUME NEW k \in Machine
    PROVE  \/ Cancel(k).m = k /\ Cancel(k).acts = {} /\ k.phase # "voting"
           \/ /\ k.phase = "voting" /\ Cancel(k).m.phase = "idle"
              /\ Cancel(k).m.order = k.order /\ Cancel(k).m.approved = k.approved
              /\ Cancel(k).m.seq = k.seq + 1 /\ Cancel(k).acts = {CancelAll}
<1> DEFINE f == [w \in DOMAIN k.windows |-> [k.windows[w] EXCEPT !.voted = FALSE]]
           n == [k EXCEPT !.seq = k.seq + 1, !.phase = "idle", !.restart = FALSE, !.windows = f]
<1>1. Cancel(k) = IF k.phase # "voting" THEN Result(k, {}) ELSE Result(n, {CancelAll})
  BY DEF Cancel
<1> HIDE DEF f
<1>2. n.phase = "idle" /\ n.order = k.order /\ n.approved = k.approved /\ n.seq = k.seq + 1
  BY DEF Machine
<1> HIDE DEF n
<1>3. CASE k.phase # "voting"
  BY <1>1, <1>3 DEF Result
<1>4. CASE k.phase = "voting"
  BY <1>1, <1>2, <1>4 DEF Result
<1> QED BY <1>3, <1>4

LEMMA CancelSteps ==
    ASSUME NEW k \in Machine
    PROVE  Steps(k, Cancel(k), {})
<1> DEFINE r == Cancel(k)
<1> SUFFICES Steps(k, r, {})
  OBVIOUS
<1>1. /\ r.m \in Machine
      /\ \/ r.m = k /\ r.acts = {}
         \/ /\ k.phase = "voting" /\ r.m.phase = "idle" /\ r.m.order = k.order
            /\ r.m.approved = k.approved /\ r.acts = {CancelAll}
  BY CancelType, CancelPoint DEF KeepsIdle
<1> HIDE DEF r
<1>2. ASSUME NEW w, NEW b, Teardown(w, b) \in r.acts PROVE FALSE
  BY <1>1, <1>2, ActionTags
<1>3. (MainLast(k) => MainLast(r.m)) /\ (Begun(k) => Begun(r.m))
  BY <1>1 DEF MainLast, Begun
<1>4. r.m = k \/ Current(k) = {}
  BY <1>1 DEF Current
<1> QED
  BY <1>1, <1>2, <1>3, <1>4 DEF Steps

\* A window done is destroyed, and the next one is told.
LEMMA WindowDonePoint ==
    ASSUME NEW k \in Machine, NEW w \in Window, w \in Current(k)
    PROVE  LET r == WindowDone(k, w) IN
           /\ r.m \in Machine /\ r.m.phase = "walking" /\ r.m.order = k.order
           /\ r.m.index = k.index + 1 /\ r.m.approved = k.approved /\ r.m.seq = k.seq
           /\ r.acts = {Destroy(w), IF k.index + 1 <= Len(k.order)
                                    THEN Teardown(k.order[k.index + 1], k.index + 1 = Len(k.order))
                                    ELSE ExitApp}
<1> DEFINE x == WithoutEntry(k, w)
           n == [x EXCEPT !.index = k.index + 1]
           r == WindowDone(k, w)
<1>1. x \in Machine /\ SamePoint(k, x) /\ k.phase = "walking"
  BY WithoutEntryType, EntryPoint DEF Current
<1>2. r = Result(n, {Destroy(w), IF k.index + 1 <= Len(k.order)
                           THEN Teardown(k.order[k.index + 1], k.index + 1 = Len(k.order))
                           ELSE ExitApp})
  BY DEF WindowDone
<1> HIDE DEF x
<1>3. /\ n.phase = x.phase /\ n.order = x.order /\ n.index = k.index + 1
      /\ n.approved = x.approved /\ n.seq = x.seq
  BY <1>1 DEF Machine
<1>4. r.m = n /\ r.m \in Machine
  BY <1>2, WindowDoneType DEF Result, KeepsIdle
<1> HIDE DEF n
<1> QED
  BY <1>1, <1>2, <1>3, <1>4 DEF Result, SamePoint

LEMMA WindowDoneSteps ==
    ASSUME NEW k \in Machine, NEW w \in Window
    PROVE  Steps(k, WindowDone(k, w), {})
<1> DEFINE r == WindowDone(k, w)
           next == k.index + 1
<1> SUFFICES Steps(k, r, {})
  OBVIOUS
<1>1. CASE w \notin Current(k)
  <2>1. r.m = k /\ r.acts = {} /\ SamePoint(k, k)
    BY <1>1 DEF WindowDone, Result, SamePoint
  <2> HIDE DEF r
  <2> QED BY <2>1, QuietSteps
<1>2. CASE w \in Current(k)
  <2>1. /\ r.m \in Machine /\ r.m.phase = "walking" /\ r.m.order = k.order /\ r.m.index = next
        /\ r.acts = {Destroy(w), IF next <= Len(k.order)
                                 THEN Teardown(k.order[next], next = Len(k.order)) ELSE ExitApp}
    BY <1>2, WindowDonePoint
  <2>2. Current(k) = {w} /\ k.phase = "walking"
    BY <1>2 DEF Current
  <2> HIDE DEF r, next
  <2>3. MainLast(k) => MainLast(r.m)
    BY <2>1 DEF MainLast
  <2>4. Begun(r.m) /\ Destroy(w) \in r.acts
    BY <2>1 DEF Begun
  <2>5. ASSUME NEW v, NEW b \in BOOLEAN, Teardown(v, b) \in r.acts
        PROVE  v \in Current(r.m) /\ (b => r.m.index = Len(r.m.order))
    <3>1. next <= Len(k.order) /\ Teardown(v, b) = Teardown(k.order[next], next = Len(k.order))
      BY <2>1, <2>5, ActionTags
    <3>2. v = k.order[next] /\ b = (next = Len(k.order))
      BY <3>1, ActionTags
    <3> QED BY <2>1, <3>1, <3>2 DEF Current
  <2> QED
    BY <2>1, <2>2, <2>3, <2>4, <2>5 DEF Steps
<1> QED BY <1>1, <1>2

\* Approving, by quit_proceed or a watchdog, keeps the walk where it is.
LEMMA ApprovedPoint ==
    ASSUME NEW k \in Machine
    PROVE  LET n == [k EXCEPT !.approved = TRUE] IN
           /\ n \in Machine /\ n.approved /\ n.phase = k.phase /\ n.order = k.order
           /\ n.index = k.index /\ n.seq = k.seq /\ n.windows = k.windows
           /\ Current(n) = Current(k) /\ (MainLast(k) => MainLast(n)) /\ Begun(n)
<1> DEFINE n == [k EXCEPT !.approved = TRUE]
<1>1. /\ n \in Machine /\ n.approved /\ n.phase = k.phase /\ n.order = k.order
      /\ n.index = k.index /\ n.seq = k.seq /\ n.windows = k.windows
  BY DEF Machine
<1> HIDE DEF n
<1>2. Current(n) = Current(k) /\ (MainLast(k) => MainLast(n)) /\ Begun(n)
  BY <1>1 DEF Current, MainLast, Begun
<1> QED BY <1>1, <1>2 DEF n

LEMMA ProceedSteps ==
    ASSUME NEW k \in Machine
    PROVE  Steps(k, Proceed(k), {})
<1> DEFINE n == [k EXCEPT !.approved = TRUE]
           r == Proceed(k)
<1> SUFFICES Steps(k, r, {})
  OBVIOUS
<1>1. /\ n \in Machine /\ Current(n) = Current(k)
      /\ (MainLast(k) => MainLast(n)) /\ Begun(n)
  BY ApprovedPoint
<1>2. r.m = n /\ r.acts = {ExitApp}
  BY DEF Proceed, Result
<1> HIDE DEF n, r
<1>3. ASSUME NEW w, NEW b, Teardown(w, b) \in r.acts PROVE FALSE
  BY <1>2, <1>3, ActionTags
<1> QED
  BY <1>1, <1>2, <1>3 DEF Steps

\* What a walk makes of a window that leaves outside the flow: it comes out of
\* the order, and the next one is told if the walk was at it.
Drops(k, w, r) ==
    \/ r = Result(k, {}) /\ \A i \in 1..Len(k.order) : k.order[i] # w
    \/ \E at \in 1..Len(k.order), n \in Machine :
          /\ k.order[at] = w
          /\ n.seq = k.seq /\ n.approved = k.approved /\ n.phase = "walking"
          /\ n.order = DropAt(k.order, at)
          /\ n.index = IF at < k.index THEN k.index - 1 ELSE k.index
          /\ \/ r = Exit(n) /\ (n.order = <<>> \/ (at = k.index /\ k.index > Len(n.order)))
             \/ r = Result(n, {}) /\ at # k.index
             \/ /\ at = k.index /\ k.index <= Len(n.order)
                /\ r = Result(n, {Teardown(n.order[k.index], k.index = Len(n.order))})

LEMMA ForgetWalkingDrops ==
    ASSUME NEW k \in Machine, k.phase = "walking", NEW w
    PROVE  Drops(k, w, ForgetWalking(k, w))
<1> DEFINE at == CHOOSE i \in 1..Len(k.order) : k.order[i] = w
           order == DropAt(k.order, at)
           x == IF at < k.index THEN k.index - 1 ELSE k.index
           n == [k EXCEPT !.order = order, !.index = x]
<1>1. CASE ~\E i \in 1..Len(k.order) : k.order[i] = w
  BY <1>1 DEF ForgetWalking, Drops
<1>2. CASE \E i \in 1..Len(k.order) : k.order[i] = w
  <2>1. at \in 1..Len(k.order) /\ k.order[at] = w
    BY <1>2
  <2>2. k.order \in Seq(Window) /\ k.index \in Nat \ {0}
    BY DEF Machine
  <2>3. ForgetWalking(k, w) =
            IF order = <<>> THEN Exit(n)
            ELSE IF at # k.index THEN Result(n, {})
            ELSE IF k.index <= Len(order)
                 THEN Result(n, {Teardown(order[k.index], k.index = Len(order))})
            ELSE Exit(n)
    BY <1>2 DEF ForgetWalking
  <2> HIDE DEF at
  <2>4. order \in Seq(Window)
    BY <2>1, <2>2, DropAtType
  <2>5. x \in Nat \ {0}
    BY <2>1, <2>2
  <2>6. order = DropAt(k.order, at) /\ x = IF at < k.index THEN k.index - 1 ELSE k.index
    OBVIOUS
  <2> HIDE DEF order, x
  <2>7. /\ n \in Machine /\ n.seq = k.seq /\ n.approved = k.approved /\ n.phase = k.phase
        /\ n.order = order /\ n.index = x
    BY <2>4, <2>5 DEF Machine
  <2> HIDE DEF n
  <2>8. Len(order) \in Nat
    BY <2>4
  <2>9. \/ ForgetWalking(k, w) = Exit(n) /\ (order = <<>> \/ (at = k.index /\ k.index > Len(order)))
        \/ ForgetWalking(k, w) = Result(n, {}) /\ at # k.index
        \/ /\ at = k.index /\ k.index <= Len(order)
           /\ ForgetWalking(k, w) = Result(n, {Teardown(order[k.index], k.index = Len(order))})
    BY <2>2, <2>3, <2>8
  <2> HIDE DEF Drops
  <2> QED
    BY <2>1, <2>6, <2>7, <2>9 DEF Drops
<1> QED BY <1>1, <1>2

\* Where the windows of an order go when one is dropped.
LEMMA DroppedAt ==
    ASSUME NEW s \in Seq(Window), NEW at \in 1..Len(s)
    PROVE  /\ Len(DropAt(s, at)) = Len(s) - 1
           /\ \A i \in 1..Len(s) : i < at => DropAt(s, at)[i] = s[i] /\ i <= Len(s) - 1
           /\ \A i \in 1..Len(s) : i > at => DropAt(s, at)[i - 1] = s[i] /\ i - 1 \in 1..Len(s) - 1
           /\ \A i \in 1 .. Len(s) - 1 : DropAt(s, at)[i] = IF i < at THEN s[i] ELSE s[i + 1]
<1>1. Len(s) \in Nat
  OBVIOUS
<1>2. DropAt(s, at) = [i \in 1 .. Len(s) - 1 |-> IF i < at THEN s[i] ELSE s[i + 1]]
  BY DEF DropAt
<1> QED BY <1>1, <1>2, DropAtType

LEMMA DroppedSteps ==
    ASSUME NEW k \in Machine, k.phase = "walking", NEW w, NEW r, Drops(k, w, r)
    PROVE  Steps(k, r, {w})
<1>1. k.order \in Seq(Window) /\ k.index \in Nat \ {0} /\ Len(k.order) \in Nat
  BY DEF Machine
<1>2. CASE r = Result(k, {})
  <2>1. r.m = k /\ r.acts = {} /\ SamePoint(k, k)
    BY <1>2 DEF Result, SamePoint
  <2> QED BY <2>1, QuietSteps
<1>3. CASE r # Result(k, {})
  <2>1. PICK at \in 1..Len(k.order), n \in Machine :
          /\ k.order[at] = w
          /\ n.seq = k.seq /\ n.approved = k.approved /\ n.phase = "walking"
          /\ n.order = DropAt(k.order, at)
          /\ n.index = IF at < k.index THEN k.index - 1 ELSE k.index
          /\ \/ r = Exit(n) /\ (n.order = <<>> \/ (at = k.index /\ k.index > Len(n.order)))
             \/ r = Result(n, {}) /\ at # k.index
             \/ /\ at = k.index /\ k.index <= Len(n.order)
                /\ r = Result(n, {Teardown(n.order[k.index], k.index = Len(n.order))})
    BY <1>3 DEF Drops
  <2>2. /\ Len(n.order) = Len(k.order) - 1
        /\ \A i \in 1..Len(k.order) : i < at => n.order[i] = k.order[i]
        /\ \A i \in 1..Len(k.order) : i > at => n.order[i - 1] = k.order[i]
        /\ \A i \in 1 .. Len(k.order) - 1 :
              n.order[i] = IF i < at THEN k.order[i] ELSE k.order[i + 1]
    <3> DEFINE s == k.order
               d == DropAt(s, at)
    <3>1. n.order = d /\ s \in Seq(Window) /\ at \in 1..Len(s)
      BY <1>1, <2>1
    <3>2. /\ Len(d) = Len(s) - 1
          /\ \A i \in 1..Len(s) : i < at => d[i] = s[i]
          /\ \A i \in 1..Len(s) : i > at => d[i - 1] = s[i]
          /\ \A i \in 1 .. Len(s) - 1 : d[i] = IF i < at THEN s[i] ELSE s[i + 1]
      <4> HIDE DEF s
      <4> QED BY <3>1, DroppedAt
    <3> HIDE DEF d
    <3> QED BY <3>1, <3>2
  <2>3. MainLast(k) => MainLast(n)
    <3> SUFFICES ASSUME MainLast(k), NEW i \in 1..Len(n.order), n.order[i] = Main
                 PROVE  i = Len(n.order)
      BY DEF MainLast
    <3>1. i \in 1 .. Len(k.order) - 1 /\ n.order[i] = IF i < at THEN k.order[i] ELSE k.order[i + 1]
      BY <1>1, <2>2
    <3>2. CASE i < at
      <4>1. k.order[i] = Main /\ i \in 1..Len(k.order)
        BY <1>1, <3>1, <3>2
      <4>2. i = Len(k.order)
        BY <4>1 DEF MainLast
      <4> QED BY <1>1, <3>1, <4>2
    <3>3. CASE ~(i < at)
      <4>1. k.order[i + 1] = Main /\ i + 1 \in 1..Len(k.order)
        BY <1>1, <3>1, <3>3
      <4>2. i + 1 = Len(k.order)
        BY <4>1 DEF MainLast
      <4> QED BY <1>1, <2>2, <3>1, <4>2
    <3> QED BY <3>2, <3>3
  <2>4. CASE r = Exit(n)
    <3>1. Current(k) \subseteq {w}
      <4>1. CASE at = k.index
        BY <2>1, <4>1 DEF Current
      <4>2. CASE at # k.index
        <5>0. n.order = <<>>
          <6>1. ASSUME NEW x PROVE Exit(n) # Result(n, {x}) /\ Exit(n) # Result(n, {})
            <7>1. Exit(n).m.phase = "idle"
              BY ExitPoint
            <7> QED BY <2>1, <7>1 DEF Result
          <6> QED BY <2>1, <2>4, <4>2, <6>1
        <5>1. Len(k.order) = 1
          BY <1>1, <2>2, <5>0
        <5> QED BY <1>1, <4>2, <5>1 DEF Current
      <4> QED BY <4>1, <4>2
    <3> QED BY <2>4, <3>1, ExitSteps
  <2>5. CASE at # k.index /\ r = Result(n, {})
    <3>1. r.m = n /\ r.acts = {}
      BY <2>5 DEF Result
    <3>2. Current(n) = Current(k)
      <4>1. CASE at < k.index
        <5>1. n.index = k.index - 1 /\ (n.index <= Len(n.order) <=> k.index <= Len(k.order))
          BY <1>1, <2>1, <2>2, <4>1
        <5>2. k.index <= Len(k.order) => n.order[k.index - 1] = k.order[k.index]
          BY <1>1, <2>2, <4>1
        <5> QED BY <2>1, <5>1, <5>2 DEF Current
      <4>2. CASE at > k.index
        <5>1. n.index = k.index /\ n.index <= Len(n.order) /\ k.index <= Len(k.order)
          BY <1>1, <2>1, <2>2, <4>2
        <5>2. n.order[k.index] = k.order[k.index]
          BY <1>1, <2>2, <4>2
        <5> QED BY <2>1, <5>1, <5>2 DEF Current
      <4> QED BY <1>1, <2>5, <4>1, <4>2
    <3>3. Begun(n)
      BY <2>1 DEF Begun
    <3> QED BY <2>1, <2>3, <3>1, <3>2, <3>3 DEF Steps
  <2>6. CASE /\ at = k.index /\ k.index <= Len(n.order)
             /\ r = Result(n, {Teardown(n.order[k.index], k.index = Len(n.order))})
    <3>1. r.m = n /\ r.acts = {Teardown(n.order[k.index], k.index = Len(n.order))}
      BY <2>6 DEF Result
    <3>2. n.index = k.index /\ Current(n) = {n.order[k.index]} /\ Begun(n)
      BY <1>1, <2>1, <2>6 DEF Current, Begun
    <3>3. ASSUME NEW v, NEW b \in BOOLEAN, Teardown(v, b) \in r.acts
          PROVE  v \in Current(n) /\ (b => n.index = Len(n.order))
      <4>1. Teardown(v, b) = Teardown(n.order[k.index], k.index = Len(n.order))
        BY <3>1, <3>3
      <4> QED BY <3>2, <4>1, ActionTags
    <3>4. Current(k) \subseteq {w}
      BY <2>1, <2>6 DEF Current
    <3> QED BY <2>1, <2>3, <3>1, <3>2, <3>3, <3>4 DEF Steps
  <2> QED BY <2>1, <2>4, <2>5, <2>6
<1> QED BY <1>2, <1>3

\* A window that leaves is taken out of the vote or of the walk.
LEMMA ForgetWindowSteps ==
    ASSUME NEW k \in Machine, NEW w \in Window, NEW r \in ForgetWindow(k, w)
    PROVE  Steps(k, r, {w})
<1> DEFINE n == WithoutEntry(k, w)
<1>1. n \in Machine /\ SamePoint(k, n)
  BY WithoutEntryType, EntryPoint
<1>2. k.phase \in Phase
  BY DEF Machine
<1>3. ASSUME r = Result(n, {}) PROVE Steps(k, r, {w})
  <2>1. r.m = n /\ r.acts = {}
    BY <1>3 DEF Result
  <2> HIDE DEF n
  <2> QED BY <1>1, <2>1, QuietSteps
<1>4. CASE k.phase = "idle"
  BY <1>3, <1>4 DEF ForgetWindow
<1>5. CASE k.phase = "voting"
  <2>1. r \in ForgetVoting(n)
    BY <1>5 DEF ForgetWindow
  <2>2. r = Exit(n) \/ r \in StartWalk(n) \/ r = Result(n, {})
    BY <2>1 DEF ForgetVoting
  <2>3. Current(k) = {}
    BY <1>5 DEF Current
  <2> HIDE DEF n
  <2> QED
    BY <1>1, <1>3, <1>5, <2>2, <2>3, ExitSteps, StartWalkSteps DEF SamePoint
<1>6. CASE k.phase = "walking"
  <2>1. r = ForgetWalking(n, w)
    BY <1>6 DEF ForgetWindow
  <2> HIDE DEF n
  <2>2. n.phase = "walking" /\ Steps(n, r, {w})
    BY <1>1, <1>6, <2>1, ForgetWalkingDrops, DroppedSteps DEF SamePoint
  <2> QED
    BY <1>1, <2>2, PointWalk DEF Steps
<1> QED
  BY <1>2, <1>4, <1>5, <1>6 DEF Phase

-----------------------------------------------------------------------------
(* What the windows are told *)

\* The event that tells a window to tear itself down, as the last one or not.
Tears(last) == [t |-> "quitTeardown", last |-> last]

Told(q) == \E b \in BOOLEAN : Holds(q, Tears(b))

\* A window that has been told, one that is not done with it, and one told that
\* it is the last.
Touched(w) == Told(toWin[w]) \/ view[w].td # "none"
Busy(w) == Told(toWin[w]) \/ view[w].td \in {"walk", "last"}
Final(w) == Holds(toWin[w], Tears(TRUE)) \/ view[w].td = "last"

\* Nothing is torn down before the walk begins; a window not done with its
\* teardown is the one the walk is at, or is being destroyed; a window that is
\* not there has been told nothing; and main comes last.
WalkInv ==
    /\ Begun(m) \/ \A w \in Window : ~Touched(w)
    /\ \A w \in live : Busy(w) => w \in dying \/ w \in Current(m)
    /\ \A w \in Window \ live : ~Touched(w)
    /\ MainLast(m)

\* A step after which the window w has no more to tear down than before.
Calmer(w) ==
    /\ \A b \in BOOLEAN : Holds(toWin'[w], Tears(b)) => Holds(toWin[w], Tears(b))
    /\ \/ view'[w].td \in {view[w].td, "none"}
       \/ view'[w].td = "walk" /\ Holds(toWin[w], Tears(FALSE))
       \/ view'[w].td = "last" /\ Holds(toWin[w], Tears(TRUE))
       \/ view'[w].td = "done" /\ view[w].td # "none"

LEMMA CalmerKeeps ==
    ASSUME NEW w, Calmer(w)
    PROVE  /\ Touched(w)' => Touched(w)
           /\ Busy(w)' => Busy(w)
           /\ Final(w)' => Final(w)
<1>1. Told(toWin'[w]) => Told(toWin[w])
  BY DEF Calmer, Told
<1>2. view'[w].td \in {"walk", "last"} => Busy(w)
  BY DEF Calmer, Busy, Told
<1>3. view'[w].td # "none" => Touched(w)
  BY DEF Calmer, Touched, Told
<1>4. view'[w].td = "last" => Final(w)
  BY DEF Calmer, Final
<1>5. Touched(w)' <=> Told(toWin'[w]) \/ view'[w].td # "none"
  BY DEF Touched, Told, Holds, Tears
<1>6. Busy(w)' <=> Told(toWin'[w]) \/ view'[w].td \in {"walk", "last"}
  BY DEF Busy, Told, Holds, Tears
<1>7. Final(w)' <=> Holds(toWin'[w], Tears(TRUE)) \/ view'[w].td = "last"
  BY DEF Final, Holds, Tears
<1>8. Touched(w)' => Touched(w)
  BY <1>1, <1>3, <1>5 DEF Touched
<1>9. Busy(w)' => Busy(w)
  BY <1>1, <1>2, <1>6 DEF Busy
<1>10. Final(w)' => Final(w)
  BY <1>4, <1>7 DEF Calmer, Final
<1> QED BY <1>8, <1>9, <1>10

\* A window that is not done was told.
LEMMA BusyIsTouched == ASSUME NEW w PROVE (Busy(w) => Touched(w)) /\ (Final(w) => Busy(w))
BY DEF Busy, Touched, Final, Told

\* Messages that come of a channel's growth, or its reading, or a transition.
LEMMA HoldsOld ==
    ASSUME NEW S, NEW q \in Seq(S), NEW c \in Seq(S), NEW e, Holds(q \o c, e)
    PROVE  Holds(q, e) \/ Holds(c, e)
<1>1. PICK i \in 1..Len(q \o c) : (q \o c)[i] = e
  BY DEF Holds
<1>2. CASE i <= Len(q)
  <2>1. i \in 1..Len(q) /\ q[i] = e
    BY <1>1, <1>2
  <2> QED BY <2>1 DEF Holds
<1>3. CASE i > Len(q)
  <2>1. i - Len(q) \in 1..Len(c) /\ c[i - Len(q)] = e
    BY <1>1, <1>3
  <2> QED BY <2>1 DEF Holds
<1> QED BY <1>1, <1>2, <1>3

LEMMA HoldsRest ==
    ASSUME NEW S, NEW q \in Seq(S), q # <<>>, NEW e, Holds(Tail(q), e)
    PROVE  Holds(q, e)
<1>1. PICK i \in 1..Len(Tail(q)) : Tail(q)[i] = e
  BY DEF Holds
<1>2. i + 1 \in 1..Len(q) /\ q[i + 1] = e
  BY <1>1
<1> QED BY <1>2 DEF Holds

LEMMA HoldsFew ==
    ASSUME NEW x, NEW e
    PROVE  ~Holds(<<>>, e) /\ (Holds(<<x>>, e) => x = e)
BY DEF Holds

LEMMA EmitsTears ==
    ASSUME NEW r, NEW w, NEW n \in Nat, NEW b \in BOOLEAN, Holds(Emits(r, w, n), Tears(b))
    PROVE  Teardown(w, b) \in r.acts
<1> DEFINE x == IF Owes(r, "requestAll") THEN <<[t |-> "quitRequested", n |-> n]>> ELSE <<>>
           y == IF Owes(r, "cancelAll") THEN <<[t |-> "quitCancelled"]>> ELSE <<>>
           l == Teardown(w, TRUE) \in r.acts
           z == IF \E c \in BOOLEAN : Teardown(w, c) \in r.acts THEN <<Tears(l)>> ELSE <<>>
           e == Tears(b)
<1>1. Emits(r, w, n) = x \o y \o z
  BY DEF Emits, Tears
<1>2. l \in BOOLEAN
  OBVIOUS
<1>3. /\ [t |-> "quitRequested", n |-> n] \in Event /\ [t |-> "quitCancelled"] \in Event
      /\ Tears(l) \in Event
  BY <1>2 DEF Event, Tears
<1>4. x \in Seq(Event) /\ y \in Seq(Event) /\ z \in Seq(Event)
  <2>1. \A a \in Event : <<a>> \in Seq(Event)
    OBVIOUS
  <2>2. x \in Seq(Event)
    BY <1>3, <2>1, EmptySeqs
  <2>3. y \in Seq(Event)
    BY <1>3, <2>1, EmptySeqs
  <2>4. z \in Seq(Event)
    <3> HIDE DEF l
    <3> QED BY <1>3, <2>1, EmptySeqs
  <2> QED BY <2>2, <2>3, <2>4
<1>5. /\ e.t = "quitTeardown" /\ e.last = b
      /\ [t |-> "quitRequested", n |-> n].t # "quitTeardown"
      /\ [t |-> "quitCancelled"].t # "quitTeardown"
  BY DEF Tears
<1>6. ~Holds(x, e) /\ ~Holds(y, e)
  BY <1>5, HoldsFew
<1>7. x \o y \in Seq(Event)
  BY <1>4
<1> HIDE DEF x, y, e
<1>8. Holds(z, e)
  <2> HIDE DEF z
  <2>1. Holds((x \o y) \o z, e)
    BY <1>1 DEF e
  <2> QED BY <1>4, <1>6, <1>7, <2>1, HoldsOld
<1> HIDE DEF l
<1>9. (\E c \in BOOLEAN : Teardown(w, c) \in r.acts) /\ Tears(l) = e
  BY <1>8, HoldsFew
<1>10. l = b
  <2>1. Tears(l).last = l
    BY DEF Tears
  <2> QED BY <1>5, <1>9, <2>1
<1>11. CASE b = TRUE
  BY <1>10, <1>11 DEF l
<1>12. CASE b = FALSE
  BY <1>9, <1>10, <1>12 DEF l
<1> QED BY <1>11, <1>12

-----------------------------------------------------------------------------
(* The windows a quit covers *)

\* The vote asks every window of L; the walk has every one ahead that is not in D.
Covers(k, L, D) ==
    /\ k.phase = "voting" => L \subseteq DOMAIN k.windows
    /\ k.phase = "walking" =>
          \A w \in L \ D : \E i \in 1..Len(k.order) : i >= k.index /\ k.order[i] = w

\* A transition carries over the windows its machine covers.
Carries(k, r, gone) ==
    \A L, D \in SUBSET Window :
        Covers(k, L, D) => Covers(r.m, L \ gone, D \cup {w \in Window : Destroy(w) \in r.acts})

LEMMA ExitCarries ==
    ASSUME NEW k, NEW n \in Machine, NEW gone
    PROVE  Carries(k, Exit(n), gone)
BY ExitPoint DEF Carries, Covers

LEMMA QuietCarries ==
    ASSUME NEW k, NEW r, NEW gone, r.m.phase = k.phase, r.m.order = k.order,
           r.m.index = k.index, DOMAIN k.windows \ gone \subseteq DOMAIN r.m.windows
    PROVE  Carries(k, r, gone)
BY DEF Carries, Covers

\* An order over a set of windows reaches each of them.
LEMMA OrdersReachAll ==
    ASSUME NEW S \in SUBSET Window, NEW o \in QuitOrders(S), NEW w \in S
    PROVE  \E i \in 1..Len(o) : o[i] = w
<1> DEFINE n == Cardinality(S)
<1>1. IsFiniteSet(S) /\ n \in Nat
  BY WindowsAreFinite, FS_Subset, FS_CardinalityType
<1>2. o \in [1..n -> S] /\ \A i, j \in 1..n : i # j => o[i] # o[j]
  BY DEF QuitOrders
<1>3. IsFiniteSet(1..n) /\ Cardinality(1..n) = n
  BY <1>1, FS_Interval
<1>4. o \in Injection(1..n, S)
  BY <1>2 DEF Injection, IsInjective
<1>5. o \in Surjection(1..n, S)
  <2> HIDE DEF n
  <2>1. Cardinality(1..n) = Cardinality(S)
    BY <1>3 DEF n
  <2> QED BY <1>1, <1>4, <2>1, FS_Injection
<1>6. PICK i \in 1..n : o[i] = w
  BY <1>5 DEF Surjection
<1>7. Len(o) = n
  BY <1>1, <1>2
<1> QED BY <1>6, <1>7

LEMMA StartWalkCarries ==
    ASSUME NEW k \in Machine, k.phase = "voting", NEW n \in Machine, NEW gone,
           DOMAIN k.windows \ gone \subseteq DOMAIN n.windows, NEW r \in StartWalk(n)
    PROVE  Carries(k, r, gone)
<1>1. CASE DOMAIN n.windows = {}
  BY <1>1, ExitCarries DEF StartWalk
<1>2. CASE DOMAIN n.windows # {}
  <2>1. /\ r.m.phase = "walking" /\ r.m.index = 1 /\ r.m.order \in QuitOrders(DOMAIN n.windows)
        /\ DOMAIN n.windows \in SUBSET Window
    BY <1>2, StartWalkPoint, EntryMapElim DEF Machine
  <2>2. \A w \in DOMAIN n.windows : \E i \in 1..Len(r.m.order) : r.m.order[i] = w
    BY <2>1, OrdersReachAll
  <2>3. \A i \in 1..Len(r.m.order) : i >= r.m.index
    BY <2>1
  <2> QED
    BY <2>1, <2>2, <2>3 DEF Carries, Covers
<1> QED BY <1>1, <1>2

LEMMA RequestCarries ==
    ASSUME NEW k \in Machine, NEW L \in SUBSET Window, NEW r, Asks(k, L, r)
    PROVE  Carries(k, r, Window \ L)
<1>1. CASE L = {}
  BY <1>1 DEF Asks, Carries, Covers
<1>2. CASE L # {}
  <2>1. /\ r.m.phase = IF k.phase = "walking" THEN "walking" ELSE "voting"
        /\ r.m.order = k.order /\ r.m.index = k.index /\ DOMAIN r.m.windows = L
    BY <1>2 DEF Asks
  <2> QED BY <2>1 DEF Carries, Covers
<1> QED BY <1>1, <1>2

LEMMA VoteCarries ==
    ASSUME NEW k \in Machine, NEW w \in Window, NEW r \in Vote(k, w)
    PROVE  Carries(k, r, {})
<1> DEFINE e == [EntryOf(k, w) EXCEPT !.voted = TRUE]
           n == WithEntry(k, w, e)
<1>1. e \in Entry
  BY EntryOfType DEF Entry
<1>2. n \in Machine /\ SamePoint(k, n) /\ DOMAIN n.windows = DOMAIN k.windows \cup {w}
  BY <1>1, WithEntryType, EntryPoint
<1>3. r = Result(k, {}) \/ r = Result(n, {}) \/ (k.phase = "voting" /\ r \in StartWalk(n))
  BY DEF Vote
<1> HIDE DEF n
<1>4. CASE r = Result(k, {}) \/ r = Result(n, {})
  <2>1. r.m = k \/ r.m = n
    BY <1>4 DEF Result
  <2> QED
    BY <1>2, <2>1, QuietCarries DEF SamePoint
<1>5. CASE k.phase = "voting" /\ r \in StartWalk(n)
  BY <1>2, <1>5, StartWalkCarries
<1> QED BY <1>3, <1>4, <1>5

LEMMA CancelCarries ==
    ASSUME NEW k \in Machine
    PROVE  Carries(k, Cancel(k), {})
<1>1. CASE Cancel(k).m = k
  BY <1>1, QuietCarries
<1>2. CASE Cancel(k).m.phase = "idle"
  BY <1>2 DEF Carries, Covers
<1> QED BY <1>1, <1>2, CancelPoint

LEMMA WindowDoneCarries ==
    ASSUME NEW k \in Machine, NEW w \in Window
    PROVE  Carries(k, WindowDone(k, w), {})
<1> DEFINE r == WindowDone(k, w)
<1> SUFFICES Carries(k, r, {})
  OBVIOUS
<1>1. CASE w \notin Current(k)
  <2>1. r.m = k
    BY <1>1 DEF WindowDone, Result
  <2> HIDE DEF r
  <2> QED BY <2>1, QuietCarries
<1>2. CASE w \in Current(k)
  <2>1. /\ r.m.phase = "walking" /\ r.m.order = k.order /\ r.m.index = k.index + 1
        /\ Destroy(w) \in r.acts
    BY <1>2, WindowDonePoint
  <2>2. k.phase = "walking" /\ k.order[k.index] = w /\ k.index \in Nat
    BY <1>2 DEF Current, Machine
  <2> HIDE DEF r
  <2>3. SUFFICES ASSUME NEW L \in SUBSET Window, NEW D \in SUBSET Window, Covers(k, L, D),
                        NEW v \in L \ (D \cup {x \in Window : Destroy(x) \in r.acts})
                 PROVE  \E i \in 1..Len(r.m.order) : i >= r.m.index /\ r.m.order[i] = v
    BY <2>1 DEF Carries, Covers
  <2>4. v # w /\ v \in L \ D
    BY <2>1
  <2>5. PICK i \in 1..Len(k.order) : i >= k.index /\ k.order[i] = v
    BY <2>2, <2>3, <2>4 DEF Covers
  <2>6. i # k.index
    BY <2>2, <2>4, <2>5
  <2>7. i >= k.index + 1
    BY <2>2, <2>5, <2>6
  <2> QED BY <2>1, <2>5, <2>7
<1> QED BY <1>1, <1>2

LEMMA ProceedCarries ==
    ASSUME NEW k \in Machine
    PROVE  Carries(k, Proceed(k), {})
<1> DEFINE n == [k EXCEPT !.approved = TRUE]
           r == Proceed(k)
<1>1. n.phase = k.phase /\ n.order = k.order /\ n.index = k.index /\ n.windows = k.windows
  BY ApprovedPoint
<1>2. r.m = n
  BY DEF Proceed, Result
<1> HIDE DEF n, r
<1>3. Carries(k, r, {})
  BY <1>1, <1>2, QuietCarries
<1> QED BY <1>3 DEF r

LEMMA DroppedCarries ==
    ASSUME NEW k \in Machine, k.phase = "walking", NEW w, NEW r, Drops(k, w, r)
    PROVE  Carries(k, r, {w})
<1>1. k.order \in Seq(Window) /\ k.index \in Nat \ {0} /\ Len(k.order) \in Nat
  BY DEF Machine
<1>2. CASE r = Result(k, {})
  <2>1. r.m = k
    BY <1>2 DEF Result
  <2> QED BY <2>1, QuietCarries
<1>3. CASE r # Result(k, {})
  <2>1. PICK at \in 1..Len(k.order), n \in Machine :
          /\ k.order[at] = w
          /\ n.phase = "walking"
          /\ n.order = DropAt(k.order, at)
          /\ n.index = IF at < k.index THEN k.index - 1 ELSE k.index
          /\ r = Exit(n) \/ r.m = n
    BY <1>3 DEF Drops, Result
  <2>2. CASE r = Exit(n)
    BY <2>2, ExitCarries
  <2>3. CASE r.m = n
    <3> DEFINE s == k.order
               d == DropAt(s, at)
    <3>1. n.order = d /\ s \in Seq(Window) /\ at \in 1..Len(s) /\ s[at] = w /\ Len(s) \in Nat
      BY <1>1, <2>1
    <3>2. /\ Len(d) = Len(s) - 1
          /\ \A i \in 1..Len(s) : i < at => d[i] = s[i]
          /\ \A i \in 1..Len(s) : i > at => d[i - 1] = s[i]
      <4> HIDE DEF s
      <4> QED BY <3>1, DroppedAt
    <3>3. SUFFICES ASSUME NEW L \in SUBSET Window, NEW D \in SUBSET Window, Covers(k, L, D),
                          NEW v \in (L \ {w}) \ D
                   PROVE  \E i \in 1..Len(n.order) : i >= n.index /\ n.order[i] = v
      BY <2>1, <2>3 DEF Carries, Covers
    <3>4. PICK i \in 1..Len(s) : i >= k.index /\ s[i] = v
      BY <3>3 DEF Covers
    <3> HIDE DEF s, d
    <3>5. i # at
      BY <3>1, <3>4
    <3>6. CASE i < at
      <4>1. d[i] = v /\ i \in 1..Len(d) /\ i >= n.index
        BY <1>1, <2>1, <3>1, <3>2, <3>4, <3>6
      <4> QED BY <3>1, <4>1
    <3>7. CASE i > at
      <4>1. d[i - 1] = v /\ i - 1 \in 1..Len(d) /\ i - 1 >= n.index
        BY <1>1, <2>1, <3>1, <3>2, <3>4, <3>7
      <4> QED BY <3>1, <4>1
    <3> QED BY <3>1, <3>5, <3>6, <3>7
  <2> QED BY <2>1, <2>2, <2>3
<1> QED BY <1>2, <1>3

LEMMA ForgetWindowCarries ==
    ASSUME NEW k \in Machine, NEW w \in Window, NEW r \in ForgetWindow(k, w)
    PROVE  Carries(k, r, {w})
<1> DEFINE n == WithoutEntry(k, w)
<1>1. n \in Machine /\ SamePoint(k, n) /\ DOMAIN n.windows = DOMAIN k.windows \ {w}
  BY WithoutEntryType, EntryPoint
<1>2. k.phase \in Phase
  BY DEF Machine
<1>3. ASSUME r = Result(n, {}) PROVE Carries(k, r, {w})
  <2>1. r.m = n
    BY <1>3 DEF Result
  <2> HIDE DEF n
  <2> QED BY <1>1, <2>1, QuietCarries DEF SamePoint
<1>4. CASE k.phase = "idle"
  BY <1>3, <1>4 DEF ForgetWindow
<1>5. CASE k.phase = "voting"
  <2>1. r \in ForgetVoting(n)
    BY <1>5 DEF ForgetWindow
  <2>2. r = Exit(n) \/ r \in StartWalk(n) \/ r = Result(n, {})
    BY <2>1 DEF ForgetVoting
  <2> HIDE DEF n
  <2> QED
    BY <1>1, <1>3, <1>5, <2>2, ExitCarries, StartWalkCarries
<1>6. CASE k.phase = "walking"
  <2>1. r = ForgetWalking(n, w)
    BY <1>6 DEF ForgetWindow
  <2> HIDE DEF n
  <2>2. n.phase = "walking" /\ Carries(n, r, {w})
    BY <1>1, <1>6, <2>1, ForgetWalkingDrops, DroppedCarries DEF SamePoint
  <2>3. \A L, D \in SUBSET Window : Covers(k, L, D) => Covers(n, L, D)
    BY <1>1, <1>6 DEF Covers, SamePoint
  <2> QED
    BY <2>2, <2>3 DEF Carries
<1> QED
  BY <1>2, <1>4, <1>5, <1>6 DEF Phase

-----------------------------------------------------------------------------
(* What a step does to the walk *)

\* It leaves the walk where it is: nobody has more to tear down, and no window
\* goes.
Rests ==
    /\ \A w \in Window : Calmer(w)
    /\ m'.phase = m.phase /\ m'.order = m.order /\ m'.index = m.index
    /\ Begun(m) => Begun(m')
    /\ DOMAIN m.windows \subseteq DOMAIN m'.windows
    /\ live \subseteq live' /\ dying \subseteq dying'

\* Or it performs a transition of the quit machine.
Performs(r, gone) ==
    /\ Steps(m, r, gone) /\ Carries(m, r, gone)
    /\ m' = r.m \/ m' = [r.m EXCEPT !.approved = TRUE]
    /\ live' = live \ gone
    /\ dying' = (dying \cup {w \in Window : Destroy(w) \in r.acts}) \cap live'
    /\ \A w \in Window, b \in BOOLEAN : Holds(toWin'[w], Tears(b)) =>
          Holds(toWin[w], Tears(b)) \/ (w \in live' /\ Teardown(w, b) \in r.acts)
    /\ \A w \in Window : view'[w].td \in {view[w].td, "none"}
    /\ \A w \in live \ live' : ~Touched(w)'

Walks == Rests \/ \E r, gone : Performs(r, gone)

\* The machine a transition leaves walks as the transition says, approved or not.
LEMMA PerformedPoint ==
    ASSUME NEW r, NEW gone, Performs(r, gone)
    PROVE  /\ Current(m') = Current(r.m) /\ m'.order = r.m.order /\ m'.index = r.m.index
           /\ m'.phase = r.m.phase /\ m'.windows = r.m.windows
           /\ MainLast(r.m) => MainLast(m')
           /\ Begun(r.m) => Begun(m')
<1>1. r.m \in Machine
  BY DEF Performs, Steps
<1>2. CASE m' = r.m
  BY <1>2
<1>3. CASE m' = [r.m EXCEPT !.approved = TRUE]
  BY <1>1, <1>3, ApprovedPoint
<1> QED BY <1>2, <1>3 DEF Performs

\* A window torn down after a transition was before, or has just been told.
LEMMA PerformedTears ==
    ASSUME NEW r, NEW gone, Performs(r, gone), NEW w \in Window
    PROVE  /\ Touched(w)' => Touched(w) \/ (w \in live' /\ \E b \in BOOLEAN : Teardown(w, b) \in r.acts)
           /\ Busy(w)' => Busy(w) \/ (w \in live' /\ \E b \in BOOLEAN : Teardown(w, b) \in r.acts)
           /\ Final(w)' => Final(w) \/ (w \in live' /\ Teardown(w, TRUE) \in r.acts)
<1>1. /\ \A b \in BOOLEAN : Holds(toWin'[w], Tears(b)) =>
            Holds(toWin[w], Tears(b)) \/ (w \in live' /\ Teardown(w, b) \in r.acts)
      /\ view'[w].td \in {view[w].td, "none"}
  BY DEF Performs
<1>2. Told(toWin'[w]) => Told(toWin[w]) \/ (w \in live' /\ \E b \in BOOLEAN : Teardown(w, b) \in r.acts)
  BY <1>1 DEF Told
<1>3. Touched(w)' <=> Told(toWin'[w]) \/ view'[w].td # "none"
  BY DEF Touched, Told, Holds, Tears
<1>4. Busy(w)' <=> Told(toWin'[w]) \/ view'[w].td \in {"walk", "last"}
  BY DEF Busy, Told, Holds, Tears
<1>5. Final(w)' <=> Holds(toWin'[w], Tears(TRUE)) \/ view'[w].td = "last"
  BY DEF Final, Holds, Tears
<1>6. Touched(w)' => Touched(w) \/ (w \in live' /\ \E b \in BOOLEAN : Teardown(w, b) \in r.acts)
  BY <1>1, <1>2, <1>3 DEF Touched
<1>7. Busy(w)' => Busy(w) \/ (w \in live' /\ \E b \in BOOLEAN : Teardown(w, b) \in r.acts)
  BY <1>1, <1>2, <1>4 DEF Busy
<1>8. Final(w)' => Final(w) \/ (w \in live' /\ Teardown(w, TRUE) \in r.acts)
  BY <1>1, <1>5 DEF Final
<1> QED BY <1>6, <1>7, <1>8

\* Every such step keeps the invariant of the walk.
LEMMA WalksKeep ==
    ASSUME TypeOK, TypeOK', WalkInv, Walks
    PROVE  WalkInv'
<1>1. live \subseteq Window /\ live' \subseteq Window
  BY DEF TypeOK
<1>2. CASE Rests
  <2>1. \A w \in Window : (Touched(w)' => Touched(w)) /\ (Busy(w)' => Busy(w))
    BY <1>2, CalmerKeeps DEF Rests
  <2>2. Current(m') = Current(m) /\ (MainLast(m) => MainLast(m')) /\ (Begun(m) => Begun(m'))
    BY <1>2 DEF Rests, Current, MainLast
  <2>3. Begun(m') \/ \A w \in Window : ~Touched(w)'
    BY <2>1, <2>2 DEF WalkInv
  <2>4. ASSUME NEW w \in live', Busy(w)' PROVE w \in dying' \/ w \in Current(m')
    <3>1. Busy(w) /\ Touched(w)
      BY <1>1, <2>1, <2>4, BusyIsTouched
    <3>2. w \in live
      BY <1>1, <3>1 DEF WalkInv
    <3> QED BY <1>2, <2>2, <3>1, <3>2 DEF WalkInv, Rests
  <2>5. \A w \in Window \ live' : ~Touched(w)'
    BY <1>2, <2>1 DEF WalkInv, Rests
  <2>6. MainLast(m')
    BY <2>2 DEF WalkInv
  <2> QED
    BY <2>3, <2>4, <2>5, <2>6 DEF WalkInv, Begun, MainLast, Current
<1>3. ASSUME NEW r, NEW gone, Performs(r, gone) PROVE WalkInv'
  <2>1. /\ r.m \in Machine /\ (MainLast(m) => MainLast(r.m)) /\ (Begun(m) => Begun(r.m))
        /\ \A w \in Window, b \in BOOLEAN : Teardown(w, b) \in r.acts => w \in Current(r.m)
        /\ \A w \in Current(m) \ gone : w \in Current(r.m) \/ Destroy(w) \in r.acts
    BY <1>3 DEF Performs, Steps
  <2>2. Current(m') = Current(r.m) /\ (MainLast(r.m) => MainLast(m')) /\ (Begun(r.m) => Begun(m'))
    BY <1>3, PerformedPoint
  <2>3. \A w \in Window :
          /\ Touched(w)' => Touched(w) \/ (w \in live' /\ \E b \in BOOLEAN : Teardown(w, b) \in r.acts)
          /\ Busy(w)' => Busy(w) \/ (w \in live' /\ \E b \in BOOLEAN : Teardown(w, b) \in r.acts)
    BY <1>3, PerformedTears
  <2>4. Begun(m') \/ \A w \in Window : ~Touched(w)'
    <3>1. ASSUME NEW w \in Window, NEW b \in BOOLEAN, Teardown(w, b) \in r.acts PROVE Begun(r.m)
      BY <2>1, <3>1 DEF Current, Begun
    <3> QED BY <2>1, <2>2, <2>3, <3>1 DEF WalkInv
  <2>5. ASSUME NEW w \in live', Busy(w)' PROVE w \in dying' \/ w \in Current(m')
    <3>1. CASE \E b \in BOOLEAN : Teardown(w, b) \in r.acts
      BY <1>1, <2>1, <2>2, <3>1
    <3>2. CASE Busy(w)
      <4>1. w \in live /\ w \notin gone /\ w \in Window
        BY <1>1, <1>3, <2>5 DEF Performs
      <4>2. w \in dying \/ w \in Current(m)
        BY <3>2, <4>1 DEF WalkInv
      <4> QED BY <1>3, <2>1, <2>2, <2>5, <4>1, <4>2 DEF Performs
    <3> QED BY <1>1, <2>3, <2>5, <3>1, <3>2
  <2>6. \A w \in Window \ live' : ~Touched(w)'
    BY <1>3, <2>3 DEF WalkInv, Performs
  <2>7. MainLast(m')
    BY <2>1, <2>2 DEF WalkInv
  <2> QED
    BY <2>4, <2>5, <2>6, <2>7 DEF WalkInv, Begun, MainLast, Current
<1> QED BY <1>2, <1>3 DEF Walks

\* apply_quit_actions performs its transition.
LEMMA ApplyPerforms ==
    ASSUME TypeOK, NEW r, NEW gone, Steps(m, r, gone), Carries(m, r, gone),
           NEW s, NEW wd, NEW n \in Nat, Apply(r, s, wd, n),
           s.live = live \ gone, live' = s.live, s.toWin \in [Window -> Seq(Event)],
           \A w \in Window : s.toWin[w] \in {toWin[w], <<>>} /\ view'[w].td \in {view[w].td, "none"},
           \A w \in live \ s.live : s.toWin[w] = <<>> /\ view'[w].td = "none"
    PROVE  Walks
<1>1. m' = r.m \/ m' = [r.m EXCEPT !.approved = TRUE]
  BY DEF Apply
<1>2. dying' = (dying \cup {w \in Window : Destroy(w) \in r.acts}) \cap live'
  BY DEF Apply
<1>3. toWin' = [w \in Window |-> IF w \in s.live THEN s.toWin[w] \o Emits(r, w, n) ELSE s.toWin[w]]
  BY DEF Apply
<1>4. ASSUME NEW w \in Window, NEW b \in BOOLEAN, Holds(toWin'[w], Tears(b))
      PROVE  Holds(toWin[w], Tears(b)) \/ (w \in live' /\ Teardown(w, b) \in r.acts)
  <2>1. s.toWin[w] \in Seq(Event) /\ Emits(r, w, n) \in Seq(Event)
    BY EmitsType
  <2>2. Holds(s.toWin[w], Tears(b)) => Holds(toWin[w], Tears(b))
    BY HoldsFew
  <2>3. CASE w \in s.live
    <3>1. toWin'[w] = s.toWin[w] \o Emits(r, w, n)
      BY <1>3, <2>3
    <3>2. Holds(s.toWin[w], Tears(b)) \/ Holds(Emits(r, w, n), Tears(b))
      BY <1>4, <2>1, <3>1, HoldsOld
    <3> QED BY <2>2, <2>3, <3>2, EmitsTears
  <2>4. CASE w \notin s.live
    <3>1. toWin'[w] = s.toWin[w]
      BY <1>3, <2>4
    <3> QED BY <1>4, <2>2, <3>1
  <2> QED BY <2>3, <2>4
<1>5. ASSUME NEW w \in live \ live' PROVE ~Touched(w)'
  <2>1. toWin'[w] = <<>> /\ view'[w].td = "none"
    BY <1>3 DEF TypeOK
  <2> QED BY <2>1, HoldsFew DEF Touched, Told, Tears
<1> QED
  BY <1>1, <1>2, <1>4, <1>5 DEF Performs, Walks

\* So does every handler that leaves the windows and their webviews alone.
LEMMA HandlerPerforms ==
    ASSUME TypeOK, NEW r, NEW gone, gone \cap live = {}, Steps(m, r, gone), Carries(m, r, gone),
           NEW s, s.live = live, s.toWin = toWin, NEW wd, NEW n \in Nat, Apply(r, s, wd, n),
           live' = live, view' = view
    PROVE  Walks
<1>1. s.live = live \ gone /\ live' = s.live /\ live \ s.live = {}
  OBVIOUS
<1>2. s.toWin \in [Window -> Seq(Event)]
  BY DEF TypeOK
<1> QED
  BY <1>1, <1>2, ApplyPerforms

LEMMA UntouchedCalm ==
    ASSUME NEW w, toWin'[w] = toWin[w], view'[w].td = view[w].td
    PROVE  Calmer(w)
BY DEF Calmer

\* A step that touches neither the webviews nor the point the machine is at, and
\* only adds to what is open and what is being destroyed.
LEMMA StillRests ==
    ASSUME toWin' = toWin, view' = view, live' = live, dying \subseteq dying',
           m' = m \/ (SamePoint(m, m') /\ DOMAIN m.windows \subseteq DOMAIN m'.windows)
                  \/ (m \in Machine /\ m' = [m EXCEPT !.approved = TRUE])
    PROVE  Walks
<1>1. \A w \in Window : Calmer(w)
  BY UntouchedCalm
<1>2. /\ m'.phase = m.phase /\ m'.order = m.order /\ m'.index = m.index
      /\ Begun(m) => Begun(m')
      /\ DOMAIN m.windows \subseteq DOMAIN m'.windows
  <2>1. CASE m' = m
    BY <2>1
  <2>2. CASE SamePoint(m, m') /\ DOMAIN m.windows \subseteq DOMAIN m'.windows
    BY <2>2, PointWalk DEF SamePoint
  <2>3. CASE m \in Machine /\ m' = [m EXCEPT !.approved = TRUE]
    BY <2>3, ApprovedPoint
  <2> QED BY <2>1, <2>2, <2>3
<1> QED
  BY <1>1, <1>2 DEF Walks, Rests

-----------------------------------------------------------------------------
(* Every step walks or rests *)

\* request_quit, deferred or asked.
LEMMA RequestQuitWalks ==
    ASSUME TypeOK, NEW restart \in BOOLEAN, NEW q, NEW s, s.live = live, s.toWin = toWin,
           NEW n \in Nat, RequestQuit(restart, q, s, n), live' = live, view' = view
    PROVE  Walks
<1>1. CASE q.records # {}
  <2>1. UNCHANGED <<m, toWin, dying>>
    BY <1>1 DEF RequestQuit
  <2> QED BY <2>1, StillRests
<1>2. CASE q.records = {}
  <2> DEFINE r == Request(m, live, restart)
             wd == {[kind |-> "ack", seq |-> r.m.seq, n |-> n]}
             gone == Window \ live
  <2>1. Apply(r, s, wd, n)
    BY <1>2 DEF RequestQuit
  <2>2. m \in Machine /\ live \in SUBSET Window
    BY DEF TypeOK
  <2>3. Steps(m, r, gone)
    BY <2>2, RequestSteps
  <2>4. Carries(m, r, gone)
    BY <2>2, RequestPoint, RequestCarries
  <2>5. gone \cap live = {}
    OBVIOUS
  <2> HIDE DEF r, wd, gone
  <2> QED
    BY <2>1, <2>3, <2>4, <2>5, HandlerPerforms
<1> QED BY <1>1, <1>2

\* request_window_close.
LEMMA RequestWindowCloseWalks ==
    ASSUME TypeOK, NEW S, NEW q, NEW n \in Nat, RequestWindowClose(S, q, n),
           live' = live, view' = view
    PROVE  Walks
<1> DEFINE e == [t |-> "closeRequested", n |-> n]
<1>1. /\ UNCHANGED <<m, dying>>
      /\ toWin' = [w \in Window |-> IF w \in S \ {u \in S : Endpoint(q, u)}
                                    THEN Append(toWin[w], e) ELSE toWin[w]]
  BY DEF RequestWindowClose
<1>2. ASSUME NEW w \in Window PROVE Calmer(w)
  <2>1. toWin[w] \in Seq(Event) /\ e \in Event
    BY DEF TypeOK, Event
  <2>2. toWin'[w] = toWin[w] \/ toWin'[w] = toWin[w] \o <<e>>
    BY <1>1, <2>1
  <2>3. ASSUME NEW b \in BOOLEAN, Holds(toWin'[w], Tears(b)) PROVE Holds(toWin[w], Tears(b))
    <3> DEFINE x == Tears(b)
               c == <<e>>
    <3>1. x # e
      BY DEF Tears
    <3>2. ~Holds(c, x) /\ c \in Seq(Event)
      BY <2>1, <3>1, HoldsFew
    <3> HIDE DEF x, c
    <3>3. Holds(toWin'[w], x)
      BY <2>3 DEF x
    <3>4. Holds(toWin[w], x)
      BY <2>1, <2>2, <3>2, <3>3, HoldsOld DEF c
    <3> QED BY <3>4 DEF x
  <2> QED BY <2>3 DEF Calmer
<1> QED
  BY <1>1, <1>2 DEF Walks, Rests

\* What the user, the OS and posted closures ask for.
LEMMA RequestsWalk ==
    ASSUME TypeOK, Redrive \/ ExitRequested \/ (\E restart \in BOOLEAN : TriggerQuit(restart))
                     \/ \E w \in Window : CloseButton(w)
    PROVE  Walks
<1>1. triggers \in Nat /\ triggers' \in Nat /\ live \in SUBSET Window /\ queue \in Queue
  <2>1. triggers' = triggers \/ triggers' = triggers + 1
    BY DEF Redrive, ExitRequested, TriggerQuit, CloseButton, boundVars
  <2> QED BY <2>1 DEF TypeOK
<1>2. UNCHANGED <<view, live>>
  BY DEF Redrive, ExitRequested, TriggerQuit, CloseButton
<1>3. Now.live = live /\ Now.toWin = toWin
  BY DEF Now
<1>4. ASSUME NEW S \in SUBSET Window, NEW q, NEW n \in Nat, RequestCloseOrQuit(S, q, n)
      PROVE  Walks
  BY <1>2, <1>3, <1>4, RequestWindowCloseWalks, RequestQuitWalks DEF RequestCloseOrQuit
<1>5. CASE Redrive
  <2> DEFINE ready == TakeReady(queue, live)
             restart == ready.quit = "restart"
  <2>1. \/ RequestQuit(restart, ready.q, Now, triggers)
        \/ RequestCloseOrQuit(ready.closes, ready.q, triggers)
        \/ UNCHANGED <<m, toWin, dying>>
    BY <1>5 DEF Redrive
  <2>2. ready.closes \in SUBSET Window /\ restart \in BOOLEAN
    BY <1>1, TakeReadyType
  <2> HIDE DEF ready, restart
  <2>3. CASE RequestQuit(restart, ready.q, Now, triggers)
    BY <1>1, <1>2, <1>3, <2>2, <2>3, RequestQuitWalks
  <2>4. CASE UNCHANGED <<m, toWin, dying>>
    BY <1>2, <2>4, StillRests
  <2> QED
    BY <1>1, <1>4, <2>1, <2>2, <2>3, <2>4
<1>6. CASE ExitRequested
  <2>1. CASE m.approved
    <3>1. UNCHANGED <<m, toWin, dying>>
      BY <1>6, <2>1 DEF ExitRequested
    <3> QED BY <1>2, <3>1, StillRests
  <2>2. CASE ~m.approved
    <3> DEFINE s == [Now EXCEPT !.posted = FALSE]
    <3>1. s.toWin = toWin /\ s.live = live /\ RequestQuit(FALSE, queue, s, triggers)
      BY <1>6, <2>2 DEF ExitRequested, Now
    <3> HIDE DEF s
    <3> QED BY <1>1, <1>2, <3>1, RequestQuitWalks
  <2> QED BY <2>1, <2>2
<1>7. ASSUME NEW restart \in BOOLEAN, TriggerQuit(restart) PROVE Walks
  BY <1>1, <1>2, <1>3, <1>7, RequestQuitWalks DEF TriggerQuit
<1>8. ASSUME NEW w \in Window, CloseButton(w) PROVE Walks
  <2>1. CASE m.approved
    <3>1. UNCHANGED <<m, toWin>> /\ dying \subseteq dying'
      BY <1>8, <2>1 DEF CloseButton
    <3> QED BY <1>2, <3>1, StillRests
  <2>2. CASE ~m.approved
    <3>1. RequestCloseOrQuit({w}, queue, triggers') /\ {w} \in SUBSET Window
      BY <1>8, <2>2 DEF CloseButton
    <3> QED BY <1>1, <1>4, <3>1
  <2> QED BY <2>1, <2>2
<1> QED
  BY <1>5, <1>6, <1>7, <1>8

\* A quiet transition: the machine stays where it is and no window is told.
LEMMA QuietWalks ==
    ASSUME NEW k \in Machine, NEW acts, acts \subseteq {ExitApp}, NEW gone
    PROVE  Steps(k, Result(k, acts), gone) /\ Carries(k, Result(k, acts), gone)
<1> DEFINE r == Result(k, acts)
<1>1. r.m = k /\ r.acts = acts
  BY DEF Result
<1>2. \A w, b : Teardown(w, b) \notin r.acts
  BY <1>1, ActionTags
<1>3. SamePoint(k, k)
  BY DEF SamePoint
<1> HIDE DEF r
<1>4. Steps(k, r, gone)
  BY <1>1, <1>2, <1>3, QuietSteps
<1>5. Carries(k, r, gone)
  BY <1>1, QuietCarries
<1> QED BY <1>4, <1>5 DEF r

\* The commands of the quit.
LEMMA QuitCommandsWalk ==
    ASSUME TypeOK, NEW w \in Window,
           \/ QuitAck(w) \/ QuitProgress(w) \/ QuitVote(w) \/ QuitCancel(w)
           \/ QuitWindowDone(w) \/ QuitProceed(w)
    PROVE  Walks
<1> DEFINE none == {}
<1>1. m \in Machine /\ triggers \in Nat /\ none \cap live = {}
  BY DEF TypeOK
<1>2. live' = live /\ view' = view
  BY DEF QuitAck, QuitProgress, QuitVote, QuitCancel, QuitWindowDone, QuitProceed
<1>3. Now.live = live /\ Now.toWin = toWin
  BY DEF Now
<1>4. CASE QuitAck(w) \/ QuitProgress(w)
  <2>1. \E e \in Entry : m' = WithEntry(m, w, e)
    <3>1. EntryOf(m, w) \in Entry /\ [EntryOf(m, w) EXCEPT !.acked = TRUE] \in Entry
      BY <1>1, EntryOfType DEF Entry
    <3> QED BY <1>4, <3>1 DEF QuitAck, QuitProgress, Ack, Progress
  <2>2. SamePoint(m, m') /\ DOMAIN m.windows \subseteq DOMAIN m'.windows
    BY <1>1, <2>1, EntryPoint
  <2>3. UNCHANGED <<toWin, dying>>
    BY <1>4 DEF QuitAck, QuitProgress
  <2> QED BY <1>2, <2>2, <2>3, StillRests
<1>5. ASSUME NEW r, Steps(m, r, none), Carries(m, r, none), Apply(r, Now, {}, triggers)
      PROVE  Walks
  <2> HIDE DEF none
  <2> QED BY <1>1, <1>2, <1>3, <1>5, HandlerPerforms
<1>6. CASE QuitVote(w)
  <2>1. PICK r \in Vote(m, w) : Apply(r, Now, {}, triggers)
    BY <1>6 DEF QuitVote
  <2> QED BY <1>1, <1>5, <2>1, VoteSteps, VoteCarries
<1>7. CASE QuitCancel(w)
  BY <1>1, <1>5, <1>7, CancelSteps, CancelCarries DEF QuitCancel
<1>8. CASE QuitWindowDone(w)
  BY <1>1, <1>5, <1>8, WindowDoneSteps, WindowDoneCarries DEF QuitWindowDone
<1>9. CASE QuitProceed(w)
  BY <1>1, <1>5, <1>9, ProceedSteps, ProceedCarries DEF QuitProceed
<1> QED
  BY <1>4, <1>6, <1>7, <1>8, <1>9

\* The commands of a close.
LEMMA CloseCommandsWalk ==
    ASSUME TypeOK, NEW w \in Window,
           WindowCloseAck(w) \/ WindowCloseCancel(w) \/ RemoveWindowSession(w) \/ CloseWindow(w)
    PROVE  Walks
<1>1. UNCHANGED <<m, live, toWin>> /\ dying \subseteq dying'
  BY DEF WindowCloseAck, WindowCloseCancel, RemoveWindowSession, CloseWindow, FinishWindowClose
<1>2. CASE view' = view
  BY <1>1, <1>2, StillRests
<1>3. CASE RemoveWindowSession(w)
  <2>1. view \in [Window -> View] /\ view' = [view EXCEPT ![w].close = "killing"]
    BY <1>3 DEF RemoveWindowSession, TypeOK
  <2>2. \A u \in Window : view'[u].td = view[u].td
    BY <2>1 DEF View
  <2>3. \A u \in Window : Calmer(u)
    BY <1>1, <2>2, UntouchedCalm
  <2> QED BY <1>1, <2>3 DEF Walks, Rests
<1> QED
  BY <1>2, <1>3 DEF WindowCloseAck, WindowCloseCancel, CloseWindow

\* A window that is destroyed takes its teardown with it.
LEMMA DestroyedWalks ==
    ASSUME TypeOK, NEW w \in Window, Destroyed(w)
    PROVE  Walks
<1> DEFINE rest == live \ {w}
           g == IF {a \in queue.records : a.to = w} # {} THEN GateBegin(gate) ELSE gate
           s == [Now EXCEPT !.live = rest, !.toWin[w] = <<>>, !.gate = g]
           gone == {w}
<1>1. /\ toWin \in [Window -> Seq(Event)] /\ view \in [Window -> View]
      /\ triggers \in Nat /\ m \in Machine /\ live \in SUBSET Window
      /\ view' = [view EXCEPT ![w] = NewView] /\ live' = rest
  BY DEF TypeOK, Destroyed
<1>2. PICK r \in IF m.approved THEN {Result(m, {})} ELSE ForgetWindow(m, w) :
         Apply(r, s, {}, triggers)
  BY DEF Destroyed
<1>3. s.toWin = [toWin EXCEPT ![w] = <<>>] /\ s.live = rest
  BY DEF Now
<1> HIDE DEF s
<1>4. Steps(m, r, gone) /\ Carries(m, r, gone)
  <2>1. CASE m.approved
    <3> DEFINE none == {}
    <3>1. r = Result(m, none) /\ none \subseteq {ExitApp}
      BY <1>2, <2>1
    <3> HIDE DEF none, gone
    <3> QED BY <1>1, <3>1, QuietWalks
  <2>2. CASE ~m.approved
    BY <1>1, <1>2, <2>2, ForgetWindowSteps, ForgetWindowCarries
  <2> QED BY <2>1, <2>2
<1>5. s.live = live \ gone /\ live' = s.live
  BY <1>1, <1>3
<1>6. s.toWin \in [Window -> Seq(Event)]
  BY <1>1, <1>3, EmptySeqs
<1>7. ASSUME NEW u \in Window
      PROVE  /\ s.toWin[u] \in {toWin[u], <<>>} /\ view'[u].td \in {view[u].td, "none"}
             /\ u = w => s.toWin[u] = <<>> /\ view'[u].td = "none"
  BY <1>1, <1>3 DEF NewView
<1>8. \A u \in live \ s.live : s.toWin[u] = <<>> /\ view'[u].td = "none"
  BY <1>1, <1>3, <1>7
<1> HIDE DEF gone
<1> QED
  BY <1>1, <1>2, <1>4, <1>5, <1>6, <1>7, <1>8, ApplyPerforms

\* The watchdogs: those that give up approve the exit.
LEMMA WatchdogsWalk ==
    ASSUME TypeOK, NEW wd \in watch,
           QuitAckTimeout(wd) \/ QuitStallTimeout(wd) \/ CloseAckTimeout(wd) \/ GateTimeout(wd)
    PROVE  Walks
<1>1. UNCHANGED <<toWin, view, live>>
  BY DEF QuitAckTimeout, QuitStallTimeout, CloseAckTimeout, GateTimeout, viewVars
<1>2. dying \subseteq dying'
  BY DEF QuitAckTimeout, QuitStallTimeout, CloseAckTimeout, GateTimeout, FinishWindowClose
<1>3. m' = m \/ m' = [m EXCEPT !.approved = TRUE]
  BY DEF QuitAckTimeout, QuitStallTimeout, CloseAckTimeout, GateTimeout, GiveUp
<1>4. m \in Machine
  BY DEF TypeOK
<1> QED
  BY <1>1, <1>2, <1>3, <1>4, StillRests

\* A step of one webview, which reads an event or none.
LEMMA ViewStepWalks ==
    ASSUME TypeOK, NEW w \in Window, NEW v, NEW c, ViewStep(w, v, c),
           toWin' = toWin \/ (toWin[w] # <<>> /\ TakeEvent(w)),
           \/ v.td = view[w].td
           \/ v.td = "walk" /\ Holds(toWin[w], Tears(FALSE))
           \/ v.td = "last" /\ Holds(toWin[w], Tears(TRUE))
           \/ v.td = "done" /\ view[w].td # "none"
    PROVE  Walks
<1>1. /\ UNCHANGED <<m, live, dying>> /\ view' = [view EXCEPT ![w] = v]
      /\ view \in [Window -> View] /\ toWin \in [Window -> Seq(Event)]
  BY DEF ViewStep, hostVars, TypeOK
<1>2. ASSUME NEW u \in Window, NEW b \in BOOLEAN, Holds(toWin'[u], Tears(b))
      PROVE  Holds(toWin[u], Tears(b))
  <2>1. CASE toWin'[u] = toWin[u]
    BY <1>2, <2>1
  <2>2. CASE toWin[u] # <<>> /\ toWin'[u] = Tail(toWin[u])
    <3>1. toWin[u] \in Seq(Event)
      BY <1>1
    <3> QED BY <1>2, <2>2, <3>1, HoldsRest
  <2> QED BY <1>1, <2>1, <2>2 DEF TakeEvent
<1>3. ASSUME NEW u \in Window PROVE Calmer(u)
  <2>1. CASE u = w
    <3>1. view'[u] = v
      BY <1>1, <2>1
    <3> QED BY <1>2, <2>1, <3>1 DEF Calmer
  <2>2. CASE u # w
    BY <1>1, <1>2, <2>2 DEF Calmer
  <2> QED BY <2>1, <2>2
<1> QED
  BY <1>1, <1>3 DEF Walks, Rests

\* The flow of a window's questions leaves its teardown alone.
LEMMA FlowKeepsTeardown ==
    ASSUME NEW v \in View
    PROVE  /\ \A a \in QuitRequest(v) : a.v.td = v.td
           /\ \A a \in CloseRequestFlow(v) : a.v.td = v.td
           /\ CancelQuit(v).v.td = v.td /\ CancelClose(v).v.td = v.td
<1>1. ASSUME NEW x \in View
      PROVE  /\ CancelQuit(x).v.td = x.td /\ CancelClose(x).v.td = x.td
             /\ CancelClose(x).v \in View
  <2>1. CancelQuit(x).v.td = x.td
    BY DEF CancelQuit, View
  <2>2. CancelClose(x).v.td = x.td
    BY DEF CancelClose, View
  <2> QED BY <2>1, <2>2, CancelFlowType
<1>2. ASSUME NEW x \in View, NEW a \in AskQuit(x) PROVE a.v.td = x.td
  <2>1. PICK p \in {"confirming", "committed"} :
            a = [v |-> [x EXCEPT !.quit = p, !.holder = "quit"],
                 cmds |-> IF p = "committed" THEN <<Cmd("quitVote")>> ELSE <<>>]
    BY <1>2 DEF AskQuit
  <2> QED BY <2>1 DEF View
<1>3. ASSUME NEW x \in View, NEW a \in AskClose(x) PROVE a.v.td = x.td
  <2>1. PICK p \in {"confirming", "removing"} :
            a = [v |-> [x EXCEPT !.close = p, !.holder = "close"],
                 cmds |-> IF p = "removing" THEN <<Cmd("removeSession")>> ELSE <<>>]
    BY <1>3 DEF AskClose
  <2> QED BY <2>1 DEF View
<1>4. ASSUME NEW a \in QuitRequest(v) PROVE a.v.td = v.td
  <2>1. CASE v.quit # "idle"
    <3>1. a = [v |-> v, cmds |-> <<>>]
      BY <1>4, <2>1 DEF QuitRequest
    <3> QED BY <3>1
  <2>2. CASE v.quit = "idle" /\ v.holder # "close"
    BY <1>2, <1>4, <2>2 DEF QuitRequest
  <2>3. CASE v.quit = "idle" /\ v.holder = "close" /\ v.close = "confirming"
    <3>1. PICK b \in AskQuit(CancelClose(v).v) :
              a = [v |-> b.v, cmds |-> CancelClose(v).cmds \o b.cmds]
      BY <1>4, <2>3 DEF QuitRequest
    <3> QED BY <1>1, <1>2, <3>1
  <2>4. CASE v.quit = "idle" /\ v.holder = "close" /\ v.close # "confirming"
    <3>1. a = [v |-> v, cmds |-> <<Cmd("quitVote")>>]
      BY <1>4, <2>4 DEF QuitRequest
    <3> QED BY <3>1
  <2> QED BY <2>1, <2>2, <2>3, <2>4
<1>5. ASSUME NEW a \in CloseRequestFlow(v) PROVE a.v.td = v.td
  <2>1. a.v = v \/ a.v = CancelClose(v).v \/ a \in AskClose(v)
    BY <1>5 DEF CloseRequestFlow
  <2> QED
    BY <1>1, <1>3, <2>1
<1> QED BY <1>1, <1>4, <1>5

\* A teardown begins because the window was told to.
LEMMA TeardownWasTold ==
    ASSUME TypeOK, NEW w \in Window, HasEvent(w, "quitTeardown")
    PROVE  /\ Head(toWin[w]).last \in BOOLEAN
           /\ Holds(toWin[w], Tears(Head(toWin[w]).last))
<1> DEFINE h == Head(toWin[w])
<1>1. toWin[w] \in Seq(Event) /\ toWin[w] # <<>> /\ h.t = "quitTeardown"
  BY DEF HasEvent, TypeOK
<1>2. h \in Event /\ h = toWin[w][1] /\ 1 \in 1..Len(toWin[w])
  BY <1>1
<1> HIDE DEF h
<1>3. h \in [t : {"quitTeardown"}, last : BOOLEAN]
  BY <1>1, <1>2 DEF Event
<1>4. h.last \in BOOLEAN /\ h = Tears(h.last)
  BY <1>3 DEF Tears
<1> QED
  BY <1>2, <1>4 DEF Holds, h

\* The webviews and the humans in front of them.
LEMMA ViewsWalk ==
    ASSUME TypeOK, ViewStepNext \/ HumanAnswers
    PROVE  Walks
<1>1. \A w \in Window : view[w] \in View
  BY DEF TypeOK
<1>2. ASSUME NEW w \in Window, NEW v, NEW c, ViewStep(w, v, c), v.td = view[w].td,
             toWin' = toWin \/ (\E t : HasEvent(w, t) /\ TakeEvent(w))
      PROVE  Walks
  <2>1. toWin' = toWin \/ (toWin[w] # <<>> /\ TakeEvent(w))
    BY <1>2 DEF HasEvent
  <2> QED BY <1>2, <2>1, ViewStepWalks
<1>3. ASSUME NEW w \in Window, OnQuitRequested(w) PROVE Walks
  <2>1. PICK a \in QuitRequest(view[w]) :
            ViewStep(w, a.v, <<[t |-> "quitAck", n |-> Head(toWin[w]).n]>> \o a.cmds)
    BY <1>3 DEF OnQuitRequested
  <2>2. a.v.td = view[w].td
    BY <1>1, FlowKeepsTeardown
  <2> QED BY <1>2, <1>3, <2>1, <2>2 DEF OnQuitRequested
<1>4. ASSUME NEW w \in Window, OnCloseRequested(w) PROVE Walks
  <2>1. PICK a \in CloseRequestFlow(view[w]) :
            ViewStep(w, a.v, <<[t |-> "closeAck", n |-> Head(toWin[w]).n]>> \o a.cmds)
    BY <1>4 DEF OnCloseRequested
  <2>2. a.v.td = view[w].td
    BY <1>1, FlowKeepsTeardown
  <2> QED BY <1>2, <1>4, <2>1, <2>2 DEF OnCloseRequested
<1>5. ASSUME NEW w \in Window, OnQuitCancelled(w) PROVE Walks
  <2>1. CancelQuit(view[w]).v.td = view[w].td
    BY <1>1, FlowKeepsTeardown
  <2> QED BY <1>2, <1>5, <2>1 DEF OnQuitCancelled
<1>6. ASSUME NEW w \in Window, OnQuitTeardown(w) PROVE Walks
  <2> DEFINE l == Head(toWin[w]).last
             v == [view[w] EXCEPT !.td = IF l THEN "last" ELSE "walk"]
  <2>1. /\ HasEvent(w, "quitTeardown") /\ TakeEvent(w)
        /\ ViewStep(w, v, <<Cmd("quitProgress")>>)
    BY <1>6 DEF OnQuitTeardown
  <2>2. l \in BOOLEAN /\ Holds(toWin[w], Tears(l))
    BY <2>1, TeardownWasTold
  <2>3. v.td = IF l THEN "last" ELSE "walk"
    BY <1>1 DEF View
  <2>4. toWin[w] # <<>>
    BY <2>1 DEF HasEvent
  <2> HIDE DEF l, v
  <2>5. CASE l = TRUE
    BY <2>1, <2>2, <2>3, <2>4, <2>5, ViewStepWalks
  <2>6. CASE l = FALSE
    BY <2>1, <2>2, <2>3, <2>4, <2>6, ViewStepWalks
  <2> QED BY <2>2, <2>5, <2>6
<1>7. ASSUME NEW w \in Window, OnDeparted(w) PROVE Walks
  BY <1>2, <1>7 DEF OnDeparted
<1>8. ASSUME NEW w \in Window, QuitTeardownEnds(w) PROVE Walks
  <2> DEFINE v == [view[w] EXCEPT !.td = "done"]
             c == <<Cmd(IF view[w].td = "last" THEN "quitProceed" ELSE "quitWindowDone")>>
  <2>1. ViewStep(w, v, c) /\ toWin' = toWin /\ view[w].td # "none"
    BY <1>8 DEF QuitTeardownEnds
  <2>2. v.td = "done"
    BY <1>1 DEF View
  <2> HIDE DEF v, c
  <2> QED BY <2>1, <2>2, ViewStepWalks
<1>9. ASSUME NEW w \in Window, CloseTeardownEnds(w) PROVE Walks
  <2>1. [view[w] EXCEPT !.close = "ended"].td = view[w].td
    BY <1>1 DEF View
  <2> QED BY <1>2, <1>9, <2>1 DEF CloseTeardownEnds
<1>10. ASSUME NEW w \in Window, Confirm(w) PROVE Walks
  <2>1. /\ [view[w] EXCEPT !.quit = "committed"].td = view[w].td
        /\ [view[w] EXCEPT !.close = "removing"].td = view[w].td
    BY <1>1 DEF View
  <2> QED BY <1>2, <1>10, <2>1 DEF Confirm
<1>11. ASSUME NEW w \in Window, Decline(w) PROVE Walks
  <2>1. CancelQuit(view[w]).v.td = view[w].td /\ CancelClose(view[w]).v.td = view[w].td
    BY <1>1, FlowKeepsTeardown
  <2> QED BY <1>2, <1>11, <2>1 DEF Decline
<1> QED
  BY <1>3, <1>4, <1>5, <1>6, <1>7, <1>8, <1>9, <1>10, <1>11 DEF ViewStepNext, HumanAnswers

\* Transfers, Reopen, a hand-back worker's end and a webview's death. Only a
\* tear-out and a Reopen bring a window.
LEMMA OthersWalk ==
    ASSUME TypeOK, \/ SettleTransfer \/ HandBackWorkerEnds
                   \/ \E w \in Window : Wedge(w) \/ ReopenClosedWindow(w)
                   \/ \E from, to \in Window : BeginTransfer(from, to)
                   \/ \E a \in queue.records : BuildTornOut(a)
    PROVE  Walks
<1>1. ASSUME UNCHANGED <<m, live, dying, toWin, view>> PROVE Walks
  BY <1>1, StillRests
<1>2. ASSUME UNCHANGED <<m, dying, toWin, view>>, live \subseteq live'
      PROVE  Walks
  <2>1. \A w \in Window : Calmer(w)
    BY <1>2, UntouchedCalm
  <2> QED BY <1>2, <2>1 DEF Walks, Rests
<1>3. ASSUME NEW a \in queue.records, AdoptDone(a) PROVE Walks
  <2> DEFINE e == [t |-> "departed"]
             c == <<e>>
  <2>1. /\ UNCHANGED <<m, live, dying, view>> /\ toWin \in [Window -> Seq(Event)]
        /\ toWin' = IF a.from \in live
                    THEN [toWin EXCEPT ![a.from] = Append(toWin[a.from], e)]
                    ELSE toWin
    BY <1>3 DEF AdoptDone, TypeOK
  <2>2. e \in Event
    BY DEF Event
  <2>3. ASSUME NEW w \in Window, NEW b \in BOOLEAN, Holds(toWin'[w], Tears(b))
        PROVE  Holds(toWin[w], Tears(b))
    <3> DEFINE x == Tears(b)
    <3>1. x # e
      BY DEF Tears
    <3>2. ~Holds(c, x) /\ c \in Seq(Event)
      BY <2>2, <3>1, HoldsFew
    <3>3. toWin[w] \in Seq(Event) /\ (toWin'[w] = toWin[w] \/ toWin'[w] = toWin[w] \o c)
      <4>1. toWin[w] \in Seq(Event) /\ Append(toWin[w], e) = toWin[w] \o c
        BY <2>1, <2>2
      <4>2. toWin'[w] = toWin[w] \/ toWin'[w] = Append(toWin[w], e)
        <5> HIDE DEF e
        <5> QED BY <2>1
      <4> QED BY <4>1, <4>2
    <3> HIDE DEF x, c
    <3>4. Holds(toWin'[w], x)
      BY <2>3 DEF x
    <3>5. Holds(toWin[w], x)
      BY <3>2, <3>3, <3>4, HoldsOld
    <3> QED BY <3>5 DEF x
  <2>4. \A w \in Window : Calmer(w)
    BY <2>1, <2>3 DEF Calmer
  <2> QED BY <2>1, <2>4 DEF Walks, Rests
<1>4. ASSUME NEW a \in queue.records, HandBack(a) PROVE Walks
  BY <1>1, <1>4 DEF HandBack, viewVars
<1>5. ASSUME NEW a \in queue.records, BuildTornOut(a) PROVE Walks
  BY <1>2, <1>5 DEF BuildTornOut, viewVars
<1>6. ASSUME NEW w \in Window, ReopenClosedWindow(w) PROVE Walks
  BY <1>2, <1>6 DEF ReopenClosedWindow, viewVars
<1>7. ASSUME NEW from \in Window, NEW to \in Window, BeginTransfer(from, to) PROVE Walks
  BY <1>1, <1>7 DEF BeginTransfer, viewVars
<1>8. ASSUME NEW w \in Window, Wedge(w) PROVE Walks
  <2>1. /\ UNCHANGED <<m, live, dying, toWin>> /\ view \in [Window -> View]
        /\ view' = [view EXCEPT ![w].wedged = TRUE]
    BY <1>8 DEF Wedge, hostVars, TypeOK
  <2>2. \A u \in Window : view'[u].td = view[u].td
    BY <2>1 DEF View
  <2>3. \A u \in Window : Calmer(u)
    BY <2>1, <2>2, UntouchedCalm
  <2> QED BY <2>1, <2>3 DEF Walks, Rests
<1>9. CASE HandBackWorkerEnds
  <2> DEFINE acts == IF GateFinishes(gate) THEN {ExitApp} ELSE {}
             r == Result(m, acts)
             s == [Now EXCEPT !.gate = GateFinish(gate)]
             none == {}
  <2>1. /\ Apply(r, s, none, triggers) /\ s.toWin = toWin /\ s.live = live
        /\ triggers \in Nat /\ m \in Machine /\ UNCHANGED <<live, view>>
    BY <1>9 DEF HandBackWorkerEnds, Now, TypeOK
  <2>2. acts \subseteq {ExitApp} /\ none \cap live = {}
    OBVIOUS
  <2> HIDE DEF acts, s, none
  <2>3. Steps(m, r, none) /\ Carries(m, r, none)
    BY <2>1, <2>2, QuietWalks
  <2> HIDE DEF r
  <2> QED
    BY <2>1, <2>2, <2>3, HandlerPerforms
<1> QED
  BY <1>3, <1>4, <1>5, <1>6, <1>7, <1>8, <1>9 DEF SettleTransfer

\* So every step walks or rests.
LEMMA NextWalks == ASSUME TypeOK, [Next]_vars PROVE Walks
<1>1. CASE HostStep
  BY <1>1, RequestsWalk, DestroyedWalks, QuitCommandsWalk, CloseCommandsWalk DEF HostStep
<1>2. CASE WatchdogStep
  BY <1>2, WatchdogsWalk DEF WatchdogStep
<1>3. CASE ViewStepNext \/ HumanAnswers
  BY <1>3, ViewsWalk
<1>4. CASE SettleTransfer
  BY <1>4, OthersWalk
<1>5. CASE Optional
  BY <1>5, RequestsWalk, OthersWalk DEF Optional
<1>6. CASE UNCHANGED vars
  BY <1>6, StillRests DEF vars, hostVars, viewVars
<1> QED
  BY <1>1, <1>2, <1>3, <1>4, <1>5, <1>6 DEF Next, Progressing

\* The invariant of the walk holds of every behaviour.
LEMMA WalkInvHolds == Spec => []WalkInv
<1>1. Init => WalkInv
  <2> SUFFICES ASSUME Init PROVE WalkInv
    OBVIOUS
  <2>1. ASSUME NEW w \in Window PROVE ~Touched(w)
    <3>1. toWin[w] = <<>> /\ view[w].td = "none"
      BY DEF Init, NewView
    <3> QED BY <3>1, HoldsFew DEF Touched, Told
  <2>2. ASSUME NEW w \in live PROVE ~Busy(w)
    BY <2>1, InitialWindowsAreOpen, BusyIsTouched DEF Init
  <2>3. MainLast(m)
    BY DEF Init, NewMachine, MainLast
  <2> QED BY <2>1, <2>2, <2>3 DEF WalkInv
<1>2. IInv /\ IInv' /\ WalkInv /\ [Next]_vars => WalkInv'
  BY NextWalks, WalksKeep DEF IInv
<1> QED
  BY <1>1, <1>2, IInvHolds, PTL DEF Spec

-----------------------------------------------------------------------------
(* What the walk guarantees *)

\* While a quit can still be cancelled nothing has been torn down: no window has
\* begun its teardown, in whatever order votes, repeats, cancels and destroyed
\* windows reached the host (quit_state.rs, QuitPhase::Voting).
THEOREM CancelsCostNothing == Spec => []CancelCostsNothing
<1>1. WalkInv /\ IInv => CancelCostsNothing
  <2> SUFFICES ASSUME WalkInv, IInv, m.phase = "voting", ~m.approved, NEW w \in live
               PROVE  view[w].td = "none"
    BY DEF CancelCostsNothing
  <2>1. w \in Window /\ ~Begun(m)
    BY DEF IInv, TypeOK, Begun
  <2> QED BY <2>1 DEF WalkInv, Touched
<1> QED
  BY <1>1, IInvHolds, WalkInvHolds, PTL

\* Windows are torn down one at a time, and main when no other window of the
\* walk is left, even when windows of the walk are destroyed or close by
\* themselves on the way (quit_state.rs window_done and forget_window).
THEOREM OneByOneMainLast == Spec => []OneAtATimeMainLast
<1>1. WalkInv /\ IInv => OneAtATimeMainLast
  <2> SUFFICES ASSUME WalkInv, IInv PROVE OneAtATimeMainLast
    OBVIOUS
  <2>1. ASSUME NEW w \in live \ dying, view[w].td \in {"walk", "last"} PROVE w \in Current(m)
    BY <2>1 DEF WalkInv, Busy
  <2>2. \A v, w \in Current(m) : v = w
    BY DEF Current
  <2>3. ASSUME m.phase = "walking", Main \in Current(m) PROVE m.index = Len(m.order)
    <3>1. m.index \in Nat \ {0} /\ m.order \in Seq(Window)
      BY DEF IInv, TypeOK, Machine
    <3>2. m.index \in 1..Len(m.order) /\ m.order[m.index] = Main
      BY <2>3, <3>1 DEF Current
    <3> QED BY <3>2 DEF WalkInv, MainLast
  <2> QED
    BY <2>1, <2>2, <2>3 DEF OneAtATimeMainLast
<1> QED
  BY <1>1, IInvHolds, WalkInvHolds, PTL

-----------------------------------------------------------------------------
(* A quit under way and the transfers *)

UnderWay(k) == k.phase # "idle" \/ k.approved

\* The transition r of the machine k: only a new sequence number takes a quit
\* back, and a quit that asks the app to exit has begun.
Follows(k, r) ==
    /\ r.m.seq >= k.seq
    /\ r.m.seq = k.seq /\ UnderWay(k) => UnderWay(r.m)
    /\ Owes(r, "exit") => Begun(r.m)

\* Where the machine stays at its point nothing is owed, or what has begun exits.
LEMMA QuietFollows ==
    ASSUME NEW k \in Machine, NEW n, SamePoint(k, n), NEW r, r.m = n,
           \A a \in r.acts : a.t = "exit" => Begun(k)
    PROVE  Follows(k, r) /\ (UnderWay(r.m) => UnderWay(k))
<1>1. k.seq \in Nat
  BY DEF Machine
<1> QED
  BY <1>1, PointWalk DEF Follows, UnderWay, SamePoint, Owes

LEMMA ExitFollows ==
    ASSUME NEW k \in Machine, NEW n \in Machine, n.seq = k.seq
    PROVE  Follows(k, Exit(n))
<1>1. k.seq \in Nat /\ Exit(n).m.approved /\ Exit(n).m.seq = k.seq
  BY ExitPoint DEF Machine
<1> QED
  BY <1>1 DEF Follows, UnderWay, Begun

LEMMA StartWalkFollows ==
    ASSUME NEW k \in Machine, NEW n \in Machine, n.seq = k.seq, NEW r \in StartWalk(n)
    PROVE  Follows(k, r)
<1>1. CASE DOMAIN n.windows = {}
  BY <1>1, ExitFollows DEF StartWalk
<1>2. CASE DOMAIN n.windows # {}
  <2>1. r.m.phase = "walking" /\ r.m.seq = k.seq /\ k.seq \in Nat
    BY <1>2, StartWalkPoint DEF Machine
  <2> QED BY <2>1 DEF Follows, UnderWay, Begun
<1> QED BY <1>1, <1>2

LEMMA VoteFollows ==
    ASSUME NEW k \in Machine, NEW w \in Window, NEW r \in Vote(k, w)
    PROVE  Follows(k, r) /\ (UnderWay(r.m) => UnderWay(k))
<1> DEFINE e == [EntryOf(k, w) EXCEPT !.voted = TRUE]
           n == WithEntry(k, w, e)
<1>1. e \in Entry
  BY EntryOfType DEF Entry
<1>2. n \in Machine /\ SamePoint(k, n) /\ SamePoint(k, k)
  BY <1>1, WithEntryType, EntryPoint DEF SamePoint
<1>3. r = Result(k, {}) \/ r = Result(n, {}) \/ (k.phase = "voting" /\ r \in StartWalk(n))
  BY DEF Vote
<1> HIDE DEF n
<1>4. CASE r = Result(k, {}) \/ r = Result(n, {})
  <2>1. (r.m = k \/ r.m = n) /\ r.acts = {}
    BY <1>4 DEF Result
  <2> QED
    BY <1>2, <2>1, QuietFollows
<1>5. CASE k.phase = "voting" /\ r \in StartWalk(n)
  BY <1>2, <1>5, StartWalkFollows DEF SamePoint, UnderWay
<1> QED BY <1>3, <1>4, <1>5

LEMMA CancelFollows ==
    ASSUME NEW k \in Machine
    PROVE  Follows(k, Cancel(k)) /\ (UnderWay(Cancel(k).m) => UnderWay(k))
<1> DEFINE r == Cancel(k)
<1>1. k.seq \in Nat /\ SamePoint(k, k) /\ CancelAll.t # "exit"
  BY DEF Machine, SamePoint, CancelAll
<1>2. \/ r.m = k /\ r.acts = {}
      \/ k.phase = "voting" /\ r.m.seq = k.seq + 1 /\ r.acts = {CancelAll}
  BY CancelPoint
<1> HIDE DEF r
<1>3. CASE r.m = k /\ r.acts = {}
  BY <1>1, <1>3, QuietFollows DEF r
<1>4. CASE k.phase = "voting" /\ r.m.seq = k.seq + 1 /\ r.acts = {CancelAll}
  <2>1. Follows(k, r) /\ UnderWay(k)
    BY <1>1, <1>4 DEF Follows, UnderWay, Owes
  <2> QED BY <2>1 DEF r
<1> QED BY <1>2, <1>3, <1>4

LEMMA WindowDoneFollows ==
    ASSUME NEW k \in Machine, NEW w \in Window
    PROVE  /\ Follows(k, WindowDone(k, w))
           /\ UnderWay(WindowDone(k, w).m) => UnderWay(k)
<1> DEFINE r == WindowDone(k, w)
<1>1. CASE w \notin Current(k)
  <2>1. r.m = k /\ r.acts = {} /\ SamePoint(k, k)
    BY <1>1 DEF WindowDone, Result, SamePoint
  <2> HIDE DEF r
  <2>2. Follows(k, r) /\ (UnderWay(r.m) => UnderWay(k))
    BY <2>1, QuietFollows
  <2> QED BY <2>2 DEF r
<1>2. CASE w \in Current(k)
  <2>1. r.m.phase = "walking" /\ r.m.seq = k.seq /\ k.seq \in Nat /\ k.phase = "walking"
    BY <1>2, WindowDonePoint DEF Machine, Current
  <2> HIDE DEF r
  <2>2. Follows(k, r) /\ UnderWay(k)
    BY <2>1 DEF Follows, UnderWay, Begun
  <2> QED BY <2>2 DEF r
<1> QED BY <1>1, <1>2

LEMMA ProceedFollows ==
    ASSUME NEW k \in Machine, Begun(k)
    PROVE  Follows(k, Proceed(k)) /\ (UnderWay(Proceed(k).m) => UnderWay(k))
<1>1. /\ Proceed(k).m.seq = k.seq /\ k.seq \in Nat /\ Proceed(k).m.approved
      /\ Proceed(k).m.phase = k.phase
  BY ApprovedPoint DEF Proceed, Result, Machine
<1> QED
  BY <1>1 DEF Follows, UnderWay, Begun

LEMMA DroppedFollows ==
    ASSUME NEW k \in Machine, k.phase = "walking", NEW w, NEW r, Drops(k, w, r)
    PROVE  Follows(k, r) /\ (UnderWay(r.m) => UnderWay(k))
<1>1. UnderWay(k) /\ k.seq \in Nat
  BY DEF UnderWay, Machine
<1>2. CASE r = Result(k, {})
  <2>1. r.m = k /\ r.acts = {} /\ SamePoint(k, k)
    BY <1>2 DEF Result, SamePoint
  <2> QED BY <2>1, QuietFollows
<1>3. ASSUME NEW n \in Machine, n.seq = k.seq, n.phase = "walking",
             r = Exit(n) \/ \E acts : r = Result(n, acts)
      PROVE  Follows(k, r)
  <2>1. CASE r = Exit(n)
    BY <1>3, <2>1, ExitFollows
  <2>2. CASE \E acts : r = Result(n, acts)
    <3>1. r.m = n
      BY <2>2 DEF Result
    <3> QED BY <1>1, <1>3, <3>1 DEF Follows, UnderWay, Begun
  <2> QED BY <1>3, <2>1, <2>2
<1> QED
  BY <1>1, <1>2, <1>3 DEF Drops

LEMMA ForgetWindowFollows ==
    ASSUME NEW k \in Machine, NEW w \in Window, NEW r \in ForgetWindow(k, w)
    PROVE  Follows(k, r) /\ (UnderWay(r.m) => UnderWay(k))
<1> DEFINE n == WithoutEntry(k, w)
<1>1. n \in Machine /\ SamePoint(k, n)
  BY WithoutEntryType, EntryPoint
<1>2. k.phase \in Phase
  BY DEF Machine
<1>3. ASSUME r = Result(n, {}) PROVE Follows(k, r) /\ (UnderWay(r.m) => UnderWay(k))
  <2>1. r.m = n /\ r.acts = {}
    BY <1>3 DEF Result
  <2> HIDE DEF n
  <2> QED BY <1>1, <2>1, QuietFollows
<1>4. CASE k.phase = "idle"
  BY <1>3, <1>4 DEF ForgetWindow
<1>5. CASE k.phase = "voting"
  <2>1. r \in ForgetVoting(n)
    BY <1>5 DEF ForgetWindow
  <2>2. r = Exit(n) \/ r \in StartWalk(n) \/ r = Result(n, {})
    BY <2>1 DEF ForgetVoting
  <2>3. UnderWay(k) /\ n.seq = k.seq
    BY <1>1, <1>5 DEF UnderWay, SamePoint
  <2> HIDE DEF n
  <2> QED
    BY <1>1, <1>3, <2>2, <2>3, ExitFollows, StartWalkFollows
<1>6. CASE k.phase = "walking"
  <2>1. r = ForgetWalking(n, w)
    BY <1>6 DEF ForgetWindow
  <2> HIDE DEF n
  <2>2. Follows(n, r) /\ (UnderWay(r.m) => UnderWay(n))
    BY <1>1, <1>6, <2>1, ForgetWalkingDrops, DroppedFollows DEF SamePoint
  <2> QED
    BY <1>1, <2>2 DEF Follows, UnderWay, SamePoint
<1> QED
  BY <1>2, <1>4, <1>5, <1>6 DEF Phase

\* The quit watchdog wd speaks of a quit no newer than the machine's, and of the
\* machine's own only while that is under way.
Guards(k, wd) ==
    wd.kind \in {"ack", "stall"} => wd.seq <= k.seq /\ (wd.seq = k.seq => UnderWay(k))

Proceeds == [t |-> "quitProceed"]

\* No transfer is in flight while a quit is under way, from its request to the
\* exit. What may approve the exit later speaks of such a quit only: a watchdog,
\* an exit that waits behind the gate, a window's word that it was the last.
HeldInv ==
    /\ UnderWay(m) => queue.records = {}
    /\ \A wd \in watch : Guards(m, wd)
    /\ gate.exitRequested => Begun(m)
    /\ \A w \in Window : Holds(toHost[w], Proceeds) => Begun(m)

\* What a step adds to each of the three is of the quit under way after it.
Heeds ==
    /\ UnderWay(m') => queue'.records = {}
    /\ m'.seq >= m.seq /\ (m'.seq = m.seq /\ UnderWay(m) => UnderWay(m'))
    /\ \A x \in watch' : x \in watch \/ Guards(m', x)
    /\ gate'.exitRequested => gate.exitRequested \/ Begun(m')
    /\ \A w \in Window : Holds(toHost'[w], Proceeds) => Holds(toHost[w], Proceeds) \/ Begun(m')

LEMMA HeedsKeep ==
    ASSUME TypeOK, TypeOK', HeldInv, Walks, Heeds
    PROVE  HeldInv'
<1>1. Begun(m) => Begun(m')
  <2>1. CASE Rests
    BY <2>1 DEF Rests
  <2>2. ASSUME NEW r, NEW gone, Performs(r, gone) PROVE Begun(m) => Begun(m')
    BY <2>2, PerformedPoint DEF Performs, Steps
  <2> QED BY <2>1, <2>2 DEF Walks
<1>2. m.seq \in Nat /\ m'.seq \in Nat
  BY DEF TypeOK, Machine
<1>3. ASSUME NEW x \in watch' PROVE Guards(m', x)
  <2>1. CASE x \in watch
    <3> SUFFICES ASSUME x.kind \in {"ack", "stall"}
                 PROVE  x.seq <= m'.seq /\ (x.seq = m'.seq => UnderWay(m'))
      BY DEF Guards
    <3>1. x.seq \in Nat
      BY <2>1 DEF TypeOK, Watchdog
    <3>2. x.seq <= m.seq /\ (x.seq = m.seq => UnderWay(m))
      BY <2>1 DEF HeldInv, Guards
    <3>3. m'.seq >= m.seq /\ (m'.seq = m.seq /\ UnderWay(m) => UnderWay(m'))
      BY DEF Heeds
    <3> QED BY <1>2, <3>1, <3>2, <3>3
  <2> QED BY <2>1 DEF Heeds
<1>4. gate'.exitRequested => Begun(m')
  BY <1>1 DEF HeldInv, Heeds
<1>5. \A w \in Window : Holds(toHost'[w], Proceeds) => Begun(m')
  BY <1>1 DEF HeldInv, Heeds
<1>6. UnderWay(m') => queue'.records = {}
  BY DEF Heeds
<1>7. HeldInv' <=> /\ UnderWay(m') => queue'.records = {}
                   /\ \A wd \in watch' : Guards(m', wd)
                   /\ gate'.exitRequested => Begun(m')
                   /\ \A w \in Window : Holds(toHost'[w], Proceeds) => Begun(m')
  BY DEF HeldInv, UnderWay, Guards, Begun, Holds, Proceeds
<1> QED
  BY <1>3, <1>4, <1>5, <1>6, <1>7

\* A command read, or none, adds nothing to what a window said.
LEMMA TakenProceeds ==
    ASSUME TypeOK, NEW w \in Window, NEW u \in Window,
           toHost' = toHost \/ (toHost[w] # <<>> /\ TakeCommand(w)), Holds(toHost'[u], Proceeds)
    PROVE  Holds(toHost[u], Proceeds)
<1>1. toHost \in [Window -> Seq(Command)] /\ toHost[u] \in Seq(Command)
  BY DEF TypeOK
<1>2. CASE toHost'[u] = toHost[u]
  BY <1>2
<1>3. CASE toHost[u] # <<>> /\ toHost'[u] = Tail(toHost[u])
  BY <1>1, <1>3, HoldsRest
<1> QED BY <1>1, <1>2, <1>3 DEF TakeCommand

\* Performing a transition approves only what has begun.
LEMMA ApplyHeeds ==
    ASSUME TypeOK, NEW r, r.m \in Machine, Follows(m, r), NEW s, NEW wd, NEW n,
           Apply(r, s, wd, n),
           s.gate.exitRequested = gate.exitRequested \/ ~s.gate.exitRequested,
           \A x \in wd : Guards(r.m, x),
           UnderWay(r.m) => queue'.records = {},
           \A w \in Window : Holds(toHost'[w], Proceeds) => Holds(toHost[w], Proceeds)
    PROVE  Heeds
<1>1. /\ m' = r.m \/ (Owes(r, "exit") /\ m' = [r.m EXCEPT !.approved = TRUE])
      /\ gate' = IF Owes(r, "exit") THEN GateRequestExit(s.gate) ELSE s.gate
      /\ watch' = watch \cup wd \cup (watch' \cap {[kind |-> "gate"]})
  BY DEF Apply
<1>2. m'.seq = r.m.seq /\ (UnderWay(m') <=> UnderWay(r.m)) /\ (Begun(r.m) => Begun(m'))
  <2>1. CASE m' = r.m
    BY <2>1
  <2>2. CASE Owes(r, "exit") /\ m' = [r.m EXCEPT !.approved = TRUE]
    <3>1. Begun(r.m) /\ UnderWay(r.m)
      BY <2>2 DEF Follows, Begun, UnderWay
    <3>2. m'.seq = r.m.seq /\ m'.approved /\ Begun(m')
      BY <2>2, ApprovedPoint
    <3> QED BY <3>1, <3>2 DEF UnderWay
  <2> QED BY <1>1, <2>1, <2>2
<1>3. gate'.exitRequested => gate.exitRequested \/ Begun(m')
  <2>1. CASE Owes(r, "exit")
    BY <1>2, <2>1 DEF Follows
  <2>2. CASE ~Owes(r, "exit")
    BY <1>1, <2>2
  <2> QED BY <2>1, <2>2
<1>4. ASSUME NEW x \in watch' PROVE x \in watch \/ Guards(m', x)
  <2>1. CASE x \in wd
    BY <1>2, <2>1 DEF Guards
  <2>2. CASE x = [kind |-> "gate"]
    BY <2>2 DEF Guards
  <2> QED BY <1>1, <2>1, <2>2
<1> QED
  BY <1>2, <1>3, <1>4 DEF Heeds, Follows

\* A step that leaves the machine at its point, takes no window's word for the
\* last, and starts no watchdog.
LEMMA StillHeeds ==
    ASSUME TypeOK, HeldInv, m' = m \/ SamePoint(m, m'), queue'.records \subseteq queue.records,
           watch' \subseteq watch \cup {[kind |-> "gate"]}
                     \/ \A x \in watch' : x \in watch \/ Guards(m', x),
           gate'.exitRequested = gate.exitRequested \/ Begun(m'),
           \A w \in Window : Holds(toHost'[w], Proceeds) => Holds(toHost[w], Proceeds) \/ Begun(m')
    PROVE  Heeds
<1>1. m.seq \in Nat
  BY DEF TypeOK, Machine
<1>2. m'.seq = m.seq /\ (UnderWay(m') <=> UnderWay(m))
  BY DEF SamePoint, UnderWay
<1>3. UnderWay(m') => queue'.records = {}
  BY <1>2 DEF HeldInv
<1>4. \A x \in watch' : x \in watch \/ Guards(m', x)
  <2>1. Guards(m', [kind |-> "gate"])
    BY DEF Guards
  <2> QED BY <2>1
<1> QED
  BY <1>1, <1>2, <1>3, <1>4 DEF Heeds

\* request_quit holds a quit back behind transfers, and asks when there are none.
LEMMA RequestQuitHeeds ==
    ASSUME TypeOK, HeldInv, NEW restart \in BOOLEAN, NEW q \in Queue,
           q.records = queue.records, NEW s, s.gate = gate,
           NEW n, RequestQuit(restart, q, s, n), toHost' = toHost
    PROVE  Heeds
<1>1. CASE q.records # {}
  <2>1. UNCHANGED <<m, gate, watch>> /\ queue'.records = queue.records
    BY <1>1 DEF RequestQuit, DeferQuit, Queue
  <2> QED BY <2>1, StillHeeds
<1>2. CASE q.records = {}
  <2> DEFINE r == Request(m, live, restart)
             wd == {[kind |-> "ack", seq |-> r.m.seq, n |-> n]}
  <2>1. Apply(r, s, wd, n) /\ queue' = q
    BY <1>2 DEF RequestQuit
  <2>2. m \in Machine /\ live \in SUBSET Window /\ s.gate \in Gate /\ m.seq \in Nat
    BY DEF TypeOK, Machine
  <2>3. Asks(m, live, r)
    BY <2>2, RequestPoint
  <2> HIDE DEF r
  <2>4. r.m \in Machine /\ r.m.seq = m.seq + 1 /\ UnderWay(r.m)
    BY <2>3 DEF Asks, UnderWay
  <2>5. Owes(r, "exit") => Begun(r.m)
    BY <2>3, ActionTags DEF Asks, Owes, Begun
  <2>6. Follows(m, r)
    BY <2>2, <2>4, <2>5 DEF Follows
  <2>7. \A x \in wd : Guards(r.m, x)
    <3>1. r.m.seq \in Nat
      BY <2>2, <2>4
    <3> QED BY <2>4, <3>1 DEF Guards
  <2> HIDE DEF wd
  <2> QED
    BY <1>2, <2>1, <2>2, <2>4, <2>6, <2>7, ApplyHeeds
<1> QED BY <1>1, <1>2

LEMMA RequestCloseOrQuitHeeds ==
    ASSUME TypeOK, HeldInv, NEW S, NEW q \in Queue, q.records = queue.records,
           NEW n, RequestCloseOrQuit(S, q, n), toHost' = toHost
    PROVE  Heeds
<1>1. CASE RequestWindowClose(S, q, n)
  <2>1. UNCHANGED <<m, gate>> /\ queue'.records = queue.records
    BY <1>1 DEF RequestWindowClose, DeferClose, Queue
  <2>2. ASSUME NEW x \in watch' PROVE x \in watch \/ Guards(m', x)
    BY <1>1 DEF RequestWindowClose, Guards
  <2> QED BY <2>1, <2>2, StillHeeds
<1>2. CASE RequestQuit(FALSE, q, Now, n)
  <2>1. Now.gate = gate
    BY DEF Now
  <2> QED BY <1>2, <2>1, RequestQuitHeeds
<1> QED
  BY <1>1, <1>2 DEF RequestCloseOrQuit

\* What the user, the OS and posted closures ask for.
LEMMA RequestsHeed ==
    ASSUME TypeOK, HeldInv,
           Redrive \/ ExitRequested \/ (\E restart \in BOOLEAN : TriggerQuit(restart))
                     \/ \E w \in Window : CloseButton(w)
    PROVE  Heeds
<1>1. queue \in Queue /\ live \in SUBSET Window /\ gate \in Gate /\ Now.gate = gate
  BY DEF TypeOK, Now
<1>2. toHost' = toHost
  BY DEF Redrive, ExitRequested, TriggerQuit, CloseButton
<1>3. CASE Redrive
  <2> DEFINE ready == TakeReady(queue, live)
             restart == ready.quit = "restart"
  <2>1. \/ RequestQuit(restart, ready.q, Now, triggers)
        \/ RequestCloseOrQuit(ready.closes, ready.q, triggers)
        \/ queue' = ready.q /\ UNCHANGED <<m, gate, watch>>
    BY <1>3 DEF Redrive
  <2>2. ready.q \in Queue /\ restart \in BOOLEAN /\ ready.q.records = queue.records
    BY <1>1, TakeReadyType
  <2> HIDE DEF ready, restart
  <2>3. CASE RequestQuit(restart, ready.q, Now, triggers)
    BY <1>1, <1>2, <2>2, <2>3, RequestQuitHeeds
  <2>4. CASE queue' = ready.q /\ UNCHANGED <<m, gate, watch>>
    BY <1>2, <2>2, <2>4, StillHeeds
  <2>5. CASE RequestCloseOrQuit(ready.closes, ready.q, triggers)
    BY <1>2, <2>2, <2>5, RequestCloseOrQuitHeeds
  <2> QED
    BY <2>1, <2>3, <2>4, <2>5
<1>4. CASE ExitRequested
  <2>1. CASE m.approved
    <3>1. UNCHANGED <<m, queue>> /\ watch' \subseteq watch \cup {[kind |-> "gate"]}
      BY <1>4, <2>1 DEF ExitRequested
    <3>2. Begun(m')
      BY <2>1, <3>1 DEF Begun
    <3> QED BY <1>2, <3>1, <3>2, StillHeeds
  <2>2. CASE ~m.approved
    <3> DEFINE s == [Now EXCEPT !.posted = FALSE]
    <3>1. s.gate = gate /\ RequestQuit(FALSE, queue, s, triggers)
      BY <1>4, <2>2 DEF ExitRequested, Now
    <3> HIDE DEF s
    <3> QED BY <1>1, <1>2, <3>1, RequestQuitHeeds
  <2> QED BY <2>1, <2>2
<1>5. ASSUME NEW restart \in BOOLEAN, TriggerQuit(restart) PROVE Heeds
  BY <1>1, <1>2, <1>5, RequestQuitHeeds DEF TriggerQuit
<1>6. ASSUME NEW w \in Window, CloseButton(w) PROVE Heeds
  <2>1. CASE m.approved
    <3>1. UNCHANGED <<m, queue, gate, watch>>
      BY <1>6, <2>1 DEF CloseButton
    <3> QED BY <1>2, <3>1, StillHeeds
  <2>2. CASE ~m.approved
    <3>1. RequestCloseOrQuit({w}, queue, triggers')
      BY <1>6, <2>2 DEF CloseButton
    <3> QED BY <1>1, <1>2, <3>1, RequestCloseOrQuitHeeds
  <2> QED BY <2>1, <2>2
<1> QED
  BY <1>3, <1>4, <1>5, <1>6

\* The commands: a window's word that it was the last is kept of a quit begun.
LEMMA CommandsHeed ==
    ASSUME TypeOK, HeldInv, NEW w \in Window,
           \/ QuitAck(w) \/ QuitProgress(w) \/ QuitVote(w) \/ QuitCancel(w)
           \/ QuitWindowDone(w) \/ QuitProceed(w)
           \/ WindowCloseAck(w) \/ WindowCloseCancel(w) \/ RemoveWindowSession(w) \/ CloseWindow(w)
    PROVE  Heeds
<1>1. m \in Machine /\ queue \in Queue /\ gate \in Gate /\ Now.gate = gate
  BY DEF TypeOK, Now
<1>2. toHost[w] # <<>> /\ TakeCommand(w)
  BY DEF HasCommand, QuitAck, QuitProgress, QuitVote, QuitCancel, QuitWindowDone, QuitProceed,
         WindowCloseAck, WindowCloseCancel, RemoveWindowSession, CloseWindow
<1>3. \A u \in Window : Holds(toHost'[u], Proceeds) => Holds(toHost[u], Proceeds)
  BY <1>2, TakenProceeds
<1>4. queue'.records = queue.records
  BY <1>1 DEF Queue, QuitAck, QuitProgress, QuitVote, QuitCancel, QuitWindowDone, QuitProceed,
         WindowCloseAck, WindowCloseCancel, RemoveWindowSession, CloseWindow,
         CancelDeferred, ForgetDeferredClose
<1>5. ASSUME NEW r, r.m \in Machine, Follows(m, r), UnderWay(r.m) => UnderWay(m),
             Apply(r, Now, {}, triggers)
      PROVE  Heeds
  <2> DEFINE none == {}
  <2>1. Apply(r, Now, none, triggers) /\ (\A x \in none : Guards(r.m, x))
    BY <1>5
  <2>2. UnderWay(r.m) => queue'.records = {}
    BY <1>4, <1>5 DEF HeldInv
  <2> HIDE DEF none
  <2> QED BY <1>1, <1>3, <1>5, <2>1, <2>2, ApplyHeeds
<1>6. CASE QuitAck(w) \/ QuitProgress(w)
  <2>1. \E e \in Entry : m' = WithEntry(m, w, e)
    <3>1. EntryOf(m, w) \in Entry /\ [EntryOf(m, w) EXCEPT !.acked = TRUE] \in Entry
      BY <1>1, EntryOfType DEF Entry
    <3> QED BY <1>6, <3>1 DEF QuitAck, QuitProgress, Ack, Progress
  <2>2. SamePoint(m, m')
    BY <1>1, <2>1, EntryPoint
  <2>3. UNCHANGED <<gate, watch>>
    BY <1>6 DEF QuitAck, QuitProgress
  <2> QED BY <1>3, <1>4, <2>2, <2>3, StillHeeds
<1>7. CASE QuitVote(w)
  <2>1. PICK r \in Vote(m, w) : Apply(r, Now, {}, triggers)
    BY <1>7 DEF QuitVote
  <2>2. r.m \in Machine
    BY <1>1, VoteSteps DEF Steps
  <2> QED BY <1>1, <1>5, <2>1, <2>2, VoteFollows
<1>8. CASE QuitCancel(w)
  <2>1. Cancel(m).m \in Machine
    BY <1>1, CancelSteps DEF Steps
  <2> QED BY <1>1, <1>5, <1>8, <2>1, CancelFollows DEF QuitCancel
<1>9. CASE QuitWindowDone(w)
  <2>1. WindowDone(m, w).m \in Machine
    BY <1>1, WindowDoneSteps DEF Steps
  <2> QED BY <1>1, <1>5, <1>9, <2>1, WindowDoneFollows DEF QuitWindowDone
<1>10. CASE QuitProceed(w)
  <2> DEFINE h == Head(toHost[w])
  <2>1. toHost[w] \in Seq(Command) /\ toHost[w] # <<>> /\ h.t = "quitProceed"
    BY <1>10 DEF QuitProceed, HasCommand, TypeOK
  <2>2. h \in Command /\ h = toHost[w][1] /\ 1 \in 1..Len(toHost[w])
    BY <2>1
  <2> HIDE DEF h
  <2>3. h = Proceeds
    BY <2>1, <2>2 DEF Command, Proceeds
  <2>4. Begun(m)
    BY <2>2, <2>3 DEF HeldInv, Holds
  <2>5. Proceed(m).m \in Machine
    BY <1>1, ProceedSteps DEF Steps
  <2> QED BY <1>1, <1>5, <1>10, <2>4, <2>5, ProceedFollows DEF QuitProceed
<1>11. CASE WindowCloseAck(w) \/ WindowCloseCancel(w) \/ RemoveWindowSession(w) \/ CloseWindow(w)
  <2>1. UNCHANGED <<m, gate, watch>>
    BY <1>11 DEF WindowCloseAck, WindowCloseCancel, RemoveWindowSession, CloseWindow
  <2> QED BY <1>3, <1>4, <2>1, StillHeeds
<1> QED
  BY <1>6, <1>7, <1>8, <1>9, <1>10, <1>11

\* A window that is destroyed takes its word with it.
LEMMA DestroyedHeeds ==
    ASSUME TypeOK, HeldInv, NEW w \in Window, Destroyed(w)
    PROVE  Heeds
<1> DEFINE lost == {a \in queue.records : a.to = w}
           rest == live \ {w}
           g == IF lost # {} THEN GateBegin(gate) ELSE gate
           s == [Now EXCEPT !.live = rest, !.toWin[w] = <<>>, !.gate = g]
           q == ForgetDeferredClose(queue, w)
           none == {}
<1>1. /\ m \in Machine /\ gate \in Gate /\ queue \in Queue
      /\ toHost \in [Window -> Seq(Command)] /\ toHost' = [toHost EXCEPT ![w] = <<>>]
      /\ queue' = [q EXCEPT !.records = q.records \ lost]
  BY DEF TypeOK, Destroyed
<1>2. PICK r \in IF m.approved THEN {Result(m, {})} ELSE ForgetWindow(m, w) :
         Apply(r, s, none, triggers)
  BY DEF Destroyed
<1>3. g \in Gate /\ g.exitRequested = gate.exitRequested
  BY <1>1, GateBeginType DEF GateBegin, Gate
<1>4. queue'.records \subseteq queue.records
  BY <1>1, ForgetDeferredCloseType DEF Queue
<1> HIDE DEF g
<1>5. s.gate = g
  BY DEF Now
<1> HIDE DEF s
<1>6. r.m \in Machine /\ Follows(m, r) /\ (UnderWay(r.m) => UnderWay(m))
  <2>1. CASE m.approved
    <3>1. r.m = m /\ r.acts = {} /\ SamePoint(m, m)
      BY <1>2, <2>1 DEF Result, SamePoint
    <3> QED BY <1>1, <3>1, QuietFollows
  <2>2. CASE ~m.approved
    BY <1>1, <1>2, <2>2, ForgetWindowFollows, ForgetWindowSteps DEF Steps
  <2> QED BY <2>1, <2>2
<1>7. UnderWay(r.m) => queue'.records = {}
  BY <1>4, <1>6 DEF HeldInv
<1>8. ASSUME NEW u \in Window, Holds(toHost'[u], Proceeds) PROVE Holds(toHost[u], Proceeds)
  BY <1>1, <1>8, HoldsFew
<1>9. \A x \in none : Guards(r.m, x)
  OBVIOUS
<1> HIDE DEF none
<1> QED
  BY <1>2, <1>3, <1>5, <1>6, <1>7, <1>8, <1>9, ApplyHeeds

\* The watchdogs approve the exit of the quit they were started for.
LEMMA WatchdogsHeed ==
    ASSUME TypeOK, HeldInv, NEW wd \in watch,
           QuitAckTimeout(wd) \/ QuitStallTimeout(wd) \/ CloseAckTimeout(wd) \/ GateTimeout(wd)
    PROVE  Heeds
<1>1. m \in Machine /\ gate \in Gate /\ m.seq \in Nat /\ Guards(m, wd)
  BY DEF TypeOK, HeldInv, Machine
<1>2. UNCHANGED <<toHost, queue>>
  BY DEF QuitAckTimeout, QuitStallTimeout, CloseAckTimeout, GateTimeout, viewVars
<1>3. ASSUME UnderWay(m), m' = [m EXCEPT !.approved = TRUE], watch' \subseteq watch,
             gate'.exitRequested = gate.exitRequested
      PROVE  Heeds
  <2>1. m'.seq = m.seq /\ UnderWay(m')
    BY <1>1, <1>3, ApprovedPoint DEF UnderWay
  <2>2. queue'.records = {}
    BY <1>2, <1>3 DEF HeldInv
  <2> QED BY <1>1, <1>2, <1>3, <2>1, <2>2 DEF Heeds
<1>4. ASSUME m' = m, gate'.exitRequested = gate.exitRequested, watch' \subseteq watch
      PROVE  Heeds
  BY <1>2, <1>4, StillHeeds
<1>5. ASSUME wd.kind \in {"ack", "stall"}, ~Stale(m, wd.seq) PROVE UnderWay(m)
  BY <1>1, <1>5 DEF Guards, Stale
<1>6. CASE QuitAckTimeout(wd)
  <2>1. wd.kind = "ack" /\ gate' = gate
    BY <1>6 DEF QuitAckTimeout
  <2>2. CASE Stale(m, wd.seq)
    BY <1>4, <1>6, <2>1, <2>2 DEF QuitAckTimeout
  <2>3. CASE ~Stale(m, wd.seq) /\ ~AllAcked(m)
    <3>1. GiveUp(wd)
      BY <1>6, <2>3 DEF QuitAckTimeout
    <3> QED BY <1>3, <1>5, <2>1, <2>3, <3>1 DEF GiveUp
  <2>4. CASE ~Stale(m, wd.seq) /\ AllAcked(m)
    <3> DEFINE x == [kind |-> "stall", seq |-> wd.seq, n |-> wd.n]
    <3>1. m' = m /\ watch' = (watch \ {wd}) \cup {x}
      BY <1>6, <2>4 DEF QuitAckTimeout
    <3>2. x.kind = "stall" /\ x.seq = wd.seq
      OBVIOUS
    <3> HIDE DEF x
    <3>3. Guards(m', x)
      BY <1>1, <2>1, <3>1, <3>2 DEF Guards
    <3> QED BY <1>2, <2>1, <3>1, <3>3, StillHeeds
  <2> QED BY <2>2, <2>3, <2>4
<1>7. CASE QuitStallTimeout(wd)
  <2>1. wd.kind = "stall" /\ gate' = gate
    BY <1>7 DEF QuitStallTimeout
  <2>2. CASE Stale(m, wd.seq)
    BY <1>4, <1>7, <2>1, <2>2 DEF QuitStallTimeout
  <2>3. CASE ~Stale(m, wd.seq)
    <3>1. GiveUp(wd)
      BY <1>7, <2>3 DEF QuitStallTimeout
    <3> QED BY <1>3, <1>5, <2>1, <2>3, <3>1 DEF GiveUp
  <2> QED BY <2>2, <2>3
<1>8. CASE CloseAckTimeout(wd)
  BY <1>4, <1>8 DEF CloseAckTimeout
<1>9. CASE GateTimeout(wd)
  <2>1. watch' \subseteq watch
    BY <1>9 DEF GateTimeout
  <2>2. CASE GateForces(gate)
    <3>1. m' = [m EXCEPT !.approved = TRUE] /\ gate' = [gate EXCEPT !.forced = TRUE]
      BY <1>9, <2>2 DEF GateTimeout
    <3>2. UnderWay(m)
      BY <2>2 DEF GateForces, HeldInv, Begun, UnderWay
    <3>3. gate'.exitRequested = gate.exitRequested
      BY <1>1, <3>1 DEF Gate
    <3> QED BY <1>3, <2>1, <3>1, <3>2, <3>3
  <2>3. CASE ~GateForces(gate)
    BY <1>4, <1>9, <2>1, <2>3 DEF GateTimeout
  <2> QED BY <2>2, <2>3
<1> QED
  BY <1>6, <1>7, <1>8, <1>9

\* A step of a webview: only a teardown that was told it is the last one ends in
\* quit_proceed.
LEMMA ViewStepHeeds ==
    ASSUME TypeOK, HeldInv, NEW w \in Window, NEW v, NEW c \in Seq(Command), ViewStep(w, v, c),
           Holds(c, Proceeds) => Begun(m)
    PROVE  Heeds
<1>1. /\ UNCHANGED <<m, queue, gate, watch>> /\ toHost \in [Window -> Seq(Command)]
      /\ toHost' = [toHost EXCEPT ![w] = toHost[w] \o c]
  BY DEF ViewStep, hostVars, TypeOK
<1>2. ASSUME NEW u \in Window, Holds(toHost'[u], Proceeds)
      PROVE  Holds(toHost[u], Proceeds) \/ Begun(m')
  <2>1. CASE u = w
    <3>1. toHost'[u] = toHost[u] \o c /\ toHost[u] \in Seq(Command)
      BY <1>1, <2>1
    <3> QED BY <1>1, <1>2, <3>1, HoldsOld
  <2>2. CASE u # w
    BY <1>1, <1>2, <2>2
  <2> QED BY <2>1, <2>2
<1> QED
  BY <1>1, <1>2, StillHeeds

\* Nothing else a webview says is that.
LEMMA FewProceed ==
    ASSUME NEW t, t # "quitProceed"
    PROVE  ~Holds(<<Cmd(t)>>, Proceeds) /\ ~Holds(<<>>, Proceeds)
           /\ \A n : ~Holds(<<[t |-> t, n |-> n]>>, Proceeds)
<1>1. Cmd(t) # Proceeds
  BY DEF Cmd, Proceeds
<1>2. \A n : [t |-> t, n |-> n].t # Proceeds.t
  BY DEF Proceeds
<1> QED
  BY <1>1, <1>2, HoldsFew

LEMMA FlowNeverProceeds ==
    ASSUME NEW v \in View
    PROVE  /\ \A a \in QuitRequest(v) : a.cmds \in Seq(Command) /\ ~Holds(a.cmds, Proceeds)
           /\ \A a \in CloseRequestFlow(v) : a.cmds \in Seq(Command) /\ ~Holds(a.cmds, Proceeds)
           /\ ~Holds(CancelQuit(v).cmds, Proceeds) /\ ~Holds(CancelClose(v).cmds, Proceeds)
<1>1. /\ ~Holds(<<Cmd("quitVote")>>, Proceeds) /\ ~Holds(<<Cmd("removeSession")>>, Proceeds)
      /\ ~Holds(<<Cmd("quitCancel")>>, Proceeds) /\ ~Holds(<<Cmd("closeCancel")>>, Proceeds)
      /\ ~Holds(<<>>, Proceeds)
  BY FewProceed
<1>2. ~Holds(CancelQuit(v).cmds, Proceeds) /\ ~Holds(CancelClose(v).cmds, Proceeds)
  <2>1. CancelQuit(v).cmds = <<Cmd("quitCancel")>> /\ CancelClose(v).cmds = <<Cmd("closeCancel")>>
    BY DEF CancelQuit, CancelClose
  <2> QED BY <1>1, <2>1
<1>3. ASSUME NEW x, NEW a \in AskQuit(x) PROVE ~Holds(a.cmds, Proceeds)
  <2>1. PICK p \in {"confirming", "committed"} :
            a = [v |-> [x EXCEPT !.quit = p, !.holder = "quit"],
                 cmds |-> IF p = "committed" THEN <<Cmd("quitVote")>> ELSE <<>>]
    BY <1>3 DEF AskQuit
  <2>2. a.cmds = <<Cmd("quitVote")>> \/ a.cmds = <<>>
    BY <2>1
  <2> QED BY <1>1, <2>2
<1>4. ASSUME NEW x, NEW a \in AskClose(x) PROVE ~Holds(a.cmds, Proceeds)
  <2>1. PICK p \in {"confirming", "removing"} :
            a = [v |-> [x EXCEPT !.close = p, !.holder = "close"],
                 cmds |-> IF p = "removing" THEN <<Cmd("removeSession")>> ELSE <<>>]
    BY <1>4 DEF AskClose
  <2>2. a.cmds = <<Cmd("removeSession")>> \/ a.cmds = <<>>
    BY <2>1
  <2> QED BY <1>1, <2>2
<1>5. ASSUME NEW a \in QuitRequest(v) PROVE ~Holds(a.cmds, Proceeds)
  <2>1. CASE v.quit # "idle"
    <3>1. a = [v |-> v, cmds |-> <<>>]
      BY <1>5, <2>1 DEF QuitRequest
    <3>2. a.cmds = <<>>
      BY <3>1
    <3> QED BY <1>1, <3>2
  <2>2. CASE v.quit = "idle" /\ v.holder # "close"
    BY <1>3, <1>5, <2>2 DEF QuitRequest
  <2>3. CASE v.quit = "idle" /\ v.holder = "close" /\ v.close # "confirming"
    <3>1. a = [v |-> v, cmds |-> <<Cmd("quitVote")>>]
      BY <1>5, <2>3 DEF QuitRequest
    <3>2. a.cmds = <<Cmd("quitVote")>>
      BY <3>1
    <3> QED BY <1>1, <3>2
  <2>4. CASE v.quit = "idle" /\ v.holder = "close" /\ v.close = "confirming"
    <3> DEFINE c == CancelClose(v).cmds
               x == CancelClose(v).v
    <3>1. PICK b \in AskQuit(x) : a = [v |-> b.v, cmds |-> c \o b.cmds]
      BY <1>5, <2>4 DEF QuitRequest
    <3>2. c \in Seq(Command) /\ b.cmds \in Seq(Command) /\ a.cmds = c \o b.cmds
      BY <3>1, CancelFlowType, AskQuitType
    <3>3. ~Holds(c, Proceeds) /\ ~Holds(b.cmds, Proceeds)
      BY <1>2, <1>3
    <3> HIDE DEF c
    <3> QED BY <3>2, <3>3, HoldsOld
  <2> QED BY <2>1, <2>2, <2>3, <2>4
<1>6. ASSUME NEW a \in CloseRequestFlow(v) PROVE ~Holds(a.cmds, Proceeds)
  <2>1. CASE v.close # "idle"
    <3>1. a = [v |-> v, cmds |-> <<>>]
      BY <1>6, <2>1 DEF CloseRequestFlow
    <3>2. a.cmds = <<>>
      BY <3>1
    <3> QED BY <1>1, <3>2
  <2>2. CASE v.close = "idle" /\ v.holder = "quit"
    BY <1>2, <1>6, <2>2 DEF CloseRequestFlow
  <2>3. CASE v.close = "idle" /\ v.holder # "quit"
    BY <1>4, <1>6, <2>3 DEF CloseRequestFlow
  <2> QED BY <2>1, <2>2, <2>3
<1> QED
  BY <1>2, <1>5, <1>6, QuitRequestType, CloseRequestFlowType

\* The webviews and the humans in front of them.
LEMMA ViewsHeed ==
    ASSUME TypeOK, HeldInv, WalkInv, ViewStepNext \/ HumanAnswers
    PROVE  Heeds
<1>1. \A w \in Window : view[w] \in View
  BY DEF TypeOK
<1>2. ASSUME NEW w \in Window, NEW v, NEW t \in CommandTags, t # "quitProceed",
             ViewStep(w, v, <<Cmd(t)>>)
      PROVE  Heeds
  <2> DEFINE c == <<Cmd(t)>>
  <2>1. c \in Seq(Command) /\ ~Holds(c, Proceeds) /\ ViewStep(w, v, c)
    BY <1>2, CmdType, FewProceed
  <2> HIDE DEF c
  <2> QED BY <2>1, ViewStepHeeds
<1>3. ASSUME NEW w \in Window, NEW v, ViewStep(w, v, <<>>) PROVE Heeds
  <2> DEFINE c == <<>>
  <2>1. c \in Seq(Command) /\ ~Holds(c, Proceeds) /\ ViewStep(w, v, c)
    BY <1>3, EmptySeqs, HoldsFew
  <2> HIDE DEF c
  <2> QED BY <2>1, ViewStepHeeds
<1>4. ASSUME NEW w \in Window, NEW k \in Command, k # Proceeds, NEW v,
             NEW d \in Seq(Command), ~Holds(d, Proceeds), ViewStep(w, v, <<k>> \o d)
      PROVE  Heeds
  <2> DEFINE b == <<k>>
             c == b \o d
  <2>1. b \in Seq(Command) /\ ~Holds(b, Proceeds)
    BY <1>4, HoldsFew
  <2> HIDE DEF b
  <2>2. c \in Seq(Command) /\ ~Holds(c, Proceeds)
    BY <1>4, <2>1, HoldsOld
  <2>3. ViewStep(w, v, c)
    BY <1>4 DEF b
  <2> HIDE DEF c
  <2> QED BY <2>2, <2>3, ViewStepHeeds
<1>5. ASSUME NEW w \in Window, OnQuitRequested(w) PROVE Heeds
  <2> DEFINE k == [t |-> "quitAck", n |-> Head(toWin[w]).n]
  <2>1. PICK a \in QuitRequest(view[w]) : ViewStep(w, a.v, <<k>> \o a.cmds)
    BY <1>5 DEF OnQuitRequested
  <2>2. k \in Command /\ k.t = "quitAck"
    BY <1>5, AckOfEvent DEF OnQuitRequested
  <2> HIDE DEF k
  <2>3. k # Proceeds
    BY <2>2 DEF Proceeds
  <2>4. a.cmds \in Seq(Command) /\ ~Holds(a.cmds, Proceeds)
    BY <1>1, FlowNeverProceeds
  <2> QED BY <1>4, <2>1, <2>2, <2>3, <2>4
<1>6. ASSUME NEW w \in Window, OnCloseRequested(w) PROVE Heeds
  <2> DEFINE k == [t |-> "closeAck", n |-> Head(toWin[w]).n]
  <2>1. PICK a \in CloseRequestFlow(view[w]) : ViewStep(w, a.v, <<k>> \o a.cmds)
    BY <1>6 DEF OnCloseRequested
  <2>2. k \in Command /\ k.t = "closeAck"
    BY <1>6, AckOfEvent DEF OnCloseRequested
  <2> HIDE DEF k
  <2>3. k # Proceeds
    BY <2>2 DEF Proceeds
  <2>4. a.cmds \in Seq(Command) /\ ~Holds(a.cmds, Proceeds)
    BY <1>1, FlowNeverProceeds
  <2> QED BY <1>4, <2>1, <2>2, <2>3, <2>4
<1>7. ASSUME NEW w \in Window, OnQuitCancelled(w) PROVE Heeds
  BY <1>3, <1>7 DEF OnQuitCancelled
<1>8. ASSUME NEW w \in Window, OnQuitTeardown(w) PROVE Heeds
  BY <1>2, <1>8 DEF OnQuitTeardown, CommandTags
<1>9. ASSUME NEW w \in Window, OnDeparted(w) PROVE Heeds
  BY <1>2, <1>3, <1>9 DEF OnDeparted, CommandTags
<1>10. ASSUME NEW w \in Window, QuitTeardownEnds(w) PROVE Heeds
  <2> DEFINE t == IF view[w].td = "last" THEN "quitProceed" ELSE "quitWindowDone"
             c == <<Cmd(t)>>
  <2>1. ViewStep(w, [view[w] EXCEPT !.td = "done"], c) /\ view[w].td # "none"
    BY <1>10 DEF QuitTeardownEnds
  <2>2. c \in Seq(Command)
    BY CmdType DEF CommandTags
  <2>3. Begun(m)
    BY <2>1 DEF WalkInv, Touched
  <2> HIDE DEF c
  <2> QED BY <2>1, <2>2, <2>3, ViewStepHeeds
<1>11. ASSUME NEW w \in Window, CloseTeardownEnds(w) PROVE Heeds
  BY <1>2, <1>11 DEF CloseTeardownEnds, CommandTags
<1>12. ASSUME NEW w \in Window, Confirm(w) PROVE Heeds
  BY <1>2, <1>12 DEF Confirm, CommandTags
<1>13. ASSUME NEW w \in Window, Decline(w) PROVE Heeds
  <2>1. /\ CancelQuit(view[w]).cmds = <<Cmd("quitCancel")>>
        /\ CancelClose(view[w]).cmds = <<Cmd("closeCancel")>>
    BY DEF CancelQuit, CancelClose
  <2> QED BY <1>2, <1>13, <2>1 DEF Decline, CommandTags
<1> QED
  BY <1>5, <1>6, <1>7, <1>8, <1>9, <1>10, <1>11, <1>12, <1>13 DEF ViewStepNext, HumanAnswers

\* Transfers: one is admitted only when no quit is under way. And the rest.
LEMMA OthersHeed ==
    ASSUME TypeOK, HeldInv, \/ SettleTransfer \/ HandBackWorkerEnds
                            \/ \E w \in Window : Wedge(w) \/ ReopenClosedWindow(w)
                            \/ \E from, to \in Window : BeginTransfer(from, to)
                            \/ \E a \in queue.records : BuildTornOut(a)
    PROVE  Heeds
<1>1. m \in Machine /\ queue \in Queue /\ gate \in Gate /\ m.seq \in Nat
  BY DEF TypeOK, Machine
<1>2. ASSUME UNCHANGED <<m, gate, watch, toHost>>, queue'.records \subseteq queue.records
      PROVE  Heeds
  BY <1>2, StillHeeds
<1>3. ASSUME NEW a \in queue.records, AdoptDone(a) \/ HandBack(a) PROVE Heeds
  <2>1. UNCHANGED <<m, gate, watch, toHost>>
    BY <1>3 DEF AdoptDone, HandBack, viewVars
  <2>2. queue' = [queue EXCEPT !.records = queue.records \ {a}]
    BY <1>3 DEF AdoptDone, HandBack
  <2>3. queue'.records \subseteq queue.records
    BY <1>1, <2>2 DEF Queue
  <2> QED BY <1>2, <2>1, <2>3
<1>4. ASSUME NEW a \in queue.records, BuildTornOut(a) PROVE Heeds
  BY <1>2, <1>4 DEF BuildTornOut, viewVars
<1>5. ASSUME NEW w \in Window, Wedge(w) \/ ReopenClosedWindow(w) PROVE Heeds
  BY <1>2, <1>5 DEF Wedge, ReopenClosedWindow, viewVars, hostVars
<1>6. ASSUME NEW from \in Window, NEW to \in Window, BeginTransfer(from, to) PROVE Heeds
  <2>1. UNCHANGED <<m, gate, watch, toHost>> /\ ~UnderWay(m)
    BY <1>6 DEF BeginTransfer, TransferAdmitted, viewVars, UnderWay
  <2> QED BY <1>1, <2>1 DEF Heeds
<1>7. CASE HandBackWorkerEnds
  <2> DEFINE acts == IF GateFinishes(gate) THEN {ExitApp} ELSE {}
             r == Result(m, acts)
             g == GateFinish(gate)
             s == [Now EXCEPT !.gate = g]
             none == {}
  <2>1. /\ Apply(r, s, none, triggers) /\ s.gate = g /\ UNCHANGED <<queue, toHost>>
        /\ \A x \in none : Guards(r.m, x)
    BY <1>7 DEF HandBackWorkerEnds, Now
  <2>2. r.m = m /\ r.acts = acts /\ SamePoint(m, m)
    BY DEF Result, SamePoint
  <2>3. \A a \in acts : Begun(m)
    BY DEF GateFinishes, HeldInv
  <2>4. g.exitRequested = gate.exitRequested \/ ~g.exitRequested
    <3> DEFINE b == IF GateFinishes(gate) THEN FALSE ELSE gate.exitRequested
    <3>1. g = [gate EXCEPT !.pending = gate.pending - 1, !.exitRequested = b]
      BY DEF GateFinish
    <3>2. b = gate.exitRequested \/ ~b
      OBVIOUS
    <3> HIDE DEF b
    <3>3. g.exitRequested = b
      BY <1>1, <3>1 DEF Gate
    <3> QED BY <3>2, <3>3
  <2> HIDE DEF g, s, none, acts, r
  <2>5. Follows(m, r)
    BY <1>1, <2>2, <2>3, QuietFollows
  <2>6. UnderWay(r.m) => queue'.records = {}
    BY <2>1, <2>2 DEF HeldInv
  <2> QED
    BY <1>1, <2>1, <2>2, <2>4, <2>5, <2>6, ApplyHeeds
<1> QED
  BY <1>3, <1>4, <1>5, <1>6, <1>7 DEF SettleTransfer

\* Nothing that may approve an exit outlives the quit it is of.
LEMMA HeldInvHolds == Spec => []HeldInv
<1>1. Init => HeldInv
  <2> SUFFICES ASSUME Init PROVE HeldInv
    OBVIOUS
  <2>1. \A w \in Window : toHost[w] = <<>>
    BY DEF Init
  <2>2. \A w \in Window : ~Holds(toHost[w], Proceeds)
    BY <2>1, HoldsFew
  <2>3. queue.records = {} /\ watch = {} /\ ~gate.exitRequested
    BY DEF Init, NewGate
  <2> QED BY <2>2, <2>3 DEF HeldInv
<1>2. IInv /\ IInv' /\ WalkInv /\ HeldInv /\ [Next]_vars => HeldInv'
  <2> SUFFICES ASSUME IInv, IInv', WalkInv, HeldInv, [Next]_vars PROVE HeldInv'
    OBVIOUS
  <2>1. TypeOK /\ TypeOK' /\ Walks
    BY NextWalks DEF IInv
  <2>2. CASE HostStep
    BY <2>1, <2>2, RequestsHeed, DestroyedHeeds, CommandsHeed, HeedsKeep DEF HostStep
  <2>3. CASE WatchdogStep
    BY <2>1, <2>3, WatchdogsHeed, HeedsKeep DEF WatchdogStep
  <2>4. CASE ViewStepNext \/ HumanAnswers
    BY <2>1, <2>4, ViewsHeed, HeedsKeep
  <2>5. CASE SettleTransfer
    BY <2>1, <2>5, OthersHeed, HeedsKeep
  <2>6. CASE Optional
    BY <2>1, <2>6, RequestsHeed, OthersHeed, HeedsKeep DEF Optional
  <2>7. CASE UNCHANGED vars
    BY <2>1, <2>7, StillHeeds, HeedsKeep DEF vars, hostVars, viewVars
  <2> QED
    BY <2>2, <2>3, <2>4, <2>5, <2>6, <2>7 DEF Next, Progressing
<1> QED
  BY <1>1, <1>2, IInvHolds, WalkInvHolds, PTL DEF Spec

-----------------------------------------------------------------------------
(* The windows a quit has not asked *)

\* A step brings a window only when no quit is under way, or leaves it among those
\* the quit has not asked; or it asks every window there is, and nothing has begun.
Spares ==
    \/ /\ unasked \subseteq unasked'
       /\ live' \subseteq live \cup unasked' \/ ~UnderWay(m)
    \/ /\ m'.phase = "voting" => live' \subseteq DOMAIN m'.windows
       /\ m'.phase # "walking"
       /\ ~Begun(m') \/ live' = {}

\* request_quit, deferred or asked.
LEMMA RequestQuitSpares ==
    ASSUME TypeOK, NEW restart \in BOOLEAN, NEW q, NEW s, s.live = live,
           NEW n, RequestQuit(restart, q, s, n), live' = live
    PROVE  Spares
<1>1. CASE unasked' = unasked
  BY <1>1 DEF Spares
<1>2. CASE unasked' # unasked
  <2> DEFINE r == Request(m, live, restart)
             wd == {[kind |-> "ack", seq |-> r.m.seq, n |-> n]}
  <2>1. q.records = {} /\ m.phase # "walking" /\ ~m.approved /\ Apply(r, s, wd, n)
    BY <1>2 DEF RequestQuit
  <2>2. m \in Machine /\ live \in SUBSET Window
    BY DEF TypeOK
  <2>3. Asks(m, live, r)
    BY <2>2, RequestPoint
  <2> HIDE DEF r, wd
  <2>4. m' = r.m \/ m' = [r.m EXCEPT !.approved = TRUE]
    BY <2>1 DEF Apply
  <2>5. CASE live = {}
    <3>1. r.m \in Machine /\ r.m.phase = "idle"
      BY <2>3, <2>5 DEF Asks
    <3>2. m'.phase = "idle"
      BY <2>4, <3>1, ApprovedPoint
    <3> QED BY <2>5, <3>2 DEF Spares
  <2>6. CASE live # {}
    <3>1. /\ r.m.phase = "voting" /\ ~r.m.approved /\ DOMAIN r.m.windows = live
          /\ r.acts = {RequestAll}
      BY <2>1, <2>3, <2>6 DEF Asks
    <3>2. ~Owes(r, "exit")
      BY <3>1 DEF Owes, RequestAll
    <3>3. m' = r.m
      BY <2>1, <3>2 DEF Apply
    <3> QED BY <3>1, <3>3 DEF Spares, Begun
  <2> QED BY <2>5, <2>6
<1> QED BY <1>1, <1>2

\* What the user, the OS and posted closures ask for.
LEMMA RequestsSpare ==
    ASSUME TypeOK, Redrive \/ ExitRequested \/ (\E restart \in BOOLEAN : TriggerQuit(restart))
                     \/ \E w \in Window : CloseButton(w)
    PROVE  Spares
<1>1. UNCHANGED live
  BY DEF Redrive, ExitRequested, TriggerQuit, CloseButton
<1>2. ASSUME UNCHANGED unasked PROVE Spares
  BY <1>1, <1>2 DEF Spares
<1>3. Now.live = live /\ [Now EXCEPT !.posted = FALSE].live = live /\ FALSE \in BOOLEAN
  BY DEF Now
<1>4. ASSUME NEW S, NEW q, NEW n, RequestCloseOrQuit(S, q, n) PROVE Spares
  BY <1>1, <1>2, <1>3, <1>4, RequestQuitSpares DEF RequestCloseOrQuit, RequestWindowClose
<1>5. CASE Redrive
  <2> DEFINE ready == TakeReady(queue, live)
             restart == ready.quit = "restart"
  <2>1. \/ RequestQuit(restart, ready.q, Now, triggers)
        \/ RequestCloseOrQuit(ready.closes, ready.q, triggers)
        \/ UNCHANGED unasked
    BY <1>5 DEF Redrive
  <2>2. restart \in BOOLEAN
    OBVIOUS
  <2> HIDE DEF ready, restart
  <2> QED BY <1>1, <1>2, <1>3, <1>4, <2>1, <2>2, RequestQuitSpares
<1>6. CASE ExitRequested
  <2> DEFINE s == [Now EXCEPT !.posted = FALSE]
  <2>1. RequestQuit(FALSE, queue, s, triggers) \/ UNCHANGED unasked
    BY <1>6 DEF ExitRequested
  <2> HIDE DEF s
  <2> QED BY <1>1, <1>2, <1>3, <2>1, RequestQuitSpares DEF s
<1>7. ASSUME NEW restart \in BOOLEAN, TriggerQuit(restart) PROVE Spares
  BY <1>1, <1>3, <1>7, RequestQuitSpares DEF TriggerQuit
<1>8. ASSUME NEW w \in Window, CloseButton(w) PROVE Spares
  BY <1>2, <1>4, <1>8 DEF CloseButton
<1> QED BY <1>5, <1>6, <1>7, <1>8

\* A window comes of a tear-out, when no quit is under way, or of Reopen.
LEMMA NextSpares ==
    ASSUME TypeOK, HeldInv, [Next]_vars
    PROVE  Spares
<1>1. ASSUME UNCHANGED unasked, live' \subseteq live PROVE Spares
  BY <1>1 DEF Spares
<1>2. CASE Redrive \/ ExitRequested \/ (\E restart \in BOOLEAN : TriggerQuit(restart))
             \/ \E w \in Window : CloseButton(w)
  BY <1>2, RequestsSpare
<1>3. ASSUME NEW w \in Window,
             \/ Destroyed(w)
             \/ QuitAck(w) \/ QuitProgress(w) \/ QuitVote(w) \/ QuitCancel(w)
             \/ QuitWindowDone(w) \/ QuitProceed(w)
             \/ WindowCloseAck(w) \/ WindowCloseCancel(w)
             \/ RemoveWindowSession(w) \/ CloseWindow(w)
      PROVE  Spares
  BY <1>1, <1>3 DEF Destroyed, QuitAck, QuitProgress, QuitVote, QuitCancel, QuitWindowDone,
     QuitProceed, WindowCloseAck, WindowCloseCancel, RemoveWindowSession, CloseWindow
<1>4. CASE WatchdogStep
  BY <1>1, <1>4 DEF WatchdogStep, QuitAckTimeout, QuitStallTimeout, CloseAckTimeout, GateTimeout
<1>5. CASE ViewStepNext
  BY <1>1, <1>5 DEF ViewStepNext, OnQuitRequested, OnQuitCancelled, OnQuitTeardown,
     OnCloseRequested, OnDeparted, QuitTeardownEnds, CloseTeardownEnds, ViewStep, hostVars
<1>6. CASE HumanAnswers
  BY <1>1, <1>6 DEF HumanAnswers, Confirm, Decline, ViewStep, hostVars
<1>7. CASE SettleTransfer
  BY <1>1, <1>7 DEF SettleTransfer, AdoptDone, HandBack
<1>8. CASE HandBackWorkerEnds
  BY <1>1, <1>8 DEF HandBackWorkerEnds
<1>9. ASSUME NEW w \in Window, Wedge(w) PROVE Spares
  BY <1>1, <1>9 DEF Wedge, hostVars
<1>10. ASSUME NEW from \in Window, NEW to \in Window, BeginTransfer(from, to) PROVE Spares
  BY <1>1, <1>10 DEF BeginTransfer
<1>11. ASSUME NEW a \in queue.records, BuildTornOut(a) PROVE Spares
  <2>1. ~UnderWay(m)
    BY <1>11 DEF HeldInv
  <2> QED BY <1>11, <2>1 DEF BuildTornOut, Spares
<1>12. ASSUME NEW w \in Window, ReopenClosedWindow(w) PROVE Spares
  BY <1>12 DEF ReopenClosedWindow, Spares, UnderWay
<1>13. CASE UNCHANGED vars
  BY <1>1, <1>13 DEF vars, hostVars
<1> QED
  BY <1>2, <1>3, <1>4, <1>5, <1>6, <1>7, <1>8, <1>9, <1>10, <1>11, <1>12, <1>13
     DEF Next, Progressing, HostStep, Optional

-----------------------------------------------------------------------------
(* The last window is the last *)

\* The quit covers every open window it has asked, and while one has been told that
\* it is the last, every other is being destroyed.
LastInv ==
    /\ Covers(m, live \ unasked, dying)
    /\ \A w \in live : Final(w) => live \ {w} \subseteq dying \cup unasked

\* A window comes of a transfer, and none is in flight while a quit is under way,
\* or of Reopen, unasked: the windows the quit covers only become fewer until it
\* asks anew.
LEMMA LastKept ==
    ASSUME TypeOK, TypeOK', WalkInv, WalkInv', HeldInv, LastInv, Walks, Spares
    PROVE  LastInv'
<1>1. live \in SUBSET Window /\ live' \in SUBSET Window /\ dying \in SUBSET Window
  BY DEF TypeOK
<1>2. LastInv' <=> /\ Covers(m', live' \ unasked', dying')
                   /\ \A w \in live' : Final(w)' => live' \ {w} \subseteq dying' \cup unasked'
  BY DEF LastInv, Covers
<1>3. \A w \in Window : Final(w) => w \in live /\ Begun(m)
  BY BusyIsTouched DEF WalkInv
<1>4. ASSUME m'.phase = "voting" => live' \subseteq DOMAIN m'.windows, m'.phase # "walking",
             ~Begun(m') \/ live' = {}
      PROVE  LastInv'
  <2>1. Covers(m', live' \ unasked', dying')
    BY <1>4 DEF Covers
  <2>2. ASSUME NEW w \in live', Final(w)' PROVE FALSE
    <3>1. w \in Window /\ ~Begun(m')
      BY <1>1, <1>4
    <3>2. ~Touched(w)'
      BY <3>1 DEF WalkInv, Begun
    <3>3. Touched(w)'
      BY <2>2 DEF Final, Touched, Told
    <3> QED BY <3>2, <3>3
  <2> QED BY <1>2, <2>1, <2>2
<1> DEFINE L == live \ unasked'
<1>5. ASSUME unasked \subseteq unasked'
      PROVE  /\ L \in SUBSET Window /\ Covers(m, L, dying)
             /\ \A w \in live : Final(w) => live \ {w} \subseteq dying \cup unasked'
  BY <1>1, <1>5 DEF LastInv, Covers
<1>6. ASSUME Rests, unasked \subseteq unasked', live' \subseteq live \cup unasked' \/ ~UnderWay(m)
      PROVE  LastInv'
  <2>1. \A w \in Window : Final(w)' => Final(w)
    BY <1>6, CalmerKeeps DEF Rests
  <2>2. CASE live' \subseteq live \cup unasked'
    <3>1. live' \ unasked' \subseteq L
      BY <2>2
    <3>2. Covers(m', live' \ unasked', dying')
      BY <1>5, <1>6, <3>1 DEF Covers, Rests
    <3>3. ASSUME NEW w \in live', Final(w)' PROVE live' \ {w} \subseteq dying' \cup unasked'
      <4>1. w \in live /\ Final(w)
        BY <1>1, <1>3, <2>1, <3>3
      <4> QED BY <1>5, <1>6, <2>2, <4>1 DEF Rests
    <3> QED BY <1>2, <3>2, <3>3
  <2>3. CASE ~UnderWay(m)
    <3>1. Covers(m', live' \ unasked', dying')
      BY <1>6, <2>3 DEF Covers, Rests, UnderWay
    <3>2. \A w \in Window : ~Final(w)
      BY <1>3, <2>3 DEF Begun, UnderWay
    <3> QED BY <1>1, <1>2, <2>1, <3>1, <3>2
  <2> QED BY <1>6, <2>2, <2>3
<1>7. ASSUME NEW r, NEW gone, Performs(r, gone), unasked \subseteq unasked' PROVE LastInv'
  <2> DEFINE D == {w \in Window : Destroy(w) \in r.acts}
  <2>1. /\ live' = live \ gone /\ dying' = (dying \cup D) \cap live'
        /\ Carries(m, r, gone) /\ Steps(m, r, gone)
    BY <1>7 DEF Performs
  <2> HIDE DEF D
  <2>2. Covers(r.m, L \ gone, dying \cup D)
    BY <1>1, <1>5, <1>7, <2>1 DEF Carries, D
  <2>3. /\ m'.phase = r.m.phase /\ m'.order = r.m.order /\ m'.index = r.m.index
        /\ m'.windows = r.m.windows
    BY <1>7, PerformedPoint
  <2>4. L \ gone = live' \ unasked'
    BY <2>1
  <2>5. Covers(m', live' \ unasked', dying')
    BY <2>1, <2>2, <2>3, <2>4 DEF Covers
  <2>6. ASSUME NEW w \in live', Final(w)' PROVE live' \ {w} \subseteq dying' \cup unasked'
    <3>1. w \in Window
      BY <1>1
    <3>2. CASE Final(w)
      BY <1>3, <1>5, <1>7, <2>1, <3>1, <3>2
    <3>3. CASE Teardown(w, TRUE) \in r.acts
      <4>1. w \in Current(r.m) /\ r.m.index = Len(r.m.order) /\ r.m \in Machine
        BY <2>1, <3>1, <3>3 DEF Steps
      <4>2. r.m.phase = "walking" /\ w = r.m.order[r.m.index] /\ r.m.order \in Seq(Window)
        BY <4>1 DEF Current, Machine
      <4>3. ASSUME NEW u \in live' \ unasked', u \notin dying \cup D PROVE u = w
        <5>1. PICK j \in 1..Len(r.m.order) : j >= r.m.index /\ r.m.order[j] = u
          BY <2>2, <2>4, <4>2, <4>3 DEF Covers
        <5>2. j = r.m.index
          BY <4>1, <4>2, <5>1
        <5> QED BY <4>2, <5>1, <5>2
      <4> QED BY <2>1, <4>3
    <3> QED BY <1>7, <2>6, <3>1, <3>2, <3>3, PerformedTears
  <2> QED BY <1>2, <2>5, <2>6
<1> QED BY <1>4, <1>6, <1>7 DEF Walks, Spares

\* A window that is told it is the last one really is, but for the windows Reopen
\* brought back after the quit asked: the vote asked every window, the walk covers
\* every one it asked, none comes of a transfer while a quit is under way (whoever
\* gives up on what), so by its quit_proceed every other window is being destroyed
\* (quit_state.rs window_done, lib.rs transfer_admitted, quit.ts runQuitTeardown).
THEOREM LastIsLast == Spec => []LastMeansLast
<1>1. Init => LastInv
  <2> SUFFICES ASSUME Init PROVE LastInv
    OBVIOUS
  <2>1. m.phase = "idle"
    BY DEF Init, NewMachine
  <2>2. ASSUME NEW w \in live PROVE ~Final(w)
    <3>1. toWin[w] = <<>> /\ view[w].td = "none"
      BY InitialWindowsAreOpen DEF Init, NewView
    <3> QED BY <3>1, HoldsFew DEF Final
  <2> QED BY <2>1, <2>2 DEF LastInv, Covers
<1>2. /\ IInv /\ IInv' /\ WalkInv /\ WalkInv' /\ HeldInv /\ LastInv /\ [Next]_vars
      => LastInv'
  BY NextWalks, NextSpares, LastKept DEF IInv
<1>3. LastInv => LastMeansLast
  BY DEF LastInv, LastMeansLast, Final
<1> QED
  BY <1>1, <1>2, <1>3, IInvHolds, WalkInvHolds, HeldInvHolds, PTL DEF Spec

=============================================================================
