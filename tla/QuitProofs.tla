----------------------------- MODULE QuitProofs -----------------------------
(***************************************************************************)
(* Theorems about QuitFlow, for every set of windows and every bound.      *)
(* First the operators of QuitState: every transition yields a machine of  *)
(* its type; and what one may do to the phase and to the transfers in      *)
(* flight. Then the inductive invariant, and four safety theorems on top   *)
(* of it: the exit gate, the exclusion of transfers and teardown, the one  *)
(* flow that holds a window, and that only the dead are forced.            *)
(***************************************************************************)
EXTENDS QuitFlow, FiniteSetTheorems, TLAPS

-----------------------------------------------------------------------------
(* The map of window entries *)

\* A function from any labels to entries is an entry map.
LEMMA EntryMapIntro ==
    ASSUME NEW S \in SUBSET Window, NEW f \in [S -> Entry]
    PROVE  f \in EntryMap
BY DEF EntryMap

\* An entry map is a function to entries whose domain are labels.
LEMMA EntryMapElim ==
    ASSUME NEW f \in EntryMap
    PROVE  DOMAIN f \in SUBSET Window /\ f \in [DOMAIN f -> Entry]
BY DEF EntryMap

\* WithEntry, WithoutEntry and EntryOf stay within the types.
LEMMA EntryOfType ==
    ASSUME NEW mc \in Machine, NEW w \in Window
    PROVE  EntryOf(mc, w) \in Entry
<1>1. mc.windows \in EntryMap
  BY DEF Machine
<1>2. mc.windows \in [DOMAIN mc.windows -> Entry]
  BY <1>1, EntryMapElim
<1>3. DefaultEntry \in Entry
  BY DEF DefaultEntry, Entry
<1> QED
  BY <1>2, <1>3 DEF EntryOf

\* Writing a window's entry keeps the machine a machine, in its phase.
LEMMA WithEntryType ==
    ASSUME NEW mc \in Machine, NEW w \in Window, NEW e \in Entry
    PROVE  /\ WithEntry(mc, w, e) \in Machine
           /\ WithEntry(mc, w, e).phase = mc.phase
<1> DEFINE f == [v \in DOMAIN mc.windows \cup {w} |-> IF v = w THEN e ELSE mc.windows[v]]
<1>1. mc.windows \in EntryMap
  BY DEF Machine
<1>2. DOMAIN mc.windows \in SUBSET Window /\ mc.windows \in [DOMAIN mc.windows -> Entry]
  BY <1>1, EntryMapElim
<1>3. f \in [DOMAIN mc.windows \cup {w} -> Entry]
  BY <1>2
<1>4. f \in EntryMap
  BY <1>2, <1>3, EntryMapIntro
<1>5. WithEntry(mc, w, e) = [mc EXCEPT !.windows = f]
  BY DEF WithEntry
<1> HIDE DEF f
<1> QED
  BY <1>4, <1>5 DEF Machine

\* Removing a window's entry keeps the machine a machine, in its phase.
LEMMA WithoutEntryType ==
    ASSUME NEW mc \in Machine, NEW w
    PROVE  /\ WithoutEntry(mc, w) \in Machine
           /\ WithoutEntry(mc, w).phase = mc.phase
<1> DEFINE f == [v \in DOMAIN mc.windows \ {w} |-> mc.windows[v]]
<1>1. mc.windows \in EntryMap
  BY DEF Machine
<1>2. DOMAIN mc.windows \in SUBSET Window /\ mc.windows \in [DOMAIN mc.windows -> Entry]
  BY <1>1, EntryMapElim
<1>3. f \in [DOMAIN mc.windows \ {w} -> Entry]
  BY <1>2
<1>4. f \in EntryMap
  BY <1>2, <1>3, EntryMapIntro
<1>5. WithoutEntry(mc, w) = [mc EXCEPT !.windows = f]
  BY DEF WithoutEntry
<1> HIDE DEF f
<1> QED
  BY <1>4, <1>5 DEF Machine

-----------------------------------------------------------------------------
(* The quit machine *)

\* A result of a transition: a machine, and one that is idle if it was idle.
\* A transition that may leave idle is Request's only.
KeepsIdle(mc, r) == r.m \in Machine /\ (mc.phase = "idle" => r.m.phase = "idle")

\* A new machine is a machine, and idle.
LEMMA NewMachineType == NewMachine \in Machine /\ NewMachine.phase = "idle"
<1> DEFINE f == [w \in {} |-> DefaultEntry]
<1>1. f \in [{} -> Entry]
  OBVIOUS
<1>2. f \in EntryMap
  BY <1>1, EntryMapIntro
<1>3. NewMachine = [seq |-> 0, approved |-> FALSE, restart |-> FALSE, phase |-> "idle",
                    order |-> <<>>, index |-> 1, windows |-> f]
  BY DEF NewMachine
<1> HIDE DEF f
<1> QED
  BY <1>2, <1>3 DEF Machine, Phase

\* Updating fields of a machine within their types.
LEMMA WalkFields ==
    ASSUME NEW mc \in Machine, NEW p \in Phase, NEW o \in Seq(Window), NEW i \in Nat \ {0}
    PROVE  /\ [mc EXCEPT !.phase = p, !.order = o, !.index = i] \in Machine
           /\ [mc EXCEPT !.phase = p, !.order = o, !.index = i].phase = p
BY DEF Machine

\* The fields exit() assigns, within their types.
LEMMA ExitFields ==
    ASSUME NEW mc \in Machine, NEW p \in Phase, NEW o \in Seq(Window), NEW i \in Nat \ {0},
           NEW b \in BOOLEAN
    PROVE  /\ [mc EXCEPT !.phase = p, !.order = o, !.index = i, !.approved = b] \in Machine
           /\ [mc EXCEPT !.phase = p, !.order = o, !.index = i, !.approved = b].phase = p
BY DEF Machine

\* The fields cancel() assigns, within their types.
LEMMA VoteFields ==
    ASSUME NEW mc \in Machine, NEW q \in Nat, NEW p \in Phase, NEW b \in BOOLEAN,
           NEW f \in EntryMap
    PROVE  /\ [mc EXCEPT !.seq = q, !.phase = p, !.restart = b, !.windows = f] \in Machine
           /\ [mc EXCEPT !.seq = q, !.phase = p, !.restart = b, !.windows = f].phase = p
BY DEF Machine

\* The fields request() assigns, within their types.
LEMMA RequestFields ==
    ASSUME NEW mc \in Machine, NEW q \in Nat, NEW b \in BOOLEAN, NEW f \in EntryMap
    PROVE  [mc EXCEPT !.seq = q, !.restart = b, !.windows = f] \in Machine
BY DEF Machine

\* exit() ends in idle.
LEMMA ExitType ==
    ASSUME NEW mc \in Machine
    PROVE  Exit(mc).m \in Machine /\ Exit(mc).m.phase = "idle"
<1>1. <<>> \in Seq(Window)
  OBVIOUS
<1>2. "idle" \in Phase /\ 1 \in Nat \ {0} /\ TRUE \in BOOLEAN
  BY DEF Phase
<1> DEFINE n == [mc EXCEPT !.phase = "idle", !.order = <<>>, !.index = 1,
                          !.approved = TRUE]
<1>3. Exit(mc).m = n
  BY DEF Exit, Result
<1>4. n \in Machine
  BY <1>1, <1>2, ExitFields, Zenon
<1>5. n.phase = "idle"
  BY DEF Machine
<1> HIDE DEF n
<1> QED
  BY <1>3, <1>4, <1>5

\* A teardown order is a sequence of labels.
LEMMA QuitOrdersType ==
    ASSUME NEW S \in SUBSET Window, NEW o \in QuitOrders(S)
    PROVE  o \in Seq(Window)
<1>1. Cardinality(S) \in Nat
  BY WindowsAreFinite, FS_Subset, FS_CardinalityType
<1>2. o \in [1..Cardinality(S) -> S]
  BY DEF QuitOrders
<1>3. o \in [1..Cardinality(S) -> Window]
  BY <1>2
<1> QED
  BY <1>1, <1>3

\* start_walk leaves a machine: an order over its windows, at its first
\* position.
LEMMA StartWalkType ==
    ASSUME NEW mc \in Machine, NEW r \in StartWalk(mc)
    PROVE  r.m \in Machine
<1>1. CASE DOMAIN mc.windows = {}
  BY <1>1, ExitType DEF StartWalk
<1>2. CASE DOMAIN mc.windows # {}
  <2>1. DOMAIN mc.windows \in SUBSET Window
    BY EntryMapElim DEF Machine
  <2>2. PICK o \in QuitOrders(DOMAIN mc.windows) :
            r = Result([mc EXCEPT !.phase = "walking", !.order = o, !.index = 1],
                       {Teardown(o[1], Len(o) = 1)})
    BY <1>2, Zenon DEF StartWalk
  <2>3. o \in Seq(Window)
    BY <2>1, QuitOrdersType
  <2>4. r.m = [mc EXCEPT !.phase = "walking", !.order = o, !.index = 1]
    BY <2>2 DEF Result
  <2>5. "walking" \in Phase /\ 1 \in Nat \ {0}
    BY DEF Phase
  <2>6. [mc EXCEPT !.phase = "walking", !.order = o, !.index = 1] \in Machine
    BY <2>3, <2>5, WalkFields, Zenon
  <2> QED
    BY <2>4, <2>6, Zenon
<1> QED
  BY <1>1, <1>2

\* request leaves a machine, whatever windows are open.
LEMMA RequestType ==
    ASSUME NEW mc \in Machine, NEW labels \in SUBSET Window, NEW restart \in BOOLEAN
    PROVE  Request(mc, labels, restart).m \in Machine
<1> DEFINE f == [w \in labels |->
                    [acked |-> FALSE,
                     voted |-> mc.phase # "idle" /\ EntryOf(mc, w).voted]]
           n == [mc EXCEPT
                    !.seq = @ + 1,
                    !.restart = IF mc.phase = "idle" /\ ~mc.approved THEN restart ELSE @,
                    !.windows = f]
<1>1. \A w \in labels : EntryOf(mc, w) \in Entry
  BY EntryOfType
<1>2. \A w \in labels :
          [acked |-> FALSE, voted |-> mc.phase # "idle" /\ EntryOf(mc, w).voted] \in Entry
  BY <1>1 DEF Entry
<1>3. f \in [labels -> Entry]
  BY <1>2
<1>4. f \in EntryMap
  BY <1>3, EntryMapIntro
<1>5. Request(mc, labels, restart) =
          IF labels = {} THEN Exit(n)
          ELSE Result([n EXCEPT !.phase = IF @ = "walking" THEN @ ELSE "voting"],
                      {RequestAll})
  BY DEF Request
<1> HIDE DEF f
<1>6. n \in Machine
  <2>1. mc.seq + 1 \in Nat
    BY DEF Machine
  <2>2. (IF mc.phase = "idle" /\ ~mc.approved THEN restart ELSE mc.restart) \in BOOLEAN
    BY DEF Machine
  <2> QED
    BY <1>4, <2>1, <2>2, RequestFields
<1> HIDE DEF n
<1>7. [n EXCEPT !.phase = IF @ = "walking" THEN @ ELSE "voting"] \in Machine
  BY <1>6 DEF Machine, Phase
<1> QED
  BY <1>5, <1>6, <1>7, ExitType DEF Result

\* ack changes no phase.
LEMMA AckType ==
    ASSUME NEW mc \in Machine, NEW w \in Window
    PROVE  Ack(mc, w) \in Machine /\ Ack(mc, w).phase = mc.phase
<1>1. [EntryOf(mc, w) EXCEPT !.acked = TRUE] \in Entry
  BY EntryOfType DEF Entry
<1> QED
  BY <1>1, WithEntryType DEF Ack

\* progress changes no phase.
LEMMA ProgressType ==
    ASSUME NEW mc \in Machine, NEW w \in Window
    PROVE  Progress(mc, w) \in Machine /\ Progress(mc, w).phase = mc.phase
BY EntryOfType, WithEntryType DEF Progress

\* A vote that comes to an idle machine starts nothing.
LEMMA VoteType ==
    ASSUME NEW mc \in Machine, NEW w \in Window, NEW r \in Vote(mc, w)
    PROVE  KeepsIdle(mc, r)
<1> DEFINE n == WithEntry(mc, w, [EntryOf(mc, w) EXCEPT !.voted = TRUE])
<1>1. [EntryOf(mc, w) EXCEPT !.voted = TRUE] \in Entry
  BY EntryOfType DEF Entry
<1>2. n \in Machine
  BY <1>1, WithEntryType
<1>3. CASE mc.phase # "voting"
  BY <1>3 DEF Vote, Result, KeepsIdle
<1>4. CASE mc.phase = "voting"
  <2>1. r \in StartWalk(n) \/ r = Result(n, {})
    BY <1>4 DEF Vote
  <2> HIDE DEF n
  <2>2. r.m \in Machine
    BY <1>2, <2>1, StartWalkType DEF Result
  <2> QED
    BY <1>4, <2>2 DEF KeepsIdle
<1> QED
  BY <1>3, <1>4

\* cancel leaves an idle machine idle.
LEMMA CancelType ==
    ASSUME NEW mc \in Machine
    PROVE  KeepsIdle(mc, Cancel(mc))
<1> DEFINE f == [w \in DOMAIN mc.windows |-> [mc.windows[w] EXCEPT !.voted = FALSE]]
<1>1. mc.windows \in EntryMap
  BY DEF Machine
<1>2. DOMAIN mc.windows \in SUBSET Window /\ mc.windows \in [DOMAIN mc.windows -> Entry]
  BY <1>1, EntryMapElim
<1>3. \A w \in DOMAIN mc.windows : [mc.windows[w] EXCEPT !.voted = FALSE] \in Entry
  BY <1>2 DEF Entry
<1>4. f \in [DOMAIN mc.windows -> Entry]
  BY <1>3
<1>5. f \in EntryMap
  BY <1>2, <1>4, EntryMapIntro
<1>6. Cancel(mc) = IF mc.phase # "voting" THEN Result(mc, {})
                  ELSE Result([mc EXCEPT !.seq = @ + 1, !.phase = "idle",
                                        !.restart = FALSE, !.windows = f],
                              {CancelAll})
  BY DEF Cancel
<1> HIDE DEF f
<1>7. mc.seq + 1 \in Nat /\ "idle" \in Phase /\ FALSE \in BOOLEAN
  BY DEF Machine, Phase
<1> DEFINE n == [mc EXCEPT !.seq = mc.seq + 1, !.phase = "idle",
                          !.restart = FALSE, !.windows = f]
<1>8. Cancel(mc).m = mc \/ Cancel(mc).m = n
  BY <1>6 DEF Result
<1>9. mc.phase = "idle" => Cancel(mc).m = mc
  BY <1>6 DEF Result
<1>10. n \in Machine
  BY <1>5, <1>7, VoteFields, Zenon
<1> HIDE DEF n
<1> QED
  BY <1>8, <1>9, <1>10 DEF KeepsIdle

\* window_done leaves an idle machine idle, and the index positive.
LEMMA WindowDoneType ==
    ASSUME NEW mc \in Machine, NEW w \in Window
    PROVE  KeepsIdle(mc, WindowDone(mc, w))
<1> DEFINE k == WithoutEntry(mc, w)
           n == [k EXCEPT !.index = mc.index + 1]
<1>1. k \in Machine /\ k.phase = mc.phase
  BY WithoutEntryType
<1>2. WindowDone(mc, w).m = mc \/ WindowDone(mc, w).m = n
  BY DEF WindowDone, Result
<1> HIDE DEF k
<1>3. n \in Machine /\ n.phase = mc.phase
  BY <1>1 DEF Machine
<1> HIDE DEF n
<1> QED
  BY <1>2, <1>3 DEF KeepsIdle

\* proceed approves and changes no phase.
LEMMA ProceedType ==
    ASSUME NEW mc \in Machine
    PROVE  KeepsIdle(mc, Proceed(mc))
BY DEF Proceed, Result, KeepsIdle, Machine

\* Approving changes no phase.
LEMMA ApprovedType ==
    ASSUME NEW mc \in Machine
    PROVE  /\ [mc EXCEPT !.approved = TRUE] \in Machine
           /\ [mc EXCEPT !.approved = TRUE].phase = mc.phase
BY DEF Machine

\* Dropping a position leaves a sequence of windows, one shorter.
LEMMA DropAtType ==
    ASSUME NEW s \in Seq(Window), NEW i \in 1..Len(s)
    PROVE  DropAt(s, i) \in Seq(Window) /\ Len(DropAt(s, i)) = Len(s) - 1
<1>1. Len(s) - 1 \in Nat
  OBVIOUS
<1>2. \A k \in 1 .. Len(s) - 1 : (IF k < i THEN s[k] ELSE s[k + 1]) \in Window
  OBVIOUS
<1>3. DropAt(s, i) \in [1 .. Len(s) - 1 -> Window]
  BY <1>2 DEF DropAt
<1> QED
  BY <1>1, <1>3

\* The index of a walk stays positive when a window before it is dropped.
LEMMA ForgetWalkingType ==
    ASSUME NEW mc \in Machine, NEW w, mc.phase = "walking"
    PROVE  ForgetWalking(mc, w).m \in Machine
<1> DEFINE at == CHOOSE i \in 1..Len(mc.order) : mc.order[i] = w
           order == DropAt(mc.order, at)
           n == [mc EXCEPT !.order = order, !.index = IF at < @ THEN @ - 1 ELSE @]
<1>1. CASE ~\E i \in 1..Len(mc.order) : mc.order[i] = w
  BY <1>1 DEF ForgetWalking, Result
<1>2. CASE \E i \in 1..Len(mc.order) : mc.order[i] = w
  <2>1. at \in 1..Len(mc.order)
    BY <1>2
  <2>2. mc.order \in Seq(Window) /\ mc.index \in Nat \ {0}
    BY DEF Machine
  <2>3. ForgetWalking(mc, w).m = n \/ ForgetWalking(mc, w) = Exit(n)
    BY <1>2 DEF ForgetWalking, Result
  <2> HIDE DEF at
  <2>4. order \in Seq(Window)
    BY <2>1, <2>2, DropAtType
  <2> HIDE DEF order
  <2>5. (IF at < mc.index THEN mc.index - 1 ELSE mc.index) \in Nat \ {0}
    BY <2>1, <2>2
  <2>6. n \in Machine
    BY <2>4, <2>5 DEF Machine
  <2> HIDE DEF n
  <2> QED
    BY <2>3, <2>6, ExitType
<1> QED
  BY <1>1, <1>2

\* A window that leaves an idle machine leaves it idle.
LEMMA ForgetWindowType ==
    ASSUME NEW mc \in Machine, NEW w \in Window, NEW r \in ForgetWindow(mc, w)
    PROVE  KeepsIdle(mc, r)
<1> DEFINE n == WithoutEntry(mc, w)
<1>1. n \in Machine /\ n.phase = mc.phase
  BY WithoutEntryType
<1>2. mc.phase \in Phase
  BY DEF Machine
<1>3. CASE mc.phase = "idle"
  <2>1. r = Result(n, {})
    BY <1>3 DEF ForgetWindow
  <2> HIDE DEF n
  <2> QED
    BY <1>1, <2>1 DEF Result, KeepsIdle
<1>4. CASE mc.phase = "voting"
  <2>1. r \in ForgetVoting(n)
    BY <1>4 DEF ForgetWindow
  <2> HIDE DEF n
  <2>2. r = Exit(n) \/ r \in StartWalk(n) \/ r = Result(n, {})
    BY <2>1 DEF ForgetVoting
  <2>3. r.m \in Machine
    BY <1>1, <2>2, ExitType, StartWalkType DEF Result
  <2> QED
    BY <1>4, <2>3 DEF KeepsIdle
<1>5. CASE mc.phase = "walking"
  <2>1. r = ForgetWalking(n, w)
    BY <1>5 DEF ForgetWindow
  <2> HIDE DEF n
  <2>2. r.m \in Machine
    BY <1>1, <1>5, <2>1, ForgetWalkingType
  <2> QED
    BY <1>5, <2>2 DEF KeepsIdle
<1> QED
  BY <1>2, <1>3, <1>4, <1>5 DEF Phase

-----------------------------------------------------------------------------
(* The close handshake: only a request makes an entry active. *)

\* A close request leaves a close entry.
LEMMA CloseRequestType ==
    ASSUME NEW e \in CloseEntry
    PROVE  CloseRequest(e) \in CloseEntry
BY DEF CloseRequest, CloseEntry

\* An ack activates no close.
LEMMA CloseAckType ==
    ASSUME NEW e \in CloseEntry
    PROVE  CloseAck(e) \in CloseEntry /\ CloseAck(e).active = e.active
BY DEF CloseAck, CloseEntry

\* Retiring a close activates none.
LEMMA CloseClearType ==
    ASSUME NEW e \in CloseEntry
    PROVE  CloseClear(e) \in CloseEntry /\ (CloseClear(e).active => e.active)
BY DEF CloseClear, CloseEntry

-----------------------------------------------------------------------------
(* The queue: deferring and releasing requests leaves the records alone. *)

\* Deferring a quit leaves the records in flight alone.
LEMMA DeferQuitType ==
    ASSUME NEW q \in Queue, NEW restart \in BOOLEAN
    PROVE  /\ DeferQuit(q, restart) \in Queue
           /\ DeferQuit(q, restart).records = q.records
BY DEF DeferQuit, Queue, Deferred

\* Deferring closes leaves the records in flight alone.
LEMMA DeferCloseType ==
    ASSUME NEW q \in Queue, NEW S \in SUBSET Window
    PROVE  DeferClose(q, S) \in Queue /\ DeferClose(q, S).records = q.records
BY DEF DeferClose, Queue

\* A cancel drops requests, never records.
LEMMA CancelDeferredType ==
    ASSUME NEW q \in Queue
    PROVE  CancelDeferred(q) \in Queue /\ CancelDeferred(q).records = q.records
BY DEF CancelDeferred, Queue, Deferred

\* Forgetting a window's close leaves the records alone.
LEMMA ForgetDeferredCloseType ==
    ASSUME NEW q \in Queue, NEW w
    PROVE  /\ ForgetDeferredClose(q, w) \in Queue
           /\ ForgetDeferredClose(q, w).records = q.records
BY DEF ForgetDeferredClose, Queue

\* Replacing the records of a queue.
LEMMA RecordsType ==
    ASSUME NEW q \in Queue, NEW R \in SUBSET Arrival
    PROVE  /\ [q EXCEPT !.records = R] \in Queue
           /\ [q EXCEPT !.records = R].records = R
BY DEF Queue

\* What take_ready releases and what it leaves; a quit is released only when
\* nothing is in flight.
LEMMA TakeReadyType ==
    ASSUME NEW q \in Queue, NEW L \in SUBSET Window
    PROVE  LET r == TakeReady(q, L)
           IN  /\ r.q \in Queue
               /\ r.q.records = q.records
               /\ r.closes \subseteq L
               /\ r.quit # "none" => q.records = {}
<1> DEFINE kept == [q EXCEPT !.closes = @ \cap L]
           ready == {w \in kept.closes : ~Endpoint(q, w)}
           released == [kept EXCEPT !.quit = "none"]
           rest == [kept EXCEPT !.closes = @ \ ready]
<1>1. kept \in Queue /\ kept.records = q.records /\ kept.closes = q.closes \cap L
  BY DEF Queue
<1>2. ready \subseteq kept.closes
  OBVIOUS
<1>3. TakeReady(q, L) =
        IF q.quit # "none"
        THEN IF q.records = {}
             THEN [quit |-> q.quit, closes |-> {}, q |-> released]
             ELSE [quit |-> "none", closes |-> {}, q |-> kept]
        ELSE [quit |-> "none", closes |-> ready, q |-> rest]
  BY DEF TakeReady
<1> HIDE DEF kept, ready
<1>4. released \in Queue /\ released.records = q.records
  BY <1>1 DEF Queue, Deferred
<1>5. rest \in Queue /\ rest.records = q.records
  BY <1>1 DEF Queue
<1>6. ready \subseteq L
  BY <1>1, <1>2
<1> HIDE DEF released, rest
<1>7. CASE q.quit # "none" /\ q.records = {}
  BY <1>3, <1>4, <1>7
<1>8. CASE q.quit # "none" /\ q.records # {}
  BY <1>1, <1>3, <1>8
<1>9. CASE q.quit = "none"
  BY <1>3, <1>5, <1>6, <1>9
<1> QED
  BY <1>7, <1>8, <1>9

-----------------------------------------------------------------------------
(* The gate *)

\* A worker that begins is counted.
LEMMA GateBeginType ==
    ASSUME NEW g \in Gate
    PROVE  GateBegin(g) \in Gate /\ GateBegin(g).pending = g.pending + 1
BY DEF GateBegin, Gate

\* Asking for the exit changes neither the count nor the override.
LEMMA GateRequestExitType ==
    ASSUME NEW g \in Gate
    PROVE  /\ GateRequestExit(g) \in Gate
           /\ GateRequestExit(g).pending = g.pending
           /\ GateRequestExit(g).forced = g.forced
BY DEF GateRequestExit, Gate

\* A worker that ends is counted off.
LEMMA GateFinishType ==
    ASSUME NEW g \in Gate, g.pending > 0
    PROVE  GateFinish(g) \in Gate /\ GateFinish(g).pending = g.pending - 1
<1> DEFINE p == g.pending - 1
           b == IF GateFinishes(g) THEN FALSE ELSE g.exitRequested
<1>1. p \in Nat
  BY DEF Gate
<1>3. b \in BOOLEAN
  BY Zenon DEF Gate, GateFinishes
<1>2. GateFinish(g) = [g EXCEPT !.pending = p, !.exitRequested = b]
  BY DEF GateFinish
<1> HIDE DEF b
<1> QED
  BY <1>1, <1>2, <1>3 DEF Gate

-----------------------------------------------------------------------------
(* What the inductive invariant adds to the types *)

\* The gate counts exactly the hand-back workers that still run.
WorkersAreCounted == workers = gate.pending

\* The ends of a transfer are labels that were handed out.
EndsAreOpened == \A a \in queue.records : a.from \in opened /\ a.to \in opened

IInv == TypeOK /\ WorkersAreCounted /\ EndsAreOpened

-----------------------------------------------------------------------------
(* Messages *)

\* Nothing sent is a sequence of messages.
LEMMA EmptySeqs == <<>> \in Seq(Event) /\ <<>> \in Seq(Command)
OBVIOUS

\* What apply_quit_actions emits to a window are events.
LEMMA EmitsType ==
    ASSUME NEW r, NEW w, NEW n \in Nat
    PROVE  Emits(r, w, n) \in Seq(Event)
<1> DEFINE a == IF Owes(r, "requestAll") THEN <<[t |-> "quitRequested", n |-> n]>> ELSE <<>>
           b == IF Owes(r, "cancelAll") THEN <<[t |-> "quitCancelled"]>> ELSE <<>>
           c == IF \E x \in BOOLEAN : Teardown(w, x) \in r.acts
                THEN <<[t |-> "quitTeardown", last |-> Teardown(w, TRUE) \in r.acts]>>
                ELSE <<>>
<1>1. [t |-> "quitRequested", n |-> n] \in Event
  BY DEF Event
<1>2. [t |-> "quitCancelled"] \in Event
  BY DEF Event
<1>3. [t |-> "quitTeardown", last |-> Teardown(w, TRUE) \in r.acts] \in Event
  BY DEF Event
<1>4. a \in Seq(Event)
  BY <1>1, EmptySeqs
<1>5. b \in Seq(Event)
  BY <1>2, EmptySeqs
<1>6. c \in Seq(Event)
  BY <1>3, EmptySeqs
<1>7. Emits(r, w, n) = a \o b \o c
  BY DEF Emits
<1> HIDE DEF a, b, c
<1> QED
  BY <1>4, <1>5, <1>6, <1>7

\* Taking a command leaves the channels channels of commands.
LEMMA TakeCommandType ==
    ASSUME TypeOK, NEW w, NEW t, HasCommand(w, t), TakeCommand(w)
    PROVE  toHost' \in [Window -> Seq(Command)]
BY DEF TypeOK, HasCommand, TakeCommand

\* Taking an event leaves the channels channels of events.
LEMMA TakeEventType ==
    ASSUME TypeOK, NEW w, NEW t, HasEvent(w, t), TakeEvent(w)
    PROVE  toWin' \in [Window -> Seq(Event)]
BY DEF TypeOK, HasEvent, TakeEvent

-----------------------------------------------------------------------------
(* The host's actions on windows *)

\* What apply_quit_actions leaves: the machine's phase is the transition's, the
\* gate's count is unchanged.
LEMMA ApplyType ==
    ASSUME TypeOK, NEW r, r.m \in Machine,
           NEW s, s.live \in SUBSET Window, s.toWin \in [Window -> Seq(Event)],
           s.gate \in Gate, s.posted \in BOOLEAN,
           NEW wd \in SUBSET Watchdog, NEW n \in Nat,
           Apply(r, s, wd, n)
    PROVE  /\ m' \in Machine
           /\ m'.phase = r.m.phase
           /\ gate' \in Gate
           /\ gate'.pending = s.gate.pending
           /\ exitPosted' \in BOOLEAN
           /\ watch' \subseteq Watchdog
           /\ toWin' \in [Window -> Seq(Event)]
           /\ dying' \subseteq s.live
<1>1. m' \in Machine /\ m'.phase = r.m.phase
  BY ApprovedType DEF Apply
<1>2. gate' \in Gate /\ gate'.pending = s.gate.pending
  BY GateRequestExitType DEF Apply
<1>3. exitPosted' \in BOOLEAN
  BY DEF Apply
<1>4. watch' \subseteq Watchdog
  <2>1. [kind |-> "gate"] \in Watchdog
    BY DEF Watchdog
  <2> QED
    BY <2>1 DEF Apply, TypeOK
<1>5. toWin' \in [Window -> Seq(Event)]
  <2>1. \A w \in Window : s.toWin[w] \o Emits(r, w, n) \in Seq(Event)
    BY EmitsType
  <2> QED
    BY <2>1 DEF Apply
<1>6. dying' \subseteq s.live
  BY DEF Apply
<1> QED
  BY <1>1, <1>2, <1>3, <1>4, <1>5, <1>6

\* request_quit: the records in flight stay, and with one in flight the quit
\* machine is not touched.
LEMMA RequestQuitType ==
    ASSUME TypeOK, NEW restart \in BOOLEAN, NEW q \in Queue, NEW n \in Nat,
           NEW s, s.live = live, s.toWin = toWin, s.gate = gate, s.posted \in BOOLEAN,
           RequestQuit(restart, q, s, n)
    PROVE  /\ queue' \in Queue
           /\ queue'.records = q.records
           /\ promised' \subseteq {"exited", "relaunched"} /\ unasked' \subseteq Window
           /\ m' \in Machine
           /\ q.records # {} => m' = m
           /\ gate' \in Gate
           /\ gate'.pending = gate.pending
           /\ exitPosted' \in BOOLEAN
           /\ watch' \subseteq Watchdog
           /\ toWin' \in [Window -> Seq(Event)]
           /\ dying' \subseteq live
<1>1. \A b : Outcome(b) \in {"exited", "relaunched"}
  BY DEF Outcome
<1>2. promised \subseteq {"exited", "relaunched"} /\ m \in Machine /\ live \in SUBSET Window
      /\ unasked \subseteq Window /\ toWin \in [Window -> Seq(Event)] /\ gate \in Gate
  BY DEF TypeOK
<1>3. CASE q.records # {}
  <2>1. /\ queue' = DeferQuit(q, restart)
        /\ promised' = promised \cup {Outcome(queue'.quit = "restart")}
        /\ exitPosted' = s.posted
        /\ UNCHANGED <<m, gate, watch, toWin, dying, unasked>>
    BY <1>3 DEF RequestQuit
  <2>2. promised' \subseteq {"exited", "relaunched"}
    BY <1>1, <1>2, <2>1
  <2> QED
    BY <1>3, <2>1, <2>2, DeferQuitType DEF TypeOK
<1>4. CASE q.records = {}
  <2> DEFINE r == Request(m, live, restart)
             wd == {[kind |-> "ack", seq |-> r.m.seq, n |-> n]}
  <2>1. /\ queue' = q
        /\ promised' = promised \cup {Outcome(r.m.restart)}
        /\ unasked' \in {unasked, {}}
        /\ Apply(r, s, wd, n)
    BY <1>4 DEF RequestQuit
  <2>2. r.m \in Machine
    BY <1>2, RequestType
  <2> HIDE DEF r
  <2>3. r.m.seq \in Nat
    BY <2>2 DEF Machine
  <2>4. wd \in SUBSET Watchdog
    BY <2>3 DEF Watchdog
  <2> HIDE DEF wd
  <2>5. /\ m' \in Machine /\ gate' \in Gate /\ gate'.pending = gate.pending
        /\ exitPosted' \in BOOLEAN /\ watch' \subseteq Watchdog
        /\ toWin' \in [Window -> Seq(Event)] /\ dying' \subseteq live
    BY <1>2, <2>1, <2>2, <2>4, ApplyType
  <2>6. promised' \subseteq {"exited", "relaunched"} /\ unasked' \subseteq Window
    BY <1>1, <1>2, <2>1
  <2> QED
    BY <1>4, <2>1, <2>5, <2>6
<1> QED
  BY <1>3, <1>4

\* The state a handler starts from is the current one.
LEMMA NowType ==
    /\ Now.live = live /\ Now.toWin = toWin /\ Now.gate = gate
    /\ Now.posted = exitPosted
BY DEF Now

\* request_window_close: only windows that are no end of a transfer are asked.
LEMMA RequestWindowCloseType ==
    ASSUME TypeOK, NEW S \in SUBSET Window, NEW q \in Queue, NEW n \in Nat,
           RequestWindowClose(S, q, n)
    PROVE  /\ queue' \in Queue
           /\ queue'.records = q.records
           /\ close' \in [Window -> CloseEntry]
           /\ \A w \in Window : Endpoint(q, w) => close'[w] = close[w]
           /\ toWin' \in [Window -> Seq(Event)]
           /\ watch' \subseteq Watchdog
           /\ UNCHANGED <<m, gate, exitPosted, dying, promised, unasked>>
<1> DEFINE held == {w \in S : Endpoint(q, w)}
           asked == S \ held
<1>1. /\ queue' = DeferClose(q, held)
      /\ close' = [w \in Window |->
                      IF w \in asked THEN CloseRequest(close[w]) ELSE close[w]]
      /\ toWin' = [w \in Window |->
                      IF w \in asked
                      THEN Append(toWin[w], [t |-> "closeRequested", n |-> n])
                      ELSE toWin[w]]
      /\ watch' = watch \cup {[kind |-> "close", label |-> w,
                               seq |-> close[w].seq + 1, n |-> n] : w \in asked}
      /\ UNCHANGED <<m, gate, exitPosted, dying, promised, unasked>>
  BY DEF RequestWindowClose
<1>2. held \in SUBSET Window /\ asked \in SUBSET Window
  OBVIOUS
<1>3. \A w \in asked : ~Endpoint(q, w)
  OBVIOUS
<1> HIDE DEF held, asked
<1>4. close \in [Window -> CloseEntry] /\ toWin \in [Window -> Seq(Event)]
      /\ watch \subseteq Watchdog
  BY DEF TypeOK
<1>5. queue' \in Queue /\ queue'.records = q.records
  BY <1>1, <1>2, DeferCloseType
<1>6. close' \in [Window -> CloseEntry]
  BY <1>1, <1>4, CloseRequestType
<1>7. \A w \in Window : Endpoint(q, w) => close'[w] = close[w]
  BY <1>1, <1>3
<1>8. toWin' \in [Window -> Seq(Event)]
  <2>1. [t |-> "closeRequested", n |-> n] \in Event
    BY DEF Event
  <2> QED
    BY <1>1, <1>4, <2>1
<1>9. watch' \subseteq Watchdog
  <2>1. \A w \in Window : close[w].seq + 1 \in Nat
    BY <1>4 DEF CloseEntry
  <2>2. \A w \in Window :
            [kind |-> "close", label |-> w, seq |-> close[w].seq + 1, n |-> n] \in Watchdog
    BY <2>1 DEF Watchdog
  <2> QED
    BY <1>1, <1>2, <1>4, <2>2
<1> QED
  BY <1>1, <1>5, <1>6, <1>7, <1>8, <1>9

\* request_close_or_quit, whichever it becomes.
LEMMA RequestCloseOrQuitType ==
    ASSUME TypeOK, NEW S \in SUBSET Window, NEW q \in Queue, NEW n \in Nat,
           RequestCloseOrQuit(S, q, n)
    PROVE  /\ queue' \in Queue
           /\ queue'.records = q.records
           /\ close' \in [Window -> CloseEntry]
           /\ \A w \in Window : Endpoint(q, w) => close'[w] = close[w]
           /\ toWin' \in [Window -> Seq(Event)]
           /\ watch' \subseteq Watchdog
           /\ promised' \subseteq {"exited", "relaunched"} /\ unasked' \subseteq Window
           /\ m' \in Machine
           /\ q.records # {} => m' = m
           /\ gate' \in Gate
           /\ gate'.pending = gate.pending
           /\ exitPosted' \in BOOLEAN
           /\ dying' \subseteq live
<1>1. CASE Cardinality(live) > 1
  <2>1. RequestWindowClose(S, q, n)
    BY <1>1 DEF RequestCloseOrQuit
  <2> QED
    BY <2>1, RequestWindowCloseType DEF TypeOK
<1>2. CASE ~(Cardinality(live) > 1)
  <2>1. RequestQuit(FALSE, q, Now, n) /\ UNCHANGED close
    BY <1>2 DEF RequestCloseOrQuit
  <2>2. exitPosted \in BOOLEAN /\ close \in [Window -> CloseEntry]
    BY DEF TypeOK
  <2>3. FALSE \in BOOLEAN
    OBVIOUS
  <2> QED
    BY <2>1, <2>2, <2>3, NowType, RequestQuitType
<1> QED
  BY <1>1, <1>2

-----------------------------------------------------------------------------
(* The inductive invariant, one lemma per part of the next-state relation *)

\* The initial states satisfy the inductive invariant.
LEMMA InitIInv == Init => IInv
<1> SUFFICES ASSUME Init PROVE IInv
  OBVIOUS
<1>1. m \in Machine
  BY NewMachineType DEF Init
<1>2. close \in [Window -> CloseEntry]
  BY DEF Init, NoClose, CloseEntry
<1>3. queue \in Queue /\ queue.records = {}
  BY DEF Init, Queue, Deferred
<1>4. gate \in Gate /\ gate.pending = 0
  BY DEF Init, NewGate, Gate
<1>5. toWin \in [Window -> Seq(Event)] /\ toHost \in [Window -> Seq(Command)]
  BY EmptySeqs DEF Init
<1>6. view \in [Window -> View]
  BY DEF Init, NewView, View, QuitPhases, ClosePhases
<1>7. /\ live \subseteq opened /\ dying \subseteq live /\ opened \subseteq Window
      /\ closing \subseteq Window /\ workers \in Nat /\ redrive \in BOOLEAN
      /\ exitPosted \in BOOLEAN /\ exited \in {"running", "exited", "relaunched"}
      /\ watch \subseteq Watchdog /\ triggers \in Nat /\ transfers \in Nat
      /\ reopened \in Nat /\ closedCleanly \in Nat
      /\ promised \subseteq {"exited", "relaunched"} /\ unasked \subseteq Window
  BY InitialWindowsAreOpen DEF Init
<1>8. TypeOK
  BY <1>1, <1>2, <1>3, <1>4, <1>5, <1>6, <1>7 DEF TypeOK
<1>9. WorkersAreCounted /\ EndsAreOpened
  BY <1>3, <1>4 DEF Init, WorkersAreCounted, EndsAreOpened
<1> QED
  BY <1>8, <1>9 DEF IInv

\* A webview's step: it changes its own state and invokes commands.
LEMMA ViewStepIInv ==
    ASSUME IInv, NEW w \in Window, NEW v \in View, NEW cmds \in Seq(Command),
           ViewStep(w, v, cmds), toWin' \in [Window -> Seq(Event)]
    PROVE  IInv'
<1>1. view' \in [Window -> View]
  BY DEF IInv, TypeOK, ViewStep
<1>2. toHost' \in [Window -> Seq(Command)]
  BY DEF IInv, TypeOK, ViewStep
<1> QED
  BY <1>1, <1>2 DEF IInv, TypeOK, WorkersAreCounted, EndsAreOpened, ViewStep,
                    hostVars, boundVars

\* A host step on the machine alone, with a command taken.
LEMMA MachineStepIInv ==
    ASSUME IInv, m' \in Machine, toHost' \in [Window -> Seq(Command)],
           UNCHANGED <<live, dying, opened, closing, close, queue, gate, workers,
                   redrive, exitPosted, exited, watch, closedCleanly, toWin,
                   view, boundVars, promised, unasked>>
    PROVE  IInv'
BY DEF IInv, TypeOK, WorkersAreCounted, EndsAreOpened, boundVars

\* A host step that applies a transition of the quit machine, with a command taken.
LEMMA AppliedStepIInv ==
    ASSUME IInv, NEW r, r.m \in Machine, NEW n \in Nat, Apply(r, Now, {}, n),
           toHost' \in [Window -> Seq(Command)],
           UNCHANGED <<live, opened, closing, close, queue, workers, redrive,
                       exited, closedCleanly, view, boundVars, promised, unasked>>
    PROVE  IInv'
<1>1. /\ TypeOK /\ live \in SUBSET Window /\ toWin \in [Window -> Seq(Event)]
      /\ gate \in Gate /\ exitPosted \in BOOLEAN
  BY DEF IInv, TypeOK
<1>2. {} \in SUBSET Watchdog
  OBVIOUS
<1>3. /\ m' \in Machine /\ gate' \in Gate /\ gate'.pending = gate.pending
      /\ exitPosted' \in BOOLEAN /\ watch' \subseteq Watchdog
      /\ toWin' \in [Window -> Seq(Event)] /\ dying' \subseteq live
  BY <1>1, <1>2, NowType, ApplyType
<1> QED
  BY <1>3 DEF IInv, TypeOK, WorkersAreCounted, EndsAreOpened, boundVars

\* quit_ack, quit_progress, quit_vote, quit_window_done and quit_proceed.
LEMMA QuitCommandsIInv ==
    ASSUME IInv, NEW w \in Window,
           QuitAck(w) \/ QuitProgress(w) \/ QuitVote(w) \/ QuitWindowDone(w)
             \/ QuitProceed(w)
    PROVE  IInv'
<1>1. TypeOK /\ m \in Machine /\ triggers \in Nat
  BY DEF IInv, TypeOK
<1>2. CASE QuitAck(w)
  <2>1. m' \in Machine
    BY <1>1, <1>2, AckType DEF QuitAck
  <2>2. toHost' \in [Window -> Seq(Command)]
    BY <1>1, <1>2, TakeCommandType DEF QuitAck
  <2> QED
    BY <1>2, <2>1, <2>2, MachineStepIInv DEF QuitAck
<1>3. CASE QuitProgress(w)
  <2>1. m' \in Machine
    BY <1>1, <1>3, ProgressType DEF QuitProgress
  <2>2. toHost' \in [Window -> Seq(Command)]
    BY <1>1, <1>3, TakeCommandType DEF QuitProgress
  <2> QED
    BY <1>3, <2>1, <2>2, MachineStepIInv DEF QuitProgress
<1>4. CASE QuitVote(w)
  <2>1. PICK r \in Vote(m, w) : Apply(r, Now, {}, triggers)
    BY <1>4 DEF QuitVote
  <2>2. r.m \in Machine
    BY <1>1, VoteType DEF KeepsIdle
  <2>3. toHost' \in [Window -> Seq(Command)]
    BY <1>1, <1>4, TakeCommandType DEF QuitVote
  <2> QED
    BY <1>1, <1>4, <2>1, <2>2, <2>3, AppliedStepIInv DEF QuitVote
<1>5. CASE QuitWindowDone(w)
  <2>1. WindowDone(m, w).m \in Machine
    BY <1>1, WindowDoneType DEF KeepsIdle
  <2>2. toHost' \in [Window -> Seq(Command)]
    BY <1>1, <1>5, TakeCommandType DEF QuitWindowDone
  <2> QED
    BY <1>1, <1>5, <2>1, <2>2, AppliedStepIInv DEF QuitWindowDone
<1>6. CASE QuitProceed(w)
  <2>1. Proceed(m).m \in Machine
    BY <1>1, ProceedType DEF KeepsIdle
  <2>2. toHost' \in [Window -> Seq(Command)]
    BY <1>1, <1>6, TakeCommandType DEF QuitProceed
  <2> QED
    BY <1>1, <1>6, <2>1, <2>2, AppliedStepIInv DEF QuitProceed
<1> QED
  BY <1>2, <1>3, <1>4, <1>5, <1>6

\* quit_cancel: the vote ends and what was deferred is dropped.
LEMMA QuitCancelIInv ==
    ASSUME IInv, NEW w \in Window, QuitCancel(w)
    PROVE  IInv'
<1>1. /\ TypeOK /\ m \in Machine /\ triggers \in Nat /\ queue \in Queue
      /\ live \in SUBSET Window /\ toWin \in [Window -> Seq(Event)]
      /\ gate \in Gate /\ exitPosted \in BOOLEAN
  BY DEF IInv, TypeOK
<1>2. Cancel(m).m \in Machine
  BY <1>1, CancelType DEF KeepsIdle
<1>3. {} \in SUBSET Watchdog /\ Apply(Cancel(m), Now, {}, triggers)
  BY DEF QuitCancel
<1>4. /\ m' \in Machine /\ gate' \in Gate /\ gate'.pending = gate.pending
      /\ exitPosted' \in BOOLEAN /\ watch' \subseteq Watchdog
      /\ toWin' \in [Window -> Seq(Event)] /\ dying' \subseteq live
  BY <1>1, <1>2, <1>3, NowType, ApplyType
<1>5. queue' \in Queue /\ queue'.records = queue.records
  BY <1>1, CancelDeferredType DEF QuitCancel
<1>6. toHost' \in [Window -> Seq(Command)]
  BY <1>1, TakeCommandType DEF QuitCancel
<1>7. promised' \subseteq {"exited", "relaunched"}
  BY DEF QuitCancel, IInv, TypeOK
<1> QED
  BY <1>4, <1>5, <1>6, <1>7
     DEF IInv, TypeOK, WorkersAreCounted, EndsAreOpened, QuitCancel, boundVars

\* window_close_ack, window_close_cancel, remove_window_session, close_window.
LEMMA CloseCommandsIInv ==
    ASSUME IInv, NEW w \in Window,
           WindowCloseAck(w) \/ WindowCloseCancel(w) \/ RemoveWindowSession(w)
             \/ CloseWindow(w)
    PROVE  IInv'
<1>1. TypeOK /\ close \in [Window -> CloseEntry] /\ queue \in Queue
  BY DEF IInv, TypeOK
<1>2. CASE WindowCloseAck(w)
  <2>1. toHost' \in [Window -> Seq(Command)]
    BY <1>1, <1>2, TakeCommandType DEF WindowCloseAck
  <2>2. close' \in [Window -> CloseEntry]
    BY <1>1, <1>2, CloseAckType DEF WindowCloseAck
  <2> QED
    BY <1>2, <2>1, <2>2
       DEF IInv, TypeOK, WorkersAreCounted, EndsAreOpened, WindowCloseAck, boundVars
<1>3. CASE WindowCloseCancel(w)
  <2>1. toHost' \in [Window -> Seq(Command)]
    BY <1>1, <1>3, TakeCommandType DEF WindowCloseCancel
  <2>2. close' \in [Window -> CloseEntry]
    BY <1>1, <1>3, CloseClearType DEF WindowCloseCancel
  <2>3. queue' \in Queue /\ queue'.records = queue.records
    BY <1>1, <1>3, ForgetDeferredCloseType DEF WindowCloseCancel
  <2> QED
    BY <1>3, <2>1, <2>2, <2>3
       DEF IInv, TypeOK, WorkersAreCounted, EndsAreOpened, WindowCloseCancel, boundVars
<1>4. CASE RemoveWindowSession(w)
  <2>1. toHost' \in [Window -> Seq(Command)]
    BY <1>1, <1>4, TakeCommandType DEF RemoveWindowSession
  <2>2. view' \in [Window -> View]
    BY ZenonT(60), <1>4 DEF RemoveWindowSession, IInv, TypeOK, View, ClosePhases
  <2>3. closedCleanly' \in Nat
    BY <1>4 DEF RemoveWindowSession, PushClosedWindow, IInv, TypeOK
  <2> QED
    BY <1>4, <2>1, <2>2, <2>3
       DEF IInv, TypeOK, WorkersAreCounted, EndsAreOpened, RemoveWindowSession, boundVars
<1>5. CASE CloseWindow(w)
  <2>1. toHost' \in [Window -> Seq(Command)]
    BY <1>1, <1>5, TakeCommandType DEF CloseWindow
  <2>2. close' \in [Window -> CloseEntry]
    BY <1>1, <1>5, CloseClearType DEF CloseWindow, FinishWindowClose
  <2> QED
    BY <1>5, <2>1, <2>2
       DEF IInv, TypeOK, WorkersAreCounted, EndsAreOpened, CloseWindow,
           FinishWindowClose, boundVars
<1> QED
  BY <1>2, <1>3, <1>4, <1>5

\* The four watchdogs.
LEMMA WatchdogIInv ==
    ASSUME IInv, NEW wd \in watch,
           QuitAckTimeout(wd) \/ QuitStallTimeout(wd) \/ CloseAckTimeout(wd)
             \/ GateTimeout(wd)
    PROVE  IInv'
<1>1. /\ TypeOK /\ m \in Machine /\ watch \subseteq Watchdog
      /\ close \in [Window -> CloseEntry] /\ gate \in Gate
  BY DEF IInv, TypeOK
<1>2. CASE QuitAckTimeout(wd)
  <2>1. m' \in Machine
    BY <1>1, <1>2, ApprovedType DEF QuitAckTimeout, GiveUp
  <2>2. watch' \subseteq Watchdog
    <3>1. wd.kind = "ack" /\ wd \in Watchdog
      BY <1>1, <1>2 DEF QuitAckTimeout
    <3>2. wd.seq \in Nat /\ wd.n \in Nat
      BY <3>1 DEF Watchdog
    <3>3. [kind |-> "stall", seq |-> wd.seq, n |-> wd.n] \in Watchdog
      BY <3>2 DEF Watchdog
    <3> QED
      BY <1>1, <1>2, <3>3 DEF QuitAckTimeout, GiveUp
  <2>3. exitPosted' \in BOOLEAN
    BY <1>2 DEF QuitAckTimeout, GiveUp, IInv, TypeOK
  <2> QED
    BY <1>2, <2>1, <2>2, <2>3
       DEF IInv, TypeOK, WorkersAreCounted, EndsAreOpened, QuitAckTimeout,
           boundVars, viewVars
<1>3. CASE QuitStallTimeout(wd)
  <2>1. m' \in Machine
    BY <1>1, <1>3, ApprovedType DEF QuitStallTimeout, GiveUp
  <2>2. watch' \subseteq Watchdog
    BY <1>1, <1>3 DEF QuitStallTimeout, GiveUp
  <2>3. exitPosted' \in BOOLEAN
    BY <1>3 DEF QuitStallTimeout, GiveUp, IInv, TypeOK
  <2> QED
    BY <1>3, <2>1, <2>2, <2>3
       DEF IInv, TypeOK, WorkersAreCounted, EndsAreOpened, QuitStallTimeout,
           boundVars, viewVars
<1>4. CASE CloseAckTimeout(wd)
  <2>1. wd.label \in Window
    BY <1>1, <1>4 DEF CloseAckTimeout, Watchdog
  <2>2. close' \in [Window -> CloseEntry]
    BY <1>1, <1>4, <2>1, CloseClearType DEF CloseAckTimeout, FinishWindowClose
  <2>3. closing' \subseteq Window /\ dying' \subseteq live /\ watch' \subseteq Watchdog
    BY <1>4, <2>1 DEF CloseAckTimeout, FinishWindowClose, IInv, TypeOK
  <2> QED
    BY <1>4, <2>2, <2>3
       DEF IInv, TypeOK, WorkersAreCounted, EndsAreOpened, CloseAckTimeout,
           boundVars, viewVars
<1>5. CASE GateTimeout(wd)
  <2>1. m' \in Machine
    BY <1>1, <1>5, ApprovedType DEF GateTimeout
  <2>2. gate' \in Gate /\ gate'.pending = gate.pending
    BY <1>1, <1>5 DEF GateTimeout, Gate
  <2>3. exitPosted' \in BOOLEAN /\ watch' \subseteq Watchdog
    BY <1>5 DEF GateTimeout, IInv, TypeOK
  <2> QED
    BY <1>5, <2>1, <2>2, <2>3
       DEF IInv, TypeOK, WorkersAreCounted, EndsAreOpened, GateTimeout,
           boundVars, viewVars
<1> QED
  BY <1>2, <1>3, <1>4, <1>5

\* A quit trigger or the close button.
LEMMA TriggersIInv ==
    ASSUME IInv, (\E restart \in BOOLEAN : TriggerQuit(restart))
                   \/ (\E w \in Window : CloseButton(w))
    PROVE  IInv'
<1>1. /\ TypeOK /\ queue \in Queue /\ triggers \in Nat /\ exitPosted \in BOOLEAN
      /\ live \in SUBSET Window
  BY DEF IInv, TypeOK
<1>2. ASSUME NEW restart \in BOOLEAN, TriggerQuit(restart)
      PROVE  IInv'
  <2>1. triggers' \in Nat
    BY <1>1, <1>2 DEF TriggerQuit
  <2>2. RequestQuit(restart, queue, Now, triggers')
    BY <1>2 DEF TriggerQuit
  <2>3. /\ queue' \in Queue /\ queue'.records = queue.records
        /\ promised' \subseteq {"exited", "relaunched"} /\ unasked' \subseteq Window
        /\ m' \in Machine
        /\ gate' \in Gate /\ gate'.pending = gate.pending
        /\ exitPosted' \in BOOLEAN /\ watch' \subseteq Watchdog
        /\ toWin' \in [Window -> Seq(Event)] /\ dying' \subseteq live
    BY <1>1, <2>1, <2>2, NowType, RequestQuitType
  <2> QED
    BY <1>2, <2>1, <2>3
       DEF IInv, TypeOK, WorkersAreCounted, EndsAreOpened, TriggerQuit
<1>3. ASSUME NEW w \in Window, CloseButton(w)
      PROVE  IInv'
  <2>1. triggers' \in Nat
    BY <1>1, <1>3 DEF CloseButton
  <2>2. CASE m.approved
    BY <1>3, <2>1, <2>2
       DEF IInv, TypeOK, WorkersAreCounted, EndsAreOpened, CloseButton
  <2>3. CASE ~m.approved
    <3>1. {w} \in SUBSET Window /\ RequestCloseOrQuit({w}, queue, triggers')
      BY <1>3, <2>3 DEF CloseButton
    <3>2. /\ queue' \in Queue /\ queue'.records = queue.records
          /\ close' \in [Window -> CloseEntry]
          /\ promised' \subseteq {"exited", "relaunched"} /\ unasked' \subseteq Window
          /\ m' \in Machine
          /\ gate' \in Gate /\ gate'.pending = gate.pending
          /\ exitPosted' \in BOOLEAN /\ watch' \subseteq Watchdog
          /\ toWin' \in [Window -> Seq(Event)] /\ dying' \subseteq live
      BY <1>1, <2>1, <3>1, RequestCloseOrQuitType
    <3> QED
      BY <1>3, <2>1, <3>2
         DEF IInv, TypeOK, WorkersAreCounted, EndsAreOpened, CloseButton
  <2> QED
    BY <2>2, <2>3
<1> QED
  BY <1>2, <1>3

\* redrive_deferred_teardown: what the queue releases is asked again.
LEMMA RedriveIInv ==
    ASSUME IInv, Redrive
    PROVE  IInv'
<1> DEFINE ready == TakeReady(queue, live)
<1>1. /\ TypeOK /\ queue \in Queue /\ triggers \in Nat /\ exitPosted \in BOOLEAN
      /\ live \in SUBSET Window
  BY DEF IInv, TypeOK
<1>2. /\ ready.q \in Queue /\ ready.q.records = queue.records
      /\ ready.closes \in SUBSET Window
  BY <1>1, TakeReadyType
<1>3. \/ /\ RequestQuit(ready.quit = "restart", ready.q, Now, triggers)
         /\ UNCHANGED close
      \/ RequestCloseOrQuit(ready.closes, ready.q, triggers)
      \/ /\ queue' = ready.q
         /\ UNCHANGED <<m, close, gate, exitPosted, watch, toWin, dying, promised, unasked>>
  BY DEF Redrive
<1>4. (ready.quit = "restart") \in BOOLEAN
  OBVIOUS
<1> HIDE DEF ready
<1>5. /\ queue' \in Queue /\ queue'.records = queue.records
      /\ close' \in [Window -> CloseEntry]
      /\ promised' \subseteq {"exited", "relaunched"} /\ unasked' \subseteq Window
      /\ m' \in Machine
      /\ gate' \in Gate /\ gate'.pending = gate.pending
      /\ exitPosted' \in BOOLEAN /\ watch' \subseteq Watchdog
      /\ toWin' \in [Window -> Seq(Event)] /\ dying' \subseteq live
  <2>1. CASE RequestQuit(ready.quit = "restart", ready.q, Now, triggers) /\ UNCHANGED close
    <3>1. /\ queue' \in Queue /\ queue'.records = ready.q.records
          /\ promised' \subseteq {"exited", "relaunched"} /\ unasked' \subseteq Window
          /\ m' \in Machine
          /\ gate' \in Gate /\ gate'.pending = gate.pending
          /\ exitPosted' \in BOOLEAN /\ watch' \subseteq Watchdog
          /\ toWin' \in [Window -> Seq(Event)] /\ dying' \subseteq live
      BY <1>1, <1>2, <1>4, <2>1, NowType, RequestQuitType
    <3> QED
      BY <1>1, <1>2, <2>1, <3>1 DEF TypeOK
  <2>2. CASE RequestCloseOrQuit(ready.closes, ready.q, triggers)
    BY <1>1, <1>2, <2>2, RequestCloseOrQuitType
  <2>3. CASE /\ queue' = ready.q
             /\ UNCHANGED <<m, close, gate, exitPosted, watch, toWin, dying, promised, unasked>>
    BY <1>1, <1>2, <2>3 DEF TypeOK
  <2> QED
    BY <1>3, <2>1, <2>2, <2>3
<1> QED
  BY <1>5 DEF IInv, TypeOK, WorkersAreCounted, EndsAreOpened, Redrive, boundVars

\* ExitRequested: the exit itself, or one more quit request.
LEMMA ExitRequestedIInv ==
    ASSUME IInv, ExitRequested
    PROVE  IInv'
<1>1. /\ TypeOK /\ queue \in Queue /\ triggers \in Nat /\ gate \in Gate
  BY DEF IInv, TypeOK
<1>2. CASE m.approved
  <2>1. gate' \in Gate /\ gate'.pending = gate.pending
    BY <1>1, <1>2, GateRequestExitType DEF ExitRequested
  <2>2. watch' \subseteq Watchdog
    <3>1. [kind |-> "gate"] \in Watchdog
      BY DEF Watchdog
    <3> QED
      BY <1>1, <1>2, <3>1 DEF ExitRequested, TypeOK
  <2>3. exited' \in {"running", "exited", "relaunched"}
    BY <1>1, <1>2 DEF ExitRequested, TypeOK, Outcome
  <2> QED
    BY <1>2, <2>1, <2>2, <2>3
       DEF IInv, TypeOK, WorkersAreCounted, EndsAreOpened, ExitRequested, boundVars
<1>3. CASE ~m.approved
  <2> DEFINE s == [Now EXCEPT !.posted = FALSE]
  <2>1. s.live = live /\ s.toWin = toWin /\ s.gate = gate /\ s.posted \in BOOLEAN
    BY DEF Now
  <2>2. RequestQuit(FALSE, queue, s, triggers) /\ exited' = exited /\ FALSE \in BOOLEAN
    BY <1>3 DEF ExitRequested
  <2> HIDE DEF s
  <2>3. /\ queue' \in Queue /\ queue'.records = queue.records
        /\ promised' \subseteq {"exited", "relaunched"} /\ unasked' \subseteq Window
        /\ m' \in Machine
        /\ gate' \in Gate /\ gate'.pending = gate.pending
        /\ exitPosted' \in BOOLEAN /\ watch' \subseteq Watchdog
        /\ toWin' \in [Window -> Seq(Event)] /\ dying' \subseteq live
    BY <1>1, <2>1, <2>2, RequestQuitType
  <2> QED
    BY <2>2, <2>3
       DEF IInv, TypeOK, WorkersAreCounted, EndsAreOpened, ExitRequested, boundVars
<1> QED
  BY <1>2, <1>3

\* A window's end: its hand-back worker is counted in the same step.
LEMMA DestroyedIInv ==
    ASSUME IInv, NEW w \in Window, Destroyed(w)
    PROVE  IInv'
<1> DEFINE lost == {a \in queue.records : a.to = w}
           rest == live \ {w}
           g == IF lost # {} THEN GateBegin(gate) ELSE gate
           s == [Now EXCEPT !.live = rest, !.toWin[w] = <<>>, !.gate = g]
<1>1. /\ TypeOK /\ m \in Machine /\ queue \in Queue /\ triggers \in Nat
      /\ exitPosted \in BOOLEAN /\ live \in SUBSET Window /\ gate \in Gate
      /\ toWin \in [Window -> Seq(Event)] /\ workers \in Nat /\ workers = gate.pending
      /\ close \in [Window -> CloseEntry]
  BY DEF IInv, TypeOK, WorkersAreCounted
<1>2. PICK r \in IF m.approved THEN {Result(m, {})} ELSE ForgetWindow(m, w) :
          Apply(r, s, {}, triggers)
  BY DEF Destroyed
<1>3. r.m \in Machine
  <2>1. CASE m.approved
    BY <1>1, <2>1 DEF Result
  <2>2. CASE ~m.approved
    BY <1>1, <2>2, ForgetWindowType DEF KeepsIdle
  <2> QED
    BY <2>1, <2>2
<1>4. g \in Gate /\ g.pending = IF lost # {} THEN gate.pending + 1 ELSE gate.pending
  BY <1>1, GateBeginType
<1>5. s.live = rest /\ s.gate = g /\ s.posted = exitPosted
  BY DEF Now
<1>6. s.toWin = [toWin EXCEPT ![w] = <<>>]
  BY DEF Now
<1>7. s.toWin \in [Window -> Seq(Event)]
  BY <1>1, <1>6, EmptySeqs
<1>8. rest \in SUBSET Window /\ {} \in SUBSET Watchdog
  BY <1>1
<1>9. workers' = IF lost # {} THEN workers + 1 ELSE workers
  BY DEF Destroyed
<1>10. queue' = [ForgetDeferredClose(queue, w) EXCEPT
                    !.records = ForgetDeferredClose(queue, w).records \ lost]
  BY DEF Destroyed
<1>11. queue' \in Queue /\ queue'.records \subseteq queue.records
  <2> DEFINE f == ForgetDeferredClose(queue, w)
  <2>1. f \in Queue /\ f.records = queue.records
    BY <1>1, ForgetDeferredCloseType
  <2>2. f.records \in SUBSET Arrival
    BY <2>1 DEF Queue
  <2> HIDE DEF f
  <2>3. f.records \ lost \in SUBSET Arrival
    BY <2>2
  <2>4. /\ [f EXCEPT !.records = f.records \ lost] \in Queue
        /\ [f EXCEPT !.records = f.records \ lost].records = f.records \ lost
    BY <2>1, <2>3, RecordsType
  <2>5. queue' = [f EXCEPT !.records = f.records \ lost]
    BY <1>10 DEF f
  <2> QED
    BY <2>1, <2>4, <2>5
<1> HIDE DEF lost, g, s
<1>12. /\ m' \in Machine /\ gate' \in Gate /\ gate'.pending = g.pending
       /\ exitPosted' \in BOOLEAN /\ watch' \subseteq Watchdog
       /\ toWin' \in [Window -> Seq(Event)] /\ dying' \subseteq rest
  BY <1>1, <1>2, <1>3, <1>4, <1>5, <1>7, <1>8, ApplyType
<1>13. workers' \in Nat /\ workers' = gate'.pending
  BY <1>1, <1>4, <1>9, <1>12
<1>14. toHost' \in [Window -> Seq(Command)]
  BY <1>1, EmptySeqs DEF Destroyed, TypeOK
<1>15. view' \in [Window -> View]
  <2>1. NewView \in View
    BY DEF NewView, View, QuitPhases, ClosePhases
  <2> QED
    BY <1>1, <2>1 DEF Destroyed, TypeOK
<1>16. close' \in [Window -> CloseEntry]
  BY <1>1, CloseClearType DEF Destroyed
<1>17. live' = rest /\ redrive' = TRUE
       /\ UNCHANGED <<opened, closing, exited, closedCleanly, boundVars, promised, unasked>>
  BY DEF Destroyed
<1> QED
  BY <1>11, <1>12, <1>13, <1>14, <1>15, <1>16, <1>17
     DEF IInv, TypeOK, WorkersAreCounted, EndsAreOpened, boundVars

\* A hand-back worker's end is counted off in the same step.
LEMMA HandBackWorkerEndsIInv ==
    ASSUME IInv, HandBackWorkerEnds
    PROVE  IInv'
<1> DEFINE r == Result(m, IF GateFinishes(gate) THEN {ExitApp} ELSE {})
           s == [Now EXCEPT !.gate = GateFinish(gate)]
<1>1. /\ TypeOK /\ m \in Machine /\ triggers \in Nat
      /\ exitPosted \in BOOLEAN /\ live \in SUBSET Window /\ gate \in Gate
      /\ toWin \in [Window -> Seq(Event)] /\ workers \in Nat /\ workers = gate.pending
  BY DEF IInv, TypeOK, WorkersAreCounted
<1>2. workers > 0 /\ workers' = workers - 1
  BY DEF HandBackWorkerEnds
<1>3. GateFinish(gate) \in Gate /\ GateFinish(gate).pending = workers - 1
  BY <1>1, <1>2, GateFinishType
<1>4. r.m \in Machine
  BY <1>1 DEF Result
<1>5. s.live = live /\ s.toWin = toWin /\ s.gate = GateFinish(gate)
      /\ s.posted = exitPosted
  BY DEF Now
<1>6. Apply(r, s, {}, triggers) /\ {} \in SUBSET Watchdog
  BY DEF HandBackWorkerEnds
<1> HIDE DEF r, s
<1>7. /\ m' \in Machine /\ gate' \in Gate /\ gate'.pending = workers - 1
      /\ exitPosted' \in BOOLEAN /\ watch' \subseteq Watchdog
      /\ toWin' \in [Window -> Seq(Event)] /\ dying' \subseteq live
  BY <1>1, <1>3, <1>4, <1>5, <1>6, ApplyType
<1>8. workers' \in Nat /\ workers' = gate'.pending
  BY <1>1, <1>2, <1>7
<1> QED
  BY <1>7, <1>8 DEF IInv, TypeOK, WorkersAreCounted, EndsAreOpened,
                    HandBackWorkerEnds, boundVars

-----------------------------------------------------------------------------
(* The webview's flow *)

CommandTags == {"quitVote", "quitProgress", "quitCancel", "quitWindowDone",
                "quitProceed", "closeCancel", "removeSession", "closeWindow"}

\* A command without arguments is a command.
LEMMA CmdType ==
    ASSUME NEW t \in CommandTags
    PROVE  <<Cmd(t)>> \in Seq(Command)
<1>1. Cmd(t) \in Command
  BY DEF Cmd, Command, CommandTags
<1> QED
  BY <1>1

\* The flow's cancel answers the host and leaves a view.
LEMMA CancelFlowType ==
    ASSUME NEW v \in View
    PROVE  /\ CancelQuit(v).v \in View /\ CancelQuit(v).cmds \in Seq(Command)
           /\ CancelClose(v).v \in View /\ CancelClose(v).cmds \in Seq(Command)
<1>1. CancelQuit(v).v \in View /\ CancelClose(v).v \in View
  BY DEF CancelQuit, CancelClose, View, QuitPhases, ClosePhases
<1>2. "quitCancel" \in CommandTags /\ "closeCancel" \in CommandTags
  BY DEF CommandTags
<1>3. CancelQuit(v).cmds = <<Cmd("quitCancel")>> /\ CancelClose(v).cmds = <<Cmd("closeCancel")>>
  BY DEF CancelQuit, CancelClose
<1> QED
  BY <1>1, <1>2, <1>3, CmdType

\* Putting the quit's question leaves a view.
LEMMA AskQuitType ==
    ASSUME NEW v \in View, NEW a \in AskQuit(v)
    PROVE  a.v \in View /\ a.cmds \in Seq(Command)
<1>1. PICK p \in {"confirming", "committed"} :
          a = [v |-> [v EXCEPT !.quit = p, !.holder = "quit"],
               cmds |-> IF p = "committed" THEN <<Cmd("quitVote")>> ELSE <<>>]
  BY DEF AskQuit
<1>2. a.v = [v EXCEPT !.quit = p, !.holder = "quit"]
  BY <1>1
<1>3. [v EXCEPT !.quit = p, !.holder = "quit"] \in View
  BY DEF View, QuitPhases
<1>4. <<Cmd("quitVote")>> \in Seq(Command)
  BY CmdType DEF CommandTags
<1>5. a.cmds = <<Cmd("quitVote")>> \/ a.cmds = <<>>
  BY <1>1
<1> QED
  BY <1>2, <1>3, <1>4, <1>5, EmptySeqs

\* Putting the close's question leaves a view.
LEMMA AskCloseType ==
    ASSUME NEW v \in View, NEW a \in AskClose(v)
    PROVE  a.v \in View /\ a.cmds \in Seq(Command)
<1>1. PICK p \in {"confirming", "removing"} :
          a = [v |-> [v EXCEPT !.close = p, !.holder = "close"],
               cmds |-> IF p = "removing" THEN <<Cmd("removeSession")>> ELSE <<>>]
  BY DEF AskClose
<1>2. a.v = [v EXCEPT !.close = p, !.holder = "close"]
  BY <1>1
<1>3. [v EXCEPT !.close = p, !.holder = "close"] \in View
  BY DEF View, ClosePhases
<1>4. <<Cmd("removeSession")>> \in Seq(Command)
  BY CmdType DEF CommandTags
<1>5. a.cmds = <<Cmd("removeSession")>> \/ a.cmds = <<>>
  BY <1>1
<1> QED
  BY <1>2, <1>3, <1>4, <1>5, EmptySeqs

\* Whatever a quit request meets, the webview answers with commands.
LEMMA QuitRequestType ==
    ASSUME NEW v \in View, NEW a \in QuitRequest(v)
    PROVE  a.v \in View /\ a.cmds \in Seq(Command)
<1>1. CASE v.quit # "idle"
  <2>1. a = [v |-> v, cmds |-> <<>>]
    BY <1>1 DEF QuitRequest
  <2> QED
    BY <2>1, EmptySeqs
<1>2. CASE v.quit = "idle" /\ v.holder # "close"
  BY <1>2, AskQuitType DEF QuitRequest
<1>3. CASE v.quit = "idle" /\ v.holder = "close" /\ v.close # "confirming"
  <2>1. a = [v |-> v, cmds |-> <<Cmd("quitVote")>>]
    BY <1>3 DEF QuitRequest
  <2>2. <<Cmd("quitVote")>> \in Seq(Command)
    BY CmdType DEF CommandTags
  <2> QED
    BY <2>1, <2>2
<1>4. CASE v.quit = "idle" /\ v.holder = "close" /\ v.close = "confirming"
  <2>1. PICK b \in AskQuit(CancelClose(v).v) :
            a = [v |-> b.v, cmds |-> CancelClose(v).cmds \o b.cmds]
    BY <1>4 DEF QuitRequest
  <2>2. b.v \in View /\ b.cmds \in Seq(Command)
    BY CancelFlowType, AskQuitType
  <2>3. CancelClose(v).cmds \o b.cmds \in Seq(Command)
    BY <2>2, CancelFlowType
  <2> QED
    BY <2>1, <2>2, <2>3
<1> QED
  BY <1>1, <1>2, <1>3, <1>4

\* Whatever a close request meets, the webview answers with commands.
LEMMA CloseRequestFlowType ==
    ASSUME NEW v \in View, NEW a \in CloseRequestFlow(v)
    PROVE  a.v \in View /\ a.cmds \in Seq(Command)
<1>1. CASE v.close # "idle"
  <2>1. a = [v |-> v, cmds |-> <<>>]
    BY <1>1 DEF CloseRequestFlow
  <2> QED
    BY <2>1, EmptySeqs
<1>2. CASE v.close = "idle" /\ v.holder = "quit"
  BY <1>2, CancelFlowType DEF CloseRequestFlow
<1>3. CASE v.close = "idle" /\ v.holder # "quit"
  BY <1>3, AskCloseType DEF CloseRequestFlow
<1> QED
  BY <1>1, <1>2, <1>3

\* The events a webview takes.
LEMMA OnEventIInv ==
    ASSUME IInv, NEW w \in Window,
           OnQuitRequested(w) \/ OnQuitCancelled(w) \/ OnQuitTeardown(w)
             \/ OnCloseRequested(w) \/ OnDeparted(w)
    PROVE  IInv'
<1>1. TypeOK /\ view[w] \in View /\ toWin \in [Window -> Seq(Event)]
  BY DEF IInv, TypeOK
<1>2. CASE OnQuitRequested(w)
  <2>1. toWin' \in [Window -> Seq(Event)]
    BY <1>1, <1>2, TakeEventType DEF OnQuitRequested
  <2>2. PICK a \in QuitRequest(view[w]) :
            ViewStep(w, a.v, <<[t |-> "quitAck", n |-> Head(toWin[w]).n]>> \o a.cmds)
    BY <1>2 DEF OnQuitRequested
  <2>3. Head(toWin[w]) \in Event /\ Head(toWin[w]).t = "quitRequested"
    BY <1>1, <1>2 DEF OnQuitRequested, HasEvent
  <2>4. Head(toWin[w]).n \in Nat
    BY <2>3 DEF Event
  <2>5. [t |-> "quitAck", n |-> Head(toWin[w]).n] \in Command
    BY <2>4 DEF Command
  <2>6. a.v \in View /\ a.cmds \in Seq(Command)
    BY <1>1, QuitRequestType
  <2>7. <<[t |-> "quitAck", n |-> Head(toWin[w]).n]>> \o a.cmds \in Seq(Command)
    BY <2>5, <2>6
  <2> QED
    BY <2>1, <2>2, <2>6, <2>7, ViewStepIInv
<1>3. CASE OnQuitCancelled(w)
  <2>1. toWin' \in [Window -> Seq(Event)]
    BY <1>1, <1>3, TakeEventType DEF OnQuitCancelled
  <2>2. ViewStep(w, CancelQuit(view[w]).v, <<>>)
    BY <1>3 DEF OnQuitCancelled
  <2> QED
    BY <1>1, <2>1, <2>2, CancelFlowType, EmptySeqs, ViewStepIInv
<1>4. CASE OnQuitTeardown(w)
  <2> DEFINE v == [view[w] EXCEPT !.td = IF Head(toWin[w]).last THEN "last" ELSE "walk"]
  <2>1. toWin' \in [Window -> Seq(Event)]
    BY <1>1, <1>4, TakeEventType DEF OnQuitTeardown
  <2>2. ViewStep(w, v, <<Cmd("quitProgress")>>)
    BY <1>4 DEF OnQuitTeardown
  <2>3. v \in View
    BY <1>1 DEF View
  <2>4. <<Cmd("quitProgress")>> \in Seq(Command)
    BY CmdType DEF CommandTags
  <2> QED
    BY <2>1, <2>2, <2>3, <2>4, ViewStepIInv
<1>5. CASE OnCloseRequested(w)
  <2>1. toWin' \in [Window -> Seq(Event)]
    BY <1>1, <1>5, TakeEventType DEF OnCloseRequested
  <2>2. PICK a \in CloseRequestFlow(view[w]) :
            ViewStep(w, a.v, <<[t |-> "closeAck", n |-> Head(toWin[w]).n]>> \o a.cmds)
    BY <1>5 DEF OnCloseRequested
  <2>3. Head(toWin[w]) \in Event /\ Head(toWin[w]).t = "closeRequested"
    BY <1>1, <1>5 DEF OnCloseRequested, HasEvent
  <2>4. Head(toWin[w]).n \in Nat
    BY <2>3 DEF Event
  <2>5. [t |-> "closeAck", n |-> Head(toWin[w]).n] \in Command
    BY <2>4 DEF Command
  <2>6. a.v \in View /\ a.cmds \in Seq(Command)
    BY <1>1, CloseRequestFlowType
  <2>7. <<[t |-> "closeAck", n |-> Head(toWin[w]).n]>> \o a.cmds \in Seq(Command)
    BY <2>5, <2>6
  <2> QED
    BY <2>1, <2>2, <2>6, <2>7, ViewStepIInv
<1>6. CASE OnDeparted(w)
  <2>1. toWin' \in [Window -> Seq(Event)]
    BY <1>1, <1>6, TakeEventType DEF OnDeparted
  <2>2. PICK cmds \in {<<>>, <<Cmd("closeWindow")>>} : ViewStep(w, view[w], cmds)
    BY <1>6 DEF OnDeparted
  <2>3. <<Cmd("closeWindow")>> \in Seq(Command)
    BY CmdType DEF CommandTags
  <2>4. cmds \in Seq(Command)
    BY <2>2, <2>3, EmptySeqs
  <2> QED
    BY <1>1, <2>1, <2>2, <2>4, ViewStepIInv
<1> QED
  BY <1>2, <1>3, <1>4, <1>5, <1>6

\* What a webview does on its own, or on its human's word.
LEMMA ViewMovesIInv ==
    ASSUME IInv, NEW w \in Window,
           Confirm(w) \/ Decline(w) \/ QuitTeardownEnds(w) \/ CloseTeardownEnds(w)
             \/ Wedge(w)
    PROVE  IInv'
<1>1. TypeOK /\ view[w] \in View /\ toWin \in [Window -> Seq(Event)]
  BY DEF IInv, TypeOK
<1>2. CASE Confirm(w)
  <2>1. \/ ViewStep(w, [view[w] EXCEPT !.quit = "committed"], <<Cmd("quitVote")>>)
        \/ ViewStep(w, [view[w] EXCEPT !.close = "removing"], <<Cmd("removeSession")>>)
    BY <1>2 DEF Confirm
  <2>2. toWin' \in [Window -> Seq(Event)]
    BY <1>1, <1>2 DEF Confirm
  <2>3. /\ [view[w] EXCEPT !.quit = "committed"] \in View
        /\ [view[w] EXCEPT !.close = "removing"] \in View
    BY <1>1 DEF View, QuitPhases, ClosePhases
  <2>4. <<Cmd("quitVote")>> \in Seq(Command) /\ <<Cmd("removeSession")>> \in Seq(Command)
    BY CmdType DEF CommandTags
  <2> QED
    BY <2>1, <2>2, <2>3, <2>4, ViewStepIInv
<1>3. CASE Decline(w)
  <2>1. \/ ViewStep(w, CancelQuit(view[w]).v, CancelQuit(view[w]).cmds)
        \/ ViewStep(w, CancelClose(view[w]).v, CancelClose(view[w]).cmds)
    BY <1>3 DEF Decline
  <2>2. toWin' \in [Window -> Seq(Event)]
    BY <1>1, <1>3 DEF Decline
  <2> QED
    BY <1>1, <2>1, <2>2, CancelFlowType, ViewStepIInv
<1>4. CASE QuitTeardownEnds(w)
  <2> DEFINE t == IF view[w].td = "last" THEN "quitProceed" ELSE "quitWindowDone"
  <2>1. ViewStep(w, [view[w] EXCEPT !.td = "done"], <<Cmd(t)>>)
    BY <1>4 DEF QuitTeardownEnds
  <2>2. toWin' \in [Window -> Seq(Event)]
    BY <1>1, <1>4 DEF QuitTeardownEnds
  <2>3. [view[w] EXCEPT !.td = "done"] \in View
    BY <1>1 DEF View
  <2>4. t \in CommandTags
    BY DEF CommandTags
  <2> HIDE DEF t
  <2> QED
    BY <2>1, <2>2, <2>3, <2>4, CmdType, ViewStepIInv
<1>5. CASE CloseTeardownEnds(w)
  <2>1. ViewStep(w, [view[w] EXCEPT !.close = "ended"], <<Cmd("closeWindow")>>)
    BY <1>5 DEF CloseTeardownEnds
  <2>2. toWin' \in [Window -> Seq(Event)]
    BY <1>1, <1>5 DEF CloseTeardownEnds
  <2>3. [view[w] EXCEPT !.close = "ended"] \in View
    BY <1>1 DEF View, ClosePhases
  <2>4. <<Cmd("closeWindow")>> \in Seq(Command)
    BY CmdType DEF CommandTags
  <2> QED
    BY <2>1, <2>2, <2>3, <2>4, ViewStepIInv
<1>6. CASE Wedge(w)
  <2>1. view' \in [Window -> View]
    BY <1>1, <1>6 DEF Wedge, TypeOK, View
  <2> QED
    BY <1>6, <2>1 DEF IInv, TypeOK, WorkersAreCounted, EndsAreOpened, Wedge,
                      hostVars, boundVars
<1> QED
  BY <1>2, <1>3, <1>4, <1>5, <1>6

-----------------------------------------------------------------------------
(* Transfers *)

\* Settling a transfer takes its record out of the queue and nothing else.
LEMMA SettledRecords ==
    ASSUME NEW q \in Queue, NEW a, NEW r, r = [q EXCEPT !.records = @ \ {a}]
    PROVE  r \in Queue /\ r.records \subseteq q.records
<1>1. q.records \ {a} \in SUBSET Arrival
  BY DEF Queue
<1>2. r = [q EXCEPT !.records = q.records \ {a}]
  OBVIOUS
<1> QED
  BY <1>1, <1>2, RecordsType

\* journal_and_open_arrival, adopt_done, hand_back_arrival and Reopen.
LEMMA TransfersIInv ==
    ASSUME IInv,
           \/ \E from, to \in Window : BeginTransfer(from, to)
           \/ \E a \in queue.records : BuildTornOut(a) \/ AdoptDone(a) \/ HandBack(a)
           \/ \E w \in Window : ReopenClosedWindow(w)
    PROVE  IInv'
<1>1. /\ TypeOK /\ queue \in Queue /\ queue.records \in SUBSET Arrival
      /\ transfers \in Nat /\ toWin \in [Window -> Seq(Event)]
  BY DEF IInv, TypeOK, Queue
<1>2. ASSUME NEW from \in Window, NEW to \in Window, BeginTransfer(from, to)
      PROVE  IInv'
  <2> DEFINE a == [from |-> from, to |-> to]
             R == queue.records \cup {a}
  <2>1. a \in Arrival /\ a.from = from /\ a.to = to
    BY DEF Arrival
  <2>2. queue' = [queue EXCEPT !.records = R]
    BY <1>2 DEF BeginTransfer
  <2> HIDE DEF a
  <2>3. queue' \in Queue /\ queue'.records = R
    BY <1>1, <2>1, <2>2, RecordsType
  <2>4. opened' = opened \cup {to} /\ from \in opened
    BY <1>1, <1>2 DEF BeginTransfer, TypeOK
  <2>5. EndsAreOpened'
    BY <2>1, <2>3, <2>4 DEF IInv, EndsAreOpened
  <2>6. transfers' \in Nat
    BY <1>1, <1>2 DEF BeginTransfer
  <2>7. opened' \subseteq Window
    BY <1>1, <2>4 DEF TypeOK
  <2> QED
    BY <1>2, <2>3, <2>4, <2>5, <2>6, <2>7
       DEF IInv, TypeOK, WorkersAreCounted, BeginTransfer, viewVars
<1>3. ASSUME NEW a \in queue.records, BuildTornOut(a)
      PROVE  IInv'
  <2>1. a.to \in opened
    BY DEF IInv, EndsAreOpened
  <2> QED
    BY <1>3, <2>1 DEF IInv, TypeOK, WorkersAreCounted, EndsAreOpened, BuildTornOut,
                      viewVars, boundVars
<1>4. ASSUME NEW a \in queue.records, AdoptDone(a)
      PROVE  IInv'
  <2>1. queue' \in Queue /\ queue'.records \subseteq queue.records
    BY <1>1, <1>4, SettledRecords DEF AdoptDone
  <2>2. toWin' \in [Window -> Seq(Event)]
    <3>1. [t |-> "departed"] \in Event
      BY DEF Event
    <3>2. a.from \in Window
      BY <1>1 DEF Arrival
    <3>3. Append(toWin[a.from], [t |-> "departed"]) \in Seq(Event)
      BY <1>1, <3>1, <3>2
    <3> QED
      BY <1>1, <1>4, <3>3 DEF AdoptDone
  <2> QED
    BY <1>4, <2>1, <2>2 DEF IInv, TypeOK, WorkersAreCounted, EndsAreOpened, AdoptDone,
                            boundVars
<1>5. ASSUME NEW a \in queue.records, HandBack(a)
      PROVE  IInv'
  <2>1. queue' \in Queue /\ queue'.records \subseteq queue.records
    BY <1>1, <1>5, SettledRecords DEF HandBack
  <2> QED
    BY <1>5, <2>1 DEF IInv, TypeOK, WorkersAreCounted, EndsAreOpened, HandBack,
                      viewVars, boundVars
<1>6. ASSUME NEW w \in Window, ReopenClosedWindow(w)
      PROVE  IInv'
  <2>1. closedCleanly' \in Nat
    BY <1>1, <1>6 DEF ReopenClosedWindow, TypeOK
  <2>2. reopened' \in Nat /\ unasked' \subseteq Window
    BY <1>1, <1>6 DEF ReopenClosedWindow, TypeOK
  <2> QED
    BY <1>6, <2>1, <2>2 DEF IInv, TypeOK, WorkersAreCounted, EndsAreOpened,
                            ReopenClosedWindow, viewVars
<1> QED
  BY <1>2, <1>3, <1>4, <1>5, <1>6

-----------------------------------------------------------------------------
(* The theorem *)

\* Every step, and every stutter, keeps the inductive invariant.
LEMMA NextIInv == IInv /\ [Next]_vars => IInv'
<1> SUFFICES ASSUME IInv, [Next]_vars PROVE IInv'
  OBVIOUS
<1>1. CASE HostStep
  BY <1>1, RedriveIInv, ExitRequestedIInv, DestroyedIInv, QuitCommandsIInv,
     QuitCancelIInv, CloseCommandsIInv DEF HostStep
<1>2. CASE WatchdogStep
  BY <1>2, WatchdogIInv DEF WatchdogStep
<1>3. CASE ViewStepNext
  BY <1>3, OnEventIInv, ViewMovesIInv DEF ViewStepNext
<1>4. CASE HumanAnswers
  BY <1>4, ViewMovesIInv DEF HumanAnswers
<1>5. CASE SettleTransfer
  BY <1>5, TransfersIInv DEF SettleTransfer
<1>6. CASE Optional
  BY <1>6, TriggersIInv, ViewMovesIInv, TransfersIInv, HandBackWorkerEndsIInv
     DEF Optional
<1>7. CASE UNCHANGED vars
  BY <1>7 DEF IInv, TypeOK, WorkersAreCounted, EndsAreOpened, vars, hostVars,
              viewVars, boundVars
<1> QED
  BY <1>1, <1>2, <1>3, <1>4, <1>5, <1>6, <1>7 DEF Next, Progressing

\* The inductive invariant holds of every behaviour.
THEOREM IInvHolds == Spec => []IInv
<1> QED
  BY InitIInv, NextIInv, PTL DEF Spec

\* Type correctness of the quit flow, whatever the windows and the bounds: among
\* the rest, the walk's index never leaves its order's positions below 1, a window
\* being destroyed is still listed, and the gate's count never goes negative.
THEOREM TypesHold == Spec => []TypeOK
<1>1. IInv => TypeOK
  BY DEF IInv
<1> QED
  BY <1>1, IInvHolds, PTL

-----------------------------------------------------------------------------
(* The exit waits for the hand-backs *)

\* Nothing happens once the app has exited.
LEMMA NextRuns == Next => Running
<1>1. HostStep => Running
  BY DEF HostStep, Redrive, ExitRequested, Destroyed, QuitAck, QuitProgress,
         QuitVote, QuitCancel, QuitWindowDone, QuitProceed, WindowCloseAck,
         WindowCloseCancel, RemoveWindowSession, CloseWindow, HasCommand
<1>2. WatchdogStep => Running
  BY DEF WatchdogStep, QuitAckTimeout, QuitStallTimeout, CloseAckTimeout, GateTimeout
<1>3. ViewStepNext => Running
  BY DEF ViewStepNext, OnQuitRequested, OnQuitCancelled, OnQuitTeardown,
         OnCloseRequested, OnDeparted, QuitTeardownEnds, CloseTeardownEnds,
         HasEvent, CanAnswer
<1>4. HumanAnswers => Running
  BY DEF HumanAnswers, Confirm, Decline, CanAnswer
<1>5. SettleTransfer => Running
  BY DEF SettleTransfer, AdoptDone, HandBack
<1>6. Optional => Running
  BY DEF Optional, TriggerQuit, CloseButton, Wedge, ReopenClosedWindow,
         BeginTransfer, BuildTornOut, HandBackWorkerEnds
<1> QED
  BY <1>1, <1>2, <1>3, <1>4, <1>5, <1>6 DEF Next, Progressing

\* Only the ExitRequested handler ends the app.
LEMMA OnlyExitRequestedEnds == Next => ExitRequested \/ exited' = exited
<1>1. HostStep => ExitRequested \/ exited' = exited
  BY DEF HostStep, Redrive, Destroyed, QuitAck, QuitProgress,
         QuitVote, QuitCancel, QuitWindowDone, QuitProceed, WindowCloseAck,
         WindowCloseCancel, RemoveWindowSession, CloseWindow
<1>2. WatchdogStep => exited' = exited
  BY DEF WatchdogStep, QuitAckTimeout, QuitStallTimeout, CloseAckTimeout, GateTimeout
<1>3. ViewStepNext => exited' = exited
  BY DEF ViewStepNext, OnQuitRequested, OnQuitCancelled, OnQuitTeardown,
         OnCloseRequested, OnDeparted, QuitTeardownEnds, CloseTeardownEnds,
         ViewStep, hostVars
<1>4. HumanAnswers => exited' = exited
  BY DEF HumanAnswers, Confirm, Decline, ViewStep, hostVars
<1>5. SettleTransfer => exited' = exited
  BY DEF SettleTransfer, AdoptDone, HandBack
<1>6. Optional => exited' = exited
  BY DEF Optional, TriggerQuit, CloseButton, Wedge, ReopenClosedWindow,
         BeginTransfer, BuildTornOut, HandBackWorkerEnds, hostVars
<1> QED
  BY <1>1, <1>2, <1>3, <1>4, <1>5, <1>6 DEF Next, Progressing

\* The step that ends the app finds the gate open: no worker runs, or the
\* gate's watchdog has forced it.
LEMMA EndsBehindGate ==
    ASSUME IInv, ExitRequested, Running
    PROVE  ExitWaitsForHandBacks'
<1>1. gate \in Gate /\ workers = gate.pending /\ workers' = workers
  BY DEF IInv, TypeOK, WorkersAreCounted, ExitRequested
<1>2. CASE m.approved /\ GateOpen(gate)
  <2>1. gate' = GateRequestExit(gate)
    BY <1>2 DEF ExitRequested
  <2>2. gate'.forced = gate.forced
    BY <1>1, <2>1, GateRequestExitType
  <2> QED
    BY <1>1, <1>2, <2>2 DEF GateOpen, ExitWaitsForHandBacks
<1>3. CASE ~(m.approved /\ GateOpen(gate))
  <2>1. exited' = exited
    BY <1>3 DEF ExitRequested
  <2> QED
    BY <2>1 DEF ExitWaitsForHandBacks, Running
<1> QED
  BY <1>2, <1>3

\* The app never exits over a hand-back that has not reached the journal, unless
\* the gate's own watchdog gave up on it (CleanupGate, exit_after_cleanup).
THEOREM ExitGateHolds == Spec => []ExitWaitsForHandBacks
<1>1. Init => ExitWaitsForHandBacks
  BY DEF Init, ExitWaitsForHandBacks, Running
<1>2. IInv /\ ExitWaitsForHandBacks /\ [Next]_vars => ExitWaitsForHandBacks'
  <2> SUFFICES ASSUME IInv, ExitWaitsForHandBacks, [Next]_vars
               PROVE  ExitWaitsForHandBacks'
    OBVIOUS
  <2>1. CASE ExitRequested /\ Next
    BY <2>1, NextRuns, EndsBehindGate
  <2>2. CASE exited' = exited /\ Next
    BY <2>2, NextRuns DEF ExitWaitsForHandBacks, Running
  <2>3. CASE UNCHANGED vars
    BY <2>3 DEF ExitWaitsForHandBacks, Running, vars, hostVars
  <2> QED
    BY <2>1, <2>2, <2>3, OnlyExitRequestedEnds
<1> QED
  BY <1>1, <1>2, IInvHolds, PTL DEF Spec

-----------------------------------------------------------------------------
(* Transfers and teardown exclude each other *)

\* No close becomes active at an end of a transfer that is still in flight.
ClosesKept ==
    \A a \in queue'.records :
        /\ close'[a.from].active => close[a.from].active
        /\ close'[a.to].active => close[a.to].active

\* A step that begins no transfer, starts no quit while one is in flight and
\* asks no end of one to close keeps the exclusion.
LEMMA ExclusionKept ==
    ASSUME TransfersExcludeTeardown, queue'.records \subseteq queue.records,
           queue'.records # {} => (m.phase = "idle" => m'.phase = "idle"),
           ClosesKept
    PROVE  TransfersExcludeTeardown'
BY DEF TransfersExcludeTeardown, ClosesKept

\* A step that leaves the queue and the closes alone and does not take the quit
\* machine out of idle.
LEMMA ExclusionUntouched ==
    ASSUME TransfersExcludeTeardown, UNCHANGED <<queue, close>>,
           m.phase = "idle" => m'.phase = "idle"
    PROVE  TransfersExcludeTeardown'
BY DEF TransfersExcludeTeardown

\* Ends of records are windows and endpoints.
LEMMA EndsAreEndpoints ==
    ASSUME NEW q \in Queue, NEW a \in q.records
    PROVE  /\ a.from \in Window /\ a.to \in Window
           /\ Endpoint(q, a.from) /\ Endpoint(q, a.to)
BY DEF Queue, Arrival, Endpoint

\* Retiring or acknowledging one window's close activates none.
LEMMA CloseEntryKept ==
    ASSUME close \in [Window -> CloseEntry], NEW w \in Window,
           NEW e \in CloseEntry, e.active => close[w].active,
           close' = [close EXCEPT ![w] = e], queue' \in Queue
    PROVE  ClosesKept
<1>1. \A v \in Window : close'[v].active => close[v].active
  OBVIOUS
<1> QED
  BY <1>1, EndsAreEndpoints DEF ClosesKept

\* Applying a transition that keeps an idle machine idle.
LEMMA ApplyKeepsIdle ==
    ASSUME IInv, NEW r, KeepsIdle(m, r), Apply(r, Now, {}, triggers)
    PROVE  m.phase = "idle" => m'.phase = "idle"
<1>1. /\ TypeOK /\ live \in SUBSET Window /\ toWin \in [Window -> Seq(Event)]
      /\ gate \in Gate /\ exitPosted \in BOOLEAN /\ triggers \in Nat
      /\ {} \in SUBSET Watchdog
  BY DEF IInv, TypeOK
<1>2. r.m \in Machine /\ (m.phase = "idle" => r.m.phase = "idle")
  BY DEF KeepsIdle
<1>3. m'.phase = r.m.phase
  BY <1>1, <1>2, NowType, ApplyType
<1> QED
  BY <1>2, <1>3

\* The quit commands of the webviews.
LEMMA QuitCommandsExclude ==
    ASSUME IInv, TransfersExcludeTeardown, NEW w \in Window,
           QuitAck(w) \/ QuitProgress(w) \/ QuitVote(w) \/ QuitWindowDone(w)
             \/ QuitProceed(w) \/ QuitCancel(w)
    PROVE  TransfersExcludeTeardown'
<1>1. m \in Machine /\ queue \in Queue
  BY DEF IInv, TypeOK
<1>2. CASE QuitAck(w)
  BY <1>1, <1>2, AckType, ExclusionUntouched DEF QuitAck
<1>3. CASE QuitProgress(w)
  BY <1>1, <1>3, ProgressType, ExclusionUntouched DEF QuitProgress
<1>4. CASE QuitVote(w)
  <2>1. PICK r \in Vote(m, w) : Apply(r, Now, {}, triggers)
    BY <1>4 DEF QuitVote
  <2>2. m.phase = "idle" => m'.phase = "idle"
    BY <1>1, <2>1, VoteType, ApplyKeepsIdle
  <2> QED
    BY <1>4, <2>2, ExclusionUntouched DEF QuitVote
<1>5. CASE QuitWindowDone(w)
  <2>1. m.phase = "idle" => m'.phase = "idle"
    BY <1>1, <1>5, WindowDoneType, ApplyKeepsIdle DEF QuitWindowDone
  <2> QED
    BY <1>5, <2>1, ExclusionUntouched DEF QuitWindowDone
<1>6. CASE QuitProceed(w)
  <2>1. m.phase = "idle" => m'.phase = "idle"
    BY <1>1, <1>6, ProceedType, ApplyKeepsIdle DEF QuitProceed
  <2> QED
    BY <1>6, <2>1, ExclusionUntouched DEF QuitProceed
<1>7. CASE QuitCancel(w)
  <2>1. m.phase = "idle" => m'.phase = "idle"
    BY <1>1, <1>7, CancelType, ApplyKeepsIdle DEF QuitCancel
  <2>2. queue'.records = queue.records
    BY <1>1, <1>7, CancelDeferredType DEF QuitCancel
  <2>3. ClosesKept
    BY <1>7 DEF QuitCancel, ClosesKept
  <2> QED
    BY <2>1, <2>2, <2>3, ExclusionKept
<1> QED
  BY <1>2, <1>3, <1>4, <1>5, <1>6, <1>7

\* The close commands of the webviews.
LEMMA CloseCommandsExclude ==
    ASSUME IInv, TransfersExcludeTeardown, NEW w \in Window,
           WindowCloseAck(w) \/ WindowCloseCancel(w) \/ RemoveWindowSession(w)
             \/ CloseWindow(w)
    PROVE  TransfersExcludeTeardown'
<1>1. close \in [Window -> CloseEntry] /\ queue \in Queue
  BY DEF IInv, TypeOK
<1>2. CASE WindowCloseAck(w)
  <2>1. close' = [close EXCEPT ![w] = CloseAck(close[w])] /\ queue' = queue /\ m' = m
    BY <1>2 DEF WindowCloseAck
  <2>2. ClosesKept
    BY <1>1, <2>1, CloseAckType, CloseEntryKept
  <2> QED
    BY <2>1, <2>2, ExclusionKept
<1>3. CASE WindowCloseCancel(w)
  <2>1. /\ close' = [close EXCEPT ![w] = CloseClear(close[w])]
        /\ queue' = ForgetDeferredClose(queue, w) /\ m' = m
    BY <1>3 DEF WindowCloseCancel
  <2>2. queue' \in Queue /\ queue'.records = queue.records
    BY <1>1, <2>1, ForgetDeferredCloseType
  <2>3. ClosesKept
    BY <1>1, <2>1, <2>2, CloseClearType, CloseEntryKept
  <2> QED
    BY <2>1, <2>2, <2>3, ExclusionKept
<1>4. CASE RemoveWindowSession(w)
  BY <1>4, ExclusionUntouched DEF RemoveWindowSession
<1>5. CASE CloseWindow(w)
  <2>1. close' = [close EXCEPT ![w] = CloseClear(close[w])] /\ queue' = queue /\ m' = m
    BY <1>5 DEF CloseWindow, FinishWindowClose
  <2>2. ClosesKept
    BY <1>1, <2>1, CloseClearType, CloseEntryKept
  <2> QED
    BY <2>1, <2>2, ExclusionKept
<1> QED
  BY <1>2, <1>3, <1>4, <1>5

\* The watchdogs: they approve an exit or retire a close.
LEMMA WatchdogsExclude ==
    ASSUME IInv, TransfersExcludeTeardown, NEW wd \in watch,
           QuitAckTimeout(wd) \/ QuitStallTimeout(wd) \/ CloseAckTimeout(wd)
             \/ GateTimeout(wd)
    PROVE  TransfersExcludeTeardown'
<1>1. /\ m \in Machine /\ close \in [Window -> CloseEntry] /\ queue \in Queue
      /\ watch \subseteq Watchdog
  BY DEF IInv, TypeOK
<1>2. CASE QuitAckTimeout(wd)
  <2>1. m'.phase = m.phase
    BY <1>1, <1>2, ApprovedType DEF QuitAckTimeout, GiveUp
  <2> QED
    BY <1>2, <2>1, ExclusionUntouched DEF QuitAckTimeout
<1>3. CASE QuitStallTimeout(wd)
  <2>1. m'.phase = m.phase
    BY <1>1, <1>3, ApprovedType DEF QuitStallTimeout, GiveUp
  <2> QED
    BY <1>3, <2>1, ExclusionUntouched DEF QuitStallTimeout
<1>4. CASE CloseAckTimeout(wd)
  <2>1. wd.label \in Window /\ queue' = queue /\ m' = m
    BY <1>1, <1>4 DEF CloseAckTimeout, Watchdog
  <2>2. \/ close' = close
        \/ close' = [close EXCEPT ![wd.label] = CloseClear(close[wd.label])]
    BY <1>4 DEF CloseAckTimeout, FinishWindowClose
  <2>3. CASE close' = close
    BY <2>1, <2>3, ExclusionUntouched
  <2>4. CASE close' = [close EXCEPT ![wd.label] = CloseClear(close[wd.label])]
    <3>1. ClosesKept
      BY <1>1, <2>1, <2>4, CloseClearType, CloseEntryKept
    <3> QED
      BY <2>1, <3>1, ExclusionKept
  <2> QED
    BY <2>2, <2>3, <2>4
<1>5. CASE GateTimeout(wd)
  <2>1. m'.phase = m.phase
    BY <1>1, <1>5, ApprovedType DEF GateTimeout
  <2> QED
    BY <1>5, <2>1, ExclusionUntouched DEF GateTimeout
<1> QED
  BY <1>2, <1>3, <1>4, <1>5

\* What a request, of a quit or of closes, leaves when q's records are in flight.
LEMMA RequestExcludes ==
    ASSUME IInv, TransfersExcludeTeardown, NEW q \in Queue, q.records = queue.records,
           queue' \in Queue, queue'.records = q.records, q.records # {} => m' = m,
           \A w \in Window : Endpoint(q, w) => close'[w] = close[w]
    PROVE  TransfersExcludeTeardown'
<1>1. ClosesKept
  BY EndsAreEndpoints DEF ClosesKept
<1>2. queue'.records # {} => (m.phase = "idle" => m'.phase = "idle")
  OBVIOUS
<1> QED
  BY <1>1, <1>2, ExclusionKept

\* The triggers: TriggerQuit and the close button.
LEMMA TriggersExclude ==
    ASSUME IInv, TransfersExcludeTeardown,
           (\E restart \in BOOLEAN : TriggerQuit(restart))
             \/ (\E w \in Window : CloseButton(w))
    PROVE  TransfersExcludeTeardown'
<1>1. TypeOK /\ queue \in Queue /\ triggers \in Nat /\ exitPosted \in BOOLEAN
  BY DEF IInv, TypeOK
<1>2. ASSUME NEW restart \in BOOLEAN, TriggerQuit(restart)
      PROVE  TransfersExcludeTeardown'
  <2>1. triggers' \in Nat /\ RequestQuit(restart, queue, Now, triggers') /\ close' = close
    BY <1>1, <1>2 DEF TriggerQuit
  <2>2. queue' \in Queue /\ queue'.records = queue.records /\ (queue.records # {} => m' = m)
    BY <1>1, <2>1, NowType, RequestQuitType
  <2> QED
    BY <1>1, <2>1, <2>2, RequestExcludes
<1>3. ASSUME NEW w \in Window, CloseButton(w)
      PROVE  TransfersExcludeTeardown'
  <2>1. triggers' \in Nat
    BY <1>1, <1>3 DEF CloseButton
  <2>2. CASE m.approved
    BY <1>3, <2>2, ExclusionUntouched DEF CloseButton
  <2>3. CASE ~m.approved
    <3>1. {w} \in SUBSET Window /\ RequestCloseOrQuit({w}, queue, triggers')
      BY <1>3, <2>3 DEF CloseButton
    <3>2. /\ queue' \in Queue /\ queue'.records = queue.records
          /\ queue.records # {} => m' = m
          /\ \A v \in Window : Endpoint(queue, v) => close'[v] = close[v]
      BY <1>1, <2>1, <3>1, RequestCloseOrQuitType
    <3> QED
      BY <1>1, <3>2, RequestExcludes
  <2> QED
    BY <2>2, <2>3
<1> QED
  BY <1>2, <1>3

\* redrive_deferred_teardown: what it releases is asked as any other request.
LEMMA RedriveExcludes ==
    ASSUME IInv, TransfersExcludeTeardown, Redrive
    PROVE  TransfersExcludeTeardown'
<1> DEFINE ready == TakeReady(queue, live)
<1>1. /\ TypeOK /\ queue \in Queue /\ triggers \in Nat /\ exitPosted \in BOOLEAN
      /\ live \in SUBSET Window
  BY DEF IInv, TypeOK
<1>2. /\ ready.q \in Queue /\ ready.q.records = queue.records
      /\ ready.closes \in SUBSET Window
  BY <1>1, TakeReadyType
<1>3. \/ /\ RequestQuit(ready.quit = "restart", ready.q, Now, triggers)
         /\ UNCHANGED close
      \/ RequestCloseOrQuit(ready.closes, ready.q, triggers)
      \/ /\ queue' = ready.q
         /\ UNCHANGED <<m, close, gate, exitPosted, watch, toWin, dying, promised, unasked>>
  BY DEF Redrive
<1>4. (ready.quit = "restart") \in BOOLEAN
  OBVIOUS
<1> HIDE DEF ready
<1>5. CASE RequestQuit(ready.quit = "restart", ready.q, Now, triggers) /\ UNCHANGED close
  <2>1. /\ queue' \in Queue /\ queue'.records = ready.q.records
        /\ ready.q.records # {} => m' = m
    BY <1>1, <1>2, <1>4, <1>5, NowType, RequestQuitType
  <2> QED
    BY <1>2, <1>5, <2>1, RequestExcludes
<1>6. CASE RequestCloseOrQuit(ready.closes, ready.q, triggers)
  <2>1. /\ queue' \in Queue /\ queue'.records = ready.q.records
        /\ ready.q.records # {} => m' = m
        /\ \A v \in Window : Endpoint(ready.q, v) => close'[v] = close[v]
    BY <1>1, <1>2, <1>6, RequestCloseOrQuitType
  <2> QED
    BY <1>2, <2>1, RequestExcludes
<1>7. CASE queue' = ready.q /\ UNCHANGED <<m, close>>
  BY <1>2, <1>7, RequestExcludes
<1> QED
  BY <1>3, <1>5, <1>6, <1>7

\* ExitRequested: unapproved, it is one more quit request.
LEMMA ExitRequestedExcludes ==
    ASSUME IInv, TransfersExcludeTeardown, ExitRequested
    PROVE  TransfersExcludeTeardown'
<1>1. TypeOK /\ queue \in Queue /\ triggers \in Nat /\ close' = close
  BY DEF IInv, TypeOK, ExitRequested
<1>2. CASE m.approved
  BY <1>2, ExclusionUntouched DEF ExitRequested
<1>3. CASE ~m.approved
  <2> DEFINE s == [Now EXCEPT !.posted = FALSE]
  <2>1. s.live = live /\ s.toWin = toWin /\ s.gate = gate /\ s.posted \in BOOLEAN
    BY DEF Now
  <2>2. RequestQuit(FALSE, queue, s, triggers) /\ FALSE \in BOOLEAN
    BY <1>3 DEF ExitRequested
  <2> HIDE DEF s
  <2>3. queue' \in Queue /\ queue'.records = queue.records /\ (queue.records # {} => m' = m)
    BY <1>1, <2>1, <2>2, RequestQuitType
  <2> QED
    BY <1>1, <2>3, RequestExcludes
<1> QED
  BY <1>2, <1>3

\* A window's end takes records out, and a window the quit forgets leaves an
\* idle machine idle.
LEMMA DestroyedExcludes ==
    ASSUME IInv, TransfersExcludeTeardown, NEW w \in Window, Destroyed(w)
    PROVE  TransfersExcludeTeardown'
<1> DEFINE lost == {a \in queue.records : a.to = w}
           rest == live \ {w}
           g == IF lost # {} THEN GateBegin(gate) ELSE gate
           s == [Now EXCEPT !.live = rest, !.toWin[w] = <<>>, !.gate = g]
           f == ForgetDeferredClose(queue, w)
<1>1. /\ TypeOK /\ m \in Machine /\ queue \in Queue /\ triggers \in Nat
      /\ exitPosted \in BOOLEAN /\ live \in SUBSET Window /\ gate \in Gate
      /\ toWin \in [Window -> Seq(Event)] /\ close \in [Window -> CloseEntry]
      /\ {} \in SUBSET Watchdog /\ rest \in SUBSET Window
  BY DEF IInv, TypeOK
<1>2. PICK r \in IF m.approved THEN {Result(m, {})} ELSE ForgetWindow(m, w) :
          Apply(r, s, {}, triggers)
  BY DEF Destroyed
<1>3. r.m \in Machine /\ (m.phase = "idle" => r.m.phase = "idle")
  <2>1. CASE m.approved
    BY <1>1, <2>1 DEF Result
  <2>2. CASE ~m.approved
    BY <1>1, <2>2, ForgetWindowType DEF KeepsIdle
  <2> QED
    BY <2>1, <2>2
<1>4. g \in Gate
  BY <1>1, GateBeginType
<1>5. s.live = rest /\ s.gate = g /\ s.posted = exitPosted
  BY DEF Now
<1>6. s.toWin = [toWin EXCEPT ![w] = <<>>]
  BY DEF Now
<1>7. s.toWin \in [Window -> Seq(Event)]
  BY <1>1, <1>6, EmptySeqs
<1>8. f \in Queue /\ f.records = queue.records
  BY <1>1, ForgetDeferredCloseType
<1>9. queue' = [f EXCEPT !.records = f.records \ lost]
      /\ close' = [close EXCEPT ![w] = CloseClear(close[w])]
  BY DEF Destroyed
<1> HIDE DEF lost, g, s, f
<1>10. m'.phase = r.m.phase
  BY <1>1, <1>2, <1>3, <1>4, <1>5, <1>7, ApplyType
<1>11. f.records \ lost \in SUBSET Arrival
  BY <1>8 DEF Queue
<1>12. queue' \in Queue /\ queue'.records \subseteq queue.records
  BY <1>8, <1>9, <1>11, RecordsType
<1>13. ClosesKept
  BY <1>1, <1>9, <1>12, CloseClearType, CloseEntryKept
<1> QED
  BY <1>3, <1>10, <1>12, <1>13, ExclusionKept

\* A hand-back worker's end changes no phase.
LEMMA HandBackWorkerEndsExcludes ==
    ASSUME IInv, TransfersExcludeTeardown, HandBackWorkerEnds
    PROVE  TransfersExcludeTeardown'
<1> DEFINE r == Result(m, IF GateFinishes(gate) THEN {ExitApp} ELSE {})
<1>1. r.m = m /\ m \in Machine
  BY DEF Result, IInv, TypeOK
<1>2. m' = r.m \/ m' = [r.m EXCEPT !.approved = TRUE]
  BY DEF HandBackWorkerEnds, Apply
<1> HIDE DEF r
<1>3. m'.phase = m.phase
  BY <1>1, <1>2, ApprovedType
<1> QED
  BY <1>3, ExclusionUntouched DEF HandBackWorkerEnds

\* A transfer begins only where no teardown is under way; the other transfer
\* steps only take records out.
LEMMA TransfersExclude ==
    ASSUME IInv, TransfersExcludeTeardown,
           \/ \E from, to \in Window : BeginTransfer(from, to)
           \/ \E a \in queue.records : BuildTornOut(a) \/ AdoptDone(a) \/ HandBack(a)
           \/ \E w \in Window : ReopenClosedWindow(w)
    PROVE  TransfersExcludeTeardown'
<1>1. queue \in Queue
  BY DEF IInv, TypeOK
<1>2. ASSUME NEW from \in Window, NEW to \in Window, BeginTransfer(from, to)
      PROVE  TransfersExcludeTeardown'
  <2> DEFINE a == [from |-> from, to |-> to]
             R == queue.records \cup {a}
  <2>1. a \in Arrival /\ a.from = from /\ a.to = to /\ R \in SUBSET Arrival
    BY <1>1 DEF Arrival, Queue
  <2>2. queue' = [queue EXCEPT !.records = R] /\ m' = m /\ close' = close
    BY <1>2 DEF BeginTransfer
  <2>3. m.phase = "idle" /\ ~close[from].active /\ ~close[to].active
    BY <1>2 DEF BeginTransfer, TransferAdmitted
  <2> HIDE DEF a
  <2>4. queue'.records = queue.records \cup {a}
    BY <1>1, <2>1, <2>2, RecordsType
  <2> QED
    BY <2>1, <2>2, <2>3, <2>4 DEF TransfersExcludeTeardown
<1>3. ASSUME NEW a \in queue.records, BuildTornOut(a)
      PROVE  TransfersExcludeTeardown'
  BY <1>3, ExclusionUntouched DEF BuildTornOut
<1>4. ASSUME NEW a \in queue.records, AdoptDone(a) \/ HandBack(a)
      PROVE  TransfersExcludeTeardown'
  <2>1. queue' = [queue EXCEPT !.records = @ \ {a}] /\ m' = m /\ close' = close
    BY <1>4 DEF AdoptDone, HandBack
  <2>2. queue'.records \subseteq queue.records
    BY <1>1, <2>1, SettledRecords
  <2> QED
    BY <2>1, <2>2, ExclusionKept DEF ClosesKept
<1>5. ASSUME NEW w \in Window, ReopenClosedWindow(w)
      PROVE  TransfersExcludeTeardown'
  BY <1>5, ExclusionUntouched DEF ReopenClosedWindow
<1> QED
  BY <1>2, <1>3, <1>4, <1>5

\* The webviews and their humans change nothing of it.
LEMMA ViewsExclude ==
    ASSUME TransfersExcludeTeardown,
           ViewStepNext \/ HumanAnswers \/ \E w \in Window : Wedge(w)
    PROVE  TransfersExcludeTeardown'
<1>1. UNCHANGED <<queue, close, m>>
  <2>1. CASE ViewStepNext
    BY <2>1 DEF ViewStepNext, OnQuitRequested, OnQuitCancelled, OnQuitTeardown,
           OnCloseRequested, OnDeparted, QuitTeardownEnds, CloseTeardownEnds,
           ViewStep, hostVars
  <2>2. CASE HumanAnswers
    BY <2>2 DEF HumanAnswers, Confirm, Decline, ViewStep, hostVars
  <2>3. CASE \E w \in Window : Wedge(w)
    BY <2>3 DEF Wedge, hostVars
  <2> QED
    BY <2>1, <2>2, <2>3
<1> QED
  BY <1>1, ExclusionUntouched

\* While a Workspace is in flight between two windows no quit is under way and
\* neither window has a close pending: the admission check, the deferral of quit
\* and close requests and their redrive leave no interleaving in which a teardown
\* meets a transfer (transfer_admitted, request_quit, request_window_close).
THEOREM ExclusionHolds == Spec => []TransfersExcludeTeardown
<1>1. Init => TransfersExcludeTeardown
  <2> SUFFICES ASSUME Init PROVE TransfersExcludeTeardown
    OBVIOUS
  <2>1. queue.records = {}
    BY DEF Init
  <2> QED
    BY <2>1 DEF TransfersExcludeTeardown
<1>2. IInv /\ TransfersExcludeTeardown /\ [Next]_vars => TransfersExcludeTeardown'
  <2> SUFFICES ASSUME IInv, TransfersExcludeTeardown, [Next]_vars
               PROVE  TransfersExcludeTeardown'
    OBVIOUS
  <2>1. CASE HostStep
    BY <2>1, RedriveExcludes, ExitRequestedExcludes, DestroyedExcludes,
       QuitCommandsExclude, CloseCommandsExclude DEF HostStep
  <2>2. CASE WatchdogStep
    BY <2>2, WatchdogsExclude DEF WatchdogStep
  <2>3. CASE ViewStepNext \/ HumanAnswers
    BY <2>3, ViewsExclude
  <2>4. CASE SettleTransfer
    BY <2>4, TransfersExclude DEF SettleTransfer
  <2>5. CASE Optional
    BY <2>5, TriggersExclude, ViewsExclude, TransfersExclude,
       HandBackWorkerEndsExcludes DEF Optional
  <2>6. CASE UNCHANGED vars
    BY <2>6, ExclusionUntouched DEF vars, hostVars
  <2> QED
    BY <2>1, <2>2, <2>3, <2>4, <2>5, <2>6 DEF Next, Progressing
<1> QED
  BY <1>1, <1>2, IInvHolds, PTL DEF Spec
-----------------------------------------------------------------------------
(* One flow holds a window *)

\* Where a webview's commands ask for its session to be removed.
Removals(q) == {i \in 1..Len(q) : q[i].t = "removeSession"}

\* The claim names the flow that has the window, and the flows exclude each other.
Claimed(v) ==
    /\ v.quit = "idle" \/ v.close = "idle"
    /\ v.holder = IF v.quit # "idle" THEN "quit" ELSE IF v.close # "idle" THEN "close" ELSE "none"

\* And a close waits for the one removal it asked for, whose reply moves it on.
Flow(v, q) ==
    /\ Claimed(v)
    /\ Removals(q) # {} => v.close = "removing"
    /\ \A i, j \in Removals(q) : i = j

FlowInv == \A w \in Window : Flow(view[w], toHost[w])

\* A webview going from v to u, with the commands c, keeps the flow.
Moves(v, u, c) ==
    /\ Claimed(u)
    /\ \/ Removals(c) = {} /\ (v.close = "removing" => u.close = "removing")
       \/ /\ v.close # "removing" /\ u.close = "removing"
          /\ \A i, j \in Removals(c) : i = j

\* Commands invoked come after those on their way.
LEMMA RemovalsAfter ==
    ASSUME NEW q \in Seq(Command), NEW c \in Seq(Command), NEW i \in Removals(q \o c)
    PROVE  i \in Removals(q) \/ i - Len(q) \in Removals(c)
BY DEF Removals

\* A command taken.
LEMMA RemovalsTaken ==
    ASSUME NEW q \in Seq(Command), q # <<>>
    PROVE  /\ \A i \in Removals(Tail(q)) : i \in Nat \ {0} /\ i + 1 \in Removals(q)
           /\ Head(q).t = "removeSession" => 1 \in Removals(q)
BY DEF Removals

\* A webview's step keeps its flow.
LEMMA MovesKeep ==
    ASSUME NEW v, NEW u, NEW q \in Seq(Command), NEW c \in Seq(Command),
           Flow(v, q), Moves(v, u, c)
    PROVE  Flow(u, q \o c)
<1>1. CASE Removals(c) = {} /\ (v.close = "removing" => u.close = "removing")
  <2>1. \A i \in Removals(q \o c) : i \in Removals(q)
    BY <1>1, RemovalsAfter
  <2> QED
    BY <1>1, <2>1 DEF Flow, Moves
<1>2. CASE /\ v.close # "removing" /\ u.close = "removing"
           /\ \A i, j \in Removals(c) : i = j
  <2>1. \A i \in Removals(q \o c) : i \in Nat /\ i - Len(q) \in Removals(c)
    BY <1>2, RemovalsAfter DEF Flow, Removals
  <2>2. \A i, j \in Removals(q \o c) : i = j
    <3> SUFFICES ASSUME NEW i \in Removals(q \o c), NEW j \in Removals(q \o c) PROVE i = j
      OBVIOUS
    <3>1. i \in Nat /\ j \in Nat /\ i - Len(q) = j - Len(q)
      BY <1>2, <2>1
    <3> QED BY <3>1
  <2> QED
    BY <1>2, <2>2 DEF Flow, Moves
<1> QED BY <1>1, <1>2 DEF Moves

\* A command the host takes keeps it, when it is not the removal.
LEMMA TakenKeeps ==
    ASSUME NEW v, NEW q \in Seq(Command), q # <<>>, Flow(v, q)
    PROVE  /\ Flow(v, Tail(q))
           /\ Head(q).t = "removeSession" => Removals(Tail(q)) = {}
<1>1. \A i, j \in Removals(Tail(q)) : i = j
  <2> SUFFICES ASSUME NEW i \in Removals(Tail(q)), NEW j \in Removals(Tail(q)) PROVE i = j
    OBVIOUS
  <2>1. i \in Nat /\ j \in Nat /\ i + 1 = j + 1
    BY RemovalsTaken DEF Flow
  <2> QED BY <2>1
<1>2. Removals(Tail(q)) # {} => Removals(q) # {}
  BY RemovalsTaken
<1>3. ASSUME Head(q).t = "removeSession", NEW i \in Removals(Tail(q)) PROVE FALSE
  <2>1. i \in Nat \ {0} /\ i + 1 = 1
    BY <1>3, RemovalsTaken DEF Flow
  <2> QED BY <2>1
<1> QED
  BY <1>1, <1>2, <1>3 DEF Flow

\* What the webview invokes for a quit or a close, after the ack.
LEMMA AckRemovals ==
    ASSUME NEW a, a.t # "removeSession", NEW c \in Seq(Command), NEW i \in Removals(<<a>> \o c),
           a \in Command
    PROVE  i - 1 \in Removals(c) /\ i \in Nat
BY DEF Removals

\* Nothing, and one command.
LEMMA FewRemovals ==
    ASSUME NEW x
    PROVE  /\ Removals(<<>>) = {}
           /\ \A i \in Removals(<<x>>) : i = 1 /\ x.t = "removeSession"
BY DEF Removals

\* An ack in front of the answer changes nothing.
LEMMA AckMoves ==
    ASSUME NEW v, NEW u, NEW c \in Seq(Command), Moves(v, u, c),
           NEW a \in Command, a.t # "removeSession"
    PROVE  Moves(v, u, <<a>> \o c)
<1>1. \A i \in Removals(<<a>> \o c) : i \in Nat /\ i - 1 \in Removals(c)
  BY AckRemovals
<1>2. ASSUME \A i, j \in Removals(c) : i = j,
             NEW i \in Removals(<<a>> \o c), NEW j \in Removals(<<a>> \o c)
      PROVE  i = j
  <2>1. i \in Nat /\ j \in Nat /\ i - 1 = j - 1
    BY <1>1, <1>2
  <2> QED BY <2>1
<1> QED
  BY <1>1, <1>2 DEF Moves

\* A cancelled flow releases its claim, and leaves the other's.
LEMMA CancelMoves ==
    ASSUME NEW v \in View, Claimed(v)
    PROVE  /\ Moves(v, CancelQuit(v).v, <<>>)
           /\ Moves(v, CancelQuit(v).v, CancelQuit(v).cmds)
           /\ v.close # "removing" =>
                 Moves(v, CancelClose(v).v, CancelClose(v).cmds)
           /\ CancelClose(v).v.close = "idle" /\ CancelClose(v).v.quit = v.quit
           /\ CancelClose(v).v \in View
<1> DEFINE q == CancelQuit(v).v
           c == CancelClose(v).v
<1>1. /\ q.quit = "idle" /\ q.close = v.close
      /\ q.holder = IF v.holder = "quit" THEN "none" ELSE v.holder
  BY DEF CancelQuit, View
<1>2. /\ c.close = "idle" /\ c.quit = v.quit
      /\ c.holder = IF v.holder = "close" THEN "none" ELSE v.holder
  BY DEF CancelClose, View
<1>3. Removals(CancelQuit(v).cmds) = {} /\ Removals(CancelClose(v).cmds) = {}
      /\ Removals(<<>>) = {}
  <2>1. /\ CancelQuit(v).cmds = <<Cmd("quitCancel")>>
        /\ CancelClose(v).cmds = <<Cmd("closeCancel")>>
    BY DEF CancelQuit, CancelClose
  <2>2. Cmd("quitCancel").t # "removeSession" /\ Cmd("closeCancel").t # "removeSession"
    BY DEF Cmd
  <2> QED BY <2>1, <2>2, FewRemovals
<1>4. Claimed(q) /\ Claimed(c)
  BY <1>1, <1>2 DEF Claimed
<1> QED
  BY <1>1, <1>2, <1>3, <1>4, CancelFlowType DEF Moves

\* The quit's question is put in a window nobody holds.
LEMMA AskQuitMoves ==
    ASSUME NEW v \in View, v.close = "idle", NEW a \in AskQuit(v)
    PROVE  Moves(v, a.v, a.cmds) /\ Removals(a.cmds) = {} /\ Claimed(a.v)
<1>1. PICK p \in {"confirming", "committed"} :
          a = [v |-> [v EXCEPT !.quit = p, !.holder = "quit"],
               cmds |-> IF p = "committed" THEN <<Cmd("quitVote")>> ELSE <<>>]
  BY DEF AskQuit
<1>2. a.v.quit = p /\ a.v.holder = "quit" /\ a.v.close = v.close
  BY <1>1 DEF View
<1>3. Removals(a.cmds) = {}
  <2>1. Cmd("quitVote").t # "removeSession"
    BY DEF Cmd
  <2>2. a.cmds = <<Cmd("quitVote")>> \/ a.cmds = <<>>
    BY <1>1
  <2> QED BY <2>1, <2>2, FewRemovals
<1>4. Claimed(a.v)
  BY <1>2 DEF Claimed
<1> QED
  BY <1>2, <1>3, <1>4 DEF Moves

\* So is the close's.
LEMMA AskCloseMoves ==
    ASSUME NEW v \in View, v.quit = "idle", v.close = "idle", NEW a \in AskClose(v)
    PROVE  Moves(v, a.v, a.cmds)
<1>1. PICK p \in {"confirming", "removing"} :
          a = [v |-> [v EXCEPT !.close = p, !.holder = "close"],
               cmds |-> IF p = "removing" THEN <<Cmd("removeSession")>> ELSE <<>>]
  BY DEF AskClose
<1>2. a.v.close = p /\ a.v.holder = "close" /\ a.v.quit = v.quit
  BY <1>1 DEF View
<1>3. p = "removing" \/ Removals(a.cmds) = {}
  BY <1>1, FewRemovals
<1>4. \A i, j \in Removals(a.cmds) : i = j
  <2>1. CASE a.cmds = <<Cmd("removeSession")>>
    <3>1. \A i \in Removals(a.cmds) : i = 1
      BY <2>1, FewRemovals
    <3> QED BY <3>1
  <2>2. CASE a.cmds = <<>>
    BY <2>2, FewRemovals
  <2> QED BY <1>1, <2>1, <2>2
<1>5. Claimed(a.v)
  BY <1>2 DEF Claimed
<1> QED
  BY <1>2, <1>3, <1>4, <1>5 DEF Moves

\* A quit request: a close on its dialog is abandoned, a committed one votes.
LEMMA QuitRequestMoves ==
    ASSUME NEW v \in View, Claimed(v), NEW a \in QuitRequest(v)
    PROVE  Moves(v, a.v, a.cmds)
<1>1. CASE v.quit # "idle"
  <2>1. a.v = v /\ a.cmds = <<>>
    BY <1>1 DEF QuitRequest
  <2> QED
    BY <2>1, FewRemovals DEF Moves
<1>2. CASE v.quit = "idle" /\ v.holder # "close"
  <2>1. v.close = "idle"
    BY <1>2 DEF Claimed
  <2> QED
    BY <1>2, <2>1, AskQuitMoves DEF QuitRequest
<1>3. CASE v.quit = "idle" /\ v.holder = "close" /\ v.close # "confirming"
  <2>1. a.v = v /\ a.cmds = <<Cmd("quitVote")>>
    BY <1>3 DEF QuitRequest
  <2>2. Cmd("quitVote").t # "removeSession"
    BY DEF Cmd
  <2>3. Removals(a.cmds) = {}
    BY <2>1, <2>2, FewRemovals
  <2> QED
    BY <2>1, <2>3 DEF Moves
<1>4. CASE v.quit = "idle" /\ v.holder = "close" /\ v.close = "confirming"
  <2> DEFINE c == CancelClose(v)
  <2>1. PICK b \in AskQuit(c.v) : a = [v |-> b.v, cmds |-> c.cmds \o b.cmds]
    BY <1>4 DEF QuitRequest
  <2>2. Moves(v, c.v, c.cmds) /\ c.v.close = "idle" /\ c.v \in View
    BY <1>4, CancelMoves
  <2>3. b.cmds \in Seq(Command) /\ c.cmds \in Seq(Command)
    BY <2>2, AskQuitType, CancelFlowType
  <2>4. Removals(b.cmds) = {} /\ Claimed(b.v)
    BY <2>2, AskQuitMoves
  <2>5. Removals(c.cmds) = {}
    BY <2>2 DEF Moves
  <2> HIDE DEF c
  <2>6. a.v = b.v /\ a.cmds = c.cmds \o b.cmds
    BY <2>1
  <2>7. Removals(a.cmds) = {}
    BY <2>3, <2>4, <2>5, <2>6, RemovalsAfter
  <2> QED
    BY <1>4, <2>4, <2>6, <2>7 DEF Moves
<1> QED
  BY <1>1, <1>2, <1>3, <1>4

\* A close request: refused while a quit holds the window.
LEMMA CloseRequestMoves ==
    ASSUME NEW v \in View, Claimed(v), NEW a \in CloseRequestFlow(v)
    PROVE  Moves(v, a.v, a.cmds)
<1>1. CASE v.close # "idle"
  <2>1. a.v = v /\ a.cmds = <<>>
    BY <1>1 DEF CloseRequestFlow
  <2> QED
    BY <2>1, FewRemovals DEF Moves
<1>2. CASE v.close = "idle" /\ v.holder = "quit"
  BY <1>2, CancelMoves DEF CloseRequestFlow
<1>3. CASE v.close = "idle" /\ v.holder # "quit"
  <2>1. v.quit = "idle"
    BY <1>3 DEF Claimed
  <2> QED
    BY <1>3, <2>1, AskCloseMoves DEF CloseRequestFlow
<1> QED
  BY <1>1, <1>2, <1>3

\* The answers a human gives, and a teardown's end.
LEMMA AnswerMoves ==
    ASSUME NEW v \in View, Claimed(v)
    PROVE  /\ v.quit = "confirming" =>
                 Moves(v, [v EXCEPT !.quit = "committed"], <<Cmd("quitVote")>>)
           /\ v.close = "confirming" =>
                 Moves(v, [v EXCEPT !.close = "removing"], <<Cmd("removeSession")>>)
           /\ v.close = "killing" =>
                 Moves(v, [v EXCEPT !.close = "ended"], <<Cmd("closeWindow")>>)
<1>1. Removals(<<Cmd("quitVote")>>) = {} /\ Removals(<<Cmd("closeWindow")>>) = {}
  <2>1. Cmd("quitVote").t # "removeSession" /\ Cmd("closeWindow").t # "removeSession"
    BY DEF Cmd
  <2> QED BY <2>1, FewRemovals
<1>2. \A i, j \in Removals(<<Cmd("removeSession")>>) : i = j
  <2>1. \A i \in Removals(<<Cmd("removeSession")>>) : i = 1
    BY FewRemovals
  <2> QED BY <2>1
<1>3. ASSUME v.quit = "confirming"
      PROVE  Moves(v, [v EXCEPT !.quit = "committed"], <<Cmd("quitVote")>>)
  <2> DEFINE u == [v EXCEPT !.quit = "committed"]
  <2>1. u.quit = "committed" /\ u.close = v.close /\ u.holder = v.holder
    BY DEF View
  <2> QED
    BY <1>1, <1>3, <2>1 DEF Claimed, Moves
<1>4. ASSUME v.close = "confirming"
      PROVE  Moves(v, [v EXCEPT !.close = "removing"], <<Cmd("removeSession")>>)
  <2> DEFINE u == [v EXCEPT !.close = "removing"]
  <2>1. u.quit = v.quit /\ u.close = "removing" /\ u.holder = v.holder
    BY DEF View
  <2> QED
    BY <1>2, <1>4, <2>1 DEF Claimed, Moves
<1>5. ASSUME v.close = "killing"
      PROVE  Moves(v, [v EXCEPT !.close = "ended"], <<Cmd("closeWindow")>>)
  <2> DEFINE u == [v EXCEPT !.close = "ended"]
  <2>1. u.quit = v.quit /\ u.close = "ended" /\ u.holder = v.holder
    BY DEF View
  <2> QED
    BY <1>1, <1>5, <2>1 DEF Claimed, Moves
<1> QED
  BY <1>3, <1>4, <1>5

\* The quit's teardown is no flow's business.
LEMMA TeardownMoves ==
    ASSUME NEW v \in View, Claimed(v), NEW d \in {"none", "walk", "last", "done"},
           NEW t \in CommandTags \ {"removeSession"}
    PROVE  Moves(v, [v EXCEPT !.td = d], <<Cmd(t)>>)
<1> DEFINE u == [v EXCEPT !.td = d]
<1>1. u.quit = v.quit /\ u.close = v.close /\ u.holder = v.holder
  BY DEF View
<1>2. Removals(<<Cmd(t)>>) = {}
  BY FewRemovals DEF Cmd
<1> QED
  BY <1>1, <1>2 DEF Claimed, Moves

\* A step of a webview.
LEMMA ViewStepFlow ==
    ASSUME TypeOK, FlowInv, NEW w \in Window, NEW v, NEW c \in Seq(Command),
           ViewStep(w, v, c), Moves(view[w], v, c)
    PROVE  FlowInv'
<1> SUFFICES ASSUME NEW u \in Window PROVE Flow(view'[u], toHost'[u])
  BY DEF FlowInv
<1>1. /\ toHost \in [Window -> Seq(Command)] /\ view \in [Window -> View]
      /\ toHost[w] \in Seq(Command)
  BY DEF TypeOK
<1>2. CASE u = w
  <2>1. view'[u] = v /\ toHost'[u] = toHost[w] \o c
    BY <1>1, <1>2 DEF ViewStep
  <2> QED
    BY <1>1, <2>1, MovesKeep DEF FlowInv
<1>3. CASE u # w
  BY <1>1, <1>3 DEF ViewStep, FlowInv
<1> QED BY <1>2, <1>3

\* A command the host takes from the window w, whose webview goes on to v.
LEMMA TakenFlow ==
    ASSUME TypeOK, FlowInv, NEW w \in Window, toHost[w] # <<>>, TakeCommand(w),
           \/ view' = view
           \/ /\ Head(toHost[w]).t = "removeSession"
              /\ view' = [view EXCEPT ![w].close = "killing"]
    PROVE  FlowInv'
<1> SUFFICES ASSUME NEW u \in Window PROVE Flow(view'[u], toHost'[u])
  BY DEF FlowInv
<1>1. /\ toHost \in [Window -> Seq(Command)] /\ view \in [Window -> View]
      /\ toHost[w] \in Seq(Command) /\ view[w] \in View
  BY DEF TypeOK
<1>2. CASE u # w
  BY <1>1, <1>2 DEF TakeCommand, FlowInv
<1>3. CASE u = w
  <2>1. /\ toHost'[u] = Tail(toHost[w]) /\ Flow(view[w], Tail(toHost[w]))
        /\ Head(toHost[w]).t = "removeSession" => Removals(Tail(toHost[w])) = {}
        /\ Head(toHost[w]).t = "removeSession" => view[w].close = "removing"
    BY <1>1, <1>3, TakenKeeps, RemovalsTaken DEF TakeCommand, FlowInv, Flow
  <2>2. CASE view' = view
    BY <1>3, <2>1, <2>2
  <2>3. CASE /\ Head(toHost[w]).t = "removeSession"
             /\ view' = [view EXCEPT ![w].close = "killing"]
    <3>1. /\ view'[u].close = "killing" /\ view'[u].quit = view[w].quit
          /\ view'[u].holder = view[w].holder
      BY <1>1, <1>3, <2>3 DEF View
    <3> QED
      BY <2>1, <2>3, <3>1 DEF Flow, Claimed
  <2> QED BY <2>2, <2>3
<1> QED BY <1>2, <1>3

\* The host, whose handlers read a window's commands.
LEMMA HostFlow ==
    ASSUME TypeOK, FlowInv, HostStep
    PROVE  FlowInv'
<1>1. CASE Redrive \/ ExitRequested
  BY <1>1 DEF Redrive, ExitRequested, FlowInv
<1>2. ASSUME NEW w \in Window, Destroyed(w) PROVE FlowInv'
  <2>1. /\ toHost' = [toHost EXCEPT ![w] = <<>>] /\ view' = [view EXCEPT ![w] = NewView]
        /\ toHost \in [Window -> Seq(Command)] /\ view \in [Window -> View]
    BY <1>2 DEF Destroyed, TypeOK
  <2>2. Flow(NewView, <<>>)
    BY FewRemovals DEF Flow, Claimed, NewView
  <2> QED
    BY <2>1, <2>2 DEF FlowInv
<1>3. ASSUME NEW w \in Window,
             \/ QuitAck(w) \/ QuitProgress(w) \/ QuitVote(w) \/ QuitCancel(w)
             \/ QuitWindowDone(w) \/ QuitProceed(w)
             \/ WindowCloseAck(w) \/ WindowCloseCancel(w) \/ CloseWindow(w)
      PROVE  FlowInv'
  <2>1. toHost[w] # <<>> /\ TakeCommand(w) /\ view' = view
    BY <1>3 DEF QuitAck, QuitProgress, QuitVote, QuitCancel, QuitWindowDone, QuitProceed,
                WindowCloseAck, WindowCloseCancel, CloseWindow, HasCommand
  <2> QED
    BY <2>1, TakenFlow
<1>4. ASSUME NEW w \in Window, RemoveWindowSession(w) PROVE FlowInv'
  BY <1>4, TakenFlow DEF RemoveWindowSession, HasCommand
<1> QED
  BY <1>1, <1>2, <1>3, <1>4 DEF HostStep

\* The ack of a request names its trigger.
LEMMA AckOfEvent ==
    ASSUME TypeOK, NEW w \in Window, NEW t \in {"quitRequested", "closeRequested"},
           HasEvent(w, t), NEW a \in {"quitAck", "closeAck"}
    PROVE  [t |-> a, n |-> Head(toWin[w]).n] \in Command
<1>1. Head(toWin[w]) \in Event /\ Head(toWin[w]).t = t
  BY DEF HasEvent, TypeOK
<1>2. Head(toWin[w]).n \in Nat
  BY <1>1 DEF Event
<1> QED
  BY <1>2 DEF Command

\* The webviews and the humans in front of them.
LEMMA ViewsFlow ==
    ASSUME TypeOK, FlowInv, ViewStepNext \/ HumanAnswers
    PROVE  FlowInv'
<1> USE DEF CommandTags
<1>1. \A w \in Window : view[w] \in View /\ Claimed(view[w])
  BY DEF TypeOK, FlowInv, Flow
<1>2. ASSUME NEW w \in Window, OnQuitRequested(w) PROVE FlowInv'
  <2> DEFINE k == [t |-> "quitAck", n |-> Head(toWin[w]).n]
  <2>1. PICK a \in QuitRequest(view[w]) : ViewStep(w, a.v, <<k>> \o a.cmds)
    BY <1>2 DEF OnQuitRequested
  <2>2. a.cmds \in Seq(Command) /\ Moves(view[w], a.v, a.cmds)
    BY <1>1, QuitRequestType, QuitRequestMoves
  <2>3. k \in Command /\ k.t # "removeSession"
    BY <1>2, AckOfEvent DEF OnQuitRequested
  <2> HIDE DEF k
  <2>4. <<k>> \o a.cmds \in Seq(Command)
    BY <2>2, <2>3
  <2>5. Moves(view[w], a.v, <<k>> \o a.cmds)
    BY <2>2, <2>3, AckMoves
  <2> QED
    BY <2>1, <2>4, <2>5, ViewStepFlow
<1>3. ASSUME NEW w \in Window, OnCloseRequested(w) PROVE FlowInv'
  <2> DEFINE k == [t |-> "closeAck", n |-> Head(toWin[w]).n]
  <2>1. PICK a \in CloseRequestFlow(view[w]) : ViewStep(w, a.v, <<k>> \o a.cmds)
    BY <1>3 DEF OnCloseRequested
  <2>2. a.cmds \in Seq(Command) /\ Moves(view[w], a.v, a.cmds)
    BY <1>1, CloseRequestFlowType, CloseRequestMoves
  <2>3. k \in Command /\ k.t # "removeSession"
    BY <1>3, AckOfEvent DEF OnCloseRequested
  <2> HIDE DEF k
  <2>4. <<k>> \o a.cmds \in Seq(Command)
    BY <2>2, <2>3
  <2>5. Moves(view[w], a.v, <<k>> \o a.cmds)
    BY <2>2, <2>3, AckMoves
  <2> QED
    BY <2>1, <2>4, <2>5, ViewStepFlow
<1>4. ASSUME NEW w \in Window, OnQuitCancelled(w) PROVE FlowInv'
  BY <1>1, <1>4, CancelMoves, EmptySeqs, ViewStepFlow DEF OnQuitCancelled
<1>5. ASSUME NEW w \in Window, OnQuitTeardown(w) PROVE FlowInv'
  <2> DEFINE d == IF Head(toWin[w]).last THEN "last" ELSE "walk"
             c == <<Cmd("quitProgress")>>
  <2>1. ViewStep(w, [view[w] EXCEPT !.td = d], c)
    BY <1>5 DEF OnQuitTeardown
  <2>2. d \in {"none", "walk", "last", "done"}
    OBVIOUS
  <2>3. c \in Seq(Command)
    BY CmdType
  <2> HIDE DEF d
  <2>4. Moves(view[w], [view[w] EXCEPT !.td = d], c)
    BY <1>1, <2>2, TeardownMoves
  <2> HIDE DEF c
  <2> QED
    BY <2>1, <2>3, <2>4, ViewStepFlow
<1>6. ASSUME NEW w \in Window, OnDeparted(w) PROVE FlowInv'
  <2>1. PICK c \in {<<>>, <<Cmd("closeWindow")>>} : ViewStep(w, view[w], c)
    BY <1>6 DEF OnDeparted
  <2>2. c \in Seq(Command)
    BY CmdType, EmptySeqs
  <2>3. Removals(c) = {}
    <3>1. Cmd("closeWindow").t # "removeSession"
      BY DEF Cmd
    <3> QED BY <3>1, FewRemovals
  <2>4. Moves(view[w], view[w], c)
    BY <1>1, <2>3 DEF Moves
  <2> QED
    BY <2>1, <2>2, <2>4, ViewStepFlow
<1>7. ASSUME NEW w \in Window, QuitTeardownEnds(w) PROVE FlowInv'
  <2> DEFINE t == IF view[w].td = "last" THEN "quitProceed" ELSE "quitWindowDone"
  <2>1. ViewStep(w, [view[w] EXCEPT !.td = "done"], <<Cmd(t)>>)
    BY <1>7 DEF QuitTeardownEnds
  <2>2. t \in CommandTags \ {"removeSession"}
    OBVIOUS
  <2> HIDE DEF t
  <2>3. <<Cmd(t)>> \in Seq(Command)
    BY <2>2, CmdType
  <2>4. Moves(view[w], [view[w] EXCEPT !.td = "done"], <<Cmd(t)>>)
    BY <1>1, <2>2, TeardownMoves
  <2> QED
    BY <2>1, <2>3, <2>4, ViewStepFlow
<1>8. ASSUME NEW w \in Window, CloseTeardownEnds(w) PROVE FlowInv'
  <2>1. <<Cmd("closeWindow")>> \in Seq(Command)
    BY CmdType
  <2> QED
    BY <1>1, <1>8, <2>1, AnswerMoves, ViewStepFlow DEF CloseTeardownEnds
<1>9. ASSUME NEW w \in Window, Confirm(w) PROVE FlowInv'
  <2>1. <<Cmd("quitVote")>> \in Seq(Command) /\ <<Cmd("removeSession")>> \in Seq(Command)
    BY CmdType
  <2> QED
    BY <1>1, <1>9, <2>1, AnswerMoves, ViewStepFlow DEF Confirm
<1>10. ASSUME NEW w \in Window, Decline(w) PROVE FlowInv'
  <2>1. CASE ViewStep(w, CancelQuit(view[w]).v, CancelQuit(view[w]).cmds)
    BY <1>1, <2>1, CancelMoves, CancelFlowType, ViewStepFlow
  <2>2. CASE /\ view[w].close = "confirming"
             /\ ViewStep(w, CancelClose(view[w]).v, CancelClose(view[w]).cmds)
    BY <1>1, <2>2, CancelMoves, CancelFlowType, ViewStepFlow
  <2> QED
    BY <1>10, <2>1, <2>2 DEF Decline
<1> QED
  BY <1>2, <1>3, <1>4, <1>5, <1>6, <1>7, <1>8, <1>9, <1>10 DEF ViewStepNext, HumanAnswers

\* A webview whose listeners die keeps its claim; the rest touches no webview.
LEMMA OtherFlow ==
    ASSUME TypeOK, FlowInv, WatchdogStep \/ SettleTransfer \/ Optional
    PROVE  FlowInv'
<1>1. ASSUME NEW w \in Window, Wedge(w) PROVE FlowInv'
  <2>1. /\ toHost' = toHost /\ view \in [Window -> View]
        /\ view' = [view EXCEPT ![w].wedged = TRUE]
    BY <1>1 DEF Wedge, TypeOK
  <2>2. \A u \in Window : /\ view'[u].quit = view[u].quit /\ view'[u].close = view[u].close
                           /\ view'[u].holder = view[u].holder
    BY <2>1 DEF View
  <2> QED
    BY <2>1, <2>2 DEF FlowInv, Flow, Claimed
<1>2. CASE WatchdogStep
  BY <1>2 DEF WatchdogStep, QuitAckTimeout, QuitStallTimeout, CloseAckTimeout, GateTimeout,
              viewVars, FlowInv
<1>3. CASE SettleTransfer
  BY <1>3 DEF SettleTransfer, AdoptDone, HandBack, viewVars, FlowInv
<1>4. CASE Optional /\ ~\E w \in Window : Wedge(w)
  <2>1. UNCHANGED <<toHost, view>>
    BY <1>4 DEF Optional, TriggerQuit, CloseButton, ReopenClosedWindow, BeginTransfer,
                BuildTornOut, HandBackWorkerEnds, viewVars
  <2> QED
    BY <2>1 DEF FlowInv
<1> QED
  BY <1>1, <1>2, <1>3, <1>4

\* The claims are inductive.
LEMMA FlowInvHolds == Spec => []FlowInv
<1>1. Init => FlowInv
  <2>1. Flow(NewView, <<>>)
    BY FewRemovals DEF Flow, Claimed, NewView
  <2> QED
    BY <2>1 DEF Init, FlowInv
<1>2. IInv /\ FlowInv /\ [Next]_vars => FlowInv'
  <2>1. IInv => TypeOK
    BY DEF IInv
  <2>2. ASSUME FlowInv, UNCHANGED vars PROVE FlowInv'
    BY <2>2 DEF FlowInv, vars, viewVars
  <2> QED
    BY <2>1, <2>2, HostFlow, ViewsFlow, OtherFlow DEF Next, Progressing
<1> QED
  BY <1>1, <1>2, IInvHolds, PTL DEF Spec

\* One window, one dialog: a quit and a close never hold a window at the same
\* time, and the claim names the flow that does, whatever order their requests,
\* cancels, answers and the host's replies come in (teardown-flow.ts).
THEOREM FlowHolds == Spec => []OneFlowHolds
<1>1. FlowInv /\ IInv => OneFlowHolds
  <2> SUFFICES ASSUME FlowInv, IInv, NEW w \in live
               PROVE  /\ view[w].quit = "idle" \/ view[w].close = "idle"
                      /\ view[w].holder = CASE view[w].quit # "idle" -> "quit"
                                             [] view[w].close # "idle" -> "close"
                                             [] OTHER -> "none"
    BY DEF OneFlowHolds
  <2>1. Claimed(view[w])
    BY DEF IInv, TypeOK, FlowInv, Flow
  <2>2. CASE view[w].quit # "idle"
    BY <2>1, <2>2 DEF Claimed
  <2>3. CASE view[w].quit = "idle" /\ view[w].close # "idle"
    BY <2>1, <2>3 DEF Claimed
  <2>4. CASE view[w].quit = "idle" /\ view[w].close = "idle"
    BY <2>1, <2>4 DEF Claimed
  <2> QED BY <2>2, <2>3, <2>4
<1> QED
  BY <1>1, IInvHolds, FlowInvHolds, PTL

-----------------------------------------------------------------------------
(* Only the dead are forced *)

\* A message is on its way.
Holds(q, e) == \E i \in 1..Len(q) : q[i] = e

\* A close request of trigger n, or the ack it was answered with, is under way.
Asked(w, n) ==
    \/ Holds(toWin[w], [t |-> "closeRequested", n |-> n])
    \/ Holds(toHost[w], [t |-> "closeAck", n |-> n])

\* Why the close watchdog wd closes no window that answers: its sequence number
\* was given out, and it is retired, or acked, or its request is still under way.
Owed(wd) ==
    wd.kind = "close" =>
        /\ wd.seq > 0 /\ wd.seq <= close[wd.label].seq
        /\ \/ view[wd.label].wedged
           \/ close[wd.label].seq # wd.seq
           \/ close[wd.label].acked
           \/ Asked(wd.label, wd.n)

OwedInv == \A wd \in watch : Owed(wd)

\* A step retires the close of w, which has been asked for.
Retired(w) == close[w].seq > 0 => close'[w].seq > close[w].seq

\* A step keeps what a watchdog of w relies on.
Kept(w) ==
    \/ Retired(w)
    \/ /\ close'[w].seq = close[w].seq
       /\ close[w].acked => close'[w].acked
       /\ view[w].wedged => view'[w].wedged
       /\ \A n \in Nat : Asked(w, n) =>
              Asked(w, n)' \/ view'[w].wedged \/ close'[w].seq = 0 \/ close'[w].acked

\* What a message does when its channel grows or is read.
LEMMA HoldsGrown ==
    ASSUME NEW S, NEW q \in Seq(S), NEW c \in Seq(S), NEW e, Holds(q, e)
    PROVE  Holds(q \o c, e)
<1>1. PICK i \in 1..Len(q) : q[i] = e
  BY DEF Holds
<1>2. i \in 1..Len(q \o c) /\ (q \o c)[i] = e
  BY <1>1
<1> QED BY <1>2 DEF Holds

LEMMA HoldsTaken ==
    ASSUME NEW S, NEW q \in Seq(S), q # <<>>, NEW e, Holds(q, e), Head(q) # e
    PROVE  Holds(Tail(q), e)
<1>1. PICK i \in 1..Len(q) : q[i] = e
  BY DEF Holds
<1>2. i # 1
  BY <1>1
<1>3. i - 1 \in 1..Len(Tail(q)) /\ Tail(q)[i - 1] = e
  BY <1>1, <1>2
<1> QED BY <1>3 DEF Holds

LEMMA HoldsSent ==
    ASSUME NEW S, NEW q \in Seq(S), NEW e \in S, NEW c \in Seq(S)
    PROVE  Holds(Append(q, e), e) /\ Holds(q \o (<<e>> \o c), e)
<1>1. Append(q, e)[Len(q) + 1] = e /\ Len(q) + 1 \in 1..Len(Append(q, e))
  OBVIOUS
<1>2. /\ (q \o (<<e>> \o c))[Len(q) + 1] = e
      /\ Len(q) + 1 \in 1..Len(q \o (<<e>> \o c))
  OBVIOUS
<1> QED BY <1>1, <1>2 DEF Holds

\* A watchdog whose window is kept is owed no less.
LEMMA OwedKept ==
    ASSUME TypeOK, TypeOK', OwedInv, \A w \in Window : Kept(w),
           \A wd \in watch' : wd \in watch \/ Owed(wd)'
    PROVE  OwedInv'
<1> SUFFICES ASSUME NEW wd \in watch', wd \in watch, wd.kind = "close" PROVE Owed(wd)'
  BY DEF OwedInv, Owed
<1>1. wd.label \in Window /\ wd.seq \in Nat /\ wd.n \in Nat
  BY DEF TypeOK, Watchdog
<1>2. close[wd.label].seq \in Nat /\ close'[wd.label].seq \in Nat
  BY <1>1 DEF TypeOK, CloseEntry
<1>3. Kept(wd.label) /\ Owed(wd)
  BY <1>1 DEF OwedInv
<1>4. CASE Retired(wd.label)
  BY <1>1, <1>2, <1>3, <1>4 DEF Owed, Retired
<1>5. CASE ~Retired(wd.label)
  BY <1>1, <1>2, <1>3, <1>5 DEF Owed, Kept
<1> QED BY <1>4, <1>5

\* A host step that only sends: what it sends comes last.
LEMMA SentKept ==
    ASSUME TypeOK, UNCHANGED <<close, view, toHost>>, NEW w \in Window,
           \E c \in Seq(Event) : toWin'[w] = toWin[w] \o c
    PROVE  Kept(w)
<1>1. toWin[w] \in Seq(Event)
  BY DEF TypeOK
<1>2. ASSUME NEW n, Asked(w, n) PROVE Asked(w, n)'
  BY <1>1, <1>2, HoldsGrown DEF Asked
<1> QED
  BY <1>2 DEF Kept

\* A step that touches neither the closes, nor a window's messages or webview.
LEMMA UntouchedKept ==
    ASSUME NEW w \in Window, close'[w] = close[w], view'[w] = view[w],
           toWin'[w] = toWin[w], toHost'[w] = toHost[w]
    PROVE  Kept(w)
<1>1. ASSUME NEW n, Asked(w, n) PROVE Asked(w, n)'
  BY <1>1 DEF Asked
<1> QED
  BY <1>1 DEF Kept

\* apply_quit_actions sends, and starts no close watchdog.
LEMMA ApplyKept ==
    ASSUME TypeOK, NEW r, NEW s, s.toWin = toWin, NEW wd, NEW n \in Nat,
           Apply(r, s, wd, n), \A x \in wd : x.kind # "close"
    PROVE  /\ \A w \in Window : \E c \in Seq(Event) : toWin'[w] = toWin[w] \o c
           /\ \A x \in watch' : x \in watch \/ x.kind # "close"
<1>1. \A w \in Window : toWin[w] \in Seq(Event)
  BY DEF TypeOK
<1>2. ASSUME NEW w \in Window PROVE \E c \in Seq(Event) : toWin'[w] = toWin[w] \o c
  <2>1. CASE w \in s.live
    BY <2>1, EmitsType DEF Apply
  <2>2. CASE w \notin s.live
    <3>1. toWin'[w] = toWin[w]
      BY <2>2 DEF Apply
    <3>2. toWin[w] = toWin[w] \o <<>>
      BY <1>1
    <3> QED BY <3>1, <3>2, EmptySeqs
  <2> QED BY <2>1, <2>2
<1>3. ASSUME NEW x \in watch' PROVE x \in watch \/ x.kind # "close"
  BY DEF Apply
<1> QED BY <1>2, <1>3

\* So does request_quit.
LEMMA RequestQuitKept ==
    ASSUME TypeOK, NEW restart, NEW q, NEW s, s.toWin = toWin, NEW n \in Nat,
           RequestQuit(restart, q, s, n)
    PROVE  /\ \A w \in Window : \E c \in Seq(Event) : toWin'[w] = toWin[w] \o c
           /\ \A x \in watch' : x \in watch \/ x.kind # "close"
<1>1. CASE q.records # {}
  <2>1. toWin' = toWin /\ watch' = watch
    BY <1>1 DEF RequestQuit
  <2>2. \A w \in Window : toWin[w] = toWin[w] \o <<>>
    BY DEF TypeOK
  <2> QED BY <2>1, <2>2, EmptySeqs
<1>2. CASE q.records = {}
  <2> DEFINE r == Request(m, live, restart)
             wd == {[kind |-> "ack", seq |-> r.m.seq, n |-> n]}
  <2>1. Apply(r, s, wd, n)
    BY <1>2 DEF RequestQuit
  <2>2. \A x \in wd : x.kind # "close"
    OBVIOUS
  <2> HIDE DEF r, wd
  <2> QED
    BY <2>1, <2>2, ApplyKept
<1> QED BY <1>1, <1>2

\* request_window_close: the watchdog it starts waits for the request it sends.
LEMMA RequestWindowCloseKept ==
    ASSUME TypeOK, NEW S \in SUBSET Window, NEW q, NEW n \in Nat,
           RequestWindowClose(S, q, n), UNCHANGED <<view, toHost>>
    PROVE  /\ \A w \in Window : Kept(w)
           /\ \A x \in watch' : x \in watch \/ Owed(x)'
<1> DEFINE asked == S \ {w \in S : Endpoint(q, w)}
           e == [t |-> "closeRequested", n |-> n]
<1>1. /\ close' = [w \in Window |->
                      IF w \in asked THEN CloseRequest(close[w]) ELSE close[w]]
      /\ toWin' = [w \in Window |->
                      IF w \in asked THEN Append(toWin[w], e) ELSE toWin[w]]
      /\ watch' = watch \cup {[kind |-> "close", label |-> w,
                               seq |-> close[w].seq + 1, n |-> n] : w \in asked}
  BY DEF RequestWindowClose
<1>2. asked \in SUBSET Window /\ e \in Event
  BY DEF Event
<1>3. \A w \in Window : toWin[w] \in Seq(Event) /\ close[w].seq \in Nat
  BY DEF TypeOK, CloseEntry
<1> HIDE DEF asked
<1>4. ASSUME NEW w \in Window PROVE Kept(w)
  <2>1. CASE w \in asked
    <3>1. close'[w].seq = close[w].seq + 1
      BY <1>1, <2>1 DEF CloseRequest
    <3> QED BY <1>3, <3>1 DEF Kept, Retired
  <2>2. CASE w \notin asked
    BY <1>1, <2>2, UntouchedKept
  <2> QED BY <2>1, <2>2
<1>5. ASSUME NEW x \in watch', x \notin watch PROVE Owed(x)'
  <2>1. PICK w \in asked : x = [kind |-> "close", label |-> w,
                                seq |-> close[w].seq + 1, n |-> n]
    BY <1>1, <1>5
  <2>2. x.kind = "close" /\ x.label = w /\ x.seq = close[w].seq + 1 /\ x.n = n
    BY <2>1
  <2>3. close'[w].seq = close[w].seq + 1 /\ close[w].seq \in Nat /\ w \in Window
    BY <1>1, <1>2, <1>3 DEF CloseRequest
  <2>4. toWin'[w] = Append(toWin[w], e)
    BY <1>1, <1>2
  <2>5. Holds(toWin'[w], e)
    BY <1>2, <1>3, <2>3, <2>4, HoldsSent, EmptySeqs
  <2>6. Asked(x.label, x.n)'
    BY <2>2, <2>5 DEF Asked
  <2> QED
    BY <2>2, <2>3, <2>6 DEF Owed
<1> QED BY <1>4, <1>5

\* A command read from w, other than the ack of a close.
LEMMA TakenKept ==
    ASSUME TypeOK, NEW w \in Window, NEW t, t # "closeAck", HasCommand(w, t), TakeCommand(w),
           close' = close, NEW u \in Window, view[u].wedged => view'[u].wedged,
           \E c \in Seq(Event) : toWin'[u] = toWin[u] \o c
    PROVE  Kept(u)
<1>1. toWin[u] \in Seq(Event) /\ toHost[u] \in Seq(Command)
  BY DEF TypeOK
<1>2. toHost[w] # <<>> /\ Head(toHost[w]).t # "closeAck"
  BY DEF HasCommand
<1>3. toHost'[u] = IF u = w THEN Tail(toHost[w]) ELSE toHost[u]
  BY DEF TakeCommand, TypeOK
<1>4. ASSUME NEW n, Asked(w, n), u = w PROVE Asked(u, n)'
  <2> DEFINE e == [t |-> "closeRequested", n |-> n]
             a == [t |-> "closeAck", n |-> n]
  <2>1. Head(toHost[w]) # a
    BY <1>2
  <2> HIDE DEF e, a
  <2>2. Holds(toWin[w], e) \/ Holds(toHost[w], a)
    BY <1>4 DEF Asked, e, a
  <2>3. CASE Holds(toWin[w], e)
    BY <1>1, <1>4, <2>3, HoldsGrown DEF Asked, e
  <2>4. CASE Holds(toHost[w], a)
    <3>1. Holds(Tail(toHost[w]), a)
      BY <1>1, <1>2, <1>4, <2>1, <2>4, HoldsTaken
    <3> QED
      BY <1>3, <1>4, <3>1 DEF Asked, a
  <2> QED
    BY <2>2, <2>3, <2>4
<1>5. ASSUME NEW n, Asked(u, n), u # w PROVE Asked(u, n)'
  BY <1>1, <1>3, <1>5, HoldsGrown DEF Asked
<1> QED
  BY <1>4, <1>5 DEF Kept

\* A step of the webview of w: a close request it reads is answered.
LEMMA ViewStepKept ==
    ASSUME TypeOK, NEW w \in Window, NEW v, NEW c \in Seq(Command), ViewStep(w, v, c),
           ~view[w].wedged,
           \/ toWin' = toWin
           \/ /\ toWin[w] # <<>> /\ TakeEvent(w)
              /\ \/ Head(toWin[w]).t # "closeRequested"
                 \/ /\ [t |-> "closeAck", n |-> Head(toWin[w]).n] \in Command
                    /\ \E d \in Seq(Command) :
                          c = <<[t |-> "closeAck", n |-> Head(toWin[w]).n]>> \o d
    PROVE  \A u \in Window : Kept(u)
<1>1. /\ toWin[w] \in Seq(Event) /\ toHost[w] \in Seq(Command)
      /\ toWin \in [Window -> Seq(Event)] /\ toHost \in [Window -> Seq(Command)]
      /\ view \in [Window -> View]
  BY DEF TypeOK
<1>2. close' = close
  BY DEF ViewStep, hostVars
<1>3. ASSUME NEW u \in Window, u # w PROVE Kept(u)
  BY <1>1, <1>2, <1>3, UntouchedKept DEF ViewStep, TakeEvent
<1>4. ASSUME NEW n \in Nat, Asked(w, n) PROVE Asked(w, n)'
  <2> DEFINE e == [t |-> "closeRequested", n |-> n]
             a == [t |-> "closeAck", n |-> n]
  <2>1. toHost'[w] = toHost[w] \o c
    BY <1>1 DEF ViewStep
  <2>2. a \in Command /\ e.t = "closeRequested" /\ e.n = n
    BY DEF Command
  <2>3. (Holds(toWin[w], e) \/ Holds(toHost[w], a)) /\ a = [t |-> "closeAck", n |-> n]
    BY <1>4 DEF Asked
  <2>4. Holds(toWin'[w], e) \/ Holds(toHost'[w], a) => Asked(w, n)'
    BY DEF Asked
  <2> HIDE DEF e, a
  <2>5. CASE Holds(toHost[w], a)
    BY <1>1, <2>1, <2>4, <2>5, HoldsGrown
  <2>6. CASE toWin' = toWin /\ Holds(toWin[w], e)
    BY <2>4, <2>6
  <2>7. CASE toWin[w] # <<>> /\ TakeEvent(w) /\ Head(toWin[w]) # e /\ Holds(toWin[w], e)
    <3>1. toWin'[w] = Tail(toWin[w])
      BY <1>1, <2>7 DEF TakeEvent
    <3> QED
      BY <1>1, <2>4, <2>7, <3>1, HoldsTaken
  <2>8. CASE toWin' # toWin /\ Head(toWin[w]) = e
    <3>1. PICK d \in Seq(Command) : c = <<a>> \o d
      BY <2>2, <2>3, <2>8
    <3>2. Holds(toHost'[w], a)
      BY <1>1, <2>1, <2>2, <3>1, HoldsSent
    <3> QED BY <2>4, <3>2
  <2> QED
    BY <2>3, <2>5, <2>6, <2>7, <2>8
<1>5. Kept(w)
  BY <1>2, <1>4 DEF Kept
<1> QED BY <1>3, <1>5

\* Retiring the close of a window.
LEMMA RetiredKept ==
    ASSUME TypeOK, NEW w \in Window, close' = [close EXCEPT ![w] = CloseClear(close[w])]
    PROVE  Kept(w) /\ \A u \in Window \ {w} : close'[u] = close[u]
<1>1. close \in [Window -> CloseEntry] /\ close[w] \in CloseEntry
  BY DEF TypeOK
<1>2. close'[w] = CloseClear(close[w])
  BY <1>1
<1>3. Retired(w)
  BY <1>1, <1>2 DEF Retired, CloseClear, CloseEntry
<1> QED
  BY <1>1, <1>3 DEF Kept

\* The commands of the webviews.
LEMMA CommandsKept ==
    ASSUME TypeOK, NEW w \in Window,
           \/ QuitAck(w) \/ QuitProgress(w) \/ QuitVote(w) \/ QuitCancel(w)
           \/ QuitWindowDone(w) \/ QuitProceed(w)
           \/ WindowCloseAck(w) \/ WindowCloseCancel(w)
           \/ RemoveWindowSession(w) \/ CloseWindow(w)
    PROVE  /\ \A u \in Window : Kept(u)
           /\ \A x \in watch' : x \in watch \/ x.kind # "close"
<1>1. /\ toWin \in [Window -> Seq(Event)] /\ view \in [Window -> View]
      /\ close \in [Window -> CloseEntry] /\ toHost \in [Window -> Seq(Command)]
      /\ triggers \in Nat /\ \A u \in Window : toWin[u] = toWin[u] \o <<>>
  BY DEF TypeOK
<1>2. ASSUME NEW t \in {"quitAck", "quitProgress"}, HasCommand(w, t), TakeCommand(w),
             UNCHANGED <<close, view, toWin, watch>>
      PROVE  (\A u \in Window : Kept(u)) /\ \A x \in watch' : x \in watch
  BY <1>1, <1>2, TakenKept, EmptySeqs
<1>3. CASE QuitAck(w) \/ QuitProgress(w)
  BY <1>2, <1>3 DEF QuitAck, QuitProgress
<1>4. ASSUME NEW t \in {"quitVote", "quitCancel", "quitWindowDone", "quitProceed"},
             HasCommand(w, t), TakeCommand(w), UNCHANGED <<close, view>>,
             NEW r, Apply(r, Now, {}, triggers)
      PROVE  /\ \A u \in Window : Kept(u)
             /\ \A x \in watch' : x \in watch \/ x.kind # "close"
  <2>1. /\ \A u \in Window : \E c \in Seq(Event) : toWin'[u] = toWin[u] \o c
        /\ \A x \in watch' : x \in watch \/ x.kind # "close"
    <3> DEFINE none == {}
    <3>1. Now.toWin = toWin /\ Apply(r, Now, none, triggers) /\ \A x \in none : x.kind # "close"
      BY <1>4, NowType
    <3> HIDE DEF none
    <3> QED BY <1>1, <3>1, ApplyKept
  <2> QED
    BY <1>4, <2>1, TakenKept
<1>5. CASE QuitVote(w)
  BY <1>4, <1>5 DEF QuitVote
<1>6. CASE QuitCancel(w)
  BY <1>4, <1>6 DEF QuitCancel
<1>7. CASE QuitWindowDone(w)
  BY <1>4, <1>7 DEF QuitWindowDone
<1>8. CASE QuitProceed(w)
  BY <1>4, <1>8 DEF QuitProceed
<1>9. CASE WindowCloseAck(w)
  <2>1. /\ close' = [close EXCEPT ![w] = CloseAck(close[w])] /\ TakeCommand(w)
        /\ UNCHANGED <<toWin, view, watch>>
    BY <1>9 DEF WindowCloseAck
  <2>2. \A u \in Window \ {w} : Kept(u)
    BY <1>1, <2>1, UntouchedKept DEF TakeCommand
  <2>3. close'[w] = CloseAck(close[w]) /\ close[w] \in CloseEntry
    BY <1>1, <2>1
  <2>4. /\ close'[w].seq = close[w].seq
        /\ close'[w].seq = 0 \/ close'[w].acked
        /\ close[w].acked => close'[w].acked
    BY <2>3 DEF CloseAck, CloseEntry
  <2>5. Kept(w)
    BY <2>1, <2>4 DEF Kept
  <2> QED BY <2>1, <2>2, <2>5
<1>10. ASSUME TakeCommand(w), UNCHANGED <<toWin, view, watch>>,
              close' = [close EXCEPT ![w] = CloseClear(close[w])]
       PROVE  (\A u \in Window : Kept(u)) /\ \A x \in watch' : x \in watch
  <2>1. \A u \in Window \ {w} : toHost'[u] = toHost[u]
    BY <1>1, <1>10 DEF TakeCommand
  <2>2. \A u \in Window \ {w} : Kept(u)
    BY <1>1, <1>10, <2>1, UntouchedKept, RetiredKept
  <2> QED
    BY <1>10, <2>2, RetiredKept
<1>11. CASE WindowCloseCancel(w)
  BY <1>10, <1>11 DEF WindowCloseCancel
<1>12. CASE CloseWindow(w)
  BY <1>10, <1>12 DEF CloseWindow, FinishWindowClose
<1>13. CASE RemoveWindowSession(w)
  <2>1. /\ HasCommand(w, "removeSession") /\ TakeCommand(w)
        /\ UNCHANGED <<toWin, close, watch>> /\ view' = [view EXCEPT ![w].close = "killing"]
    BY <1>13 DEF RemoveWindowSession
  <2>2. \A u \in Window : view[u].wedged => view'[u].wedged
    BY <1>1, <2>1 DEF View
  <2> QED
    BY <1>1, <2>1, <2>2, TakenKept, EmptySeqs
<1> QED
  BY <1>3, <1>5, <1>6, <1>7, <1>8, <1>9, <1>11, <1>12, <1>13

\* A window's end retires its close; the other windows are only sent events.
LEMMA DestroyedKept ==
    ASSUME TypeOK, NEW w \in Window, Destroyed(w)
    PROVE  /\ \A u \in Window : Kept(u)
           /\ \A x \in watch' : x \in watch \/ x.kind # "close"
<1> DEFINE rest == live \ {w}
           g == IF {a \in queue.records : a.to = w} # {} THEN GateBegin(gate) ELSE gate
           s == [Now EXCEPT !.live = rest, !.toWin[w] = <<>>, !.gate = g]
<1>1. /\ toWin \in [Window -> Seq(Event)] /\ view \in [Window -> View]
      /\ toHost \in [Window -> Seq(Command)] /\ triggers \in Nat
      /\ close' = [close EXCEPT ![w] = CloseClear(close[w])]
      /\ toHost' = [toHost EXCEPT ![w] = <<>>] /\ view' = [view EXCEPT ![w] = NewView]
  BY DEF TypeOK, Destroyed
<1>2. PICK r : Apply(r, s, {}, triggers)
  BY DEF Destroyed
<1>3. s.toWin = [toWin EXCEPT ![w] = <<>>] /\ s.live = rest
  BY DEF Now
<1> HIDE DEF s
<1>4. /\ watch' = watch \cup (watch' \cap {[kind |-> "gate"]})
      /\ toWin' = [u \in Window |-> IF u \in s.live THEN s.toWin[u] \o Emits(r, u, triggers)
                                                    ELSE s.toWin[u]]
  BY <1>2 DEF Apply
<1>5. ASSUME NEW u \in Window, u # w PROVE Kept(u)
  <2>1. /\ close'[u] = close[u] /\ view'[u] = view[u] /\ toHost'[u] = toHost[u]
        /\ s.toWin[u] = toWin[u] /\ toWin[u] \in Seq(Event)
    BY <1>1, <1>3, <1>5, RetiredKept
  <2>2. CASE u \in s.live
    <3>1. toWin'[u] = toWin[u] \o Emits(r, u, triggers) /\ Emits(r, u, triggers) \in Seq(Event)
      BY <1>1, <1>4, <2>1, <2>2, EmitsType
    <3>2. ASSUME NEW n, Asked(u, n) PROVE Asked(u, n)'
      BY <2>1, <3>1, <3>2, HoldsGrown DEF Asked
    <3> QED BY <2>1, <3>2 DEF Kept
  <2>3. CASE u \notin s.live
    BY <1>4, <2>1, <2>3, UntouchedKept
  <2> QED BY <2>2, <2>3
<1>6. Kept(w)
  BY <1>1, RetiredKept
<1>7. ASSUME NEW x \in watch' PROVE x \in watch \/ x.kind # "close"
  BY <1>4
<1> QED
  BY <1>5, <1>6, <1>7

\* What the user, the OS and posted closures ask for.
LEMMA RequestsKept ==
    ASSUME TypeOK, Redrive \/ ExitRequested \/ (\E restart \in BOOLEAN : TriggerQuit(restart))
                     \/ \E w \in Window : CloseButton(w)
    PROVE  /\ \A w \in Window : Kept(w)
           /\ \A x \in watch' : x \in watch \/ x.kind # "close" \/ Owed(x)'
<1>1. triggers \in Nat /\ triggers' \in Nat /\ live \in SUBSET Window /\ queue \in Queue
  <2>1. triggers' = triggers \/ triggers' = triggers + 1
    BY DEF Redrive, ExitRequested, TriggerQuit, CloseButton, boundVars
  <2> QED BY <2>1 DEF TypeOK
<1>2. UNCHANGED <<view, toHost>>
  BY DEF Redrive, ExitRequested, TriggerQuit, CloseButton
<1>3. ASSUME NEW restart, NEW q, NEW s, s.toWin = toWin, NEW n \in Nat,
             RequestQuit(restart, q, s, n), close' = close
      PROVE  /\ \A w \in Window : Kept(w)
             /\ \A x \in watch' : x \in watch \/ x.kind # "close"
  BY <1>2, <1>3, RequestQuitKept, SentKept
<1>4. ASSUME NEW S \in SUBSET Window, NEW q, NEW n \in Nat, RequestCloseOrQuit(S, q, n)
      PROVE  /\ \A w \in Window : Kept(w)
             /\ \A x \in watch' : x \in watch \/ x.kind # "close" \/ Owed(x)'
  <2>1. CASE RequestWindowClose(S, q, n)
    BY <1>2, <1>4, <2>1, RequestWindowCloseKept
  <2>2. CASE RequestQuit(FALSE, q, Now, n) /\ close' = close
    BY <1>3, <1>4, <2>2, NowType
  <2> QED
    BY <1>4, <2>1, <2>2 DEF RequestCloseOrQuit
<1>5. ASSUME UNCHANGED <<close, toWin>>,
             \A x \in watch' : x \in watch \/ x.kind # "close"
      PROVE  /\ \A w \in Window : Kept(w)
             /\ \A x \in watch' : x \in watch \/ x.kind # "close"
  BY <1>2, <1>5, UntouchedKept
<1>6. CASE Redrive
  <2> DEFINE ready == TakeReady(queue, live)
  <2>1. \/ RequestQuit(ready.quit = "restart", ready.q, Now, triggers) /\ close' = close
        \/ RequestCloseOrQuit(ready.closes, ready.q, triggers)
        \/ UNCHANGED <<close, toWin, watch>>
    BY <1>6 DEF Redrive
  <2>2. ready.closes \in SUBSET Window
    BY <1>1, TakeReadyType
  <2> HIDE DEF ready
  <2> QED
    BY <1>1, <1>3, <1>4, <1>5, <2>1, <2>2, NowType
<1>7. CASE ExitRequested
  <2>1. CASE m.approved
    <3>1. UNCHANGED <<close, toWin>> /\ watch' \subseteq watch \cup {[kind |-> "gate"]}
      BY <1>7, <2>1 DEF ExitRequested
    <3> QED BY <1>5, <3>1
  <2>2. CASE ~m.approved
    <3> DEFINE s == [Now EXCEPT !.posted = FALSE]
    <3>1. s.toWin = toWin /\ RequestQuit(FALSE, queue, s, triggers) /\ close' = close
      BY <1>7, <2>2 DEF ExitRequested, Now
    <3> HIDE DEF s
    <3> QED BY <1>1, <1>3, <3>1
  <2> QED BY <2>1, <2>2
<1>8. ASSUME NEW restart \in BOOLEAN, TriggerQuit(restart)
      PROVE  /\ \A w \in Window : Kept(w)
             /\ \A x \in watch' : x \in watch \/ x.kind # "close"
  BY <1>1, <1>3, <1>8, NowType DEF TriggerQuit
<1>9. ASSUME NEW w \in Window, CloseButton(w)
      PROVE  /\ \A u \in Window : Kept(u)
             /\ \A x \in watch' : x \in watch \/ x.kind # "close" \/ Owed(x)'
  <2>1. CASE m.approved
    <3>1. UNCHANGED <<close, toWin, watch>>
      BY <1>9, <2>1 DEF CloseButton
    <3> QED BY <1>5, <3>1
  <2>2. CASE ~m.approved
    <3>1. RequestCloseOrQuit({w}, queue, triggers') /\ {w} \in SUBSET Window
      BY <1>9, <2>2 DEF CloseButton
    <3> QED BY <1>1, <1>4, <3>1
  <2> QED BY <2>1, <2>2
<1> QED
  BY <1>6, <1>7, <1>8, <1>9

\* The watchdogs: one that forces a close retires it.
LEMMA WatchdogsKept ==
    ASSUME TypeOK, NEW wd \in watch,
           QuitAckTimeout(wd) \/ QuitStallTimeout(wd) \/ CloseAckTimeout(wd) \/ GateTimeout(wd)
    PROVE  /\ \A w \in Window : Kept(w)
           /\ \A x \in watch' : x \in watch \/ x.kind # "close"
<1>1. UNCHANGED <<toWin, toHost, view>>
  BY DEF QuitAckTimeout, QuitStallTimeout, CloseAckTimeout, GateTimeout, viewVars
<1>2. CASE CloseAckTimeout(wd)
  <2>1. wd.label \in Window /\ watch' \subseteq watch
    BY <1>2 DEF CloseAckTimeout, TypeOK, Watchdog
  <2>2. CASE close' = close
    BY <1>1, <2>1, <2>2, UntouchedKept
  <2>3. CASE close' = [close EXCEPT ![wd.label] = CloseClear(close[wd.label])]
    BY <1>1, <2>1, <2>3, RetiredKept, UntouchedKept
  <2> QED
    BY <1>2, <2>2, <2>3 DEF CloseAckTimeout, FinishWindowClose
<1>3. CASE QuitAckTimeout(wd) \/ QuitStallTimeout(wd) \/ GateTimeout(wd)
  <2>1. close' = close
    BY <1>3 DEF QuitAckTimeout, QuitStallTimeout, GateTimeout
  <2>2. watch' \subseteq watch \cup {[kind |-> "stall", seq |-> wd.seq, n |-> wd.n]}
    BY <1>3 DEF QuitAckTimeout, QuitStallTimeout, GateTimeout, GiveUp
  <2> QED
    BY <1>1, <2>1, <2>2, UntouchedKept
<1> QED
  BY <1>2, <1>3

\* The webviews and the humans in front of them.
LEMMA ViewsKept ==
    ASSUME TypeOK, ViewStepNext \/ HumanAnswers
    PROVE  \A w \in Window : Kept(w)
<1> USE DEF CommandTags
<1>1. \A w \in Window : view[w] \in View
  BY DEF TypeOK
<1>2. ASSUME NEW w \in Window, OnQuitRequested(w) PROVE \A u \in Window : Kept(u)
  <2> DEFINE k == [t |-> "quitAck", n |-> Head(toWin[w]).n]
  <2>1. PICK a \in QuitRequest(view[w]) : ViewStep(w, a.v, <<k>> \o a.cmds)
    BY <1>2 DEF OnQuitRequested
  <2>2. a.cmds \in Seq(Command) /\ k \in Command
    BY <1>1, <1>2, QuitRequestType, AckOfEvent DEF OnQuitRequested
  <2> HIDE DEF k
  <2>3. <<k>> \o a.cmds \in Seq(Command)
    BY <2>2
  <2> QED
    BY <1>2, <2>1, <2>3, ViewStepKept DEF OnQuitRequested, HasEvent
<1>3. ASSUME NEW w \in Window, OnCloseRequested(w) PROVE \A u \in Window : Kept(u)
  <2> DEFINE k == [t |-> "closeAck", n |-> Head(toWin[w]).n]
  <2>1. PICK a \in CloseRequestFlow(view[w]) : ViewStep(w, a.v, <<k>> \o a.cmds)
    BY <1>3 DEF OnCloseRequested
  <2>2. a.cmds \in Seq(Command) /\ k \in Command
    BY <1>1, <1>3, CloseRequestFlowType, AckOfEvent DEF OnCloseRequested
  <2>3. <<k>> \o a.cmds \in Seq(Command)
    BY <2>2
  <2> QED
    BY <1>3, <2>1, <2>2, <2>3, ViewStepKept DEF OnCloseRequested, HasEvent
<1>4. ASSUME NEW w \in Window, OnQuitCancelled(w) PROVE \A u \in Window : Kept(u)
  BY <1>4, EmptySeqs, ViewStepKept DEF OnQuitCancelled, HasEvent
<1>5. ASSUME NEW w \in Window, OnQuitTeardown(w) PROVE \A u \in Window : Kept(u)
  <2>1. <<Cmd("quitProgress")>> \in Seq(Command)
    BY CmdType
  <2> QED
    BY <1>5, <2>1, ViewStepKept DEF OnQuitTeardown, HasEvent
<1>6. ASSUME NEW w \in Window, OnDeparted(w) PROVE \A u \in Window : Kept(u)
  <2>1. <<Cmd("closeWindow")>> \in Seq(Command)
    BY CmdType
  <2> QED
    BY <1>6, <2>1, EmptySeqs, ViewStepKept DEF OnDeparted, HasEvent
<1>7. ASSUME NEW w \in Window, CanAnswer(w), toWin' = toWin, NEW v,
             NEW c \in Seq(Command), ViewStep(w, v, c)
      PROVE  \A u \in Window : Kept(u)
  BY <1>7, ViewStepKept DEF CanAnswer
<1>8. ASSUME NEW w \in Window, QuitTeardownEnds(w) PROVE \A u \in Window : Kept(u)
  <2> DEFINE t == IF view[w].td = "last" THEN "quitProceed" ELSE "quitWindowDone"
  <2>1. <<Cmd(t)>> \in Seq(Command)
    BY CmdType
  <2> QED
    BY <1>7, <1>8, <2>1 DEF QuitTeardownEnds
<1>9. ASSUME NEW w \in Window, CloseTeardownEnds(w) PROVE \A u \in Window : Kept(u)
  <2>1. <<Cmd("closeWindow")>> \in Seq(Command)
    BY CmdType
  <2> QED
    BY <1>7, <1>9, <2>1 DEF CloseTeardownEnds
<1>10. ASSUME NEW w \in Window, Confirm(w) PROVE \A u \in Window : Kept(u)
  <2>1. <<Cmd("quitVote")>> \in Seq(Command) /\ <<Cmd("removeSession")>> \in Seq(Command)
    BY CmdType
  <2> QED
    BY <1>7, <1>10, <2>1 DEF Confirm
<1>11. ASSUME NEW w \in Window, Decline(w) PROVE \A u \in Window : Kept(u)
  BY <1>1, <1>7, <1>11, CancelFlowType DEF Decline
<1> QED
  BY <1>2, <1>3, <1>4, <1>5, <1>6, <1>8, <1>9, <1>10, <1>11 DEF ViewStepNext, HumanAnswers

\* Transfers send what they send last; a hand-back worker's end and a webview's
\* death change no close.
LEMMA OthersKept ==
    ASSUME TypeOK, \/ SettleTransfer \/ HandBackWorkerEnds
                   \/ \E w \in Window : Wedge(w) \/ ReopenClosedWindow(w)
                   \/ \E from, to \in Window : BeginTransfer(from, to)
                   \/ \E a \in queue.records : BuildTornOut(a)
    PROVE  /\ \A w \in Window : Kept(w)
           /\ \A x \in watch' : x \in watch \/ x.kind # "close"
<1>1. ASSUME UNCHANGED <<close, viewVars, watch>>
      PROVE  /\ \A w \in Window : Kept(w)
             /\ \A x \in watch' : x \in watch
  BY <1>1, UntouchedKept DEF viewVars
<1>2. ASSUME NEW a \in queue.records, AdoptDone(a)
      PROVE  /\ \A w \in Window : Kept(w)
             /\ \A x \in watch' : x \in watch
  <2>1. /\ UNCHANGED <<close, view, toHost, watch>> /\ toWin \in [Window -> Seq(Event)]
        /\ toWin' = IF a.from \in live
                    THEN [toWin EXCEPT ![a.from] = Append(toWin[a.from], [t |-> "departed"])]
                    ELSE toWin
    BY <1>2 DEF AdoptDone, TypeOK
  <2>2. [t |-> "departed"] \in Event /\ a.from \in Window
    BY DEF Event, TypeOK, Queue, Arrival
  <2>3. ASSUME NEW w \in Window PROVE \E c \in Seq(Event) : toWin'[w] = toWin[w] \o c
    <3>1. /\ toWin[w] \in Seq(Event) /\ toWin[w] = toWin[w] \o <<>>
          /\ Append(toWin[w], [t |-> "departed"]) = toWin[w] \o <<[t |-> "departed"]>>
          /\ <<[t |-> "departed"]>> \in Seq(Event)
      BY <2>1, <2>2
    <3>2. toWin'[w] = toWin[w] \/ toWin'[w] = Append(toWin[w], [t |-> "departed"])
      BY <2>1, <2>2
    <3> QED BY <3>1, <3>2, EmptySeqs
  <2> QED
    BY <2>1, <2>3, SentKept
<1>3. ASSUME NEW a \in queue.records, HandBack(a) \/ BuildTornOut(a)
      PROVE  UNCHANGED <<close, viewVars, watch>>
  BY <1>3 DEF HandBack, BuildTornOut
<1>4. CASE HandBackWorkerEnds
  <2> DEFINE r == Result(m, IF GateFinishes(gate) THEN {ExitApp} ELSE {})
             s == [Now EXCEPT !.gate = GateFinish(gate)]
             none == {}
  <2>1. /\ Apply(r, s, none, triggers) /\ s.toWin = toWin /\ triggers \in Nat
        /\ UNCHANGED <<close, view, toHost>> /\ \A x \in none : x.kind # "close"
    BY <1>4 DEF HandBackWorkerEnds, Now, TypeOK
  <2> HIDE DEF r, s, none
  <2> QED
    BY <2>1, ApplyKept, SentKept
<1>5. ASSUME NEW w \in Window, Wedge(w)
      PROVE  /\ \A u \in Window : Kept(u)
             /\ \A x \in watch' : x \in watch
  <2>1. /\ UNCHANGED <<close, toWin, toHost, watch>> /\ view \in [Window -> View]
        /\ view' = [view EXCEPT ![w].wedged = TRUE]
    BY <1>5 DEF Wedge, hostVars, TypeOK
  <2>2. \A u \in Window : view[u].wedged => view'[u].wedged
    BY <2>1 DEF View
  <2>3. ASSUME NEW u, NEW n, Asked(u, n) PROVE Asked(u, n)'
    BY <2>1, <2>3 DEF Asked
  <2> QED
    BY <2>1, <2>2, <2>3 DEF Kept
<1>6. ASSUME \/ \E w \in Window : ReopenClosedWindow(w)
             \/ \E from, to \in Window : BeginTransfer(from, to)
      PROVE  UNCHANGED <<close, viewVars, watch>>
  BY <1>6 DEF ReopenClosedWindow, BeginTransfer
<1> QED
  BY <1>1, <1>2, <1>3, <1>4, <1>5, <1>6 DEF SettleTransfer

\* What the close watchdogs are owed is inductive.
LEMMA OwedInvHolds == Spec => []OwedInv
<1>1. Init => OwedInv
  BY DEF Init, OwedInv
<1>2. IInv /\ IInv' /\ OwedInv /\ [Next]_vars => OwedInv'
  <2> SUFFICES ASSUME IInv, IInv', OwedInv, [Next]_vars PROVE OwedInv'
    OBVIOUS
  <2>1. TypeOK /\ TypeOK'
    BY DEF IInv
  <2>2. ASSUME NEW x, x.kind # "close" PROVE Owed(x)'
    BY <2>2 DEF Owed
  <2>3. CASE HostStep
    BY <2>1, <2>2, <2>3, CommandsKept, DestroyedKept, RequestsKept, OwedKept DEF HostStep
  <2>4. CASE WatchdogStep
    BY <2>1, <2>2, <2>4, WatchdogsKept, OwedKept DEF WatchdogStep
  <2>5. CASE ViewStepNext \/ HumanAnswers
    <3>1. watch' = watch
      BY <2>5 DEF ViewStepNext, OnQuitRequested, OnQuitCancelled, OnQuitTeardown,
                  OnCloseRequested, OnDeparted, QuitTeardownEnds, CloseTeardownEnds,
                  HumanAnswers, Confirm, Decline, ViewStep, hostVars
    <3> QED
      BY <2>1, <2>5, <3>1, ViewsKept, OwedKept
  <2>6. CASE SettleTransfer
    BY <2>1, <2>2, <2>6, OthersKept, OwedKept
  <2>7. CASE Optional
    BY <2>1, <2>2, <2>7, RequestsKept, OthersKept, OwedKept DEF Optional
  <2>8. CASE UNCHANGED vars
    BY <2>1, <2>8, UntouchedKept, OwedKept DEF vars, hostVars, viewVars
  <2> QED
    BY <2>3, <2>4, <2>5, <2>6, <2>7, <2>8 DEF Next, Progressing
<1> QED
  BY <1>1, <1>2, IInvHolds, PTL DEF Spec

\* A window whose webview answers is never closed by its ack watchdog: whatever
\* cancels, repeats and late acks came in between, the watchdog that finds the
\* request answered finds its sequence number retired or the close acked
\* (CloseMachine::clear, request_window_close).
THEOREM ForcedAreDead == Spec => []OnlyTheDeadAreForced
<1>1. OwedInv /\ IInv => OnlyTheDeadAreForced
  <2> SUFFICES ASSUME OwedInv, NEW wd \in watch, wd.kind = "close", ~view[wd.label].wedged,
                      close[wd.label].seq = wd.seq, ~close[wd.label].acked
               PROVE  ~Answered(wd.label, wd.n)
    BY DEF OnlyTheDeadAreForced
  <2>1. Asked(wd.label, wd.n)
    BY DEF OwedInv, Owed
  <2> QED
    BY <2>1 DEF Asked, Holds, Answered
<1> QED
  BY <1>1, IInvHolds, OwedInvHolds, PTL

=============================================================================
