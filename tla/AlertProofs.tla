----------------------------- MODULE AlertProofs -----------------------------
(***************************************************************************)
(* What AlertManager guarantees for any viewers, watch keys and awaits.    *)
(***************************************************************************)
EXTENDS AlertManager, TLAPS

\* What every call keeps of the entry: its latches agree, and no await that may
\* resolve idle has a command in front of it.
Sound(e) ==
    /\ e \in Entry
    /\ e.ackedQuiet => Empty(e.ring)
    /\ ~Empty(e.held) => e.todo
    /\ \A w \in Waiter : e.wait[w] = "grace" => ~e.command.runs

\* An id with no entry yet has nothing under way.
Absent(e) == ~e.here => e.progress = "none" /\ Empty(e.held)

\* A removed id has no completion to come, and nothing left of an old one.
Bare(e) ==
    /\ Empty(e.ring) /\ Empty(e.held)
    /\ e.det \in {Det!Nothing, Det!Maybe}
    /\ e.progress = "none" /\ ~e.command.runs
    /\ \A w \in Waiter : e.wait[w] = "none"

\* A hold is somebody's to decide, and a helper has none, unless a promoted Session
\* may become a helper while it holds.
Decidable == ~Demotes => HeldIsUndecided /\ (helper => Empty(s.held))

IInv ==
    /\ TypeOK
    /\ Sound(s)
    /\ Absent(s)
    /\ removed => Bare(s)
    /\ Decidable

-----------------------------------------------------------------------------
(* What a call may do to an entry e, becoming f, while g says it is engaged. *)

Listed(e) == e.ring.listed \cup e.held.listed

\* An await that stays parked has taken what it would have woken on.
Shields(e, f) ==
    \A w \in Waiter : f.wait[w] # "none" =>
        /\ e.wait[w] # "none"
        /\ "exit" \in Listed(f) => "exit" \in Listed(e)
        /\ Until[w] = "quiet" =>
              Listed(f) \subseteq Listed(e) /\ Watched(f) \subseteq Watched(e)

Calm(e, f, g) ==
    /\ Sound(f)
    /\ Shields(e, f)
    /\ g => /\ f.ring.listed \subseteq e.ring.listed
            /\ f.ring.key \in {e.ring.key, NoKey}
    /\ ~g \/ helper => (Empty(e.held) => Empty(f.held))
    /\ f.leaveGrace = e.leaveGrace

\* What is under way is what was.
SameRun(e, f) ==
    /\ f.here = e.here /\ f.det = e.det /\ f.progress = e.progress
    /\ f.command = e.command /\ f.leaveGrace = e.leaveGrace /\ f.echo = e.echo
    /\ f.wait = e.wait

\* The three action properties of a step.
Kept ==
    /\ \A w \in Waiter : s.wait[w] # "none" /\ s'.wait[w] # "none" =>
           /\ "exit" \notin Joined
           /\ Until[w] = "quiet" => Joined = {} /\ Watched(s') \subseteq Watched(s)
    /\ EngagedBy(viewers') =>
           /\ s'.ring.listed \subseteq s.ring.listed
           /\ s'.ring.key \in {s.ring.key, NoKey}
    /\ s.todo /\ ~s'.todo => Empty(s'.ring) /\ Empty(s'.held)

Sources == Key \cup {"exit", "report"}

Completions == {"settled", "exit", "report"}

USE KeysAreCommands, UntilIsNamed DEF NoKey, Det!Nothing, Det!Maybe, Det!Busy, Det!Pausing

-----------------------------------------------------------------------------
(* Sources *)

\* A source added is a source, and is there.
LEMMA AddSourceType ==
    ASSUME NEW r \in Source, NEW source \in Sources
    PROVE  AddSource(r, source) \in Source /\ ~Empty(AddSource(r, source))
  BY DEF AddSource, Source, Empty, Sources

\* Only that one is added.
LEMMA AddSourceAdds ==
    ASSUME NEW r \in Source, NEW source \in Sources
    PROVE  /\ source \in Key => AddSource(r, source).listed = r.listed
                                /\ AddSource(r, source).key = source
           /\ source \notin Key => AddSource(r, source).listed = r.listed \cup {source}
                                   /\ AddSource(r, source).key = r.key
  BY DEF AddSource, Source, Sources

\* No sources are sources, and none.
LEMMA NoSourcesType == NoSources \in Source /\ Empty(NoSources)
  BY DEF NoSources, Source, Empty

\* Work since does not change which sources there are.
LEMMA WorkType ==
    ASSUME NEW r \in Source
    PROVE  /\ Work(r) \in Source /\ (Empty(Work(r)) <=> Empty(r))
           /\ Work(r).listed = r.listed /\ Work(r).key = r.key
  BY DEF Work, Source, Empty

\* Withdrawing the watching source adds none.
LEMMA DropWatchingType ==
    ASSUME NEW r \in Source
    PROVE  /\ DropWatching(r) \in Source /\ (Empty(r) => Empty(DropWatching(r)))
           /\ DropWatching(r).listed = r.listed /\ DropWatching(r).key = NoKey
  BY DEF DropWatching, Source, Empty

-----------------------------------------------------------------------------
(* Calls *)

\* One call after another is a call.
LEMMA CalmTransitive ==
    ASSUME NEW e, NEW f, NEW h, NEW g \in BOOLEAN, Calm(e, f, g), Calm(f, h, g)
    PROVE  Calm(e, h, g)
<1>1. Shields(e, h)
  BY DEF Calm, Shields
<1> QED
  BY <1>1 DEF Calm

\* A call that leaves the sources and adds no await is calm.
LEMMA CalmSame ==
    ASSUME NEW e, NEW f, NEW g \in BOOLEAN, Sound(f),
           f.ring = e.ring, f.held = e.held, f.leaveGrace = e.leaveGrace,
           \A w \in Waiter : f.wait[w] # "none" => e.wait[w] # "none"
    PROVE  Calm(e, f, g)
  BY DEF Calm, Shields, Listed, Watched

\* holdOrDeliver.
LEMMA HoldOrDeliverFields ==
    ASSUME NEW e \in Entry, NEW source \in Sources, NEW g \in BOOLEAN
    PROVE  LET f == HoldOrDeliver(e, source, g)
           IN  /\ f \in Entry /\ SameRun(e, f)
               /\ \/ /\ ~g /\ source = "report"
                     /\ f = e
                  \/ /\ g /\ f.ring = e.ring /\ f.held = AddSource(e.held, source)
                     /\ f.todo /\ f.ackedQuiet = e.ackedQuiet
                  \/ /\ ~g /\ f.held = e.held /\ f.ring = AddSource(e.ring, source)
                     /\ f.todo = e.todo /\ f.ackedQuiet = (e.ackedQuiet /\ ~Empty(e.ring))
  BY ZenonT(60), AddSourceType DEF HoldOrDeliver, Hold, RaiseRing, Entry, SameRun

\* And the latches agree after it.
LEMMA HoldOrDeliverSound ==
    ASSUME NEW e, Sound(e), NEW source \in Sources, NEW g \in BOOLEAN
    PROVE  Sound(HoldOrDeliver(e, source, g))
  BY HoldOrDeliverFields, AddSourceType DEF Sound, SameRun

\* noteWork.
LEMMA NoteWorkFields ==
    ASSUME NEW e \in Entry
    PROVE  LET f == NoteWork(e)
           IN  /\ f \in Entry
               /\ f.here = e.here /\ f.det = e.det /\ f.progress = e.progress
               /\ f.command = e.command /\ f.leaveGrace = e.leaveGrace /\ f.todo = e.todo
               /\ f.ring = Work(e.ring) /\ f.held = Work(e.held)
               /\ f.ackedQuiet = FALSE
               /\ \A w \in Waiter : f.wait[w] = e.wait[w] \/ (f.wait[w] = "parked" /\ e.wait[w] = "grace")
<1> DEFINE waits == [w \in Waiter |-> IF e.wait[w] = "grace" /\ Until[w] = "quiet"
                                     THEN "parked" ELSE e.wait[w]]
<1>1. waits \in [Waiter -> {"none", "grace", "parked"}]
  BY DEF Entry
<1>2. \A w \in Waiter : waits[w] = e.wait[w] \/ (waits[w] = "parked" /\ e.wait[w] = "grace")
  OBVIOUS
<1> DEFINE f == NoteWork(e)
           r == Work(e.ring)
           h == Work(e.held)
<1>3. f = [e EXCEPT !.ring = r, !.held = h, !.ackedQuiet = FALSE, !.wait = waits]
  BY DEF NoteWork
<1>4. r \in Source /\ h \in Source
  BY WorkType DEF Entry
<1> HIDE DEF waits, f, r, h
<1>5. /\ f \in Entry
      /\ f.here = e.here /\ f.det = e.det /\ f.progress = e.progress
      /\ f.command = e.command /\ f.leaveGrace = e.leaveGrace /\ f.todo = e.todo
      /\ f.ring = r /\ f.held = h /\ f.ackedQuiet = FALSE /\ f.wait = waits
  BY <1>1, <1>3, <1>4 DEF Entry
<1> QED
  BY <1>2, <1>5 DEF f, r, h

\* Work adds no source, and may only end a grace.
LEMMA NoteWorkCalm ==
    ASSUME NEW e, Sound(e), NEW g \in BOOLEAN
    PROVE  Calm(e, NoteWork(e), g)
<1> DEFINE f == NoteWork(e)
<1> HIDE DEF f
<1>1. e \in Entry
  BY DEF Sound
<1>2. /\ f \in Entry /\ f.command = e.command /\ f.leaveGrace = e.leaveGrace /\ f.todo = e.todo
      /\ f.ring = Work(e.ring) /\ f.held = Work(e.held) /\ f.ackedQuiet = FALSE
      /\ \A w \in Waiter : f.wait[w] = e.wait[w] \/ (f.wait[w] = "parked" /\ e.wait[w] = "grace")
  BY <1>1, NoteWorkFields DEF f
<1>3. /\ Empty(f.held) <=> Empty(e.held)
      /\ f.ring.listed = e.ring.listed /\ f.held.listed = e.held.listed
      /\ f.ring.key = e.ring.key /\ f.held.key = e.held.key
  BY <1>1, <1>2, WorkType DEF Entry
<1>4. Sound(f)
  BY <1>1, <1>2, <1>3 DEF Sound
<1>5. Shields(e, f)
  BY <1>2, <1>3 DEF Shields, Listed, Watched
<1> QED
  BY <1>2, <1>3, <1>4, <1>5 DEF Calm, f

\* invalidateWatching.
LEMMA InvalidateCalm ==
    ASSUME NEW e, Sound(e), NEW voided \in SUBSET Key, NEW g \in BOOLEAN
    PROVE  LET f == Invalidate(e, voided)
           IN  /\ Calm(e, f, g)
               /\ f.here = e.here /\ f.progress = e.progress /\ f.det = e.det
               /\ f.command = e.command /\ f.todo = e.todo /\ f.wait = e.wait
               /\ Empty(e.ring) => Empty(f.ring)
               /\ Empty(e.held) => Empty(f.held)
<1> DEFINE f == Invalidate(e, voided)
           r == IF e.ring.key \in voided THEN DropWatching(e.ring) ELSE e.ring
           h == IF e.held.key \in voided THEN DropWatching(e.held) ELSE e.held
<1>1. e \in Entry
  BY DEF Sound
<1>2. f = [e EXCEPT !.ring = r, !.held = h]
  BY DEF Invalidate
<1>3. /\ r \in Source /\ h \in Source
      /\ Empty(e.ring) => Empty(r)
      /\ Empty(e.held) => Empty(h)
      /\ r.listed = e.ring.listed /\ h.listed = e.held.listed
      /\ r.key \in {e.ring.key, NoKey} /\ h.key \in {e.held.key, NoKey}
  BY <1>1, DropWatchingType DEF Entry
<1> HIDE DEF f, r, h
<1>4. /\ f \in Entry /\ f.ring = r /\ f.held = h /\ f.ackedQuiet = e.ackedQuiet
      /\ f.here = e.here /\ f.progress = e.progress /\ f.det = e.det
      /\ f.command = e.command /\ f.todo = e.todo /\ f.wait = e.wait
      /\ f.leaveGrace = e.leaveGrace
  BY <1>1, <1>2, <1>3 DEF Entry
<1>5. Sound(f)
  BY <1>3, <1>4 DEF Sound
<1>6. Shields(e, f)
  BY <1>3, <1>4 DEF Shields, Listed, Watched
<1> QED
  BY <1>3, <1>4, <1>5, <1>6 DEF Calm, f

\* clearRingForUser.
LEMMA ClearRingFields ==
    ASSUME NEW e \in Entry
    PROVE  LET f == ClearRing(e)
           IN  /\ f \in Entry
               /\ Empty(f.ring) /\ Empty(f.held)
               /\ f.here = e.here /\ f.progress = e.progress /\ f.det \in {e.det, Det!Nothing}
               /\ f.command = e.command /\ f.todo = e.todo /\ f.wait = e.wait
               /\ f.leaveGrace = e.leaveGrace
<1>1. CASE Empty(e.ring) /\ Empty(e.held)
  BY <1>1 DEF ClearRing
<1>2. CASE ~(Empty(e.ring) /\ Empty(e.held))
  <2> DEFINE d == IF e.ring.key = NoKey /\ e.held.key = NoKey THEN e.det ELSE Det!Nothing
             f == ClearRing(e)
  <2>1. d \in Det!Status /\ d \in {e.det, Det!Nothing}
    BY DEF Entry, Det!Status
  <2>2. f = [e EXCEPT !.ring = NoSources, !.held = NoSources, !.ackedQuiet = TRUE, !.det = d]
    BY <1>2 DEF ClearRing
  <2> HIDE DEF d, f
  <2>3. /\ f \in Entry /\ f.ring = NoSources /\ f.held = NoSources /\ f.det = d
        /\ f.here = e.here /\ f.progress = e.progress
        /\ f.command = e.command /\ f.todo = e.todo /\ f.wait = e.wait
        /\ f.leaveGrace = e.leaveGrace
    BY <2>1, <2>2, NoSourcesType DEF Entry
  <2> QED
    BY <2>1, <2>3, NoSourcesType DEF f
<1> QED BY <1>1, <1>2

\* A call that leaves no source is calm, and may clear the TODO.
LEMMA CalmEmpty ==
    ASSUME NEW e, NEW f, NEW g \in BOOLEAN, Sound(e), f \in Entry,
           Empty(f.ring), Empty(f.held), f.leaveGrace = e.leaveGrace,
           \A w \in Waiter : f.wait[w] # "none" => e.wait[w] # "none",
           \A w \in Waiter : f.wait[w] = "grace" => ~f.command.runs
    PROVE  Calm(e, f, g)
<1>1. Sound(f)
  BY DEF Sound
<1>2. f.ring.listed = {} /\ f.held.listed = {} /\ f.ring.key = NoKey /\ f.held.key = NoKey
  BY DEF Empty
<1>3. Shields(e, f)
  BY <1>2 DEF Shields, Listed, Watched
<1> QED
  BY <1>1, <1>2, <1>3 DEF Calm

\* setTodoForUser.
LEMMA SetTodoCalm ==
    ASSUME NEW e, Sound(e), NEW todo \in BOOLEAN, NEW g \in BOOLEAN
    PROVE  LET f == SetTodo(e, todo)
           IN  /\ Calm(e, f, g) /\ Empty(f.ring) /\ Empty(f.held)
               /\ f.here = e.here /\ f.progress = e.progress /\ f.det \in {e.det, Det!Nothing}
               /\ f.command = e.command /\ f.wait = e.wait
<1> DEFINE c == ClearRing(e)
           f == SetTodo(e, todo)
<1>1. /\ c \in Entry /\ Empty(c.ring) /\ Empty(c.held)
      /\ c.here = e.here /\ c.progress = e.progress /\ c.det \in {e.det, Det!Nothing}
      /\ c.command = e.command /\ c.wait = e.wait /\ c.leaveGrace = e.leaveGrace
  BY ClearRingFields DEF Sound
<1>2. f = [c EXCEPT !.todo = todo]
  BY DEF SetTodo
<1> HIDE DEF c, f
<1>3. /\ f \in Entry /\ Empty(f.ring) /\ Empty(f.held)
      /\ f.here = e.here /\ f.progress = e.progress /\ f.det \in {e.det, Det!Nothing}
      /\ f.command = e.command /\ f.wait = e.wait /\ f.leaveGrace = e.leaveGrace
  BY <1>1, <1>2 DEF Entry
<1>4. Calm(e, f, g)
  BY <1>3, CalmEmpty DEF Sound
<1> QED
  BY <1>3, <1>4 DEF f

\* The ring becomes a TODO: acknowledge and dismissAlert.
LEMMA RingToTodoCalm ==
    ASSUME NEW e, Sound(e), NEW g \in BOOLEAN
    PROVE  LET f == RingToTodo(e)
           IN  /\ Calm(e, f, g) /\ Empty(f.ring) /\ Empty(f.held)
               /\ f.here = e.here /\ f.progress = e.progress /\ f.det \in {e.det, Det!Nothing}
               /\ f.command = e.command /\ f.wait = e.wait
<1> DEFINE todo == e.todo \/ ~Empty(e.ring)
<1>1. todo \in BOOLEAN
  BY DEF Sound, Entry
<1>2. RingToTodo(e) = SetTodo(e, todo)
  <2>1. ClearRing(e).todo = e.todo
    BY ClearRingFields DEF Sound
  <2> QED BY <2>1 DEF RingToTodo, SetTodo
<1> HIDE DEF todo
<1> QED
  BY <1>1, <1>2, SetTodoCalm

\* A completion: the awaits that accept it take it, or the ring rules decide.
LEMMA DispatchCalm ==
    ASSUME NEW e, Sound(e), NEW kind \in Completions, NEW seen \in BOOLEAN,
           NEW g \in BOOLEAN, rules \subseteq Key
    PROVE  LET f == Dispatch(e, kind, seen, g)
           IN  /\ Calm(e, f, g)
               /\ f.here = e.here /\ f.det = e.det /\ f.progress = e.progress
               /\ f.command = e.command
               /\ e.todo => f.todo
<1> DEFINE f == Dispatch(e, kind, seen, g)
<1>0. e \in Entry
  BY DEF Sound
<1>1. CASE f = e
  BY <1>1, CalmSame
<1>2. CASE ~helper /\ Claimants(e, kind) # {}
  <2> DEFINE waits == [w \in Waiter |-> IF w \in Claimants(e, kind) THEN "none" ELSE e.wait[w]]
  <2>1. waits \in [Waiter -> {"none", "grace", "parked"}]
    BY <1>0 DEF Entry
  <2>2. \A w \in Waiter : waits[w] \in {"none", e.wait[w]}
    OBVIOUS
  <2>3. f = [e EXCEPT !.wait = waits]
    BY <1>2 DEF Dispatch
  <2> HIDE DEF waits, f
  <2>4. /\ f \in Entry /\ f.ring = e.ring /\ f.held = e.held /\ f.ackedQuiet = e.ackedQuiet
        /\ f.here = e.here /\ f.det = e.det /\ f.progress = e.progress /\ f.command = e.command
        /\ f.todo = e.todo /\ f.leaveGrace = e.leaveGrace /\ f.wait = waits
    BY <1>0, <2>1, <2>3 DEF Entry
  <2>5. Sound(f)
    BY <2>2, <2>4 DEF Sound
  <2>6. Calm(e, f, g)
    BY <2>2, <2>4, <2>5, CalmSame
  <2> QED
    BY <2>4, <2>6 DEF f
<1>3. CASE ~helper /\ Claimants(e, kind) = {} /\ ~e.echo /\ Rings(e, kind, seen)
  <2> DEFINE source == IF kind = "settled" THEN e.command.key ELSE kind
  <2>1. source \in Sources /\ (source = "exit" => kind = "exit")
    BY <1>3 DEF Rings, Sources, Completions
  <2>2. f = HoldOrDeliver(e, source, g)
    BY <1>3 DEF Dispatch
  <2> HIDE DEF source, f
  <2>3. Sound(f)
    BY <2>1, <2>2, HoldOrDeliverSound
  <2>4. /\ SameRun(e, f)
        /\ \/ f = e
           \/ g /\ f.ring = e.ring /\ f.held = AddSource(e.held, source) /\ f.todo
           \/ ~g /\ f.held = e.held /\ f.ring = AddSource(e.ring, source) /\ f.todo = e.todo
    BY <1>0, <2>1, <2>2, HoldOrDeliverFields
  <2>5. \A w \in Waiter : e.wait[w] # "none" => kind # "exit" /\ Until[w] # "quiet"
    BY <1>3 DEF Claimants
  <2>6. "exit" \in Listed(f) /\ source # "exit" => "exit" \in Listed(e)
    BY <1>0, <2>1, <2>4, AddSourceAdds DEF Listed, Entry
  <2>7. Shields(e, f)
    BY <2>1, <2>4, <2>5, <2>6 DEF Shields, SameRun
  <2> QED
    BY <1>3, <2>3, <2>4, <2>7 DEF Calm, SameRun, f
<1> QED
  BY <1>1, <1>2, <1>3 DEF Dispatch

\* The end of a run: no progress, nothing shown.
LEMMA EndRunCalm ==
    ASSUME NEW e, Sound(e), NEW g \in BOOLEAN
    PROVE  LET f == EndRun(e)
           IN  /\ Calm(e, f, g)
               /\ f.progress = "none" /\ f.det = Det!Nothing
               /\ f.here = e.here /\ f.command = e.command /\ f.todo = e.todo
               /\ f.ring = e.ring /\ f.held = e.held /\ f.wait = e.wait
<1> DEFINE f == EndRun(e)
<1>1. f = [e EXCEPT !.progress = "none", !.det = Det!Nothing]
  BY DEF EndRun
<1>2. e \in Entry
  BY DEF Sound
<1> HIDE DEF f
<1>3. /\ f \in Entry /\ f.progress = "none" /\ f.det = Det!Nothing
      /\ f.here = e.here /\ f.command = e.command /\ f.todo = e.todo
      /\ f.ring = e.ring /\ f.held = e.held /\ f.wait = e.wait
      /\ f.ackedQuiet = e.ackedQuiet /\ f.leaveGrace = e.leaveGrace
  BY <1>1, <1>2 DEF Entry, Det!Status
<1>4. Sound(f)
  BY <1>3 DEF Sound
<1> QED
  BY <1>3, <1>4, CalmSame DEF f

\* settleProgressEnd.
LEMMA SettleProgressEndCalm ==
    ASSUME NEW e, Sound(e), NEW g \in BOOLEAN, rules \subseteq Key
    PROVE  LET f == SettleProgressEnd(e, g)
           IN  /\ Calm(e, f, g)
               /\ f.here = e.here /\ f.command = e.command
               /\ f.progress \in {e.progress, "none"}
               /\ e.todo => f.todo
               /\ e.progress = "none" => f = e
<1>1. CASE e.progress # "ending"
  BY <1>1, CalmSame DEF SettleProgressEnd
<1>2. CASE e.progress = "ending"
  <2> DEFINE d == EndRun(e)
             f == Dispatch(d, "report", FALSE, g)
  <2>1. SettleProgressEnd(e, g) = f
    BY <1>2 DEF SettleProgressEnd
  <2>2. Calm(e, d, g) /\ d.progress = "none" /\ d.here = e.here /\ d.command = e.command
        /\ d.todo = e.todo
    BY EndRunCalm
  <2>3. Sound(d)
    BY <2>2 DEF Calm
  <2> HIDE DEF d
  <2>4. Calm(d, f, g) /\ f.here = d.here /\ f.progress = d.progress /\ f.command = d.command
        /\ (d.todo => f.todo)
    BY <2>3, DispatchCalm DEF Completions
  <2> HIDE DEF f
  <2>5. Calm(e, f, g)
    BY <2>2, <2>4, CalmTransitive
  <2> QED
    BY <1>2, <2>1, <2>2, <2>4, <2>5
<1> QED BY <1>1, <1>2

\* endRunAtBoundary.
LEMMA EndRunAtBoundaryCalm ==
    ASSUME NEW e, Sound(e), NEW g \in BOOLEAN, rules \subseteq Key
    PROVE  LET f == EndRunAtBoundary(e, g)
           IN  /\ Calm(e, f, g)
               /\ f.here = e.here /\ f.command = e.command
               /\ f.progress = "none" /\ f.det = Det!Nothing
               /\ e.todo => f.todo
               /\ e.progress = "none" => f = EndRun(e)
<1> DEFINE d == SettleProgressEnd(e, g)
           f == EndRun(d)
<1>1. EndRunAtBoundary(e, g) = f
  BY DEF EndRunAtBoundary
<1>2. /\ Calm(e, d, g) /\ d.here = e.here /\ d.command = e.command
      /\ e.todo => d.todo
      /\ e.progress = "none" => d = e
  BY SettleProgressEndCalm
<1>3. Sound(d)
  BY <1>2 DEF Calm
<1> HIDE DEF d
<1>4. Calm(d, f, g) /\ f.progress = "none" /\ f.det = Det!Nothing /\ f.here = d.here
      /\ f.command = d.command /\ f.todo = d.todo
  BY <1>3, EndRunCalm
<1>5. e.progress = "none" => f = EndRun(e)
  BY <1>2
<1> HIDE DEF f
<1>6. Calm(e, f, g)
  BY <1>2, <1>4, CalmTransitive
<1> QED
  BY <1>1, <1>2, <1>4, <1>5, <1>6

\* No command runs any more.
LEMMA NoCommandCalm ==
    ASSUME NEW e, Sound(e), NEW g \in BOOLEAN
    PROVE  LET f == [e EXCEPT !.command = NoCommand]
           IN  /\ Calm(e, f, g)
               /\ f.progress = e.progress /\ f.det = e.det
               /\ f.here = e.here /\ f.command = NoCommand /\ f.todo = e.todo
               /\ f.ring = e.ring /\ f.held = e.held /\ f.wait = e.wait
<1> DEFINE f == [e EXCEPT !.command = NoCommand]
<1>1. e \in Entry
  BY DEF Sound
<1>2. /\ f \in Entry /\ f.progress = e.progress /\ f.det = e.det
      /\ f.here = e.here /\ f.command = NoCommand /\ f.todo = e.todo
      /\ f.ring = e.ring /\ f.held = e.held /\ f.wait = e.wait
      /\ f.ackedQuiet = e.ackedQuiet /\ f.leaveGrace = e.leaveGrace
  BY <1>1 DEF Entry
<1>3. ~f.command.runs
  BY <1>2 DEF NoCommand
<1> HIDE DEF f
<1>4. Sound(f)
  BY <1>2, <1>3 DEF Sound
<1> QED
  BY <1>2, <1>4, CalmSame DEF f

\* finishCommand.
LEMMA FinishCommandCalm ==
    ASSUME NEW e, Sound(e), NEW g \in BOOLEAN, rules \subseteq Key
    PROVE  LET f == FinishCommand(e, g)
           IN  /\ Calm(e, f, g)
               /\ f.here = e.here /\ f.progress = "none"
               /\ e.todo => f.todo
               /\ Bare(e) => Bare(f)
<1> DEFINE d == EndRunAtBoundary(e, g)
           c == [d EXCEPT !.command = NoCommand]
           f == FinishCommand(e, g)
<1>1. /\ Calm(e, d, g) /\ d.here = e.here /\ d.progress = "none" /\ d.det = Det!Nothing
      /\ e.todo => d.todo
      /\ e.progress = "none" => d = EndRun(e)
  BY EndRunAtBoundaryCalm
<1>2. Sound(d)
  BY <1>1 DEF Calm
<1> HIDE DEF d
<1>3. /\ Calm(d, c, g) /\ c.progress = d.progress /\ c.det = d.det /\ c.here = d.here
      /\ c.command = NoCommand /\ c.todo = d.todo
      /\ c.ring = d.ring /\ c.held = d.held /\ c.wait = d.wait
  BY <1>2, NoCommandCalm
<1>4. Sound(c) /\ ~c.command.runs
  BY <1>3 DEF Calm, NoCommand
<1>5. f = IF e.command.runs THEN Dispatch(c, "exit", e.command.seen, g) ELSE c
  BY DEF FinishCommand, d
<1> HIDE DEF c, f
<1>6. Calm(e, c, g)
  BY <1>1, <1>3, CalmTransitive
<1>7. CASE e.command.runs
  <2>1. e.command.seen \in BOOLEAN
    <3>1. \/ e.command = NoCommand
          \/ e.command \in [runs : {TRUE}, key : Key \cup {NoKey}, seen : BOOLEAN]
      BY DEF Sound, Entry
    <3>2. NoCommand.seen \in BOOLEAN
      BY DEF NoCommand
    <3> QED BY <3>1, <3>2
  <2>2. Calm(c, f, g) /\ f.here = c.here /\ f.progress = c.progress /\ (c.todo => f.todo)
    BY <1>4, <1>5, <1>7, <2>1, DispatchCalm DEF Completions
  <2>3. Calm(e, f, g)
    BY <1>6, <2>2, CalmTransitive
  <2> QED
    BY <1>1, <1>3, <1>7, <2>2, <2>3 DEF Bare, f
<1>8. CASE ~e.command.runs
  <2>1. ASSUME Bare(e) PROVE Bare(c)
    <3>1. d = EndRun(e)
      BY <1>1, <2>1 DEF Bare
    <3>2. d.ring = e.ring /\ d.held = e.held /\ d.wait = e.wait
      BY <3>1, EndRunCalm
    <3> QED
      BY <1>1, <1>3, <1>4, <2>1, <3>2 DEF Bare
  <2> QED
    BY <1>1, <1>3, <1>5, <1>6, <1>8, <2>1 DEF f
<1> QED BY <1>7, <1>8

\* The entry is made, if it was not there.
LEMMA HereCalm ==
    ASSUME NEW e, Sound(e), NEW g \in BOOLEAN
    PROVE  LET f == Here(e)
           IN  /\ Calm(e, f, g) /\ f.here
               /\ f.progress = e.progress /\ f.det = e.det
               /\ f.command = e.command /\ f.todo = e.todo
               /\ f.ring = e.ring /\ f.held = e.held /\ f.wait = e.wait
<1> DEFINE f == Here(e)
<1>1. f = [e EXCEPT !.here = TRUE]
  BY DEF Here
<1>2. e \in Entry
  BY DEF Sound
<1> HIDE DEF f
<1>3. /\ f \in Entry /\ f.here /\ f.progress = e.progress /\ f.det = e.det
      /\ f.command = e.command /\ f.todo = e.todo
      /\ f.ring = e.ring /\ f.held = e.held /\ f.wait = e.wait
      /\ f.ackedQuiet = e.ackedQuiet /\ f.leaveGrace = e.leaveGrace
  BY <1>1, <1>2 DEF Entry
<1>4. Sound(f)
  BY <1>3 DEF Sound
<1> QED
  BY <1>3, <1>4, CalmSame DEF f

\* A look is remembered for the command that runs.
LEMMA MarkSeenCalm ==
    ASSUME NEW e, Sound(e), NEW g \in BOOLEAN
    PROVE  LET f == MarkSeen(e)
           IN  /\ Calm(e, f, g)
               /\ f.here = e.here /\ f.progress = e.progress /\ f.det = e.det
               /\ f.command.runs = e.command.runs /\ f.todo = e.todo
               /\ f.ring = e.ring /\ f.held = e.held /\ f.wait = e.wait
<1> DEFINE c == [e.command EXCEPT !.seen = e.command.runs]
           f == MarkSeen(e)
<1>1. e \in Entry
  BY DEF Sound
<1>2. f = [e EXCEPT !.command = c]
  BY <1>1 DEF MarkSeen, Entry
<1>3. c \in {NoCommand} \cup [runs : {TRUE}, key : Key \cup {NoKey}, seen : BOOLEAN]
      /\ c.runs = e.command.runs
  <2> DEFINE d == e.command
  <2> HIDE DEF d
  <2>1. c = [d EXCEPT !.seen = d.runs]
    BY DEF d
  <2> HIDE DEF c
  <2>2. CASE d = NoCommand
    <3>1. NoCommand \in [runs : BOOLEAN, key : Key \cup {NoKey}, seen : BOOLEAN]
          /\ NoCommand.runs = FALSE /\ NoCommand.key = NoKey
      BY DEF NoCommand
    <3>2. c = [NoCommand EXCEPT !.seen = FALSE]
      BY <2>1, <2>2, <3>1
    <3>3. c \in [runs : BOOLEAN, key : Key \cup {NoKey}, seen : BOOLEAN]
          /\ c.runs = FALSE /\ c.key = NoKey /\ c.seen = FALSE
      BY <3>1, <3>2
    <3>4. c = NoCommand
      BY <3>3 DEF NoCommand
    <3> QED BY <2>2, <3>4 DEF d
  <2>3. CASE d \in [runs : {TRUE}, key : Key \cup {NoKey}, seen : BOOLEAN]
    <3>1. d.runs = TRUE
      BY <2>3
    <3>2. c = [d EXCEPT !.seen = TRUE]
      BY <2>1, <3>1
    <3>3. c \in [runs : {TRUE}, key : Key \cup {NoKey}, seen : BOOLEAN]
      BY <2>3, <3>2
    <3>4. c.runs = TRUE
      BY <3>3
    <3> QED BY <3>1, <3>3, <3>4 DEF d
  <2> QED BY <1>1, <2>2, <2>3 DEF Entry, d
<1> HIDE DEF c, f
<1>4. /\ f \in Entry /\ f.here = e.here /\ f.progress = e.progress /\ f.det = e.det
      /\ f.command = c /\ f.todo = e.todo
      /\ f.ring = e.ring /\ f.held = e.held /\ f.wait = e.wait
      /\ f.ackedQuiet = e.ackedQuiet /\ f.leaveGrace = e.leaveGrace
  BY <1>1, <1>2, <1>3 DEF Entry
<1>5. Sound(f)
  BY <1>3, <1>4 DEF Sound
<1> QED
  BY <1>3, <1>4, <1>5, CalmSame DEF f

\* Awaits that are gone.
LEMMA DieCalm ==
    ASSUME NEW e, Sound(e), NEW g \in BOOLEAN
    PROVE  LET f == Die(e)
           IN  /\ Calm(e, f, g)
               /\ f.here = e.here /\ f.progress = e.progress /\ f.det = e.det
               /\ f.command = e.command /\ f.todo = e.todo
               /\ f.ring = e.ring /\ f.held = e.held
               /\ \A w \in Waiter : f.wait[w] = "none"
<1> DEFINE waits == [w \in Waiter |-> "none"]
           f == Die(e)
<1>1. f = [e EXCEPT !.wait = waits]
  BY DEF Die
<1>2. waits \in [Waiter -> {"none", "grace", "parked"}] /\ \A w \in Waiter : waits[w] = "none"
  OBVIOUS
<1>3. e \in Entry
  BY DEF Sound
<1> HIDE DEF f, waits
<1>4. /\ f \in Entry /\ f.here = e.here /\ f.progress = e.progress /\ f.det = e.det
      /\ f.command = e.command /\ f.todo = e.todo
      /\ f.ring = e.ring /\ f.held = e.held /\ f.wait = waits
      /\ f.ackedQuiet = e.ackedQuiet /\ f.leaveGrace = e.leaveGrace
  BY <1>1, <1>2, <1>3 DEF Entry
<1>5. Sound(f)
  BY <1>2, <1>4 DEF Sound
<1> QED
  BY <1>2, <1>4, <1>5, CalmSame DEF f

\* escalateHeld, to a Session nobody looks at: each held source rings, or is
\* acknowledged already.
LEMMA EscalateHeldFields ==
    ASSUME NEW e, Sound(e)
    PROVE  LET f == EscalateHeld(e, FALSE)
           IN  /\ Sound(f) /\ SameRun(e, f) /\ Empty(f.held) /\ f.todo = e.todo
               /\ Listed(f) \subseteq Listed(e) /\ Watched(f) \subseteq Watched(e)
               /\ Empty(e.held) => f.ring = e.ring
<1> DEFINE bare == [e EXCEPT !.held = NoSources]
           rung == HoldOrDeliver(bare, e.held.key, FALSE)
           watched == IF e.held.key = NoKey THEN bare
                      ELSE [rung EXCEPT !.ring.workSince = e.held.workSince]
           left == IF "exit" \in e.held.listed THEN HoldOrDeliver(watched, "exit", FALSE)
                   ELSE watched
           f == IF "report" \in e.held.listed THEN HoldOrDeliver(left, "report", FALSE)
                ELSE left
           Goes(d) == /\ Sound(d) /\ SameRun(e, d) /\ d.held = NoSources /\ d.todo = e.todo
                      /\ d.ring.listed \subseteq Listed(e)
                      /\ d.ring.key \in Watched(e) \cup {NoKey}
                      /\ Empty(e.held) => d.ring = e.ring
<1>1. EscalateHeld(e, FALSE) = f
  BY DEF EscalateHeld
<1>2. e \in Entry /\ e.ring \in Source /\ e.held \in Source
  BY DEF Sound, Entry
<1>3. Goes(bare)
  <2>1. /\ bare \in Entry /\ SameRun(e, bare) /\ bare.held = NoSources /\ bare.todo = e.todo
        /\ bare.ring = e.ring /\ bare.ackedQuiet = e.ackedQuiet
    BY <1>2, NoSourcesType DEF Entry, SameRun
  <2> HIDE DEF bare
  <2>2. Sound(bare)
    BY <2>1, NoSourcesType DEF Sound, SameRun
  <2> QED
    BY <1>2, <2>1, <2>2 DEF Listed, Watched, Source
<1> HIDE DEF bare
<1>4. ASSUME NEW d, Goes(d), NEW source \in Sources,
             source \in e.held.listed \/ (source = e.held.key /\ source # NoKey)
      PROVE  Goes(HoldOrDeliver(d, source, FALSE))
  <2> DEFINE h == HoldOrDeliver(d, source, FALSE)
  <2>1. d \in Entry /\ d.ring \in Source
    BY <1>4 DEF Sound, Entry
  <2>2. Sound(h)
    BY <1>4, HoldOrDeliverSound
  <2>3. /\ SameRun(d, h)
        /\ h = d \/ (h.held = d.held /\ h.ring = AddSource(d.ring, source) /\ h.todo = d.todo)
    BY ZenonT(60), <1>4, <2>1, HoldOrDeliverFields
  <2>4. ~Empty(e.held)
    BY <1>4 DEF Empty
  <2>5. source \in Key => source \in Watched(e)
    BY <1>2, <1>4 DEF Watched, Source
  <2>6. source \notin Key => source \in Listed(e)
    BY <1>2, <1>4 DEF Listed, Source
  <2> HIDE DEF h
  <2>7. /\ h.ring.listed \subseteq d.ring.listed \cup Listed(e)
        /\ h.ring.key \in {d.ring.key} \cup Watched(e)
    BY <1>4, <2>1, <2>3, <2>5, <2>6, AddSourceAdds
  <2> QED
    BY <1>4, <2>2, <2>3, <2>4, <2>7 DEF SameRun, h
<1>5. Goes(watched)
  <2>1. CASE e.held.key = NoKey
    BY <1>3, <2>1
  <2>2. CASE e.held.key # NoKey
    <3>1. e.held.key \in Sources
      BY <1>2, <2>2 DEF Sources, Source
    <3>2. Goes(rung)
      BY <1>3, <1>4, <2>2, <3>1
    <3> DEFINE r == [rung.ring EXCEPT !.workSince = e.held.workSince]
               h == [rung EXCEPT !.ring = r]
    <3>3. rung \in Entry /\ rung.ring \in Source
      BY <3>2 DEF Sound, Entry
    <3> HIDE DEF rung
    <3>4. watched = h
      BY <2>2, <3>3 DEF Entry
    <3>5. r \in Source /\ r.listed = rung.ring.listed /\ r.key = rung.ring.key
      BY <1>2, <3>3 DEF Source
    <3> HIDE DEF r
    <3>6. /\ h \in Entry /\ SameRun(rung, h) /\ h.ring = r /\ h.held = rung.held
          /\ h.todo = rung.todo /\ h.ackedQuiet = rung.ackedQuiet
      BY <3>3, <3>5 DEF Entry, SameRun
    <3> HIDE DEF h
    <3>7. Sound(h)
      BY <3>2, <3>5, <3>6 DEF Sound, SameRun, Empty
    <3>8. ~Empty(e.held)
      BY <2>2 DEF Empty
    <3> QED
      BY <3>2, <3>4, <3>5, <3>6, <3>7, <3>8 DEF SameRun
  <2> QED BY <2>1, <2>2
<1> HIDE DEF watched, rung
<1>6. Goes(left)
  BY <1>4, <1>5 DEF Sources
<1> HIDE DEF left
<1>7. Goes(f)
  BY <1>4, <1>6 DEF Sources
<1> HIDE DEF f
<1>8. Watched(f) \subseteq Watched(e) /\ Listed(f) \subseteq Listed(e)
  BY <1>7 DEF Watched, Listed, NoSources
<1> QED
  BY <1>1, <1>7, <1>8, NoSourcesType

\* acknowledge.
LEMMA AcknowledgeCalm ==
    ASSUME NEW e, Sound(e), NEW input \in BOOLEAN, rules \subseteq Key, Engaged \in BOOLEAN
    PROVE  LET f == Acknowledge(e, input)
           IN  /\ Calm(e, f, Engaged)
               /\ f.here = e.here
               /\ ~e.here => f = e
               /\ f.todo = e.todo \/ (Empty(f.ring) /\ Empty(f.held))
               /\ Bare(e) => Bare(f)
<1> DEFINE heard == [e EXCEPT !.echo = @ \/ input]
           seen == MarkSeen(heard)
           settled == SettleProgressEnd(seen, Engaged)
           f == Acknowledge(e, input)
<1>1. CASE ~e.here
  BY <1>1, CalmSame DEF Acknowledge
<1>2. CASE e.here
  <2>0. e \in Entry
    BY DEF Sound
  <2> DEFINE x == e.echo \/ input
  <2>x. x \in BOOLEAN
    OBVIOUS
  <2>y. heard = [e EXCEPT !.echo = x]
    BY <2>0 DEF Entry
  <2> HIDE DEF x, heard
  <2>1. /\ heard \in Entry /\ heard.here = e.here /\ heard.progress = e.progress
        /\ heard.det = e.det /\ heard.command = e.command /\ heard.todo = e.todo
        /\ heard.ring = e.ring /\ heard.held = e.held /\ heard.wait = e.wait
        /\ heard.ackedQuiet = e.ackedQuiet /\ heard.leaveGrace = e.leaveGrace
    BY <2>0, <2>x, <2>y DEF Entry
  <2>2. Sound(heard)
    BY <2>1 DEF Sound
  <2>3. Calm(e, heard, Engaged)
    BY <2>1, <2>2, CalmSame
  <2>4. /\ Calm(heard, seen, Engaged)
        /\ seen.here = heard.here /\ seen.progress = heard.progress /\ seen.det = heard.det
        /\ seen.command.runs = heard.command.runs /\ seen.todo = heard.todo
        /\ seen.ring = heard.ring /\ seen.held = heard.held /\ seen.wait = heard.wait
    BY <2>2, MarkSeenCalm
  <2>5. Sound(seen) /\ Calm(e, seen, Engaged)
    BY <2>3, <2>4, CalmTransitive DEF Calm
  <2>6. ASSUME Bare(e) PROVE Bare(seen)
    BY <2>1, <2>4, <2>6 DEF Bare
  <2> HIDE DEF seen
  <2>7. CASE helper
    BY <1>2, <2>1, <2>3, <2>7 DEF Acknowledge, Bare, heard
  <2>8. CASE ~helper /\ input
    <3>1. /\ Calm(seen, settled, Engaged) /\ settled.here = seen.here
          /\ seen.progress = "none" => settled = seen
      BY <2>5, SettleProgressEndCalm
    <3>2. Sound(settled) /\ Calm(e, settled, Engaged)
      BY <2>5, <3>1, CalmTransitive DEF Calm
    <3>3. f = SetTodo(settled, FALSE)
      BY <1>2, <2>8 DEF Acknowledge, seen, heard
    <3> HIDE DEF settled, f
    <3>4. /\ Calm(settled, f, Engaged) /\ Empty(f.ring) /\ Empty(f.held)
          /\ f.here = settled.here /\ f.progress = settled.progress
          /\ f.det \in {settled.det, Det!Nothing}
          /\ f.command = settled.command /\ f.wait = settled.wait
      BY <3>2, <3>3, SetTodoCalm
    <3>5. Calm(e, f, Engaged)
      BY <3>2, <3>4, CalmTransitive
    <3> QED
      BY <1>2, <2>1, <2>4, <2>6, <3>1, <3>4, <3>5 DEF Bare, f
  <2>9. CASE ~helper /\ ~input
    <3>1. f = RingToTodo(seen)
      BY <1>2, <2>9 DEF Acknowledge, seen, heard
    <3> HIDE DEF f
    <3>2. /\ Calm(seen, f, Engaged) /\ Empty(f.ring) /\ Empty(f.held)
          /\ f.here = seen.here /\ f.progress = seen.progress
          /\ f.det \in {seen.det, Det!Nothing}
          /\ f.command = seen.command /\ f.wait = seen.wait
      BY <2>5, <3>1, RingToTodoCalm
    <3>3. Calm(e, f, Engaged)
      BY <2>5, <3>2, CalmTransitive
    <3> QED
      BY <1>2, <2>1, <2>4, <2>6, <3>2, <3>3 DEF Bare, f
  <2> QED BY <2>7, <2>8, <2>9
<1> QED BY <1>1, <1>2

-----------------------------------------------------------------------------
(* Steps. Most are a calm call for the Session, of the engagement it has. *)

Others == viewers' = viewers /\ helper' = helper

\* A calm call keeps the invariant and the action properties.
LEMMA CallKeeps ==
    ASSUME IInv, Others, rules' \subseteq Key, removed' \in BOOLEAN,
           Calm(s, s', Engaged), Absent(s'), removed' => Bare(s'),
           s.todo /\ ~s'.todo => Empty(s'.ring) /\ Empty(s'.held)
    PROVE  IInv' /\ Kept
<1>1. Sound(s') /\ s' \in Entry
  BY DEF Calm, Sound
<1>2. TypeOK'
  BY <1>1 DEF IInv, TypeOK, Others
<1>3. Engaged' = Engaged /\ EngagedBy(viewers') = Engaged
  BY DEF Others, Engaged
<1>4. Decidable'
  <2> SUFFICES ASSUME ~Demotes PROVE HeldIsUndecided' /\ (helper' => Empty(s'.held))
    BY DEF Decidable
  <2>1. HeldIsUndecided /\ (helper => Empty(s.held))
    BY DEF IInv, Decidable
  <2>2. helper' => Empty(s'.held)
    BY <2>1 DEF Calm, Others
  <2>3. HeldIsUndecided'
    BY <1>3, <2>1 DEF Calm, HeldIsUndecided
  <2> QED BY <2>2, <2>3
<1>5. IInv'
  BY <1>1, <1>2, <1>4 DEF IInv, Sound, Absent, Bare
<1>6. Joined = Listed(s') \ Listed(s)
  BY DEF Joined, Listed
<1>7. Kept
  BY <1>3, <1>6 DEF Kept, Calm, Shields
<1> QED BY <1>5, <1>7

\* What the invariant says of the entry a call starts from.
LEMMA Starts ==
    ASSUME IInv
    PROVE  /\ Sound(s) /\ s \in Entry /\ Absent(s) /\ (removed => Bare(s))
           /\ rules \subseteq Key /\ removed \in BOOLEAN /\ Engaged \in BOOLEAN
  BY DEF IInv, TypeOK, Sound, Engaged, EngagedBy

\* onData.
LEMMA OnDataKeeps ==
    ASSUME IInv, OnData
    PROVE  IInv' /\ Kept
<1> DEFINE h == Here(s)
<1>0. /\ Sound(s) /\ rules \subseteq Key /\ Engaged \in BOOLEAN
  BY Starts
<1>1. ~removed' /\ removed' \in BOOLEAN /\ Others /\ rules' = rules
  BY Starts DEF OnData, Others, others
<1>2. /\ Calm(s, h, Engaged) /\ h.here /\ h.progress = s.progress /\ h.todo = s.todo
      /\ h.ring = s.ring /\ h.held = s.held /\ h.wait = s.wait /\ h.command = s.command
  BY <1>0, HereCalm
<1>3. Sound(h) /\ h \in Entry
  BY <1>2 DEF Calm, Sound
<1>4. Calm(s, s', Engaged) /\ s'.here /\ s'.todo = s.todo
  <2>1. CASE s.echo
    BY <1>2, <2>1 DEF OnData
  <2>2. CASE ~s.echo
    <3>1. PICK out \in Det!OnOutput(s.det) :
             s' = LET e == [h EXCEPT !.det = out[1]]
                  IN  IF out[2] = "work" THEN NoteWork(e) ELSE e
      BY <2>2 DEF OnData
    <3>2. out[1] \in Det!Status
      <4>1. s.det \in Det!Status
        BY <1>0 DEF Sound, Entry
      <4> QED BY <3>1, <4>1 DEF Det!OnOutput, Det!Status
    <3> DEFINE d == out[1]
               e == [h EXCEPT !.det = d]
    <3> HIDE DEF d, h
    <3>3. /\ e \in Entry /\ e.here = h.here /\ e.todo = h.todo /\ e.ring = h.ring
          /\ e.held = h.held /\ e.wait = h.wait /\ e.command = h.command
          /\ e.ackedQuiet = h.ackedQuiet /\ e.leaveGrace = h.leaveGrace
      BY <1>3, <3>2 DEF Entry, d
    <3>4. s' = e \/ s' = NoteWork(e)
      BY <3>1 DEF d
    <3> HIDE DEF e
    <3>5. Sound(e)
      BY <1>3, <3>3 DEF Sound
    <3>6. Calm(s, e, Engaged)
      <4>1. Calm(h, e, Engaged)
        BY <1>0, <3>3, <3>5, CalmSame
      <4> QED BY <1>0, <1>2, <4>1, CalmTransitive
    <3>7. Calm(e, NoteWork(e), Engaged)
      BY <1>0, <3>5, NoteWorkCalm
    <3>8. Calm(s, NoteWork(e), Engaged)
      BY <1>0, <3>6, <3>7, CalmTransitive
    <3>9. NoteWork(e).here = e.here /\ NoteWork(e).todo = e.todo
      BY <3>3, NoteWorkFields
    <3> QED
      BY <1>2, <3>3, <3>4, <3>6, <3>8, <3>9
  <2> QED BY <2>1, <2>2
<1>5. Absent(s')
  BY <1>4 DEF Absent
<1> QED
  BY <1>0, <1>1, <1>4, <1>5, CallKeeps

\* The detector's timers.
LEMMA DetectorTimerKeeps ==
    ASSUME IInv, DetectorTimer
    PROVE  IInv' /\ Kept
<1>0. /\ Sound(s) /\ s \in Entry /\ (removed => Bare(s))
      /\ rules \subseteq Key /\ Engaged \in BOOLEAN /\ removed \in BOOLEAN
  BY Starts
<1>1. s.here /\ removed' = removed /\ Others /\ rules' = rules
  BY DEF DetectorTimer, Others, others
<1>2. PICK out \in Det!OnTimer(s.det) :
         s' = LET e == [s EXCEPT !.det = out[1]]
                  d == Dispatch(e, "settled", FALSE, Engaged)
              IN  IF out[2] # "settled" \/ s.progress # "none" THEN e
                  ELSE IF Claimed(e, "settled") THEN Invalidate(d, Key)
                  ELSE d
  BY DEF DetectorTimer
<1>3. /\ out[1] \in Det!Status
      /\ s.det \in {Det!Nothing, Det!Maybe} =>
            out[2] = "none" /\ out[1] \in {Det!Nothing, Det!Maybe}
  <2>1. s.det \in Det!Status
    BY <1>0 DEF Entry
  <2> QED BY <1>2, <2>1 DEF Det!OnTimer, Det!Status
<1> DEFINE t == out[1]
           e == [s EXCEPT !.det = t]
           d == Dispatch(e, "settled", FALSE, Engaged)
           v == Invalidate(d, Key)
<1>4. s' = e \/ (out[2] = "settled" /\ (s' = d \/ s' = v))
  BY <1>2
<1> HIDE DEF t
<1>5. /\ e \in Entry /\ e.here = s.here /\ e.todo = s.todo /\ e.ring = s.ring
      /\ e.held = s.held /\ e.wait = s.wait /\ e.command = s.command /\ e.det = t
      /\ e.ackedQuiet = s.ackedQuiet /\ e.leaveGrace = s.leaveGrace /\ e.progress = s.progress
  BY <1>0, <1>3 DEF Entry, t
<1> HIDE DEF e
<1>6. Sound(e) /\ Calm(s, e, Engaged)
  <2>1. Sound(e)
    BY <1>0, <1>5 DEF Sound
  <2> QED BY <1>0, <1>5, <2>1, CalmSame
<1>7. Sound(d) /\ Calm(s, d, Engaged) /\ d.here = e.here /\ (e.todo => d.todo)
  <2>1. Calm(e, d, Engaged) /\ d.here = e.here /\ (e.todo => d.todo)
    BY ZenonT(60), <1>0, <1>6, DispatchCalm DEF Completions
  <2> QED BY ZenonT(60), <1>0, <1>6, <2>1, CalmTransitive DEF Calm
<1> HIDE DEF d
<1>8. Calm(s, v, Engaged) /\ v.here = d.here /\ v.todo = d.todo
  <2>1. Calm(d, v, Engaged) /\ v.here = d.here /\ v.todo = d.todo
    BY <1>0, <1>7, InvalidateCalm
  <2> QED BY <1>0, <1>7, <2>1, CalmTransitive
<1> HIDE DEF v
<1>9. ASSUME removed PROVE Bare(s')
  BY <1>0, <1>3, <1>4, <1>5, <1>9 DEF Bare, t
<1>10. Calm(s, s', Engaged) /\ s'.here /\ (s.todo => s'.todo)
  BY <1>1, <1>4, <1>5, <1>6, <1>7, <1>8
<1>11. Absent(s')
  BY <1>10 DEF Absent
<1> QED
  BY <1>0, <1>1, <1>9, <1>10, <1>11, CallKeeps

\* onExit.
LEMMA OnExitKeeps ==
    ASSUME IInv, OnExit
    PROVE  IInv' /\ Kept
<1>0. /\ Sound(s) /\ Absent(s) /\ (removed => Bare(s))
      /\ rules \subseteq Key /\ Engaged \in BOOLEAN /\ removed \in BOOLEAN
  BY Starts
<1>1. removed' = removed /\ Others /\ rules' = rules
  BY DEF OnExit, Others, others
<1> DEFINE e == IF s.here THEN FinishCommand(s, Engaged) ELSE s
<1>2. s' = Die(e)
  BY DEF OnExit
<1>3. /\ Calm(s, e, Engaged) /\ Absent(e) /\ (s.todo => e.todo)
      /\ Bare(s) => Bare(e)
  <2>1. CASE s.here
    BY <1>0, <2>1, FinishCommandCalm DEF Absent
  <2>2. CASE ~s.here
    BY <1>0, <2>2, CalmSame
  <2> QED BY <2>1, <2>2
<1> HIDE DEF e
<1>4. Sound(e)
  BY <1>3 DEF Calm
<1>5. /\ Calm(e, s', Engaged)
      /\ s'.here = e.here /\ s'.progress = e.progress /\ s'.det = e.det
      /\ s'.command = e.command /\ s'.todo = e.todo
      /\ s'.ring = e.ring /\ s'.held = e.held
      /\ \A w \in Waiter : s'.wait[w] = "none"
  BY <1>0, <1>2, <1>4, DieCalm
<1>6. Calm(s, s', Engaged)
  BY <1>0, <1>3, <1>5, CalmTransitive
<1>7. Absent(s')
  BY <1>3, <1>5 DEF Absent
<1>8. removed' => Bare(s')
  BY <1>0, <1>1, <1>3, <1>5 DEF Bare
<1> QED
  BY <1>0, <1>1, <1>3, <1>5, <1>6, <1>7, <1>8, CallKeeps

\* onWrite.
LEMMA OnWriteKeeps ==
    ASSUME IInv, NEW userInput \in BOOLEAN, NEW startsWork \in BOOLEAN,
           OnWrite(userInput, startsWork)
    PROVE  IInv' /\ Kept
<1>0. /\ Sound(s) /\ Absent(s) /\ (removed => Bare(s))
      /\ rules \subseteq Key /\ Engaged \in BOOLEAN /\ removed \in BOOLEAN
  BY Starts
<1> DEFINE e == IF userInput THEN Acknowledge(s, TRUE) ELSE s
           h == Here(e)
<1>1. /\ removed' = removed /\ Others /\ rules' = rules
      /\ s' = IF removed \/ ~startsWork THEN e ELSE h
  BY DEF OnWrite, Others, others
<1>2. /\ Calm(s, e, Engaged) /\ Absent(e)
      /\ s.todo /\ ~e.todo => Empty(e.ring) /\ Empty(e.held)
      /\ Bare(s) => Bare(e)
  <2>1. CASE userInput
    <3>1. /\ Calm(s, e, Engaged) /\ (Bare(s) => Bare(e))
          /\ e.todo = s.todo \/ (Empty(e.ring) /\ Empty(e.held))
          /\ e.here = s.here /\ (~s.here => e = s)
      BY <1>0, <2>1, AcknowledgeCalm
    <3> QED BY <1>0, <3>1 DEF Absent
  <2>2. CASE ~userInput
    BY <1>0, <2>2, CalmSame
  <2> QED BY <2>1, <2>2
<1> HIDE DEF e
<1>3. Sound(e)
  BY <1>2 DEF Calm
<1>4. Calm(e, h, Engaged) /\ h.here /\ h.todo = e.todo /\ h.ring = e.ring /\ h.held = e.held
  BY <1>0, <1>3, HereCalm
<1>5. Calm(s, h, Engaged)
  BY <1>0, <1>2, <1>4, CalmTransitive
<1> HIDE DEF h
<1>6. Calm(s, s', Engaged) /\ (s.todo /\ ~s'.todo => Empty(s'.ring) /\ Empty(s'.held))
  BY <1>1, <1>2, <1>4, <1>5
<1>7. Absent(s')
  BY <1>1, <1>2, <1>4 DEF Absent
<1>8. removed' => Bare(s')
  BY <1>0, <1>1, <1>2
<1> QED
  BY <1>0, <1>1, <1>6, <1>7, <1>8, CallKeeps

\* The echo window's timer.
LEMMA EchoEndsKeeps ==
    ASSUME IInv, EchoEnds
    PROVE  IInv' /\ Kept
<1>0. /\ Sound(s) /\ s \in Entry /\ Absent(s) /\ (removed => Bare(s))
      /\ rules \subseteq Key /\ Engaged \in BOOLEAN /\ removed \in BOOLEAN
  BY Starts
<1>1. removed' = removed /\ Others /\ rules' = rules /\ s' = [s EXCEPT !.echo = FALSE]
  BY DEF EchoEnds, Others, others
<1>2. /\ s' \in Entry /\ s'.here = s.here /\ s'.todo = s.todo /\ s'.ring = s.ring
      /\ s'.held = s.held /\ s'.wait = s.wait /\ s'.command = s.command /\ s'.det = s.det
      /\ s'.ackedQuiet = s.ackedQuiet /\ s'.leaveGrace = s.leaveGrace
      /\ s'.progress = s.progress
  BY <1>0, <1>1 DEF Entry
<1>3. Sound(s')
  BY <1>0, <1>2 DEF Sound
<1>4. Calm(s, s', Engaged)
  BY <1>0, <1>2, <1>3, CalmSame
<1>5. Absent(s') /\ (removed' => Bare(s'))
  BY <1>0, <1>1, <1>2 DEF Absent, Bare
<1> QED
  BY <1>0, <1>1, <1>2, <1>4, <1>5, CallKeeps

\* A call for a Session that has its entry and no tombstone, and clears no TODO.
LEMMA LiveCallKeeps ==
    ASSUME IInv, Others, rules' = rules, removed' = FALSE,
           Calm(s, s', Engaged), s'.here, s.todo => s'.todo
    PROVE  IInv' /\ Kept
<1>1. Absent(s')
  BY DEF Absent
<1> QED
  BY <1>1, Starts, CallKeeps

\* notify: a report of the program.
LEMMA NotifyKeeps ==
    ASSUME IInv, Notify
    PROVE  IInv' /\ Kept
<1> DEFINE h == Here(s)
<1>0. Sound(s) /\ rules \subseteq Key /\ Engaged \in BOOLEAN
  BY Starts
<1>1. /\ removed' = FALSE /\ Others /\ rules' = rules
      /\ s' = Dispatch(h, "report", FALSE, Engaged)
  BY DEF Notify, Others, others
<1>2. Calm(s, h, Engaged) /\ h.here /\ h.todo = s.todo
  BY <1>0, HereCalm
<1>3. Sound(h)
  BY <1>2 DEF Calm
<1> HIDE DEF h
<1>4. Calm(h, s', Engaged) /\ s'.here = h.here /\ (h.todo => s'.todo)
  BY <1>0, <1>1, <1>3, DispatchCalm DEF Completions
<1>5. Calm(s, s', Engaged)
  BY <1>0, <1>2, <1>4, CalmTransitive
<1> QED
  BY <1>1, <1>2, <1>4, <1>5, LiveCallKeeps

\* onProgress.
LEMMA ProgressUpdateKeeps ==
    ASSUME IInv, NEW ends \in BOOLEAN, ProgressUpdate(ends)
    PROVE  IInv' /\ Kept
<1> DEFINE h == Here(s)
           n == IF ends THEN h ELSE NoteWork(h)
           p == IF ends THEN IF h.progress = "active" THEN "ending" ELSE h.progress ELSE "active"
<1>0. Sound(s) /\ rules \subseteq Key /\ Engaged \in BOOLEAN
  BY Starts
<1>1. removed' = FALSE /\ Others /\ rules' = rules
  BY DEF ProgressUpdate, Others, others
<1>2. Calm(s, h, Engaged) /\ h.here /\ h.todo = s.todo
  BY <1>0, HereCalm
<1>3. Sound(h) /\ h \in Entry
  BY <1>2 DEF Calm, Sound
<1>4. s' = [n EXCEPT !.progress = p]
  BY <1>3 DEF ProgressUpdate, Entry
<1>5. p \in {"none", "active", "ending"}
  BY <1>3 DEF Entry
<1> HIDE DEF h, p
<1>6. Calm(h, n, Engaged) /\ n.here = h.here /\ n.todo = h.todo
  <2>1. CASE ends
    BY <1>0, <1>3, <2>1, CalmSame
  <2>2. CASE ~ends
    <3>1. Calm(h, NoteWork(h), Engaged)
      BY <1>0, <1>3, NoteWorkCalm
    <3>2. NoteWork(h).here = h.here /\ NoteWork(h).todo = h.todo
      BY <1>3, NoteWorkFields
    <3> QED BY <2>2, <3>1, <3>2
  <2> QED BY <2>1, <2>2
<1>7. Sound(n) /\ n \in Entry
  BY <1>6 DEF Calm, Sound
<1> HIDE DEF n
<1>8. /\ s' \in Entry /\ s'.here = n.here /\ s'.todo = n.todo /\ s'.ring = n.ring
      /\ s'.held = n.held /\ s'.wait = n.wait /\ s'.command = n.command
      /\ s'.ackedQuiet = n.ackedQuiet /\ s'.leaveGrace = n.leaveGrace
  BY <1>4, <1>5, <1>7 DEF Entry
<1>9. Sound(s')
  BY <1>7, <1>8 DEF Sound
<1>10. Calm(n, s', Engaged)
  BY <1>0, <1>8, <1>9, CalmSame
<1>11. Calm(s, s', Engaged)
  BY <1>0, <1>2, <1>6, <1>10, CalmTransitive
<1> QED
  BY <1>1, <1>2, <1>6, <1>8, <1>11, LiveCallKeeps

\* The progress grace's timer.
LEMMA ProgressGraceEndsKeeps ==
    ASSUME IInv, ProgressGraceEnds
    PROVE  IInv' /\ Kept
<1>0. /\ Sound(s) /\ Absent(s) /\ (removed => Bare(s))
      /\ rules \subseteq Key /\ Engaged \in BOOLEAN /\ removed \in BOOLEAN
  BY Starts
<1>1. /\ s.progress = "ending" /\ removed' = removed /\ Others /\ rules' = rules
      /\ s' = SettleProgressEnd(s, Engaged)
  BY DEF ProgressGraceEnds, Others, others
<1>2. s.here /\ removed' = FALSE
  BY <1>0, <1>1 DEF Absent, Bare
<1>3. Calm(s, s', Engaged) /\ s'.here = s.here /\ (s.todo => s'.todo)
  BY <1>0, <1>1, SettleProgressEndCalm
<1> QED
  BY <1>1, <1>2, <1>3, LiveCallKeeps

\* onCommandStart.
LEMMA CommandStartKeeps ==
    ASSUME IInv, NEW key \in Key \cup {NoKey}, CommandStart(key)
    PROVE  IInv' /\ Kept
<1> DEFINE h == Here(s)
           e == EndRunAtBoundary(h, Engaged)
           c == [runs |-> TRUE, key |-> key, seen |-> Engaged]
           waits == OnCommandStart(e.wait)
<1>0. Sound(s) /\ rules \subseteq Key /\ Engaged \in BOOLEAN
  BY Starts
<1>1. removed' = FALSE /\ Others /\ rules' = rules
  BY DEF CommandStart, Others, others
<1>2. Calm(s, h, Engaged) /\ h.here /\ h.todo = s.todo
  BY <1>0, HereCalm
<1>3. Sound(h)
  BY <1>2 DEF Calm
<1>x. s' = [e EXCEPT !.ackedQuiet = FALSE, !.command = c, !.wait = OnCommandStart(@)]
  BY DEF CommandStart
<1> HIDE DEF h
<1>4. Calm(h, e, Engaged) /\ e.here = h.here /\ (h.todo => e.todo)
  BY <1>0, <1>3, EndRunAtBoundaryCalm
<1>5. Sound(e) /\ e \in Entry
  BY <1>4 DEF Calm, Sound
<1> HIDE DEF e
<1>y. s' = [e EXCEPT !.ackedQuiet = FALSE, !.command = c, !.wait = waits]
  BY <1>x, <1>5 DEF Entry
<1>6. waits \in [Waiter -> {"none", "grace", "parked"}]
      /\ \A w \in Waiter : /\ waits[w] # "grace"
                           /\ waits[w] # "none" => e.wait[w] # "none"
  BY <1>5 DEF Entry, OnCommandStart
<1>7. c \in {NoCommand} \cup [runs : {TRUE}, key : Key \cup {NoKey}, seen : BOOLEAN]
  BY <1>0
<1> HIDE DEF c, waits
<1>8. /\ s' \in Entry /\ s'.here = e.here /\ s'.todo = e.todo /\ s'.ring = e.ring
      /\ s'.held = e.held /\ s'.wait = waits /\ s'.command = c
      /\ s'.ackedQuiet = FALSE /\ s'.leaveGrace = e.leaveGrace
  BY <1>5, <1>y, <1>6, <1>7 DEF Entry
<1>9. Sound(s')
  BY <1>5, <1>6, <1>8 DEF Sound
<1>10. Calm(e, s', Engaged)
  BY <1>0, <1>6, <1>8, <1>9, CalmSame
<1>11. Calm(s, s', Engaged)
  BY <1>0, <1>2, <1>4, <1>10, CalmTransitive
<1> QED
  BY <1>1, <1>2, <1>4, <1>8, <1>11, LiveCallKeeps

\* onCommandFinish and onPrompt.
LEMMA CommandEndKeeps ==
    ASSUME IInv, CommandEnd
    PROVE  IInv' /\ Kept
<1> DEFINE h == Here(s)
<1>0. Sound(s) /\ rules \subseteq Key /\ Engaged \in BOOLEAN
  BY Starts
<1>1. removed' = FALSE /\ Others /\ rules' = rules /\ s' = FinishCommand(h, Engaged)
  BY DEF CommandEnd, Others, others
<1>2. Calm(s, h, Engaged) /\ h.here /\ h.todo = s.todo
  BY <1>0, HereCalm
<1>3. Sound(h)
  BY <1>2 DEF Calm
<1> HIDE DEF h
<1>4. Calm(h, s', Engaged) /\ s'.here = h.here /\ (h.todo => s'.todo)
  BY <1>0, <1>1, <1>3, FinishCommandCalm
<1>5. Calm(s, s', Engaged)
  BY <1>0, <1>2, <1>4, CalmTransitive
<1> QED
  BY <1>1, <1>2, <1>4, <1>5, LiveCallKeeps

-----------------------------------------------------------------------------
(* Controls *)

\* A gesture.
LEMMA GestureKeeps ==
    ASSUME IInv, Gesture
    PROVE  IInv' /\ Kept
<1>0. /\ Sound(s) /\ Absent(s) /\ (removed => Bare(s))
      /\ rules \subseteq Key /\ Engaged \in BOOLEAN /\ removed \in BOOLEAN
  BY Starts
<1>1. removed' = removed /\ Others /\ rules' = rules /\ s' = Acknowledge(s, FALSE)
  BY DEF Gesture, Others, others
<1>2. /\ Calm(s, s', Engaged) /\ (Bare(s) => Bare(s'))
      /\ s'.todo = s.todo \/ (Empty(s'.ring) /\ Empty(s'.held))
      /\ s'.here = s.here /\ (~s.here => s' = s)
  BY <1>0, <1>1, AcknowledgeCalm
<1>3. Absent(s')
  BY <1>0, <1>2 DEF Absent
<1> QED
  BY <1>0, <1>1, <1>2, <1>3, CallKeeps

\* dismissAlert.
LEMMA DismissAlertKeeps ==
    ASSUME IInv, DismissAlert
    PROVE  IInv' /\ Kept
<1>0. /\ Sound(s) /\ (removed => Bare(s))
      /\ rules \subseteq Key /\ Engaged \in BOOLEAN /\ removed \in BOOLEAN
  BY Starts
<1>1. s.here /\ removed' = removed /\ Others /\ rules' = rules /\ s' = RingToTodo(s)
  BY DEF DismissAlert, Others, others
<1>2. /\ Calm(s, s', Engaged) /\ Empty(s'.ring) /\ Empty(s'.held)
      /\ s'.here = s.here /\ s'.progress = s.progress /\ s'.det \in {s.det, Det!Nothing}
      /\ s'.command = s.command /\ s'.wait = s.wait
  BY <1>0, <1>1, RingToTodoCalm
<1>3. Absent(s') /\ (removed' => Bare(s'))
  BY <1>0, <1>1, <1>2 DEF Absent, Bare
<1> QED
  BY <1>0, <1>1, <1>2, <1>3, CallKeeps

\* toggleTodo, clearTodo.
LEMMA TodoKeeps ==
    ASSUME IInv, ToggleTodo \/ ClearTodo
    PROVE  IInv' /\ Kept
<1> DEFINE h == Here(s)
<1>0. /\ Sound(s) /\ s \in Entry /\ (removed => Bare(s))
      /\ rules \subseteq Key /\ Engaged \in BOOLEAN /\ removed \in BOOLEAN
  BY Starts
<1>1. removed' = removed /\ Others /\ rules' = rules
  BY DEF ToggleTodo, ClearTodo, Others, others
<1>2. PICK todo \in BOOLEAN : s' = SetTodo(h, todo)
  BY <1>0 DEF ToggleTodo, ClearTodo
<1>3. /\ Calm(s, h, Engaged) /\ h.here /\ h.progress = s.progress /\ h.det = s.det
      /\ h.command = s.command /\ h.wait = s.wait
  BY <1>0, HereCalm
<1>4. Sound(h)
  BY <1>3 DEF Calm
<1> HIDE DEF h
<1>5. /\ Calm(h, s', Engaged) /\ Empty(s'.ring) /\ Empty(s'.held)
      /\ s'.here = h.here /\ s'.progress = h.progress /\ s'.det \in {h.det, Det!Nothing}
      /\ s'.command = h.command /\ s'.wait = h.wait
  BY <1>0, <1>2, <1>4, SetTodoCalm
<1>6. Calm(s, s', Engaged)
  BY <1>0, <1>3, <1>5, CalmTransitive
<1>7. Absent(s') /\ (removed' => Bare(s'))
  BY <1>0, <1>1, <1>3, <1>5 DEF Absent, Bare
<1> QED
  BY <1>0, <1>1, <1>5, <1>6, <1>7, CallKeeps

\* setWatchedCommands.
LEMMA SetWatchedCommandsKeeps ==
    ASSUME IInv, NEW next \in SUBSET Key, SetWatchedCommands(next)
    PROVE  IInv' /\ Kept
<1>0. /\ Sound(s) /\ Absent(s) /\ (removed => Bare(s))
      /\ Engaged \in BOOLEAN /\ removed \in BOOLEAN
  BY Starts
<1>1. removed' = removed /\ Others /\ rules' = next /\ s' = Invalidate(s, Key \ next)
  BY DEF SetWatchedCommands, Others
<1>2. /\ Calm(s, s', Engaged)
      /\ s'.here = s.here /\ s'.progress = s.progress /\ s'.det = s.det
      /\ s'.command = s.command /\ s'.todo = s.todo /\ s'.wait = s.wait
      /\ Empty(s.ring) => Empty(s'.ring)
      /\ Empty(s.held) => Empty(s'.held)
  BY <1>0, <1>1, InvalidateCalm
<1>3. Absent(s') /\ (removed' => Bare(s'))
  BY <1>0, <1>1, <1>2 DEF Absent, Bare
<1> QED
  BY <1>0, <1>1, <1>2, <1>3, CallKeeps

\* silenceRun.
LEMMA SilenceRunKeeps ==
    ASSUME IInv, SilenceRun
    PROVE  IInv' /\ Kept
<1> DEFINE c == [s EXCEPT !.command = NoCommand]
<1>0. /\ Sound(s) /\ (removed => Bare(s))
      /\ rules \subseteq Key /\ Engaged \in BOOLEAN /\ removed \in BOOLEAN
  BY Starts
<1>1. s.here /\ removed' = removed /\ Others /\ rules' = rules /\ s' = EndRun(c)
  BY DEF SilenceRun, Others, others
<1>2. /\ Calm(s, c, Engaged) /\ c.here = s.here /\ c.command = NoCommand /\ c.todo = s.todo
      /\ c.ring = s.ring /\ c.held = s.held /\ c.wait = s.wait
  BY <1>0, NoCommandCalm
<1>3. Sound(c) /\ ~c.command.runs
  BY <1>2 DEF Calm, NoCommand
<1> HIDE DEF c
<1>4. /\ Calm(c, s', Engaged) /\ s'.progress = "none" /\ s'.det = Det!Nothing
      /\ s'.here = c.here /\ s'.command = c.command /\ s'.todo = c.todo
      /\ s'.ring = c.ring /\ s'.held = c.held /\ s'.wait = c.wait
  BY <1>0, <1>1, <1>3, EndRunCalm
<1>5. Calm(s, s', Engaged)
  BY <1>0, <1>2, <1>4, CalmTransitive
<1>6. Absent(s') /\ (removed' => Bare(s'))
  BY <1>0, <1>1, <1>2, <1>3, <1>4 DEF Absent, Bare
<1> QED
  BY <1>0, <1>1, <1>2, <1>4, <1>5, <1>6, CallKeeps

\* seed: the state of a restored Session.
LEMMA SeedKeeps ==
    ASSUME IInv, NEW todo \in BOOLEAN, Seed(todo)
    PROVE  IInv' /\ Kept
<1> DEFINE h == Here(s)
           e == [h EXCEPT !.todo = todo, !.ring = NoSources, !.held = NoSources,
                          !.ackedQuiet = FALSE, !.command = NoCommand]
<1>0. /\ Sound(s) /\ (removed => Bare(s))
      /\ rules \subseteq Key /\ Engaged \in BOOLEAN /\ removed \in BOOLEAN
  BY Starts
<1>1. removed' = removed /\ Others /\ rules' = rules /\ s' = EndRun(e)
  BY DEF Seed, Others, others
<1>2. Calm(s, h, Engaged) /\ h.here /\ h.wait = s.wait
  BY <1>0, HereCalm
<1>3. Sound(h) /\ h \in Entry
  BY <1>2 DEF Calm, Sound
<1> HIDE DEF h
<1>4. /\ e \in Entry /\ e.here = h.here /\ e.ring = NoSources /\ e.held = NoSources
      /\ e.command = NoCommand /\ e.wait = h.wait /\ e.leaveGrace = h.leaveGrace
  BY <1>3, NoSourcesType DEF Entry
<1> HIDE DEF e
<1>5. ~e.command.runs /\ Empty(e.ring) /\ Empty(e.held)
  BY <1>4, NoSourcesType DEF NoCommand
<1>6. Calm(h, e, Engaged)
  BY <1>0, <1>3, <1>4, <1>5, CalmEmpty
<1>7. Sound(e)
  BY <1>6 DEF Calm
<1>8. /\ Calm(e, s', Engaged) /\ s'.progress = "none" /\ s'.det = Det!Nothing
      /\ s'.here = e.here /\ s'.command = e.command
      /\ s'.ring = e.ring /\ s'.held = e.held /\ s'.wait = e.wait
  BY <1>0, <1>1, <1>7, EndRunCalm
<1>9. Calm(s, s', Engaged)
  BY <1>0, <1>2, <1>6, <1>8, CalmTransitive
<1>10. Absent(s') /\ (removed' => Bare(s'))
  BY <1>0, <1>1, <1>2, <1>4, <1>5, <1>8 DEF Absent, Bare
<1> QED
  BY <1>0, <1>1, <1>5, <1>8, <1>9, <1>10, CallKeeps

-----------------------------------------------------------------------------
(* Awaits, viewers and the life of the id *)

\* A step that adds no source, and leaves the ring of a Session that is looked at.
LEMMA NoNewsKeeps ==
    ASSUME IInv, TypeOK', Sound(s'), Absent(s'), removed' => Bare(s'), Decidable',
           Listed(s') \subseteq Listed(s), Watched(s') \subseteq Watched(s),
           EngagedBy(viewers') => s'.ring = s.ring,
           s.todo /\ ~s'.todo => Empty(s'.ring) /\ Empty(s'.held)
    PROVE  IInv' /\ Kept
<1>1. IInv'
  BY DEF IInv, Sound, Absent, Bare
<1>2. Joined = {}
  BY DEF Joined, Listed
<1>3. Kept
  BY <1>2 DEF Kept
<1> QED BY <1>1, <1>3

\* An await ends: idle, cancelled, or at its ceiling.
LEMMA AwaitEndsKeeps ==
    ASSUME IInv, NEW w \in Waiter, GraceEnds(w) \/ GiveUp(w)
    PROVE  IInv' /\ Kept
<1> DEFINE waits == [s.wait EXCEPT ![w] = "none"]
<1>0. /\ Sound(s) /\ s \in Entry /\ Absent(s) /\ (removed => Bare(s))
      /\ rules \subseteq Key /\ Engaged \in BOOLEAN /\ removed \in BOOLEAN
  BY Starts
<1>1. removed' = removed /\ Others /\ rules' = rules /\ s' = [s EXCEPT !.wait = waits]
  BY <1>0 DEF GraceEnds, GiveUp, Others, others, Entry
<1>2. /\ waits \in [Waiter -> {"none", "grace", "parked"}]
      /\ \A x \in Waiter : waits[x] \in {"none", s.wait[x]}
  BY <1>0 DEF Entry
<1> HIDE DEF waits
<1>3. /\ s' \in Entry /\ s'.here = s.here /\ s'.todo = s.todo /\ s'.ring = s.ring
      /\ s'.held = s.held /\ s'.wait = waits /\ s'.command = s.command /\ s'.det = s.det
      /\ s'.ackedQuiet = s.ackedQuiet /\ s'.leaveGrace = s.leaveGrace
      /\ s'.progress = s.progress
  BY <1>0, <1>1, <1>2 DEF Entry
<1>4. Sound(s')
  BY <1>0, <1>2, <1>3 DEF Sound
<1>5. Calm(s, s', Engaged)
  BY <1>0, <1>2, <1>3, <1>4, CalmSame
<1>6. Absent(s') /\ (removed' => Bare(s'))
  BY <1>0, <1>1, <1>2, <1>3 DEF Absent, Bare
<1> QED
  BY <1>0, <1>1, <1>3, <1>5, <1>6, CallKeeps

\* awaitCompletion: it consumes a source of the ring, or waits.
LEMMA AwaitKeeps ==
    ASSUME IInv, NEW w \in Waiter, Await(w)
    PROVE  IInv' /\ Kept
<1>0. /\ Sound(s) /\ s \in Entry /\ Absent(s) /\ s.ring \in Source
      /\ rules \subseteq Key /\ Engaged \in BOOLEAN
  BY Starts DEF Entry
<1>1. removed' = FALSE /\ ~helper /\ Others /\ rules' = rules
  BY Starts DEF Await, Others, others
<1>2. CASE Consumes(w) = "none"
  <2> DEFINE h == Here(s)
             waits == [h.wait EXCEPT ![w] = IF s.command.runs THEN "parked" ELSE "grace"]
  <2>1. /\ Calm(s, h, Engaged) /\ h.here /\ h.command = s.command /\ h.todo = s.todo
        /\ h.ring = s.ring /\ h.held = s.held /\ h.wait = s.wait
    BY <1>0, HereCalm
  <2>2. Sound(h) /\ h \in Entry /\ h.leaveGrace = s.leaveGrace
    BY <2>1 DEF Calm, Sound
  <2>3. s' = [h EXCEPT !.wait = waits]
    BY <1>2, <2>2 DEF Await, Entry
  <2>4. /\ waits \in [Waiter -> {"none", "grace", "parked"}]
        /\ \A x \in Waiter : waits[x] = "grace" => ~s.command.runs
    <3>1. h.wait \in [Waiter -> {"none", "grace", "parked"}]
      BY <2>2 DEF Entry
    <3>2. \A x \in Waiter : h.wait[x] = "grace" => ~s.command.runs
      BY <1>0, <2>1 DEF Sound
    <3> QED BY <3>1, <3>2
  <2> HIDE DEF h, waits
  <2>5. /\ s' \in Entry /\ s'.here = h.here /\ s'.todo = h.todo /\ s'.ring = h.ring
        /\ s'.held = h.held /\ s'.wait = waits /\ s'.command = h.command
        /\ s'.ackedQuiet = h.ackedQuiet /\ s'.leaveGrace = h.leaveGrace
    BY <2>2, <2>3, <2>4 DEF Entry
  <2>6. Sound(s')
    BY <2>1, <2>2, <2>4, <2>5 DEF Sound
  <2>7. TypeOK'
    BY <1>1, <2>5 DEF IInv, TypeOK, Others
  <2>8. Decidable'
    BY <1>1, <2>1, <2>2, <2>5
    DEF IInv, Decidable, HeldIsUndecided, Engaged, EngagedBy, Others
  <2>9. Absent(s')
    BY <2>1, <2>5 DEF Absent
  <2>10. Listed(s') = Listed(s) /\ Watched(s') = Watched(s)
    BY <2>1, <2>5 DEF Listed, Watched
  <2> QED
    BY <1>1, <2>1, <2>5, <2>6, <2>7, <2>8, <2>9, <2>10, NoNewsKeeps
<1>3. CASE Consumes(w) # "none"
  <2> DEFINE r == IF Consumes(w) = "watching" THEN DropWatching(s.ring)
                  ELSE [s.ring EXCEPT !.listed = @ \ {Consumes(w)}]
             d == IF Consumes(w) = "watching" THEN Det!Nothing ELSE s.det
  <2>1. s' = [s EXCEPT !.ring = r, !.det = d]
    BY <1>0, <1>3 DEF Await, Entry
  <2>2. /\ r \in Source /\ (Empty(s.ring) => Empty(r))
        /\ r.listed \subseteq s.ring.listed /\ r.key \in {s.ring.key, NoKey}
    <3>1. CASE Consumes(w) = "watching"
      BY <1>0, <3>1, DropWatchingType
    <3>2. CASE Consumes(w) # "watching"
      <4> DEFINE l == s.ring.listed \ {Consumes(w)}
      <4>1. r = [s.ring EXCEPT !.listed = l]
        BY <1>0, <3>2 DEF Source
      <4>2. l \in SUBSET {"exit", "report"} /\ l \subseteq s.ring.listed
        BY <1>0 DEF Source
      <4> HIDE DEF l, r
      <4>3. r \in Source /\ r.listed = l /\ r.key = s.ring.key
        BY <1>0, <4>1, <4>2 DEF Source
      <4> QED BY <4>2, <4>3 DEF Empty
    <3> QED BY <3>1, <3>2
  <2>3. d \in Det!Status
    BY <1>0 DEF Entry, Det!Status
  <2> HIDE DEF r, d
  <2>4. /\ s' \in Entry /\ s'.here = s.here /\ s'.todo = s.todo /\ s'.ring = r
        /\ s'.held = s.held /\ s'.wait = s.wait /\ s'.command = s.command
        /\ s'.ackedQuiet = s.ackedQuiet /\ s'.leaveGrace = s.leaveGrace
        /\ s'.progress = s.progress
    BY <1>0, <2>1, <2>2, <2>3 DEF Entry
  <2>5. Sound(s')
    BY <1>0, <2>2, <2>4 DEF Sound
  <2>6. Shields(s, s')
    BY <2>2, <2>4 DEF Shields, Listed, Watched
  <2>7. Calm(s, s', Engaged)
    BY <2>2, <2>4, <2>5, <2>6 DEF Calm
  <2>8. Absent(s')
    BY <1>0, <2>4 DEF Absent
  <2> QED
    BY <1>0, <1>1, <2>4, <2>7, <2>8, CallKeeps
<1> QED BY <1>2, <1>3

\* A hold that is dropped.
LEMMA DropHeldFields ==
    ASSUME NEW e, Sound(e)
    PROVE  LET f == [e EXCEPT !.held = NoSources]
           IN  /\ Sound(f) /\ SameRun(e, f) /\ Empty(f.held) /\ f.todo = e.todo
               /\ f.ring = e.ring
               /\ Listed(f) \subseteq Listed(e) /\ Watched(f) \subseteq Watched(e)
<1> DEFINE f == [e EXCEPT !.held = NoSources]
<1>1. e \in Entry
  BY DEF Sound
<1>2. /\ f \in Entry /\ SameRun(e, f) /\ f.held = NoSources /\ f.todo = e.todo
      /\ f.ring = e.ring /\ f.ackedQuiet = e.ackedQuiet
  BY <1>1, NoSourcesType DEF Entry, SameRun
<1> HIDE DEF f
<1>3. Sound(f)
  BY <1>2, NoSourcesType DEF Sound, SameRun
<1>4. Listed(f) \subseteq Listed(e) /\ Watched(f) \subseteq Watched(e)
  BY <1>2 DEF Listed, Watched, NoSources
<1> QED
  BY <1>2, <1>3, <1>4, NoSourcesType DEF f

\* Only the leave grace is set.
LEMMA LeaveGraceFields ==
    ASSUME NEW e, Sound(e), NEW b \in BOOLEAN
    PROVE  LET f == [e EXCEPT !.leaveGrace = b]
           IN  /\ Sound(f) /\ f.leaveGrace = b
               /\ f.here = e.here /\ f.progress = e.progress /\ f.det = e.det
               /\ f.command = e.command /\ f.todo = e.todo /\ f.wait = e.wait
               /\ f.ring = e.ring /\ f.held = e.held
<1> DEFINE f == [e EXCEPT !.leaveGrace = b]
<1>1. e \in Entry
  BY DEF Sound
<1>2. /\ f \in Entry /\ f.leaveGrace = b
      /\ f.here = e.here /\ f.progress = e.progress /\ f.det = e.det
      /\ f.command = e.command /\ f.todo = e.todo /\ f.wait = e.wait
      /\ f.ring = e.ring /\ f.held = e.held /\ f.ackedQuiet = e.ackedQuiet
  BY <1>1 DEF Entry
<1> HIDE DEF f
<1>3. Sound(f)
  BY <1>2 DEF Sound
<1> QED
  BY <1>2, <1>3 DEF f

\* setViewer and removeViewer.
LEMMA ViewerKeeps ==
    ASSUME IInv, NEW v \in Viewer, NEW at \in {"absent", "here", "elsewhere"},
           NEW lapse, SetViewer(v, at, lapse)
    PROVE  IInv' /\ Kept
<1> DEFINE vs == [viewers EXCEPT ![v] = at]
           g == EngagedBy(vs)
<1>0. /\ Sound(s) /\ s \in Entry /\ Absent(s) /\ (removed => Bare(s))
      /\ Engaged \in BOOLEAN /\ removed \in BOOLEAN
  BY Starts
<1>1. /\ viewers' = vs /\ rules' = rules /\ removed' = removed /\ helper' = helper
      /\ s' = IF ~s.here \/ helper \/ g = Engaged THEN s
              ELSE IF g THEN MarkSeen([s EXCEPT !.leaveGrace = FALSE])
              ELSE IF at # "absent" THEN [s EXCEPT !.held = NoSources]
              ELSE IF lapse = "idle" THEN EscalateHeld(s, FALSE)
              ELSE [s EXCEPT !.leaveGrace = ~Empty(s.held)]
  BY DEF SetViewer
<1>2. viewers' \in [Viewer -> {"absent", "here", "elsewhere"}]
  BY <1>1 DEF IInv, TypeOK
<1>3. Engaged' = g /\ EngagedBy(viewers') = g /\ g \in BOOLEAN
  BY <1>1 DEF Engaged, EngagedBy
<1> HIDE DEF vs, g
<1>4. ASSUME Sound(s'), Absent(s'), removed => Bare(s'),
             Listed(s') \subseteq Listed(s), Watched(s') \subseteq Watched(s),
             g => s'.ring = s.ring, s'.todo = s.todo, Decidable'
      PROVE  IInv' /\ Kept
  <2>1. TypeOK'
    BY <1>1, <1>2, <1>4 DEF IInv, TypeOK, Sound
  <2> QED
    BY <1>1, <1>3, <1>4, <2>1, NoNewsKeeps
<1>5. CASE ~s.here \/ helper \/ g = Engaged
  <2>1. s' = s
    BY <1>1, <1>5
  <2>2. Decidable'
    <3> SUFFICES ASSUME ~Demotes PROVE HeldIsUndecided' /\ (helper' => Empty(s'.held))
      BY DEF Decidable
    <3>1. HeldIsUndecided /\ (helper => Empty(s.held))
      BY DEF IInv, Decidable
    <3> QED
      BY <1>0, <1>1, <1>3, <1>5, <2>1, <3>1 DEF HeldIsUndecided, Absent
  <2> QED
    BY <1>0, <1>4, <2>1, <2>2
<1>6. CASE s.here /\ ~helper /\ g /\ ~Engaged
  <2> DEFINE e == [s EXCEPT !.leaveGrace = FALSE]
  <2>1. s' = MarkSeen(e)
    BY <1>1, <1>6
  <2>2. /\ Sound(e)
        /\ e.here = s.here /\ e.progress = s.progress /\ e.det = s.det
        /\ e.command = s.command /\ e.todo = s.todo /\ e.wait = s.wait
        /\ e.ring = s.ring /\ e.held = s.held
    BY <1>0, LeaveGraceFields
  <2> HIDE DEF e
  <2>3. /\ Calm(e, s', FALSE)
        /\ s'.here = e.here /\ s'.progress = e.progress /\ s'.det = e.det
        /\ s'.command.runs = e.command.runs /\ s'.todo = e.todo
        /\ s'.ring = e.ring /\ s'.held = e.held /\ s'.wait = e.wait
    BY <2>1, <2>2, MarkSeenCalm
  <2>4. Sound(s')
    BY <2>3 DEF Calm
  <2>5. Absent(s') /\ (removed => Bare(s'))
    BY <1>0, <2>2, <2>3 DEF Absent, Bare
  <2>6. Listed(s') \subseteq Listed(s) /\ Watched(s') \subseteq Watched(s)
    BY <2>2, <2>3 DEF Listed, Watched
  <2>7. Decidable'
    BY <1>1, <1>3, <1>6 DEF Decidable, HeldIsUndecided
  <2> QED
    BY <1>4, <2>2, <2>3, <2>4, <2>5, <2>6, <2>7
<1>7. CASE s.here /\ ~helper /\ ~g /\ Engaged /\ (at # "absent" \/ lapse = "idle")
  <2>1. /\ Sound(s') /\ SameRun(s, s') /\ Empty(s'.held) /\ s'.todo = s.todo
        /\ Listed(s') \subseteq Listed(s) /\ Watched(s') \subseteq Watched(s)
        /\ Empty(s.held) => s'.ring = s.ring
    <3>1. CASE at # "absent"
      BY <1>0, <1>1, <1>7, <3>1, DropHeldFields
    <3>2. CASE at = "absent"
      BY <1>0, <1>1, <1>7, <3>2, EscalateHeldFields
    <3> QED BY <3>1, <3>2
  <2>2. Absent(s') /\ (removed => Bare(s'))
    BY <1>0, <1>7, <2>1 DEF Absent, Bare, SameRun
  <2>3. Decidable'
    BY <2>1 DEF Decidable, HeldIsUndecided
  <2> QED
    BY <1>4, <1>7, <2>1, <2>2, <2>3
<1>8. CASE s.here /\ ~helper /\ ~g /\ Engaged /\ at = "absent" /\ lapse # "idle"
  <2> DEFINE b == ~Empty(s.held)
  <2>1. s' = [s EXCEPT !.leaveGrace = b] /\ b \in BOOLEAN
    BY <1>1, <1>8
  <2> HIDE DEF b
  <2>2. /\ Sound(s') /\ s'.leaveGrace = b
        /\ s'.here = s.here /\ s'.progress = s.progress /\ s'.det = s.det
        /\ s'.command = s.command /\ s'.todo = s.todo /\ s'.wait = s.wait
        /\ s'.ring = s.ring /\ s'.held = s.held
    BY <1>0, <2>1, LeaveGraceFields
  <2>3. Absent(s') /\ (removed => Bare(s'))
    BY <1>0, <2>2 DEF Absent, Bare
  <2>4. Listed(s') \subseteq Listed(s) /\ Watched(s') \subseteq Watched(s)
    BY <2>2 DEF Listed, Watched
  <2>5. Decidable'
    BY <1>1, <1>8, <2>2 DEF Decidable, HeldIsUndecided, b
  <2> QED
    BY <1>4, <2>2, <2>3, <2>4, <2>5
<1> QED
  BY <1>0, <1>3, <1>5, <1>6, <1>7, <1>8

\* The leave grace's timer.
LEMMA LeaveGraceEndsKeeps ==
    ASSUME IInv, LeaveGraceEnds
    PROVE  IInv' /\ Kept
<1> DEFINE e == [s EXCEPT !.leaveGrace = FALSE]
           nobody == \A v \in Viewer : viewers[v] = "absent"
<1>0. /\ Sound(s) /\ s \in Entry /\ Absent(s) /\ (removed => Bare(s))
      /\ Engaged \in BOOLEAN /\ removed \in BOOLEAN
  BY Starts
<1>1. /\ viewers' = viewers /\ rules' = rules /\ removed' = removed /\ helper' = helper
      /\ s' = IF nobody THEN EscalateHeld(e, FALSE) ELSE [e EXCEPT !.held = NoSources]
  BY DEF LeaveGraceEnds, others
<1>2. /\ Sound(e)
      /\ e.here = s.here /\ e.progress = s.progress /\ e.det = s.det
      /\ e.command = s.command /\ e.todo = s.todo /\ e.wait = s.wait
      /\ e.ring = s.ring /\ e.held = s.held
  BY <1>0, LeaveGraceFields
<1> HIDE DEF e
<1>3. /\ Sound(s') /\ SameRun(e, s') /\ Empty(s'.held) /\ s'.todo = e.todo
      /\ Listed(s') \subseteq Listed(e) /\ Watched(s') \subseteq Watched(e)
      /\ ~nobody \/ Empty(e.held) => s'.ring = e.ring
  <2>1. CASE nobody
    BY <1>1, <1>2, <2>1, EscalateHeldFields
  <2>2. CASE ~nobody
    BY <1>1, <1>2, <2>2, DropHeldFields
  <2> QED BY <2>1, <2>2
<1>4. EngagedBy(viewers') => ~nobody
  BY <1>1 DEF EngagedBy
<1>5. TypeOK'
  BY <1>1, <1>3 DEF IInv, TypeOK, Sound
<1>6. Absent(s') /\ (removed' => Bare(s'))
  <2>1. Absent(s')
    BY <1>0, <1>2, <1>3 DEF Absent, SameRun
  <2>2. ASSUME removed PROVE Bare(s')
    <3>1. Bare(s)
      BY <1>0, <2>2
    <3> QED BY <1>2, <1>3, <3>1 DEF Bare, SameRun
  <2> QED BY <1>1, <2>1, <2>2
<1>7. Decidable'
  BY <1>3 DEF Decidable, HeldIsUndecided
<1>8. Listed(s') \subseteq Listed(s) /\ Watched(s') \subseteq Watched(s)
  BY <1>2, <1>3 DEF Listed, Watched
<1> QED
  BY <1>2, <1>3, <1>4, <1>5, <1>6, <1>7, <1>8, NoNewsKeeps

\* A new entry has nothing under way.
LEMMA NewEntryBare == Sound(NewEntry) /\ Absent(NewEntry) /\ Bare(NewEntry)
<1>1. NewEntry \in Entry
  BY NoSourcesType DEF NewEntry, Entry, Det!Status
<1>2. /\ NewEntry.ring = NoSources /\ NewEntry.held = NoSources /\ NewEntry.det = Det!Nothing
      /\ NewEntry.progress = "none" /\ NewEntry.command = NoCommand
      /\ NewEntry.wait = [w \in Waiter |-> "none"]
  BY DEF NewEntry
<1>3. ~NewEntry.command.runs /\ \A w \in Waiter : NewEntry.wait[w] = "none"
  BY <1>2 DEF NoCommand
<1> QED
  BY <1>1, <1>2, <1>3, NoSourcesType DEF Sound, Absent, Bare

\* remove, restart and dispose.
LEMMA DiscardKeeps ==
    ASSUME IInv, Dispose \/ \E b \in BOOLEAN : Discard(b)
    PROVE  IInv' /\ Kept
<1>1. /\ s' = NewEntry /\ rules' = rules /\ helper' = FALSE /\ removed' \in BOOLEAN
      /\ viewers' \in [Viewer -> {"absent", "here", "elsewhere"}]
  BY DEF Dispose, Discard, IInv, TypeOK
<1>2. Sound(s') /\ Absent(s') /\ Bare(s')
  BY <1>1, NewEntryBare
<1>3. TypeOK'
  BY <1>1, <1>2 DEF IInv, TypeOK, Sound
<1>4. Decidable'
  BY <1>2 DEF Decidable, HeldIsUndecided, Bare
<1>5. IInv'
  BY <1>2, <1>3, <1>4 DEF IInv, Sound, Absent, Bare
<1>6. Kept
  BY <1>2 DEF Kept, Bare, Empty
<1> QED BY <1>5, <1>6

\* A helper's spawn, promotion and failed placement.
LEMMA SetHelperKeeps ==
    ASSUME IInv, NEW on \in BOOLEAN, SetHelper(on)
    PROVE  IInv' /\ Kept
<1>1. /\ s' = s /\ viewers' = viewers /\ rules' = rules /\ removed' = removed
      /\ helper' = on /\ (on => Demotes \/ s = NewEntry)
  BY DEF SetHelper
<1>2. TypeOK'
  BY <1>1 DEF IInv, TypeOK
<1>3. Decidable'
  <2> SUFFICES ASSUME ~Demotes PROVE HeldIsUndecided' /\ (helper' => Empty(s'.held))
    BY DEF Decidable
  <2>1. HeldIsUndecided'
    BY <1>1 DEF IInv, Decidable, HeldIsUndecided, Engaged, EngagedBy
  <2>2. helper' => Empty(s'.held)
    BY <1>1, NewEntryBare DEF Bare
  <2> QED BY <2>1, <2>2
<1> QED
  BY <1>1, <1>2, <1>3, Starts, NoNewsKeeps

-----------------------------------------------------------------------------
(* Theorems *)

\* The invariant holds of a Session the manager knows nothing of.
LEMMA InitIInv == Init => IInv
<1> SUFFICES ASSUME Init PROVE IInv
  OBVIOUS
<1>1. Sound(s) /\ Absent(s) /\ Bare(s)
  BY NewEntryBare DEF Init
<1>2. TypeOK
  BY <1>1 DEF Init, TypeOK, Sound
<1>3. Decidable
  BY <1>1 DEF Decidable, HeldIsUndecided, Bare
<1> QED BY <1>1, <1>2, <1>3 DEF IInv

\* Every action keeps it, and the three action properties with it.
LEMMA NextKeeps ==
    ASSUME IInv, Next
    PROVE  IInv' /\ Kept
<1>1. CASE Dispose \/ \E b \in BOOLEAN : Discard(b)
  BY <1>1, DiscardKeeps
<1>2. CASE OnData \/ DetectorTimer \/ OnExit \/ EchoEnds
  BY <1>2, OnDataKeeps, DetectorTimerKeeps, OnExitKeeps, EchoEndsKeeps
<1>3. CASE \E userInput, startsWork \in BOOLEAN : OnWrite(userInput, startsWork)
  BY <1>3, OnWriteKeeps
<1>4. CASE Notify \/ ProgressGraceEnds \/ CommandEnd
  BY <1>4, NotifyKeeps, ProgressGraceEndsKeeps, CommandEndKeeps
<1>5. CASE \E ends \in BOOLEAN : ProgressUpdate(ends)
  BY <1>5, ProgressUpdateKeeps
<1>6. CASE \E key \in Key \cup {NoKey} : CommandStart(key)
  BY <1>6, CommandStartKeeps
<1>7. CASE \E w \in Waiter : Await(w) \/ GraceEnds(w) \/ GiveUp(w)
  BY <1>7, AwaitKeeps, AwaitEndsKeeps
<1>8. CASE \/ \E v \in Viewer, at \in {"here", "elsewhere"} : SetViewer(v, at, "none")
           \/ \E v \in Viewer, lapse \in {"idle", "leave"} : SetViewer(v, "absent", lapse)
  BY <1>8, ViewerKeeps
<1>9. CASE LeaveGraceEnds
  BY <1>9, LeaveGraceEndsKeeps
<1>10. CASE Gesture \/ DismissAlert \/ ToggleTodo \/ ClearTodo \/ SilenceRun
  BY <1>10, GestureKeeps, DismissAlertKeeps, TodoKeeps, SilenceRunKeeps
<1>11. CASE \E next \in SUBSET Key : SetWatchedCommands(next)
  BY <1>11, SetWatchedCommandsKeeps
<1>12. CASE \E b \in BOOLEAN : Seed(b) \/ SetHelper(b)
  BY <1>12, SeedKeeps, SetHelperKeeps
<1> QED
  BY <1>1, <1>2, <1>3, <1>4, <1>5, <1>6, <1>7, <1>8, <1>9, <1>10, <1>11, <1>12 DEF Next

\* A step that changes nothing keeps everything.
LEMMA StutterKeeps ==
    ASSUME IInv, UNCHANGED vars
    PROVE  IInv'
  BY DEF vars, IInv, TypeOK, Sound, Absent, Bare, Decidable, HeldIsUndecided, Engaged,
         EngagedBy

\* The inductive invariant of alert-manager.ts's entry.
THEOREM EntryHolds == Spec => []IInv
<1>1. IInv /\ [Next]_vars => IInv'
  BY NextKeeps, StutterKeeps
<1> QED
  BY InitIInv, <1>1, PTL DEF Spec

\* The entry, the viewers and the rules keep their types.
THEOREM AlertTyped == Spec => []TypeOK
<1>1. IInv => TypeOK
  BY DEF IInv
<1> QED
  BY EntryHolds, <1>1, PTL

\* The latches agree (clearRingForUser, raiseRing, hold, discard): an acknowledged
\* Session does not ring, what it holds is a TODO, and a removed id is silent.
THEOREM AlertLatches == Spec => []LatchesAgree
<1>1. IInv => LatchesAgree
  BY DEF IInv, Sound, Bare, LatchesAgree, Parked
<1> QED
  BY EntryHolds, <1>1, PTL

\* An await that may resolve idle has no command in front of it (onCommandStart,
\* awaitCompletion).
THEOREM AlertIdle == Spec => []IdleMeansIdle
<1>1. IInv => IdleMeansIdle
  BY DEF IInv, Sound, IdleMeansIdle
<1> QED
  BY EntryHolds, <1>1, PTL

\* Where no promoted Session becomes a helper again, what is held is looked at or
\* its leave grace runs (setViewer, startLeaveGrace).
THEOREM AlertUndecided ==
    ASSUME ~Demotes
    PROVE  Spec => []HeldIsUndecided
<1>1. IInv => HeldIsUndecided
  BY DEF IInv, Decidable
<1> QED
  BY EntryHolds, <1>1, PTL

\* Nothing an await that stays parked would have woken on reaches the human
\* (dispatchCompletion).
THEOREM AlertShields == Spec => ParkedShieldsHuman
<1> DEFINE A == \A w \in Waiter : s.wait[w] # "none" /\ s'.wait[w] # "none" =>
           /\ "exit" \notin Joined
           /\ Until[w] = "quiet" => Joined = {} /\ Watched(s') \subseteq Watched(s)
<1>1. IInv /\ [Next]_vars => [A]_vars
  BY NextKeeps DEF Kept
<1> QED
  BY EntryHolds, <1>1, PTL DEF Spec, ParkedShieldsHuman

\* A ring opens or gains a source only while nobody looks at the Session
\* (holdOrDeliver, escalateHeld).
THEOREM AlertRings == Spec => RingsOnlyTheAbsent
<1> DEFINE A == EngagedBy(viewers') =>
           /\ s'.ring.listed \subseteq s.ring.listed
           /\ s'.ring.key \in {s.ring.key, NoKey}
<1>1. IInv /\ [Next]_vars => [A]_vars
  BY NextKeeps DEF Kept
<1> QED
  BY EntryHolds, <1>1, PTL DEF Spec, RingsOnlyTheAbsent

\* A TODO that goes takes the ring and the hold with it (setTodoForUser).
THEOREM AlertClears == Spec => ClearedStaysCleared
<1> DEFINE A == s.todo /\ ~s'.todo => Empty(s'.ring) /\ Empty(s'.held)
<1>1. IInv /\ [Next]_vars => [A]_vars
  BY NextKeeps DEF Kept
<1> QED
  BY EntryHolds, <1>1, PTL DEF Spec, ClearedStaysCleared

=============================================================================
