---------------------------- MODULE AlertManager ----------------------------
(***************************************************************************)
(* Who is told that a Session finished: lib/src/lib/alert-manager.ts, one  *)
(* Session of it. A completion (a settle, a report, the end of a progress  *)
(* cycle, a command's exit) is offered to the awaits parked on the         *)
(* Session; what none of them takes rings, or is held while somebody looks *)
(* at the Session, to be rung or dropped by how they stop looking.         *)
(*                                                                         *)
(* The detector is Quiesce's. What a notification says is left out, so are *)
(* publishing and its deduplication; a timer that may have run out is a    *)
(* step that may be taken.                                                 *)
(***************************************************************************)
EXTENDS FiniteSets

CONSTANTS Viewer,   \* renderer realms
          Key,      \* watch keys a command may have
          Waiter,   \* awaits that may be parked at once
          Until,    \* per await, "quiet" or "exit"
          Demotes   \* bound: a promoted Session may become a helper again

ASSUME KeysAreCommands == {"none", "exit", "report"} \cap Key = {}

ASSUME UntilIsNamed == Until \in [Waiter -> {"quiet", "exit"}] /\ Demotes \in BOOLEAN

VARIABLES s,         \* the Session's entry, and the awaits parked on it
          viewers,   \* per viewer: "absent", or where it points
          rules,     \* watchedCommands
          removed,   \* the id has a tombstone
          helper     \* the id is a helper's

vars == <<s, viewers, rules, removed, helper>>

Det == INSTANCE Quiesce WITH status <- s.det, report <- "none"

NoKey == "none"

\* The sources of a ring or a hold: the listed ones, and watching with its key and
\* whether work arrived since.
NoSources == [listed |-> {}, key |-> NoKey, workSince |-> FALSE]

Source == [listed : SUBSET {"exit", "report"}, key : Key \cup {NoKey}, workSince : BOOLEAN]

Empty(r) == r.listed = {} /\ r.key = NoKey

NoCommand == [runs |-> FALSE, key |-> NoKey, seen |-> FALSE]

Entry ==
    [here : BOOLEAN, det : Det!Status, ring : Source, held : Source,
     ackedQuiet : BOOLEAN, progress : {"none", "active", "ending"},
     command : {NoCommand} \cup [runs : {TRUE}, key : Key \cup {NoKey}, seen : BOOLEAN],
     todo : BOOLEAN, leaveGrace : BOOLEAN, echo : BOOLEAN,
     wait : [Waiter -> {"none", "grace", "parked"}]]

NewEntry ==
    [here |-> FALSE, det |-> Det!Nothing, ring |-> NoSources, held |-> NoSources,
     ackedQuiet |-> FALSE, progress |-> "none", command |-> NoCommand,
     todo |-> FALSE, leaveGrace |-> FALSE, echo |-> FALSE,
     wait |-> [w \in Waiter |-> "none"]]

Init ==
    /\ s = NewEntry
    /\ viewers = [v \in Viewer |-> "absent"]
    /\ rules \in SUBSET Key
    /\ removed = FALSE
    /\ helper \in BOOLEAN

-----------------------------------------------------------------------------
(* What one call does to the entry e, when g says the Session is engaged.   *)

EngagedBy(vs) == \E v \in Viewer : vs[v] = "here"

Engaged == EngagedBy(viewers)

Parked == {w \in Waiter : s.wait[w] # "none"}

AddSource(r, source) ==
    IF source \in Key THEN [r EXCEPT !.key = source, !.workSince = FALSE]
    ELSE [r EXCEPT !.listed = @ \cup {source}]

DropWatching(r) == [r EXCEPT !.key = NoKey, !.workSince = FALSE]

\* invalidateWatching: never an acknowledgement.
Invalidate(e, voided) ==
    [e EXCEPT !.ring = IF @.key \in voided THEN DropWatching(@) ELSE @,
              !.held = IF @.key \in voided THEN DropWatching(@) ELSE @]

Work(r) == IF r.key = NoKey THEN r ELSE [r EXCEPT !.workSince = TRUE]

NoteWork(e) ==
    [e EXCEPT !.ring = Work(@), !.held = Work(@), !.ackedQuiet = FALSE,
              !.wait = [w \in Waiter |-> IF @[w] = "grace" /\ Until[w] = "quiet"
                                         THEN "parked" ELSE @[w]]]

\* Mutant: opening a ring keeps the acknowledgement.
RaiseRingAcked(e, source) == [e EXCEPT !.ring = AddSource(@, source)]

RaiseRing(e, source) ==
    [e EXCEPT !.ackedQuiet = @ /\ ~Empty(e.ring), !.ring = AddSource(@, source)]

Hold(e, source) == [e EXCEPT !.held = AddSource(@, source), !.todo = TRUE]

\* Mutant: an exit rings whoever is looking.
HoldOrDeliverExit(e, source, g) ==
    IF g /\ source # "exit" THEN Hold(e, source)
    ELSE IF source = "report" /\ e.ackedQuiet THEN e
    ELSE RaiseRing(e, source)

HoldOrDeliver(e, source, g) ==
    IF g THEN Hold(e, source)
    ELSE IF source = "report" /\ e.ackedQuiet THEN e
    ELSE RaiseRing(e, source)

\* Mutant: a quiet await does not wake on a report.
ClaimantsOfSettles(e, kind) ==
    {w \in Waiter : e.wait[w] # "none" /\ (kind = "exit" \/ (Until[w] = "quiet" /\ kind = "settled"))}

\* awaitCauseFor: the awaits that wake on a completion.
Claimants(e, kind) ==
    {w \in Waiter : e.wait[w] # "none" /\ (kind = "exit" \/ Until[w] = "quiet")}

\* A settle rings for a watched command, an exit for a seen one, a report always.
Rings(e, kind, seen) ==
    CASE kind = "settled" -> e.command.key \in rules
      [] kind = "exit" -> seen
      [] kind = "report" -> TRUE

Dispatch(e, kind, seen, g) ==
    LET woken == Claimants(e, kind)
    IN  IF helper THEN e
        ELSE IF woken # {} THEN
            [e EXCEPT !.wait = [w \in Waiter |-> IF w \in woken THEN "none" ELSE @[w]]]
        ELSE IF e.echo \/ ~Rings(e, kind, seen) THEN e
        ELSE HoldOrDeliver(e, IF kind = "settled" THEN e.command.key ELSE kind, g)

Claimed(e, kind) == ~helper /\ Claimants(e, kind) # {}

EndRun(e) == [e EXCEPT !.progress = "none", !.det = Det!Nothing]

SettleProgressEnd(e, g) ==
    IF e.progress # "ending" THEN e ELSE Dispatch(EndRun(e), "report", FALSE, g)

EndRunAtBoundary(e, g) == EndRun(SettleProgressEnd(e, g))

FinishCommand(e, g) ==
    LET ended == [EndRunAtBoundary(e, g) EXCEPT !.command = NoCommand]
    IN  IF e.command.runs THEN Dispatch(ended, "exit", e.command.seen, g) ELSE ended

\* clearRingForUser: answering a watching source starts the detector over.
ClearRing(e) ==
    IF Empty(e.ring) /\ Empty(e.held) THEN e
    ELSE [e EXCEPT !.ring = NoSources, !.held = NoSources, !.ackedQuiet = TRUE,
                   !.det = IF e.ring.key = NoKey /\ e.held.key = NoKey
                           THEN @ ELSE Det!Nothing]

RingToTodo(e) == [ClearRing(e) EXCEPT !.todo = @ \/ ~Empty(e.ring)]

\* Mutant: the TODO verbs leave what is held.
SetTodoOnly(e, todo) == [e EXCEPT !.todo = todo]

SetTodo(e, todo) == [ClearRing(e) EXCEPT !.todo = todo]

\* Mutant: a look with nothing running is remembered.
MarkSeenAlways(e) == [e EXCEPT !.command.seen = TRUE]

MarkSeen(e) == [e EXCEPT !.command.seen = e.command.runs]

\* Each held source takes the path it would have taken unengaged: watching, exit,
\* report.
EscalateHeld(e, g) ==
    LET bare == [e EXCEPT !.held = NoSources]
        watched == IF e.held.key = NoKey THEN bare
                   ELSE LET r == HoldOrDeliver(bare, e.held.key, g)
                        IN  [r EXCEPT !.ring.workSince = e.held.workSince]
        left == IF "exit" \in e.held.listed THEN HoldOrDeliver(watched, "exit", g) ELSE watched
    IN  IF "report" \in e.held.listed THEN HoldOrDeliver(left, "report", g) ELSE left

Die(e) == [e EXCEPT !.wait = [w \in Waiter |-> "none"]]

Here(e) == [e EXCEPT !.here = TRUE]

-----------------------------------------------------------------------------
(* The feeds *)

others == <<viewers, rules, helper>>

\* The echo of the user's own keys is not work.
OnData ==
    /\ ~removed
    /\ \/ s.echo /\ s' = Here(s)
       \/ /\ ~s.echo
          /\ \E out \in Det!OnOutput(s.det) :
                LET e == [Here(s) EXCEPT !.det = out[1]]
                IN  s' = IF out[2] = "work" THEN NoteWork(e) ELSE e
    /\ UNCHANGED <<others, removed>>

\* A settle inside a progress cycle is a pause of it. An await that takes a settle
\* takes the watching source it answers.
DetectorTimer ==
    /\ s.here
    /\ \E out \in Det!OnTimer(s.det) :
          LET e == [s EXCEPT !.det = out[1]]
              d == Dispatch(e, "settled", FALSE, Engaged)
          IN  s' = IF out[2] # "settled" \/ s.progress # "none" THEN e
                   ELSE IF Claimed(e, "settled") THEN Invalidate(d, Key)
                   ELSE d
    /\ UNCHANGED <<others, removed>>

OnExit ==
    /\ s' = Die(IF s.here THEN FinishCommand(s, Engaged) ELSE s)
    /\ UNCHANGED <<others, removed>>

\* acknowledge: with input it opens the echo window, a helper's too.
Acknowledge(e, input) ==
    LET heard == [e EXCEPT !.echo = @ \/ input]
        seen == MarkSeen(heard)
    IN  IF ~e.here THEN e
        ELSE IF helper THEN heard
        ELSE IF input THEN SetTodo(SettleProgressEnd(seen, Engaged), FALSE)
        ELSE RingToTodo(seen)

\* Input of a user or a program makes the entry; terminal replies and mouse
\* reports, which start no work, do not.
OnWrite(userInput, startsWork) ==
    LET e == IF userInput THEN Acknowledge(s, TRUE) ELSE s
    IN  /\ s' = IF removed \/ ~startsWork THEN e ELSE Here(e)
        /\ UNCHANGED <<others, removed>>

EchoEnds ==
    /\ s.echo
    /\ s' = [s EXCEPT !.echo = FALSE]
    /\ UNCHANGED <<others, removed>>

\* A semantic or protocol event retires the tombstone.
Notify ==
    /\ ~helper
    /\ s' = Dispatch(Here(s), "report", FALSE, Engaged)
    /\ removed' = FALSE
    /\ UNCHANGED others

\* An active update is work, and takes back an end that was none.
ProgressUpdate(ends) ==
    LET e == Here(s)
    IN  /\ ~helper
        /\ removed' = FALSE
        /\ s' = IF ~ends THEN [NoteWork(e) EXCEPT !.progress = "active"]
                ELSE [e EXCEPT !.progress = IF @ = "active" THEN "ending" ELSE @]
        /\ UNCHANGED others

ProgressGraceEnds ==
    /\ s.progress = "ending"
    /\ s' = SettleProgressEnd(s, Engaged)
    /\ UNCHANGED <<others, removed>>

\* Mutant: a start ends the grace of a quiet await only, as output does.
OnCommandStartQuiet(wait) ==
    [w \in Waiter |-> IF wait[w] = "grace" /\ Until[w] = "quiet" THEN "parked" ELSE wait[w]]

OnCommandStart(wait) == [w \in Waiter |-> IF wait[w] = "grace" THEN "parked" ELSE wait[w]]

CommandStart(key) ==
    LET e == EndRunAtBoundary(Here(s), Engaged)
    IN  /\ s' = [e EXCEPT !.ackedQuiet = FALSE,
                          !.command = [runs |-> TRUE, key |-> key, seen |-> Engaged],
                          !.wait = OnCommandStart(@)]
        /\ removed' = FALSE
        /\ UNCHANGED others

\* A finish, or a prompt.
CommandEnd ==
    /\ s' = FinishCommand(Here(s), Engaged)
    /\ removed' = FALSE
    /\ UNCHANGED others

-----------------------------------------------------------------------------
(* Awaits *)

\* consumeAwaitableRing, in order: a report, an exit with nothing running, a
\* watching source nothing followed. Only that source is withdrawn.
Consumes(w) ==
    CASE Until[w] = "quiet" /\ "report" \in s.ring.listed -> "report"
      [] OTHER ->
         IF ~s.command.runs /\ "exit" \in s.ring.listed THEN "exit"
         ELSE IF Until[w] = "quiet" /\ s.ring.key # NoKey /\ ~s.ring.workSince
              THEN "watching" ELSE "none"

Await(w) ==
    LET source == Consumes(w)
    IN  /\ s.wait[w] = "none" /\ ~helper /\ ~removed
        /\ s' = CASE source = "none" ->
                        [Here(s) EXCEPT !.wait[w] = IF s.command.runs THEN "parked" ELSE "grace"]
                  [] source = "watching" ->
                        [s EXCEPT !.ring = DropWatching(@), !.det = Det!Nothing]
                  [] OTHER -> [s EXCEPT !.ring.listed = @ \ {source}]
        /\ UNCHANGED <<others, removed>>

\* Nothing was running: it resolves idle.
GraceEnds(w) ==
    /\ s.wait[w] = "grace"
    /\ s' = [s EXCEPT !.wait[w] = "none"]
    /\ UNCHANGED <<others, removed>>

\* cancel(), or its ceiling.
GiveUp(w) ==
    /\ s.wait[w] # "none"
    /\ s' = [s EXCEPT !.wait[w] = "none"]
    /\ UNCHANGED <<others, removed>>

-----------------------------------------------------------------------------
(* Viewers *)

\* Mutant: focus moving on is no different from staying.
SetViewerKeeps(v, at, lapse) ==
    LET vs == [viewers EXCEPT ![v] = at]
        g == EngagedBy(vs)
    IN  /\ at # viewers[v]
        /\ viewers' = vs
        /\ s' = IF ~s.here \/ helper \/ g = Engaged THEN s
                ELSE IF g THEN MarkSeen([s EXCEPT !.leaveGrace = FALSE])
                ELSE IF at # "absent" THEN s
                ELSE IF lapse = "idle" THEN EscalateHeld(s, FALSE)
                ELSE [s EXCEPT !.leaveGrace = ~Empty(s.held)]
        /\ UNCHANGED <<rules, removed, helper>>

\* setViewer and removeViewer. How the Session stops being engaged decides what
\* becomes of what it held.
SetViewer(v, at, lapse) ==
    LET vs == [viewers EXCEPT ![v] = at]
        g == EngagedBy(vs)
    IN  /\ at # viewers[v]
        /\ viewers' = vs
        /\ s' = IF ~s.here \/ helper \/ g = Engaged THEN s
                ELSE IF g THEN MarkSeen([s EXCEPT !.leaveGrace = FALSE])
                ELSE IF at # "absent" THEN [s EXCEPT !.held = NoSources]
                ELSE IF lapse = "idle" THEN EscalateHeld(s, FALSE)
                ELSE [s EXCEPT !.leaveGrace = ~Empty(s.held)]
        /\ UNCHANGED <<rules, removed, helper>>

\* Mutant: with somebody present elsewhere, the hold is left as it is.
LeaveGraceEndsQuietly ==
    /\ s.leaveGrace
    /\ LET e == [s EXCEPT !.leaveGrace = FALSE]
       IN  s' = IF \A v \in Viewer : viewers[v] = "absent" THEN EscalateHeld(e, FALSE) ELSE e
    /\ UNCHANGED <<others, removed>>

LeaveGraceEnds ==
    /\ s.leaveGrace
    /\ LET e == [s EXCEPT !.leaveGrace = FALSE]
       IN  s' = IF \A v \in Viewer : viewers[v] = "absent" THEN EscalateHeld(e, FALSE)
                ELSE [e EXCEPT !.held = NoSources]
    /\ UNCHANGED <<others, removed>>

-----------------------------------------------------------------------------
(* Controls *)

Gesture ==
    /\ s' = Acknowledge(s, FALSE)
    /\ UNCHANGED <<others, removed>>

DismissAlert ==
    /\ s.here
    /\ s' = RingToTodo(s)
    /\ UNCHANGED <<others, removed>>

ToggleTodo ==
    /\ ~helper
    /\ s' = SetTodo(Here(s), ~s.todo)
    /\ UNCHANGED <<others, removed>>

ClearTodo ==
    /\ ~helper
    /\ s' = SetTodo(Here(s), FALSE)
    /\ UNCHANGED <<others, removed>>

\* setWatchedCommands: a rule that goes withdraws what it raised.
SetWatchedCommands(next) ==
    /\ next # rules
    /\ rules' = next
    /\ s' = Invalidate(s, Key \ next)
    /\ UNCHANGED <<viewers, removed, helper>>

SilenceRun ==
    /\ s.here
    /\ s' = EndRun([s EXCEPT !.command = NoCommand])
    /\ UNCHANGED <<others, removed>>

\* remove, and restart, which leaves no tombstone: a new PTY under the id.
Discard(tombstone) ==
    /\ s' = NewEntry
    /\ removed' = tombstone
    /\ helper' = FALSE
    /\ UNCHANGED <<viewers, rules>>

Seed(todo) ==
    /\ ~helper
    /\ s' = EndRun([Here(s) EXCEPT !.todo = todo, !.ring = NoSources, !.held = NoSources,
                                   !.ackedQuiet = FALSE, !.command = NoCommand])
    /\ UNCHANGED <<others, removed>>

\* A helper is one from its spawn until it is promoted, or again once its
\* placement failed.
SetHelper(on) ==
    /\ on => Demotes \/ s = NewEntry
    /\ helper' = on
    /\ UNCHANGED <<s, viewers, rules, removed>>

\* dispose: the rules alone outlive it.
Dispose ==
    /\ s' = NewEntry
    /\ removed' = FALSE /\ helper' = FALSE
    /\ viewers' = [v \in Viewer |-> "absent"]
    /\ UNCHANGED rules

Next ==
    \/ Dispose \/ OnData \/ DetectorTimer \/ OnExit \/ EchoEnds
    \/ \E userInput, startsWork \in BOOLEAN : OnWrite(userInput, startsWork)
    \/ Notify \/ ProgressGraceEnds \/ CommandEnd
    \/ \E ends \in BOOLEAN : ProgressUpdate(ends)
    \/ \E key \in Key \cup {NoKey} : CommandStart(key)
    \/ \E w \in Waiter : Await(w) \/ GraceEnds(w) \/ GiveUp(w)
    \/ \E v \in Viewer, at \in {"here", "elsewhere"} : SetViewer(v, at, "none")
    \/ \E v \in Viewer, lapse \in {"idle", "leave"} : SetViewer(v, "absent", lapse)
    \/ LeaveGraceEnds
    \/ Gesture \/ DismissAlert \/ ToggleTodo \/ ClearTodo \/ SilenceRun
    \/ \E next \in SUBSET Key : SetWatchedCommands(next)
    \/ \E b \in BOOLEAN : Discard(b) \/ Seed(b) \/ SetHelper(b)

\* The event loop runs the leave grace's timer.
Spec == Init /\ [][Next]_vars /\ WF_vars(LeaveGraceEnds)

-----------------------------------------------------------------------------
(* Properties *)

TypeOK ==
    /\ s \in Entry
    /\ viewers \in [Viewer -> {"absent", "here", "elsewhere"}]
    /\ rules \subseteq Key
    /\ {removed, helper} \subseteq BOOLEAN

\* A completion that is withheld waits for something: somebody still looks at the
\* Session, or the leave grace will decide it (setViewer, startLeaveGrace).
HeldIsUndecided == ~Empty(s.held) => Engaged \/ s.leaveGrace

\* And it is decided: once nobody looks, it rings, is dropped or is answered, unless
\* somebody looks again (startLeaveGrace's timer).
HeldIsDecided ==
    ~Empty(s.held) /\ ~Engaged ~> Empty(s.held) \/ Engaged

\* The latches agree: an acknowledged Session does not ring (ackedQuiet's own
\* comment), a hold is already a TODO, and a removed id, which only a semantic or
\* protocol event revives, neither rings, nor holds, nor keeps anybody waiting
\* (clearRingForUser, raiseRing, hold, discard, streamEntry).
LatchesAgree ==
    /\ s.ackedQuiet => Empty(s.ring)
    /\ ~Empty(s.held) => s.todo
    /\ removed => Empty(s.ring) /\ Empty(s.held) /\ Parked = {}

\* An await that may resolve idle has nothing in front of it: whatever starts or
\* ends a command in between (onCommandStart, awaitCompletion's grace).
IdleMeansIdle ==
    \A w \in Waiter : s.wait[w] = "grace" => ~s.command.runs

\* The sources a step adds to the ring or the hold, other than by ringing what
\* was held.
Joined ==
    (s'.ring.listed \cup s'.held.listed) \ (s.ring.listed \cup s.held.listed)

Watched(e) == {e.ring.key, e.held.key} \ {NoKey}

\* While an await stays parked, nothing it would have woken on reached the human:
\* a completion goes to every await that accepts it before any ring rule
\* (dispatchCompletion, addWaiter's one claimant). A helper's await is offered
\* nothing.
ParkedShieldsHuman ==
    [][\A w \in Waiter : s.wait[w] # "none" /\ s'.wait[w] # "none" =>
           /\ "exit" \notin Joined
           /\ Until[w] = "quiet" => Joined = {} /\ Watched(s') \subseteq Watched(s)]_vars

\* Nobody is summoned to the Session they are looking at: a ring opens or gains a
\* source only while it is not engaged (holdOrDeliver, escalateHeld).
RingsOnlyTheAbsent ==
    [][EngagedBy(viewers') =>
           /\ s'.ring.listed \subseteq s.ring.listed
           /\ s'.ring.key \in {s.ring.key, NoKey}]_vars

\* A TODO that goes takes the ring and the hold with it, so nothing held can
\* bring the same news back after the user cleared it (setTodoForUser).
ClearedStaysCleared ==
    [][s.todo /\ ~s'.todo => Empty(s'.ring) /\ Empty(s'.held)]_vars

=============================================================================
