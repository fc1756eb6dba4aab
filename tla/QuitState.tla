------------------------------ MODULE QuitState ------------------------------
(***************************************************************************)
(* The pure state machines of standalone/src-tauri/src/quit_state.rs: the  *)
(* quit machine (every window votes, then they are torn down one at a      *)
(* time), the per-window close handshake, the queue of teardown requests   *)
(* held behind Workspace transfers, and the gate that holds an approved    *)
(* exit behind the hand-backs of destroyed windows.                        *)
(*                                                                         *)
(* As in the source, a transition changes no window: it returns the new    *)
(* machine and the actions the caller owes, here the record [m, acts].     *)
(* Where the source walks a HashMap the order of its keys is arbitrary, so *)
(* an operator that starts the walk returns the SET of possible results.   *)
(***************************************************************************)
EXTENDS Integers, Sequences, FiniteSets

CONSTANTS Window,   \* window labels
          Main      \* the label that holds the updater and is torn down last

ASSUME MainIsAWindow == Main \in Window

ASSUME WindowsAreFinite == IsFiniteSet(Window)

-----------------------------------------------------------------------------
(* The quit machine *)

Phase == {"idle", "voting", "walking"}

Entry == [acked : BOOLEAN, voted : BOOLEAN]

DefaultEntry == [acked |-> FALSE, voted |-> FALSE]

\* The map of window entries: any set of labels.
EntryMap == UNION {[S -> Entry] : S \in SUBSET Window}

\* order and index are Walking's fields (index counts from 1) and rest at
\* <<>> and 1 in the other phases; restart is the quit's intent. The progress
\* counters are left to the watchdog that reads them (QuitFlow!Stalled).
Machine ==
    [seq      : Nat,
     approved : BOOLEAN,
     restart  : BOOLEAN,
     phase    : Phase,
     order    : Seq(Window),
     index    : Nat \ {0},
     windows  : EntryMap]

NewMachine ==
    [seq |-> 0, approved |-> FALSE, restart |-> FALSE, phase |-> "idle",
     order |-> <<>>, index |-> 1,
     windows |-> [w \in {} |-> DefaultEntry]]

RequestAll == [t |-> "requestAll"]
CancelAll == [t |-> "cancelAll"]
Teardown(w, last) == [t |-> "teardown", label |-> w, last |-> last]
Destroy(w) == [t |-> "destroy", label |-> w]
ExitApp == [t |-> "exit"]

Result(m, acts) == [m |-> m, acts |-> acts]

\* The entry of w, or a fresh one: HashMap's entry().or_default().
EntryOf(m, w) == IF w \in DOMAIN m.windows THEN m.windows[w] ELSE DefaultEntry

WithEntry(m, w, e) ==
    [m EXCEPT !.windows =
        [v \in DOMAIN m.windows \cup {w} |-> IF v = w THEN e ELSE m.windows[v]]]

WithoutEntry(m, w) ==
    [m EXCEPT !.windows = [v \in DOMAIN m.windows \ {w} |-> m.windows[v]]]

AllVoted(m) == \A w \in DOMAIN m.windows : m.windows[w].voted
AllAcked(m) == \A w \in DOMAIN m.windows : m.windows[w].acked

\* Mutant: main is torn down wherever the map's order puts it.
QuitOrdersAnyOrder(S) ==
    {o \in [1..Cardinality(S) -> S] :
        \A i, j \in 1..Cardinality(S) : i # j => o[i] # o[j]}

\* Teardown orders over S: any order of the others, main last.
QuitOrders(S) ==
    {o \in [1..Cardinality(S) -> S] :
        /\ \A i, j \in 1..Cardinality(S) : i # j => o[i] # o[j]
        /\ Main \in S => o[Cardinality(S)] = Main}

Exit(m) ==
    Result([m EXCEPT !.phase = "idle", !.order = <<>>, !.index = 1,
                     !.approved = TRUE],
           {ExitApp})

StartWalk(m) ==
    IF DOMAIN m.windows = {} THEN {Exit(m)}
    ELSE {Result([m EXCEPT !.phase = "walking", !.order = o, !.index = 1],
                 {Teardown(o[1], Len(o) = 1)})
            : o \in QuitOrders(DOMAIN m.windows)}

\* Mutant: a repeat trigger starts the vote over, whatever the phase.
RequestRestartsVote(m, labels, restart) ==
    LET n == [m EXCEPT !.seq = @ + 1, !.phase = "voting", !.restart = restart,
                       !.windows = [w \in labels |-> EntryOf(m, w)]]
    IN  IF labels = {} THEN Exit(n) ELSE Result(n, {RequestAll})

\* Mutant: a repeat trigger takes back the votes already cast.
RequestClearsVotes(m, labels, restart) ==
    LET n == [m EXCEPT !.seq = @ + 1,
                       !.restart = IF m.phase = "idle" /\ ~m.approved THEN restart ELSE @,
                       !.windows = [w \in labels |-> DefaultEntry]]
    IN  IF labels = {} THEN Exit(n)
        ELSE Result([n EXCEPT !.phase = IF @ = "walking" THEN @ ELSE "voting"],
                    {RequestAll})

\* A vote already cast stands through a repeat trigger, the walk in flight is
\* left alone, and only the trigger that leaves Idle unapproved sets the intent.
Request(m, labels, restart) ==
    LET idle == m.phase = "idle"
        n == [m EXCEPT
                !.seq = @ + 1,
                !.restart = IF idle /\ ~m.approved THEN restart ELSE @,
                !.windows = [w \in labels |->
                    [acked |-> FALSE, voted |-> ~idle /\ EntryOf(m, w).voted]]]
    IN  IF labels = {} THEN Exit(n)
        ELSE Result([n EXCEPT !.phase = IF @ = "walking" THEN @ ELSE "voting"],
                    {RequestAll})

Ack(m, w) == WithEntry(m, w, [EntryOf(m, w) EXCEPT !.acked = TRUE])

Progress(m, w) == WithEntry(m, w, EntryOf(m, w))

Vote(m, w) ==
    LET n == WithEntry(m, w, [EntryOf(m, w) EXCEPT !.voted = TRUE])
    IN  IF m.phase # "voting" THEN {Result(m, {})}
        ELSE IF AllVoted(n) THEN StartWalk(n)
        ELSE {Result(n, {})}

Cancel(m) ==
    IF m.phase # "voting" THEN Result(m, {})
    ELSE Result([m EXCEPT !.seq = @ + 1, !.phase = "idle", !.restart = FALSE,
                          !.windows = [w \in DOMAIN m.windows |->
                              [m.windows[w] EXCEPT !.voted = FALSE]]],
                {CancelAll})

\* The window the walk is at, if any.
Current(m) ==
    IF m.phase = "walking" /\ m.index <= Len(m.order)
    THEN {m.order[m.index]} ELSE {}

\* Mutant: the window before the last one is taken for the last.
WindowDoneLastTooEarly(m, w) ==
    LET next == m.index + 1
        n == [WithoutEntry(m, w) EXCEPT !.index = next]
    IN  IF w \notin Current(m) THEN Result(m, {})
        ELSE Result(n, {Destroy(w),
                IF next <= Len(m.order)
                THEN Teardown(m.order[next], next + 1 >= Len(m.order))
                ELSE ExitApp})

WindowDone(m, w) ==
    LET next == m.index + 1
        n == [WithoutEntry(m, w) EXCEPT !.index = next]
    IN  IF w \notin Current(m) THEN Result(m, {})
        ELSE Result(n, {Destroy(w),
                IF next <= Len(m.order)
                THEN Teardown(m.order[next], next = Len(m.order))
                ELSE ExitApp})

Proceed(m) == Result([m EXCEPT !.approved = TRUE], {ExitApp})

\* s without its i-th element.
DropAt(s, i) ==
    [k \in 1 .. Len(s) - 1 |-> IF k < i THEN s[k] ELSE s[k + 1]]

ForgetVoting(m) ==
    IF DOMAIN m.windows = {} THEN {Exit(m)}
    ELSE IF AllVoted(m) THEN StartWalk(m)
    ELSE {Result(m, {})}

\* Mutant: the index moves back for the window the walk is at, too.
ForgetWalkingSlips(m, w) ==
    LET at == CHOOSE i \in 1..Len(m.order) : m.order[i] = w
    IN  IF ~\E i \in 1..Len(m.order) : m.order[i] = w THEN Result(m, {})
        ELSE Result([m EXCEPT !.order = DropAt(m.order, at),
                              !.index = IF at <= @ THEN @ - 1 ELSE @], {})

ForgetWalking(m, w) ==
    LET at == CHOOSE i \in 1..Len(m.order) : m.order[i] = w
        order == DropAt(m.order, at)
        n == [m EXCEPT !.order = order,
                       !.index = IF at < @ THEN @ - 1 ELSE @]
    IN  IF ~\E i \in 1..Len(m.order) : m.order[i] = w THEN Result(m, {})
        ELSE IF order = <<>> THEN Exit(n)
        ELSE IF at # m.index THEN Result(n, {})
        ELSE IF m.index <= Len(order)
             THEN Result(n, {Teardown(order[m.index], m.index = Len(order))})
        ELSE Exit(n)

\* A window that leaves outside the flow is never waited on.
ForgetWindow(m, w) ==
    LET n == WithoutEntry(m, w)
    IN  CASE m.phase = "idle"    -> {Result(n, {})}
          [] m.phase = "voting"  -> ForgetVoting(n)
          [] m.phase = "walking" -> {ForgetWalking(n, w)}

Stale(m, seq) == m.seq # seq \/ m.approved

-----------------------------------------------------------------------------
(* The per-window close handshake; seq 0 is a label with no entry. *)

CloseEntry == [active : BOOLEAN, seq : Nat, acked : BOOLEAN]

NoClose == [active |-> FALSE, seq |-> 0, acked |-> FALSE]

CloseRequest(e) == [active |-> TRUE, seq |-> e.seq + 1, acked |-> FALSE]

CloseAck(e) == IF e.seq = 0 THEN e ELSE [e EXCEPT !.acked = TRUE]

\* Mutant: a retired close forgets its sequence number.
CloseClearForgets(e) == NoClose

\* The seq is bumped, never reused: a sleeping watchdog still holds the old one.
CloseClear(e) ==
    IF e.seq = 0 THEN e
    ELSE [active |-> FALSE, seq |-> e.seq + 1, acked |-> FALSE]

-----------------------------------------------------------------------------
(* Transfers in flight and the teardown requests they delay. *)

Arrival == [from : Window, to : Window]

Deferred == {"none", "quit", "restart"}

Queue == [records : SUBSET Arrival, quit : Deferred, closes : SUBSET Window]

Endpoint(q, w) == \E a \in q.records : w \in {a.from, a.to}

\* Only called with a transfer in flight; the first request fixes the intent.
DeferQuit(q, restart) ==
    [q EXCEPT !.quit = IF @ # "none" THEN @
                       ELSE IF restart THEN "restart" ELSE "quit",
              !.closes = {}]

\* Queue the closes of the labels S; a queued quit absorbs them.
DeferClose(q, S) ==
    [q EXCEPT !.closes = IF q.quit = "none" THEN @ \cup S ELSE @]

BlocksTransfer(q, from, to) ==
    q.quit # "none" \/ from \in q.closes \/ to \in q.closes

CancelDeferred(q) == [q EXCEPT !.quit = "none", !.closes = {}]

ForgetDeferredClose(q, w) == [q EXCEPT !.closes = @ \ {w}]

\* What the queue releases: the quit once nothing is in flight, else every
\* live window's close that is no endpoint. q is what stays queued.
TakeReady(q, live) ==
    LET kept == [q EXCEPT !.closes = @ \cap live]
        ready == {w \in kept.closes : ~Endpoint(q, w)}
    IN  IF q.quit # "none"
        THEN IF q.records = {}
             THEN [quit |-> q.quit, closes |-> {}, q |-> [kept EXCEPT !.quit = "none"]]
             ELSE [quit |-> "none", closes |-> {}, q |-> kept]
        ELSE [quit |-> "none", closes |-> ready,
              q |-> [kept EXCEPT !.closes = @ \ ready]]

-----------------------------------------------------------------------------
(* The gate an approved exit waits behind. *)

Gate == [pending : Nat, exitRequested : BOOLEAN, forced : BOOLEAN]

NewGate == [pending |-> 0, exitRequested |-> FALSE, forced |-> FALSE]

\* Mutant: one hand-back may still be running.
GateOpenTooEarly(g) == g.pending <= 1 \/ g.forced

GateOpen(g) == g.pending = 0 \/ g.forced

GateBegin(g) == [g EXCEPT !.pending = @ + 1]

GateRequestExit(g) == IF GateOpen(g) THEN g ELSE [g EXCEPT !.exitRequested = TRUE]

GateForces(g) == g.pending # 0 /\ g.exitRequested

GateFinishes(g) == g.pending = 1 /\ g.exitRequested

GateFinish(g) ==
    [g EXCEPT !.pending = @ - 1,
              !.exitRequested = IF GateFinishes(g) THEN FALSE ELSE @]

=============================================================================
