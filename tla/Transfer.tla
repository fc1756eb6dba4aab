------------------------------- MODULE Transfer -------------------------------
(***************************************************************************)
(* Moving a Workspace between windows while its shell keeps printing:      *)
(* standalone/src/workspace-move.ts in the windows, the arrival commands,  *)
(* RoutingState and dispatch_sidecar_event of standalone/src-tauri/src in  *)
(* the host, and mark and list of standalone/sidecar/pty-core.js.          *)
(*                                                                         *)
(* One Workspace with one PTY. Its output is the byte stream 1, 2, 3, ...; *)
(* a window that shows it has the sequence of bytes its terminal was       *)
(* given. Host and sidecar talk over two pipes, host and windows over one  *)
(* event channel each, all FIFO. A window's invoke and the host command it *)
(* runs are one step.                                                      *)
(*                                                                         *)
(* A deadline may pass at any moment of its wait, and a window may go away *)
(* at any moment. The auxiliary variable overtaken, which no action reads, *)
(* records that one of them came before the answer it was racing.          *)
(***************************************************************************)
EXTENDS Integers, Sequences, FiniteSets

CONSTANTS Window,        \* window labels
          NoWindow,      \* no window
          Home,          \* the window that holds the Workspace at the start
          Unopened,      \* labels no window has yet: targets of a tear-out
          MaxBytes,      \* bound: bytes the shell prints
          MaxMoves,      \* bound: moves the user starts
          MaxDestroyed   \* bound: windows that go away

ASSUME WindowsAreDistinct ==
    /\ NoWindow \notin Window
    /\ Unopened \subseteq Window
    /\ Home \in Window \ Unopened

ASSUME BoundsAreNumbers ==
    MaxBytes \in Nat /\ MaxMoves \in Nat /\ MaxDestroyed \in Nat

VARIABLES
    produced,   \* sidecar: bytes the shell printed
    stdin,      \* requests on their way to the sidecar
    stdout,     \* lines on their way from it
    live,       \* open windows
    gone,       \* windows that were destroyed
    owner,      \* owners: the window that owns the PTY
    awaiting,   \* awaiting_replay: its output is suppressed
    marking,    \* marking: the source still consuming its output
    cut,        \* transfer_marks: where the source's copy ends, or NoMark
    arrivals,   \* the Workspace's arrival record, if it is in flight
    lost,       \* arrivals of a destroyed window, with their worker
    toWin,      \* events on their way to each window
    place,      \* each window's part as the one that holds the Workspace
    adopting,   \* each window's part as the target
    stamp,      \* the mark each window's move captured its buffer at
    expecting,  \* the window listens for a hand-back's replay
    screen,     \* what each window's terminal was given
    mounted,    \* the windows that have a terminal for the PTY
    moves,      \* moves started so far
    overtaken   \* auxiliary: a wait was over before its answer came

hostVars == <<live, gone, owner, awaiting, marking, cut, arrivals, lost>>
winVars == <<toWin, place, stamp, adopting, expecting, screen, mounted>>
vars == <<produced, stdin, stdout, hostVars, winVars, moves, overtaken>>

-----------------------------------------------------------------------------

NoMark == -1

Mark == Nat \cup {NoMark}

\* The source's side of a move, in order. "held" is a Workspace at rest.
Moving == {"inflight", "captured", "sent"}
Place == {"none", "held", "probing", "prepared"} \cup Moving

\* The target's side: idle, waiting for its replay, mounted and not yet settled.
\* n is the arrival it took, part and mark what the source sent along.
Adopting == [phase : {"idle", "collecting", "planned"}, n : Nat, part : Seq(Nat)]

NotAdopting == [phase |-> "idle", n |-> 0, part |-> <<>>]

\* n stands for queued_at. ready: the content landed, with the buffer the
\* source serialized and its mark. pending: a tear-out's window is still to build.
Arrival ==
    [n : Nat, from : Window, to : Window, pending : BOOLEAN,
     ready : BOOLEAN, part : Seq(Nat), mark : Mark]

Request ==
    [t : {"mark"}] \cup [t : {"cwds"}, for : Window]
    \cup [t : {"init"}, for : Window, n : Nat, since : Mark]

Line ==
    [t : {"data"}, byte : Nat] \cup [t : {"marked"}, mark : Nat]
    \cup [t : {"cwds"}, for : Window]
    \cup [t : {"replay"}, for : Window, n : Nat, bytes : Seq(Nat)]

Event ==
    [t : {"data"}, byte : Nat] \cup [t : {"marked"}, mark : Nat]
    \cup [t : {"replay"}, n : Nat, bytes : Seq(Nat)]
    \cup [t : {"cwds", "departed"}] \cup [t : {"failed"}, replay : BOOLEAN]

\* The request id of a hand-back's replay; an arrival's is its own n.
HandBackId == 0

TypeOK ==
    /\ produced \in Nat
    /\ stdin \in Seq(Request)
    /\ stdout \in Seq(Line)
    /\ live \subseteq Window
    /\ gone \subseteq Window
    /\ owner \in Window \cup {NoWindow}
    /\ awaiting \in BOOLEAN
    /\ marking \in Window \cup {NoWindow}
    /\ cut \in Mark
    /\ arrivals \subseteq Arrival
    /\ \A a, b \in arrivals : a = b
    /\ lost \subseteq Arrival
    /\ toWin \in [Window -> Seq(Event)]
    /\ place \in [Window -> Place]
    /\ stamp \in [Window -> Mark]
    /\ adopting \in [Window -> Adopting]
    /\ expecting \in [Window -> BOOLEAN]
    /\ screen \in [Window -> Seq(Nat)]
    /\ mounted \subseteq Window
    /\ moves \in Nat
    /\ overtaken \in BOOLEAN
    /\ marking # NoWindow => ~awaiting /\ cut = NoMark

Init ==
    /\ produced = 0
    /\ stdin = <<>>
    /\ stdout = <<>>
    /\ live = Window \ Unopened
    /\ gone = {}
    /\ owner = Home
    /\ awaiting = FALSE
    /\ marking = NoWindow
    /\ cut = NoMark
    /\ arrivals = {}
    /\ lost = {}
    /\ toWin = [w \in Window |-> <<>>]
    /\ place = [w \in Window |-> IF w = Home THEN "held" ELSE "none"]
    /\ stamp = [w \in Window |-> NoMark]
    /\ adopting = [w \in Window |-> NotAdopting]
    /\ expecting = [w \in Window |-> FALSE]
    /\ screen = [w \in Window |-> <<>>]
    /\ mounted = {Home}
    /\ moves = 0
    /\ overtaken = FALSE

-----------------------------------------------------------------------------
(* The sidecar *)

Bytes(from, to) == [i \in 1 .. to - from |-> from + i]

\* The shell prints: the chunk is buffered and sent.
ShellPrints ==
    /\ produced < MaxBytes
    /\ produced' = produced + 1
    /\ stdout' = Append(stdout, [t |-> "data", byte |-> produced + 1])
    /\ UNCHANGED <<stdin, hostVars, winVars, moves, overtaken>>

\* mark stamps the position in the stream; list replays what follows the mark,
\* or the whole buffer without one.
Answer(r) ==
    CASE r.t = "mark" -> [t |-> "marked", mark |-> produced]
      [] r.t = "cwds" -> [t |-> "cwds", for |-> r.for]
      [] r.t = "init" ->
            [t |-> "replay", for |-> r.for, n |-> r.n,
             bytes |-> Bytes(IF r.since = NoMark THEN 0 ELSE r.since, produced)]

Serve ==
    /\ stdin # <<>>
    /\ stdin' = Tail(stdin)
    /\ stdout' = Append(stdout, Answer(Head(stdin)))
    /\ UNCHANGED <<produced, hostVars, winVars, moves, overtaken>>

-----------------------------------------------------------------------------
(* The host's reader thread: dispatch_sidecar_event *)

\* Events reach open windows only.
Emit(w, e) ==
    toWin' = IF w \in live THEN [toWin EXCEPT ![w] = Append(@, e)] ELSE toWin

\* The window showing the PTY.
Showing == IF marking # NoWindow THEN marking ELSE owner

HasLine(t) ==
    /\ stdout # <<>>
    /\ Head(stdout).t = t

TakeLine == stdout' = Tail(stdout)

DispatchData ==
    /\ HasLine("data")
    /\ TakeLine
    /\ IF awaiting THEN UNCHANGED toWin ELSE Emit(Showing, Head(stdout))
    /\ UNCHANGED <<produced, stdin, hostVars, place, stamp, adopting,
                   expecting, screen, mounted, moves, overtaken>>

\* Mutant: the source is still taken to be consuming past its mark.
DispatchMarkedKeeps ==
    /\ HasLine("marked")
    /\ TakeLine
    /\ Emit(Showing, Head(stdout))
    /\ IF marking # NoWindow
       THEN cut' = Head(stdout).mark /\ awaiting' = TRUE
       ELSE UNCHANGED <<cut, awaiting>>
    /\ UNCHANGED <<produced, stdin, live, gone, owner, marking, arrivals, lost,
                   place, stamp, adopting, expecting, screen, mounted, moves,
                   overtaken>>

\* The mark goes to the window still consuming, and ends its consuming.
DispatchMarked ==
    /\ HasLine("marked")
    /\ TakeLine
    /\ Emit(Showing, Head(stdout))
    /\ IF marking # NoWindow
       THEN /\ marking' = NoWindow
            /\ cut' = Head(stdout).mark
            /\ awaiting' = TRUE
       ELSE UNCHANGED <<marking, cut, awaiting>>
    /\ UNCHANGED <<produced, stdin, live, gone, owner, arrivals, lost, place,
                   stamp, adopting, expecting, screen, mounted, moves,
                   overtaken>>

\* Mutant: the replay passes and the suppression stays.
DispatchReplayKeeps ==
    /\ HasLine("replay")
    /\ TakeLine
    /\ Emit(Head(stdout).for, [t |-> "replay", n |-> Head(stdout).n,
                               bytes |-> Head(stdout).bytes])
    /\ UNCHANGED <<produced, stdin, hostVars, place, stamp, adopting,
                   expecting, screen, mounted, moves, overtaken>>

\* A replay goes to the window that asked, then lifts the suppression.
DispatchReplay ==
    /\ HasLine("replay")
    /\ TakeLine
    /\ Emit(Head(stdout).for, [t |-> "replay", n |-> Head(stdout).n,
                               bytes |-> Head(stdout).bytes])
    /\ awaiting' = FALSE
    /\ UNCHANGED <<produced, stdin, live, gone, owner, marking, cut, arrivals,
                   lost, place, stamp, adopting, expecting, screen, mounted,
                   moves, overtaken>>

DispatchCwds ==
    /\ HasLine("cwds")
    /\ TakeLine
    /\ Emit(Head(stdout).for, [t |-> "cwds"])
    /\ UNCHANGED <<produced, stdin, hostVars, place, stamp, adopting,
                   expecting, screen, mounted, moves, overtaken>>

\* sweep_awaiting: a suppression no arrival claims is released after its bound.
Sweep ==
    /\ awaiting
    /\ arrivals = {}
    /\ awaiting' = FALSE
    /\ overtaken' = TRUE
    /\ UNCHANGED <<produced, stdin, stdout, live, gone, owner, marking, cut,
                   arrivals, lost, winVars, moves>>

-----------------------------------------------------------------------------
(* The host: settling an arrival *)

\* Mutant: the PTY stays with the target that refused the Workspace.
HandBackKeepsOwner(a) ==
    /\ cut' = NoMark
    /\ marking' = NoWindow
    /\ awaiting' = (a.from \in live /\ cut # NoMark)
    /\ stdin' = IF a.from \in live /\ cut # NoMark
                THEN Append(stdin, [t |-> "init", for |-> a.from,
                                    n |-> HandBackId, since |-> cut])
                ELSE stdin
    /\ Emit(a.from, [t |-> "failed", replay |-> cut # NoMark])
    /\ UNCHANGED owner

\* Mutant: the PTY goes back with nothing held until its replay.
HandBackUnsuppressed(a) ==
    /\ owner' = IF a.from \in live THEN a.from ELSE NoWindow
    /\ awaiting' = FALSE
    /\ cut' = NoMark
    /\ marking' = NoWindow
    /\ stdin' = IF a.from \in live /\ cut # NoMark
                THEN Append(stdin, [t |-> "init", for |-> a.from,
                                    n |-> HandBackId, since |-> cut])
                ELSE stdin
    /\ Emit(a.from, [t |-> "failed", replay |-> cut # NoMark])

\* Mutant: the source is not told that the move failed.
HandBackSilent(a) ==
    /\ owner' = IF a.from \in live THEN a.from ELSE NoWindow
    /\ awaiting' = FALSE
    /\ cut' = NoMark
    /\ marking' = NoWindow
    /\ UNCHANGED <<stdin, toWin>>

\* hand_back_arrival. A marked PTY goes back suppressed, behind a replay of what
\* its source missed; with the source gone too the PTY belongs to nobody.
HandBack(a) ==
    IF a.from \in live
    THEN LET marked == cut # NoMark
             known == marked \/ marking # NoWindow \/ owner # NoWindow
         IN  /\ owner' = IF known THEN a.from ELSE owner
             /\ awaiting' = IF known THEN marked ELSE awaiting
             /\ stdin' = IF marked
                         THEN Append(stdin, [t |-> "init", for |-> a.from,
                                             n |-> HandBackId, since |-> cut])
                         ELSE stdin
             /\ toWin' = [toWin EXCEPT ![a.from] =
                            Append(@, [t |-> "failed", replay |-> marked])]
             /\ cut' = NoMark
             /\ marking' = NoWindow
    ELSE /\ owner' = NoWindow
         /\ awaiting' = FALSE
         /\ cut' = NoMark
         /\ marking' = NoWindow
         /\ UNCHANGED <<stdin, toWin>>

\* A replay some window asked for as a target is still in the pipes.
Outstanding(w) ==
    \/ \E i \in 1..Len(stdin) :
          stdin[i].t = "init" /\ stdin[i].for = w /\ stdin[i].n # HandBackId
    \/ \E i \in 1..Len(stdout) :
          stdout[i].t = "replay" /\ stdout[i].for = w /\ stdout[i].n # HandBackId

\* The arrival watchdog retires the exact record it was armed for.
Expire(a) ==
    /\ a \in arrivals
    /\ arrivals' = arrivals \ {a}
    /\ HandBack(a)
    /\ overtaken' = (overtaken \/ adopting[a.to].phase # "idle")
    /\ UNCHANGED <<produced, stdout, live, gone, lost, place, stamp, adopting,
                   expecting, screen, mounted, moves>>

\* A window goes away: drop_window. Arrivals into it go to a worker; a PTY it
\* owns outright is reaped.
Destroyed(w) ==
    LET mine == {a \in arrivals : a.to = w}
    IN  /\ w \in live
        /\ Cardinality(gone) < MaxDestroyed
        /\ live' = live \ {w}
        /\ gone' = gone \cup {w}
        /\ arrivals' = arrivals \ mine
        /\ lost' = lost \cup mine
        /\ owner' = IF mine # {} \/ owner = w THEN NoWindow ELSE owner
        /\ awaiting' = (awaiting /\ mine = {})
        /\ toWin' = [toWin EXCEPT ![w] = <<>>]
        /\ place' = [place EXCEPT ![w] = "none"]
        /\ stamp' = [stamp EXCEPT ![w] = NoMark]
        /\ adopting' = [adopting EXCEPT ![w] = NotAdopting]
        /\ expecting' = [expecting EXCEPT ![w] = FALSE]
        /\ screen' = [screen EXCEPT ![w] = <<>>]
        /\ mounted' = mounted \ {w}
        /\ overtaken' = (overtaken \/ Outstanding(w))
        /\ UNCHANGED <<produced, stdin, stdout, marking, cut, moves>>

HandBackLost(a) ==
    /\ a \in lost
    /\ lost' = lost \ {a}
    /\ HandBack(a)
    /\ UNCHANGED <<produced, stdout, live, gone, arrivals, place, stamp,
                   adopting, expecting, screen, mounted, moves, overtaken>>

-----------------------------------------------------------------------------
(* The source window: startMove and handOff *)

StartMove(w) ==
    /\ w \in live
    /\ place[w] = "held"
    /\ moves < MaxMoves
    /\ moves' = moves + 1
    /\ place' = [place EXCEPT ![w] = "probing"]
    /\ stdin' = Append(stdin, [t |-> "cwds", for |-> w])
    /\ UNCHANGED <<produced, stdout, hostVars, toWin, stamp, adopting,
                   expecting, screen, mounted, overtaken>>

\* The host's begin_arrival: ownership moves at once, the source consumes on
\* until its mark, and the sidecar is asked to stamp it.
BeginTransfer(w, to) ==
    /\ w \in live
    /\ place[w] = "prepared"
    /\ to \in (live \ {w}) \cup (Unopened \ (live \cup gone))
    /\ arrivals = {}
    /\ arrivals' = {[n |-> moves, from |-> w, to |-> to, pending |-> to \notin live,
                     ready |-> FALSE, part |-> <<>>, mark |-> NoMark]}
    /\ owner' = IF owner # NoWindow THEN to ELSE owner
    /\ awaiting' = FALSE
    /\ cut' = NoMark
    /\ marking' = w
    /\ stdin' = Append(stdin, [t |-> "mark"])
    /\ place' = [place EXCEPT ![w] = "inflight"]
    /\ UNCHANGED <<produced, stdout, live, gone, lost, toWin, stamp, adopting,
                   expecting, screen, mounted, moves, overtaken>>

\* Preparation fails, or the host refuses the move: the window is as it was.
MoveRefused(w) ==
    /\ w \in live
    /\ place[w] = "prepared"
    /\ place' = [place EXCEPT ![w] = "held"]
    /\ UNCHANGED <<produced, stdin, stdout, hostVars, toWin, stamp, adopting,
                   expecting, screen, mounted, moves, overtaken>>

\* MARK_TIMEOUT_MS: the move goes on without the mark.
MarkTimeout(w) ==
    /\ w \in live
    /\ place[w] = "inflight"
    /\ place' = [place EXCEPT ![w] = "captured"]
    /\ stamp' = [stamp EXCEPT ![w] = NoMark]
    /\ overtaken' = TRUE
    /\ UNCHANGED <<produced, stdin, stdout, hostVars, toWin, adopting,
                   expecting, screen, mounted, moves>>

\* Mutant: the source lets the Workspace go once its content is sent.
SendContentLetsGo(w) ==
    /\ w \in live
    /\ place[w] = "captured"
    /\ place' = [place EXCEPT ![w] = "none"]
    /\ mounted' = mounted \ {w}
    /\ arrivals' = {IF a.from = w
                    THEN [a EXCEPT !.ready = TRUE, !.part = screen[w],
                                   !.mark = stamp[w], !.pending = FALSE]
                    ELSE a : a \in arrivals}
    /\ live' = live \cup {a.to : a \in {b \in arrivals : b.from = w /\ b.pending}}
    /\ UNCHANGED <<produced, stdin, stdout, gone, owner, awaiting, marking,
                   cut, lost, toWin, stamp, adopting, expecting, screen, moves,
                   overtaken>>

\* transfer_workspace_content: the content is attached, if the arrival is still
\* there, and a torn-out window is built from it.
SendContent(w) ==
    /\ w \in live
    /\ place[w] = "captured"
    /\ place' = [place EXCEPT ![w] = "sent"]
    /\ arrivals' = {IF a.from = w
                    THEN [a EXCEPT !.ready = TRUE, !.part = screen[w],
                                   !.mark = stamp[w], !.pending = FALSE]
                    ELSE a : a \in arrivals}
    /\ live' = live \cup {a.to : a \in {b \in arrivals : b.from = w /\ b.pending}}
    /\ UNCHANGED <<produced, stdin, stdout, gone, owner, awaiting, marking,
                   cut, lost, toWin, stamp, adopting, expecting, screen,
                   mounted, moves, overtaken>>

\* The torn-out window cannot be built: the arrival is handed back.
BuildFails(w) ==
    \E a \in arrivals :
        /\ w \in live
        /\ a.from = w /\ a.pending
        /\ place[w] = "captured"
        /\ place' = [place EXCEPT ![w] = "sent"]
        /\ arrivals' = arrivals \ {a}
        /\ HandBack(a)
        /\ UNCHANGED <<produced, stdout, live, gone, lost, stamp, adopting,
                       expecting, screen, mounted, moves, overtaken>>

-----------------------------------------------------------------------------
(* The target window: adoptWorkspace *)

\* take_arrivals and adopt_ready: the collector is armed and the host asks for
\* this arrival's PTY.
AdoptReady(w) ==
    \E a \in arrivals :
        /\ w \in live
        /\ a.to = w /\ a.ready
        /\ adopting[w].phase = "idle"
        /\ adopting' = [adopting EXCEPT ![w] =
                          [phase |-> "collecting", n |-> a.n, part |-> a.part]]
        /\ stdin' = Append(stdin, [t |-> "init", for |-> w, n |-> a.n, since |-> a.mark])
        /\ UNCHANGED <<produced, stdout, hostVars, toWin, place, stamp,
                       expecting, screen, mounted, moves, overtaken>>

\* discardArrival: released, never killed.
Discard(w) ==
    /\ adopting' = [adopting EXCEPT ![w] = NotAdopting]
    /\ screen' = [screen EXCEPT ![w] = <<>>]
    /\ mounted' = mounted \ {w}

\* take_arrival: the record queued for w, whichever move it is of.
QueuedFor(w) == {a \in arrivals : a.to = w}

\* adopt_done settles the record and releases the source; refused, the target
\* unwinds its mount.
AdoptDone(w) ==
    /\ w \in live
    /\ adopting[w].phase = "planned"
    /\ \/ /\ QueuedFor(w) = {}
          /\ Discard(w)
          /\ UNCHANGED <<arrivals, awaiting, marking, cut, toWin, place>>
       \/ \E a \in QueuedFor(w) :
            /\ arrivals' = arrivals \ {a}
            /\ awaiting' = FALSE
            /\ cut' = NoMark
            /\ marking' = NoWindow
            /\ Emit(a.from, [t |-> "departed"])
            /\ place' = [place EXCEPT ![w] = "held"]
            /\ adopting' = [adopting EXCEPT ![w] = NotAdopting]
            /\ UNCHANGED <<screen, mounted>>
    /\ UNCHANGED <<produced, stdin, stdout, live, gone, owner, lost, stamp,
                   expecting, moves, overtaken>>

\* ARRIVAL_TIMEOUT_MS passes between the list and its replay, which follow each
\* other through the pipes: the target goes on with what the source sent alone.
PlanWithoutReplay(w) ==
    LET mine(l) == l.t = "replay" /\ l.n = adopting[w].n
        listed == IF toWin[w] # <<>> THEN mine(Head(toWin[w]))
                  ELSE HasLine("replay") /\ mine(Head(stdout)) /\ Head(stdout).for = w
    IN  /\ w \in live
        /\ adopting[w].phase = "collecting"
        /\ listed
        /\ screen' = [screen EXCEPT ![w] = adopting[w].part]
        /\ mounted' = mounted \cup {w}
        /\ adopting' = [adopting EXCEPT ![w].phase = "planned"]
        /\ overtaken' = TRUE
        /\ UNCHANGED <<produced, stdin, stdout, hostVars, toWin, place, stamp,
                       expecting, moves>>

\* The collector timed out without a list, or the mount threw: adopt_failed.
AdoptFailed(w) ==
    /\ w \in live
    /\ adopting[w].phase \in {"collecting", "planned"}
    /\ Discard(w)
    /\ arrivals' = arrivals \ QueuedFor(w)
    /\ \/ /\ QueuedFor(w) = {}
          /\ UNCHANGED <<owner, awaiting, marking, cut, stdin, toWin>>
       \/ \E a \in QueuedFor(w) : HandBack(a)
    /\ overtaken' = (overtaken \/ Outstanding(w))
    /\ UNCHANGED <<produced, stdout, live, gone, lost, place, stamp, expecting, moves>>

-----------------------------------------------------------------------------
(* A window's events *)

HasEvent(w, t) ==
    /\ w \in live
    /\ toWin[w] # <<>>
    /\ Head(toWin[w]).t = t

TakeEvent(w) == toWin' = [toWin EXCEPT ![w] = Tail(@)]

\* The terminal of w, if it has one, is given bytes.
Write(w, bytes) ==
    screen' = IF w \in mounted THEN [screen EXCEPT ![w] = @ \o bytes] ELSE screen

OnData(w) ==
    /\ HasEvent(w, "data")
    /\ TakeEvent(w)
    /\ Write(w, <<Head(toWin[w]).byte>>)
    /\ UNCHANGED <<produced, stdin, stdout, hostVars, place, stamp, adopting,
                   expecting, mounted, moves, overtaken>>

OnCwds(w) ==
    /\ HasEvent(w, "cwds")
    /\ TakeEvent(w)
    /\ place' = [place EXCEPT ![w] = IF @ = "probing" THEN "prepared" ELSE @]
    /\ UNCHANGED <<produced, stdin, stdout, hostVars, stamp, adopting,
                   expecting, screen, mounted, moves, overtaken>>

\* The source's mark passed: it holds exactly the bytes before it.
OnMarked(w) ==
    /\ HasEvent(w, "marked")
    /\ TakeEvent(w)
    /\ IF place[w] = "inflight"
       THEN /\ place' = [place EXCEPT ![w] = "captured"]
            /\ stamp' = [stamp EXCEPT ![w] = Head(toWin[w]).mark]
       ELSE UNCHANGED <<place, stamp>>
    /\ UNCHANGED <<produced, stdin, stdout, hostVars, adopting, expecting,
                   screen, mounted, moves, overtaken>>

\* A replay: of the arrival w collects for, of a hand-back, or nobody's.
OnReplay(w) ==
    LET e == Head(toWin[w])
        collected == adopting[w].phase = "collecting" /\ e.n = adopting[w].n
        returned == e.n = HandBackId /\ expecting[w]
    IN  /\ HasEvent(w, "replay")
        /\ TakeEvent(w)
        /\ \/ /\ collected
              /\ screen' = [screen EXCEPT ![w] = adopting[w].part \o e.bytes]
              /\ mounted' = mounted \cup {w}
              /\ adopting' = [adopting EXCEPT ![w].phase = "planned"]
              /\ UNCHANGED expecting
           \/ /\ returned
              /\ Write(w, e.bytes)
              /\ expecting' = [expecting EXCEPT ![w] = FALSE]
              /\ UNCHANGED <<mounted, adopting>>
           \/ /\ ~collected /\ ~returned
              /\ UNCHANGED <<screen, mounted, adopting, expecting>>
        /\ UNCHANGED <<produced, stdin, stdout, hostVars, place, stamp, moves,
                       overtaken>>

\* handleArrivalFailed: the Workspace is simply still here.
OnFailed(w) ==
    /\ HasEvent(w, "failed")
    /\ TakeEvent(w)
    /\ IF place[w] \in Moving
       THEN /\ place' = [place EXCEPT ![w] = "held"]
            /\ expecting' = [expecting EXCEPT ![w] = @ \/ Head(toWin[w]).replay]
       ELSE UNCHANGED <<place, expecting>>
    /\ UNCHANGED <<produced, stdin, stdout, hostVars, stamp, adopting, screen,
                   mounted, moves, overtaken>>

\* handleDeparted: the point of no return.
OnDeparted(w) ==
    /\ HasEvent(w, "departed")
    /\ TakeEvent(w)
    /\ IF place[w] \in Moving
       THEN /\ place' = [place EXCEPT ![w] = "none"]
            /\ screen' = [screen EXCEPT ![w] = <<>>]
            /\ mounted' = mounted \ {w}
       ELSE UNCHANGED <<place, screen, mounted>>
    /\ UNCHANGED <<produced, stdin, stdout, hostVars, stamp, adopting,
                   expecting, moves, overtaken>>

\* HAND_BACK_REPLAY_TIMEOUT_MS: the window stops listening.
HandBackReplayTimeout(w) ==
    /\ w \in live
    /\ expecting[w]
    /\ expecting' = [expecting EXCEPT ![w] = FALSE]
    /\ overtaken' = TRUE
    /\ UNCHANGED <<produced, stdin, stdout, hostVars, toWin, place, stamp,
                   adopting, screen, mounted, moves>>

-----------------------------------------------------------------------------
(* The specification *)

\* What the pipes, the reader thread and the workers keep doing.
HostStep ==
    \/ Serve
    \/ DispatchData \/ DispatchMarked \/ DispatchReplay \/ DispatchCwds
    \/ \E a \in lost : HandBackLost(a)

\* A window that is not wedged takes its events.
WindowStep ==
    \E w \in Window :
        \/ OnData(w) \/ OnCwds(w) \/ OnMarked(w) \/ OnReplay(w)
        \/ OnFailed(w) \/ OnDeparted(w)

SourceStep == \E w \in Window : SendContent(w) \/ BuildFails(w)

TargetStep ==
    \E w \in Window :
        AdoptReady(w) \/ PlanWithoutReplay(w) \/ AdoptDone(w) \/ AdoptFailed(w)

\* Deadlines, users and windows that go away.
Optional ==
    \/ ShellPrints
    \/ Sweep
    \/ \E w \in Window :
        \/ StartMove(w) \/ MoveRefused(w) \/ MarkTimeout(w)
        \/ HandBackReplayTimeout(w) \/ Destroyed(w)
        \/ \E to \in Window : BeginTransfer(w, to)

Watchdog == \E a \in arrivals : Expire(a)

Next == HostStep \/ WindowStep \/ SourceStep \/ TargetStep \/ Watchdog \/ Optional

\* The target may be wedged, so nothing is assumed of TargetStep: the arrival
\* watchdog is what settles the move then.
Fairness ==
    WF_vars(HostStep) /\ WF_vars(WindowStep) /\ WF_vars(SourceStep) /\ WF_vars(Watchdog)

Spec == Init /\ [][Next]_vars /\ Fairness

-----------------------------------------------------------------------------
(* Properties *)

\* No byte is painted twice and none is skipped, in any terminal at any moment:
\* what a window's terminal was given is a prefix of the stream. So it is until a
\* wait is over before its answer came: a deadline, or a target destroyed with its
\* replay still in the pipes. workspace-move.ts, header; transport.md,
\* Transferring a Workspace.
SeamIsExact ==
    ~overtaken => \A w \in mounted : screen[w] = Bytes(0, Len(screen[w]))

Quiet ==
    /\ stdin = <<>> /\ stdout = <<>>
    /\ \A w \in live : toWin[w] = <<>> /\ adopting[w].phase = "idle"
    /\ arrivals = {} /\ lost = {}

\* Once everything settled the Workspace is in exactly one window, which owns the
\* PTY and is not silenced, and which shows everything it printed unless a wait was
\* over before its answer came; or it went away with its window and nobody owns
\* the PTY. hand_back_arrival, adopt_done, drop_window.
SettledInOnePlace ==
    Quiet =>
        \/ owner = NoWindow /\ \A w \in live : place[w] = "none" /\ w \notin mounted
        \/ /\ owner \in live /\ ~awaiting /\ marking = NoWindow
           /\ ~overtaken => screen[owner] = Bytes(0, produced)
           /\ \A w \in live : (w \in mounted) = (w = owner)
           /\ \A w \in live : (place[w] # "none") = (w = owner)

\* A Workspace is never nowhere: as long as an open window owns its shell some
\* open window has it mounted, unless it is in flight from a window that is gone.
\* handOff keeps it mounted until handleDeparted, adopt_done precedes that.
NeverNowhere ==
    owner \in live =>
        \/ \E w \in live : place[w] # "none" /\ w \in mounted
        \/ \E a \in arrivals : a.from \in gone

\* A move ends: the target takes the Workspace or the source has it back, though
\* the target is wedged. spawn_arrival_watchdog.
MoveSettles ==
    \A w \in Window : place[w] \in Moving ~> (place[w] \in {"held", "none"})

\* A terminal is not silenced for good: suppression ends with a replay or with
\* the arrival. dispatch_sidecar_event, adopt_done, hand_back_arrival.
SuppressionEnds == awaiting ~> ~awaiting

=============================================================================
