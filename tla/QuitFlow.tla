------------------------------- MODULE QuitFlow -------------------------------
(***************************************************************************)
(* Quit and per-window close of the standalone app: the Rust host          *)
(* (standalone/src-tauri/src/lib.rs) drives the machines of QuitState, and *)
(* each window's webview answers through the flow of                       *)
(* standalone/src/teardown-flow.ts, quit.ts and window-close.ts.           *)
(*                                                                         *)
(* Host and webview talk over two FIFO channels per window: events (emit)  *)
(* and commands (invoke). Host handlers run on the main thread, one at a   *)
(* time, so each is one action; the steps a handler posts for later (a     *)
(* window's Destroyed event, the ExitRequested event, the redrive of       *)
(* deferred requests, a watchdog's expiry) are actions of their own.       *)
(*                                                                         *)
(* Time is not modelled. A watchdog may fire whenever the answer it waits  *)
(* for cannot come any more: the webview is wedged, or has answered the    *)
(* very request the watchdog was spawned for (the field n of messages and  *)
(* watchdogs names the trigger, and exists only for this).                 *)
(***************************************************************************)
EXTENDS QuitState

CONSTANTS InitialWindows,   \* the windows open at the start
          MaxTriggers,      \* bound: quit and close triggers by the user
          MaxTransfers,     \* bound: Workspace transfers begun
          MaxWedged,        \* bound: webviews whose listeners die
          Reopens           \* bound: closed windows brought back by Reopen

ASSUME BoundsAreNumbers ==
    /\ MaxTriggers \in Nat
    /\ MaxTransfers \in Nat
    /\ MaxWedged \in Nat
    /\ Reopens \in Nat

ASSUME InitialWindowsAreOpen ==
    InitialWindows \subseteq Window /\ InitialWindows # {}

VARIABLES
    live,       \* webview_windows(): labels Tauri still lists
    dying,      \* destroy() posted, Destroyed not yet delivered
    opened,     \* labels ever used; a label is never reused
    closing,    \* labels whose saves are refused for good
    m,          \* the quit machine
    close,      \* the close machine, an entry per label
    queue,      \* transfers in flight and deferred requests
    gate,       \* the cleanup gate
    workers,    \* hand-back workers of destroyed windows, still running
    redrive,    \* a redrive closure is posted to the main thread
    exitPosted, \* an ExitRequested event is posted
    exited,     \* "running", "exited" or "relaunched"
    watch,      \* live watchdog threads
    toWin,      \* events on their way to each webview
    toHost,     \* commands on their way from each webview
    view,       \* each webview's teardown state
    triggers,   \* triggers so far
    transfers,  \* transfers begun so far
    reopened,   \* windows reopened so far
    closedCleanly, \* closed windows the host can still reopen
    promised,   \* ghost: what this quit's triggers were told the app will do
    unasked     \* ghost: windows reopened since the quit asked the windows

hostVars == <<live, dying, opened, closing, m, close, queue, gate, workers,
              redrive, exitPosted, exited, watch, closedCleanly>>
viewVars == <<toWin, toHost, view>>
boundVars == <<triggers, transfers, reopened>>
vars == <<hostVars, viewVars, boundVars, promised, unasked>>

-----------------------------------------------------------------------------
(* Webview state *)

\* A flow is idle, has its question open (about unsaved files, then about
\* running work), or has committed. A committed close goes through its teardown.
QuitPhases == {"idle", "confirming", "committed"}
ClosePhases == {"idle", "confirming", "removing", "killing", "ended"}

\* holder: the flow that owns the window's one dialog. td: the quit teardown
\* ("walk" ends in quit_window_done, "last" in quit_proceed).
View == [quit : QuitPhases, close : ClosePhases,
         holder : {"none", "quit", "close"},
         td : {"none", "walk", "last", "done"}, wedged : BOOLEAN]

NewView == [quit |-> "idle", close |-> "idle", holder |-> "none",
            td |-> "none", wedged |-> FALSE]

Event ==
    [t : {"quitRequested", "closeRequested"}, n : Nat]
    \cup [t : {"quitCancelled", "departed"}]
    \cup [t : {"quitTeardown"}, last : BOOLEAN]

Command ==
    [t : {"quitAck", "closeAck"}, n : Nat]
    \cup [t : {"quitVote", "quitProgress", "quitCancel", "quitWindowDone",
               "quitProceed", "closeCancel", "removeSession", "closeWindow"}]

Watchdog ==
    [kind : {"ack", "stall"}, seq : Nat, n : Nat]
    \cup [kind : {"close"}, label : Window, seq : Nat, n : Nat]
    \cup [kind : {"gate"}]

TypeOK ==
    /\ live \subseteq opened
    /\ dying \subseteq live
    /\ opened \subseteq Window
    /\ closing \subseteq Window
    /\ m \in Machine
    /\ close \in [Window -> CloseEntry]
    /\ queue \in Queue
    /\ gate \in Gate
    /\ workers \in Nat
    /\ redrive \in BOOLEAN
    /\ exitPosted \in BOOLEAN
    /\ exited \in {"running", "exited", "relaunched"}
    /\ watch \subseteq Watchdog
    /\ toWin \in [Window -> Seq(Event)]
    /\ toHost \in [Window -> Seq(Command)]
    /\ view \in [Window -> View]
    /\ triggers \in Nat
    /\ transfers \in Nat
    /\ reopened \in Nat
    /\ closedCleanly \in Nat
    /\ promised \subseteq {"exited", "relaunched"}
    /\ unasked \subseteq Window

Init ==
    /\ live = InitialWindows
    /\ dying = {}
    /\ opened = InitialWindows
    /\ closing = {}
    /\ m = NewMachine
    /\ close = [w \in Window |-> NoClose]
    /\ queue = [records |-> {}, quit |-> "none", closes |-> {}]
    /\ gate = NewGate
    /\ workers = 0
    /\ redrive = FALSE
    /\ exitPosted = FALSE
    /\ exited = "running"
    /\ watch = {}
    /\ toWin = [w \in Window |-> <<>>]
    /\ toHost = [w \in Window |-> <<>>]
    /\ view = [w \in Window |-> NewView]
    /\ triggers = 0
    /\ transfers = 0
    /\ reopened = 0
    /\ closedCleanly = 0
    /\ promised = {}
    /\ unasked = {}

-----------------------------------------------------------------------------
(* Host: performing what a machine transition asked for *)

Running == exited = "running"

\* Tags of the actions in a result.
Owes(r, t) == \E a \in r.acts : a.t = t

\* The events r emits to w, in the order the source emits them.
Emits(r, w, n) ==
    (IF Owes(r, "requestAll") THEN <<[t |-> "quitRequested", n |-> n]>> ELSE <<>>)
    \o (IF Owes(r, "cancelAll") THEN <<[t |-> "quitCancelled"]>> ELSE <<>>)
    \o (IF \E b \in BOOLEAN : Teardown(w, b) \in r.acts
        THEN <<[t |-> "quitTeardown", last |-> Teardown(w, TRUE) \in r.acts]>>
        ELSE <<>>)

\* The state a host handler performs its actions on.
Now == [live |-> live, toWin |-> toWin, gate |-> gate, posted |-> exitPosted]

\* apply_quit_actions on the state s. An Exit behind the cleanup gate waits
\* there, with a watchdog from the first wait on. Tauri itself asks the app to
\* exit when its last window goes. wd are the watchdogs the caller spawns.
Apply(r, s, wd, n) ==
    LET exits == Owes(r, "exit")
        passes == exits /\ GateOpen(s.gate)
        waits == exits /\ ~GateOpen(s.gate) /\ ~s.gate.exitRequested
    IN  /\ m' = IF passes THEN [r.m EXCEPT !.approved = TRUE] ELSE r.m
        /\ gate' = IF exits THEN GateRequestExit(s.gate) ELSE s.gate
        /\ exitPosted' = (s.posted \/ passes \/ (s.live = {} /\ live # {}))
        /\ watch' = watch \cup wd \cup (IF waits THEN {[kind |-> "gate"]} ELSE {})
        /\ toWin' = [w \in Window |-> IF w \in s.live
                                      THEN s.toWin[w] \o Emits(r, w, n)
                                      ELSE s.toWin[w]]
        /\ dying' = (dying \cup {w \in Window : Destroy(w) \in r.acts}) \cap s.live

\* How the app ends, by the quit's intent.
Outcome(restart) == IF restart THEN "relaunched" ELSE "exited"

\* request_quit with the queue q. Returns early when the quit has to wait for a
\* transfer. The answer is what quit_restart reports to its caller.
RequestQuit(restart, q, s, n) ==
    IF q.records # {}
    THEN /\ queue' = DeferQuit(q, restart)
         /\ promised' = promised \cup {Outcome(queue'.quit = "restart")}
         /\ exitPosted' = s.posted
         /\ UNCHANGED <<m, gate, watch, toWin, dying, unasked>>
    ELSE LET r == Request(m, live, restart)
         IN  /\ queue' = q
             /\ promised' = promised \cup {Outcome(r.m.restart)}
             /\ unasked' = IF m.phase = "walking" \/ m.approved THEN unasked ELSE {}
             /\ Apply(r, s, {[kind |-> "ack", seq |-> r.m.seq, n |-> n]}, n)

\* request_window_close, for each label of S.
RequestWindowClose(S, q, n) ==
    LET held == {w \in S : Endpoint(q, w)}
        asked == S \ held
    IN  /\ queue' = DeferClose(q, held)
        /\ close' = [w \in Window |->
                        IF w \in asked THEN CloseRequest(close[w]) ELSE close[w]]
        /\ toWin' = [w \in Window |->
                        IF w \in asked
                        THEN Append(toWin[w], [t |-> "closeRequested", n |-> n])
                        ELSE toWin[w]]
        /\ watch' = watch \cup {[kind |-> "close", label |-> w,
                                 seq |-> close[w].seq + 1, n |-> n] : w \in asked}
        /\ UNCHANGED <<m, gate, exitPosted, dying, promised, unasked>>

\* request_close_or_quit: only the last window's close is a quit.
RequestCloseOrQuit(S, q, n) ==
    IF Cardinality(live) > 1
    THEN RequestWindowClose(S, q, n)
    ELSE RequestQuit(FALSE, q, Now, n) /\ UNCHANGED close

-----------------------------------------------------------------------------
(* Host: triggers *)

\* The menu item, quit_restart, or the OS.
TriggerQuit(restart) ==
    /\ Running
    /\ triggers < MaxTriggers
    /\ triggers' = triggers + 1
    /\ RequestQuit(restart, queue, Now, triggers')
    /\ UNCHANGED <<live, opened, closing, close, workers, redrive, exited,
                   closedCleanly, toHost, view, transfers, reopened>>

\* The close button. Refused while the walk runs; past approval the window
\* closes by itself.
CloseButton(w) ==
    /\ Running
    /\ w \in live \ dying
    /\ triggers < MaxTriggers
    /\ m.approved \/ m.phase # "walking"
    /\ triggers' = triggers + 1
    /\ IF m.approved
       THEN /\ dying' = dying \cup {w}
            /\ UNCHANGED <<m, close, queue, gate, exitPosted, watch, toWin, promised,
                           unasked>>
       ELSE RequestCloseOrQuit({w}, queue, triggers')
    /\ UNCHANGED <<live, opened, closing, workers, redrive, exited,
                   closedCleanly, toHost, view, transfers, reopened>>

-----------------------------------------------------------------------------
(* Host: posted steps *)

\* redrive_deferred_teardown: take_ready, then the ordinary entry points.
Redrive ==
    LET ready == TakeReady(queue, live)
    IN  /\ Running
        /\ redrive
        /\ redrive' = FALSE
        /\ \/ /\ ready.quit # "none"
              /\ RequestQuit(ready.quit = "restart", ready.q, Now, triggers)
              /\ UNCHANGED close
           \/ /\ ready.closes # {}
              /\ RequestCloseOrQuit(ready.closes, ready.q, triggers)
           \/ /\ ready.quit = "none" /\ ready.closes = {}
              /\ queue' = ready.q
              /\ UNCHANGED <<m, close, gate, exitPosted, watch, toWin, dying, promised,
                             unasked>>
        /\ UNCHANGED <<live, opened, closing, workers, exited, closedCleanly,
                       toHost, view, boundVars>>

\* WindowEvent::Destroyed. Transfers into the window are handed back by a
\* worker behind the gate; the last window's end asks the app to exit.
Destroyed(w) ==
    LET lost == {a \in queue.records : a.to = w}
        rest == live \ {w}
        g == IF lost # {} THEN GateBegin(gate) ELSE gate
    IN  /\ Running
        /\ w \in dying
        /\ live' = rest
        /\ queue' = [ForgetDeferredClose(queue, w) EXCEPT !.records = @ \ lost]
        /\ workers' = IF lost # {} THEN workers + 1 ELSE workers
        /\ close' = [close EXCEPT ![w] = CloseClear(@)]
        /\ \E r \in IF m.approved THEN {Result(m, {})} ELSE ForgetWindow(m, w) :
              Apply(r, [Now EXCEPT !.live = rest, !.toWin[w] = <<>>, !.gate = g],
                    {}, triggers)
        /\ toHost' = [toHost EXCEPT ![w] = <<>>]
        /\ view' = [view EXCEPT ![w] = NewView]
        /\ redrive' = TRUE
        /\ UNCHANGED <<opened, closing, exited, closedCleanly,
                       boundVars, promised, unasked>>

\* A hand-back worker ends: its closure on the main thread opens the gate, and
\* performs the exit that waited.
HandBackWorkerEnds ==
    /\ Running
    /\ workers > 0
    /\ workers' = workers - 1
    /\ redrive' = TRUE
    /\ Apply(Result(m, IF GateFinishes(gate) THEN {ExitApp} ELSE {}),
             [Now EXCEPT !.gate = GateFinish(gate)], {}, triggers)
    /\ UNCHANGED <<live, opened, closing, close, queue, exited, closedCleanly,
                   toHost, view, boundVars, promised, unasked>>

\* RunEvent::ExitRequested, from app.exit(0) or from the last window's end.
ExitRequested ==
    /\ Running
    /\ exitPosted
    /\ IF m.approved
       THEN /\ exitPosted' = FALSE
            /\ exited' = IF GateOpen(gate) THEN Outcome(m.restart) ELSE exited
            /\ gate' = GateRequestExit(gate)
            /\ watch' = IF GateOpen(gate) \/ gate.exitRequested THEN watch
                        ELSE watch \cup {[kind |-> "gate"]}
            /\ UNCHANGED <<m, queue, toWin, dying, promised, unasked>>
       ELSE /\ exited' = exited
            /\ RequestQuit(FALSE, queue, [Now EXCEPT !.posted = FALSE], triggers)
    /\ UNCHANGED <<live, opened, closing, close, workers, redrive,
                   closedCleanly, toHost, view, boundVars>>

-----------------------------------------------------------------------------
(* Host: commands. Those of a window stop when Tauri drops the window. *)

HasCommand(w, t) ==
    /\ Running
    /\ w \in live
    /\ toHost[w] # <<>>
    /\ Head(toHost[w]).t = t

TakeCommand(w) == toHost' = [toHost EXCEPT ![w] = Tail(@)]

QuitAck(w) ==
    /\ HasCommand(w, "quitAck")
    /\ TakeCommand(w)
    /\ m' = Ack(m, w)
    /\ UNCHANGED <<live, dying, opened, closing, close, queue, gate, workers,
                   redrive, exitPosted, exited, watch, closedCleanly, toWin,
                   view, boundVars, promised, unasked>>

QuitProgress(w) ==
    /\ HasCommand(w, "quitProgress")
    /\ TakeCommand(w)
    /\ m' = Progress(m, w)
    /\ UNCHANGED <<live, dying, opened, closing, close, queue, gate, workers,
                   redrive, exitPosted, exited, watch, closedCleanly, toWin,
                   view, boundVars, promised, unasked>>

QuitVote(w) ==
    /\ HasCommand(w, "quitVote")
    /\ TakeCommand(w)
    /\ \E r \in Vote(m, w) : Apply(r, Now, {}, triggers)
    /\ UNCHANGED <<live, opened, closing, close, queue, workers, redrive,
                   exited, closedCleanly, view, boundVars, promised, unasked>>

QuitCancel(w) ==
    /\ HasCommand(w, "quitCancel")
    /\ TakeCommand(w)
    /\ queue' = CancelDeferred(queue)
    /\ Apply(Cancel(m), Now, {}, triggers)
    /\ promised' = IF m.phase = "voting" \/ queue.quit # "none" THEN {} ELSE promised
    /\ UNCHANGED <<live, opened, closing, close, workers, redrive, exited,
                   closedCleanly, view, boundVars, unasked>>

QuitWindowDone(w) ==
    /\ HasCommand(w, "quitWindowDone")
    /\ TakeCommand(w)
    /\ Apply(WindowDone(m, w), Now, {}, triggers)
    /\ UNCHANGED <<live, opened, closing, close, queue, workers, redrive,
                   exited, closedCleanly, view, boundVars, promised, unasked>>

QuitProceed(w) ==
    /\ HasCommand(w, "quitProceed")
    /\ TakeCommand(w)
    /\ Apply(Proceed(m), Now, {}, triggers)
    /\ UNCHANGED <<live, opened, closing, close, queue, workers, redrive,
                   exited, closedCleanly, view, boundVars, promised, unasked>>

WindowCloseAck(w) ==
    /\ HasCommand(w, "closeAck")
    /\ TakeCommand(w)
    /\ close' = [close EXCEPT ![w] = CloseAck(@)]
    /\ UNCHANGED <<live, dying, opened, closing, m, queue, gate, workers,
                   redrive, exitPosted, exited, watch, closedCleanly, toWin,
                   view, boundVars, promised, unasked>>

WindowCloseCancel(w) ==
    /\ HasCommand(w, "closeCancel")
    /\ TakeCommand(w)
    /\ queue' = ForgetDeferredClose(queue, w)
    /\ close' = [close EXCEPT ![w] = CloseClear(@)]
    /\ UNCHANGED <<live, dying, opened, closing, m, gate, workers,
                   redrive, exitPosted, exited, watch, closedCleanly, toWin,
                   view, boundVars, promised, unasked>>

\* push_closed_window: only a close that could be reopened leaves a record. The
\* host's stack of records is bounded.
PushClosedWindow ==
    closedCleanly' \in {closedCleanly}
                      \cup (IF closedCleanly < Reopens THEN {closedCleanly + 1} ELSE {})

\* push_closed_window, then remove_window_session; its reply lets the webview go
\* on to kill its shells.
RemoveWindowSession(w) ==
    /\ HasCommand(w, "removeSession")
    /\ TakeCommand(w)
    /\ closing' = closing \cup {w}
    /\ PushClosedWindow
    /\ view' = [view EXCEPT ![w].close = "killing"]
    /\ UNCHANGED <<live, dying, opened, m, close, queue, gate, workers,
                   redrive, exitPosted, exited, watch, toWin,
                   boundVars, promised, unasked>>

FinishWindowClose(w) ==
    /\ closing' = closing \cup {w}
    /\ close' = [close EXCEPT ![w] = CloseClear(@)]
    /\ dying' = dying \cup ({w} \cap live)

CloseWindow(w) ==
    /\ HasCommand(w, "closeWindow")
    /\ TakeCommand(w)
    /\ FinishWindowClose(w)
    /\ UNCHANGED <<live, opened, m, queue, gate, workers, redrive, exitPosted,
                   exited, watch, closedCleanly, toWin, view, boundVars, promised,
                   unasked>>

-----------------------------------------------------------------------------
(* Host: watchdogs *)

Answered(w, n) ==
    \/ view[w].wedged
    \/ /\ \A i \in 1..Len(toWin[w]) :
            toWin[w][i] \notin {[t |-> "quitRequested", n |-> n],
                                [t |-> "closeRequested", n |-> n]}
       /\ \A i \in 1..Len(toHost[w]) :
            toHost[w][i] \notin {[t |-> "quitAck", n |-> n],
                                 [t |-> "closeAck", n |-> n]}

GiveUp(wd) ==
    /\ m' = [m EXCEPT !.approved = TRUE]
    /\ exitPosted' = TRUE
    /\ watch' = watch \ {wd}

\* Phase 1 of request_quit's watchdog: past the ack timeout it stands down when
\* stale, gives up when a window never acked, and otherwise goes on to hold.
QuitAckTimeout(wd) ==
    /\ Running
    /\ wd.kind = "ack"
    /\ Stale(m, wd.seq) \/ \A w \in live : Answered(w, wd.n)
    /\ IF Stale(m, wd.seq)
       THEN watch' = watch \ {wd} /\ UNCHANGED <<m, exitPosted>>
       ELSE IF ~AllAcked(m) THEN GiveUp(wd)
       ELSE /\ watch' = (watch \ {wd}) \cup
                            {[kind |-> "stall", seq |-> wd.seq, n |-> wd.n]}
            /\ UNCHANGED <<m, exitPosted>>
    /\ UNCHANGED <<live, dying, opened, closing, close, queue, gate, workers,
                   redrive, exited, closedCleanly, viewVars, boundVars, promised,
                   unasked>>

\* No quit_progress and no advance can come: the window being torn down is
\* wedged, or gone.
Stalled ==
    /\ m.phase = "walking"
    /\ \A w \in Current(m) : w \notin live \/ view[w].wedged

\* Phases 2 and 3: no deadline while the windows vote, then one per teardown
\* phase of the window the walk is at.
QuitStallTimeout(wd) ==
    /\ Running
    /\ wd.kind = "stall"
    /\ Stale(m, wd.seq) \/ Stalled
    /\ IF Stale(m, wd.seq)
       THEN watch' = watch \ {wd} /\ UNCHANGED <<m, exitPosted>>
       ELSE GiveUp(wd)
    /\ UNCHANGED <<live, dying, opened, closing, close, queue, gate, workers,
                   redrive, exited, closedCleanly, viewVars, boundVars, promised,
                   unasked>>

\* The close watchdog: a window that never acked is closed anyway.
CloseAckTimeout(wd) ==
    /\ Running
    /\ wd.kind = "close"
    /\ Answered(wd.label, wd.n)
    /\ watch' = watch \ {wd}
    /\ IF close[wd.label].seq # wd.seq \/ close[wd.label].acked
       THEN UNCHANGED <<closing, close, dying>>
       ELSE FinishWindowClose(wd.label)
    /\ UNCHANGED <<live, opened, m, queue, gate, workers, redrive, exitPosted,
                   exited, closedCleanly, viewVars, boundVars, promised, unasked>>

\* exit_after_cleanup's watchdog: a hand-back worker that never ends cannot
\* trap the app.
GateTimeout(wd) ==
    /\ Running
    /\ wd.kind = "gate"
    /\ watch' = watch \ {wd}
    /\ IF GateForces(gate)
       THEN /\ gate' = [gate EXCEPT !.forced = TRUE]
            /\ m' = [m EXCEPT !.approved = TRUE]
            /\ exitPosted' = TRUE
       ELSE UNCHANGED <<gate, m, exitPosted>>
    /\ UNCHANGED <<live, dying, opened, closing, close, queue, workers,
                   redrive, exited, closedCleanly, viewVars, boundVars, promised,
                   unasked>>

-----------------------------------------------------------------------------
(* Webview: the flow a quit and a close share. A step of a webview reads one *)
(* event, or takes the human's answer, and appends the commands it invokes.  *)

HasEvent(w, t) ==
    /\ Running
    /\ w \in live
    /\ ~view[w].wedged
    /\ toWin[w] # <<>>
    /\ Head(toWin[w]).t = t

\* The webview of w goes to v, having invoked cmds.
ViewStep(w, v, cmds) ==
    /\ view' = [view EXCEPT ![w] = v]
    /\ toHost' = [toHost EXCEPT ![w] = @ \o cmds]
    /\ UNCHANGED <<hostVars, boundVars, promised, unasked>>

TakeEvent(w) == toWin' = [toWin EXCEPT ![w] = Tail(@)]

Cmd(t) == [t |-> t]

\* Putting the question; with nothing to ask the flow commits at once.
AskQuit(v) ==
    {[v |-> [v EXCEPT !.quit = p, !.holder = "quit"],
      cmds |-> IF p = "committed" THEN <<Cmd("quitVote")>> ELSE <<>>]
        : p \in {"confirming", "committed"}}

AskClose(v) ==
    {[v |-> [v EXCEPT !.close = p, !.holder = "close"],
      cmds |-> IF p = "removing" THEN <<Cmd("removeSession")>> ELSE <<>>]
        : p \in {"confirming", "removing"}}

\* The flow's cancel: back to idle, the claim released, the host answered.
CancelQuit(v) ==
    [v |-> [v EXCEPT !.quit = "idle",
                     !.holder = IF @ = "quit" THEN "none" ELSE @],
     cmds |-> <<Cmd("quitCancel")>>]

CancelClose(v) ==
    [v |-> [v EXCEPT !.close = "idle",
                     !.holder = IF @ = "close" THEN "none" ELSE @],
     cmds |-> <<Cmd("closeCancel")>>]

\* Mutant: the quit takes the window over without ending the close's dialog.
QuitRequestKeepsClose(v) ==
    IF v.quit # "idle" THEN {[v |-> v, cmds |-> <<>>]} ELSE AskQuit(v)

\* A quit request. A quit outranks a close still on its dialog, which is
\* abandoned; a committed close makes the quit vote at once.
QuitRequest(v) ==
    LET abandoned == CancelClose(v)
    IN  IF v.quit # "idle" THEN {[v |-> v, cmds |-> <<>>]}
        ELSE IF v.holder # "close" THEN AskQuit(v)
        ELSE IF v.close # "confirming"
             THEN {[v |-> v, cmds |-> <<Cmd("quitVote")>>]}
        ELSE {[v |-> a.v, cmds |-> abandoned.cmds \o a.cmds]
                : a \in AskQuit(abandoned.v)}

\* Mutant: a refused close is dropped in silence.
CloseRequestFlowSilent(v) ==
    IF v.close # "idle" \/ v.holder = "quit" THEN {[v |-> v, cmds |-> <<>>]}
    ELSE AskClose(v)

\* A close request. Refused, but answered, while a quit holds the window.
CloseRequestFlow(v) ==
    IF v.close # "idle" THEN {[v |-> v, cmds |-> <<>>]}
    ELSE IF v.holder = "quit" THEN {CancelClose(v)}
    ELSE AskClose(v)

OnQuitRequested(w) ==
    /\ HasEvent(w, "quitRequested")
    /\ TakeEvent(w)
    /\ \E a \in QuitRequest(view[w]) :
          ViewStep(w, a.v, <<[t |-> "quitAck", n |-> Head(toWin[w]).n]>> \o a.cmds)

OnQuitCancelled(w) ==
    /\ HasEvent(w, "quitCancelled")
    /\ TakeEvent(w)
    /\ ViewStep(w, CancelQuit(view[w]).v, <<>>)

\* runQuitTeardown begins whatever the flow's phase is.
OnQuitTeardown(w) ==
    /\ HasEvent(w, "quitTeardown")
    /\ TakeEvent(w)
    /\ ViewStep(w, [view[w] EXCEPT !.td = IF Head(toWin[w]).last THEN "last" ELSE "walk"],
                <<Cmd("quitProgress")>>)

OnCloseRequested(w) ==
    /\ HasEvent(w, "closeRequested")
    /\ TakeEvent(w)
    /\ \E a \in CloseRequestFlow(view[w]) :
          ViewStep(w, a.v, <<[t |-> "closeAck", n |-> Head(toWin[w]).n]>> \o a.cmds)

\* A Workspace left for another window; if it was the last one the window goes.
OnDeparted(w) ==
    /\ HasEvent(w, "departed")
    /\ TakeEvent(w)
    /\ \E cmds \in {<<>>, <<Cmd("closeWindow")>>} : ViewStep(w, view[w], cmds)

CanAnswer(w) == Running /\ w \in live /\ ~view[w].wedged

\* The human agrees to the last question the quit or the close put.
Confirm(w) ==
    LET v == view[w]
    IN  /\ CanAnswer(w)
        /\ \/ /\ v.quit = "confirming"
              /\ ViewStep(w, [v EXCEPT !.quit = "committed"], <<Cmd("quitVote")>>)
           \/ /\ v.close = "confirming"
              /\ ViewStep(w, [v EXCEPT !.close = "removing"], <<Cmd("removeSession")>>)
        /\ UNCHANGED toWin

\* The human declines, or the window's Workspaces changed under the question.
Decline(w) ==
    LET v == view[w]
    IN  /\ CanAnswer(w)
        /\ \/ /\ v.quit = "confirming"
              /\ ViewStep(w, CancelQuit(v).v, CancelQuit(v).cmds)
           \/ /\ v.close = "confirming"
              /\ ViewStep(w, CancelClose(v).v, CancelClose(v).cmds)
        /\ UNCHANGED toWin

\* The steps of runQuitTeardown end, each bounded, and the host is told.
QuitTeardownEnds(w) ==
    /\ CanAnswer(w)
    /\ view[w].td \in {"walk", "last"}
    /\ ViewStep(w, [view[w] EXCEPT !.td = "done"],
                <<Cmd(IF view[w].td = "last" THEN "quitProceed" ELSE "quitWindowDone")>>)
    /\ UNCHANGED toWin

\* runCloseTeardown: the shells are killed and the host told.
CloseTeardownEnds(w) ==
    /\ CanAnswer(w)
    /\ view[w].close = "killing"
    /\ ViewStep(w, [view[w] EXCEPT !.close = "ended"], <<Cmd("closeWindow")>>)
    /\ UNCHANGED toWin

\* The webview's listeners die; its window stays.
Wedge(w) ==
    /\ Running
    /\ w \in live
    /\ ~view[w].wedged
    /\ Cardinality({v \in Window : view[v].wedged}) < MaxWedged
    /\ view' = [view EXCEPT ![w].wedged = TRUE]
    /\ UNCHANGED <<hostVars, toWin, toHost, boundVars, promised, unasked>>

-----------------------------------------------------------------------------
(* Transfers, as far as they hold teardown requests back, and Reopen *)

\* Mutant: only the queued requests are looked at, not the running ones.
TransferAdmittedQueueOnly(from, to) == ~BlocksTransfer(queue, from, to)

\* No quit has begun or been queued, and neither end is closing.
TransferAdmitted(from, to) ==
    /\ m.phase = "idle" /\ ~m.approved
    /\ ~BlocksTransfer(queue, from, to)
    /\ \A w \in {from, to} : ~close[w].active /\ w \notin closing

\* journal_and_open_arrival admits a transfer under the same lock that queues
\* teardown requests. An unopened target is a tear-out.
BeginTransfer(from, to) ==
    /\ Running
    /\ from \in live
    /\ to \in (live \ {from}) \cup (Window \ opened)
    /\ transfers < MaxTransfers
    /\ TransferAdmitted(from, to)
    /\ [from |-> from, to |-> to] \notin queue.records
    /\ transfers' = transfers + 1
    /\ opened' = opened \cup {to}
    /\ queue' = [queue EXCEPT !.records = @ \cup {[from |-> from, to |-> to]}]
    /\ UNCHANGED <<live, dying, closing, m, close, gate, workers, redrive,
                   exitPosted, exited, watch, closedCleanly, viewVars,
                   triggers, reopened, promised, unasked>>

\* The content of a tear-out lands: its window is built.
BuildTornOut(a) ==
    /\ Running
    /\ a \in queue.records
    /\ a.to \notin live
    /\ live' = live \cup {a.to}
    /\ UNCHANGED <<dying, opened, closing, m, close, queue, gate, workers,
                   redrive, exitPosted, exited, watch, closedCleanly, viewVars,
                   boundVars, promised, unasked>>

\* adopt_done: the source is told its Workspace left.
AdoptDone(a) ==
    /\ Running
    /\ a \in queue.records
    /\ a.to \in live
    /\ ~view[a.to].wedged
    /\ queue' = [queue EXCEPT !.records = @ \ {a}]
    /\ toWin' = IF a.from \in live
                THEN [toWin EXCEPT ![a.from] = Append(@, [t |-> "departed"])]
                ELSE toWin
    /\ redrive' = TRUE
    /\ UNCHANGED <<live, dying, opened, closing, m, close, gate, workers,
                   exitPosted, exited, watch, closedCleanly, toHost, view,
                   boundVars, promised, unasked>>

\* Mutant: a settled hand-back does not redrive what waited for it.
HandBackNoRedrive(a) ==
    /\ Running
    /\ a \in queue.records
    /\ queue' = [queue EXCEPT !.records = @ \ {a}]
    /\ UNCHANGED <<live, dying, opened, closing, m, close, gate, workers, redrive,
                   exitPosted, exited, watch, closedCleanly, viewVars,
                   boundVars, promised, unasked>>

\* A refusal, or the arrival watchdog: the Workspace stays where it was.
HandBack(a) ==
    /\ Running
    /\ a \in queue.records
    /\ queue' = [queue EXCEPT !.records = @ \ {a}]
    /\ redrive' = TRUE
    /\ UNCHANGED <<live, dying, opened, closing, m, close, gate, workers,
                   exitPosted, exited, watch, closedCleanly, viewVars,
                   boundVars, promised, unasked>>

\* reopen_closed_window: the newest closed window comes back under a new label.
\* Nothing here asks the quit machine, so a quit under way does not ask the window.
ReopenClosedWindow(w) ==
    /\ Running
    /\ w \in Window \ opened
    /\ live # {}
    /\ closedCleanly > 0
    /\ reopened < Reopens
    /\ reopened' = reopened + 1
    /\ closedCleanly' = closedCleanly - 1
    /\ opened' = opened \cup {w}
    /\ live' = live \cup {w}
    /\ unasked' = IF m.phase = "idle" /\ ~m.approved THEN unasked
                  ELSE unasked \cup {w}
    /\ UNCHANGED <<dying, closing, m, close, queue, gate, workers, redrive,
                   exitPosted, exited, watch, viewVars, triggers, transfers,
                   promised>>

-----------------------------------------------------------------------------
(* The specification *)

HostStep ==
    \/ Redrive
    \/ ExitRequested
    \/ \E w \in Window :
        \/ Destroyed(w)
        \/ QuitAck(w) \/ QuitProgress(w) \/ QuitVote(w) \/ QuitCancel(w)
        \/ QuitWindowDone(w) \/ QuitProceed(w)
        \/ WindowCloseAck(w) \/ WindowCloseCancel(w)
        \/ RemoveWindowSession(w) \/ CloseWindow(w)

WatchdogStep ==
    \E wd \in watch :
        QuitAckTimeout(wd) \/ QuitStallTimeout(wd) \/ CloseAckTimeout(wd) \/ GateTimeout(wd)

ViewStepNext ==
    \E w \in Window :
        \/ OnQuitRequested(w) \/ OnQuitCancelled(w) \/ OnQuitTeardown(w)
        \/ OnCloseRequested(w) \/ OnDeparted(w)
        \/ QuitTeardownEnds(w) \/ CloseTeardownEnds(w)

HumanAnswers == \E w \in Window : Confirm(w) \/ Decline(w)

SettleTransfer == \E a \in queue.records : AdoptDone(a) \/ HandBack(a)

\* What nobody has to do: triggers, transfers, Reopen, a webview's listeners
\* dying, a hand-back worker coming back from a stalled disk.
Optional ==
    \/ \E restart \in BOOLEAN : TriggerQuit(restart)
    \/ \E w \in Window : CloseButton(w) \/ Wedge(w) \/ ReopenClosedWindow(w)
    \/ \E from, to \in Window : BeginTransfer(from, to)
    \/ \E a \in queue.records : BuildTornOut(a)
    \/ HandBackWorkerEnds

\* What the main thread, the webviews, the watchdogs and a human in front of a
\* dialog keep doing.
Progressing ==
    HostStep \/ WatchdogStep \/ ViewStepNext \/ HumanAnswers \/ SettleTransfer

Next == Progressing \/ Optional

Spec == Init /\ [][Next]_vars /\ WF_vars(Progressing)

-----------------------------------------------------------------------------
(* Properties *)

\* A cancel costs nothing: while it can still be accepted (the machine is
\* voting) no window has begun its teardown and none is being destroyed by the
\* quit. quit_state.rs, QuitPhase::Voting.
CancelCostsNothing ==
    m.phase = "voting" /\ ~m.approved => \A w \in live : view[w].td = "none"

\* The walk tears windows down one at a time, and main only when no other
\* window of the walk is left. quit_state.rs window_done, routing.rs quit_order.
OneAtATimeMainLast ==
    /\ \A v, w \in live \ dying :
          view[v].td \in {"walk", "last"} /\ view[w].td \in {"walk", "last"} => v = w
    /\ m.phase = "walking" /\ Main \in Current(m) => m.index = Len(m.order)

\* A window that was told it is the last one ends the app with quit_proceed, so
\* no other window may still be open and untouched by then, but for the windows
\* Reopen brought back after the quit asked (reopen_closed_window does not look at
\* the quit). quit.ts runQuitTeardown.
LastMeansLast ==
    \A w \in live : view[w].td = "last" => live \ {w} \subseteq dying \cup unasked

\* No window whose webview still answers is ever closed by its ack watchdog,
\* however its close was cancelled and asked again. CloseMachine::clear.
OnlyTheDeadAreForced ==
    \A wd \in watch :
        wd.kind = "close" /\ wd.label \in live /\ ~view[wd.label].wedged =>
            \/ close[wd.label].seq # wd.seq
            \/ close[wd.label].acked
            \/ ~Answered(wd.label, wd.n)

\* One window, one dialog: a quit and a close never hold a window at the same
\* time, and the claim names the flow that does. teardown-flow.ts.
OneFlowHolds ==
    \A w \in live :
        /\ view[w].quit = "idle" \/ view[w].close = "idle"
        /\ view[w].holder = CASE view[w].quit # "idle" -> "quit"
                              [] view[w].close # "idle" -> "close"
                              [] OTHER -> "none"

\* Transfers and teardown exclude each other: while a Workspace is in flight no
\* quit is under way and neither end has a close pending. lib.rs
\* transfer_admitted, request_quit and request_window_close.
TransfersExcludeTeardown ==
    /\ queue.records # {} => m.phase = "idle"
    /\ \A a \in queue.records : ~close[a.from].active /\ ~close[a.to].active

\* The app never exits over a destroyed window's hand-backs that have not reached
\* the journal, unless the gate's own watchdog gave up on them. (The hand-backs of
\* a refusal and of the arrival watchdog run in the handler and hold no gate.)
\* CleanupGate.
ExitWaitsForHandBacks == ~Running => workers = 0 \/ gate.forced

\* What the triggers of a quit were told about relaunching is what happens: a
\* repeat trigger joins the quit under way without changing it, and is told so.
\* QuitMachine::request, ArrivalQueue::defer_quit and quit_restart's answer.
RestartPromiseKept == ~Running => promised \subseteq {exited}

\* A human parked on the quit's dialog is never quit out from under it: once the
\* walk runs, no window of it still has its question open. lib.rs request_quit,
\* phase 2 of the watchdog.
NoTeardownUnderADialog ==
    m.phase = "walking" =>
        \A i \in m.index .. Len(m.order) :
            m.order[i] \in live => view[m.order[i]].quit # "confirming"

\* A quit never waits for a decision that cannot come: voting ends, in a walk
\* or a cancel, unless some webview is dead. QuitMachine::request and the
\* arbitration in teardown-flow.ts.
VotingEnds ==
    m.phase = "voting" ~>
        (m.phase # "voting" \/ ~Running \/ \E w \in live : view[w].wedged)

\* Once the windows are being torn down the app exits, even if a webview dies
\* on the way or a hand-back never returns. request_quit's watchdog.
WalkEnds == m.phase = "walking" ~> ~Running

\* A quit held behind transfers is asked, once they settle. take_ready and
\* redrive_deferred_teardown.
DeferredQuitRuns == queue.quit # "none" ~> (queue.quit = "none" \/ ~Running)

\* A window asked to close is answered for: its close is decided by its human,
\* refused, or taken over by the watchdog. window-close.ts and
\* request_window_close.
CloseSettles ==
    \A w \in Window :
        close[w].active ~> (~close[w].active \/ view[w].wedged \/ ~Running)

=============================================================================
