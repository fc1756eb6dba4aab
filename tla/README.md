# Dormouse in TLA+

Dormouse is a multitasking terminal. It runs as a standalone desktop app (a Rust
host, one webview per window, a Node sidecar that owns the PTYs), as a VS Code
extension, and remotely: a phone or a browser reaches a machine's terminals
through a relay. This directory holds TLA+ models of parts of it, the TLC
configurations that check them, and TLAPS proofs.

What is here is the part where a mistake loses a user's work, a user's attention
or a session: how the standalone app quits and closes windows; how a Workspace
with running shells moves from one window to another, and what a crash on the
way leaves on disk; who is told that a command finished; and how a remote
session moves from the relay onto a direct channel.

## Inventory

Paths are relative to the repository.

| Component | State | Operations | Hard because | Correct when |
|---|---|---|---|---|
| Quit and close machines, `standalone/src-tauri/src/quit_state.rs` | phase, per-window ack and vote, walk order and index, close tokens, deferred requests, cleanup gate | request, ack, vote, cancel, window_done, proceed, forget_window; close request, ack, clear; defer, take_ready; begin, finish | repeat triggers, windows that vanish, tokens that outlive their request | nothing is torn down while a cancel is possible, one at a time, main last; no live window is forced |
| Host side of them, `standalone/src-tauri/src/lib.rs` | windows, watchdog threads, posted closures | triggers, commands, `Destroyed`, `ExitRequested`, watchdogs, redrive | main thread, threads and webviews interleave | a quit ends; exit waits for hand-backs |
| Webview side, `standalone/src/{teardown-flow,quit,window-close}.ts` | phase per flow, one claim per window | request, confirm, cancel, teardown | a quit meets a close; messages cross | one flow holds the dialog and every request is answered |
| Workspace transfer, `standalone/src/workspace-move.ts`, `routing.rs`, `lib.rs`, `standalone/sidecar/pty-core.js` | owner, suppression, marks, arrival records, in-flight moves | move, mark, content, adopt, hand back, expire, sweep | the shell prints throughout; either window may die; every wait has a deadline | no byte twice, none lost; the Workspace in exactly one place |
| Arrival journal and snapshots, `lib.rs`, `workspaces.rs`, `lib/src/lib/{session-save,window-session-aggregator}.ts` | journal, snapshot per window, records and marks, one save in flight | save, journal, settle, return, retire, tombstone, restore | crash between any two writes | a restart finds each Workspace once |
| Output detector, `lib/src/lib/quiesce-detector.ts` | status, four timers, the history of a run | output, input, reset, timers | late timers, output that races them | a settle means silence after work |
| Alerts, `lib/src/lib/alert-manager.ts`, `lib/src/host/alert-{host,client}.ts` | entry per Session, held rings, awaits, viewers | output, report, progress, command, look, gesture, await | user, program and timers race | an await and the human are never both told; nothing held is forgotten |
| Pending kills, `lib/src/lib/pending-kills.ts` | countdown per pane | request, pause, restore, expire | restore races expiry | killed or restored, never both |
| Tiling, `lib/src/lib/lath/` | split tree | insert, remove, move, resize | recursive tree surgery | no pane lost or duplicated |
| Burrow service and runtime, `lib/src/host/remote/`, `lib/src/remote/burrow/` | lifecycle, socket, sessions, revocations | start, stop, enrol, probe, reconnect, approve | awaits between read and write; stale answers | one live Burrow; revocations reach disk |
| Direct path, `remote-lib-common/src/security/direct-path.ts`, `lib/src/remote/direct/` | one attempt, a direction each way, held and queued frames, a peer connection | offer, answer, decline, open, switch, send, give up, flush, dispose | two paths and one cipher stream; either end may give up at any moment | no message out of its place; a failed attempt costs nothing; the ends agree or end together |
| Remote clients, `lib/src/remote/client/` | session, requests, ceremonies | connect, request, keep alive, reconnect | stale answers | nothing hangs unanswered |
| Relay and hosted service, `relay/src/`, `hosted/server/` | sockets, bindings | attach, displace, route, push | displacement races routing | one socket per Burrow; no frame to the wrong peer |
| VS Code, `vscode-ext/src/{peer-link,burrow,message-router}.ts` | owner election, routes | bind, join, route, hand over | several processes, stale socket path | one owner; a route stays with its window |
| Updater, `dor` CLI, tools, website, deployment | little | | | |

The host keeps the truth about windows and PTY owners. It speaks to webviews by
events (`emit_to`) and hears from them by commands (`invoke`), and it speaks to
the sidecar by lines on stdin and stdout. A transfer and a teardown share one
lock (`WindowState::arrivals`): that is where those two halves meet. A transfer
and the snapshots share another (`ARRIVAL_DISK_LOCK`). The detector of a Session
reports to the alert manager by its return value and one callback. A remote
session's two ends know each other only by the messages of its cipher stream.

`PROJECT.json` lists every component with its status, and the hazards, each at
its line of code.

## Modules

| Module | Models |
|---|---|
| `QuitState` | the pure machines of `quit_state.rs`: operators from a machine to a machine and the actions owed |
| `QuitFlow` (extends `QuitState`) | host, watchdogs, webviews, channels, and transfers as far as they hold teardown back |
| `Transfer` | moving one Workspace with one PTY |
| `ArrivalJournal` | journal, snapshots and saves while Workspaces move, with crashes |
| `Quiesce` | what the output detector promises, with no clock: an abstract specification |
| `QuiesceDetector` | the detector with its clock and timers; implements `Quiesce` |
| `AlertManager` (uses `Quiesce`) | one Session's completions, rings, holds, awaits, viewers and controls |
| `DirectPath` | a remote session's move from the relay to a direct channel, both ends |
| `MCQuitFlow`, `MCTransfer`, `MCArrivalJournal`, `MCQuiesce`, `MCAlertManager`, `MCDirectPath` | model values and symmetry for TLC |
| `QuitProofs` | what the operators of `QuitState` return, the inductive invariant of `QuitFlow`, and four safety theorems on top of it: exit gate, exclusion, one flow, only the dead are forced |
| `QuitWalkProofs` (extends `QuitProofs`) | the walk: what a cancel costs, the order of windows, who is told it is the last |
| `QuiesceProofs` | the detector: its invariant, the refinement, three action properties |
| `AlertProofs` | one Session's entry: its invariant, three invariants and three action properties of the run |
| `DirectPathProofs` | the cipher stream over two paths, for every bound |
| `TransferProofs` | types of `Transfer`, and where the Workspace is |
| `SeamProofs` (extends `TransferProofs`) | what each terminal of `Transfer` shows, byte by byte |
| `JournalProofs` | what a crash at any moment leaves of `ArrivalJournal`, and what a boot makes of it |

### QuitState

A transition of the source returns a list of `QuitAction`s the caller performs.
Here it returns a record `[m, acts]`, or a set of such records where the source
walks a `HashMap` and the order of labels is arbitrary (`QuitOrders`: any order
with main last). `WithEntry` and `EntryOf` are `entry().or_default()`. The walk index counts
from 1. The progress counters of the source are read by the stall watchdog only,
whose outcome the model states directly (`Stalled`); `forget_restart`, called by
the macOS terminate path, is left out.

### QuitFlow

Host handlers run on Tauri's main thread, so each is one action and includes
everything it does: `Apply` performs the machine's actions, through the cleanup
gate. What a handler posts for later is a separate action: `Destroyed`,
`ExitRequested`, `Redrive`, the end of a hand-back worker. Events and commands
travel in one FIFO queue per window and direction, lost when the window goes.

A webview has two flows and one claim. The flows' two successive questions
(unsaved files, running work) are one question; with nothing to ask a flow
commits at once. `Decline` stands for the human and for a Workspace change that
invalidates the question. `Wedge` is a webview whose listeners died.

Time is left out. A watchdog may fire once the answer it waits for cannot come
any more: the window is wedged, or has answered the request the watchdog was
spawned for. The field `n` of requests, acks and watchdogs names that request;
no guard of the code's reads it. This assumes that a live webview acks within
the code's timeouts, which is what the timeouts are chosen for.

Three variables bound the run (`triggers`, `transfers`, `reopened`) and two are ghosts:
`promised`, what the triggers of a quit were told about relaunching, and `unasked`, the windows
Reopen brought back since the quit under way last asked the windows. `LastMeansLast` makes no
claim about those: a repeat trigger before the walk asks them, and takes them out of the set.

### Transfer

The PTY's output is the stream 1, 2, 3, ... and a terminal is the sequence it was
given. `Serve` is the sidecar answering `mark` and `list` in order with its
output, `Dispatch*` the host's reader thread, `On*` a window's handlers. A
window's invoke and the host command it runs are one step. `cut`, `marking` and
`awaiting` are `transfer_marks`, `marking` and `awaiting_replay` for the one PTY.

A tear-out's target is a label in `Unopened`, opened when the content lands.
Nothing holds a deadline or a window's end back: ARRIVAL_TIMEOUT_MS (`AdoptFailed`, or
`PlanWithoutReplay` when the list came and the replay did not), the hand-back's wait
(`HandBackReplayTimeout`), MARK_TIMEOUT_MS (`MarkTimeout`), ARRIVAL_MAX (`Expire`), AWAITING_REPLAY_MAX (`Sweep`) and
`Destroyed` may each happen in any state of their wait. The auxiliary variable `overtaken`, which no
guard reads, becomes TRUE when one of them cuts off an answer that was still coming: a mark or a hand-back's replay
that is given up on, a suppression swept, a list taken without its replay, a target that fails, is destroyed or
whose record expires while its replay is under way. An arrival that is refused, expires untouched or loses its target
before it asked for a replay overtakes nothing.

Simplifications: the replay buffer is unbounded; the shell neither exits nor is
killed except with its last window; one Workspace, one PTY; the journal is
`ArrivalJournal`'s.

### ArrivalJournal

`disk` is the journal and the snapshot files, a snapshot being the set of Workspaces
it names. A disk command runs under `ARRIVAL_DISK_LOCK` and is one step; where it writes
several files, `Torn` lists the disks a crash inside it can leave, and `TornBoot`
those of a boot that dies while it merges. `Crash` is a crash and the boot that follows: it
takes any of those disks, merges the journal (`RestoreArrivals`), and opens a window per snapshot.
`Merge` says what restoring a set of records does to every window at once; that this is
`restore_arrival` of one record after another is the theorem `MergeByOne`. `Starts` are the
snapshots the program may find when it is started first.

A move is one record with the parts its parties still have: the host's (`journaled`,
`queued`, `adopting`, `returning`), the source's, the target's, the reply and the event on their
way. `AdoptDone` and `MarkAdopted`, or `Expire` and `HandBack`, are two steps because the
queue's lock and the disk's are taken one after the other. `take_arrival` finds an arrival by
Workspace and target, so the model's does too, whichever move queued it. With `MovesOn` a Workspace may
be moved on from a window whose `adopt_done` has not come back; nothing in the code forbids
it, and it breaks the journal's promise (see "What the checks found"). Without it the user waits for that answer, a
matter of two file writes.

A window's saves are the aggregator's: a scheduled write (`dirty`) collects the records
that are not marked transferring, and the store sends one save at a time with the newest waiting
behind it. `home` and `fate` are ghosts: where the host holds a Workspace, and whether the
user closed it. One adopted into a window that is closing goes with that window. A Workspace whose window is closed for good during a hand-back of it is
`contested`, and nothing is claimed about it: the code and the docs do not say which wins.

### Quiesce, QuiesceDetector

`Quiesce` has the four statuses, and for each the answers a chunk of output, a timer or a
reset may get. `QuiesceDetector` has the clock: instants are kept as ages, a timer is the
time left on it, and a callback runs up to `MaxLate` late (an event loop that is busy, a laptop that
slept), so output can be handled before a timer that was due earlier. Its status
and report are those of `Quiesce` (`ImplementsQuiesce`). `silence` and `stretch` are
ghosts that say what the output really was.

### AlertManager

One Session. `s` is its entry and the awaits parked on it, `viewers` where each
renderer points, `rules` the watched commands. Each method is an action; helpers that
take an entry and return one (`RaiseRing`, `HoldOrDeliver`, `SetTodo`, `MarkSeen`) have the
source's names. The detector is used through `Quiesce`'s operators: whatever
`QuiesceDetector` can do to the manager is in the model, and the refinement is what makes that sound.
A timer that may have run out is a step that may be taken. What a notification says, and publishing,
are left out.

### DirectPath

`end[e]` is everything one end keeps: cutover, endpoint, peer, and why its session is over.
Handlers of the source call each other synchronously, so they are operators from such a
record to the next (`GiveUp`, `OnSwitch`, `OnFrame`, `ChannelSend`), and an action applies the
whole chain and puts what it says on the relay. A message is its kind and its number in the
sender's cipher stream; a receiver that expects another number cannot decrypt it, as the session's
cipher could not. An await is a state of the peer (`describing`, `negotiating`), so everything
may happen in it.

The relay is a reliable FIFO per direction. The channel is external: `Connect` needs both
descriptions, each end then hears of the opening when it does, frames arrive in order, and after
one end closes the other may still read some of what was sent (`ChannelClosed` drops the rest). `PeerFails`
may happen to a peer at any time. A relay socket that drops, `client-gone` and `burrow-gone` are
`Drop`. Not modelled: the path policy of Local networks and direct-only sessions (with a
policy a refused path ends a session that never switched, on purpose), and which
of three reasons the phone shows for staying relayed.

## Runs

Deadlock is checked in `quiesce` and `alert`, whose systems never stop. It is not in the
others: the app may rest when nobody asks it anything and stops when it exits, and a
session ends. The liveness properties say where they must not stop.

| Run | Instance | Shows |
|---|---|---|
| `quit_vote` | three windows, two triggers, a closed window reopened once, symmetric in the two others than main | `CancelCostsNothing`, `OneAtATimeMainLast`, `LastMeansLast` |
| `quit_wedge` | two windows, two triggers, one may wedge | `TypeOK`, `OneFlowHolds`, `OnlyTheDeadAreForced`, and that voting, the walk and closes end |
| `quit_deferred` | one window, two labels to be torn out or reopened, two transfers, one trigger | `TransfersExcludeTeardown`, `ExitWaitsForHandBacks`, `DeferredQuitRuns` |
| `quit_stale_vote`, `quit_restart` | two windows, two triggers | violations, below |
| `transfer_seam` | three windows, one torn out, two bytes, two moves, one window destroyed at any moment, every deadline at any moment | `TypeOK`, `SeamIsExact`, `SettledInOnePlace`, `NeverNowhere` |
| `transfer_settles` | two windows, two bytes, two moves, one destroyed, every deadline, both at any moment | `MoveSettles`, `SuppressionEnds` |
| `journal` | two Workspaces in one window or in two, two labels, two moves, one close or crash, `MovesOn` off | `TypeOK`, `LostOnlyUnsaved`, `RestoredAsLeft` |
| `journal_hand_back` | both Workspaces in one window, one move | violation, below |
| `quiesce` | the spans of `cfg.alert` in half seconds, callbacks up to three late | `WaitingIsTimed`, `ImplementsQuiesce`, `SettlesAfterSilence`, `BusyIsSustained`, `NoRunUnasked`, `SilenceSettles` |
| `alert` | two viewers, one watchable command, an await of each kind | `TypeOK`, `HeldIsUndecided`, `LatchesAgree`, `IdleMeansIdle`, `ParkedShieldsHuman`, `RingsOnlyTheAbsent`, `ClearedStaysCleared`, `HeldIsDecided` |
| `direct_path` | three messages each way, two held frames, one queued, one buffered | `InOrder`, `AttemptIsFree`, `PathsAgree`, `PeerSettles`, `EndsTogether` |

Why these bounds. Two triggers are the least for a repeat trigger in each phase, a
cancel followed by a new quit, and a quit meeting a close. Three windows let the walk
lose a window before, at and after its index. One wedged webview stands for each
place in the protocol where it may die. Two transfers let one settle while another is in
flight. With two bytes each of the places a byte can be when the mark, the replay or a
window's end passes it (shown, queued, in the pipes, not yet printed) has a byte on its other side, which is what an
order or a gap needs; three bytes were checked once, with the same result; two moves let a Workspace travel on, or return, with the remains of the first
move in the pipes. For the journal, two moves let an answer of the first meet the record
of the second, and a crash is tried in every state by the properties themselves
(`Recovered` is what each disk would be restored to), so one real crash or close is enough to
start from a restored disk. Larger instances were checked once: one Workspace with three moves and two upsets
(1.8 million states), and two Workspaces apart with two moves and two upsets (4.3 million). Two viewers are the least for one to leave while another
looks; more awaits of one kind would only repeat. Three messages overrun both queues of the direct
path and still leave some for the relay.

`SeamIsExact`, and in `SettledInOnePlace` the claim that the terminal is complete, are claimed until
something was overtaken, for the reasons given below; the rest of `SettledInOnePlace` (one window, which owns the PTY and is not
silenced) and `NeverNowhere` hold throughout. `alert` keeps `Demotes` off: a promoted helper that
becomes a helper again with a completion held keeps it undecided, and no doc promises
anything for a helper.

### Fairness

`QuitFlow`: weak fairness of `Progressing`, the union of host handlers, watchdogs,
webview handlers, settling transfers and the human's answers. It says only that
while any of these can run, one does; it holds since the event loops, the threads
and the pipes do not stop, and it needs the human in front of a dialog to answer it
some day, because the code waits there without a deadline on purpose. Nothing is
assumed of triggers, `Wedge`, `Reopen`, building a window, or a hand-back worker
(its disk may stall; `WalkEnds` holds through the gate's watchdog).

`Transfer`: weak fairness of the pipes and the reader thread, of the windows' event handling, of the
source's continuation, and of the arrival watchdog. None of the
target: `MoveSettles` holds though the target never does anything.

`QuiesceDetector`: weak fairness of time and of callbacks. `AlertManager`: of the leave
grace's timer, and of nothing a user or a program does. `ArrivalJournal` has
safety properties only.

`DirectPath`: weak fairness of what the relay delivers, of the setup and handoff
timers, of the flush, and of hearing that the other half of a connection is gone
(WebRTC reports it as a close, a failure, or a `disconnected` that the code gives
a grace). None of descriptions, of connecting, of opening, or of frames.

## What the checks found

Three statements of the code's own comments or docs do not hold of the code. Each
has a run with the shortest trace.

1. `quit_stale_vote`. A vote carries no sequence number. Window A votes; window B
   declines, so the quit is cancelled; a second quit is requested; A's vote of the first
   arrives and counts. With B's new vote the walk begins while A is on its dialog.
   `lib.rs:850` says a human "must never be force-quit out from under it".
2. `quit_restart`. A restart deferred behind a transfer is answered `true`. Between the
   settling of the transfer and the redrive posted for it a plain quit finds nothing in flight, runs
   as a plain quit, and the restart joins it. `docs/specs/standalone.md:411`: "a quit queued behind a transfer carries it".
3. `journal_hand_back`. Handing a Workspace back reverses its record and retires it at once
   if the snapshots agree, and the source's old snapshot does. A save collected while the Workspace was
   still marked transferring is then written over it. A crash before the source's next save loses the
   Workspace. `docs/specs/standalone.md:276`: "Must retain the record until both snapshots
   reflect the outcome". `LostOnlyUnsaved` bounds the exposure: it ends with that next save.

Three more are known and have no run. `reopen_closed_window` does not ask the quit
machine, so a window reopened during the vote is neither asked nor part of the walk
(`docs/specs/standalone.md:345`: "Every window votes before any window is torn down"), and the last window of the walk, told it is the
last, exits the app over it. In `quit_vote` this happens: it is what `unasked` is for. Any replay of
a PTY lifts its suppression (`lib.rs:594`), also one that was meant for a target that is no longer there. A
target that is closed by the user, or dies, or gives up, with its adoption replay in the pipes has its Workspace handed
back under a new suppression (`lib.rs:408`); the old replay lifts it, the source paints new output, and then gets its own replay, which begins
before it (`docs/specs/transport.md:112`: "no duplicate or lost bytes at the seam"). `transfer_seam` has these behaviours, and without
`~overtaken` TLC finds `SeamIsExact` violated in one of them. The same goes for the deadlines: past MARK_TIMEOUT_MS
the source sends what it shows with no mark and the target adds the whole buffer to it (the comment of `marksFor` says that a tail may
repeat); a swept suppression lets output pass before the replay; a target that had planned its mount for a record that expired
settles the next one's. And `adopt_done` takes the arrival from its queue and then marks
the record settled on disk, by Workspace alone. Moved on in between, the Workspace has a new record, and that one is
settled, and retired if the snapshots happen to agree with it: the Workspace is in flight with no record, its source
leaves it out of its saves, and a crash loses it, though `lib.rs:3351` says that "the gap is recovered from this
record alone". With `MovesOn` on and a Workspace in each window (`Apart`), TLC finds `LostOnlyUnsaved` violated in ten
states. The time between the two is short, two locks in one async command.

## What is proved

For every finite set of windows, every nonempty set of initial ones, and every
value of the bounds (the assumptions of `QuitState` and `QuitFlow`):

- `TypesHold`: `Spec => []TypeOK`. The machine's type is not idle bookkeeping: the walk
  index stays positive, the entries of the vote are a function on labels, the channels
  carry only messages some handler reads.
- `IInvHolds`: `Spec => []IInv`, with

  ```
  IInv == TypeOK /\ WorkersAreCounted /\ EndsAreOpened
  ```

  `WorkersAreCounted` (the gate's count is the number of running hand-back workers) is what makes the exit
  gate mean anything; it is not part of a type. `EndsAreOpened` (both
  ends of a transfer are labels already handed out) is needed because a tear-out
  may name a window that does not exist yet, and the label must not be handed out again.
- `ExitGateHolds`: `Spec => []ExitWaitsForHandBacks`. The one step that ends the app
  requires the gate open; an open gate counts no worker or was forced; by
  `WorkersAreCounted` no worker runs. After the exit no step is enabled.
- `ExclusionHolds`: `Spec => []TransfersExcludeTeardown`, which is inductive relative to
  `IInv`. A transfer starts only with the machine idle and both closes inactive; a quit or a
  close reaches its machine only with no record in the way, and otherwise is queued. The remaining steps
  keep an idle machine idle (`KeepsIdle`) and an inactive close inactive.

- `FlowHolds`: `Spec => []OneFlowHolds`, from `FlowInv`: the claim names the flow that has the
  window, the two flows exclude each other, and a removal of the session that is under way is the only one and
  belongs to a close that is removing, which its reply moves on.
- `ForcedAreDead`: `Spec => []OnlyTheDeadAreForced`, from `OwedInv`. The property speaks of one moment
  and its reason lies in the channels: the sequence number a close watchdog was armed with was
  given out, and the webview is wedged, or the number is retired, or acked, or its request or its ack is still
  under way.
- `CancelsCostNothing` and `OneByOneMainLast`: from `WalkInv`. Nothing is torn down before the
  walk begins; a window tearing down is the walk's current one or already dying; windows that are gone
  were told nothing; main comes when the rest of the walk is dead.
- `LastIsLast`: `Spec => []LastMeansLast`, from `WalkInv` and `HeldInv` (no
  transfer is in flight while a quit is under way; watchdogs, an exit behind the gate and
  `quitProceed` speak of a quit that began) and `LastInv` (the vote asks every open window that is not `unasked`, the
  walk has every such window ahead that is not being destroyed, and once one was told it is the last every other is). A window comes of a
  tear-out, which a quit excludes, or of Reopen, which leaves it `unasked` until the quit asks anew (`Spares`).

`QuitProofs` starts with one lemma per operator of `QuitState`; then it and
`QuitWalkProofs` have one lemma per action or group of actions.

For every choice of the spans of `cfg.alert` and of the bound on lateness
(`GapsAreSpans`: the four gaps are positive), `QuiesceProofs` proves the safety
properties of the run `quiesce`: `WaitingIsAlwaysTimed`,
`SettlesOnlyAfterSilence`, `BusyIsSustainedOutput`, `NoRunIsUnasked` and
`DetectorImplementsQuiesce`, the refinement that lets `AlertManager` use `Quiesce` in
the detector's place. They rest on one invariant, `IInvHolds`, with

```
IInv == Ages /\ Timers /\ WaitingIsTimed /\ TimersBelong /\ Remembered
        /\ SilenceIsWaitedOut /\ LastIsOld /\ StretchCovers
```

The properties speak of what really happened (the ghosts `silence` and `stretch`), the
code of what it remembers; the last three parts tie the two. `SilenceIsWaitedOut`: what is left on a silence
timer and the silence so far make up the gap, which a late callback keeps because it
takes its lateness off the next timer; without that the settle could come early.
`LastIsOld`: the remembered last chunk is no younger than the silence up to the age
that expires it, so a silence that ends a run is always seen. `StretchCovers`: the
candidate, its count and its timer are covered by chunks that belong together.
`TimersBelong` (a timer is set only in its own status) is what makes each callback a
`Timer` step of `Quiesce`, and with `Remembered` keeps a new candidate from inheriting
an old one's timer. There is one lemma per action.

For any viewers, awaits and watchable commands (`KeysAreCommands`, `UntilIsNamed`), `AlertProofs` proves all
safety properties of the run `alert`: `AlertTyped`, `AlertLatches`, `AlertIdle`, `AlertUndecided`,
`AlertShields`, `AlertRings` and `AlertClears`, from `EntryHolds`. Its `IInv` adds to
the types that the latches agree and no await in its grace has a command in front of it (`Sound`), that an id with no entry
has nothing under way (`Absent`), that a removed one has no completion to come and keeps nothing of an old one (`Bare`), and
that a hold is somebody's to decide (`Decidable`). The calls an action makes in turn (settle, acknowledge, wake, prune) are
shown `Calm` one by one and compose, so that an action is proved from its calls.
`AlertUndecided` assumes `~Demotes`: a promoted helper that becomes a helper again while
a completion is held leaves it with nobody to decide it (`setHelper`, a known exposure).

For every bound on messages, queues and buffers (`BoundsAssumption`), `DirectPathProofs` proves
`StreamInOrder`, `FailedAttemptIsFree` and `EndsAgree`, from `PathHolds`. `PathInv` says of each end what
its record may be in each phase (`Own`), and of each direction (`Stream`) that the relay's queue, the frames held
back, the wire, the reader's buffer and its queue, one after the other, are consecutive places of one cipher stream, the
switch being the last thing on the relay. `InOrder` alone is not inductive: it says what the
next frame is, not what is behind it.

For every set of windows and all bounds, with every deadline and every window's end at any moment,
`TransferProofs` proves `TransferTyped`, `PartsAgree` and `AlwaysSomewhere`
(`Spec => []NeverNowhere`). `PlaceInv` gives each window one of four standings, by its place and the outcomes
(departed, failed) still in its queue: away, leaving, holding or giving. It says that at most one record exists, in the queue or with
the worker of a destroyed window; that its target owns the PTY and its source, if open, gives; that without a record
the owner holds; that moves are numbered and a replay is only of one that began (`Numbered`); and that once its replay
has come a target hears of no earlier move (`InTurn`). The last two are what keeps a
target that was slow from mounting on top of an outcome it has not read. `NeverNowhere` follows: whoever holds or gives has
the Workspace mounted. `ComesToRest` adds, whatever was overtaken, that a terminal belongs to a window with a part in the Workspace or
one that is adopting it (`Parked`), and that a PTY is silenced only by a move in flight or ahead of a replay that is still coming
(`Awaited`): when everything settled, neither is left.

`SeamProofs` proves what the terminals show: `NoByteTwice` (`Spec => []SeamIsExact`) and
`SettlesWhole` (`Spec => []SettledInOnePlace`), for every set of windows and all bounds, from `SeamHolds`. `SeamInv` is `PlaceInv`
and, until something was overtaken, for some `d` (bytes whose line the reader thread has handled) and `b` (the mark replays start at):

- `Laid`: the lines in `stdout` take the stream from `d` to what the shell printed; a mark in them names its
  place, a replay in them has the bytes from `b` to its place, and every replay still asked for starts at `b`;
- `Held`: with no record, the owner's terminal and the events queued for it run up to `d` and nothing is suppressed; or
  they run up to `b`, the output is suppressed, and the one replay in the pipes is the hand-back the owner listens for;
- `Given`: the source of a record is given everything up to its mark and nothing after it, so that what it serializes is
  the bytes before the mark;
- `Taken`: a target waits for the one replay in the pipes, or has it in its queue with the output
  after it, or has mounted and runs up to `d`;
- `Fenced`: the answer to a source's question for directories is the last thing in the pipes before a move begins, after
  every mark and replay of the moves before. That round trip, made for another purpose, is what keeps a late replay of one
  move out of the next;
- `Shown`: the property itself, and which windows have a terminal.

The reader's steps move `d` (a line of output) or `b` (the mark); every other step keeps both. Nothing is assumed of the
deadlines or of when windows go: a step that overtakes an answer ends the claim about bytes and no other. A target destroyed, failed or expired
with no replay under way does not (`ExpireSeam`, `NoneComing`): its record is handed back with one new replay, from the same mark. Where the Workspace
ends up (`SettlesWhole` without its claim about the screen) comes from `ComesToRest`.

For every set of windows and Workspaces, all starts that hold each Workspace once
(`StartsHoldEachOnce`), and all bounds, `JournalProofs` proves all the properties of the run `journal`:

- `TypeCorrect`: `Spec => []TypeOK`, with either value of `MovesOn`. The journal has one record of a Workspace at most, on
  which `Merge` rests.
- `MergeByOne` and `BootAgain`, about the disk alone. The boot's merge is not
  idempotent by its looks: it adds to one snapshot, removes from another and deletes a file it leaves empty, in
  separate writes. `BootAgain`: merged again from any point it died at, it gives the same disk. So the second crash, while booting, need not be
  looked at in any other proof.
- `LossIsBounded` (`Spec => []LostOnlyUnsaved`) and `RestoresAsLeft` (`Spec => []RestoredAsLeft`), both with `~MovesOn`, which is not
  a convenience: with it on, TLC refutes the first. They rest on

  ```
  JInv == Typed /\ Closed /\ CaughtUp /\ Parties /\ Single /\ Fates
  ```

  `CaughtUp`: a window with no write scheduled has saved, or sent to be saved, what it shows; this is what turns
  a property of the disk into one of the windows. `Closed`: no snapshot is left of a window that was removed, and no save of one
  that is gone can bring it back. `Parties` and `Single`: who still has a part in a
  move, and that a window has one move and one mount of a Workspace. `Fates` says for each
  Workspace that was not closed: the host has one move of it, which the journal has unsettled (`OneBusy`, `Journaled`); a
  settled record leads to the window that holds it (`Recorded`); so does the one a withdrawal would put back
  (`Earlier`, needed since the second admission may refuse after the first wrote); the window that holds it shows it or a record leads there
  (`AtHome`); whoever else shows it has mounted it, is closing behind it, or has yet to hear that it left (`ShownAt`). Of a Workspace that was
  closed, only discarded records are left, and any window still showing it is about to let go of it. The properties follow by
  cases over what a crash may leave (`TornKept`, `TornEnded`).

  TLC checked `JInv` before it was proved. The proof goes action by action and, under each, Workspace by Workspace: those the action
  does not name are `Untouched`.

Only model-checked:

- liveness (`MoveSettles`, `SuppressionEnds`, `SilenceSettles`, `PeerSettles` and the others), which the prover's
  fragment does not include, nor ENABLED;
- the traces behind the three findings.

What a recursively defined function computes for every input cannot be proved here either,
which will matter for the tiling engine.

## Not modelled

The components with status `not_modelled` in `PROJECT.json`, most of the repository by
lines: user interface, rendering, HTTP, deployment and tools, where a state machine
small enough to check would not be the code's. Of the modelled ones: the macOS terminate
reply held open during a quit, the UI watchdog's reload of a webview, the steps inside
a teardown, the eviction of replay buffers, the contents of a Workspace's snapshot, failed disk writes,
notification texts, path policies.

## Plan

In order:

1. `BurrowService` and `BurrowRuntime`: the serialised lifecycle (two changes that both find
   no Burrow), probe and reconnect across runs, revocations held until they are on disk
   (`service.ts:1321`). Compose them with `DirectPath`'s ends: a session replaced by a
   new one of the same client.
2. `PeerLink`: election over a socket path, and a late answer that must not take over a
   route (`peer-link.ts:495`).
3. `PendingKills` (a restore that races the countdown, `pending-kills.ts:117`), the updater around a
   quit, the tiling operations against a reference definition.
4. An abstract quit specification (vote, then end or not) that `QuitFlow` implements.
5. `Transfer` with a bounded replay buffer and a shell that exits; the path policy in `DirectPath`.

Proofs to follow: the abstract quit specification's refinement, and the weaker seam of `Transfer` that still holds
after something was overtaken.
