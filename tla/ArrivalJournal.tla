--------------------------- MODULE ArrivalJournal ---------------------------
(***************************************************************************)
(* What survives a crash while Workspaces move between windows: the        *)
(* arrival journal and the per-window snapshots of                         *)
(* standalone/src-tauri/src/lib.rs, the saves that                         *)
(* window-session-aggregator.ts and tauri-session-store.ts send it, and    *)
(* the moves and closes of workspace-move.ts that change both.             *)
(*                                                                         *)
(* A snapshot is the set of Workspaces it names: which window restores a   *)
(* Workspace is modelled, what the Workspace looks like is not. A disk     *)
(* command holds ARRIVAL_DISK_LOCK, so it is one step; each file write is  *)
(* atomic, so a crash may fall between two writes of one command (Torn).   *)
(* The deferral of a close behind a transfer is QuitFlow's, and shells and *)
(* their output are Transfer's.                                            *)
(***************************************************************************)
EXTENDS Naturals, Sequences

CONSTANTS Window,      \* window labels
          Workspace,   \* Workspace ids
          Main,        \* the window a boot with no snapshot opens
          Starts,      \* the sets of snapshots the program may start from
          MovesOn,     \* a Workspace may be moved on before the window that
                       \* mounted it has heard from adopt_done
          MaxMoves,    \* bound: moves the user starts
          MaxUpsets    \* bound: closes the user asks for and crashes, together

ASSUME MainIsAWindow == Main \in Window

ASSUME MovesOnIsSwitch == MovesOn \in BOOLEAN

ASSUME JournalBounds == {MaxMoves, MaxUpsets} \subseteq Nat

VARIABLES
    disk,      \* .journal: arrivals.json; .snap: the snapshot files
    open,      \* windows with a webview
    used,      \* labels this run of the process has given out
    active,    \* CloseMachine: windows whose close is being voted on
    closing,   \* WindowState.closing: labels whose saves are refused
    removed,   \* closing windows whose snapshot was removed
    moves,     \* the moves somebody still has a part in
    records,   \* per window, the Workspaces its aggregator has a record of
    away,      \* per window, its transferring marks
    leaving,   \* per window, the last Workspace it is closing behind
    dirty,     \* per window, a debounced write is scheduled
    saves,     \* per window, the save in flight and the one queued behind it
    home,      \* ghost: the window that holds the Workspace, in the host's eyes
    fate,      \* ghost: "kept"; "ending", then "ended" with its window, or
               \* "contested" if that closed during a move of it; "spoiled"
               \* once a boot did not restore it as it was left
    spent      \* bounds used

vars == <<disk, open, used, active, closing, removed, moves, records, away,
          leaving, dirty, saves, home, fate, spent>>

ghost == <<home, fate>>

webview == <<records, away, leaving, dirty>>

Entry == [ws : Workspace, from : Window, to : Window,
          settled : BOOLEAN, discarded : BOOLEAN]

\* The snapshot files there are, each with the Workspaces it names.
Snapshots == UNION {[ws -> SUBSET Workspace] : ws \in SUBSET Window}

ASSUME StartsHoldEachOnce ==
    /\ Starts \subseteq Snapshots
    /\ \A start \in Starts :
          /\ Main \in DOMAIN start
          /\ \A k \in Workspace : \E w \in DOMAIN start :
                 k \in start[w] /\ \A v \in DOMAIN start \ {w} : k \notin start[v]

\* host: journaled (between the two admissions), queued, adopting (taken by
\* adopt_done, not yet marked), returning (taken to be handed back), over.
\* reply and event are on their way to the source; src: it is in its inFlight.
\* tgt: the target has mounted it and awaits adopt_done, or heard a refusal.
\* previous: the record of an earlier move, which a withdrawal puts back.
Move == [ws : Workspace, from : Window, to : Window, torn : BOOLEAN,
         host : {"journaled", "queued", "adopting", "returning", "over"},
         content : BOOLEAN, src : BOOLEAN,
         reply : {"none", "accepted", "refused"},
         event : {"none", "departed", "failed"},
         tgt : {"none", "mounted", "refused", "over"},
         previous : SUBSET Entry]

-----------------------------------------------------------------------------
(* The disk. Every operator takes the disk and gives the disk after it.     *)

Has(d, w, k) == w \in DOMAIN d.snap /\ k \in d.snap[w]

Names(d, w) == IF w \in DOMAIN d.snap THEN d.snap[w] ELSE {}

Without(f, w) == [v \in DOMAIN f \ {w} |-> f[v]]

WriteSnap(d, w, s) ==
    [d EXCEPT !.snap = [v \in DOMAIN d.snap \cup {w} |->
                            IF v = w THEN s ELSE d.snap[v]]]

\* A record goes once it is settled and both snapshots show how it ended.
RetireSaved(d) ==
    LET Durable(r) == r.settled /\ ~Has(d, r.from, r.ws)
                                /\ (Has(d, r.to, r.ws) = ~r.discarded)
    IN  [d EXCEPT !.journal = {r \in @ : ~Durable(r)}]

\* Mutant: the Workspace's older record is left beside the new one.
RecordArrivalBeside(d, m) ==
    [d EXCEPT !.journal = @ \cup {[ws |-> m.ws, from |-> m.from, to |-> m.to,
                                   settled |-> FALSE, discarded |-> FALSE]}]

RecordArrival(d, m) ==
    [d EXCEPT !.journal = {r \in @ : r.ws # m.ws}
        \cup {[ws |-> m.ws, from |-> m.from, to |-> m.to,
               settled |-> FALSE, discarded |-> FALSE]}]

Withdraw(d, m, previous) ==
    LET Ours(r) == r.ws = m.ws /\ r.from = m.from /\ r.to = m.to /\ ~r.settled
    IN  [d EXCEPT !.journal =
            IF \E r \in @ : Ours(r) THEN {r \in @ : ~Ours(r)} \cup previous ELSE @]

Settle(d, k) ==
    [d EXCEPT !.journal =
        {IF r.ws = k THEN [r EXCEPT !.settled = TRUE] ELSE r : r \in @}]

Return(d, m) ==
    [d EXCEPT !.journal = {r \in @ : r.ws # m.ws}
        \cup {[ws |-> m.ws, from |-> m.to, to |-> m.from,
               settled |-> TRUE, discarded |-> FALSE]}]

Forget(d, k) == [d EXCEPT !.journal = {r \in @ : r.ws # k}]

\* Mutant: a close leaves the records of what it adopted as they are.
NoTombstone(d, w) == d

Tombstone(d, w) ==
    [d EXCEPT !.journal =
        {IF r.to = w /\ r.settled THEN [r EXCEPT !.discarded = TRUE] ELSE r : r \in @}]

RemoveSnap(d, w) == [d EXCEPT !.snap = Without(@, w)]

RemoveWorkspace(d, w, k) ==
    IF ~Has(d, w, k) THEN d
    ELSE IF d.snap[w] = {k} THEN RemoveSnap(d, w)
    ELSE WriteSnap(d, w, d.snap[w] \ {k})

\* The first write of restore_arrival, and the whole of it.
RestoreTarget(d, r) ==
    IF r.discarded THEN RemoveWorkspace(d, r.from, r.ws)
    ELSE WriteSnap(d, r.to, Names(d, r.to) \cup {r.ws})

RestoreArrival(d, r) ==
    RemoveWorkspace(RestoreTarget(d, r), IF r.discarded THEN r.to ELSE r.from, r.ws)

\* restore_arrival of each of the records rs. They name different Workspaces, so
\* their order is free: each window gains and loses what they say, and a
\* snapshot they leave empty is removed.
Merge(d, rs) ==
    LET Gains(w)  == {r.ws : r \in {q \in rs : q.to = w /\ ~q.discarded}}
        Loses(w)  == {r.ws : r \in {q \in rs : q.from = w \/ (q.to = w /\ q.discarded)}}
        Merged(w) == (Names(d, w) \cup Gains(w)) \ Loses(w)
        Kept(w)   == Merged(w) # {} \/ (w \in DOMAIN d.snap /\ d.snap[w] = {})
    IN  [d EXCEPT !.snap =
            [w \in {v \in DOMAIN d.snap \cup {r.to : r \in rs} : Kept(v)} |-> Merged(w)]]

\* The journal is written last.
RestoreArrivals(d) == [Merge(d, d.journal) EXCEPT !.journal = {}]

\* What a crash now may leave: the disk as it is, or with the first writes of a
\* command that is running.
Torn ==
    {disk}
    \cup {WriteSnap(disk, w, saves[w][1]) :
              w \in {v \in Window : saves[v] # <<>> /\ v \notin closing}}
    \cup {Settle(disk, m.ws) : m \in {i \in moves : i.host = "adopting"}}
    \cup {Return(disk, m) : m \in {i \in moves : i.host = "returning" /\ i.from \in open}}
    \cup UNION {{Tombstone(disk, w), RemoveSnap(Tombstone(disk, w), w)} :
              w \in closing \ removed}

\* What a crash while booting may leave: some records merged, one half merged,
\* the journal still whole.
TornBoot(d) ==
    UNION {UNION {{RestoreTarget(Merge(d, done), r), RestoreArrival(Merge(d, done), r)}
                  : r \in d.journal \ done} : done \in SUBSET d.journal}

\* The disk a crash now, and then one more while booting, is recovered into.
Recovered ==
    {RestoreArrivals(d) : d \in Torn \cup UNION {TornBoot(e) : e \in Torn}}

-----------------------------------------------------------------------------

Fresh == Window \ used

Queued(k) == \E m \in moves : m.ws = k /\ m.host = "queued"

\* admit_arrival: neither end is closing and the Workspace is not in flight.
Admitted(k, from, to) ==
    {from, to} \cap (active \cup closing) = {} /\ ~Queued(k)

\* A move of k is under way in the host.
Unsettled(k) == \E m \in moves : m.ws = k /\ m.host # "over"

\* isWorkspaceTransferPending: the move this window has of k, unsettled.
Pending(w, k) == \E m \in moves : m.src /\ m.ws = k /\ m.from = w

\* The window has mounted k and its adopt_done has not returned, or its refusal
\* has not been acted on.
Arriving(w, k) ==
    \E m \in moves : m.ws = k /\ m.to = w /\ m.tgt \in {"mounted", "refused"}

\* A move is forgotten once no party has anything left to do about it.
InPlay(m) ==
    \/ m.host # "over" \/ m.src \/ m.reply # "none" \/ m.event # "none"
    \/ m.tgt \in {"mounted", "refused"}

Become(ms) == moves' = {m \in ms : InPlay(m)}

Step(m, next) == Become((moves \ {m}) \cup {next})

Init ==
    /\ \E start \in Starts : disk = [journal |-> {}, snap |-> start]
    /\ open = DOMAIN disk.snap /\ used = open
    /\ active = {} /\ closing = {} /\ removed = {}
    /\ moves = {}
    /\ records = [w \in Window |-> IF w \in open THEN disk.snap[w] ELSE {}]
    /\ away = [w \in Window |-> {}]
    /\ leaving = [w \in Window |-> {}]
    /\ dirty = [w \in Window |-> FALSE]
    /\ saves = [w \in Window |-> <<>>]
    /\ home = [k \in Workspace |-> CHOOSE w \in open : k \in disk.snap[w]]
    /\ fate = [k \in Workspace |-> "kept"]
    /\ spent = [moves |-> 0, upsets |-> 0]

-----------------------------------------------------------------------------
(* A move. startMove, handOff and the host's arrival commands.              *)

\* The source asks; the host admits it and writes the record. A refusal at the
\* first admission changes nothing. Nothing in startMove asks whether the
\* Workspace is still being adopted here; without MovesOn the user waits.
StartMove(k, from, to) ==
    /\ from \in open /\ to # from /\ to \in open \cup Fresh
    /\ k \in records[from] /\ ~Pending(from, k)
    /\ MovesOn \/ ~Arriving(from, k)
    /\ leaving[from] = {}
    /\ spent.moves < MaxMoves
    /\ Admitted(k, from, to)
    /\ LET m == [ws |-> k, from |-> from, to |-> to, torn |-> to \notin open,
                 host |-> "journaled", content |-> FALSE, src |-> TRUE,
                 reply |-> "none", event |-> "none", tgt |-> "none",
                 previous |-> {r \in disk.journal : r.ws = k}]
       IN  disk' = RecordArrival(disk, m) /\ moves' = moves \cup {m}
    /\ used' = used \cup {to}
    /\ spent' = [spent EXCEPT !.moves = @ + 1]
    /\ UNCHANGED <<open, active, closing, removed, webview, saves, ghost>>

\* The second admission, under the queue's lock.
OpenArrival(m) ==
    LET ok == Admitted(m.ws, m.from, m.to)
    IN  /\ m.host = "journaled"
        /\ Step(m, [m EXCEPT !.host = IF ok THEN "queued" ELSE "over",
                             !.reply = IF ok THEN "accepted" ELSE "refused",
                             !.previous = {}])
        /\ disk' = IF ok THEN disk ELSE Withdraw(disk, m, m.previous)
        /\ UNCHANGED <<open, used, active, closing, removed, webview, saves, ghost, spent>>

\* The invoke returns: handOff marks the Workspace transferring, unless it was
\* handed back meanwhile, or ends the move it was refused.
Reply(m) ==
    LET marks == m.reply = "accepted" /\ m.src
    IN  /\ m.reply # "none" /\ m.from \in open
        /\ Step(m, [m EXCEPT !.reply = "none", !.src = @ /\ m.reply = "accepted"])
        /\ away' = [away EXCEPT ![m.from] = IF marks THEN @ \cup {m.ws} ELSE @]
        /\ dirty' = [dirty EXCEPT ![m.from] = @ \/ marks]
        /\ UNCHANGED <<disk, open, used, active, closing, removed, records,
                       leaving, saves, ghost, spent>>

\* transfer_workspace_content: the target may take it now; a tear-out's window
\* is built, or could not be.
SendContent(m) ==
    /\ m.src /\ m.from \in open /\ m.ws \in away[m.from]
    /\ m.host = "queued" /\ ~m.content
    /\ \/ /\ Step(m, [m EXCEPT !.content = TRUE])
          /\ open' = open \cup {m.to}
       \/ /\ m.torn
          /\ Step(m, [m EXCEPT !.content = TRUE, !.host = "returning"])
          /\ UNCHANGED open
    /\ UNCHANGED <<disk, used, active, closing, removed, webview, saves, ghost, spent>>

\* adoptWorkspace up to its adopt_done, on the nudge that follows any event the
\* window was sent about an earlier move; bootFromTearOut installs the record only
\* after it. Mounting beside a last Workspace that has left gives that one an
\* empty record again (onWorkspacesChanged).
Mount(m) ==
    LET boots == m.torn /\ records[m.to] = {}
    IN  /\ m.host = "queued" /\ m.content /\ m.to \in open /\ m.tgt = "none"
        /\ \A i \in moves : i.ws = m.ws =>
               /\ i.to = m.to => i.tgt \in {"none", "over"}
               /\ i.from = m.to => i.event = "none"
        /\ Step(m, [m EXCEPT !.tgt = "mounted"])
        /\ IF boots THEN UNCHANGED <<records, dirty>>
           ELSE /\ records' = [records EXCEPT ![m.to] = @ \cup {m.ws} \cup leaving[m.to]]
                /\ dirty' = [dirty EXCEPT ![m.to] = TRUE]
        /\ UNCHANGED <<disk, open, used, active, closing, removed, away,
                       leaving, saves, ghost, spent>>

\* The plan threw: adopt_failed takes the arrival to hand it back.
AdoptFailed(m) ==
    /\ m.host = "queued" /\ m.content /\ m.to \in open /\ m.tgt = "none"
    /\ Step(m, [m EXCEPT !.host = "returning", !.tgt = "over"])
    /\ UNCHANGED <<disk, open, used, active, closing, removed, webview, saves, ghost, spent>>

\* take_arrival finds the queued arrival of this Workspace into this window,
\* whichever move queued it. Adopted into a window that is closing, it goes with
\* that window.
AdoptDone(m) ==
    LET Alike(i, host) == i.ws = m.ws /\ i.to = m.to /\ i.host = host
        found == {i \in moves : Alike(i, "queued")}
    IN  /\ m.tgt = "mounted" /\ m.to \in open
        /\ ~\E i \in moves : Alike(i, "adopting")
        /\ IF found = {} THEN Step(m, [m EXCEPT !.tgt = "refused"])
           ELSE Become((moves \ found) \cup {[i EXCEPT !.host = "adopting"] : i \in found})
        /\ home' = [home EXCEPT ![m.ws] = IF found = {} THEN @ ELSE m.to]
        /\ fate' = [fate EXCEPT ![m.ws] =
               IF found # {} /\ m.to \in closing \ removed /\ @ = "kept" THEN "ending" ELSE @]
        /\ UNCHANGED <<disk, open, used, active, closing, removed, webview, saves, spent>>

\* The rest of adopt_done: the record is settled, the source is told, the
\* target's invoke returns.
MarkAdopted(m) ==
    LET Caller(i) == i.tgt = "mounted" /\ i.ws = m.ws /\ i.to = m.to
    IN  /\ m.host = "adopting"
        /\ disk' = RetireSaved(Settle(disk, m.ws))
        /\ Become({[i EXCEPT !.tgt = IF Caller(i) THEN "over" ELSE @,
                             !.host = IF i = m THEN "over" ELSE @,
                             !.event = IF i = m /\ m.from \in open THEN "departed" ELSE @]
                   : i \in moves})
        /\ records' = [records EXCEPT ![m.to] = IF m.to \in open THEN @ \cup {m.ws} ELSE @]
        /\ dirty' = [dirty EXCEPT ![m.to] = m.to \in open]
        /\ UNCHANGED <<open, used, active, closing, removed, away, leaving,
                       saves, ghost, spent>>

\* adopt_done was refused: discardArrival unwinds the mount.
DiscardArrival(m) ==
    /\ m.tgt = "refused" /\ m.to \in open
    /\ Step(m, [m EXCEPT !.tgt = "over"])
    /\ records' = [records EXCEPT ![m.to] = @ \ {m.ws}]
    /\ dirty' = [dirty EXCEPT ![m.to] = TRUE]
    /\ UNCHANGED <<disk, open, used, active, closing, removed, away,
                   leaving, saves, ghost, spent>>

\* The arrival watchdog.
Expire(m) ==
    /\ m.host = "queued"
    /\ Step(m, [m EXCEPT !.host = "returning"])
    /\ UNCHANGED <<disk, open, used, active, closing, removed, webview, saves, ghost, spent>>

\* hand_back_arrival: the durable destination is reversed before the source is
\* told; with the source gone the record is forgotten.
HandBack(m) ==
    LET back == m.from \in open
    IN  /\ m.host = "returning"
        /\ disk' = IF back THEN RetireSaved(Return(disk, m)) ELSE Forget(disk, m.ws)
        /\ Step(m, [m EXCEPT !.host = "over", !.event = IF back THEN "failed" ELSE @])
        /\ UNCHANGED <<open, used, active, closing, removed, webview, saves, ghost, spent>>

\* handleDeparted: the window lets go of it, and closes if it was its last.
Departed(m) ==
    /\ m.event = "departed" /\ m.from \in open
    /\ Step(m, [m EXCEPT !.event = "none", !.src = FALSE])
    /\ records' = [records EXCEPT ![m.from] = @ \ {m.ws}]
    /\ away' = [away EXCEPT ![m.from] = @ \ {m.ws}]
    /\ leaving' = [leaving EXCEPT ![m.from] =
                       IF records[m.from] = {m.ws} THEN {m.ws} ELSE @]
    /\ dirty' = [dirty EXCEPT ![m.from] = TRUE]
    /\ UNCHANGED <<disk, open, used, active, closing, removed, saves, ghost, spent>>

\* Mutant: clearing the mark schedules no save.
ArrivalFailedQuietly(m) ==
    /\ m.event = "failed" /\ m.from \in open
    /\ Step(m, [m EXCEPT !.event = "none", !.src = FALSE])
    /\ away' = [away EXCEPT ![m.from] = @ \ {m.ws}]
    /\ UNCHANGED <<disk, open, used, active, closing, removed, records, leaving,
                   dirty, saves, ghost, spent>>

\* handleArrivalFailed: the Workspace is simply still here.
ArrivalFailed(m) ==
    /\ m.event = "failed" /\ m.from \in open
    /\ Step(m, [m EXCEPT !.event = "none", !.src = FALSE])
    /\ away' = [away EXCEPT ![m.from] = @ \ {m.ws}]
    /\ dirty' = [dirty EXCEPT ![m.from] = @ \/ m.ws \in away[m.from]]
    /\ UNCHANGED <<disk, open, used, active, closing, removed, records,
                   leaving, saves, ghost, spent>>

-----------------------------------------------------------------------------
(* Saves *)

\* writeNow: setItem sends the snapshot, or leaves it behind the one in flight.
WriteNow(w) ==
    LET shot == records[w] \ away[w]
    IN  /\ w \in open /\ dirty[w]
        /\ dirty' = [dirty EXCEPT ![w] = FALSE]
        /\ saves' = [saves EXCEPT ![w] = IF @ = <<>> THEN <<shot>> ELSE <<@[1], shot>>]
        /\ UNCHANGED <<disk, open, used, active, closing, removed, moves,
                       records, away, leaving, ghost, spent>>

\* save_session. The next save leaves when this one returns; a window that is
\* gone sends no more.
SaveSession(w) ==
    /\ saves[w] # <<>>
    /\ disk' = IF w \in closing THEN disk ELSE RetireSaved(WriteSnap(disk, w, saves[w][1]))
    /\ saves' = [saves EXCEPT ![w] = IF w \in open THEN Tail(@) ELSE <<>>]
    /\ UNCHANGED <<open, used, active, closing, removed, moves, webview, ghost, spent>>

-----------------------------------------------------------------------------
(* Closing a window *)

Touches(w) == \E m \in moves : m.host = "queued" /\ w \in {m.from, m.to}

\* request_window_close of a window no transfer holds. The last window's close
\* is a quit.
RequestClose(w) ==
    /\ w \in open \ (active \cup closing) /\ open # {w}
    /\ ~Touches(w)
    /\ spent.upsets < MaxUpsets
    /\ active' = active \cup {w}
    /\ spent' = [spent EXCEPT !.upsets = @ + 1]
    /\ UNCHANGED <<disk, open, used, closing, removed, moves, webview, saves, ghost>>

CancelClose(w) ==
    /\ w \in active \ closing
    /\ active' = active \ {w}
    /\ UNCHANGED <<disk, open, used, closing, removed, moves, webview, saves, ghost, spent>>

\* close_window or remove_window_session: saves are refused from here on, and
\* what the window holds goes with it.
BeginClosing(w) ==
    /\ w \in open \ closing
    /\ w \in active \/ leaving[w] # {}
    /\ closing' = closing \cup {w}
    /\ fate' = [k \in Workspace |->
                    IF home[k] = w /\ fate[k] = "kept" THEN "ending" ELSE fate[k]]
    /\ UNCHANGED <<disk, open, used, active, removed, moves, webview, saves, home, spent>>

\* close_window_snapshot
CloseSnapshot(w) ==
    /\ w \in (open \cap closing) \ removed
    /\ disk' = RetireSaved(RemoveSnap(Tombstone(disk, w), w))
    /\ removed' = removed \cup {w}
    /\ fate' = [k \in Workspace |->
                    IF home[k] # w \/ fate[k] # "ending" THEN fate[k]
                    ELSE IF Unsettled(k) THEN "contested" ELSE "ended"]
    /\ UNCHANGED <<open, used, active, closing, moves, webview, saves, home, spent>>

\* WindowEvent::Destroyed: what was arriving there is handed back by a worker,
\* and what was on its way to the webview is lost.
Destroyed(w) ==
    /\ w \in removed \cap open
    /\ open' = open \ {w}
    /\ active' = active \ {w}
    /\ Become({[m EXCEPT
                   !.host = IF m.to = w /\ @ = "queued" THEN "returning" ELSE @,
                   !.tgt = IF m.to = w THEN "over" ELSE @,
                   !.src = @ /\ m.from # w,
                   !.reply = IF m.from = w THEN "none" ELSE @,
                   !.event = IF m.from = w THEN "none" ELSE @] : m \in moves})
    /\ records' = [records EXCEPT ![w] = {}]
    /\ away' = [away EXCEPT ![w] = {}]
    /\ leaving' = [leaving EXCEPT ![w] = {}]
    /\ dirty' = [dirty EXCEPT ![w] = FALSE]
    /\ saves' = [saves EXCEPT ![w] = IF @ = <<>> THEN @ ELSE <<@[1]>>]
    /\ UNCHANGED <<disk, used, closing, removed, ghost, spent>>

-----------------------------------------------------------------------------
(* Crash and boot *)

\* The process dies and starts again: restore_arrivals, then a window per
\* snapshot.
Crash ==
    /\ spent.upsets < MaxUpsets
    /\ disk' \in Recovered
    /\ LET snap == disk'.snap
           shown == IF DOMAIN snap = {} THEN {Main} ELSE DOMAIN snap
           At(k) == {w \in DOMAIN snap : k \in snap[w]}
       IN  /\ open' = shown /\ used' = shown
           /\ records' = [w \in Window |-> IF w \in DOMAIN snap THEN snap[w] ELSE {}]
           /\ home' = [k \in Workspace |->
                          IF At(k) = {} THEN home[k] ELSE CHOOSE w \in At(k) : TRUE]
           /\ fate' = [k \in Workspace |->
                          CASE fate[k] = "contested" -> "contested"
                            [] fate[k] \in {"ending", "ended"} /\ At(k) = {} -> "ended"
                            [] fate[k] \in {"kept", "ending"} /\ \E w \in At(k) : At(k) = {w} -> "kept"
                            [] OTHER -> "spoiled"]
    /\ active' = {} /\ closing' = {} /\ removed' = {} /\ moves' = {}
    /\ away' = [w \in Window |-> {}]
    /\ leaving' = [w \in Window |-> {}]
    /\ dirty' = [w \in Window |-> FALSE]
    /\ saves' = [w \in Window |-> <<>>]
    /\ spent' = [spent EXCEPT !.upsets = @ + 1]

HostStep(m) == OpenArrival(m) \/ AdoptDone(m) \/ MarkAdopted(m) \/ HandBack(m)

WindowStep(m) ==
    Reply(m) \/ Mount(m) \/ DiscardArrival(m) \/ Departed(m) \/ ArrivalFailed(m)

Next ==
    \/ \E k \in Workspace, from, to \in Window : StartMove(k, from, to)
    \/ \E m \in moves : HostStep(m) \/ WindowStep(m) \/ SendContent(m)
                        \/ AdoptFailed(m) \/ Expire(m)
    \/ \E w \in Window :
          \/ WriteNow(w) \/ SaveSession(w)
          \/ RequestClose(w) \/ CancelClose(w)
          \/ BeginClosing(w) \/ CloseSnapshot(w) \/ Destroyed(w)
    \/ Crash

Spec == Init /\ [][Next]_vars

-----------------------------------------------------------------------------
(* Properties *)

TypeOK ==
    /\ disk \in [journal : SUBSET Entry, snap : Snapshots]
    /\ \A r, q \in disk.journal : r.ws = q.ws => r = q
    /\ open \subseteq used /\ used \subseteq Window
    /\ active \subseteq open /\ removed \subseteq closing /\ closing \subseteq used
    /\ moves \subseteq Move
    /\ records \in [Window -> SUBSET Workspace]
    /\ away \in [Window -> SUBSET Workspace]
    /\ leaving \in [Window -> SUBSET Workspace]
    /\ dirty \in [Window -> BOOLEAN]
    /\ saves \in [Window -> Seq(SUBSET Workspace)]
    /\ \A w \in Window : Len(saves[w]) <= 2
    /\ home \in [Workspace -> Window]
    /\ fate \in [Workspace -> {"kept", "ending", "ended", "contested", "spoiled"}]
    /\ spent \in [moves : 0..MaxMoves, upsets : 0..MaxUpsets]

Holders(d, k) == {w \in DOMAIN d.snap : k \in d.snap[w]}

\* Whenever the process dies, the next boot restores every Workspace the user
\* did not close.
NeverLost ==
    \A d \in Recovered, k \in Workspace :
        fate[k] = "kept" => Holders(d, k) # {}

\* The window is catching up with what the host decided: it has a save
\* scheduled or sent, has not heard how its move ended, awaits adopt_done, or is
\* being closed, or is about to be behind its last Workspace.
Behind(w) ==
    /\ w \in open
    /\ \/ dirty[w] \/ saves[w] # <<>> \/ w \in closing \/ leaving[w] # {}
       \/ \E m \in moves : m.from = w /\ m.event # "none"
       \/ \E k \in Workspace : Arriving(w, k)

\* A Workspace a crash would lose is not in flight, where its record brings it
\* back (journal_and_open_arrival: "a crash in the gap is recovered from this
\* record alone"), and is still shown by a window that has yet to save it: the
\* exposure lasts until that save, never longer. hand_back_arrival, adopt_done,
\* clearWorkspaceTransferring.
LostOnlyUnsaved ==
    \A k \in Workspace :
        \/ fate[k] # "kept"
        \/ ~Unsettled(k) /\ \E w \in Window : k \in records[w] /\ Behind(w)
        \/ \A d \in Recovered : Holders(d, k) # {}

\* Once every window has caught up, a crash restores what the user left: each
\* open Workspace in one window, and none that was closed with its window, from
\* neither copy (retire_saved_arrivals, close_window_snapshot).
RestoredAsLeft ==
    (\A w \in Window : ~Behind(w)) =>
        \A d \in Recovered, k \in Workspace :
            /\ fate[k] = "kept" => \E w \in Window : Holders(d, k) = {w}
            /\ fate[k] = "ended" => Holders(d, k) = {}

=============================================================================
