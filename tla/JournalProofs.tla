---------------------------- MODULE JournalProofs ----------------------------
(***************************************************************************)
(* What the arrival journal promises, for every set of windows and         *)
(* Workspaces, every start and every bound: a boot that is interrupted and *)
(* repeated restores what it would have restored, a crash loses nothing    *)
(* but what a window has yet to save, and restores what the user left once *)
(* every window has caught up.                                             *)
(***************************************************************************)
EXTENDS ArrivalJournal, TLAPS

-----------------------------------------------------------------------------
(* The disk: what each operator leaves of the journal and the snapshots    *)

Disk == [journal : SUBSET Entry, snap : Snapshots]

LEMMA SnapshotsFacts ==
    ASSUME NEW f PROVE f \in Snapshots <=> \E S \in SUBSET Window : f \in [S -> SUBSET Workspace]
BY DEF Snapshots

LEMMA SnapTyped ==
    ASSUME NEW f \in Snapshots
    PROVE  /\ DOMAIN f \subseteq Window
           /\ f = [w \in DOMAIN f |-> f[w]]
           /\ \A w \in DOMAIN f : f[w] \subseteq Workspace
BY DEF Snapshots

LEMMA SnapMade ==
    ASSUME NEW S \in SUBSET Window, NEW g(_), \A w \in S : g(w) \subseteq Workspace
    PROVE  [w \in S |-> g(w)] \in Snapshots
<1>1. [w \in S |-> g(w)] \in [S -> SUBSET Workspace] OBVIOUS
<1> QED BY <1>1 DEF Snapshots

LEMMA RetireSavedFacts ==
    ASSUME NEW d \in Disk
    PROVE  /\ RetireSaved(d) \in Disk
           /\ RetireSaved(d).snap = d.snap
           /\ RetireSaved(d).journal \subseteq d.journal
           /\ \A r \in d.journal : r \in RetireSaved(d).journal \/
                 (r.settled /\ ~Has(d, r.from, r.ws) /\ (Has(d, r.to, r.ws) = ~r.discarded))
BY DEF RetireSaved, Disk, Entry

LEMMA RecordFacts ==
    ASSUME NEW d \in Disk, NEW m \in Move
    PROVE  /\ RecordArrival(d, m) \in Disk
           /\ RecordArrival(d, m).snap = d.snap
           /\ RecordArrival(d, m).journal = {r \in d.journal : r.ws # m.ws} \cup
                {[ws |-> m.ws, from |-> m.from, to |-> m.to, settled |-> FALSE,
                    discarded |-> FALSE]}
<1> DEFINE e == [ws |-> m.ws, from |-> m.from, to |-> m.to, settled |-> FALSE,
           discarded |-> FALSE]
           j == {r \in d.journal : r.ws # m.ws} \cup {e}
<1>1. e \in Entry BY DEF Entry, Move
<1>2. j \in SUBSET Entry BY <1>1 DEF Disk
<1>3. RecordArrival(d, m) = [d EXCEPT !.journal = j] BY DEF RecordArrival
<1> QED BY <1>2, <1>3 DEF Disk

LEMMA SettleFacts ==
    ASSUME NEW d \in Disk, NEW k \in Workspace
    PROVE  /\ Settle(d, k) \in Disk
           /\ Settle(d, k).snap = d.snap
           /\ \A r \in d.journal : r.ws # k => r \in Settle(d, k).journal
           /\ \A r \in d.journal : r.ws = k =>
                [r EXCEPT !.settled = TRUE] \in Settle(d, k).journal
           /\ \A q \in Settle(d, k).journal :
                  \/ q \in d.journal /\ q.ws # k
                  \/ \E r \in d.journal : r.ws = k /\ q = [r EXCEPT !.settled = TRUE]
<1> DEFINE g(r) == IF r.ws = k THEN [r EXCEPT !.settled = TRUE] ELSE r
           j == {g(r) : r \in d.journal}
<1>1. \A r \in d.journal : g(r) \in Entry BY DEF Entry, Disk
<1>2. j \in SUBSET Entry BY <1>1
<1>3. Settle(d, k) = [d EXCEPT !.journal = j] BY DEF Settle
<1>4. Settle(d, k).journal = j /\ Settle(d, k).snap = d.snap /\ Settle(d, k) \in Disk
  <2> HIDE DEF j
  <2> QED BY <1>2, <1>3 DEF Disk
<1> QED BY <1>4

LEMMA TombstoneFacts ==
    ASSUME NEW d \in Disk, NEW w \in Window
    PROVE  /\ Tombstone(d, w) \in Disk
           /\ Tombstone(d, w).snap = d.snap
           /\ \A r \in d.journal : ~(r.to = w /\ r.settled) => r \in Tombstone(d, w).journal
           /\ \A r \in d.journal : r.to = w /\ r.settled =>
                [r EXCEPT !.discarded = TRUE] \in Tombstone(d, w).journal
           /\ \A q \in Tombstone(d, w).journal :
                  \/ q \in d.journal /\ ~(q.to = w /\ q.settled)
                  \/ \E r \in d.journal : r.to = w /\ r.settled
                       /\ q = [r EXCEPT !.discarded = TRUE]
<1> DEFINE g(r) == IF r.to = w /\ r.settled THEN [r EXCEPT !.discarded = TRUE] ELSE r
           j == {g(r) : r \in d.journal}
<1>1. \A r \in d.journal : g(r) \in Entry BY DEF Entry, Disk
<1>2. j \in SUBSET Entry BY <1>1
<1>3. Tombstone(d, w) = [d EXCEPT !.journal = j] BY DEF Tombstone
<1>4. Tombstone(d, w).journal = j /\ Tombstone(d, w).snap = d.snap /\ Tombstone(d, w) \in Disk
  <2> HIDE DEF j
  <2> QED BY <1>2, <1>3 DEF Disk
<1> QED BY <1>4

LEMMA ReturnFacts ==
    ASSUME NEW d \in Disk, NEW m \in Move
    PROVE  /\ Return(d, m) \in Disk
           /\ Return(d, m).snap = d.snap
           /\ Return(d, m).journal = {r \in d.journal : r.ws # m.ws} \cup
                {[ws |-> m.ws, from |-> m.to, to |-> m.from, settled |-> TRUE,
                    discarded |-> FALSE]}
<1> DEFINE e == [ws |-> m.ws, from |-> m.to, to |-> m.from, settled |-> TRUE, discarded |-> FALSE]
           j == {r \in d.journal : r.ws # m.ws} \cup {e}
<1>1. e \in Entry BY DEF Entry, Move
<1>2. j \in SUBSET Entry BY <1>1 DEF Disk
<1>3. Return(d, m) = [d EXCEPT !.journal = j] BY DEF Return
<1> QED BY <1>2, <1>3 DEF Disk

LEMMA ForgetFacts ==
    ASSUME NEW d \in Disk, NEW k \in Workspace
    PROVE  /\ Forget(d, k) \in Disk
           /\ Forget(d, k).snap = d.snap
           /\ Forget(d, k).journal = {r \in d.journal : r.ws # k}
BY DEF Forget, Disk

LEMMA WithdrawFacts ==
    ASSUME NEW d \in Disk, NEW m \in Move, NEW p \in SUBSET Entry
    PROVE  /\ Withdraw(d, m, p) \in Disk
           /\ Withdraw(d, m, p).snap = d.snap
           /\ \A r \in d.journal : r.ws # m.ws \/ r.settled => r \in Withdraw(d, m, p).journal
           /\ \A r \in Withdraw(d, m, p).journal : r \in d.journal \/
                (r \in p /\ \E q \in d.journal : q.ws = m.ws /\ q.from = m.from /\ q.to = m.to
                    /\ ~q.settled)
           /\ \A r \in Withdraw(d, m, p).journal : r \in p
                \/ ~(r.ws = m.ws /\ r.from = m.from /\ r.to = m.to /\ ~r.settled)
           /\ (\E q \in d.journal : q.ws = m.ws /\ q.from = m.from /\ q.to = m.to /\ ~q.settled)
                 => p \subseteq Withdraw(d, m, p).journal
BY DEF Withdraw, Disk, Entry, Move

LEMMA WriteSnapFacts ==
    ASSUME NEW d \in Disk, NEW w \in Window, NEW s \in SUBSET Workspace
    PROVE  /\ WriteSnap(d, w, s) \in Disk
           /\ WriteSnap(d, w, s).journal = d.journal
           /\ DOMAIN WriteSnap(d, w, s).snap = DOMAIN d.snap \cup {w}
           /\ WriteSnap(d, w, s).snap[w] = s
           /\ \A v \in DOMAIN d.snap : v # w => WriteSnap(d, w, s).snap[v] = d.snap[v]
<1> DEFINE f == [v \in DOMAIN d.snap \cup {w} |-> IF v = w THEN s ELSE d.snap[v]]
<1>1. d.snap \in Snapshots /\ d.journal \in SUBSET Entry BY DEF Disk
<1>2. f \in [DOMAIN d.snap \cup {w} -> SUBSET Workspace] BY <1>1, SnapTyped
<1>3. DOMAIN d.snap \cup {w} \in SUBSET Window BY <1>1, SnapTyped
<1>4. f \in Snapshots BY <1>2, <1>3 DEF Snapshots
<1>5. WriteSnap(d, w, s) = [d EXCEPT !.snap = f] BY DEF WriteSnap
<1>6. WriteSnap(d, w, s).snap = f /\ WriteSnap(d, w, s).journal = d.journal
      /\ WriteSnap(d, w, s) \in Disk
  BY <1>4, <1>5 DEF Disk
<1> QED BY <1>6

LEMMA RemoveSnapFacts ==
    ASSUME NEW d \in Disk, NEW w
    PROVE  /\ RemoveSnap(d, w) \in Disk
           /\ RemoveSnap(d, w).journal = d.journal
           /\ DOMAIN RemoveSnap(d, w).snap = DOMAIN d.snap \ {w}
           /\ \A v \in DOMAIN d.snap \ {w} : RemoveSnap(d, w).snap[v] = d.snap[v]
<1> DEFINE f == [v \in DOMAIN d.snap \ {w} |-> d.snap[v]]
<1>1. d.snap \in Snapshots /\ d.journal \in SUBSET Entry BY DEF Disk
<1>2. f \in [DOMAIN d.snap \ {w} -> SUBSET Workspace] BY <1>1, SnapTyped
<1>3. DOMAIN d.snap \ {w} \in SUBSET Window BY <1>1, SnapTyped
<1>4. f \in Snapshots BY <1>2, <1>3 DEF Snapshots
<1>5. RemoveSnap(d, w) = [d EXCEPT !.snap = f] BY DEF RemoveSnap, Without
<1>6. RemoveSnap(d, w).snap = f /\ RemoveSnap(d, w).journal = d.journal
      /\ RemoveSnap(d, w) \in Disk
  BY <1>4, <1>5 DEF Disk
<1> QED BY <1>6

\* Every record names its own Workspace and two windows.
\* One record of a Workspace, between two windows.
Orderly(rs) ==
    /\ \A r, q \in rs : r.ws = q.ws => r = q
    /\ \A r \in rs : r.from # r.to

LEMMA NamesTyped ==
    ASSUME NEW d \in Disk, NEW w PROVE Names(d, w) \in SUBSET Workspace
BY SnapTyped DEF Names, Disk

\* A disk is its journal, its snapshot files and what they name.
LEMMA SameDisk ==
    ASSUME NEW d \in Disk, NEW e \in Disk, d.journal = e.journal,
           DOMAIN d.snap = DOMAIN e.snap, \A w \in DOMAIN d.snap : Names(d, w) = Names(e, w)
    PROVE  d = e
<1>1. d.snap = e.snap BY SnapTyped DEF Disk, Names
<1> QED BY <1>1 DEF Disk

\* The records rs put k into w's snapshot, and take it out.
Gains(k, w, rs) == \E q \in rs : q.ws = k /\ q.to = w /\ ~q.discarded

Loses(k, w, rs) == \E q \in rs : q.ws = k /\ (q.from = w \/ (q.to = w /\ q.discarded))

LEMMA MergeFacts ==
    ASSUME NEW d \in Disk, NEW rs \in SUBSET Entry
    PROVE  /\ Merge(d, rs) \in Disk
           /\ Merge(d, rs).journal = d.journal
           /\ \A w, k : k \in Names(Merge(d, rs), w) <=>
                 (k \in Names(d, w) \/ Gains(k, w, rs)) /\ ~Loses(k, w, rs)
           /\ \A w : w \in DOMAIN Merge(d, rs).snap <=>
                 \/ Names(Merge(d, rs), w) # {}
                 \/ w \in DOMAIN d.snap /\ d.snap[w] = {}
                    /\ ~\E k : Gains(k, w, rs) /\ ~Loses(k, w, rs)
<1> DEFINE G(w) == {r.ws : r \in {q \in rs : q.to = w /\ ~q.discarded}}
           L(w) == {r.ws : r \in {q \in rs : q.from = w \/ (q.to = w /\ q.discarded)}}
           N(w) == (Names(d, w) \cup G(w)) \ L(w)
           K(w) == N(w) # {} \/ (w \in DOMAIN d.snap /\ d.snap[w] = {})
           S == {v \in DOMAIN d.snap \cup {r.to : r \in rs} : K(v)}
           f == [w \in S |-> N(w)]
<1>1. Merge(d, rs) = [d EXCEPT !.snap = f] BY DEF Merge
<1>2. \A w, k : (k \in G(w) <=> Gains(k, w, rs)) /\ (k \in L(w) <=> Loses(k, w, rs))
  BY DEF Gains, Loses
<1>3. d.snap \in Snapshots /\ d.journal \in SUBSET Entry BY DEF Disk
<1>4. S \in SUBSET Window BY <1>3, SnapTyped DEF Entry
<1>5. \A w : G(w) \in SUBSET Workspace BY DEF Entry
<1>6. \A w : N(w) \in SUBSET Workspace BY <1>5, NamesTyped
<1>7. f \in [S -> SUBSET Workspace]
  <2> HIDE DEF S, N
  <2> QED BY <1>6
<1>8. f \in Snapshots
  <2> HIDE DEF S, f
  <2> QED BY <1>4, <1>7 DEF Snapshots
<1>9. Merge(d, rs) \in Disk /\ Merge(d, rs).journal = d.journal /\ Merge(d, rs).snap = f
  <2> HIDE DEF f
  <2> QED BY <1>1, <1>8, <1>3 DEF Disk
<1>10. \A w, k : k \in G(w) => w \in {r.to : r \in rs} OBVIOUS
<1>11. \A w : w \notin S => N(w) = {}
  <2> SUFFICES ASSUME NEW w, N(w) # {} PROVE w \in S OBVIOUS
  <2>1. PICK k : k \in N(w) OBVIOUS
  <2>2. k \in Names(d, w) \/ k \in G(w) BY <2>1
  <2>3. w \in DOMAIN d.snap \cup {r.to : r \in rs} BY <2>2, <1>10 DEF Names
  <2> QED BY <2>3
<1>12. DOMAIN Merge(d, rs).snap = S /\ \A w \in S : Merge(d, rs).snap[w] = N(w)
  <2> HIDE DEF S, N
  <2> QED BY <1>9
<1>13. \A w : Names(Merge(d, rs), w) = N(w)
  <2> HIDE DEF S, N
  <2> QED BY <1>11, <1>12 DEF Names
<1>14. \A w, k : k \in N(w) <=> (k \in Names(d, w) \/ Gains(k, w, rs)) /\ ~Loses(k, w, rs)
  <2> HIDE DEF G, L
  <2> QED BY <1>2
<1>15. ASSUME NEW w PROVE w \in S <=> N(w) # {} \/ (w \in DOMAIN d.snap /\ d.snap[w] = {}
                    /\ ~\E k : Gains(k, w, rs) /\ ~Loses(k, w, rs))
  <2>1. (\E k : Gains(k, w, rs) /\ ~Loses(k, w, rs)) => N(w) # {}
    <3> HIDE DEF N
    <3> QED BY <1>14
  <2>2. w \in S <=> K(w)
    <3>1. w \in DOMAIN d.snap => (w \in S <=> K(w)) OBVIOUS
    <3>2. N(w) # {} => w \in S BY <1>11
    <3> QED BY <3>1, <3>2
  <2> HIDE DEF S, N
  <2> QED BY <2>1, <2>2
<1> HIDE DEF S, N
<1> QED BY <1>9, <1>12, <1>13, <1>14, <1>15

LEMMA RemoveWorkspaceFacts ==
    ASSUME NEW d \in Disk, NEW w \in Window, NEW k \in Workspace
    PROVE  /\ RemoveWorkspace(d, w, k) \in Disk
           /\ RemoveWorkspace(d, w, k).journal = d.journal
           /\ \A v, j : j \in Names(RemoveWorkspace(d, w, k), v) <=> j \in Names(d, v)
                /\ ~(v = w /\ j = k)
           /\ \A v : v \in DOMAIN RemoveWorkspace(d, w, k).snap <=>
                 v \in DOMAIN d.snap /\ ~(v = w /\ d.snap[v] = {k})
<1>1. d.snap \in Snapshots BY DEF Disk
<1>2. CASE ~Has(d, w, k)
  <2>1. RemoveWorkspace(d, w, k) = d BY <1>2 DEF RemoveWorkspace
  <2> QED BY <1>2, <2>1 DEF Has, Names
<1>3. CASE Has(d, w, k) /\ d.snap[w] = {k}
  <2> DEFINE e == RemoveSnap(d, w)
  <2>1. RemoveWorkspace(d, w, k) = e BY <1>3 DEF RemoveWorkspace
  <2>2. /\ e \in Disk /\ e.journal = d.journal /\ DOMAIN e.snap = DOMAIN d.snap \ {w}
        /\ \A v \in DOMAIN d.snap \ {w} : e.snap[v] = d.snap[v]
    BY RemoveSnapFacts
  <2> HIDE DEF e
  <2>5. ASSUME NEW v, NEW j PROVE j \in Names(e, v) <=> j \in Names(d, v) /\ ~(v = w /\ j = k)
    BY <1>3, <2>2 DEF Has, Names
  <2>6. ASSUME NEW v
        PROVE v \in DOMAIN e.snap <=> v \in DOMAIN d.snap /\ ~(v = w /\ d.snap[v] = {k})
    BY <1>3, <2>2 DEF Has
  <2> QED BY <2>1, <2>2, <2>5, <2>6
<1>4. CASE Has(d, w, k) /\ d.snap[w] # {k}
  <2> DEFINE s == d.snap[w] \ {k}
             e == WriteSnap(d, w, s)
  <2>1. RemoveWorkspace(d, w, k) = e BY <1>4 DEF RemoveWorkspace
  <2>2. s \in SUBSET Workspace BY <1>4, <1>1, SnapTyped DEF Has
  <2> HIDE DEF s
  <2>3. /\ e \in Disk /\ e.journal = d.journal /\ DOMAIN e.snap = DOMAIN d.snap \cup {w}
        /\ e.snap[w] = s /\ \A v \in DOMAIN d.snap : v # w => e.snap[v] = d.snap[v]
    BY <2>2, WriteSnapFacts
  <2> HIDE DEF e
  <2>5. ASSUME NEW v, NEW j PROVE j \in Names(e, v) <=> j \in Names(d, v) /\ ~(v = w /\ j = k)
    BY <1>4, <2>3 DEF Has, Names, s
  <2>6. ASSUME NEW v
        PROVE v \in DOMAIN e.snap <=> v \in DOMAIN d.snap /\ ~(v = w /\ d.snap[v] = {k})
    BY <1>4, <2>3 DEF Has
  <2> QED BY <2>1, <2>3, <2>5, <2>6
<1> QED BY <1>2, <1>3, <1>4

LEMMA RestoreTargetFacts ==
    ASSUME NEW d \in Disk, NEW r \in Entry
    PROVE  /\ RestoreTarget(d, r) \in Disk
           /\ RestoreTarget(d, r).journal = d.journal
           /\ \A v, j : j \in Names(RestoreTarget(d, r), v) <=>
                 IF r.discarded THEN j \in Names(d, v) /\ ~(v = r.from /\ j = r.ws)
                 ELSE j \in Names(d, v) \/ (v = r.to /\ j = r.ws)
           /\ \A v : v \in DOMAIN RestoreTarget(d, r).snap <=>
                 IF r.discarded THEN v \in DOMAIN d.snap /\ ~(v = r.from /\ d.snap[v] = {r.ws})
                 ELSE v \in DOMAIN d.snap \/ v = r.to
<1> DEFINE k == r.ws
           src == r.from
           tgt == r.to
<1>0. k \in Workspace /\ src \in Window /\ tgt \in Window /\ r.discarded \in BOOLEAN BY DEF Entry
<1>1. CASE r.discarded
  <2> DEFINE e == RemoveWorkspace(d, src, k)
  <2>1. RestoreTarget(d, r) = e BY <1>1 DEF RestoreTarget
  <2> HIDE DEF k, src, tgt
  <2>2. /\ e \in Disk /\ e.journal = d.journal
        /\ \A v, j : j \in Names(e, v) <=> j \in Names(d, v) /\ ~(v = src /\ j = k)
        /\ \A v : v \in DOMAIN e.snap <=> v \in DOMAIN d.snap /\ ~(v = src /\ d.snap[v] = {k})
    BY <1>0, RemoveWorkspaceFacts
  <2> HIDE DEF e
  <2> QED BY <1>1, <2>1, <2>2 DEF k, src, tgt
<1>2. CASE ~r.discarded
  <2> DEFINE s == Names(d, tgt) \cup {k}
             e == WriteSnap(d, tgt, s)
  <2>1. RestoreTarget(d, r) = e BY <1>2 DEF RestoreTarget
  <2> HIDE DEF k, src, tgt
  <2>2. s \in SUBSET Workspace BY <1>0, NamesTyped
  <2> HIDE DEF s
  <2>3. /\ e \in Disk /\ e.journal = d.journal /\ DOMAIN e.snap = DOMAIN d.snap \cup {tgt}
        /\ e.snap[tgt] = s /\ \A v \in DOMAIN d.snap : v # tgt => e.snap[v] = d.snap[v]
    BY <1>0, <2>2, WriteSnapFacts
  <2> HIDE DEF e
  <2>4. ASSUME NEW v, NEW j PROVE j \in Names(e, v) <=> j \in Names(d, v) \/ (v = tgt /\ j = k)
    BY <2>3 DEF Names, s
  <2> QED BY <1>2, <2>1, <2>3, <2>4 DEF k, src, tgt
<1> QED BY <1>1, <1>2

LEMMA RestoreArrivalFacts ==
    ASSUME NEW d \in Disk, NEW r \in Entry
    PROVE  /\ RestoreArrival(d, r) \in Disk
           /\ RestoreArrival(d, r).journal = d.journal
           /\ \A v, j : j \in Names(RestoreArrival(d, r), v) <=>
                 /\ j \in Names(d, v) \/ (j = r.ws /\ v = r.to /\ ~r.discarded)
                 /\ ~(j = r.ws /\ (v = r.from \/ (v = r.to /\ r.discarded)))
           /\ r.from # r.to => \A v : v \in DOMAIN RestoreArrival(d, r).snap <=>
                 \/ Names(RestoreArrival(d, r), v) # {}
                 \/ v \in DOMAIN d.snap /\ d.snap[v] = {}
<1> DEFINE t == RestoreTarget(d, r)
           w == IF r.discarded THEN r.to ELSE r.from
           k == r.ws
           e == RemoveWorkspace(t, w, k)
<1>0. k \in Workspace /\ r.from \in Window /\ r.to \in Window /\ r.discarded \in BOOLEAN
      /\ w \in Window
  BY DEF Entry
<1>1. RestoreArrival(d, r) = e BY DEF RestoreArrival
<1>2. /\ t \in Disk
      /\ t.journal = d.journal
      /\ \A v, j : j \in Names(t, v) <=>
                 IF r.discarded THEN j \in Names(d, v) /\ ~(v = r.from /\ j = k)
                 ELSE j \in Names(d, v) \/ (v = r.to /\ j = k)
      /\ \A v : v \in DOMAIN t.snap <=>
                 IF r.discarded THEN v \in DOMAIN d.snap /\ ~(v = r.from /\ d.snap[v] = {k})
                 ELSE v \in DOMAIN d.snap \/ v = r.to
  BY RestoreTargetFacts
<1> HIDE DEF t, w, k
<1>3. /\ e \in Disk
      /\ e.journal = t.journal
      /\ \A v, j : j \in Names(e, v) <=> j \in Names(t, v) /\ ~(v = w /\ j = k)
      /\ \A v : v \in DOMAIN e.snap <=> v \in DOMAIN t.snap /\ ~(v = w /\ t.snap[v] = {k})
  BY <1>0, <1>2, RemoveWorkspaceFacts
<1> HIDE DEF e
<1>4. \A v, j : j \in Names(e, v) <=>
                 /\ j \in Names(d, v) \/ (j = k /\ v = r.to /\ ~r.discarded)
                 /\ ~(j = k /\ (v = r.from \/ (v = r.to /\ r.discarded)))
  BY <1>0, <1>2, <1>3 DEF w
<1>5. ASSUME r.from # r.to, NEW v
      PROVE v \in DOMAIN e.snap <=> Names(e, v) # {} \/ (v \in DOMAIN d.snap /\ d.snap[v] = {})
  <2>1. v \in DOMAIN t.snap => t.snap[v] = Names(t, v) BY DEF Names
  <2>2. v \in DOMAIN d.snap => d.snap[v] = Names(d, v) BY DEF Names
  <2>3. v \notin DOMAIN d.snap => Names(d, v) = {} BY DEF Names
  <2>4. v \notin DOMAIN e.snap => Names(e, v) = {} BY DEF Names
  <2>5. ASSUME v \in DOMAIN e.snap, Names(e, v) = {} PROVE v \in DOMAIN d.snap /\ d.snap[v] = {}
    <3>1. \A j : j \in Names(t, v) => v = w /\ j = k BY <1>3, <2>5
    <3>2. v = w => Names(t, v) # {k} BY <1>3, <2>1, <2>5
    <3>3. v = w => k \notin Names(t, v) BY <3>1, <3>2
    <3>4. \A j : j \notin Names(t, v) BY <3>1, <3>3
    <3>5. v \in DOMAIN t.snap BY <1>3, <2>5
    <3>6. CASE r.discarded
      <4>1. v \in DOMAIN d.snap BY <3>5, <3>6, <1>2
      <4>2. \A j : j \in Names(d, v) => v = r.from /\ j = k BY <3>4, <3>6, <1>2
      <4>3. v = r.from => Names(d, v) # {k} BY <3>5, <3>6, <1>2, <2>2
      <4>4. Names(d, v) = {} BY <4>2, <4>3
      <4> QED BY <4>1, <4>4, <2>2
    <3>7. CASE ~r.discarded
      <4>1. v # r.to BY <3>4, <3>7, <1>2
      <4>2. v \in DOMAIN d.snap BY <3>5, <3>7, <1>2, <4>1
      <4>3. Names(d, v) = {} BY <3>4, <3>7, <1>2
      <4> QED BY <4>2, <4>3, <2>2
    <3> QED BY <3>6, <3>7
  <2>6. ASSUME v \in DOMAIN d.snap, d.snap[v] = {} PROVE v \in DOMAIN e.snap
    <3>1. Names(d, v) = {} BY <2>6, <2>2
    <3>2. v \in DOMAIN t.snap BY <2>6, <1>2
    <3>3. v = w => k \notin Names(t, v) BY <3>1, <1>2, <1>0, <1>5 DEF w
    <3>4. v = w => t.snap[v] # {k} BY <3>2, <3>3, <2>1
    <3> QED BY <3>2, <3>4, <1>3
  <2> QED BY <2>4, <2>5, <2>6
<1> QED BY <1>1, <1>2, <1>3, <1>4, <1>5 DEF k

\* Merging no record changes nothing, and the records may be merged one by one.
THEOREM MergeByOne ==
    ASSUME NEW d \in Disk, NEW rs \in SUBSET Entry, Orderly(rs)
    PROVE  /\ Merge(d, {}) = d
           /\ \A r \in rs : Merge(d, rs) = RestoreArrival(Merge(d, rs \ {r}), r)
<1>1. Merge(d, {}) = d
  <2> DEFINE e == Merge(d, {})
  <2>1. /\ e \in Disk /\ e.journal = d.journal
        /\ \A w, k : k \in Names(e, w) <=> (k \in Names(d, w) \/ Gains(k, w, {}))
             /\ ~Loses(k, w, {})
        /\ \A w : w \in DOMAIN e.snap <=>
                 \/ Names(e, w) # {}
                 \/ w \in DOMAIN d.snap /\ d.snap[w] = {}
                    /\ ~\E k : Gains(k, w, {}) /\ ~Loses(k, w, {})
    BY MergeFacts
  <2>2. \A k, w : ~Gains(k, w, {}) /\ ~Loses(k, w, {}) BY DEF Gains, Loses
  <2> HIDE DEF e
  <2>3. \A w : Names(e, w) = Names(d, w)
    <3>1. \A w, k : k \in Names(e, w) <=> k \in Names(d, w) BY <2>1, <2>2
    <3> QED BY <3>1
  <2>4. DOMAIN e.snap = DOMAIN d.snap
    <3>1. \A w : w \in DOMAIN e.snap <=> w \in DOMAIN d.snap BY <2>1, <2>2, <2>3 DEF Names
    <3>2. e.snap \in Snapshots /\ d.snap \in Snapshots BY <2>1 DEF Disk
    <3> QED BY <3>1
  <2> QED BY <2>1, <2>3, <2>4, SameDisk DEF e
<1>2. ASSUME NEW r \in rs PROVE Merge(d, rs) = RestoreArrival(Merge(d, rs \ {r}), r)
  <2> DEFINE e == Merge(d, rs)
             o == rs \ {r}
             b == Merge(d, o)
             f == RestoreArrival(b, r)
  <2>0. r \in Entry /\ o \in SUBSET Entry /\ r.from # r.to BY DEF Orderly
  <2>1. /\ e \in Disk /\ e.journal = d.journal
        /\ \A w, k : k \in Names(e, w) <=> (k \in Names(d, w) \/ Gains(k, w, rs))
             /\ ~Loses(k, w, rs)
        /\ \A w : w \in DOMAIN e.snap <=>
                 \/ Names(e, w) # {}
                 \/ w \in DOMAIN d.snap /\ d.snap[w] = {}
                    /\ ~\E k : Gains(k, w, rs) /\ ~Loses(k, w, rs)
    BY MergeFacts
  <2>2. /\ b \in Disk /\ b.journal = d.journal
        /\ \A w, k : k \in Names(b, w) <=> (k \in Names(d, w) \/ Gains(k, w, o))
             /\ ~Loses(k, w, o)
        /\ \A w : w \in DOMAIN b.snap <=>
                 \/ Names(b, w) # {}
                 \/ w \in DOMAIN d.snap /\ d.snap[w] = {}
                    /\ ~\E k : Gains(k, w, o) /\ ~Loses(k, w, o)
    BY <2>0, MergeFacts
  <2>3. \A k, w : k # r.ws => (Gains(k, w, o) <=> Gains(k, w, rs))
        /\ (Loses(k, w, o) <=> Loses(k, w, rs))
    BY DEF Gains, Loses
  <2>4. \A w : ~Gains(r.ws, w, o) /\ ~Loses(r.ws, w, o) BY DEF Gains, Loses, Orderly
  <2>5. \A w : /\ Gains(r.ws, w, rs) <=> r.to = w /\ ~r.discarded
               /\ Loses(r.ws, w, rs) <=> r.from = w \/ (r.to = w /\ r.discarded)
    BY DEF Gains, Loses, Orderly
  <2> HIDE DEF e, b, o
  <2>6. /\ f \in Disk /\ f.journal = b.journal
        /\ \A v, j : j \in Names(f, v) <=>
                 /\ j \in Names(b, v) \/ (j = r.ws /\ v = r.to /\ ~r.discarded)
                 /\ ~(j = r.ws /\ (v = r.from \/ (v = r.to /\ r.discarded)))
        /\ \A v : v \in DOMAIN f.snap <=> Names(f, v) # {}
             \/ (v \in DOMAIN b.snap /\ b.snap[v] = {})
    BY <2>0, <2>2, RestoreArrivalFacts
  <2> HIDE DEF f
  <2>7. ASSUME NEW w, NEW k PROVE k \in Names(f, w) <=> k \in Names(e, w)
    <3>1. CASE k = r.ws
      <4>1. k \in Names(b, w) <=> k \in Names(d, w) BY <3>1, <2>2, <2>4
      <4>2. k \in Names(e, w) <=> /\ k \in Names(d, w) \/ (r.to = w /\ ~r.discarded)
                                  /\ ~(r.from = w \/ (r.to = w /\ r.discarded))
        <5>1. k \in Names(e, w) <=> (k \in Names(d, w) \/ Gains(k, w, rs)) /\ ~Loses(k, w, rs)
          BY <2>1
        <5>2. /\ Gains(k, w, rs) <=> r.to = w /\ ~r.discarded
              /\ Loses(k, w, rs) <=> r.from = w \/ (r.to = w /\ r.discarded)
          BY <3>1, <2>5
        <5> QED BY <5>1, <5>2
      <4>3. k \in Names(f, w) <=> /\ k \in Names(b, w) \/ (r.to = w /\ ~r.discarded)
                                  /\ ~(r.from = w \/ (r.to = w /\ r.discarded))
        BY <3>1, <2>6
      <4> QED BY <4>1, <4>2, <4>3
    <3>2. CASE k # r.ws BY <3>2, <2>1, <2>2, <2>3, <2>6
    <3> QED BY <3>1, <3>2
  <2>8. \A w : Names(f, w) = Names(e, w) BY <2>7
  <2>9. ASSUME NEW w PROVE w \in DOMAIN f.snap <=> w \in DOMAIN e.snap
    <3>1. w \in DOMAIN b.snap /\ b.snap[w] = {} <=> w \in DOMAIN b.snap /\ Names(b, w) = {}
      BY DEF Names
    <3>2. w \in DOMAIN d.snap /\ d.snap[w] = {} <=> w \in DOMAIN d.snap /\ Names(d, w) = {}
      BY DEF Names
    <3>3. Names(e, w) = {} /\ w \in DOMAIN d.snap /\ d.snap[w] = {} =>
            ~\E k : (Gains(k, w, o) /\ ~Loses(k, w, o)) \/ (Gains(k, w, rs) /\ ~Loses(k, w, rs))
      <4> SUFFICES ASSUME Names(e, w) = {}, w \in DOMAIN d.snap, d.snap[w] = {}, NEW k,
                          (Gains(k, w, o) /\ ~Loses(k, w, o))
                              \/ (Gains(k, w, rs) /\ ~Loses(k, w, rs))
                   PROVE  FALSE
        OBVIOUS
      <4>1. Gains(k, w, rs) /\ ~Loses(k, w, rs) BY <2>3, <2>4
      <4> QED BY <4>1, <2>1
    <3>4. Names(e, w) = {} /\ w \in DOMAIN b.snap /\ b.snap[w] = {} => w \in DOMAIN d.snap
          /\ d.snap[w] = {}
      BY <2>2, <3>1
    <3>5. Names(e, w) = {} /\ w \in DOMAIN d.snap /\ d.snap[w] = {} => w \in DOMAIN b.snap
          /\ b.snap[w] = {}
      <4> SUFFICES ASSUME Names(e, w) = {}, w \in DOMAIN d.snap, d.snap[w] = {}
                   PROVE  w \in DOMAIN b.snap /\ b.snap[w] = {}
        OBVIOUS
      <4>1. w \in DOMAIN b.snap BY <2>2, <3>3
      <4>2. Names(d, w) = {} BY <3>2
      <4>3. Names(b, w) = {} BY <4>2, <2>2, <3>3
      <4> QED BY <4>1, <4>3, <3>1
    <3> QED BY <2>1, <2>6, <2>8, <3>3, <3>4, <3>5
  <2>10. DOMAIN f.snap = DOMAIN e.snap BY <2>9
  <2>11. e = f BY <2>1, <2>2, <2>6, <2>8, <2>10, SameDisk
  <2> QED BY <2>11 DEF e, f, b, o
<1> QED BY <1>1, <1>2

\* w's snapshot is empty and the records rs leave it so.
Blank(d, w, rs) ==
    w \in DOMAIN d.snap /\ d.snap[w] = {} /\ ~\E k : Gains(k, w, rs) /\ ~Loses(k, w, rs)

\* The disks differ at most in what the records rs decide.
AlikeBut(d, e, rs) ==
    /\ d.journal = e.journal
    /\ \A w, k : ~Gains(k, w, rs) /\ ~Loses(k, w, rs) => (k \in Names(d, w) <=> k \in Names(e, w))
    /\ \A w : Blank(d, w, rs) <=> Blank(e, w, rs)

LEMMA MergeNames ==
    ASSUME NEW d \in Disk, NEW e \in Disk, NEW rs \in SUBSET Entry, AlikeBut(d, e, rs)
    PROVE  Merge(d, rs) = Merge(e, rs)
<1> DEFINE a == Merge(d, rs)
           b == Merge(e, rs)
<1>1. /\ a \in Disk /\ a.journal = d.journal
      /\ \A w, k : k \in Names(a, w) <=> (k \in Names(d, w) \/ Gains(k, w, rs))
           /\ ~Loses(k, w, rs)
      /\ \A w : w \in DOMAIN a.snap <=> Names(a, w) # {} \/ Blank(d, w, rs)
  BY MergeFacts DEF Blank
<1>2. /\ b \in Disk /\ b.journal = e.journal
      /\ \A w, k : k \in Names(b, w) <=> (k \in Names(e, w) \/ Gains(k, w, rs))
           /\ ~Loses(k, w, rs)
      /\ \A w : w \in DOMAIN b.snap <=> Names(b, w) # {} \/ Blank(e, w, rs)
  BY MergeFacts DEF Blank
<1> HIDE DEF a, b
<1>3. ASSUME NEW w, NEW k PROVE k \in Names(a, w) <=> k \in Names(b, w)
  <2>1. k \in Names(a, w) <=> (k \in Names(d, w) \/ Gains(k, w, rs)) /\ ~Loses(k, w, rs) BY <1>1
  <2>2. k \in Names(b, w) <=> (k \in Names(e, w) \/ Gains(k, w, rs)) /\ ~Loses(k, w, rs) BY <1>2
  <2>3. ~Gains(k, w, rs) /\ ~Loses(k, w, rs) => (k \in Names(d, w) <=> k \in Names(e, w))
    BY DEF AlikeBut
  <2> QED BY <2>1, <2>2, <2>3
<1>4. \A w : Names(a, w) = Names(b, w) BY <1>3
<1>5. ASSUME NEW w PROVE w \in DOMAIN a.snap <=> w \in DOMAIN b.snap
  <2>1. Blank(d, w, rs) <=> Blank(e, w, rs) BY DEF AlikeBut
  <2> QED BY <2>1, <1>1, <1>2, <1>4
<1>6. DOMAIN a.snap = DOMAIN b.snap BY <1>5
<1>7. a = b BY <1>1, <1>2, <1>4, <1>6, SameDisk DEF AlikeBut
<1> QED BY <1>7 DEF a, b

\* A boot that dies between two records, or half way through one, and is repeated
\* restores what it would have restored undisturbed.
THEOREM BootAgain ==
    ASSUME NEW d \in Disk, Orderly(d.journal), NEW e \in TornBoot(d)
    PROVE  e \in Disk /\ RestoreArrivals(e) = RestoreArrivals(d)
<1> DEFINE rs == d.journal
<1>0. rs \in SUBSET Entry /\ Orderly(rs) BY DEF Disk
<1>a. PICK done \in SUBSET rs : \E r \in rs \ done :
        e = RestoreTarget(Merge(d, done), r) \/ e = RestoreArrival(Merge(d, done), r)
  BY DEF TornBoot
<1>1. PICK r \in rs \ done :
        e = RestoreTarget(Merge(d, done), r) \/ e = RestoreArrival(Merge(d, done), r)
  BY <1>a
<1> DEFINE b == Merge(d, done)
<1>b. done \in SUBSET Entry BY <1>0, <1>a
<1>2. /\ b \in Disk /\ b.journal = d.journal
      /\ \A w, k : k \in Names(b, w) <=> (k \in Names(d, w) \/ Gains(k, w, done))
           /\ ~Loses(k, w, done)
      /\ \A w : w \in DOMAIN b.snap <=> Names(b, w) # {} \/ Blank(d, w, done)
  BY <1>b, MergeFacts DEF Blank
<1>3. r \in Entry /\ r.from # r.to /\ r.discarded \in BOOLEAN BY <1>0, <1>1 DEF Orderly, Entry
<1> HIDE DEF b
<1>4. /\ e \in Disk /\ e.journal = d.journal
      /\ \A v, j : ~(j = r.ws /\ (v = r.from \/ v = r.to)) =>
           (j \in Names(e, v) <=> j \in Names(b, v))
      /\ \A v : v \in DOMAIN e.snap /\ e.snap[v] = {} <=> v \in DOMAIN b.snap /\ b.snap[v] = {}
           /\ Names(e, v) = {}
  <2>1. CASE e = RestoreTarget(b, r)
    <3>1. /\ e \in Disk /\ e.journal = b.journal
          /\ \A v, j : j \in Names(e, v) <=>
                 IF r.discarded THEN j \in Names(b, v) /\ ~(v = r.from /\ j = r.ws)
                 ELSE j \in Names(b, v) \/ (v = r.to /\ j = r.ws)
          /\ \A v : v \in DOMAIN e.snap <=>
                 IF r.discarded THEN v \in DOMAIN b.snap /\ ~(v = r.from /\ b.snap[v] = {r.ws})
                 ELSE v \in DOMAIN b.snap \/ v = r.to
      BY <1>2, <1>3, <2>1, RestoreTargetFacts
    <3>2. ASSUME NEW v
          PROVE v \in DOMAIN e.snap /\ e.snap[v] = {} <=> v \in DOMAIN b.snap /\ b.snap[v] = {}
                /\ Names(e, v) = {}
      <4>1. v \in DOMAIN b.snap => b.snap[v] = Names(b, v) BY DEF Names
      <4>2. v \in DOMAIN e.snap => e.snap[v] = Names(e, v) BY DEF Names
      <4>3. ASSUME v \in DOMAIN b.snap, b.snap[v] = {}, Names(e, v) = {}
            PROVE v \in DOMAIN e.snap /\ e.snap[v] = {}
        BY <4>3, <4>2, <3>1
      <4>4. ASSUME v \in DOMAIN e.snap, Names(e, v) = {}
            PROVE v \in DOMAIN b.snap /\ Names(b, v) = {}
        <5>1. CASE r.discarded
          <6>1. v \in DOMAIN b.snap /\ ~(v = r.from /\ Names(b, v) = {r.ws})
            BY <4>4, <4>1, <5>1, <3>1
          <6>2. \A j : j \in Names(b, v) => v = r.from /\ j = r.ws BY <4>4, <5>1, <3>1
          <6> QED BY <6>1, <6>2
        <5>2. CASE ~r.discarded
          <6>1. v # r.to BY <4>4, <5>2, <3>1
          <6>2. v \in DOMAIN b.snap BY <4>4, <5>2, <6>1, <3>1
          <6>3. \A j : j \notin Names(b, v) BY <4>4, <5>2, <3>1
          <6> QED BY <6>2, <6>3
        <5> QED BY <5>1, <5>2
      <4> QED BY <4>1, <4>2, <4>3, <4>4
    <3> QED BY <1>2, <3>1, <3>2
  <2>2. CASE e = RestoreArrival(b, r)
    <3>1. /\ e \in Disk /\ e.journal = b.journal
          /\ \A v, j : j \in Names(e, v) <=>
                 /\ j \in Names(b, v) \/ (j = r.ws /\ v = r.to /\ ~r.discarded)
                 /\ ~(j = r.ws /\ (v = r.from \/ (v = r.to /\ r.discarded)))
          /\ \A v : v \in DOMAIN e.snap <=> Names(e, v) # {}
               \/ (v \in DOMAIN b.snap /\ b.snap[v] = {})
      BY <1>2, <1>3, <2>2, RestoreArrivalFacts
    <3>2. ASSUME NEW v
          PROVE v \in DOMAIN e.snap /\ e.snap[v] = {} <=> v \in DOMAIN b.snap /\ b.snap[v] = {}
                /\ Names(e, v) = {}
      <4>1. v \in DOMAIN e.snap => e.snap[v] = Names(e, v) BY DEF Names
      <4> QED BY <4>1, <3>1
    <3> QED BY <1>2, <3>1, <3>2
  <2> QED BY <1>1, <2>1, <2>2 DEF b
<1>5. \A k, w : /\ Gains(k, w, done) => Gains(k, w, rs)
                /\ Loses(k, w, done) => Loses(k, w, rs)
  BY DEF Gains, Loses
<1>6. \A w : w = r.from \/ w = r.to => Gains(r.ws, w, rs) \/ Loses(r.ws, w, rs)
  BY <1>1, <1>3 DEF Gains, Loses
<1> HIDE DEF rs
<1>7. ASSUME NEW w, NEW k, ~Gains(k, w, rs), ~Loses(k, w, rs)
      PROVE k \in Names(d, w) <=> k \in Names(e, w)
  <2>1. ~(k = r.ws /\ (w = r.from \/ w = r.to)) BY <1>6, <1>7
  <2>2. ~Gains(k, w, done) /\ ~Loses(k, w, done) BY <1>5, <1>7
  <2> QED BY <2>1, <2>2, <1>2, <1>4
<1>8. \A k, w : Gains(k, w, rs) => ~Loses(k, w, rs)
  BY <1>0 DEF Gains, Loses, Orderly
<1>9. ASSUME NEW w, ~\E k : Gains(k, w, rs) /\ ~Loses(k, w, rs)
      PROVE  w \in DOMAIN d.snap /\ d.snap[w] = {} <=> w \in DOMAIN e.snap /\ e.snap[w] = {}
  <2>1. \A k : ~Gains(k, w, rs) BY <1>8, <1>9
  <2>2. \A k : ~Gains(k, w, done) BY <2>1, <1>5
  <2>3. w \in DOMAIN d.snap => d.snap[w] = Names(d, w) BY DEF Names
  <2>4. w \in DOMAIN b.snap => b.snap[w] = Names(b, w) BY DEF Names
  <2>5. ASSUME w \in DOMAIN d.snap, d.snap[w] = {} PROVE w \in DOMAIN e.snap /\ e.snap[w] = {}
    <3>1. w \in DOMAIN b.snap BY <1>2, <2>2, <2>5 DEF Blank
    <3>2. \A k : k \notin Names(b, w) BY <1>2, <2>2, <2>3, <2>5
    <3>3. b.snap[w] = {} BY <3>1, <3>2, <2>4
    <3>4. w # r.to \/ r.discarded BY <2>1, <1>1 DEF Gains
    <3>5. \A k : k \notin Names(e, w)
      <4>1. CASE e = RestoreTarget(b, r)
        <5>1. \A v, j : j \in Names(e, v) <=>
                 IF r.discarded THEN j \in Names(b, v) /\ ~(v = r.from /\ j = r.ws)
                 ELSE j \in Names(b, v) \/ (v = r.to /\ j = r.ws)
          BY <1>2, <1>3, <4>1, RestoreTargetFacts
        <5> QED BY <5>1, <3>2, <3>4
      <4>2. CASE e = RestoreArrival(b, r)
        <5>1. \A v, j : j \in Names(e, v) <=>
                 /\ j \in Names(b, v) \/ (j = r.ws /\ v = r.to /\ ~r.discarded)
                 /\ ~(j = r.ws /\ (v = r.from \/ (v = r.to /\ r.discarded)))
          BY <1>2, <1>3, <4>2, RestoreArrivalFacts
        <5> QED BY <5>1, <3>2, <3>4
      <4> QED BY <1>1, <4>1, <4>2 DEF b
    <3>6. Names(e, w) = {} BY <3>5
    <3> QED BY <3>1, <3>3, <3>6, <1>4
  <2>6. ASSUME w \in DOMAIN e.snap, e.snap[w] = {} PROVE w \in DOMAIN d.snap /\ d.snap[w] = {}
    <3>1. w \in DOMAIN b.snap /\ b.snap[w] = {} BY <2>6, <1>4
    <3>2. Names(b, w) = {} BY <3>1, <2>4
    <3> QED BY <3>1, <3>2, <1>2 DEF Blank
  <2> QED BY <2>5, <2>6
<1>10. Merge(d, rs) = Merge(e, rs)
  <2>1. \A w : Blank(d, w, rs) <=> Blank(e, w, rs) BY <1>9 DEF Blank
  <2>2. AlikeBut(d, e, rs) BY <2>1, <1>4, <1>7 DEF AlikeBut
  <2> QED BY <1>0, <1>4, <2>2, MergeNames
<1> QED BY <1>4, <1>10 DEF RestoreArrivals, rs

-----------------------------------------------------------------------------
(* Disks and moves that are well formed                                    *)

\* Only what was settled is discarded.
EntryOK(r) == r.from # r.to /\ (r.discarded => r.settled)

DiskOK(d) == d \in Disk /\ Orderly(d.journal) /\ \A r \in d.journal : EntryOK(r)

\* A move between two windows somebody has a part in, with at most the one record
\* of its Workspace to put back.
MoveOK(m) ==
    /\ m \in Move /\ m.from # m.to /\ InPlay(m)
    /\ \A r, q \in m.previous : r = q
    /\ \A r \in m.previous : r.ws = m.ws /\ EntryOK(r)

MovesOK(ms) == \A m \in ms : MoveOK(m)

LEMMA RetireOK == ASSUME NEW d, DiskOK(d) PROVE DiskOK(RetireSaved(d))
BY RetireSavedFacts DEF DiskOK, Orderly

LEMMA RecordOK ==
    ASSUME NEW d, DiskOK(d), NEW m \in Move, m.from # m.to PROVE DiskOK(RecordArrival(d, m))
<1> DEFINE e == RecordArrival(d, m)
<1> DEFINE q == [ws |-> m.ws, from |-> m.from, to |-> m.to, settled |-> FALSE,
           discarded |-> FALSE]
<1>1. e \in Disk /\ e.journal = {r \in d.journal : r.ws # m.ws} \cup {q}
  BY RecordFacts DEF DiskOK
<1>3. q.ws = m.ws /\ EntryOK(q) BY DEF EntryOK
<1> HIDE DEF e, q
<1>4. \A r \in e.journal : (r \in d.journal /\ r.ws # m.ws) \/ r = q BY <1>1
<1>5. \A r, o \in e.journal : r.ws = o.ws => r = o BY <1>3, <1>4 DEF DiskOK, Orderly
<1>6. \A r \in e.journal : EntryOK(r) BY <1>3, <1>4 DEF DiskOK
<1>2. DiskOK(e) BY <1>1, <1>5, <1>6 DEF DiskOK, Orderly, EntryOK
<1> QED BY <1>2 DEF e

LEMMA ReturnOK ==
    ASSUME NEW d, DiskOK(d), NEW m \in Move, m.from # m.to PROVE DiskOK(Return(d, m))
<1> DEFINE e == Return(d, m)
<1> DEFINE q == [ws |-> m.ws, from |-> m.to, to |-> m.from, settled |-> TRUE, discarded |-> FALSE]
<1>1. e \in Disk /\ e.journal = {r \in d.journal : r.ws # m.ws} \cup {q}
  BY ReturnFacts DEF DiskOK
<1>3. q.ws = m.ws /\ EntryOK(q) BY DEF EntryOK
<1> HIDE DEF e, q
<1>4. \A r \in e.journal : (r \in d.journal /\ r.ws # m.ws) \/ r = q BY <1>1
<1>5. \A r, o \in e.journal : r.ws = o.ws => r = o BY <1>3, <1>4 DEF DiskOK, Orderly
<1>6. \A r \in e.journal : EntryOK(r) BY <1>3, <1>4 DEF DiskOK
<1>2. DiskOK(e) BY <1>1, <1>5, <1>6 DEF DiskOK, Orderly, EntryOK
<1> QED BY <1>2 DEF e

LEMMA ForgetOK ==
    ASSUME NEW d, DiskOK(d), NEW k \in Workspace PROVE DiskOK(Forget(d, k))
BY ForgetFacts DEF DiskOK, Orderly

LEMMA SettleOK ==
    ASSUME NEW d, DiskOK(d), NEW k \in Workspace PROVE DiskOK(Settle(d, k))
<1> DEFINE e == Settle(d, k)
<1>1. e \in Disk /\ \A q \in e.journal :
                  \/ q \in d.journal /\ q.ws # k
                  \/ \E r \in d.journal : r.ws = k /\ q = [r EXCEPT !.settled = TRUE]
  BY SettleFacts DEF DiskOK
<1> HIDE DEF e
<1>2. \A r \in d.journal : r \in Entry BY DEF DiskOK, Disk
<1>3. \A q \in e.journal : (q \in d.journal /\ q.ws # k) \/ \E r \in d.journal :
         r.ws = k /\ q = [r EXCEPT !.settled = TRUE] /\ q.ws = k /\ q.from = r.from
             /\ q.to = r.to /\ q.settled
  BY <1>1, <1>2 DEF Entry
<1>4. ASSUME NEW r \in e.journal, NEW q \in e.journal, r.ws = q.ws PROVE r = q
  <2>1. CASE r.ws # k
    <3>1. r \in d.journal /\ q \in d.journal BY <1>3, <1>4, <2>1
    <3> QED BY <3>1, <1>4 DEF DiskOK, Orderly
  <2>2. CASE r.ws = k
    <3>1. PICK a \in d.journal : a.ws = k /\ r = [a EXCEPT !.settled = TRUE] BY <1>3, <2>2
    <3>2. PICK b \in d.journal : b.ws = k /\ q = [b EXCEPT !.settled = TRUE] BY <1>3, <1>4, <2>2
    <3>3. a = b BY <3>1, <3>2 DEF DiskOK, Orderly
    <3> QED BY <3>1, <3>2, <3>3
  <2> QED BY <2>1, <2>2
<1>5. \A q \in e.journal : EntryOK(q) BY <1>3 DEF DiskOK, EntryOK
<1>6. DiskOK(e) BY <1>1, <1>4, <1>5 DEF DiskOK, Orderly, EntryOK
<1> QED BY <1>6 DEF e

LEMMA TombstoneOK ==
    ASSUME NEW d, DiskOK(d), NEW w \in Window PROVE DiskOK(Tombstone(d, w))
<1> DEFINE e == Tombstone(d, w)
<1>1. e \in Disk /\ \A q \in e.journal :
                  \/ q \in d.journal /\ ~(q.to = w /\ q.settled)
                  \/ \E r \in d.journal : r.to = w /\ r.settled
                       /\ q = [r EXCEPT !.discarded = TRUE]
  BY TombstoneFacts DEF DiskOK
<1> HIDE DEF e
<1>2. \A r \in d.journal : r \in Entry BY DEF DiskOK, Disk
<1>3. \A q \in e.journal : (q \in d.journal /\ ~(q.to = w /\ q.settled)) \/ \E r \in d.journal :
         r.to = w /\ r.settled /\ q = [r EXCEPT !.discarded = TRUE] /\ q.ws = r.ws
             /\ q.from = r.from /\ q.to = r.to /\ q.settled
  BY <1>1, <1>2 DEF Entry
<1>7. \A q \in e.journal : \E r \in d.journal : r.ws = q.ws /\
         q = IF r.to = w /\ r.settled THEN [r EXCEPT !.discarded = TRUE] ELSE r
  BY <1>3
<1>4. ASSUME NEW r \in e.journal, NEW q \in e.journal, r.ws = q.ws PROVE r = q
  <2>1. PICK a \in d.journal : a.ws = r.ws /\ r = IF a.to = w /\ a.settled
             THEN [a EXCEPT !.discarded = TRUE] ELSE a
    BY <1>7
  <2>2. PICK b \in d.journal : b.ws = q.ws /\ q = IF b.to = w /\ b.settled
             THEN [b EXCEPT !.discarded = TRUE] ELSE b
    BY <1>7
  <2>3. a = b BY <2>1, <2>2, <1>4 DEF DiskOK, Orderly
  <2> QED BY <2>1, <2>2, <2>3
<1>5. \A q \in e.journal : EntryOK(q) BY <1>3 DEF DiskOK, EntryOK
<1>6. DiskOK(e) BY <1>1, <1>4, <1>5 DEF DiskOK, Orderly, EntryOK
<1> QED BY <1>6 DEF e

LEMMA WithdrawOK ==
    ASSUME NEW d, DiskOK(d), NEW m, MoveOK(m) PROVE DiskOK(Withdraw(d, m, m.previous))
<1> DEFINE p == m.previous
           e == Withdraw(d, m, p)
<1>0. m \in Move /\ p \in SUBSET Entry BY DEF MoveOK, Move
<1>1. /\ e \in Disk
      /\ \A r \in e.journal : r \in d.journal \/
                (r \in p /\ \E q \in d.journal : q.ws = m.ws /\ q.from = m.from /\ q.to = m.to
                    /\ ~q.settled)
      /\ \A r \in e.journal : r \in p
           \/ ~(r.ws = m.ws /\ r.from = m.from /\ r.to = m.to /\ ~r.settled)
  <2> HIDE DEF p
  <2> QED BY <1>0, WithdrawFacts DEF DiskOK
<1> HIDE DEF e
<1>2. \A r \in p : r.ws = m.ws /\ EntryOK(r) BY DEF MoveOK
<1>3. \A r, q \in p : r = q BY DEF MoveOK
<1>4. \A q \in e.journal : EntryOK(q) BY <1>1, <1>2 DEF DiskOK
<1> HIDE DEF p
<1>5. \A r, q \in e.journal : r.ws = q.ws => r = q
  BY <1>1, <1>2, <1>3 DEF DiskOK, Orderly
<1>6. DiskOK(e) BY <1>1, <1>4, <1>5 DEF DiskOK, Orderly, EntryOK
<1> QED BY <1>6 DEF e, p

LEMMA SnapOK ==
    ASSUME NEW d, DiskOK(d), NEW w \in Window
    PROVE  /\ DiskOK(RemoveSnap(d, w))
           /\ \A s \in SUBSET Workspace : DiskOK(WriteSnap(d, w, s))
<1>1. DiskOK(RemoveSnap(d, w)) BY RemoveSnapFacts DEF DiskOK
<1>2. ASSUME NEW s \in SUBSET Workspace PROVE DiskOK(WriteSnap(d, w, s))
  BY WriteSnapFacts DEF DiskOK
<1> QED BY <1>1, <1>2

-----------------------------------------------------------------------------

LEMMA StepMoves ==
    ASSUME NEW m \in moves, NEW n, MovesOK(moves), Step(m, n), InPlay(n) => MoveOK(n)
    PROVE  /\ MovesOK(moves')
           /\ \A i : i \in moves' <=> InPlay(i) /\ (i = n \/ (i \in moves /\ i # m))
BY DEF Step, Become, MovesOK

-----------------------------------------------------------------------------
(* What each step makes of the move it is about                            *)

\* The part of TypeOK that is not about the disk or the moves.
RestOK ==
    /\ open \subseteq used /\ used \subseteq Window
    /\ active \subseteq open /\ removed \subseteq closing /\ closing \subseteq used
    /\ records \in [Window -> SUBSET Workspace]
    /\ away \in [Window -> SUBSET Workspace]
    /\ leaving \in [Window -> SUBSET Workspace]
    /\ dirty \in [Window -> BOOLEAN]
    /\ saves \in [Window -> Seq(SUBSET Workspace)]
    /\ \A w \in Window : Len(saves[w]) <= 2
    /\ home \in [Workspace -> Window]
    /\ fate \in [Workspace -> {"kept", "ending", "ended", "contested", "spoiled"}]
    /\ spent \in [moves : 0..MaxMoves, upsets : 0..MaxUpsets]

\* A window a move names has been given out.
Known == \A m \in moves : m.from \in used /\ m.to \in used

Typed == RestOK /\ Known /\ DiskOK(disk) /\ MovesOK(moves)

LEMMA TypedIsTypeOK == Typed => TypeOK
BY DEF Typed, RestOK, DiskOK, MovesOK, MoveOK, Disk, Orderly, TypeOK

\* m goes on as n, the rest of the moves stay.
Moved(m, n) ==
    /\ MoveOK(m) /\ n \in Move
    /\ n.ws = m.ws /\ n.from = m.from /\ n.to = m.to /\ n.torn = m.torn
    /\ m \in moves
    /\ \A i : i \in moves' <=> InPlay(i) /\ (i = n \/ (i \in moves /\ i # m))

LEMMA MoveFields ==
    ASSUME NEW m, MoveOK(m)
    PROVE  /\ m \in Move
           /\ m.ws \in Workspace /\ m.from \in Window /\ m.to \in Window
           /\ m.torn \in BOOLEAN /\ m.content \in BOOLEAN /\ m.src \in BOOLEAN
           /\ m.host \in {"journaled", "queued", "adopting", "returning", "over"}
           /\ m.reply \in {"none", "accepted", "refused"}
           /\ m.event \in {"none", "departed", "failed"}
           /\ m.tgt \in {"none", "mounted", "refused", "over"}
           /\ m.previous \in SUBSET Entry
BY DEF MoveOK, Move

LEMMA EntryFields ==
    ASSUME NEW r \in Entry
    PROVE  r.ws \in Workspace /\ r.from \in Window /\ r.to \in Window /\ r.settled \in BOOLEAN
           /\ r.discarded \in BOOLEAN
BY DEF Entry

LEMMA OkAsBefore ==
    ASSUME NEW m, MoveOK(m), NEW n \in Move, n.ws = m.ws, n.from = m.from, n.to = m.to,
           n.previous = m.previous \/ n.previous = {}
    PROVE  InPlay(n) => MoveOK(n)
BY DEF MoveOK

LEMMA ChangedHostTgt ==
    ASSUME NEW m \in Move, NEW x \in {"journaled", "queued", "adopting", "returning", "over"},
           NEW y \in {"none", "mounted", "refused", "over"}
    PROVE  [m EXCEPT !.host = x, !.tgt = y] \in Move
BY DEF Move

LEMMA ChangedReplySrc ==
    ASSUME NEW m \in Move, NEW x \in {"none", "accepted", "refused"},
           NEW y \in BOOLEAN
    PROVE  [m EXCEPT !.reply = x, !.src = y] \in Move
BY DEF Move

LEMMA ChangedHostEvent ==
    ASSUME NEW m \in Move, NEW x \in {"journaled", "queued", "adopting", "returning", "over"},
           NEW y \in {"none", "departed", "failed"}
    PROVE  [m EXCEPT !.host = x, !.event = y] \in Move
BY DEF Move

LEMMA ChangedEventSrc ==
    ASSUME NEW m \in Move, NEW x \in {"none", "departed", "failed"},
           NEW y \in BOOLEAN
    PROVE  [m EXCEPT !.event = x, !.src = y] \in Move
BY DEF Move

LEMMA ChangedHostReplyPrevious ==
    ASSUME NEW m \in Move, NEW x \in {"journaled", "queued", "adopting", "returning", "over"},
           NEW y \in {"none", "accepted", "refused"},
           NEW z \in SUBSET Entry
    PROVE  [m EXCEPT !.host = x, !.reply = y, !.previous = z] \in Move
BY DEF Move

LEMMA ChangedContentHost ==
    ASSUME NEW m \in Move, NEW x \in BOOLEAN,
           NEW y \in {"journaled", "queued", "adopting", "returning", "over"}
    PROVE  [m EXCEPT !.content = x, !.host = y] \in Move
BY DEF Move

LEMMA ChangedTgt ==
    ASSUME NEW m \in Move, NEW x \in {"none", "mounted", "refused", "over"}
    PROVE  [m EXCEPT !.tgt = x] \in Move
BY DEF Move

LEMMA ChangedHost ==
    ASSUME NEW m \in Move, NEW x \in {"journaled", "queued", "adopting", "returning", "over"}
    PROVE  [m EXCEPT !.host = x] \in Move
BY DEF Move

LEMMA ChangedContent ==
    ASSUME NEW m \in Move, NEW x \in BOOLEAN
    PROVE  [m EXCEPT !.content = x] \in Move
BY DEF Move

\* What each step leaves of the fields of its move m, which goes on as n.
ReplyFields(m, n) ==
    n.host = m.host /\ n.content = m.content /\ n.src = (m.src /\ m.reply = "accepted")
        /\ n.reply = "none" /\ n.event = m.event /\ n.tgt = m.tgt /\ n.previous = m.previous

LEMMA ReplyEffect ==
    ASSUME Typed, NEW m \in moves, Reply(m)
    PROVE  \E n : Moved(m, n) /\ ReplyFields(m, n) /\ MovesOK(moves')
<1> DEFINE n == [m EXCEPT !.reply = "none", !.src = @ /\ m.reply = "accepted"]
<1>1. MoveOK(m) /\ MovesOK(moves) BY DEF Typed, MovesOK
<1>a. m \in Move BY <1>1 DEF MoveOK
<1>b. n \in Move
  <2> DEFINE x == "none"
             y == (m.src /\ m.reply = "accepted")
  <2>1. x \in {"none", "accepted", "refused"} /\ y \in BOOLEAN BY <1>1, MoveFields
  <2> HIDE DEF x, y
  <2>2. [m EXCEPT !.reply = x, !.src = y] \in Move BY <1>a, <2>1, ChangedReplySrc
  <2> QED BY <2>2 DEF x, y
<1>c. n.ws = m.ws /\ n.from = m.from /\ n.to = m.to /\ n.torn = m.torn BY <1>a DEF Move
<1>2. n \in Move /\ n.ws = m.ws /\ n.from = m.from /\ n.to = m.to /\ n.torn = m.torn BY <1>b, <1>c
<1>3. ReplyFields(m, n) BY <1>a DEF Move, ReplyFields
<1>4. Step(m, n) BY DEF Reply
<1> HIDE DEF n
<1>5. InPlay(n) => MoveOK(n) BY <1>1, <1>2, <1>3, OkAsBefore DEF ReplyFields
<1>6. MovesOK(moves') /\ \A i : i \in moves' <=> InPlay(i) /\ (i = n \/ (i \in moves /\ i # m))
  BY <1>1, <1>4, <1>5, StepMoves
<1>7. Moved(m, n) BY <1>1, <1>2, <1>6 DEF Moved
<1> QED BY <1>3, <1>6, <1>7

MountFields(m, n) ==
    n.host = m.host /\ n.content = m.content /\ n.src = m.src /\ n.reply = m.reply
        /\ n.event = m.event /\ n.tgt = "mounted" /\ n.previous = m.previous

LEMMA MountEffect ==
    ASSUME Typed, NEW m \in moves, Mount(m)
    PROVE  \E n : Moved(m, n) /\ MountFields(m, n) /\ MovesOK(moves')
<1> DEFINE n == [m EXCEPT !.tgt = "mounted"]
<1>1. MoveOK(m) /\ MovesOK(moves) BY DEF Typed, MovesOK
<1>a. m \in Move BY <1>1 DEF MoveOK
<1>b. n \in Move
  <2> DEFINE x == "mounted"
  <2>1. x \in {"none", "mounted", "refused", "over"} BY <1>1, MoveFields
  <2> HIDE DEF x
  <2>2. [m EXCEPT !.tgt = x] \in Move BY <1>a, <2>1, ChangedTgt
  <2> QED BY <2>2 DEF x
<1>c. n.ws = m.ws /\ n.from = m.from /\ n.to = m.to /\ n.torn = m.torn BY <1>a DEF Move
<1>2. n \in Move /\ n.ws = m.ws /\ n.from = m.from /\ n.to = m.to /\ n.torn = m.torn BY <1>b, <1>c
<1>3. MountFields(m, n) BY <1>a DEF Move, MountFields
<1>4. Step(m, n) BY DEF Mount
<1> HIDE DEF n
<1>5. InPlay(n) => MoveOK(n) BY <1>1, <1>2, <1>3, OkAsBefore DEF MountFields
<1>6. MovesOK(moves') /\ \A i : i \in moves' <=> InPlay(i) /\ (i = n \/ (i \in moves /\ i # m))
  BY <1>1, <1>4, <1>5, StepMoves
<1>7. Moved(m, n) BY <1>1, <1>2, <1>6 DEF Moved
<1> QED BY <1>3, <1>6, <1>7

AdoptFailedFields(m, n) ==
    n.host = "returning" /\ n.content = m.content /\ n.src = m.src /\ n.reply = m.reply
        /\ n.event = m.event /\ n.tgt = "over" /\ n.previous = m.previous

LEMMA AdoptFailedEffect ==
    ASSUME Typed, NEW m \in moves, AdoptFailed(m)
    PROVE  \E n : Moved(m, n) /\ AdoptFailedFields(m, n) /\ MovesOK(moves')
<1> DEFINE n == [m EXCEPT !.host = "returning", !.tgt = "over"]
<1>1. MoveOK(m) /\ MovesOK(moves) BY DEF Typed, MovesOK
<1>a. m \in Move BY <1>1 DEF MoveOK
<1>b. n \in Move
  <2> DEFINE x == "returning"
             y == "over"
  <2>1. x \in {"journaled", "queued", "adopting", "returning", "over"}
        /\ y \in {"none", "mounted", "refused", "over"}
    BY <1>1, MoveFields
  <2> HIDE DEF x, y
  <2>2. [m EXCEPT !.host = x, !.tgt = y] \in Move BY <1>a, <2>1, ChangedHostTgt
  <2> QED BY <2>2 DEF x, y
<1>c. n.ws = m.ws /\ n.from = m.from /\ n.to = m.to /\ n.torn = m.torn BY <1>a DEF Move
<1>2. n \in Move /\ n.ws = m.ws /\ n.from = m.from /\ n.to = m.to /\ n.torn = m.torn BY <1>b, <1>c
<1>3. AdoptFailedFields(m, n) BY <1>a DEF Move, AdoptFailedFields
<1>4. Step(m, n) BY DEF AdoptFailed
<1> HIDE DEF n
<1>5. InPlay(n) => MoveOK(n) BY <1>1, <1>2, <1>3, OkAsBefore DEF AdoptFailedFields
<1>6. MovesOK(moves') /\ \A i : i \in moves' <=> InPlay(i) /\ (i = n \/ (i \in moves /\ i # m))
  BY <1>1, <1>4, <1>5, StepMoves
<1>7. Moved(m, n) BY <1>1, <1>2, <1>6 DEF Moved
<1> QED BY <1>3, <1>6, <1>7

DiscardArrivalFields(m, n) ==
    n.host = m.host /\ n.content = m.content /\ n.src = m.src /\ n.reply = m.reply
        /\ n.event = m.event /\ n.tgt = "over" /\ n.previous = m.previous

LEMMA DiscardArrivalEffect ==
    ASSUME Typed, NEW m \in moves, DiscardArrival(m)
    PROVE  \E n : Moved(m, n) /\ DiscardArrivalFields(m, n) /\ MovesOK(moves')
<1> DEFINE n == [m EXCEPT !.tgt = "over"]
<1>1. MoveOK(m) /\ MovesOK(moves) BY DEF Typed, MovesOK
<1>a. m \in Move BY <1>1 DEF MoveOK
<1>b. n \in Move
  <2> DEFINE x == "over"
  <2>1. x \in {"none", "mounted", "refused", "over"} BY <1>1, MoveFields
  <2> HIDE DEF x
  <2>2. [m EXCEPT !.tgt = x] \in Move BY <1>a, <2>1, ChangedTgt
  <2> QED BY <2>2 DEF x
<1>c. n.ws = m.ws /\ n.from = m.from /\ n.to = m.to /\ n.torn = m.torn BY <1>a DEF Move
<1>2. n \in Move /\ n.ws = m.ws /\ n.from = m.from /\ n.to = m.to /\ n.torn = m.torn BY <1>b, <1>c
<1>3. DiscardArrivalFields(m, n) BY <1>a DEF Move, DiscardArrivalFields
<1>4. Step(m, n) BY DEF DiscardArrival
<1> HIDE DEF n
<1>5. InPlay(n) => MoveOK(n) BY <1>1, <1>2, <1>3, OkAsBefore DEF DiscardArrivalFields
<1>6. MovesOK(moves') /\ \A i : i \in moves' <=> InPlay(i) /\ (i = n \/ (i \in moves /\ i # m))
  BY <1>1, <1>4, <1>5, StepMoves
<1>7. Moved(m, n) BY <1>1, <1>2, <1>6 DEF Moved
<1> QED BY <1>3, <1>6, <1>7

ExpireFields(m, n) ==
    n.host = "returning" /\ n.content = m.content /\ n.src = m.src /\ n.reply = m.reply
        /\ n.event = m.event /\ n.tgt = m.tgt /\ n.previous = m.previous

LEMMA ExpireEffect ==
    ASSUME Typed, NEW m \in moves, Expire(m)
    PROVE  \E n : Moved(m, n) /\ ExpireFields(m, n) /\ MovesOK(moves')
<1> DEFINE n == [m EXCEPT !.host = "returning"]
<1>1. MoveOK(m) /\ MovesOK(moves) BY DEF Typed, MovesOK
<1>a. m \in Move BY <1>1 DEF MoveOK
<1>b. n \in Move
  <2> DEFINE x == "returning"
  <2>1. x \in {"journaled", "queued", "adopting", "returning", "over"} BY <1>1, MoveFields
  <2> HIDE DEF x
  <2>2. [m EXCEPT !.host = x] \in Move BY <1>a, <2>1, ChangedHost
  <2> QED BY <2>2 DEF x
<1>c. n.ws = m.ws /\ n.from = m.from /\ n.to = m.to /\ n.torn = m.torn BY <1>a DEF Move
<1>2. n \in Move /\ n.ws = m.ws /\ n.from = m.from /\ n.to = m.to /\ n.torn = m.torn BY <1>b, <1>c
<1>3. ExpireFields(m, n) BY <1>a DEF Move, ExpireFields
<1>4. Step(m, n) BY DEF Expire
<1> HIDE DEF n
<1>5. InPlay(n) => MoveOK(n) BY <1>1, <1>2, <1>3, OkAsBefore DEF ExpireFields
<1>6. MovesOK(moves') /\ \A i : i \in moves' <=> InPlay(i) /\ (i = n \/ (i \in moves /\ i # m))
  BY <1>1, <1>4, <1>5, StepMoves
<1>7. Moved(m, n) BY <1>1, <1>2, <1>6 DEF Moved
<1> QED BY <1>3, <1>6, <1>7

HandBackFields(m, n) ==
    n.host = "over" /\ n.content = m.content /\ n.src = m.src /\ n.reply = m.reply
        /\ n.event = (IF m.from \in open THEN "failed" ELSE m.event) /\ n.tgt = m.tgt
        /\ n.previous = m.previous

LEMMA HandBackEffect ==
    ASSUME Typed, NEW m \in moves, HandBack(m)
    PROVE  \E n : Moved(m, n) /\ HandBackFields(m, n) /\ MovesOK(moves')
<1> DEFINE n == [m EXCEPT !.host = "over", !.event = IF m.from \in open THEN "failed" ELSE @]
<1>1. MoveOK(m) /\ MovesOK(moves) BY DEF Typed, MovesOK
<1>a. m \in Move BY <1>1 DEF MoveOK
<1>b. n \in Move
  <2> DEFINE x == "over"
             y == (IF m.from \in open THEN "failed" ELSE m.event)
  <2>1. x \in {"journaled", "queued", "adopting", "returning", "over"}
        /\ y \in {"none", "departed", "failed"}
    BY <1>1, MoveFields
  <2> HIDE DEF x, y
  <2>2. [m EXCEPT !.host = x, !.event = y] \in Move BY <1>a, <2>1, ChangedHostEvent
  <2> QED BY <2>2 DEF x, y
<1>c. n.ws = m.ws /\ n.from = m.from /\ n.to = m.to /\ n.torn = m.torn BY <1>a DEF Move
<1>2. n \in Move /\ n.ws = m.ws /\ n.from = m.from /\ n.to = m.to /\ n.torn = m.torn BY <1>b, <1>c
<1>3. HandBackFields(m, n) BY <1>a DEF Move, HandBackFields
<1>4. Step(m, n) BY DEF HandBack
<1> HIDE DEF n
<1>5. InPlay(n) => MoveOK(n) BY <1>1, <1>2, <1>3, OkAsBefore DEF HandBackFields
<1>6. MovesOK(moves') /\ \A i : i \in moves' <=> InPlay(i) /\ (i = n \/ (i \in moves /\ i # m))
  BY <1>1, <1>4, <1>5, StepMoves
<1>7. Moved(m, n) BY <1>1, <1>2, <1>6 DEF Moved
<1> QED BY <1>3, <1>6, <1>7

DepartedFields(m, n) ==
    n.host = m.host /\ n.content = m.content /\ n.src = FALSE /\ n.reply = m.reply
        /\ n.event = "none" /\ n.tgt = m.tgt /\ n.previous = m.previous

LEMMA DepartedEffect ==
    ASSUME Typed, NEW m \in moves, Departed(m)
    PROVE  \E n : Moved(m, n) /\ DepartedFields(m, n) /\ MovesOK(moves')
<1> DEFINE n == [m EXCEPT !.event = "none", !.src = FALSE]
<1>1. MoveOK(m) /\ MovesOK(moves) BY DEF Typed, MovesOK
<1>a. m \in Move BY <1>1 DEF MoveOK
<1>b. n \in Move
  <2> DEFINE x == "none"
             y == FALSE
  <2>1. x \in {"none", "departed", "failed"} /\ y \in BOOLEAN BY <1>1, MoveFields
  <2> HIDE DEF x, y
  <2>2. [m EXCEPT !.event = x, !.src = y] \in Move BY <1>a, <2>1, ChangedEventSrc
  <2> QED BY <2>2 DEF x, y
<1>c. n.ws = m.ws /\ n.from = m.from /\ n.to = m.to /\ n.torn = m.torn BY <1>a DEF Move
<1>2. n \in Move /\ n.ws = m.ws /\ n.from = m.from /\ n.to = m.to /\ n.torn = m.torn BY <1>b, <1>c
<1>3. DepartedFields(m, n) BY <1>a DEF Move, DepartedFields
<1>4. Step(m, n) BY DEF Departed
<1> HIDE DEF n
<1>5. InPlay(n) => MoveOK(n) BY <1>1, <1>2, <1>3, OkAsBefore DEF DepartedFields
<1>6. MovesOK(moves') /\ \A i : i \in moves' <=> InPlay(i) /\ (i = n \/ (i \in moves /\ i # m))
  BY <1>1, <1>4, <1>5, StepMoves
<1>7. Moved(m, n) BY <1>1, <1>2, <1>6 DEF Moved
<1> QED BY <1>3, <1>6, <1>7

ArrivalFailedFields(m, n) ==
    n.host = m.host /\ n.content = m.content /\ n.src = FALSE /\ n.reply = m.reply
        /\ n.event = "none" /\ n.tgt = m.tgt /\ n.previous = m.previous

LEMMA ArrivalFailedEffect ==
    ASSUME Typed, NEW m \in moves, ArrivalFailed(m)
    PROVE  \E n : Moved(m, n) /\ ArrivalFailedFields(m, n) /\ MovesOK(moves')
<1> DEFINE n == [m EXCEPT !.event = "none", !.src = FALSE]
<1>1. MoveOK(m) /\ MovesOK(moves) BY DEF Typed, MovesOK
<1>a. m \in Move BY <1>1 DEF MoveOK
<1>b. n \in Move
  <2> DEFINE x == "none"
             y == FALSE
  <2>1. x \in {"none", "departed", "failed"} /\ y \in BOOLEAN BY <1>1, MoveFields
  <2> HIDE DEF x, y
  <2>2. [m EXCEPT !.event = x, !.src = y] \in Move BY <1>a, <2>1, ChangedEventSrc
  <2> QED BY <2>2 DEF x, y
<1>c. n.ws = m.ws /\ n.from = m.from /\ n.to = m.to /\ n.torn = m.torn BY <1>a DEF Move
<1>2. n \in Move /\ n.ws = m.ws /\ n.from = m.from /\ n.to = m.to /\ n.torn = m.torn BY <1>b, <1>c
<1>3. ArrivalFailedFields(m, n) BY <1>a DEF Move, ArrivalFailedFields
<1>4. Step(m, n) BY DEF ArrivalFailed
<1> HIDE DEF n
<1>5. InPlay(n) => MoveOK(n) BY <1>1, <1>2, <1>3, OkAsBefore DEF ArrivalFailedFields
<1>6. MovesOK(moves') /\ \A i : i \in moves' <=> InPlay(i) /\ (i = n \/ (i \in moves /\ i # m))
  BY <1>1, <1>4, <1>5, StepMoves
<1>7. Moved(m, n) BY <1>1, <1>2, <1>6 DEF Moved
<1> QED BY <1>3, <1>6, <1>7

OpenArrivalFields(m, n) ==
    n.host = (IF Admitted(m.ws, m.from, m.to) THEN "queued" ELSE "over")
        /\ n.content = m.content /\ n.src = m.src
        /\ n.reply = (IF Admitted(m.ws, m.from, m.to) THEN "accepted" ELSE "refused")
        /\ n.event = m.event /\ n.tgt = m.tgt /\ n.previous = {}

LEMMA OpenArrivalEffect ==
    ASSUME Typed, NEW m \in moves, OpenArrival(m)
    PROVE  \E n : Moved(m, n) /\ OpenArrivalFields(m, n) /\ MovesOK(moves')
<1> DEFINE n == [m EXCEPT !.host = IF Admitted(m.ws, m.from, m.to) THEN "queued" ELSE "over",
           !.reply = IF Admitted(m.ws, m.from, m.to) THEN "accepted" ELSE "refused",
           !.previous = {}]
<1>1. MoveOK(m) /\ MovesOK(moves) BY DEF Typed, MovesOK
<1>a. m \in Move BY <1>1 DEF MoveOK
<1>b. n \in Move
  <2> DEFINE x == (IF Admitted(m.ws, m.from, m.to) THEN "queued" ELSE "over")
             y == (IF Admitted(m.ws, m.from, m.to) THEN "accepted" ELSE "refused")
             z == {}
  <2>1. x \in {"journaled", "queued", "adopting", "returning", "over"}
        /\ y \in {"none", "accepted", "refused"} /\ z \in SUBSET Entry
    BY <1>1, MoveFields
  <2> HIDE DEF x, y, z
  <2>2. [m EXCEPT !.host = x, !.reply = y, !.previous = z] \in Move
    BY <1>a, <2>1, ChangedHostReplyPrevious
  <2> QED BY <2>2 DEF x, y, z
<1>c. n.ws = m.ws /\ n.from = m.from /\ n.to = m.to /\ n.torn = m.torn BY <1>a DEF Move
<1>2. n \in Move /\ n.ws = m.ws /\ n.from = m.from /\ n.to = m.to /\ n.torn = m.torn BY <1>b, <1>c
<1>3. OpenArrivalFields(m, n) BY <1>a DEF Move, OpenArrivalFields
<1>4. Step(m, n) BY DEF OpenArrival
<1> HIDE DEF n
<1>5. InPlay(n) => MoveOK(n) BY <1>1, <1>2, <1>3, OkAsBefore DEF OpenArrivalFields
<1>6. MovesOK(moves') /\ \A i : i \in moves' <=> InPlay(i) /\ (i = n \/ (i \in moves /\ i # m))
  BY <1>1, <1>4, <1>5, StepMoves
<1>7. Moved(m, n) BY <1>1, <1>2, <1>6 DEF Moved
<1> QED BY <1>3, <1>6, <1>7

LEMMA ChangedTgtHostEvent ==
    ASSUME NEW m \in Move, NEW x \in {"none", "mounted", "refused", "over"},
           NEW y \in {"journaled", "queued", "adopting", "returning", "over"},
           NEW z \in {"none", "departed", "failed"}
    PROVE  [m EXCEPT !.tgt = x, !.host = y, !.event = z] \in Move
BY DEF Move

LEMMA ChangedSrcReplyEvent ==
    ASSUME NEW m \in Move, NEW s \in BOOLEAN,
           NEW p \in {"none", "accepted", "refused"}, NEW z \in {"none", "departed", "failed"}
    PROVE  [m EXCEPT !.src = s, !.reply = p, !.event = z] \in Move
BY DEF Move

SentFields(m, n) ==
    /\ n.content = TRUE /\ n.src = m.src /\ n.reply = m.reply /\ n.event = m.event
    /\ n.tgt = m.tgt /\ n.previous = m.previous

LEMMA SendContentEffect ==
    ASSUME Typed, NEW m \in moves, SendContent(m)
    PROVE  \E n : /\ Moved(m, n) /\ SentFields(m, n) /\ MovesOK(moves')
                  /\ \/ n.host = m.host /\ open' = open \cup {m.to}
                     \/ n.host = "returning" /\ m.torn /\ open' = open
<1>1. MoveOK(m) /\ MovesOK(moves) BY DEF Typed, MovesOK
<1>a. m \in Move BY <1>1 DEF MoveOK
<1>2. CASE Step(m, [m EXCEPT !.content = TRUE]) /\ open' = open \cup {m.to}
  <2> DEFINE n == [m EXCEPT !.content = TRUE]
  <2>1. n \in Move BY <1>a, ChangedContent
  <2>2. n.ws = m.ws /\ n.from = m.from /\ n.to = m.to /\ n.torn = m.torn BY <1>a DEF Move
  <2>3. SentFields(m, n) /\ n.host = m.host BY <1>a DEF Move, SentFields
  <2>4. Step(m, n) BY <1>2
  <2> HIDE DEF n
  <2>5. InPlay(n) => MoveOK(n) BY <1>1, <2>1, <2>2, <2>3, OkAsBefore DEF SentFields
  <2>6. MovesOK(moves') /\ \A i : i \in moves' <=> InPlay(i) /\ (i = n \/ (i \in moves /\ i # m))
    BY <1>1, <2>4, <2>5, StepMoves
  <2>7. Moved(m, n) BY <1>1, <2>1, <2>2, <2>6 DEF Moved
  <2> QED BY <1>2, <2>3, <2>6, <2>7
<1>3. CASE m.torn /\ Step(m, [m EXCEPT !.content = TRUE, !.host = "returning"]) /\ open' = open
  <2> DEFINE n == [m EXCEPT !.content = TRUE, !.host = "returning"]
  <2>1. n \in Move BY <1>a, ChangedContentHost
  <2>2. n.ws = m.ws /\ n.from = m.from /\ n.to = m.to /\ n.torn = m.torn BY <1>a DEF Move
  <2>3. SentFields(m, n) /\ n.host = "returning" BY <1>a DEF Move, SentFields
  <2>4. Step(m, n) BY <1>3
  <2> HIDE DEF n
  <2>5. InPlay(n) => MoveOK(n) BY <1>1, <2>1, <2>2, <2>3, OkAsBefore DEF SentFields
  <2>6. MovesOK(moves') /\ \A i : i \in moves' <=> InPlay(i) /\ (i = n \/ (i \in moves /\ i # m))
    BY <1>1, <2>4, <2>5, StepMoves
  <2>7. Moved(m, n) BY <1>1, <2>1, <2>2, <2>6 DEF Moved
  <2> QED BY <1>3, <2>3, <2>6, <2>7
<1> QED BY <1>2, <1>3 DEF SendContent

RefusedFields(m, n) ==
    n.host = m.host /\ n.content = m.content /\ n.src = m.src /\ n.reply = m.reply
        /\ n.event = m.event /\ n.tgt = "refused" /\ n.previous = m.previous

\* The queued arrivals of its Workspace that a window's adopt_done takes.
\* What take_arrival finds for the adopt_done of m, and what becomes of a move.
Found(m) == {i \in moves : i.ws = m.ws /\ i.to = m.to /\ i.host = "queued"}

TakenMove(m, i) == IF i \in Found(m) THEN [i EXCEPT !.host = "adopting"] ELSE i

TakenFields(m, i, n) ==
    /\ n.ws = i.ws /\ n.from = i.from /\ n.to = i.to /\ n.torn = i.torn
    /\ n.host = (IF i \in Found(m) THEN "adopting" ELSE i.host) /\ n.content = i.content
         /\ n.src = i.src /\ n.reply = i.reply /\ n.event = i.event /\ n.tgt = i.tgt
         /\ n.previous = i.previous

LEMMA AdoptDoneEffect ==
    ASSUME Typed, NEW m \in moves, AdoptDone(m)
    PROVE  /\ MovesOK(moves')
           /\ \/ Found(m) = {} /\ \E n : Moved(m, n) /\ RefusedFields(m, n)
              \/ /\ Found(m) # {}
                 /\ \A i \in moves : TakenFields(m, i, TakenMove(m, i)) /\ MoveOK(TakenMove(m, i))
                 /\ \A j : j \in moves' <=> \E i \in moves : j = TakenMove(m, i)
<1>1. MoveOK(m) /\ MovesOK(moves) BY DEF Typed, MovesOK
<1>a. m \in Move BY <1>1 DEF MoveOK
<1>2. CASE Found(m) = {}
  <2> DEFINE n == [m EXCEPT !.tgt = "refused"]
  <2>1. n \in Move BY <1>a, ChangedTgt
  <2>2. n.ws = m.ws /\ n.from = m.from /\ n.to = m.to /\ n.torn = m.torn BY <1>a DEF Move
  <2>3. RefusedFields(m, n) BY <1>a DEF Move, RefusedFields
  <2>4. Step(m, n) BY <1>2 DEF AdoptDone, Found
  <2> HIDE DEF n
  <2>5. InPlay(n) => MoveOK(n) BY <1>1, <2>1, <2>2, <2>3, OkAsBefore DEF RefusedFields
  <2>6. MovesOK(moves') /\ \A i : i \in moves' <=> InPlay(i) /\ (i = n \/ (i \in moves /\ i # m))
    BY <1>1, <2>4, <2>5, StepMoves
  <2>7. Moved(m, n) BY <1>1, <2>1, <2>2, <2>6 DEF Moved
  <2> QED BY <1>2, <2>3, <2>6, <2>7
<1>3. CASE Found(m) # {}
  <2>1. ASSUME NEW i \in moves PROVE TakenFields(m, i, TakenMove(m, i)) /\ MoveOK(TakenMove(m, i))
    <3>1. MoveOK(i) BY <1>1 DEF MovesOK
    <3>2. CASE i \notin Found(m)
      <4>1. TakenMove(m, i) = i BY <3>2 DEF TakenMove
      <4> QED BY <3>1, <3>2, <4>1 DEF TakenFields
    <3>3. CASE i \in Found(m)
      <4> DEFINE n == [i EXCEPT !.host = "adopting"]
      <4>1. TakenMove(m, i) = n BY <3>3 DEF TakenMove
      <4>2. i \in Move BY <3>1 DEF MoveOK
      <4>3. n \in Move BY <4>2, ChangedHost
      <4>4. TakenFields(m, i, n) BY <3>3, <4>2 DEF Move, TakenFields
      <4>5. n.host = "adopting" BY <4>2 DEF Move
      <4> HIDE DEF n
      <4>6. InPlay(n) BY <4>5 DEF InPlay
      <4>7. MoveOK(n) BY <3>1, <4>3, <4>4, <4>6, OkAsBefore DEF TakenFields
      <4> QED BY <4>1, <4>4, <4>7
    <3> QED BY <3>2, <3>3
  <2>2. Become((moves \ Found(m)) \cup {[i EXCEPT !.host = "adopting"] : i \in Found(m)})
    BY <1>3 DEF AdoptDone, Found
  <2>3. \A j : j \in (moves \ Found(m)) \cup {[i EXCEPT !.host = "adopting"] : i \in Found(m)} <=>
        \E i \in moves : j = TakenMove(m, i)
    <3>1. Found(m) \subseteq moves BY DEF Found
    <3> QED BY <3>1 DEF TakenMove
  <2>4. \A i \in moves : InPlay(TakenMove(m, i)) BY <2>1 DEF MoveOK
  <2>5. \A j : j \in moves' <=> \E i \in moves : j = TakenMove(m, i)
    BY <2>2, <2>3, <2>4 DEF Become
  <2>6. MovesOK(moves') BY <2>1, <2>5 DEF MovesOK
  <2> QED BY <1>3, <2>1, <2>5, <2>6
<1> QED BY <1>2, <1>3

\* What the end of m's adoption makes of a move i.
MarkedMove(m, i) ==
    [i EXCEPT !.tgt = IF i.tgt = "mounted" /\ i.ws = m.ws /\ i.to = m.to THEN "over" ELSE @,
              !.host = IF i = m THEN "over" ELSE @,
              !.event = IF i = m /\ m.from \in open THEN "departed" ELSE @]

MarkedFields(m, i, n) ==
    /\ n.ws = i.ws /\ n.from = i.from /\ n.to = i.to /\ n.torn = i.torn
    /\ n.host = (IF i = m THEN "over" ELSE i.host) /\ n.content = i.content /\ n.src = i.src
         /\ n.reply = i.reply /\ n.event = (IF i = m /\ m.from \in open THEN "departed"
         ELSE i.event) /\ n.tgt = (IF i.tgt = "mounted" /\ i.ws = m.ws /\ i.to = m.to
         THEN "over" ELSE i.tgt) /\ n.previous = i.previous

LEMMA MarkAdoptedEffect ==
    ASSUME Typed, NEW m \in moves, MarkAdopted(m)
    PROVE  /\ MovesOK(moves')
           /\ \A i \in moves : MarkedFields(m, i, MarkedMove(m, i)) /\ MarkedMove(m, i) \in Move
           /\ \A j : j \in moves' <=> InPlay(j) /\ \E i \in moves : j = MarkedMove(m, i)
<1>1. MoveOK(m) /\ MovesOK(moves) BY DEF Typed, MovesOK
<1>2. ASSUME NEW i \in moves
      PROVE  /\ MarkedFields(m, i, MarkedMove(m, i)) /\ MarkedMove(m, i) \in Move
             /\ InPlay(MarkedMove(m, i)) => MoveOK(MarkedMove(m, i))
  <2>1. MoveOK(i) BY <1>1 DEF MovesOK
  <2>2. i \in Move BY <2>1 DEF MoveOK
  <2> DEFINE x == IF i.tgt = "mounted" /\ i.ws = m.ws /\ i.to = m.to THEN "over" ELSE i.tgt
             y == IF i = m THEN "over" ELSE i.host
             z == IF i = m /\ m.from \in open THEN "departed" ELSE i.event
             n == [i EXCEPT !.tgt = x, !.host = y, !.event = z]
  <2>3. MarkedMove(m, i) = n BY <2>2 DEF MarkedMove, Move
  <2>4. /\ x \in {"none", "mounted", "refused", "over"}
        /\ y \in {"journaled", "queued", "adopting", "returning", "over"}
        /\ z \in {"none", "departed", "failed"}
    BY <2>1, MoveFields
  <2> HIDE DEF x, y, z
  <2>5. n \in Move BY <2>2, <2>4, ChangedTgtHostEvent
  <2>6. /\ n.ws = i.ws /\ n.from = i.from /\ n.to = i.to /\ n.torn = i.torn
        /\ n.host = y /\ n.content = i.content /\ n.src = i.src /\ n.reply = i.reply
             /\ n.event = z /\ n.tgt = x /\ n.previous = i.previous
    BY <2>2 DEF Move
  <2> HIDE DEF n
  <2>7. MarkedFields(m, i, n) BY <2>6 DEF MarkedFields, x, y, z
  <2>8. InPlay(n) => MoveOK(n) BY <2>1, <2>5, <2>6, OkAsBefore
  <2> QED BY <2>3, <2>5, <2>7, <2>8
<1>3. Become({MarkedMove(m, i) : i \in moves}) BY DEF MarkAdopted, MarkedMove
<1>4. \A j : j \in moves' <=> InPlay(j) /\ \E i \in moves : j = MarkedMove(m, i)
  BY <1>3 DEF Become
<1>5. MovesOK(moves') BY <1>2, <1>4 DEF MovesOK
<1> QED BY <1>2, <1>4, <1>5

\* What is left of a move i once w's window is destroyed.
LeftMove(w, i) ==
    [i EXCEPT !.host = IF i.to = w /\ @ = "queued" THEN "returning" ELSE @,
              !.tgt = IF i.to = w THEN "over" ELSE @,
              !.src = @ /\ i.from # w,
              !.reply = IF i.from = w THEN "none" ELSE @,
              !.event = IF i.from = w THEN "none" ELSE @]

LeftFields(w, i, n) ==
    /\ n.ws = i.ws /\ n.from = i.from /\ n.to = i.to /\ n.torn = i.torn
    /\ n.host = (IF i.to = w /\ i.host = "queued" THEN "returning" ELSE i.host)
         /\ n.content = i.content /\ n.src = (i.src /\ i.from # w)
         /\ n.reply = (IF i.from = w THEN "none" ELSE i.reply)
         /\ n.event = (IF i.from = w THEN "none" ELSE i.event)
         /\ n.tgt = (IF i.to = w THEN "over" ELSE i.tgt) /\ n.previous = i.previous

LEMMA DestroyedEffect ==
    ASSUME Typed, NEW w \in Window, Destroyed(w)
    PROVE  /\ MovesOK(moves')
           /\ \A i \in moves : LeftFields(w, i, LeftMove(w, i)) /\ LeftMove(w, i) \in Move
           /\ \A j : j \in moves' <=> InPlay(j) /\ \E i \in moves : j = LeftMove(w, i)
<1>1. MovesOK(moves) BY DEF Typed, MovesOK
<1>2. ASSUME NEW i \in moves
      PROVE  /\ LeftFields(w, i, LeftMove(w, i)) /\ LeftMove(w, i) \in Move
             /\ InPlay(LeftMove(w, i)) => MoveOK(LeftMove(w, i))
  <2>1. MoveOK(i) BY <1>1 DEF MovesOK
  <2>2. i \in Move BY <2>1 DEF MoveOK
  <2> DEFINE y == IF i.to = w /\ i.host = "queued" THEN "returning" ELSE i.host
             x == IF i.to = w THEN "over" ELSE i.tgt
             s == i.src /\ i.from # w
             p == IF i.from = w THEN "none" ELSE i.reply
             z == IF i.from = w THEN "none" ELSE i.event
             n == [i EXCEPT !.host = y, !.tgt = x, !.src = s, !.reply = p, !.event = z]
  <2>3. LeftMove(w, i) = n BY <2>2 DEF LeftMove, Move
  <2>4. /\ x \in {"none", "mounted", "refused", "over"} /\ s \in BOOLEAN
        /\ y \in {"journaled", "queued", "adopting", "returning", "over"}
        /\ z \in {"none", "departed", "failed"} /\ p \in {"none", "accepted", "refused"}
    BY <2>1, MoveFields
  <2> HIDE DEF x, y, z, p, s
  <2>5. n \in Move
    <3>1. [i EXCEPT !.host = y, !.tgt = x] \in Move BY <2>2, <2>4, ChangedHostTgt
    <3>2. [[i EXCEPT !.host = y, !.tgt = x] EXCEPT !.src = s, !.reply = p, !.event = z] \in Move
      <4> DEFINE a == [i EXCEPT !.host = y, !.tgt = x]
      <4> HIDE DEF a
      <4>1. a \in Move BY <3>1 DEF a
      <4>2. [a EXCEPT !.src = s, !.reply = p, !.event = z] \in Move
        BY <4>1, <2>4, ChangedSrcReplyEvent
      <4> QED BY <4>2 DEF a
    <3> QED BY <3>2
  <2>6. /\ n.ws = i.ws /\ n.from = i.from /\ n.to = i.to /\ n.torn = i.torn
        /\ n.host = y /\ n.content = i.content /\ n.src = s /\ n.reply = p /\ n.event = z
             /\ n.tgt = x /\ n.previous = i.previous
    BY <2>2 DEF Move
  <2> HIDE DEF n
  <2>7. LeftFields(w, i, n) BY <2>6 DEF LeftFields, x, y, z, p, s
  <2>8. InPlay(n) => MoveOK(n) BY <2>1, <2>5, <2>6, OkAsBefore
  <2> QED BY <2>3, <2>5, <2>7, <2>8
<1>3. Become({LeftMove(w, i) : i \in moves}) BY DEF Destroyed, LeftMove
<1>4. \A j : j \in moves' <=> InPlay(j) /\ \E i \in moves : j = LeftMove(w, i) BY <1>3 DEF Become
<1>5. MovesOK(moves') BY <1>2, <1>4 DEF MovesOK
<1> QED BY <1>2, <1>4, <1>5

\* A move as StartMove begins it.
Begun(k, from, to) ==
    [ws |-> k, from |-> from, to |-> to, torn |-> to \notin open,
     host |-> "journaled", content |-> FALSE, src |-> TRUE,
     reply |-> "none", event |-> "none", tgt |-> "none",
     previous |-> {r \in disk.journal : r.ws = k}]

BegunFields(k, from, to, n) ==
    /\ n.ws = k /\ n.from = from /\ n.to = to /\ n.host = "journaled" /\ n.content = FALSE
    /\ n.src = TRUE /\ n.reply = "none" /\ n.event = "none" /\ n.tgt = "none"
    /\ n.previous = {r \in disk.journal : r.ws = k}

LEMMA StartMoveEffect ==
    ASSUME Typed, NEW k \in Workspace, NEW from \in Window, NEW to \in Window,
           StartMove(k, from, to)
    PROVE  /\ MovesOK(moves') /\ DiskOK(disk')
           /\ BegunFields(k, from, to, Begun(k, from, to)) /\ MoveOK(Begun(k, from, to))
           /\ moves' = moves \cup {Begun(k, from, to)}
           /\ disk'.snap = disk.snap
           /\ disk'.journal = {r \in disk.journal : r.ws # k} \cup
                {[ws |-> k, from |-> from, to |-> to, settled |-> FALSE, discarded |-> FALSE]}
<1> DEFINE n == Begun(k, from, to)
           j == {r \in disk.journal : r.ws = k}
<1>0. DiskOK(disk) /\ MovesOK(moves) BY DEF Typed
<1>1. j \in SUBSET Entry BY <1>0 DEF DiskOK, Disk
<1>2. BegunFields(k, from, to, n) BY DEF Begun, BegunFields
<1>3. n \in Move
  <2> HIDE DEF j
  <2>1. n = [ws |-> k, from |-> from, to |-> to, torn |-> to \notin open,
     host |-> "journaled", content |-> FALSE, src |-> TRUE,
     reply |-> "none", event |-> "none", tgt |-> "none", previous |-> j] BY DEF Begun, j
  <2> HIDE DEF n
  <2> QED BY <1>1, <2>1 DEF Move
<1>4. moves' = moves \cup {n} /\ disk' = RecordArrival(disk, n) /\ from # to
  BY DEF StartMove, Begun
<1> HIDE DEF n
<1>5. MoveOK(n) BY <1>0, <1>2, <1>3, <1>4 DEF BegunFields, MoveOK, InPlay, DiskOK, Orderly
<1>6. MovesOK(moves') BY <1>0, <1>4, <1>5 DEF MovesOK
<1>7. DiskOK(disk') BY <1>0, <1>2, <1>3, <1>4, RecordOK DEF BegunFields
<1>8. /\ disk'.snap = disk.snap
      /\ disk'.journal = {r \in disk.journal : r.ws # n.ws} \cup
           {[ws |-> n.ws, from |-> n.from, to |-> n.to, settled |-> FALSE, discarded |-> FALSE]}
  BY <1>0, <1>3, <1>4, RecordFacts DEF DiskOK
<1>9. n.ws = k /\ n.from = from /\ n.to = to BY <1>2 DEF BegunFields
<1> QED BY <1>2, <1>4, <1>5, <1>6, <1>7, <1>8, <1>9 DEF n

-----------------------------------------------------------------------------
(* Type correctness                                                        *)

LEMMA SaveTyped ==
    ASSUME Typed, NEW w \in Window, saves[w] # <<>>
    PROVE  saves[w][1] \in SUBSET Workspace /\ Len(saves[w]) \in {1, 2}
<1>1. saves[w] \in Seq(SUBSET Workspace) /\ Len(saves[w]) <= 2 BY DEF Typed, RestOK
<1>2. Len(saves[w]) \in Nat /\ Len(saves[w]) # 0 BY <1>1
<1>3. Len(saves[w]) \in {1, 2}
  <2> DEFINE n == Len(saves[w])
  <2>1. n \in Nat /\ n # 0 /\ n <= 2 BY <1>1, <1>2
  <2> HIDE DEF n
  <2>2. n \in {1, 2} BY <2>1
  <2> QED BY <2>2 DEF n
<1>4. saves[w][1] \in SUBSET Workspace BY <1>1, <1>2
<1> QED BY <1>3, <1>4

LEMMA TornOK == ASSUME Typed, NEW d \in Torn PROVE DiskOK(d)
<1>0. DiskOK(disk) /\ MovesOK(moves) BY DEF Typed
<1>1. CASE d = disk BY <1>0, <1>1
<1>2. CASE \E w \in {v \in Window : saves[v] # <<>> /\ v \notin closing} : d = WriteSnap(disk, w,
           saves[w][1])
  BY <1>0, <1>2, SaveTyped, SnapOK
<1>3. CASE \E m \in moves : d = Settle(disk, m.ws)
  <2>1. PICK m \in moves : d = Settle(disk, m.ws) BY <1>3
  <2>2. m.ws \in Workspace BY <1>0, MoveFields DEF MovesOK
  <2> QED BY <1>0, <2>1, <2>2, SettleOK
<1>4. CASE \E m \in moves : d = Return(disk, m)
  <2>1. PICK m \in moves : d = Return(disk, m) BY <1>4
  <2>2. m \in Move /\ m.from # m.to BY <1>0 DEF MovesOK, MoveOK
  <2> QED BY <1>0, <2>1, <2>2, ReturnOK
<1>5. CASE \E w \in closing \ removed : d = Tombstone(disk, w)
           \/ d = RemoveSnap(Tombstone(disk, w), w)
  <2>1. PICK w \in closing \ removed : d = Tombstone(disk, w)
             \/ d = RemoveSnap(Tombstone(disk, w), w)
    BY <1>5
  <2>2. w \in Window BY DEF Typed, RestOK
  <2>3. DiskOK(Tombstone(disk, w)) BY <1>0, <2>2, TombstoneOK
  <2> QED BY <2>1, <2>2, <2>3, SnapOK
<1> QED BY <1>1, <1>2, <1>3, <1>4, <1>5 DEF Torn

LEMMA RestoredFacts ==
    ASSUME NEW d, DiskOK(d)
    PROVE  /\ RestoreArrivals(d) \in Disk /\ RestoreArrivals(d).journal = {}
           /\ \A w, k : k \in Names(RestoreArrivals(d), w) <=>
                 (k \in Names(d, w) \/ Gains(k, w, d.journal)) /\ ~Loses(k, w, d.journal)
<1> DEFINE e == Merge(d, d.journal)
           f == RestoreArrivals(d)
<1>1. d \in Disk /\ d.journal \in SUBSET Entry BY DEF DiskOK, Disk
<1>2. /\ e \in Disk
      /\ \A w, k : k \in Names(e, w) <=> (k \in Names(d, w) \/ Gains(k, w, d.journal))
           /\ ~Loses(k, w, d.journal)
  BY <1>1, MergeFacts
<1>3. f = [e EXCEPT !.journal = {}] BY DEF RestoreArrivals
<1> HIDE DEF e, f
<1>4. f \in Disk /\ f.journal = {} /\ f.snap = e.snap BY <1>2, <1>3 DEF Disk
<1>5. \A w : Names(f, w) = Names(e, w) BY <1>4 DEF Names
<1> QED BY <1>2, <1>4, <1>5 DEF f

\* A crash, and another while the program boots, recovers into what one crash does.
LEMMA RecoveredFacts ==
    ASSUME Typed, NEW d \in Recovered
    PROVE  DiskOK(d) /\ d.journal = {} /\ \E e \in Torn : d = RestoreArrivals(e)
<1>1. PICK e \in Torn \cup UNION {TornBoot(x) : x \in Torn} : d = RestoreArrivals(e)
  BY DEF Recovered
<1>2. \E t \in Torn : d = RestoreArrivals(t)
  <2>1. CASE e \in Torn BY <1>1, <2>1
  <2>2. CASE e \in UNION {TornBoot(x) : x \in Torn}
    <3>1. PICK x \in Torn : e \in TornBoot(x) BY <2>2
    <3>2. x \in Disk /\ Orderly(x.journal) BY TornOK DEF DiskOK
    <3>3. RestoreArrivals(e) = RestoreArrivals(x) BY <3>1, <3>2, BootAgain
    <3> QED BY <1>1, <3>3
  <2> QED BY <1>1, <2>1, <2>2
<1>3. PICK t \in Torn : d = RestoreArrivals(t) BY <1>2
<1>4. DiskOK(t) BY TornOK
<1>5. d \in Disk /\ d.journal = {} BY <1>3, <1>4, RestoredFacts
<1>6. DiskOK(d) BY <1>5 DEF DiskOK, Orderly
<1> QED BY <1>3, <1>5, <1>6

-----------------------------------------------------------------------------

LEMMA SpentTyped ==
    ASSUME NEW x \in [moves : 0..MaxMoves, upsets : 0..MaxUpsets]
    PROVE  /\ x.moves < MaxMoves => [x EXCEPT !.moves = @ + 1] \in [moves : 0..MaxMoves,
                upsets : 0..MaxUpsets]
           /\ x.upsets < MaxUpsets => [x EXCEPT !.upsets = @ + 1] \in [moves : 0..MaxMoves,
                upsets : 0..MaxUpsets]
<1>1. MaxMoves \in Nat /\ MaxUpsets \in Nat BY JournalBounds
<1>2. x.moves \in 0..MaxMoves /\ x.upsets \in 0..MaxUpsets OBVIOUS
<1>3. x.moves < MaxMoves => x.moves + 1 \in 0..MaxMoves BY <1>1, <1>2
<1>4. x.upsets < MaxUpsets => x.upsets + 1 \in 0..MaxUpsets BY <1>1, <1>2
<1> QED BY <1>3, <1>4

LEMMA InitTyped == Init => Typed
<1> SUFFICES ASSUME Init PROVE Typed OBVIOUS
<1>1. PICK start \in Starts : disk = [journal |-> {}, snap |-> start] BY DEF Init
<1>2. start \in Snapshots /\ \A k \in Workspace : \E w \in DOMAIN start : k \in start[w]
  BY StartsHoldEachOnce
<1>3. DOMAIN start \subseteq Window /\ \A w \in DOMAIN start : start[w] \subseteq Workspace
  BY <1>2, SnapTyped
<1>4. DiskOK(disk) BY <1>1, <1>2 DEF DiskOK, Disk, Orderly
<1>5. MovesOK(moves) BY DEF Init, MovesOK
<1>6. disk.snap = start /\ open = DOMAIN start BY <1>1 DEF Init
<1>7. home \in [Workspace -> Window]
  <2>1. ASSUME NEW k \in Workspace PROVE (CHOOSE w \in open : k \in disk.snap[w]) \in Window
    <3>1. \E w \in open : k \in disk.snap[w] BY <1>2, <1>6
    <3> QED BY <3>1, <1>3, <1>6
  <2> QED BY <2>1 DEF Init
<1>8. records \in [Window -> SUBSET Workspace] BY <1>3, <1>6 DEF Init
<1>9. saves \in [Window -> Seq(SUBSET Workspace)] /\ \A w \in Window : Len(saves[w]) <= 2
  BY DEF Init
<1>10. spent \in [moves : 0..MaxMoves, upsets : 0..MaxUpsets] BY JournalBounds DEF Init
<1>11. /\ away \in [Window -> SUBSET Workspace] /\ leaving \in [Window -> SUBSET Workspace]
       /\ dirty \in [Window -> BOOLEAN]
       /\ fate \in [Workspace -> {"kept", "ending", "ended", "contested", "spoiled"}]
  BY DEF Init
<1>12. open \subseteq used /\ used \subseteq Window /\ active = {} /\ closing = {} /\ removed = {}
  BY <1>3, <1>6 DEF Init
<1>13. Known BY DEF Known, Init
<1> QED BY <1>13, <1>4, <1>5, <1>7, <1>8, <1>9, <1>10, <1>11, <1>12 DEF Typed, RestOK

LEMMA OpenArrivalTyped ==
    ASSUME Typed, NEW m \in moves, OpenArrival(m)
    PROVE  Typed'
<1>0. RestOK /\ Known /\ DiskOK(disk) /\ MovesOK(moves) BY DEF Typed
<1>a. MoveOK(m) BY <1>0 DEF MovesOK
<1>b. m \in Move /\ m.ws \in Workspace /\ m.from \in Window /\ m.to \in Window /\ m.from # m.to
  BY <1>a, MoveFields DEF MoveOK
<1>1. DiskOK(disk')
  BY <1>0, <1>a, WithdrawOK DEF OpenArrival
<1>2. MovesOK(moves')
  BY OpenArrivalEffect
<1>3. RestOK'
  BY <1>0, <1>b DEF RestOK, OpenArrival, ghost, webview
<1>4. Known'
  <2>1. PICK n : Moved(m, n) BY OpenArrivalEffect
  <2>2. used' = used BY DEF OpenArrival
  <2> QED BY <1>0, <2>1, <2>2 DEF Known, Moved
<1> QED BY <1>1, <1>2, <1>3, <1>4 DEF Typed

LEMMA ReplyTyped ==
    ASSUME Typed, NEW m \in moves, Reply(m)
    PROVE  Typed'
<1>0. RestOK /\ Known /\ DiskOK(disk) /\ MovesOK(moves) BY DEF Typed
<1>a. MoveOK(m) BY <1>0 DEF MovesOK
<1>b. m \in Move /\ m.ws \in Workspace /\ m.from \in Window /\ m.to \in Window /\ m.from # m.to
  BY <1>a, MoveFields DEF MoveOK
<1>1. DiskOK(disk')
  BY <1>0 DEF Reply
<1>2. MovesOK(moves')
  BY ReplyEffect
<1>3. RestOK'
  BY <1>0, <1>b DEF RestOK, Reply, ghost, webview
<1>4. Known'
  <2>1. PICK n : Moved(m, n) BY ReplyEffect
  <2>2. used' = used BY DEF Reply
  <2> QED BY <1>0, <2>1, <2>2 DEF Known, Moved
<1> QED BY <1>1, <1>2, <1>3, <1>4 DEF Typed

LEMMA SendContentTyped ==
    ASSUME Typed, NEW m \in moves, SendContent(m)
    PROVE  Typed'
<1>0. RestOK /\ Known /\ DiskOK(disk) /\ MovesOK(moves) BY DEF Typed
<1>a. MoveOK(m) BY <1>0 DEF MovesOK
<1>b. m \in Move /\ m.ws \in Workspace /\ m.from \in Window /\ m.to \in Window /\ m.from # m.to
  BY <1>a, MoveFields DEF MoveOK
<1>1. DiskOK(disk')
  BY <1>0 DEF SendContent
<1>2. MovesOK(moves')
  BY SendContentEffect
<1>3. RestOK'
  <2>1. m.to \in used BY <1>0 DEF Known
  <2> QED BY <1>0, <1>b, <2>1 DEF RestOK, SendContent, ghost, webview
<1>4. Known'
  <2>1. PICK n : Moved(m, n) BY SendContentEffect
  <2>2. used' = used BY DEF SendContent
  <2> QED BY <1>0, <2>1, <2>2 DEF Known, Moved
<1> QED BY <1>1, <1>2, <1>3, <1>4 DEF Typed

LEMMA MountTyped ==
    ASSUME Typed, NEW m \in moves, Mount(m)
    PROVE  Typed'
<1>0. RestOK /\ Known /\ DiskOK(disk) /\ MovesOK(moves) BY DEF Typed
<1>a. MoveOK(m) BY <1>0 DEF MovesOK
<1>b. m \in Move /\ m.ws \in Workspace /\ m.from \in Window /\ m.to \in Window /\ m.from # m.to
  BY <1>a, MoveFields DEF MoveOK
<1>1. DiskOK(disk')
  BY <1>0 DEF Mount
<1>2. MovesOK(moves')
  BY MountEffect
<1>3. RestOK'
  <2>0. records \in [Window -> SUBSET Workspace] /\ dirty \in [Window -> BOOLEAN]
        /\ leaving \in [Window -> SUBSET Workspace]
    BY <1>0 DEF RestOK
  <2> DEFINE x == records[m.to] \cup {m.ws} \cup leaving[m.to]
  <2>a. x \in SUBSET Workspace BY <1>b, <2>0
  <2>b. \/ records' = records /\ dirty' = dirty
        \/ records' = [records EXCEPT ![m.to] = x] /\ dirty' = [dirty EXCEPT ![m.to] = TRUE]
    BY <2>0, <1>b DEF Mount
  <2> HIDE DEF x
  <2>1. records' \in [Window -> SUBSET Workspace] BY <2>0, <2>a, <2>b
  <2>2. dirty' \in [Window -> BOOLEAN] BY <2>0, <2>b
  <2> QED BY <1>0, <2>1, <2>2 DEF RestOK, Mount, ghost, webview
<1>4. Known'
  <2>1. PICK n : Moved(m, n) BY MountEffect
  <2>2. used' = used BY DEF Mount
  <2> QED BY <1>0, <2>1, <2>2 DEF Known, Moved
<1> QED BY <1>1, <1>2, <1>3, <1>4 DEF Typed

LEMMA AdoptFailedTyped ==
    ASSUME Typed, NEW m \in moves, AdoptFailed(m)
    PROVE  Typed'
<1>0. RestOK /\ Known /\ DiskOK(disk) /\ MovesOK(moves) BY DEF Typed
<1>a. MoveOK(m) BY <1>0 DEF MovesOK
<1>b. m \in Move /\ m.ws \in Workspace /\ m.from \in Window /\ m.to \in Window /\ m.from # m.to
  BY <1>a, MoveFields DEF MoveOK
<1>1. DiskOK(disk')
  BY <1>0 DEF AdoptFailed
<1>2. MovesOK(moves')
  BY AdoptFailedEffect
<1>3. RestOK'
  BY <1>0, <1>b DEF RestOK, AdoptFailed, ghost, webview
<1>4. Known'
  <2>1. PICK n : Moved(m, n) BY AdoptFailedEffect
  <2>2. used' = used BY DEF AdoptFailed
  <2> QED BY <1>0, <2>1, <2>2 DEF Known, Moved
<1> QED BY <1>1, <1>2, <1>3, <1>4 DEF Typed

LEMMA AdoptDoneTyped ==
    ASSUME Typed, NEW m \in moves, AdoptDone(m)
    PROVE  Typed'
<1>0. RestOK /\ Known /\ DiskOK(disk) /\ MovesOK(moves) BY DEF Typed
<1>a. MoveOK(m) BY <1>0 DEF MovesOK
<1>b. m \in Move /\ m.ws \in Workspace /\ m.from \in Window /\ m.to \in Window /\ m.from # m.to
  BY <1>a, MoveFields DEF MoveOK
<1>1. DiskOK(disk')
  BY <1>0 DEF AdoptDone
<1>2. MovesOK(moves')
  BY AdoptDoneEffect
<1>3. RestOK'
  BY <1>0, <1>b DEF RestOK, AdoptDone, ghost, webview
<1>4. Known'
  <2>2. used' = used BY DEF AdoptDone
  <2>3. \A j \in moves' : \E i \in moves : j.from = i.from /\ j.to = i.to
    BY AdoptDoneEffect DEF Moved, TakenFields
  <2> QED BY <1>0, <2>2, <2>3 DEF Known
<1> QED BY <1>1, <1>2, <1>3, <1>4 DEF Typed

LEMMA MarkAdoptedTyped ==
    ASSUME Typed, NEW m \in moves, MarkAdopted(m)
    PROVE  Typed'
<1>0. RestOK /\ Known /\ DiskOK(disk) /\ MovesOK(moves) BY DEF Typed
<1>a. MoveOK(m) BY <1>0 DEF MovesOK
<1>b. m \in Move /\ m.ws \in Workspace /\ m.from \in Window /\ m.to \in Window /\ m.from # m.to
  BY <1>a, MoveFields DEF MoveOK
<1>1. DiskOK(disk')
  BY <1>0, <1>b, SettleOK, RetireOK DEF MarkAdopted
<1>2. MovesOK(moves')
  BY MarkAdoptedEffect
<1>3. RestOK'
  <2>0. records \in [Window -> SUBSET Workspace] /\ dirty \in [Window -> BOOLEAN]
    BY <1>0 DEF RestOK
  <2> DEFINE x == IF m.to \in open THEN records[m.to] \cup {m.ws} ELSE records[m.to]
             y == m.to \in open
  <2>a. x \in SUBSET Workspace /\ y \in BOOLEAN BY <1>b, <2>0
  <2>b. records' = [records EXCEPT ![m.to] = x] /\ dirty' = [dirty EXCEPT ![m.to] = y]
    BY <2>0, <1>b DEF MarkAdopted
  <2> HIDE DEF x, y
  <2>1. records' \in [Window -> SUBSET Workspace] BY <2>0, <2>a, <2>b
  <2>2. dirty' \in [Window -> BOOLEAN] BY <2>0, <2>a, <2>b
  <2> QED BY <1>0, <2>1, <2>2 DEF RestOK, MarkAdopted, ghost, webview
<1>4. Known'
  <2>2. used' = used BY DEF MarkAdopted
  <2>3. \A j \in moves' : \E i \in moves : j.from = i.from /\ j.to = i.to
    BY MarkAdoptedEffect DEF MarkedFields
  <2> QED BY <1>0, <2>2, <2>3 DEF Known
<1> QED BY <1>1, <1>2, <1>3, <1>4 DEF Typed

LEMMA DiscardArrivalTyped ==
    ASSUME Typed, NEW m \in moves, DiscardArrival(m)
    PROVE  Typed'
<1>0. RestOK /\ Known /\ DiskOK(disk) /\ MovesOK(moves) BY DEF Typed
<1>a. MoveOK(m) BY <1>0 DEF MovesOK
<1>b. m \in Move /\ m.ws \in Workspace /\ m.from \in Window /\ m.to \in Window /\ m.from # m.to
  BY <1>a, MoveFields DEF MoveOK
<1>1. DiskOK(disk')
  BY <1>0 DEF DiscardArrival
<1>2. MovesOK(moves')
  BY DiscardArrivalEffect
<1>3. RestOK'
  BY <1>0, <1>b DEF RestOK, DiscardArrival, ghost, webview
<1>4. Known'
  <2>1. PICK n : Moved(m, n) BY DiscardArrivalEffect
  <2>2. used' = used BY DEF DiscardArrival
  <2> QED BY <1>0, <2>1, <2>2 DEF Known, Moved
<1> QED BY <1>1, <1>2, <1>3, <1>4 DEF Typed

LEMMA ExpireTyped ==
    ASSUME Typed, NEW m \in moves, Expire(m)
    PROVE  Typed'
<1>0. RestOK /\ Known /\ DiskOK(disk) /\ MovesOK(moves) BY DEF Typed
<1>a. MoveOK(m) BY <1>0 DEF MovesOK
<1>b. m \in Move /\ m.ws \in Workspace /\ m.from \in Window /\ m.to \in Window /\ m.from # m.to
  BY <1>a, MoveFields DEF MoveOK
<1>1. DiskOK(disk')
  BY <1>0 DEF Expire
<1>2. MovesOK(moves')
  BY ExpireEffect
<1>3. RestOK'
  BY <1>0, <1>b DEF RestOK, Expire, ghost, webview
<1>4. Known'
  <2>1. PICK n : Moved(m, n) BY ExpireEffect
  <2>2. used' = used BY DEF Expire
  <2> QED BY <1>0, <2>1, <2>2 DEF Known, Moved
<1> QED BY <1>1, <1>2, <1>3, <1>4 DEF Typed

LEMMA HandBackTyped ==
    ASSUME Typed, NEW m \in moves, HandBack(m)
    PROVE  Typed'
<1>0. RestOK /\ Known /\ DiskOK(disk) /\ MovesOK(moves) BY DEF Typed
<1>a. MoveOK(m) BY <1>0 DEF MovesOK
<1>b. m \in Move /\ m.ws \in Workspace /\ m.from \in Window /\ m.to \in Window /\ m.from # m.to
  BY <1>a, MoveFields DEF MoveOK
<1>1. DiskOK(disk')
  BY <1>0, <1>b, ReturnOK, ForgetOK, RetireOK DEF HandBack
<1>2. MovesOK(moves')
  BY HandBackEffect
<1>3. RestOK'
  BY <1>0, <1>b DEF RestOK, HandBack, ghost, webview
<1>4. Known'
  <2>1. PICK n : Moved(m, n) BY HandBackEffect
  <2>2. used' = used BY DEF HandBack
  <2> QED BY <1>0, <2>1, <2>2 DEF Known, Moved
<1> QED BY <1>1, <1>2, <1>3, <1>4 DEF Typed

LEMMA DepartedTyped ==
    ASSUME Typed, NEW m \in moves, Departed(m)
    PROVE  Typed'
<1>0. RestOK /\ Known /\ DiskOK(disk) /\ MovesOK(moves) BY DEF Typed
<1>a. MoveOK(m) BY <1>0 DEF MovesOK
<1>b. m \in Move /\ m.ws \in Workspace /\ m.from \in Window /\ m.to \in Window /\ m.from # m.to
  BY <1>a, MoveFields DEF MoveOK
<1>1. DiskOK(disk')
  BY <1>0 DEF Departed
<1>2. MovesOK(moves')
  BY DepartedEffect
<1>3. RestOK'
  BY <1>0, <1>b DEF RestOK, Departed, ghost, webview
<1>4. Known'
  <2>1. PICK n : Moved(m, n) BY DepartedEffect
  <2>2. used' = used BY DEF Departed
  <2> QED BY <1>0, <2>1, <2>2 DEF Known, Moved
<1> QED BY <1>1, <1>2, <1>3, <1>4 DEF Typed

LEMMA ArrivalFailedTyped ==
    ASSUME Typed, NEW m \in moves, ArrivalFailed(m)
    PROVE  Typed'
<1>0. RestOK /\ Known /\ DiskOK(disk) /\ MovesOK(moves) BY DEF Typed
<1>a. MoveOK(m) BY <1>0 DEF MovesOK
<1>b. m \in Move /\ m.ws \in Workspace /\ m.from \in Window /\ m.to \in Window /\ m.from # m.to
  BY <1>a, MoveFields DEF MoveOK
<1>1. DiskOK(disk')
  BY <1>0 DEF ArrivalFailed
<1>2. MovesOK(moves')
  BY ArrivalFailedEffect
<1>3. RestOK'
  BY <1>0, <1>b DEF RestOK, ArrivalFailed, ghost, webview
<1>4. Known'
  <2>1. PICK n : Moved(m, n) BY ArrivalFailedEffect
  <2>2. used' = used BY DEF ArrivalFailed
  <2> QED BY <1>0, <2>1, <2>2 DEF Known, Moved
<1> QED BY <1>1, <1>2, <1>3, <1>4 DEF Typed

LEMMA StartMoveTyped ==
    ASSUME Typed, NEW k \in Workspace, NEW from \in Window, NEW to \in Window,
           StartMove(k, from, to)
    PROVE  Typed'
<1>0. RestOK /\ Known /\ DiskOK(disk) /\ MovesOK(moves) BY DEF Typed
<1>1. DiskOK(disk')
  BY StartMoveEffect
<1>2. MovesOK(moves')
  BY StartMoveEffect
<1>3. RestOK'
  <2>1. spent' \in [moves : 0..MaxMoves, upsets : 0..MaxUpsets]
    BY <1>0, SpentTyped DEF RestOK, StartMove
  <2> QED BY <1>0, <2>1 DEF RestOK, StartMove, ghost, webview
<1>4. Known'
  <2>1. used' = used \cup {to} /\ from \in used BY <1>0 DEF StartMove, RestOK
  <2> DEFINE n == Begun(k, from, to)
  <2>2. moves' = moves \cup {n} /\ BegunFields(k, from, to, n) BY StartMoveEffect
  <2> HIDE DEF n
  <2>3. n.from = from /\ n.to = to BY <2>2 DEF BegunFields
  <2> QED BY <1>0, <2>1, <2>2, <2>3 DEF Known
<1> QED BY <1>1, <1>2, <1>3, <1>4 DEF Typed

LEMMA WriteNowTyped ==
    ASSUME Typed, NEW w \in Window, WriteNow(w)
    PROVE  Typed'
<1>0. RestOK /\ Known /\ DiskOK(disk) /\ MovesOK(moves) BY DEF Typed
<1>1. DiskOK(disk')
  BY <1>0 DEF WriteNow
<1>2. MovesOK(moves')
  BY <1>0 DEF WriteNow
<1>3. RestOK'
  <2> DEFINE shot == records[w] \ away[w]
  <2>1. shot \in SUBSET Workspace BY <1>0 DEF RestOK
  <2>2. saves' = [saves EXCEPT ![w] = IF @ = <<>> THEN <<shot>> ELSE <<@[1], shot>>]
    BY DEF WriteNow
  <2> HIDE DEF shot
  <2>3. saves[w] = <<>> \/ saves[w][1] \in SUBSET Workspace BY SaveTyped
  <2> DEFINE x == IF saves[w] = <<>> THEN <<shot>> ELSE <<saves[w][1], shot>>
  <2>4. x \in Seq(SUBSET Workspace) /\ Len(x) <= 2
    <3>1. CASE saves[w] = <<>>
      <4>1. x = <<shot>> BY <3>1
      <4> QED BY <4>1, <2>1
    <3>2. CASE saves[w] # <<>>
      <4> DEFINE a == saves[w][1]
      <4>1. x = <<a, shot>> /\ a \in SUBSET Workspace BY <3>2, <2>3
      <4> HIDE DEF a, x
      <4>2. <<a, shot>> \in Seq(SUBSET Workspace) /\ Len(<<a, shot>>) <= 2 BY <4>1, <2>1
      <4> QED BY <4>1, <4>2
    <3> QED BY <3>1, <3>2
  <2>5. saves' = [saves EXCEPT ![w] = x] BY <2>2
  <2> HIDE DEF x
  <2>6. saves' \in [Window -> Seq(SUBSET Workspace)] /\ \A v \in Window : Len(saves'[v]) <= 2
    BY <1>0, <2>4, <2>5 DEF RestOK
  <2> QED BY <1>0, <2>6 DEF RestOK, WriteNow, ghost, webview
<1>4. Known'
  BY <1>0 DEF Known, WriteNow
<1> QED BY <1>1, <1>2, <1>3, <1>4 DEF Typed

LEMMA SaveSessionTyped ==
    ASSUME Typed, NEW w \in Window, SaveSession(w)
    PROVE  Typed'
<1>0. RestOK /\ Known /\ DiskOK(disk) /\ MovesOK(moves) BY DEF Typed
<1>1. DiskOK(disk')
  BY <1>0, SaveTyped, SnapOK, RetireOK DEF SaveSession
<1>2. MovesOK(moves')
  BY <1>0 DEF SaveSession
<1>3. RestOK'
  BY <1>0, JournalBounds DEF RestOK, SaveSession, ghost, webview
<1>4. Known'
  BY <1>0 DEF Known, SaveSession
<1> QED BY <1>1, <1>2, <1>3, <1>4 DEF Typed

LEMMA RequestCloseTyped ==
    ASSUME Typed, NEW w \in Window, RequestClose(w)
    PROVE  Typed'
<1>0. RestOK /\ Known /\ DiskOK(disk) /\ MovesOK(moves) BY DEF Typed
<1>1. DiskOK(disk')
  BY <1>0 DEF RequestClose
<1>2. MovesOK(moves')
  BY <1>0 DEF RequestClose
<1>3. RestOK'
  <2>1. spent' \in [moves : 0..MaxMoves, upsets : 0..MaxUpsets]
    BY <1>0, SpentTyped DEF RestOK, RequestClose
  <2> QED BY <1>0, <2>1 DEF RestOK, RequestClose, ghost, webview
<1>4. Known'
  BY <1>0 DEF Known, RequestClose
<1> QED BY <1>1, <1>2, <1>3, <1>4 DEF Typed

LEMMA CancelCloseTyped ==
    ASSUME Typed, NEW w \in Window, CancelClose(w)
    PROVE  Typed'
<1>0. RestOK /\ Known /\ DiskOK(disk) /\ MovesOK(moves) BY DEF Typed
<1>1. DiskOK(disk')
  BY <1>0 DEF CancelClose
<1>2. MovesOK(moves')
  BY <1>0 DEF CancelClose
<1>3. RestOK'
  BY <1>0, JournalBounds DEF RestOK, CancelClose, ghost, webview
<1>4. Known'
  BY <1>0 DEF Known, CancelClose
<1> QED BY <1>1, <1>2, <1>3, <1>4 DEF Typed

LEMMA BeginClosingTyped ==
    ASSUME Typed, NEW w \in Window, BeginClosing(w)
    PROVE  Typed'
<1>0. RestOK /\ Known /\ DiskOK(disk) /\ MovesOK(moves) BY DEF Typed
<1>1. DiskOK(disk')
  BY <1>0 DEF BeginClosing
<1>2. MovesOK(moves')
  BY <1>0 DEF BeginClosing
<1>3. RestOK'
  BY <1>0, JournalBounds DEF RestOK, BeginClosing, ghost, webview
<1>4. Known'
  BY <1>0 DEF Known, BeginClosing
<1> QED BY <1>1, <1>2, <1>3, <1>4 DEF Typed

LEMMA CloseSnapshotTyped ==
    ASSUME Typed, NEW w \in Window, CloseSnapshot(w)
    PROVE  Typed'
<1>0. RestOK /\ Known /\ DiskOK(disk) /\ MovesOK(moves) BY DEF Typed
<1>1. DiskOK(disk')
  BY <1>0, TombstoneOK, SnapOK, RetireOK DEF CloseSnapshot
<1>2. MovesOK(moves')
  BY <1>0 DEF CloseSnapshot
<1>3. RestOK'
  BY <1>0, JournalBounds DEF RestOK, CloseSnapshot, ghost, webview
<1>4. Known'
  BY <1>0 DEF Known, CloseSnapshot
<1> QED BY <1>1, <1>2, <1>3, <1>4 DEF Typed

LEMMA DestroyedTyped ==
    ASSUME Typed, NEW w \in Window, Destroyed(w)
    PROVE  Typed'
<1>0. RestOK /\ Known /\ DiskOK(disk) /\ MovesOK(moves) BY DEF Typed
<1>1. DiskOK(disk')
  BY <1>0 DEF Destroyed
<1>2. MovesOK(moves')
  BY DestroyedEffect
<1>3. RestOK'
  <2>3. saves[w] = <<>> \/ saves[w][1] \in SUBSET Workspace BY SaveTyped
  <2> DEFINE x == IF saves[w] = <<>> THEN saves[w] ELSE <<saves[w][1]>>
  <2>4. x \in Seq(SUBSET Workspace) /\ Len(x) <= 2
    <3>1. CASE saves[w] = <<>>
      <4>1. x = saves[w] BY <3>1
      <4>2. saves[w] \in Seq(SUBSET Workspace) /\ Len(saves[w]) <= 2 BY <1>0 DEF RestOK
      <4> QED BY <4>1, <4>2
    <3>2. CASE saves[w] # <<>>
      <4> DEFINE a == saves[w][1]
      <4>1. x = <<a>> /\ a \in SUBSET Workspace BY <3>2, <2>3
      <4> HIDE DEF a, x
      <4>2. <<a>> \in Seq(SUBSET Workspace) /\ Len(<<a>>) <= 2 BY <4>1
      <4> QED BY <4>1, <4>2
    <3> QED BY <3>1, <3>2
  <2>5. saves' = [saves EXCEPT ![w] = x] BY DEF Destroyed
  <2> HIDE DEF x
  <2>6. saves' \in [Window -> Seq(SUBSET Workspace)] /\ \A v \in Window : Len(saves'[v]) <= 2
    BY <1>0, <2>4, <2>5 DEF RestOK
  <2>7. /\ records' \in [Window -> SUBSET Workspace] /\ away' \in [Window -> SUBSET Workspace]
        /\ leaving' \in [Window -> SUBSET Workspace] /\ dirty' \in [Window -> BOOLEAN]
    BY <1>0 DEF RestOK, Destroyed
  <2> QED BY <1>0, <2>6, <2>7 DEF RestOK, Destroyed, ghost, webview
<1>4. Known'
  <2>2. used' = used BY DEF Destroyed
  <2>3. \A j \in moves' : \E i \in moves : j.from = i.from /\ j.to = i.to
    BY DestroyedEffect DEF LeftFields
  <2> QED BY <1>0, <2>2, <2>3 DEF Known
<1> QED BY <1>1, <1>2, <1>3, <1>4 DEF Typed

LEMMA CrashTyped ==
    ASSUME Typed, Crash PROVE Typed'
<1>0. RestOK /\ Known /\ DiskOK(disk) /\ MovesOK(moves) BY DEF Typed
<1>1. disk' \in Recovered BY DEF Crash
<1>2. DiskOK(disk') /\ disk'.journal = {} BY <1>1, RecoveredFacts
<1>3. MovesOK(moves') BY DEF Crash, MovesOK
<1> DEFINE snap == disk'.snap
           At(k) == {w \in DOMAIN snap : k \in snap[w]}
<1>4. DOMAIN snap \subseteq Window /\ \A w \in DOMAIN snap : snap[w] \subseteq Workspace
  BY <1>2, SnapTyped DEF DiskOK, Disk
<1>5. open' \subseteq Window /\ used' = open' BY <1>4, MainIsAWindow DEF Crash
<1>6. records' \in [Window -> SUBSET Workspace] BY <1>4 DEF Crash
<1>7. home' \in [Workspace -> Window]
  <2>1. \A k : At(k) \subseteq Window BY <1>4
  <2>2. home' = [k \in Workspace |-> IF At(k) = {} THEN home[k] ELSE CHOOSE w \in At(k) : TRUE]
    BY DEF Crash
  <2>3. ASSUME NEW k \in Workspace, At(k) # {} PROVE (CHOOSE w \in At(k) : TRUE) \in Window
    <3> HIDE DEF At
    <3> QED BY <2>1, <2>3
  <2>4. home \in [Workspace -> Window] BY <1>0 DEF RestOK
  <2> HIDE DEF At
  <2> QED BY <2>2, <2>3, <2>4
<1>8. fate' \in [Workspace -> {"kept", "ending", "ended", "contested", "spoiled"}]
  <2> DEFINE F(k) == CASE fate[k] = "contested" -> "contested"
                            [] fate[k] \in {"ending", "ended"} /\ At(k) = {} -> "ended"
                            [] fate[k] \in {"kept", "ending"}
                                /\ (\E w \in At(k) : At(k) = {w}) -> "kept"
                            [] OTHER -> "spoiled"
  <2>1. fate' = [k \in Workspace |-> F(k)] BY DEF Crash
  <2>2. \A k : F(k) \in {"kept", "ended", "contested", "spoiled"} OBVIOUS
  <2> HIDE DEF F
  <2> QED BY <2>1, <2>2
<1>9. spent' \in [moves : 0..MaxMoves, upsets : 0..MaxUpsets]
  BY <1>0, SpentTyped DEF RestOK, Crash
<1>10. /\ away' \in [Window -> SUBSET Workspace] /\ leaving' \in [Window -> SUBSET Workspace]
       /\ dirty' \in [Window -> BOOLEAN]
       /\ saves' \in [Window -> Seq(SUBSET Workspace)] /\ \A w \in Window : Len(saves'[w]) <= 2
       /\ active' = {} /\ closing' = {} /\ removed' = {}
  BY DEF Crash
<1>11. RestOK' BY <1>5, <1>6, <1>7, <1>8, <1>9, <1>10 DEF RestOK
<1>12. Known' BY DEF Crash, Known
<1> QED BY <1>2, <1>3, <1>11, <1>12 DEF Typed

LEMMA NextTyped == ASSUME Typed, [Next]_vars PROVE Typed'
<1>1. CASE UNCHANGED vars
  BY <1>1 DEF vars, Typed, RestOK, Known
<1>2. CASE Next
  <2>1. ASSUME NEW k \in Workspace, NEW from \in Window, NEW to \in Window, StartMove(k, from, to)
        PROVE Typed'
    BY <2>1, StartMoveTyped
  <2>2. ASSUME NEW m \in moves, HostStep(m) \/ WindowStep(m) \/ SendContent(m) \/ AdoptFailed(m)
               \/ Expire(m)
        PROVE Typed'
    BY <2>2, OpenArrivalTyped, AdoptDoneTyped, MarkAdoptedTyped, HandBackTyped, ReplyTyped,
       MountTyped, DiscardArrivalTyped,
       DepartedTyped, ArrivalFailedTyped, SendContentTyped, AdoptFailedTyped,
           ExpireTyped DEF HostStep, WindowStep
  <2>3. ASSUME NEW w \in Window, WriteNow(w) \/ SaveSession(w) \/ RequestClose(w)
               \/ CancelClose(w)
                                  \/ BeginClosing(w) \/ CloseSnapshot(w)
                                       \/ Destroyed(w) PROVE Typed'
    BY <2>3, WriteNowTyped, SaveSessionTyped, RequestCloseTyped, CancelCloseTyped,
       BeginClosingTyped, CloseSnapshotTyped, DestroyedTyped
  <2>4. CASE Crash BY <2>4, CrashTyped
  <2> QED BY <1>2, <2>1, <2>2, <2>3, <2>4 DEF Next
<1> QED BY <1>1, <1>2

\* Every state is well formed: the journal has one record of a Workspace, a save
\* waits behind at most one other, and the bounds are kept (record_arrival, setItem).
THEOREM TypeCorrect == Spec => []TypeOK
<1>1. Init => Typed BY InitTyped
<1>2. Typed /\ [Next]_vars => Typed' BY NextTyped
<1>3. Typed => TypeOK BY TypedIsTypeOK
<1> QED BY <1>1, <1>2, <1>3, PTL DEF Spec

-----------------------------------------------------------------------------
(* The inductive invariant                                                 *)

\* The host still has a part in the move.
Busy(m) == m.host # "over"

\* The target has mounted what the move brought and has not heard the end of it.
Shown(m) == m.tgt \in {"mounted", "refused"}

\* What a window's snapshot will name once its saves have been written.
Latest(w) == IF saves[w] = <<>> THEN Names(disk, w) ELSE saves[w][Len(saves[w])]

\* A window that is gone has nothing left in the host, and only windows whose
\* snapshot was not removed have one.
Closed ==
    /\ DOMAIN disk.snap \subseteq open \ removed
    /\ \A w \in Window : w \notin open =>
          records[w] = {} /\ away[w] = {} /\ leaving[w] = {} /\ ~dirty[w]
    /\ \A w \in Window : saves[w] # <<>> => w \in open \cup closing

\* A window with no write scheduled has saved, or sent to be saved, what it shows.
CaughtUp ==
    \A w \in open \ closing : ~dirty[w] => Latest(w) = records[w] \ away[w]

\* Who still has a part in a move: the source until it has heard the end of it,
\* the target while it shows what came.
Parties ==
    \A m \in moves :
       /\ m.src => m.from \in open
       /\ m.event # "none" => m.host = "over" /\ m.src
       /\ Busy(m) /\ m.from \in open => m.src
       /\ Shown(m) => m.to \in open
       /\ m.reply = "refused" => m.host = "over" /\ m.event = "none"
       /\ m.host = "journaled" => m.reply = "none"
       /\ m.src => Busy(m) \/ m.event # "none" \/ m.reply = "refused"
       /\ m.from \in open \cup removed
       /\ m.host = "queued" /\ m.to \in removed => m.to \in open

\* A window has one move of a Workspace under way, and one mount of it.
Single ==
    \A m, i \in moves : m.ws = i.ws =>
       /\ m.src /\ i.src /\ m.from = i.from => m = i
       /\ Shown(m) /\ Shown(i) /\ m.to = i.to => m = i

\* The Workspace was not closed: its window holds it, or is being closed with it.
Live(k) == fate[k] \in {"kept", "ending"}

\* The moves of a Workspace.
Of(k) == {m \in moves : m.ws = k}

\* The host has one move of it.
OneBusy(k) == \A m, i \in Of(k) : Busy(m) /\ Busy(i) => m = i

\* A move under way in the host is in the journal, not settled.
Journaled(k) ==
    \A m \in Of(k) : Busy(m) =>
        \E r \in disk.journal : r.ws = k /\ r.from = m.from /\ r.to = m.to /\ ~r.settled

\* A settled record leads to the window that holds it, an unsettled one belongs
\* to a move.
Recorded(k) ==
    \A r \in disk.journal : r.ws = k =>
        /\ r.settled => ~r.discarded /\ r.to = home[k]
        /\ ~r.settled => \E m \in Of(k) : Busy(m)

\* So does the record a withdrawal would put back.
Earlier(k) ==
    \A m \in Of(k) : m.host = "journaled" =>
        \A r \in m.previous : r.settled /\ ~r.discarded /\ r.to = home[k]

\* The source holds it until adopt_done takes the arrival, then the target does.
Placed(k) ==
    \A m \in Of(k) :
       /\ m.host \in {"journaled", "queued", "returning"} => home[k] = m.from
       /\ m.host = "adopting" => home[k] = m.to

\* A mount that is not adopted is not where the Workspace is held.
Elsewhere(k) ==
    \A m \in Of(k) : Shown(m) =>
       \/ home[k] # m.to
       \/ m.tgt = "mounted" /\ \E i \in Of(k) : i.to = m.to /\ i.host = "adopting"

\* A window that awaits the end of its move of it has no mount of it.
NotBack(k) ==
    \A m \in Of(k) :
       /\ Busy(m) \/ m.event # "none" => \A i \in Of(k) : Shown(i) => i.to # m.from
       /\ m.event = "departed" => home[k] # m.from

\* A window that shows it holds it, is closing behind it, has it mounted, or has
\* yet to hear that it left.
ShownAt(k) ==
    \A w \in Window : k \in records[w] =>
       \/ w = home[k] \/ leaving[w] # {}
       \/ \E m \in Of(k) : m.to = w /\ Shown(m)
       \/ \E m \in Of(k) : m.from = w /\ (m.host = "adopting" \/ m.event = "departed")

\* The window that holds it shows it, or a record leads there.
AtHome(k) ==
    \/ home[k] \in open \ removed /\ k \in records[home[k]]
    \/ \E m \in Of(k) : m.host = "adopting"
    \/ home[k] \in removed /\ \E r \in disk.journal : r.ws = k /\ r.settled

\* An adoption is awaited by the window that asked for it, unless it was closed.
Awaited(k) ==
    \A m \in Of(k) : m.host = "adopting" =>
       /\ m.to \in open \cup removed
       /\ m.to \in open => \E i \in Of(k) : i.to = m.to /\ i.tgt = "mounted"

\* It is ending while the window that holds it is being closed.
Fated(k) == fate[k] = "ending" <=> home[k] \in closing \ removed

\* A queued move leaves a window that is not closing (admit_arrival), nor is the
\* window closing behind its last Workspace.
Unhurried(k) ==
    \A m \in Of(k) :
       /\ m.host \in {"journaled", "queued"} => leaving[m.from] = {}
       /\ m.host = "queued" => m.from \notin active \cup closing

\* A transferring mark belongs to a move its window has not heard the end of.
Marked(k) ==
    /\ \A w \in Window : k \in away[w] =>
           \E m \in Of(k) : m.src /\ m.from = w /\ (Busy(m) \/ m.event # "none")
    /\ \A m \in Of(k) : m.host = "journaled" => k \notin away[m.from]

\* All that holds of a Workspace that was not closed.
LiveOK(k) == Live(k) =>
    /\ OneBusy(k) /\ Journaled(k) /\ Recorded(k) /\ Earlier(k) /\ Placed(k) /\ Elsewhere(k)
    /\ NotBack(k) /\ ShownAt(k) /\ AtHome(k) /\ Fated(k) /\ Unhurried(k) /\ Marked(k)
    /\ Awaited(k)

\* No record brings back a Workspace that was closed with its window, and a
\* window that shows it is about to let go of it.
EndedOK(k) == fate[k] = "ended" =>
    /\ \A r \in disk.journal : r.ws = k => r.discarded
    /\ \A m \in Of(k) : ~Busy(m)
    /\ \A w \in Window : k \in records[w] =>
          \/ w \in closing \/ leaving[w] # {}
          \/ \E m \in Of(k) : m.to = w /\ Shown(m)
          \/ \E m \in Of(k) : m.from = w /\ m.event = "departed"

Fates == \A k \in Workspace : LiveOK(k) /\ EndedOK(k)

\* The inductive invariant.
JInv == Typed /\ Closed /\ CaughtUp /\ Parties /\ Single /\ Fates

-----------------------------------------------------------------------------

LEMMA SameNames ==
    ASSUME NEW d, NEW e, d.snap = e.snap
    PROVE  \A w : Names(d, w) = Names(e, w)
BY DEF Names

LEMMA LatestSame ==
    ASSUME disk'.snap = disk.snap, saves' = saves
    PROVE  \A w : Latest(w)' = Latest(w)
<1>1. \A w : Names(disk, w)' = Names(disk', w) BY DEF Names
<1>2. \A w : Names(disk', w) = Names(disk, w) BY SameNames
<1> QED BY <1>1, <1>2 DEF Latest

\* A Workspace whose moves, records and windows a step leaves alone.
Untouched(k) ==
    /\ \A i : i.ws = k => (i \in moves' <=> i \in moves)
    /\ \A r \in disk'.journal : r.ws = k => r \in disk.journal
    /\ \A r \in disk.journal : r.ws = k /\ (~r.settled \/ (~r.discarded /\ r.to \in removed)) =>
         r \in disk'.journal
    /\ home'[k] = home[k] /\ fate'[k] = fate[k]
    /\ \A w \in Window : k \in records[w] => k \in records'[w]
    /\ \A w \in Window : k \in records'[w] => k \in records[w] \/ leaving[w] # {}
    /\ \A w \in Window : k \in away'[w] <=> k \in away[w]
    /\ \A w \in Window : leaving[w] # {} => leaving'[w] # {}
    /\ Live(k) => \A i \in moves : i.ws = k /\ i.host \in {"journaled", "queued"} =>
         leaving'[i.from] = leaving[i.from]
    /\ \A i \in moves : i.ws = k /\ i.host = "queued" /\ i.from \in active' \cup closing' =>
         i.from \in active \cup closing
    /\ closing \subseteq closing' /\ removed \subseteq removed' /\ open \subseteq open'
    /\ home[k] \in closing' => home[k] \in closing
    /\ home[k] \in removed' => home[k] \in removed
    /\ \A w \in removed : w \in open' => w \in open

LEMMA UntouchedKept ==
    ASSUME NEW k \in Workspace, Typed, LiveOK(k), EndedOK(k), Untouched(k)
    PROVE  LiveOK(k)' /\ EndedOK(k)'
<1>0. Of(k)' = Of(k) BY DEF Untouched, Of
<1>a. /\ \A r \in disk'.journal : r.ws = k => r \in disk.journal
      /\ \A r \in disk.journal : r.ws = k /\ (~r.settled \/ (~r.discarded /\ r.to \in removed)) =>
           r \in disk'.journal
  BY DEF Untouched
<1>b. home'[k] = home[k] /\ fate'[k] = fate[k] BY DEF Untouched
<1>c. /\ \A w \in Window : k \in records[w] => k \in records'[w]
      /\ \A w \in Window : k \in records'[w] => k \in records[w] \/ leaving[w] # {}
      /\ \A w \in Window : k \in away'[w] <=> k \in away[w]
  BY DEF Untouched
<1>d. \A w \in Window : leaving[w] # {} => leaving'[w] # {} BY DEF Untouched
<1>e. /\ closing \subseteq closing' /\ removed \subseteq removed' /\ open \subseteq open'
      /\ home[k] \in closing' => home[k] \in closing
      /\ home[k] \in removed' => home[k] \in removed
      /\ \A w \in removed : w \in open' => w \in open
  BY DEF Untouched
<1>i. \A i \in Of(k) : i.host = "queued" /\ i.from \in active' \cup closing' =>
      i.from \in active \cup closing
  BY DEF Untouched, Of
<1>f. Live(k) => \A i \in Of(k) : i.host \in {"journaled", "queued"} =>
      leaving'[i.from] = leaving[i.from]
  BY DEF Untouched, Of
<1>g. home[k] \in Window BY DEF Typed, RestOK
<1>h. \A i \in Of(k) : i.from \in Window BY MoveFields DEF Typed, MovesOK, Of
<1>1. ASSUME Live(k) PROVE LiveOK(k)'
  <2>1. OneBusy(k)' BY <1>0, <1>1 DEF LiveOK, OneBusy
  <2>2. Journaled(k)' BY <1>0, <1>a, <1>1 DEF LiveOK, Journaled
  <2>3. Recorded(k)' BY <1>0, <1>a, <1>b, <1>1 DEF LiveOK, Recorded
  <2>4. Earlier(k)' BY <1>0, <1>b, <1>1 DEF LiveOK, Earlier
  <2>5. Placed(k)' BY <1>0, <1>b, <1>1 DEF LiveOK, Placed
  <2>6. Elsewhere(k)' BY <1>0, <1>b, <1>1 DEF LiveOK, Elsewhere
  <2>7. NotBack(k)' BY <1>0, <1>b, <1>1 DEF LiveOK, NotBack
  <2>8. ShownAt(k)' BY <1>0, <1>b, <1>c, <1>d, <1>1 DEF LiveOK, ShownAt
  <2>9. AtHome(k)' BY <1>0, <1>a, <1>b, <1>c, <1>e, <1>g, <1>1 DEF LiveOK, AtHome, Recorded
  <2>10. Fated(k)' BY <1>b, <1>e, <1>1 DEF LiveOK, Fated
  <2>11. Unhurried(k)' BY <1>0, <1>f, <1>i, <1>1 DEF LiveOK, Unhurried
  <2>12. Marked(k)' BY <1>0, <1>c, <1>h, <1>1 DEF LiveOK, Marked
  <2>13. Awaited(k)' BY <1>0, <1>e, <1>1 DEF LiveOK, Awaited
  <2> QED
    BY <2>1, <2>2, <2>3, <2>4, <2>5, <2>6, <2>7, <2>8, <2>9, <2>10, <2>11, <2>12, <2>13 DEF LiveOK
<1>2. ASSUME fate[k] = "ended" PROVE EndedOK(k)'
  BY <1>0, <1>a, <1>b, <1>c, <1>d, <1>e, <1>2 DEF EndedOK
<1>3. ~Live(k) => ~Live(k)' BY <1>b DEF Live
<1>4. fate[k] # "ended" => fate'[k] # "ended" BY <1>b
<1> QED BY <1>1, <1>2, <1>3, <1>4 DEF LiveOK, EndedOK

\* Retiring leaves what is not settled, and what is to be restored into a window
\* with no snapshot.
LEMMA RetireKeeps ==
    ASSUME NEW d \in Disk, DOMAIN d.snap \cap removed = {}
    PROVE  /\ RetireSaved(d).journal \subseteq d.journal
           /\ \A r \in d.journal : ~r.settled \/ (~r.discarded /\ r.to \in removed) =>
                r \in RetireSaved(d).journal
<1>1. /\ RetireSaved(d).journal \subseteq d.journal
      /\ \A r \in d.journal : r \in RetireSaved(d).journal \/
                 (r.settled /\ ~Has(d, r.from, r.ws) /\ (Has(d, r.to, r.ws) = ~r.discarded))
  BY RetireSavedFacts
<1>2. \A r \in d.journal : r.to \in removed => ~Has(d, r.to, r.ws) BY DEF Has
<1> QED BY <1>1, <1>2

-----------------------------------------------------------------------------
(* Each step keeps it                                                      *)

LEMMA OpenArrivalKeeps ==
    ASSUME JInv, NEW m \in moves, OpenArrival(m)
    PROVE  JInv'
<1>0. Typed /\ Closed /\ CaughtUp /\ Parties /\ Single /\ Fates BY DEF JInv
<1>1. RestOK /\ Known /\ DiskOK(disk) /\ MovesOK(moves) BY <1>0 DEF Typed
<1>2. PICK n : Moved(m, n) /\ OpenArrivalFields(m, n) BY <1>0, OpenArrivalEffect
<1>3. MoveOK(m) /\ m.ws \in Workspace /\ m.from \in Window /\ m.to \in Window /\ m.from # m.to
  BY <1>1, MoveFields DEF MovesOK, MoveOK
<1>4. \A j : j \in moves' <=> (j = n /\ InPlay(n)) \/ (j \in moves /\ j # m)
  BY <1>1, <1>2 DEF Moved, MovesOK, MoveOK
<1>5. n.ws = m.ws /\ n.from = m.from /\ n.to = m.to
      /\ n.host = (IF Admitted(m.ws, m.from, m.to) THEN "queued" ELSE "over")
      /\ n.content = m.content /\ n.src = m.src
      /\ n.reply = (IF Admitted(m.ws, m.from, m.to) THEN "accepted" ELSE "refused")
      /\ n.event = m.event /\ n.tgt = m.tgt /\ n.previous = {}
  BY <1>2 DEF Moved, OpenArrivalFields
<1>6. Typed' BY <1>0, OpenArrivalTyped
<1>g. m.host = "journaled" BY DEF OpenArrival
<1>u. open' = open /\ active' = active /\ closing' = closing /\ removed' = removed
      /\ records' = records /\ away' = away /\ leaving' = leaving /\ dirty' = dirty
      /\ saves' = saves /\ home' = home /\ fate' = fate
  BY DEF OpenArrival, ghost, webview
<1>d. (Admitted(m.ws, m.from, m.to) /\ disk' = disk)
      \/ (~Admitted(m.ws, m.from, m.to) /\ disk' = Withdraw(disk, m, m.previous))
  BY DEF OpenArrival
<1>s. disk'.snap = disk.snap BY <1>1, <1>3, <1>d, MoveFields, WithdrawFacts DEF DiskOK
<1>7. Closed' BY <1>0, <1>1, <1>3, <1>d, <1>g, <1>s, <1>u DEF Closed, RestOK
<1>8. CaughtUp'
  <2>1. \A w : Latest(w)' = Latest(w) BY <1>s, <1>u, LatestSame
  <2> QED BY <1>0, <1>1, <1>3, <1>d, <1>g, <1>u, <2>1 DEF CaughtUp, RestOK
<1>9. Parties'
  <2>1. CASE Admitted(m.ws, m.from, m.to)
    <3>1. n.host = "queued" /\ n.reply = "accepted" BY <1>5, <2>1
    <3>2. m.to \notin removed BY <2>1, <1>1 DEF Admitted, RestOK
    <3> QED BY <1>0, <1>4, <1>5, <1>g, <1>u, <3>1, <3>2 DEF Parties, Busy, Shown
  <2>2. CASE ~Admitted(m.ws, m.from, m.to)
    <3>1. n.host = "over" /\ n.reply = "refused" BY <1>5, <2>2
    <3> QED BY <1>0, <1>4, <1>5, <1>g, <1>u, <3>1 DEF Parties, Busy, Shown
  <2> QED BY <2>1, <2>2
<1>10. Single' BY <1>0, <1>4, <1>5, <1>g, <1>u DEF Single, Shown
<1>11. ASSUME NEW k \in Workspace, k # m.ws PROVE LiveOK(k)' /\ EndedOK(k)'
  <2>1. \A r : r.ws = k => (r \in disk'.journal <=> r \in disk.journal)
    BY <1>1, <1>3, <1>11, <1>d DEF Withdraw, MoveOK, DiskOK, Disk
  <2>2. Untouched(k) BY <1>1, <1>3, <1>4, <1>5, <1>11, <1>d, <1>u, <2>1 DEF Untouched, RestOK
  <2> QED BY <1>0, <2>2, UntouchedKept DEF Fates
<1>k. PICK k \in Workspace : k = m.ws BY <1>3
<1>o. m \in Of(k) /\ \A j : j \in Of(k)' <=> (j = n /\ InPlay(n)) \/ (j \in Of(k) /\ j # m)
  BY <1>4, <1>5, <1>k DEF Of
<1>12. LiveOK(k)'
  <2> SUFFICES ASSUME Live(k)
               PROVE OneBusy(k)' /\ Journaled(k)' /\ Recorded(k)' /\ Earlier(k)' /\ Placed(k)'
                     /\ Elsewhere(k)' /\ NotBack(k)' /\ ShownAt(k)' /\ AtHome(k)' /\ Fated(k)'
                     /\ Unhurried(k)' /\ Marked(k)' /\ Awaited(k)'
    BY <1>u DEF Live, LiveOK
  <2>a. OneBusy(k) /\ Journaled(k) /\ Recorded(k) /\ Earlier(k) /\ Placed(k) /\ Elsewhere(k)
        /\ NotBack(k) /\ ShownAt(k) /\ AtHome(k) /\ Fated(k) /\ Unhurried(k) /\ Marked(k)
        /\ Awaited(k)
    BY <1>0 DEF Fates, LiveOK
  <2>b. \A r, q \in disk.journal : r.ws = q.ws => r = q BY <1>1 DEF DiskOK, Orderly
  <2>c. PICK e \in disk.journal : e.ws = k /\ e.from = m.from /\ e.to = m.to /\ ~e.settled
    BY <2>a, <1>o, <1>g DEF Journaled, Busy
  <2>d. \A r \in disk.journal : r.ws = k => r = e BY <2>b, <2>c
  <2>e. \A i \in Of(k) : Busy(i) => i = m BY <2>a, <1>o, <1>g DEF OneBusy, Busy
  <2>g. ~Admitted(m.ws, m.from, m.to) => n.host = "over" /\ \A r \in disk'.journal : r.ws = k =>
        r \in m.previous
    <3> SUFFICES ASSUME ~Admitted(m.ws, m.from, m.to)
                 PROVE n.host = "over" /\ \A r \in disk'.journal : r.ws = k => r \in m.previous
      OBVIOUS
    <3>1. disk' = Withdraw(disk, m, m.previous) /\ n.host = "over" BY <1>5, <1>d
    <3>2. m \in Move /\ m.previous \in SUBSET Entry /\ disk \in Disk
      BY <1>1, <1>3, MoveFields DEF DiskOK
    <3>3. /\ \A r \in disk'.journal : r \in disk.journal \/ r \in m.previous
          /\ \A r \in disk'.journal : r \in m.previous
               \/ ~(r.ws = m.ws /\ r.from = m.from /\ r.to = m.to /\ ~r.settled)
      BY <3>1, <3>2, WithdrawFacts
    <3> QED BY <3>1, <3>3, <2>c, <2>d, <1>k
  <2>1. OneBusy(k)'
    BY <1>0, <1>3, <1>5, <1>d, <1>g, <1>k, <1>o, <1>u, <2>a DEF OneBusy, Busy, Shown, InPlay
  <2>2. Journaled(k)'
    <3>1. CASE Admitted(m.ws, m.from, m.to)
      BY <3>1, <1>5, <1>d, <1>o, <2>a, <1>g DEF Journaled, Busy
    <3>2. CASE ~Admitted(m.ws, m.from, m.to) BY <3>2, <1>o, <2>e, <2>g DEF Journaled, Busy
    <3> QED BY <3>1, <3>2
  <2>3. Recorded(k)'
    <3>1. CASE Admitted(m.ws, m.from, m.to)
      <4>1. disk' = disk /\ n.host = "queued" /\ InPlay(n) BY <1>5, <1>d, <3>1 DEF InPlay
      <4> QED BY <4>1, <1>o, <1>u, <2>a, <1>5 DEF Recorded, Busy
    <3>2. CASE ~Admitted(m.ws, m.from, m.to)
      BY <3>2, <2>g, <1>o, <1>g, <1>u, <2>a DEF Recorded, Earlier
    <3> QED BY <3>1, <3>2
  <2>4. Earlier(k)'
    BY <1>0, <1>3, <1>5, <1>d, <1>g, <1>k, <1>o, <1>u, <2>a DEF Earlier, Busy, Shown, InPlay
  <2>5. Placed(k)'
    BY <1>0, <1>3, <1>5, <1>d, <1>g, <1>k, <1>o, <1>u, <2>a DEF Placed, Busy, Shown, InPlay
  <2>6. Elsewhere(k)'
    BY <1>0, <1>3, <1>5, <1>d, <1>g, <1>k, <1>o, <1>u, <2>a DEF Elsewhere, Busy, Shown, InPlay
  <2>7. NotBack(k)'
    BY <1>0, <1>3, <1>5, <1>d, <1>g, <1>k, <1>o, <1>u, <2>a DEF NotBack, Busy, Shown, InPlay
  <2>8. ShownAt(k)'
    BY <1>0, <1>3, <1>5, <1>d, <1>g, <1>k, <1>o, <1>u, <2>a DEF ShownAt, Busy, Shown, InPlay
  <2>9. AtHome(k)'
    <3>1. ~\E r \in disk.journal : r.ws = k /\ r.settled BY <2>c, <2>d
    <3>2. ~\E i \in Of(k) : i.host = "adopting" BY <2>e, <1>g DEF Busy
    <3>3. home[k] \in open \ removed /\ k \in records[home[k]] BY <2>a, <3>1, <3>2 DEF AtHome
    <3> QED BY <3>3, <1>u DEF AtHome
  <2>10. Fated(k)'
    BY <1>0, <1>3, <1>5, <1>d, <1>g, <1>k, <1>o, <1>u, <2>a DEF Fated, Busy, Shown, InPlay
  <2>11. Unhurried(k)' BY <1>5, <1>g, <1>o, <1>u, <2>a DEF Unhurried, Admitted
  <2>12. Marked(k)'
    BY <1>0, <1>3, <1>5, <1>d, <1>g, <1>k, <1>o, <1>u, <2>a DEF Marked, Busy, Shown, InPlay
  <2>13. Awaited(k)'
    BY <1>0, <1>3, <1>5, <1>d, <1>g, <1>k, <1>o, <1>u, <2>a DEF Awaited, Busy, Shown, InPlay
  <2> QED BY <2>1, <2>2, <2>3, <2>4, <2>5, <2>6, <2>7, <2>8, <2>9, <2>10, <2>11, <2>12, <2>13
<1>13. EndedOK(k)'
  BY <1>0, <1>3, <1>5, <1>d, <1>g, <1>k, <1>o, <1>u DEF Fates, EndedOK, Busy, Shown, InPlay,
     Parties
<1>14. Fates' BY <1>11, <1>12, <1>13, <1>k DEF Fates
<1> QED BY <1>6, <1>7, <1>8, <1>9, <1>10, <1>14 DEF JInv

LEMMA ReplyKeeps ==
    ASSUME JInv, NEW m \in moves, Reply(m)
    PROVE  JInv'
<1>0. Typed /\ Closed /\ CaughtUp /\ Parties /\ Single /\ Fates BY DEF JInv
<1>1. RestOK /\ Known /\ DiskOK(disk) /\ MovesOK(moves) BY <1>0 DEF Typed
<1>2. PICK n : Moved(m, n) /\ ReplyFields(m, n) BY <1>0, ReplyEffect
<1>3. MoveOK(m) /\ m.ws \in Workspace /\ m.from \in Window /\ m.to \in Window /\ m.from # m.to
  BY <1>1, MoveFields DEF MovesOK, MoveOK
<1>4. \A j : j \in moves' <=> (j = n /\ InPlay(n)) \/ (j \in moves /\ j # m)
  BY <1>1, <1>2 DEF Moved, MovesOK, MoveOK
<1>5. n.ws = m.ws /\ n.from = m.from /\ n.to = m.to /\ n.host = m.host /\ n.content = m.content
      /\ n.src = (m.src /\ m.reply = "accepted") /\ n.reply = "none" /\ n.event = m.event
      /\ n.tgt = m.tgt /\ n.previous = m.previous
  BY <1>2 DEF Moved, ReplyFields
<1>6. Typed' BY <1>0, ReplyTyped
<1>g. m.reply # "none" /\ m.from \in open BY DEF Reply
<1>u. open' = open /\ active' = active /\ closing' = closing /\ removed' = removed
      /\ records' = records /\ leaving' = leaving /\ saves' = saves /\ home' = home
      /\ fate' = fate
  BY DEF Reply, ghost, webview
<1>d. disk' = disk /\ away' = [away EXCEPT ![m.from] = IF m.reply = "accepted" /\ m.src
      THEN @ \cup {m.ws} ELSE @] /\ dirty'
      = [dirty EXCEPT ![m.from] = @ \/ (m.reply = "accepted" /\ m.src)]
  BY DEF Reply
<1>s. disk'.snap = disk.snap BY <1>d
<1>b. (n.src <=> m.src /\ m.reply = "accepted") /\ (n.src \/ ~n.src) BY <1>3, <1>5, MoveFields
<1>7. Closed' BY <1>0, <1>1, <1>3, <1>d, <1>g, <1>s, <1>u DEF Closed, RestOK
<1>8. CaughtUp'
  <2>1. \A w : Latest(w)' = Latest(w) BY <1>s, <1>u, LatestSame
  <2> QED BY <1>0, <1>1, <1>3, <1>d, <1>g, <1>u, <2>1 DEF CaughtUp, RestOK
<1>9. Parties'
  BY <1>0, <1>1, <1>3, <1>4, <1>5, <1>b, <1>g, <1>u, MoveFields DEF Parties, Busy, Shown, RestOK
<1>10. Single' BY <1>0, <1>4, <1>5, <1>b, <1>g, <1>u DEF Single, Shown
<1>11. ASSUME NEW k \in Workspace, k # m.ws PROVE LiveOK(k)' /\ EndedOK(k)'
  <2>1. \A r : r.ws = k => (r \in disk'.journal <=> r \in disk.journal)
    BY <1>d
  <2>2. Untouched(k) BY <1>1, <1>3, <1>4, <1>5, <1>11, <1>d, <1>u, <2>1 DEF Untouched, RestOK
  <2> QED BY <1>0, <2>2, UntouchedKept DEF Fates
<1>k. PICK k \in Workspace : k = m.ws BY <1>3
<1>o. m \in Of(k) /\ \A j : j \in Of(k)' <=> (j = n /\ InPlay(n)) \/ (j \in Of(k) /\ j # m)
  BY <1>4, <1>5, <1>k DEF Of
<1>12. LiveOK(k)'
  <2> SUFFICES ASSUME Live(k)
               PROVE OneBusy(k)' /\ Journaled(k)' /\ Recorded(k)' /\ Earlier(k)' /\ Placed(k)'
                     /\ Elsewhere(k)' /\ NotBack(k)' /\ ShownAt(k)' /\ AtHome(k)' /\ Fated(k)'
                     /\ Unhurried(k)' /\ Marked(k)' /\ Awaited(k)'
    BY <1>u DEF Live, LiveOK
  <2>a. OneBusy(k) /\ Journaled(k) /\ Recorded(k) /\ Earlier(k) /\ Placed(k) /\ Elsewhere(k)
        /\ NotBack(k) /\ ShownAt(k) /\ AtHome(k) /\ Fated(k) /\ Unhurried(k) /\ Marked(k)
        /\ Awaited(k)
    BY <1>0 DEF Fates, LiveOK
  <2>1. OneBusy(k)'
    BY <1>0, <1>3, <1>5, <1>d, <1>g, <1>k, <1>o, <1>u, <2>a DEF OneBusy, Busy, Shown, InPlay
  <2>2. Journaled(k)'
    BY <1>0, <1>3, <1>5, <1>d, <1>g, <1>k, <1>o, <1>u, <2>a DEF Journaled, Busy, Shown, InPlay
  <2>3. Recorded(k)'
    BY <1>0, <1>3, <1>5, <1>d, <1>g, <1>k, <1>o, <1>u, <2>a DEF Recorded, Busy, Shown, InPlay
  <2>4. Earlier(k)'
    BY <1>0, <1>3, <1>5, <1>d, <1>g, <1>k, <1>o, <1>u, <2>a DEF Earlier, Busy, Shown, InPlay
  <2>5. Placed(k)'
    BY <1>0, <1>3, <1>5, <1>d, <1>g, <1>k, <1>o, <1>u, <2>a DEF Placed, Busy, Shown, InPlay
  <2>6. Elsewhere(k)'
    BY <1>0, <1>3, <1>5, <1>d, <1>g, <1>k, <1>o, <1>u, <2>a DEF Elsewhere, Busy, Shown, InPlay
  <2>7. NotBack(k)'
    BY <1>0, <1>3, <1>5, <1>d, <1>g, <1>k, <1>o, <1>u, <2>a DEF NotBack, Busy, Shown, InPlay
  <2>8. ShownAt(k)'
    BY <1>0, <1>3, <1>5, <1>d, <1>g, <1>k, <1>o, <1>u, <2>a DEF ShownAt, Busy, Shown, InPlay
  <2>9. AtHome(k)'
    BY <1>0, <1>3, <1>5, <1>d, <1>g, <1>k, <1>o, <1>u, <2>a DEF AtHome, Busy, Shown, InPlay
  <2>10. Fated(k)'
    BY <1>0, <1>3, <1>5, <1>d, <1>g, <1>k, <1>o, <1>u, <2>a DEF Fated, Busy, Shown, InPlay
  <2>11. Unhurried(k)'
    BY <1>0, <1>3, <1>5, <1>d, <1>g, <1>k, <1>o, <1>u, <2>a DEF Unhurried, Busy, Shown, InPlay
  <2>12. Marked(k)'
    <3>0. away \in [Window -> SUBSET Workspace] BY <1>1 DEF RestOK
    <3>1. \A w \in Window : k \in away'[w] => k \in away[w]
          \/ (w = m.from /\ m.reply = "accepted" /\ m.src)
      BY <3>0, <1>3, <1>d
    <3>2. m.reply = "accepted" /\ m.src => Busy(m) \/ m.event # "none" BY <1>0 DEF Parties
    <3>3. ASSUME NEW w \in Window, k \in away'[w]
          PROVE  \E i \in Of(k)' : i.src /\ i.from = w /\ (Busy(i) \/ i.event # "none")
      <4>1. CASE w = m.from /\ m.reply = "accepted" /\ m.src
        <5>1. InPlay(n) BY <4>1, <1>b DEF InPlay
        <5> QED BY <4>1, <5>1, <3>2, <1>5, <1>b, <1>o DEF Busy
      <4>2. CASE k \in away[w]
        <5>1. PICK i \in Of(k) : i.src /\ i.from = w /\ (Busy(i) \/ i.event # "none")
          BY <4>2, <2>a DEF Marked
        <5>2. CASE i # m BY <5>1, <5>2, <1>o
        <5>3. CASE i = m
          <6>1. m.reply = "accepted" BY <5>1, <5>3, <1>0, <1>3, <1>g, MoveFields DEF Parties, Busy
          <6>2. InPlay(n) BY <5>1, <5>3, <6>1, <1>b DEF InPlay
          <6> QED BY <5>1, <5>3, <6>1, <6>2, <1>5, <1>b, <1>o DEF Busy
        <5> QED BY <5>2, <5>3
      <4> QED BY <3>1, <3>3, <4>1, <4>2
    <3>4. ASSUME NEW i \in Of(k)', i.host = "journaled" PROVE k \notin away'[i.from]
      <4>1. i \in Of(k) /\ i # m BY <3>4, <1>0, <1>5, <1>g, <1>o DEF Parties, Of
      <4>2. k \notin away[i.from] /\ i.from \in Window
        BY <3>4, <4>1, <1>1, <2>a, MoveFields DEF Marked, Of, MovesOK
      <4>3. ~(i.from = m.from /\ m.src)
        <5> SUFFICES ASSUME i.from = m.from, m.src PROVE FALSE OBVIOUS
        <5>1. i.src BY <3>4, <4>1, <1>0, <1>g DEF Parties, Busy, Of
        <5> QED BY <4>1, <5>1, <1>0, <1>o DEF Single, Of
      <4> QED BY <4>2, <4>3, <3>1
    <3> QED BY <3>3, <3>4 DEF Marked
  <2>13. Awaited(k)'
    BY <1>0, <1>3, <1>5, <1>d, <1>g, <1>k, <1>o, <1>u, <2>a DEF Awaited, Busy, Shown, InPlay
  <2> QED BY <2>1, <2>2, <2>3, <2>4, <2>5, <2>6, <2>7, <2>8, <2>9, <2>10, <2>11, <2>12, <2>13
<1>13. EndedOK(k)'
  BY <1>0, <1>3, <1>5, <1>d, <1>g, <1>k, <1>o, <1>u DEF Fates, EndedOK, Busy, Shown, InPlay,
     Parties
<1>14. Fates' BY <1>11, <1>12, <1>13, <1>k DEF Fates
<1> QED BY <1>6, <1>7, <1>8, <1>9, <1>10, <1>14 DEF JInv

LEMMA MountKeeps ==
    ASSUME JInv, NEW m \in moves, Mount(m)
    PROVE  JInv'
<1>0. Typed /\ Closed /\ CaughtUp /\ Parties /\ Single /\ Fates BY DEF JInv
<1>1. RestOK /\ Known /\ DiskOK(disk) /\ MovesOK(moves) BY <1>0 DEF Typed
<1>2. PICK n : Moved(m, n) /\ MountFields(m, n) BY <1>0, MountEffect
<1>3. MoveOK(m) /\ m.ws \in Workspace /\ m.from \in Window /\ m.to \in Window /\ m.from # m.to
  BY <1>1, MoveFields DEF MovesOK, MoveOK
<1>4. \A j : j \in moves' <=> (j = n /\ InPlay(n)) \/ (j \in moves /\ j # m)
  BY <1>1, <1>2 DEF Moved, MovesOK, MoveOK
<1>5. n.ws = m.ws /\ n.from = m.from /\ n.to = m.to /\ n.host = m.host /\ n.content = m.content
      /\ n.src = m.src /\ n.reply = m.reply /\ n.event = m.event /\ n.tgt = "mounted"
      /\ n.previous = m.previous
  BY <1>2 DEF Moved, MountFields
<1>6. Typed' BY <1>0, MountTyped
<1>g. m.host = "queued" /\ m.content /\ m.to \in open /\ m.tgt = "none"
      /\ \A i \in moves : i.ws = m.ws =>
            (i.to = m.to => i.tgt \in {"none", "over"}) /\ (i.from = m.to => i.event = "none")
  BY DEF Mount
<1>u. open' = open /\ active' = active /\ closing' = closing /\ removed' = removed
      /\ away' = away /\ leaving' = leaving /\ saves' = saves /\ home' = home /\ fate' = fate
  BY DEF Mount, ghost, webview
<1>d. /\ disk' = disk
      /\ \/ records' = records /\ dirty' = dirty
         \/ /\ records' = [records EXCEPT ![m.to] = @ \cup {m.ws} \cup leaving[m.to]]
            /\ dirty' = [dirty EXCEPT ![m.to] = TRUE]
  BY DEF Mount
<1>s. disk'.snap = disk.snap BY <1>d
<1>7. Closed'
  <2>1. \A w \in Window : w # m.to => records'[w] = records[w] /\ dirty'[w] = dirty[w]
    BY <1>1, <1>d DEF RestOK
  <2> QED BY <1>0, <1>g, <1>s, <1>u, <2>1 DEF Closed
<1>8. CaughtUp'
  <2>1. \A w : Latest(w)' = Latest(w) BY <1>s, <1>u, LatestSame
  <2> QED BY <1>0, <1>1, <1>3, <1>d, <1>g, <1>u, <2>1 DEF CaughtUp, RestOK
<1>9. Parties' BY <1>0, <1>1, <1>3, <1>4, <1>5, <1>g, <1>u DEF Parties, Busy, Shown, RestOK
<1>10. Single' BY <1>0, <1>4, <1>5, <1>g, <1>u DEF Single, Shown
<1>11. ASSUME NEW k \in Workspace, k # m.ws PROVE LiveOK(k)' /\ EndedOK(k)'
  <2>0. records \in [Window -> SUBSET Workspace] BY <1>1 DEF RestOK
  <2>1. \A w \in Window : /\ k \in records[w] => k \in records'[w]
                          /\ k \in records'[w] => k \in records[w] \/ leaving[w] # {}
    BY <2>0, <1>3, <1>11, <1>d
  <2>2. Untouched(k) BY <1>3, <1>4, <1>5, <1>11, <1>d, <1>u, <2>1 DEF Untouched
  <2> QED BY <1>0, <2>2, UntouchedKept DEF Fates
<1>k. PICK k \in Workspace : k = m.ws BY <1>3
<1>o. m \in Of(k) /\ \A j : j \in Of(k)' <=> (j = n /\ InPlay(n)) \/ (j \in Of(k) /\ j # m)
  BY <1>4, <1>5, <1>k DEF Of
<1>12. LiveOK(k)'
  <2> SUFFICES ASSUME Live(k)
               PROVE OneBusy(k)' /\ Journaled(k)' /\ Recorded(k)' /\ Earlier(k)' /\ Placed(k)'
                     /\ Elsewhere(k)' /\ NotBack(k)' /\ ShownAt(k)' /\ AtHome(k)' /\ Fated(k)'
                     /\ Unhurried(k)' /\ Marked(k)' /\ Awaited(k)'
    BY <1>u DEF Live, LiveOK
  <2>a. OneBusy(k) /\ Journaled(k) /\ Recorded(k) /\ Earlier(k) /\ Placed(k) /\ Elsewhere(k)
        /\ NotBack(k) /\ ShownAt(k) /\ AtHome(k) /\ Fated(k) /\ Unhurried(k) /\ Marked(k)
        /\ Awaited(k)
    BY <1>0 DEF Fates, LiveOK
  <2>b. \A i \in Of(k) : Busy(i) => i = m BY <2>a, <1>o, <1>g DEF OneBusy, Busy
  <2>c. home[k] = m.from BY <2>a, <1>o, <1>g DEF Placed
  <2>d. ~\E i \in Of(k) : i.host = "adopting" BY <2>b, <1>g DEF Busy
  <2>e. InPlay(n) BY <1>5, <1>g DEF InPlay
  <2>f. \A w \in Window : /\ k \in records[w] => k \in records'[w]
                          /\ k \in records'[w] => k \in records[w] \/ w = m.to
    BY <1>1, <1>3, <1>d DEF RestOK
  <2>g. m.event = "none" BY <1>0, <1>g DEF Parties
  <2>1. OneBusy(k)'
    BY <1>0, <1>3, <1>5, <1>d, <1>g, <1>k, <1>o, <1>u, <2>a DEF OneBusy, Busy, Shown, InPlay
  <2>2. Journaled(k)'
    BY <1>0, <1>3, <1>5, <1>d, <1>g, <1>k, <1>o, <1>u, <2>a DEF Journaled, Busy, Shown, InPlay
  <2>3. Recorded(k)'
    BY <1>0, <1>3, <1>5, <1>d, <1>g, <1>k, <1>o, <1>u, <2>a DEF Recorded, Busy, Shown, InPlay
  <2>4. Earlier(k)'
    BY <1>0, <1>3, <1>5, <1>d, <1>g, <1>k, <1>o, <1>u, <2>a DEF Earlier, Busy, Shown, InPlay
  <2>5. Placed(k)'
    BY <1>0, <1>3, <1>5, <1>d, <1>g, <1>k, <1>o, <1>u, <2>a DEF Placed, Busy, Shown, InPlay
  <2>6. Elsewhere(k)' BY <1>3, <1>5, <1>o, <1>u, <2>a, <2>c, <2>d DEF Elsewhere, Shown
  <2>7. NotBack(k)'
    <3>1. \A i \in Of(k) : Shown(i) => i.to # m.from BY <2>a, <1>o, <1>g DEF NotBack, Busy
    <3>2. \A j \in Of(k)' : Busy(j) => j = n BY <1>o, <2>b
    <3>3. \A j \in Of(k)' : j.event # "none" => j \in Of(k) /\ j # m /\ j.from # m.to
      BY <1>5, <1>g, <1>k, <1>o, <2>g DEF Of
    <3>4. \A i \in Of(k)' : i = n \/ i \in Of(k) BY <1>o
    <3>5. ASSUME NEW j \in Of(k)', Busy(j) \/ j.event # "none", NEW i \in Of(k)', Shown(i)
          PROVE i.to # j.from
      <4>1. CASE Busy(j) BY <3>1, <3>2, <3>4, <3>5, <4>1, <1>3, <1>5
      <4>2. CASE j.event # "none" BY <3>3, <3>4, <3>5, <4>2, <1>5, <2>a DEF NotBack
      <4> QED BY <3>5, <4>1, <4>2
    <3>6. \A j \in Of(k)' : j.event = "departed" => home'[k] # j.from
      BY <3>3, <1>u, <2>a DEF NotBack
    <3> QED BY <3>5, <3>6 DEF NotBack
  <2>8. ShownAt(k)'
    <3> SUFFICES ASSUME NEW w \in Window, k \in records'[w], w # home[k], leaving[w] = {}
                 PROVE  \/ \E i \in Of(k)' : i.to = w /\ Shown(i)
                        \/ \E i \in Of(k)' : i.from = w
                             /\ (i.host = "adopting" \/ i.event = "departed")
      BY <1>u DEF ShownAt
    <3>1. CASE w = m.to BY <3>1, <1>5, <1>o, <2>e DEF Shown
    <3>2. CASE w # m.to
      <4>1. \/ \E i \in Of(k) : i.to = w /\ Shown(i)
            \/ \E i \in Of(k) : i.from = w /\ (i.host = "adopting" \/ i.event = "departed")
        BY <3>2, <2>a, <2>f DEF ShownAt
      <4> QED BY <4>1, <1>g, <1>o, <2>g DEF Shown
    <3> QED BY <3>1, <3>2
  <2>9. AtHome(k)'
    <3>1. home[k] \in Window BY <1>1 DEF RestOK
    <3> QED BY <3>1, <1>d, <1>u, <2>a, <2>d, <2>f DEF AtHome
  <2>10. Fated(k)'
    BY <1>0, <1>3, <1>5, <1>d, <1>g, <1>k, <1>o, <1>u, <2>a DEF Fated, Busy, Shown, InPlay
  <2>11. Unhurried(k)'
    BY <1>0, <1>3, <1>5, <1>d, <1>g, <1>k, <1>o, <1>u, <2>a DEF Unhurried, Busy, Shown, InPlay
  <2>12. Marked(k)'
    BY <1>0, <1>3, <1>5, <1>d, <1>g, <1>k, <1>o, <1>u, <2>a DEF Marked, Busy, Shown, InPlay
  <2>13. Awaited(k)'
    BY <1>0, <1>3, <1>5, <1>d, <1>g, <1>k, <1>o, <1>u, <2>a DEF Awaited, Busy, Shown, InPlay
  <2> QED BY <2>1, <2>2, <2>3, <2>4, <2>5, <2>6, <2>7, <2>8, <2>9, <2>10, <2>11, <2>12, <2>13
<1>13. EndedOK(k)'
  BY <1>0, <1>3, <1>5, <1>d, <1>g, <1>k, <1>o, <1>u DEF Fates, EndedOK, Busy, Shown, InPlay,
     Parties
<1>14. Fates' BY <1>11, <1>12, <1>13, <1>k DEF Fates
<1> QED BY <1>6, <1>7, <1>8, <1>9, <1>10, <1>14 DEF JInv

LEMMA AdoptFailedKeeps ==
    ASSUME JInv, NEW m \in moves, AdoptFailed(m)
    PROVE  JInv'
<1>0. Typed /\ Closed /\ CaughtUp /\ Parties /\ Single /\ Fates BY DEF JInv
<1>1. RestOK /\ Known /\ DiskOK(disk) /\ MovesOK(moves) BY <1>0 DEF Typed
<1>2. PICK n : Moved(m, n) /\ AdoptFailedFields(m, n) BY <1>0, AdoptFailedEffect
<1>3. MoveOK(m) /\ m.ws \in Workspace /\ m.from \in Window /\ m.to \in Window /\ m.from # m.to
  BY <1>1, MoveFields DEF MovesOK, MoveOK
<1>4. \A j : j \in moves' <=> (j = n /\ InPlay(n)) \/ (j \in moves /\ j # m)
  BY <1>1, <1>2 DEF Moved, MovesOK, MoveOK
<1>5. n.ws = m.ws /\ n.from = m.from /\ n.to = m.to /\ n.host = "returning"
      /\ n.content = m.content /\ n.src = m.src /\ n.reply = m.reply /\ n.event = m.event
      /\ n.tgt = "over" /\ n.previous = m.previous
  BY <1>2 DEF Moved, AdoptFailedFields
<1>6. Typed' BY <1>0, AdoptFailedTyped
<1>g. m.host = "queued" /\ m.to \in open /\ m.tgt = "none" BY DEF AdoptFailed
<1>u. open' = open /\ active' = active /\ closing' = closing /\ removed' = removed
      /\ records' = records /\ away' = away /\ leaving' = leaving /\ dirty' = dirty
      /\ saves' = saves /\ home' = home /\ fate' = fate
  BY DEF AdoptFailed, ghost, webview
<1>d. disk' = disk BY DEF AdoptFailed
<1>s. disk'.snap = disk.snap BY <1>d
<1>7. Closed' BY <1>0, <1>1, <1>3, <1>d, <1>g, <1>s, <1>u DEF Closed, RestOK
<1>8. CaughtUp'
  <2>1. \A w : Latest(w)' = Latest(w) BY <1>s, <1>u, LatestSame
  <2> QED BY <1>0, <1>1, <1>3, <1>d, <1>g, <1>u, <2>1 DEF CaughtUp, RestOK
<1>9. Parties' BY <1>0, <1>1, <1>3, <1>4, <1>5, <1>g, <1>u DEF Parties, Busy, Shown, RestOK
<1>10. Single' BY <1>0, <1>4, <1>5, <1>g, <1>u DEF Single, Shown
<1>11. ASSUME NEW k \in Workspace, k # m.ws PROVE LiveOK(k)' /\ EndedOK(k)'
  <2>1. \A r : r.ws = k => (r \in disk'.journal <=> r \in disk.journal)
    BY <1>d
  <2>2. Untouched(k) BY <1>1, <1>3, <1>4, <1>5, <1>11, <1>d, <1>u, <2>1 DEF Untouched, RestOK
  <2> QED BY <1>0, <2>2, UntouchedKept DEF Fates
<1>k. PICK k \in Workspace : k = m.ws BY <1>3
<1>o. m \in Of(k) /\ \A j : j \in Of(k)' <=> (j = n /\ InPlay(n)) \/ (j \in Of(k) /\ j # m)
  BY <1>4, <1>5, <1>k DEF Of
<1>12. LiveOK(k)'
  <2> SUFFICES ASSUME Live(k)
               PROVE OneBusy(k)' /\ Journaled(k)' /\ Recorded(k)' /\ Earlier(k)' /\ Placed(k)'
                     /\ Elsewhere(k)' /\ NotBack(k)' /\ ShownAt(k)' /\ AtHome(k)' /\ Fated(k)'
                     /\ Unhurried(k)' /\ Marked(k)' /\ Awaited(k)'
    BY <1>u DEF Live, LiveOK
  <2>a. OneBusy(k) /\ Journaled(k) /\ Recorded(k) /\ Earlier(k) /\ Placed(k) /\ Elsewhere(k)
        /\ NotBack(k) /\ ShownAt(k) /\ AtHome(k) /\ Fated(k) /\ Unhurried(k) /\ Marked(k)
        /\ Awaited(k)
    BY <1>0 DEF Fates, LiveOK
  <2>1. OneBusy(k)'
    BY <1>0, <1>3, <1>5, <1>d, <1>g, <1>k, <1>o, <1>u, <2>a DEF OneBusy, Busy, Shown, InPlay
  <2>2. Journaled(k)'
    BY <1>0, <1>3, <1>5, <1>d, <1>g, <1>k, <1>o, <1>u, <2>a DEF Journaled, Busy, Shown, InPlay
  <2>3. Recorded(k)'
    BY <1>0, <1>3, <1>5, <1>d, <1>g, <1>k, <1>o, <1>u, <2>a DEF Recorded, Busy, Shown, InPlay
  <2>4. Earlier(k)'
    BY <1>0, <1>3, <1>5, <1>d, <1>g, <1>k, <1>o, <1>u, <2>a DEF Earlier, Busy, Shown, InPlay
  <2>5. Placed(k)'
    BY <1>0, <1>3, <1>5, <1>d, <1>g, <1>k, <1>o, <1>u, <2>a DEF Placed, Busy, Shown, InPlay
  <2>6. Elsewhere(k)'
    BY <1>0, <1>3, <1>5, <1>d, <1>g, <1>k, <1>o, <1>u, <2>a DEF Elsewhere, Busy, Shown, InPlay
  <2>7. NotBack(k)'
    BY <1>0, <1>3, <1>5, <1>d, <1>g, <1>k, <1>o, <1>u, <2>a DEF NotBack, Busy, Shown, InPlay
  <2>8. ShownAt(k)'
    BY <1>0, <1>3, <1>5, <1>d, <1>g, <1>k, <1>o, <1>u, <2>a DEF ShownAt, Busy, Shown, InPlay
  <2>9. AtHome(k)'
    BY <1>0, <1>3, <1>5, <1>d, <1>g, <1>k, <1>o, <1>u, <2>a DEF AtHome, Busy, Shown, InPlay
  <2>10. Fated(k)'
    BY <1>0, <1>3, <1>5, <1>d, <1>g, <1>k, <1>o, <1>u, <2>a DEF Fated, Busy, Shown, InPlay
  <2>11. Unhurried(k)'
    BY <1>0, <1>3, <1>5, <1>d, <1>g, <1>k, <1>o, <1>u, <2>a DEF Unhurried, Busy, Shown, InPlay
  <2>12. Marked(k)'
    BY <1>0, <1>3, <1>5, <1>d, <1>g, <1>k, <1>o, <1>u, <2>a DEF Marked, Busy, Shown, InPlay
  <2>13. Awaited(k)'
    BY <1>0, <1>3, <1>5, <1>d, <1>g, <1>k, <1>o, <1>u, <2>a DEF Awaited, Busy, Shown, InPlay
  <2> QED BY <2>1, <2>2, <2>3, <2>4, <2>5, <2>6, <2>7, <2>8, <2>9, <2>10, <2>11, <2>12, <2>13
<1>13. EndedOK(k)'
  BY <1>0, <1>3, <1>5, <1>d, <1>g, <1>k, <1>o, <1>u DEF Fates, EndedOK, Busy, Shown, InPlay,
     Parties
<1>14. Fates' BY <1>11, <1>12, <1>13, <1>k DEF Fates
<1> QED BY <1>6, <1>7, <1>8, <1>9, <1>10, <1>14 DEF JInv

LEMMA DiscardArrivalKeeps ==
    ASSUME JInv, NEW m \in moves, DiscardArrival(m)
    PROVE  JInv'
<1>0. Typed /\ Closed /\ CaughtUp /\ Parties /\ Single /\ Fates BY DEF JInv
<1>1. RestOK /\ Known /\ DiskOK(disk) /\ MovesOK(moves) BY <1>0 DEF Typed
<1>2. PICK n : Moved(m, n) /\ DiscardArrivalFields(m, n) BY <1>0, DiscardArrivalEffect
<1>3. MoveOK(m) /\ m.ws \in Workspace /\ m.from \in Window /\ m.to \in Window /\ m.from # m.to
  BY <1>1, MoveFields DEF MovesOK, MoveOK
<1>4. \A j : j \in moves' <=> (j = n /\ InPlay(n)) \/ (j \in moves /\ j # m)
  BY <1>1, <1>2 DEF Moved, MovesOK, MoveOK
<1>5. n.ws = m.ws /\ n.from = m.from /\ n.to = m.to /\ n.host = m.host /\ n.content = m.content
      /\ n.src = m.src /\ n.reply = m.reply /\ n.event = m.event /\ n.tgt = "over"
      /\ n.previous = m.previous
  BY <1>2 DEF Moved, DiscardArrivalFields
<1>6. Typed' BY <1>0, DiscardArrivalTyped
<1>g. m.tgt = "refused" /\ m.to \in open BY DEF DiscardArrival
<1>u. open' = open /\ active' = active /\ closing' = closing /\ removed' = removed
      /\ away' = away /\ leaving' = leaving /\ saves' = saves /\ home' = home /\ fate' = fate
  BY DEF DiscardArrival, ghost, webview
<1>d. disk' = disk /\ records' = [records EXCEPT ![m.to] = @ \ {m.ws}]
      /\ dirty' = [dirty EXCEPT ![m.to] = TRUE]
  BY DEF DiscardArrival
<1>s. disk'.snap = disk.snap BY <1>d
<1>b. \A w \in Window, j \in Workspace : j \in records'[w] <=> j \in records[w]
      /\ ~(w = m.to /\ j = m.ws)
  BY <1>1, <1>3, <1>d DEF RestOK
<1>7. Closed' BY <1>0, <1>1, <1>3, <1>d, <1>g, <1>s, <1>u DEF Closed, RestOK
<1>8. CaughtUp'
  <2>1. \A w : Latest(w)' = Latest(w) BY <1>s, <1>u, LatestSame
  <2> QED BY <1>0, <1>1, <1>3, <1>d, <1>g, <1>u, <2>1 DEF CaughtUp, RestOK
<1>9. Parties' BY <1>0, <1>1, <1>3, <1>4, <1>5, <1>g, <1>u DEF Parties, Busy, Shown, RestOK
<1>10. Single' BY <1>0, <1>4, <1>5, <1>g, <1>u DEF Single, Shown
<1>11. ASSUME NEW k \in Workspace, k # m.ws PROVE LiveOK(k)' /\ EndedOK(k)'
  <2>1. \A r : r.ws = k => (r \in disk'.journal <=> r \in disk.journal)
    BY <1>d
  <2>2. Untouched(k) BY <1>1, <1>3, <1>4, <1>5, <1>11, <1>d, <1>u, <2>1 DEF Untouched, RestOK
  <2> QED BY <1>0, <2>2, UntouchedKept DEF Fates
<1>k. PICK k \in Workspace : k = m.ws BY <1>3
<1>o. m \in Of(k) /\ \A j : j \in Of(k)' <=> (j = n /\ InPlay(n)) \/ (j \in Of(k) /\ j # m)
  BY <1>4, <1>5, <1>k DEF Of
<1>12. LiveOK(k)'
  <2> SUFFICES ASSUME Live(k)
               PROVE OneBusy(k)' /\ Journaled(k)' /\ Recorded(k)' /\ Earlier(k)' /\ Placed(k)'
                     /\ Elsewhere(k)' /\ NotBack(k)' /\ ShownAt(k)' /\ AtHome(k)' /\ Fated(k)'
                     /\ Unhurried(k)' /\ Marked(k)' /\ Awaited(k)'
    BY <1>u DEF Live, LiveOK
  <2>a. OneBusy(k) /\ Journaled(k) /\ Recorded(k) /\ Earlier(k) /\ Placed(k) /\ Elsewhere(k)
        /\ NotBack(k) /\ ShownAt(k) /\ AtHome(k) /\ Fated(k) /\ Unhurried(k) /\ Marked(k)
        /\ Awaited(k)
    BY <1>0 DEF Fates, LiveOK
  <2>1. OneBusy(k)'
    BY <1>0, <1>3, <1>5, <1>d, <1>g, <1>k, <1>o, <1>u, <2>a DEF OneBusy, Busy, Shown, InPlay
  <2>2. Journaled(k)'
    BY <1>0, <1>3, <1>5, <1>d, <1>g, <1>k, <1>o, <1>u, <2>a DEF Journaled, Busy, Shown, InPlay
  <2>3. Recorded(k)'
    BY <1>0, <1>3, <1>5, <1>d, <1>g, <1>k, <1>o, <1>u, <2>a DEF Recorded, Busy, Shown, InPlay
  <2>4. Earlier(k)'
    BY <1>0, <1>3, <1>5, <1>d, <1>g, <1>k, <1>o, <1>u, <2>a DEF Earlier, Busy, Shown, InPlay
  <2>5. Placed(k)'
    BY <1>0, <1>3, <1>5, <1>d, <1>g, <1>k, <1>o, <1>u, <2>a DEF Placed, Busy, Shown, InPlay
  <2>6. Elsewhere(k)'
    BY <1>0, <1>3, <1>5, <1>d, <1>g, <1>k, <1>o, <1>u, <2>a DEF Elsewhere, Busy, Shown, InPlay
  <2>7. NotBack(k)'
    BY <1>0, <1>3, <1>5, <1>d, <1>g, <1>k, <1>o, <1>u, <2>a DEF NotBack, Busy, Shown, InPlay
  <2>8. ShownAt(k)'
    <3> SUFFICES ASSUME NEW w \in Window, k \in records'[w], w # home[k], leaving[w] = {}
                 PROVE  \/ \E i \in Of(k)' : i.to = w /\ Shown(i)
                        \/ \E i \in Of(k)' : i.from = w
                             /\ (i.host = "adopting" \/ i.event = "departed")
      BY <1>u DEF ShownAt
    <3>1. w # m.to /\ k \in records[w] BY <1>b, <1>k
    <3>2. CASE \E i \in Of(k) : i.to = w /\ Shown(i) BY <3>1, <3>2, <1>o
    <3>3. CASE \E i \in Of(k) : i.from = w /\ (i.host = "adopting" \/ i.event = "departed")
      <4>1. PICK i \in Of(k) : i.from = w /\ (i.host = "adopting" \/ i.event = "departed") BY <3>3
      <4>2. CASE i # m BY <4>1, <4>2, <1>o
      <4>3. CASE i = m BY <4>1, <4>3, <1>5, <1>o DEF InPlay
      <4> QED BY <4>2, <4>3
    <3> QED BY <3>1, <3>2, <3>3, <2>a DEF ShownAt
  <2>9. AtHome(k)'
    <3>1. home[k] \in Window BY <1>1 DEF RestOK
    <3>2. home[k] # m.to BY <1>g, <1>o, <2>a DEF Elsewhere, Shown
    <3>3. (\E i \in Of(k) : i.host = "adopting") => \E i \in Of(k)' : i.host = "adopting"
      BY <1>5, <1>o DEF InPlay
    <3> QED BY <3>1, <3>2, <3>3, <1>b, <1>d, <1>u, <2>a DEF AtHome
  <2>10. Fated(k)'
    BY <1>0, <1>3, <1>5, <1>d, <1>g, <1>k, <1>o, <1>u, <2>a DEF Fated, Busy, Shown, InPlay
  <2>11. Unhurried(k)'
    BY <1>0, <1>3, <1>5, <1>d, <1>g, <1>k, <1>o, <1>u, <2>a DEF Unhurried, Busy, Shown, InPlay
  <2>12. Marked(k)'
    BY <1>0, <1>3, <1>5, <1>d, <1>g, <1>k, <1>o, <1>u, <2>a DEF Marked, Busy, Shown, InPlay
  <2>13. Awaited(k)'
    BY <1>0, <1>3, <1>5, <1>d, <1>g, <1>k, <1>o, <1>u, <2>a DEF Awaited, Busy, Shown, InPlay
  <2> QED BY <2>1, <2>2, <2>3, <2>4, <2>5, <2>6, <2>7, <2>8, <2>9, <2>10, <2>11, <2>12, <2>13
<1>13. EndedOK(k)'
  <2> SUFFICES ASSUME fate[k] = "ended" PROVE EndedOK(k)' BY <1>u DEF EndedOK
  <2>1. EndedOK(k) BY <1>0 DEF Fates
  <2>2. ASSUME NEW w \in Window, k \in records'[w], w \notin closing, leaving[w] = {}
        PROVE  \/ \E i \in Of(k)' : i.to = w /\ Shown(i)
               \/ \E i \in Of(k)' : i.from = w /\ i.event = "departed"
    <3>1. w # m.to /\ k \in records[w] BY <2>2, <1>b, <1>k
    <3>2. CASE \E i \in Of(k) : i.to = w /\ Shown(i) BY <3>1, <3>2, <1>o
    <3>3. CASE \E i \in Of(k) : i.from = w /\ i.event = "departed"
      <4>1. PICK i \in Of(k) : i.from = w /\ i.event = "departed" BY <3>3
      <4>2. CASE i # m BY <4>1, <4>2, <1>o
      <4>3. CASE i = m BY <4>1, <4>3, <1>5, <1>o DEF InPlay
      <4> QED BY <4>2, <4>3
    <3> QED BY <2>2, <3>1, <3>2, <3>3, <2>1 DEF EndedOK
  <2>3. \A i \in Of(k)' : ~Busy(i) BY <1>5, <1>o, <2>1 DEF EndedOK, Busy
  <2> QED BY <2>1, <2>2, <2>3, <1>d, <1>u DEF EndedOK
<1>14. Fates' BY <1>11, <1>12, <1>13, <1>k DEF Fates
<1> QED BY <1>6, <1>7, <1>8, <1>9, <1>10, <1>14 DEF JInv

LEMMA ExpireKeeps ==
    ASSUME JInv, NEW m \in moves, Expire(m)
    PROVE  JInv'
<1>0. Typed /\ Closed /\ CaughtUp /\ Parties /\ Single /\ Fates BY DEF JInv
<1>1. RestOK /\ Known /\ DiskOK(disk) /\ MovesOK(moves) BY <1>0 DEF Typed
<1>2. PICK n : Moved(m, n) /\ ExpireFields(m, n) BY <1>0, ExpireEffect
<1>3. MoveOK(m) /\ m.ws \in Workspace /\ m.from \in Window /\ m.to \in Window /\ m.from # m.to
  BY <1>1, MoveFields DEF MovesOK, MoveOK
<1>4. \A j : j \in moves' <=> (j = n /\ InPlay(n)) \/ (j \in moves /\ j # m)
  BY <1>1, <1>2 DEF Moved, MovesOK, MoveOK
<1>5. n.ws = m.ws /\ n.from = m.from /\ n.to = m.to /\ n.host = "returning"
      /\ n.content = m.content /\ n.src = m.src /\ n.reply = m.reply /\ n.event = m.event
      /\ n.tgt = m.tgt /\ n.previous = m.previous
  BY <1>2 DEF Moved, ExpireFields
<1>6. Typed' BY <1>0, ExpireTyped
<1>g. m.host = "queued" BY DEF Expire
<1>u. open' = open /\ active' = active /\ closing' = closing /\ removed' = removed
      /\ records' = records /\ away' = away /\ leaving' = leaving /\ dirty' = dirty
      /\ saves' = saves /\ home' = home /\ fate' = fate
  BY DEF Expire, ghost, webview
<1>d. disk' = disk BY DEF Expire
<1>s. disk'.snap = disk.snap BY <1>d
<1>7. Closed' BY <1>0, <1>1, <1>3, <1>d, <1>g, <1>s, <1>u DEF Closed, RestOK
<1>8. CaughtUp'
  <2>1. \A w : Latest(w)' = Latest(w) BY <1>s, <1>u, LatestSame
  <2> QED BY <1>0, <1>1, <1>3, <1>d, <1>g, <1>u, <2>1 DEF CaughtUp, RestOK
<1>9. Parties' BY <1>0, <1>1, <1>3, <1>4, <1>5, <1>g, <1>u DEF Parties, Busy, Shown, RestOK
<1>10. Single' BY <1>0, <1>4, <1>5, <1>g, <1>u DEF Single, Shown
<1>11. ASSUME NEW k \in Workspace, k # m.ws PROVE LiveOK(k)' /\ EndedOK(k)'
  <2>1. \A r : r.ws = k => (r \in disk'.journal <=> r \in disk.journal)
    BY <1>d
  <2>2. Untouched(k) BY <1>1, <1>3, <1>4, <1>5, <1>11, <1>d, <1>u, <2>1 DEF Untouched, RestOK
  <2> QED BY <1>0, <2>2, UntouchedKept DEF Fates
<1>k. PICK k \in Workspace : k = m.ws BY <1>3
<1>o. m \in Of(k) /\ \A j : j \in Of(k)' <=> (j = n /\ InPlay(n)) \/ (j \in Of(k) /\ j # m)
  BY <1>4, <1>5, <1>k DEF Of
<1>12. LiveOK(k)'
  <2> SUFFICES ASSUME Live(k)
               PROVE OneBusy(k)' /\ Journaled(k)' /\ Recorded(k)' /\ Earlier(k)' /\ Placed(k)'
                     /\ Elsewhere(k)' /\ NotBack(k)' /\ ShownAt(k)' /\ AtHome(k)' /\ Fated(k)'
                     /\ Unhurried(k)' /\ Marked(k)' /\ Awaited(k)'
    BY <1>u DEF Live, LiveOK
  <2>a. OneBusy(k) /\ Journaled(k) /\ Recorded(k) /\ Earlier(k) /\ Placed(k) /\ Elsewhere(k)
        /\ NotBack(k) /\ ShownAt(k) /\ AtHome(k) /\ Fated(k) /\ Unhurried(k) /\ Marked(k)
        /\ Awaited(k)
    BY <1>0 DEF Fates, LiveOK
  <2>1. OneBusy(k)'
    BY <1>0, <1>3, <1>5, <1>d, <1>g, <1>k, <1>o, <1>u, <2>a DEF OneBusy, Busy, Shown, InPlay
  <2>2. Journaled(k)'
    BY <1>0, <1>3, <1>5, <1>d, <1>g, <1>k, <1>o, <1>u, <2>a DEF Journaled, Busy, Shown, InPlay
  <2>3. Recorded(k)'
    BY <1>0, <1>3, <1>5, <1>d, <1>g, <1>k, <1>o, <1>u, <2>a DEF Recorded, Busy, Shown, InPlay
  <2>4. Earlier(k)'
    BY <1>0, <1>3, <1>5, <1>d, <1>g, <1>k, <1>o, <1>u, <2>a DEF Earlier, Busy, Shown, InPlay
  <2>5. Placed(k)'
    BY <1>0, <1>3, <1>5, <1>d, <1>g, <1>k, <1>o, <1>u, <2>a DEF Placed, Busy, Shown, InPlay
  <2>6. Elsewhere(k)'
    BY <1>0, <1>3, <1>5, <1>d, <1>g, <1>k, <1>o, <1>u, <2>a DEF Elsewhere, Busy, Shown, InPlay
  <2>7. NotBack(k)'
    BY <1>0, <1>3, <1>5, <1>d, <1>g, <1>k, <1>o, <1>u, <2>a DEF NotBack, Busy, Shown, InPlay
  <2>8. ShownAt(k)'
    BY <1>0, <1>3, <1>5, <1>d, <1>g, <1>k, <1>o, <1>u, <2>a DEF ShownAt, Busy, Shown, InPlay
  <2>9. AtHome(k)'
    BY <1>0, <1>3, <1>5, <1>d, <1>g, <1>k, <1>o, <1>u, <2>a DEF AtHome, Busy, Shown, InPlay
  <2>10. Fated(k)'
    BY <1>0, <1>3, <1>5, <1>d, <1>g, <1>k, <1>o, <1>u, <2>a DEF Fated, Busy, Shown, InPlay
  <2>11. Unhurried(k)'
    BY <1>0, <1>3, <1>5, <1>d, <1>g, <1>k, <1>o, <1>u, <2>a DEF Unhurried, Busy, Shown, InPlay
  <2>12. Marked(k)'
    BY <1>0, <1>3, <1>5, <1>d, <1>g, <1>k, <1>o, <1>u, <2>a DEF Marked, Busy, Shown, InPlay
  <2>13. Awaited(k)'
    BY <1>0, <1>3, <1>5, <1>d, <1>g, <1>k, <1>o, <1>u, <2>a DEF Awaited, Busy, Shown, InPlay
  <2> QED BY <2>1, <2>2, <2>3, <2>4, <2>5, <2>6, <2>7, <2>8, <2>9, <2>10, <2>11, <2>12, <2>13
<1>13. EndedOK(k)'
  BY <1>0, <1>3, <1>5, <1>d, <1>g, <1>k, <1>o, <1>u DEF Fates, EndedOK, Busy, Shown, InPlay,
     Parties
<1>14. Fates' BY <1>11, <1>12, <1>13, <1>k DEF Fates
<1> QED BY <1>6, <1>7, <1>8, <1>9, <1>10, <1>14 DEF JInv

LEMMA HandBackKeeps ==
    ASSUME JInv, NEW m \in moves, HandBack(m)
    PROVE  JInv'
<1>0. Typed /\ Closed /\ CaughtUp /\ Parties /\ Single /\ Fates BY DEF JInv
<1>1. RestOK /\ Known /\ DiskOK(disk) /\ MovesOK(moves) BY <1>0 DEF Typed
<1>2. PICK n : Moved(m, n) /\ HandBackFields(m, n) BY <1>0, HandBackEffect
<1>3. MoveOK(m) /\ m.ws \in Workspace /\ m.from \in Window /\ m.to \in Window /\ m.from # m.to
  BY <1>1, MoveFields DEF MovesOK, MoveOK
<1>4. \A j : j \in moves' <=> (j = n /\ InPlay(n)) \/ (j \in moves /\ j # m)
  BY <1>1, <1>2 DEF Moved, MovesOK, MoveOK
<1>5. n.ws = m.ws /\ n.from = m.from /\ n.to = m.to /\ n.host = "over" /\ n.content = m.content
      /\ n.src = m.src /\ n.reply = m.reply
      /\ n.event = (IF m.from \in open THEN "failed" ELSE m.event) /\ n.tgt = m.tgt
      /\ n.previous = m.previous
  BY <1>2 DEF Moved, HandBackFields
<1>6. Typed' BY <1>0, HandBackTyped
<1>g. m.host = "returning" BY DEF HandBack
<1>u. open' = open /\ active' = active /\ closing' = closing /\ removed' = removed
      /\ records' = records /\ away' = away /\ leaving' = leaving /\ dirty' = dirty
      /\ saves' = saves /\ home' = home /\ fate' = fate
  BY DEF HandBack, ghost, webview
<1>d. disk' = IF m.from \in open THEN RetireSaved(Return(disk, m)) ELSE Forget(disk, m.ws)
  BY DEF HandBack
<1>s. disk'.snap = disk.snap
  BY <1>1, <1>3, <1>d, MoveFields, RetireSavedFacts, ReturnFacts, ForgetFacts DEF DiskOK
<1>7. Closed' BY <1>0, <1>1, <1>3, <1>d, <1>g, <1>s, <1>u DEF Closed, RestOK
<1>8. CaughtUp'
  <2>1. \A w : Latest(w)' = Latest(w) BY <1>s, <1>u, LatestSame
  <2> QED BY <1>0, <1>1, <1>3, <1>d, <1>g, <1>u, <2>1 DEF CaughtUp, RestOK
<1>9. Parties' BY <1>0, <1>1, <1>3, <1>4, <1>5, <1>g, <1>u DEF Parties, Busy, Shown, RestOK
<1>10. Single' BY <1>0, <1>4, <1>5, <1>g, <1>u DEF Single, Shown
<1>11. ASSUME NEW k \in Workspace, k # m.ws PROVE LiveOK(k)' /\ EndedOK(k)'
  <2>1. /\ \A r \in disk'.journal : r.ws = k => r \in disk.journal
        /\ \A r \in disk.journal : r.ws = k
             /\ (~r.settled \/ (~r.discarded /\ r.to \in removed)) => r \in disk'.journal
    <3>0. disk \in Disk /\ m \in Move /\ DOMAIN disk.snap \cap removed = {}
      BY <1>0, <1>1, <1>3 DEF DiskOK, MoveOK, Closed
    <3>1. CASE m.from \in open
      <4> DEFINE d == Return(disk, m)
      <4>1. d \in Disk /\ d.snap = disk.snap /\ disk' = RetireSaved(d)
        BY <3>0, <3>1, <1>d, ReturnFacts
      <4>2. \A r : r.ws = k => (r \in d.journal <=> r \in disk.journal)
        BY <3>0, <1>11, ReturnFacts
      <4> HIDE DEF d
      <4> QED BY <3>0, <4>1, <4>2, RetireKeeps
    <3>2. CASE m.from \notin open BY <3>0, <3>2, <1>3, <1>11, <1>d, ForgetFacts
    <3> QED BY <3>1, <3>2
  <2>2. Untouched(k) BY <1>4, <1>5, <1>11, <1>u, <2>1 DEF Untouched
  <2> QED BY <1>0, <2>2, UntouchedKept DEF Fates
<1>k. PICK k \in Workspace : k = m.ws BY <1>3
<1>o. m \in Of(k) /\ \A j : j \in Of(k)' <=> (j = n /\ InPlay(n)) \/ (j \in Of(k) /\ j # m)
  BY <1>4, <1>5, <1>k DEF Of
<1>12. LiveOK(k)'
  <2> SUFFICES ASSUME Live(k)
               PROVE OneBusy(k)' /\ Journaled(k)' /\ Recorded(k)' /\ Earlier(k)' /\ Placed(k)'
                     /\ Elsewhere(k)' /\ NotBack(k)' /\ ShownAt(k)' /\ AtHome(k)' /\ Fated(k)'
                     /\ Unhurried(k)' /\ Marked(k)' /\ Awaited(k)'
    BY <1>u DEF Live, LiveOK
  <2>a. OneBusy(k) /\ Journaled(k) /\ Recorded(k) /\ Earlier(k) /\ Placed(k) /\ Elsewhere(k)
        /\ NotBack(k) /\ ShownAt(k) /\ AtHome(k) /\ Fated(k) /\ Unhurried(k) /\ Marked(k)
        /\ Awaited(k)
    BY <1>0 DEF Fates, LiveOK
  <2>b. \A i \in Of(k) : Busy(i) => i = m BY <2>a, <1>o, <1>g DEF OneBusy, Busy
  <2>c. home[k] = m.from BY <2>a, <1>o, <1>g DEF Placed
  <2>d. ~\E i \in Of(k) : i.host = "adopting" BY <2>b, <1>g DEF Busy
  <2>e. \A r, q \in disk.journal : r.ws = q.ws => r = q BY <1>1 DEF DiskOK, Orderly
  <2>f. \E r \in disk.journal : r.ws = k /\ ~r.settled BY <2>a, <1>o, <1>g DEF Journaled, Busy
  <2>g. home[k] \in open \ removed /\ k \in records[home[k]] BY <2>a, <2>d, <2>e, <2>f DEF AtHome
  <2>h. \A r \in disk'.journal : r.ws = k => r.settled /\ ~r.discarded /\ r.to = m.from
    <3>1. disk \in Disk /\ m \in Move BY <1>1, <1>3 DEF DiskOK, MoveOK
    <3> DEFINE d == Return(disk, m)
               e == [ws |-> m.ws, from |-> m.to, to |-> m.from, settled |-> TRUE,
                   discarded |-> FALSE]
    <3>2. d \in Disk /\ disk' = RetireSaved(d) /\ \A r \in d.journal : r.ws = m.ws => r = e
      BY <3>1, <2>c, <2>g, <1>d, ReturnFacts
    <3>3. e.settled /\ ~e.discarded /\ e.to = m.from OBVIOUS
    <3> HIDE DEF d, e
    <3>4. \A r \in disk'.journal : r \in d.journal BY <3>2, RetireSavedFacts
    <3> QED BY <3>2, <3>3, <3>4, <1>k
  <2>i. \A i \in Of(k)' : ~Busy(i) BY <1>5, <1>o, <2>b DEF Busy
  <2>j. m.event = "none" BY <1>0, <1>g DEF Parties
  <2>l. n.event = "failed" /\ InPlay(n) /\ n.src
    BY <1>0, <1>5, <1>g, <2>c, <2>g DEF InPlay, Parties, Busy
  <2>1. OneBusy(k)'
    BY <1>0, <1>3, <1>5, <1>d, <1>g, <1>k, <1>o, <1>u, <2>a DEF OneBusy, Busy, Shown, InPlay
  <2>2. Journaled(k)' BY <2>i DEF Journaled
  <2>3. Recorded(k)' BY <1>u, <2>c, <2>h DEF Recorded
  <2>4. Earlier(k)'
    BY <1>0, <1>3, <1>5, <1>d, <1>g, <1>k, <1>o, <1>u, <2>a DEF Earlier, Busy, Shown, InPlay
  <2>5. Placed(k)'
    BY <1>0, <1>3, <1>5, <1>d, <1>g, <1>k, <1>o, <1>u, <2>a DEF Placed, Busy, Shown, InPlay
  <2>6. Elsewhere(k)'
    BY <1>0, <1>3, <1>5, <1>d, <1>g, <1>k, <1>o, <1>u, <2>a DEF Elsewhere, Busy, Shown, InPlay
  <2>7. NotBack(k)'
    BY <1>0, <1>3, <1>5, <1>d, <1>g, <1>k, <1>o, <1>u, <2>a DEF NotBack, Busy, Shown, InPlay
  <2>8. ShownAt(k)'
    <3> SUFFICES ASSUME NEW w \in Window, k \in records'[w], w # home[k], leaving[w] = {}
                 PROVE  \/ \E i \in Of(k)' : i.to = w /\ Shown(i)
                        \/ \E i \in Of(k)' : i.from = w
                             /\ (i.host = "adopting" \/ i.event = "departed")
      BY <1>u DEF ShownAt
    <3>1. \/ \E i \in Of(k) : i.to = w /\ Shown(i)
          \/ \E i \in Of(k) : i.from = w /\ (i.host = "adopting" \/ i.event = "departed")
      BY <1>u, <2>a DEF ShownAt
    <3>2. CASE \E i \in Of(k) : i.to = w /\ Shown(i) BY <3>2, <1>5, <1>o, <2>l DEF Shown
    <3>3. CASE \E i \in Of(k) : i.from = w /\ (i.host = "adopting" \/ i.event = "departed")
      BY <3>3, <1>o, <1>g, <2>j
    <3> QED BY <3>1, <3>2, <3>3
  <2>9. AtHome(k)' BY <1>u, <2>g DEF AtHome
  <2>10. Fated(k)'
    BY <1>0, <1>3, <1>5, <1>d, <1>g, <1>k, <1>o, <1>u, <2>a DEF Fated, Busy, Shown, InPlay
  <2>11. Unhurried(k)'
    BY <1>0, <1>3, <1>5, <1>d, <1>g, <1>k, <1>o, <1>u, <2>a DEF Unhurried, Busy, Shown, InPlay
  <2>12. Marked(k)' BY <1>5, <1>o, <1>u, <2>a, <2>i, <2>l DEF Marked, Busy
  <2>13. Awaited(k)'
    BY <1>0, <1>3, <1>5, <1>d, <1>g, <1>k, <1>o, <1>u, <2>a DEF Awaited, Busy, Shown, InPlay
  <2> QED BY <2>1, <2>2, <2>3, <2>4, <2>5, <2>6, <2>7, <2>8, <2>9, <2>10, <2>11, <2>12, <2>13
<1>13. EndedOK(k)'
  BY <1>0, <1>3, <1>5, <1>d, <1>g, <1>k, <1>o, <1>u DEF Fates, EndedOK, Busy, Shown, InPlay,
     Parties
<1>14. Fates' BY <1>11, <1>12, <1>13, <1>k DEF Fates
<1> QED BY <1>6, <1>7, <1>8, <1>9, <1>10, <1>14 DEF JInv

LEMMA DepartedKeeps ==
    ASSUME JInv, NEW m \in moves, Departed(m)
    PROVE  JInv'
<1>0. Typed /\ Closed /\ CaughtUp /\ Parties /\ Single /\ Fates BY DEF JInv
<1>1. RestOK /\ Known /\ DiskOK(disk) /\ MovesOK(moves) BY <1>0 DEF Typed
<1>2. PICK n : Moved(m, n) /\ DepartedFields(m, n) BY <1>0, DepartedEffect
<1>3. MoveOK(m) /\ m.ws \in Workspace /\ m.from \in Window /\ m.to \in Window /\ m.from # m.to
  BY <1>1, MoveFields DEF MovesOK, MoveOK
<1>4. \A j : j \in moves' <=> (j = n /\ InPlay(n)) \/ (j \in moves /\ j # m)
  BY <1>1, <1>2 DEF Moved, MovesOK, MoveOK
<1>5. n.ws = m.ws /\ n.from = m.from /\ n.to = m.to /\ n.host = m.host /\ n.content = m.content
      /\ n.src = FALSE /\ n.reply = m.reply /\ n.event = "none" /\ n.tgt = m.tgt
      /\ n.previous = m.previous
  BY <1>2 DEF Moved, DepartedFields
<1>6. Typed' BY <1>0, DepartedTyped
<1>g. m.event = "departed" /\ m.from \in open BY DEF Departed
<1>u. open' = open /\ active' = active /\ closing' = closing /\ removed' = removed
      /\ saves' = saves /\ home' = home /\ fate' = fate
  BY DEF Departed, ghost, webview
<1>d. disk' = disk /\ records' = [records EXCEPT ![m.from] = @ \ {m.ws}]
      /\ away' = [away EXCEPT ![m.from] = @ \ {m.ws}]
      /\ leaving' = [leaving EXCEPT ![m.from] = IF records[m.from] = {m.ws} THEN {m.ws} ELSE @]
      /\ dirty' = [dirty EXCEPT ![m.from] = TRUE]
  BY DEF Departed
<1>s. disk'.snap = disk.snap BY <1>d
<1>b. /\ \A w \in Window, j \in Workspace : j \in records'[w] <=> j \in records[w]
           /\ ~(w = m.from /\ j = m.ws)
      /\ \A w \in Window, j \in Workspace : j \in away'[w] <=> j \in away[w]
           /\ ~(w = m.from /\ j = m.ws)
  BY <1>1, <1>3, <1>d DEF RestOK
<1>c. \A w \in Window : leaving'[w] = leaving[w]
      \/ (w = m.from /\ leaving'[w] = {m.ws} /\ records[w] = {m.ws})
  BY <1>1, <1>3, <1>d DEF RestOK
<1>7. Closed' BY <1>0, <1>1, <1>3, <1>d, <1>g, <1>s, <1>u DEF Closed, RestOK
<1>8. CaughtUp'
  <2>1. \A w : Latest(w)' = Latest(w) BY <1>s, <1>u, LatestSame
  <2> QED BY <1>0, <1>1, <1>3, <1>d, <1>g, <1>u, <2>1 DEF CaughtUp, RestOK
<1>9. Parties' BY <1>0, <1>1, <1>3, <1>4, <1>5, <1>g, <1>u DEF Parties, Busy, Shown, RestOK
<1>10. Single' BY <1>0, <1>4, <1>5, <1>g, <1>u DEF Single, Shown
<1>11. ASSUME NEW k \in Workspace, k # m.ws PROVE LiveOK(k)' /\ EndedOK(k)'
  <2>1. ASSUME Live(k), NEW i \in moves, i.ws = k, i.host \in {"journaled", "queued"}
        PROVE leaving'[i.from] = leaving[i.from]
    <3>0. LiveOK(k) /\ i \in Of(k) /\ Busy(i) BY <1>0, <2>1 DEF Fates, Of, Busy
    <3>1. home[k] = i.from BY <3>0, <2>1 DEF LiveOK, Placed
    <3>2. PICK r \in disk.journal : r.ws = k /\ ~r.settled BY <3>0, <2>1 DEF LiveOK, Journaled
    <3>3. \A q \in disk.journal : q.ws = k => ~q.settled BY <3>2, <1>1 DEF DiskOK, Orderly
    <3>4. ~\E j \in Of(k) : j.host = "adopting" BY <3>0, <2>1 DEF LiveOK, OneBusy, Busy
    <3>5. k \in records[i.from] BY <3>0, <3>1, <3>3, <3>4, <2>1 DEF LiveOK, AtHome
    <3>6. i.from \in Window BY <1>1, MoveFields DEF MovesOK
    <3> QED BY <3>5, <3>6, <1>c, <1>11
  <2>2. \A w \in Window : leaving[w] # {} => leaving'[w] # {} BY <1>c
  <2>3. Untouched(k) BY <1>4, <1>5, <1>11, <1>b, <1>d, <1>u, <2>1, <2>2 DEF Untouched
  <2> QED BY <1>0, <2>3, UntouchedKept DEF Fates
<1>k. PICK k \in Workspace : k = m.ws BY <1>3
<1>o. m \in Of(k) /\ \A j : j \in Of(k)' <=> (j = n /\ InPlay(n)) \/ (j \in Of(k) /\ j # m)
  BY <1>4, <1>5, <1>k DEF Of
<1>12. LiveOK(k)'
  <2> SUFFICES ASSUME Live(k)
               PROVE OneBusy(k)' /\ Journaled(k)' /\ Recorded(k)' /\ Earlier(k)' /\ Placed(k)'
                     /\ Elsewhere(k)' /\ NotBack(k)' /\ ShownAt(k)' /\ AtHome(k)' /\ Fated(k)'
                     /\ Unhurried(k)' /\ Marked(k)' /\ Awaited(k)'
    BY <1>u DEF Live, LiveOK
  <2>a. OneBusy(k) /\ Journaled(k) /\ Recorded(k) /\ Earlier(k) /\ Placed(k) /\ Elsewhere(k)
        /\ NotBack(k) /\ ShownAt(k) /\ AtHome(k) /\ Fated(k) /\ Unhurried(k) /\ Marked(k)
        /\ Awaited(k)
    BY <1>0 DEF Fates, LiveOK
  <2>b. home[k] # m.from BY <2>a, <1>o, <1>g DEF NotBack
  <2>c. m.host = "over" BY <1>0, <1>g DEF Parties
  <2>1. OneBusy(k)'
    BY <1>0, <1>3, <1>5, <1>d, <1>g, <1>k, <1>o, <1>u, <2>a DEF OneBusy, Busy, Shown, InPlay
  <2>2. Journaled(k)'
    BY <1>0, <1>3, <1>5, <1>d, <1>g, <1>k, <1>o, <1>u, <2>a DEF Journaled, Busy, Shown, InPlay
  <2>3. Recorded(k)'
    BY <1>0, <1>3, <1>5, <1>d, <1>g, <1>k, <1>o, <1>u, <2>a DEF Recorded, Busy, Shown, InPlay
  <2>4. Earlier(k)'
    BY <1>0, <1>3, <1>5, <1>d, <1>g, <1>k, <1>o, <1>u, <2>a DEF Earlier, Busy, Shown, InPlay
  <2>5. Placed(k)'
    BY <1>0, <1>3, <1>5, <1>d, <1>g, <1>k, <1>o, <1>u, <2>a DEF Placed, Busy, Shown, InPlay
  <2>6. Elsewhere(k)'
    BY <1>0, <1>3, <1>5, <1>d, <1>g, <1>k, <1>o, <1>u, <2>a DEF Elsewhere, Busy, Shown, InPlay
  <2>7. NotBack(k)'
    BY <1>0, <1>3, <1>5, <1>d, <1>g, <1>k, <1>o, <1>u, <2>a DEF NotBack, Busy, Shown, InPlay
  <2>8. ShownAt(k)'
    <3> SUFFICES ASSUME NEW w \in Window, k \in records'[w], w # home[k], leaving'[w] = {}
                 PROVE  \/ \E i \in Of(k)' : i.to = w /\ Shown(i)
                        \/ \E i \in Of(k)' : i.from = w
                             /\ (i.host = "adopting" \/ i.event = "departed")
      BY <1>u DEF ShownAt
    <3>1. w # m.from /\ k \in records[w] /\ leaving[w] = {} BY <1>b, <1>c, <1>k
    <3>2. CASE \E i \in Of(k) : i.to = w /\ Shown(i)
      <4>1. PICK i \in Of(k) : i.to = w /\ Shown(i) BY <3>2
      <4>2. CASE i # m BY <4>1, <4>2, <1>o
      <4>3. CASE i = m BY <4>1, <4>3, <1>5, <1>o DEF InPlay, Shown
      <4> QED BY <4>2, <4>3
    <3>3. CASE \E i \in Of(k) : i.from = w /\ (i.host = "adopting" \/ i.event = "departed")
      BY <3>1, <3>3, <1>o
    <3> QED BY <3>1, <3>2, <3>3, <2>a DEF ShownAt
  <2>9. AtHome(k)'
    <3>1. home[k] \in Window BY <1>1 DEF RestOK
    <3>2. (\E i \in Of(k) : i.host = "adopting") => \E i \in Of(k)' : i.host = "adopting"
      BY <1>o, <2>c
    <3> QED BY <3>1, <3>2, <1>b, <1>d, <1>u, <2>a, <2>b DEF AtHome
  <2>10. Fated(k)'
    BY <1>0, <1>3, <1>5, <1>d, <1>g, <1>k, <1>o, <1>u, <2>a DEF Fated, Busy, Shown, InPlay
  <2>11. Unhurried(k)'
    <3>1. \A i \in Of(k)' : i.host \in {"journaled", "queued"} => i \in Of(k) /\ i.from # m.from
          /\ i.from \in Window
      BY <1>1, <1>5, <1>o, <2>a, <2>b, <2>c, MoveFields DEF Placed, Of, MovesOK
    <3> QED BY <3>1, <1>c, <1>u, <2>a DEF Unhurried
  <2>12. Marked(k)'
    <3>1. \A w \in Window : k \in away'[w] => \E i \in Of(k)' : i.src /\ i.from = w
          /\ (Busy(i) \/ i.event # "none")
      BY <1>b, <1>k, <1>o, <2>a DEF Marked
    <3>2. \A i \in Of(k)' : i.host = "journaled" => i \in Of(k) /\ i.from \in Window
      BY <1>1, <1>5, <1>o, <2>c, MoveFields DEF Of, MovesOK
    <3> QED BY <3>1, <3>2, <1>b, <2>a DEF Marked
  <2>13. Awaited(k)'
    BY <1>0, <1>3, <1>5, <1>d, <1>g, <1>k, <1>o, <1>u, <2>a DEF Awaited, Busy, Shown, InPlay
  <2> QED BY <2>1, <2>2, <2>3, <2>4, <2>5, <2>6, <2>7, <2>8, <2>9, <2>10, <2>11, <2>12, <2>13
<1>13. EndedOK(k)'
  <2> SUFFICES ASSUME fate[k] = "ended" PROVE EndedOK(k)' BY <1>u DEF EndedOK
  <2>1. EndedOK(k) BY <1>0 DEF Fates
  <2>2. ASSUME NEW w \in Window, k \in records'[w], w \notin closing, leaving'[w] = {}
        PROVE  \/ \E i \in Of(k)' : i.to = w /\ Shown(i)
               \/ \E i \in Of(k)' : i.from = w /\ i.event = "departed"
    <3>1. w # m.from /\ k \in records[w] /\ leaving[w] = {} BY <2>2, <1>b, <1>c, <1>k
    <3>2. CASE \E i \in Of(k) : i.to = w /\ Shown(i)
      <4>1. PICK i \in Of(k) : i.to = w /\ Shown(i) BY <3>2
      <4>2. CASE i # m BY <4>1, <4>2, <1>o
      <4>3. CASE i = m BY <4>1, <4>3, <1>5, <1>o DEF InPlay, Shown
      <4> QED BY <4>2, <4>3
    <3>3. CASE \E i \in Of(k) : i.from = w /\ i.event = "departed" BY <3>1, <3>3, <1>o
    <3> QED BY <2>2, <3>1, <3>2, <3>3, <2>1 DEF EndedOK
  <2>3. \A i \in Of(k)' : ~Busy(i) BY <1>5, <1>o, <2>1 DEF EndedOK, Busy
  <2> QED BY <2>1, <2>2, <2>3, <1>d, <1>u DEF EndedOK
<1>14. Fates' BY <1>11, <1>12, <1>13, <1>k DEF Fates
<1> QED BY <1>6, <1>7, <1>8, <1>9, <1>10, <1>14 DEF JInv

LEMMA ArrivalFailedKeeps ==
    ASSUME JInv, NEW m \in moves, ArrivalFailed(m)
    PROVE  JInv'
<1>0. Typed /\ Closed /\ CaughtUp /\ Parties /\ Single /\ Fates BY DEF JInv
<1>1. RestOK /\ Known /\ DiskOK(disk) /\ MovesOK(moves) BY <1>0 DEF Typed
<1>2. PICK n : Moved(m, n) /\ ArrivalFailedFields(m, n) BY <1>0, ArrivalFailedEffect
<1>3. MoveOK(m) /\ m.ws \in Workspace /\ m.from \in Window /\ m.to \in Window /\ m.from # m.to
  BY <1>1, MoveFields DEF MovesOK, MoveOK
<1>4. \A j : j \in moves' <=> (j = n /\ InPlay(n)) \/ (j \in moves /\ j # m)
  BY <1>1, <1>2 DEF Moved, MovesOK, MoveOK
<1>5. n.ws = m.ws /\ n.from = m.from /\ n.to = m.to /\ n.host = m.host /\ n.content = m.content
      /\ n.src = FALSE /\ n.reply = m.reply /\ n.event = "none" /\ n.tgt = m.tgt
      /\ n.previous = m.previous
  BY <1>2 DEF Moved, ArrivalFailedFields
<1>6. Typed' BY <1>0, ArrivalFailedTyped
<1>g. m.event = "failed" /\ m.from \in open BY DEF ArrivalFailed
<1>u. open' = open /\ active' = active /\ closing' = closing /\ removed' = removed
      /\ records' = records /\ leaving' = leaving /\ saves' = saves /\ home' = home
      /\ fate' = fate
  BY DEF ArrivalFailed, ghost, webview
<1>d. disk' = disk /\ away' = [away EXCEPT ![m.from] = @ \ {m.ws}]
      /\ dirty' = [dirty EXCEPT ![m.from] = @ \/ m.ws \in away[m.from]]
  BY DEF ArrivalFailed
<1>s. disk'.snap = disk.snap BY <1>d
<1>b. \A w \in Window, j \in Workspace : j \in away'[w] <=> j \in away[w]
      /\ ~(w = m.from /\ j = m.ws)
  BY <1>1, <1>3, <1>d DEF RestOK
<1>7. Closed' BY <1>0, <1>1, <1>3, <1>d, <1>g, <1>s, <1>u DEF Closed, RestOK
<1>8. CaughtUp'
  <2>1. \A w : Latest(w)' = Latest(w) BY <1>s, <1>u, LatestSame
  <2>2. \A w \in Window : ~dirty'[w] => ~dirty[w] /\ away'[w] = away[w]
    <3>0. dirty \in [Window -> BOOLEAN] /\ away \in [Window -> SUBSET Workspace]
      BY <1>1 DEF RestOK
    <3>1. \A w \in Window : w # m.from => dirty'[w] = dirty[w] /\ away'[w] = away[w] BY <3>0, <1>d
    <3>2. dirty'[m.from] = (dirty[m.from] \/ m.ws \in away[m.from]) BY <3>0, <1>3, <1>d
    <3>3. m.ws \notin away[m.from] => away'[m.from] = away[m.from] BY <3>0, <1>3, <1>d
    <3> QED BY <3>1, <3>2, <3>3
  <2> QED BY <1>0, <1>1, <1>u, <2>1, <2>2 DEF CaughtUp, RestOK
<1>9. Parties' BY <1>0, <1>1, <1>3, <1>4, <1>5, <1>g, <1>u DEF Parties, Busy, Shown, RestOK
<1>10. Single' BY <1>0, <1>4, <1>5, <1>g, <1>u DEF Single, Shown
<1>11. ASSUME NEW k \in Workspace, k # m.ws PROVE LiveOK(k)' /\ EndedOK(k)'
  <2>1. \A r : r.ws = k => (r \in disk'.journal <=> r \in disk.journal)
    BY <1>d
  <2>2. Untouched(k) BY <1>1, <1>3, <1>4, <1>5, <1>11, <1>d, <1>u, <2>1 DEF Untouched, RestOK
  <2> QED BY <1>0, <2>2, UntouchedKept DEF Fates
<1>k. PICK k \in Workspace : k = m.ws BY <1>3
<1>o. m \in Of(k) /\ \A j : j \in Of(k)' <=> (j = n /\ InPlay(n)) \/ (j \in Of(k) /\ j # m)
  BY <1>4, <1>5, <1>k DEF Of
<1>12. LiveOK(k)'
  <2> SUFFICES ASSUME Live(k)
               PROVE OneBusy(k)' /\ Journaled(k)' /\ Recorded(k)' /\ Earlier(k)' /\ Placed(k)'
                     /\ Elsewhere(k)' /\ NotBack(k)' /\ ShownAt(k)' /\ AtHome(k)' /\ Fated(k)'
                     /\ Unhurried(k)' /\ Marked(k)' /\ Awaited(k)'
    BY <1>u DEF Live, LiveOK
  <2>a. OneBusy(k) /\ Journaled(k) /\ Recorded(k) /\ Earlier(k) /\ Placed(k) /\ Elsewhere(k)
        /\ NotBack(k) /\ ShownAt(k) /\ AtHome(k) /\ Fated(k) /\ Unhurried(k) /\ Marked(k)
        /\ Awaited(k)
    BY <1>0 DEF Fates, LiveOK
  <2>1. OneBusy(k)'
    BY <1>0, <1>3, <1>5, <1>d, <1>g, <1>k, <1>o, <1>u, <2>a DEF OneBusy, Busy, Shown, InPlay
  <2>2. Journaled(k)'
    BY <1>0, <1>3, <1>5, <1>d, <1>g, <1>k, <1>o, <1>u, <2>a DEF Journaled, Busy, Shown, InPlay
  <2>3. Recorded(k)'
    BY <1>0, <1>3, <1>5, <1>d, <1>g, <1>k, <1>o, <1>u, <2>a DEF Recorded, Busy, Shown, InPlay
  <2>4. Earlier(k)'
    BY <1>0, <1>3, <1>5, <1>d, <1>g, <1>k, <1>o, <1>u, <2>a DEF Earlier, Busy, Shown, InPlay
  <2>5. Placed(k)'
    BY <1>0, <1>3, <1>5, <1>d, <1>g, <1>k, <1>o, <1>u, <2>a DEF Placed, Busy, Shown, InPlay
  <2>6. Elsewhere(k)'
    BY <1>0, <1>3, <1>5, <1>d, <1>g, <1>k, <1>o, <1>u, <2>a DEF Elsewhere, Busy, Shown, InPlay
  <2>7. NotBack(k)'
    BY <1>0, <1>3, <1>5, <1>d, <1>g, <1>k, <1>o, <1>u, <2>a DEF NotBack, Busy, Shown, InPlay
  <2>8. ShownAt(k)'
    BY <1>0, <1>3, <1>5, <1>d, <1>g, <1>k, <1>o, <1>u, <2>a DEF ShownAt, Busy, Shown, InPlay
  <2>9. AtHome(k)'
    BY <1>0, <1>3, <1>5, <1>d, <1>g, <1>k, <1>o, <1>u, <2>a DEF AtHome, Busy, Shown, InPlay
  <2>10. Fated(k)'
    BY <1>0, <1>3, <1>5, <1>d, <1>g, <1>k, <1>o, <1>u, <2>a DEF Fated, Busy, Shown, InPlay
  <2>11. Unhurried(k)'
    BY <1>0, <1>3, <1>5, <1>d, <1>g, <1>k, <1>o, <1>u, <2>a DEF Unhurried, Busy, Shown, InPlay
  <2>12. Marked(k)'
    <3>1. \A w \in Window : k \in away'[w] => \E i \in Of(k)' : i.src /\ i.from = w
          /\ (Busy(i) \/ i.event # "none")
      BY <1>b, <1>k, <1>o, <2>a DEF Marked
    <3>2. \A i \in Of(k)' : i.host = "journaled" => i \in Of(k) /\ i.from \in Window
      BY <1>0, <1>1, <1>5, <1>g, <1>o, MoveFields DEF Of, MovesOK, Parties
    <3> QED BY <3>1, <3>2, <1>b, <2>a DEF Marked
  <2>13. Awaited(k)'
    BY <1>0, <1>3, <1>5, <1>d, <1>g, <1>k, <1>o, <1>u, <2>a DEF Awaited, Busy, Shown, InPlay
  <2> QED BY <2>1, <2>2, <2>3, <2>4, <2>5, <2>6, <2>7, <2>8, <2>9, <2>10, <2>11, <2>12, <2>13
<1>13. EndedOK(k)'
  BY <1>0, <1>3, <1>5, <1>d, <1>g, <1>k, <1>o, <1>u DEF Fates, EndedOK, Busy, Shown, InPlay,
     Parties
<1>14. Fates' BY <1>11, <1>12, <1>13, <1>k DEF Fates
<1> QED BY <1>6, <1>7, <1>8, <1>9, <1>10, <1>14 DEF JInv

LEMMA SendContentKeeps ==
    ASSUME JInv, NEW m \in moves, SendContent(m)
    PROVE  JInv'
<1>0. Typed /\ Closed /\ CaughtUp /\ Parties /\ Single /\ Fates BY DEF JInv
<1>1. RestOK /\ Known /\ DiskOK(disk) /\ MovesOK(moves) BY <1>0 DEF Typed
<1>2. PICK n : Moved(m, n) /\ SentFields(m, n)
           /\ ((n.host = m.host /\ open' = open \cup {m.to})
           \/ (n.host = "returning" /\ open' = open))
  BY <1>0, SendContentEffect
<1>3. MoveOK(m) /\ m.ws \in Workspace /\ m.from \in Window /\ m.to \in Window /\ m.from # m.to
  BY <1>1, MoveFields DEF MovesOK, MoveOK
<1>4. \A j : j \in moves' <=> (j = n /\ InPlay(n)) \/ (j \in moves /\ j # m)
  BY <1>1, <1>2 DEF Moved, MovesOK, MoveOK
<1>5. n.ws = m.ws /\ n.from = m.from /\ n.to = m.to /\ n.content = TRUE /\ n.src = m.src
      /\ n.reply = m.reply /\ n.event = m.event /\ n.tgt = m.tgt /\ n.previous = m.previous
      /\ ((n.host = m.host /\ open' = open \cup {m.to}) \/ (n.host = "returning" /\ open' = open))
  BY <1>2 DEF Moved, SentFields
<1>6. Typed' BY <1>0, SendContentTyped
<1>g. m.src /\ m.from \in open /\ m.ws \in away[m.from] /\ m.host = "queued" BY DEF SendContent
<1>u. active' = active /\ closing' = closing /\ removed' = removed /\ records' = records
      /\ away' = away /\ leaving' = leaving /\ dirty' = dirty /\ saves' = saves /\ home' = home
      /\ fate' = fate
  BY DEF SendContent, ghost, webview
<1>d. disk' = disk BY DEF SendContent
<1>s. disk'.snap = disk.snap BY <1>d
<1>b. open \subseteq open' /\ open' \subseteq open \cup {m.to} BY <1>5
<1>7. Closed' BY <1>0, <1>b, <1>d, <1>u DEF Closed
<1>8. CaughtUp'
  <2>1. \A w : Latest(w)' = Latest(w) BY <1>s, <1>u, LatestSame
  <2>2. ASSUME NEW w \in open' \ closing, w \notin open PROVE Latest(w) = records[w] \ away[w]
    <3>1. w \in Window BY <2>2, <1>3, <1>b
    <3>2. records[w] = {} /\ saves[w] = <<>> /\ w \notin DOMAIN disk.snap
      BY <2>2, <3>1, <1>0 DEF Closed
    <3>3. Names(disk, w) = {} BY <3>2 DEF Names
    <3> QED BY <3>2, <3>3 DEF Latest
  <2> QED BY <1>0, <1>b, <1>u, <2>1, <2>2 DEF CaughtUp
<1>9. Parties'
  <2>1. \A i \in moves : i.from \in open' => i.from \in open BY <1>0, <1>b, <1>g DEF Parties
  <2>2. n.host = m.host \/ n.host = "returning" BY <1>5
  <2> QED BY <1>0, <1>4, <1>5, <1>b, <1>g, <1>u, <2>1, <2>2 DEF Parties, Busy, Shown
<1>10. Single' BY <1>0, <1>4, <1>5, <1>g, <1>u DEF Single, Shown
<1>11. ASSUME NEW k \in Workspace, k # m.ws PROVE LiveOK(k)' /\ EndedOK(k)'
  <2>1. \A w \in removed : w \in open' => w \in open BY <1>0, <1>b, <1>g DEF Parties
  <2>2. Untouched(k) BY <1>4, <1>5, <1>11, <1>b, <1>d, <1>u, <2>1 DEF Untouched
  <2> QED BY <1>0, <2>2, UntouchedKept DEF Fates
<1>k. PICK k \in Workspace : k = m.ws BY <1>3
<1>o. m \in Of(k) /\ \A j : j \in Of(k)' <=> (j = n /\ InPlay(n)) \/ (j \in Of(k) /\ j # m)
  BY <1>4, <1>5, <1>k DEF Of
<1>12. LiveOK(k)'
  <2> SUFFICES ASSUME Live(k)
               PROVE OneBusy(k)' /\ Journaled(k)' /\ Recorded(k)' /\ Earlier(k)' /\ Placed(k)'
                     /\ Elsewhere(k)' /\ NotBack(k)' /\ ShownAt(k)' /\ AtHome(k)' /\ Fated(k)'
                     /\ Unhurried(k)' /\ Marked(k)' /\ Awaited(k)'
    BY <1>u DEF Live, LiveOK
  <2>a. OneBusy(k) /\ Journaled(k) /\ Recorded(k) /\ Earlier(k) /\ Placed(k) /\ Elsewhere(k)
        /\ NotBack(k) /\ ShownAt(k) /\ AtHome(k) /\ Fated(k) /\ Unhurried(k) /\ Marked(k)
        /\ Awaited(k)
    BY <1>0 DEF Fates, LiveOK
  <2>1. OneBusy(k)'
    BY <1>0, <1>3, <1>5, <1>d, <1>g, <1>k, <1>o, <1>u, <2>a DEF OneBusy, Busy, Shown, InPlay
  <2>2. Journaled(k)'
    BY <1>0, <1>3, <1>5, <1>d, <1>g, <1>k, <1>o, <1>u, <2>a DEF Journaled, Busy, Shown, InPlay
  <2>3. Recorded(k)'
    BY <1>0, <1>3, <1>5, <1>d, <1>g, <1>k, <1>o, <1>u, <2>a DEF Recorded, Busy, Shown, InPlay
  <2>4. Earlier(k)'
    BY <1>0, <1>3, <1>5, <1>d, <1>g, <1>k, <1>o, <1>u, <2>a DEF Earlier, Busy, Shown, InPlay
  <2>5. Placed(k)'
    BY <1>0, <1>3, <1>5, <1>d, <1>g, <1>k, <1>o, <1>u, <2>a DEF Placed, Busy, Shown, InPlay
  <2>6. Elsewhere(k)'
    BY <1>0, <1>3, <1>5, <1>d, <1>g, <1>k, <1>o, <1>u, <2>a DEF Elsewhere, Busy, Shown, InPlay
  <2>7. NotBack(k)'
    BY <1>0, <1>3, <1>5, <1>d, <1>g, <1>k, <1>o, <1>u, <2>a DEF NotBack, Busy, Shown, InPlay
  <2>8. ShownAt(k)'
    BY <1>0, <1>3, <1>5, <1>d, <1>g, <1>k, <1>o, <1>u, <2>a DEF ShownAt, Busy, Shown, InPlay
  <2>9. AtHome(k)'
    BY <1>0, <1>3, <1>5, <1>d, <1>g, <1>k, <1>o, <1>u, <2>a DEF AtHome, Busy, Shown, InPlay
  <2>10. Fated(k)'
    BY <1>0, <1>3, <1>5, <1>d, <1>g, <1>k, <1>o, <1>u, <2>a DEF Fated, Busy, Shown, InPlay
  <2>11. Unhurried(k)'
    BY <1>0, <1>3, <1>5, <1>d, <1>g, <1>k, <1>o, <1>u, <2>a DEF Unhurried, Busy, Shown, InPlay
  <2>12. Marked(k)'
    <3>1. n.host \in {"queued", "returning"} BY <1>5, <1>g
    <3>2. InPlay(n) /\ Busy(n) BY <3>1 DEF InPlay, Busy
    <3>3. ASSUME NEW w \in Window, k \in away[w]
          PROVE  \E i \in Of(k)' : i.src /\ i.from = w /\ (Busy(i) \/ i.event # "none")
      <4>1. PICK i \in Of(k) : i.src /\ i.from = w /\ (Busy(i) \/ i.event # "none")
        BY <2>a, <3>3 DEF Marked
      <4>2. CASE i = m BY <1>5, <1>o, <3>2, <4>1, <4>2
      <4>3. CASE i # m BY <1>o, <4>1, <4>3
      <4> QED BY <4>2, <4>3
    <3>4. \A j \in Of(k)' : j.host = "journaled" => j \in Of(k) BY <1>o, <3>1
    <3> QED BY <1>u, <2>a, <3>3, <3>4 DEF Marked
  <2>13. Awaited(k)'
    <3>1. ~\E i \in Of(k) : i.host = "adopting" BY <1>g, <1>o, <2>a DEF OneBusy, Busy
    <3>2. n.host # "adopting" BY <1>5, <1>g
    <3> QED BY <3>1, <3>2, <1>o DEF Awaited
  <2> QED BY <2>1, <2>2, <2>3, <2>4, <2>5, <2>6, <2>7, <2>8, <2>9, <2>10, <2>11, <2>12, <2>13
<1>13. EndedOK(k)'
  BY <1>0, <1>3, <1>5, <1>d, <1>g, <1>k, <1>o, <1>u DEF Fates, EndedOK, Busy, Shown, InPlay,
     Parties
<1>14. Fates' BY <1>11, <1>12, <1>13, <1>k DEF Fates
<1> QED BY <1>6, <1>7, <1>8, <1>9, <1>10, <1>14 DEF JInv

\* Without MovesOn the window a Workspace is moved from is the one that holds it,
\* no move of it is under way, and it was not closed with its window.
LEMMA StartFromHome ==
    ASSUME JInv, ~MovesOn, NEW k \in Workspace, NEW from \in Window, NEW to \in Window,
           StartMove(k, from, to)
    PROVE  /\ fate[k] # "ended"
           /\ Live(k) => from = home[k] /\ ~\E i \in Of(k) : Busy(i)
<1>0. Parties /\ Fates BY DEF JInv
<1>1. /\ from \in open /\ k \in records[from] /\ leaving[from] = {} /\ from \notin closing
      /\ \A i \in Of(k) : ~(i.src /\ i.from = from)
      /\ \A i \in Of(k) : ~(i.to = from /\ Shown(i))
      /\ \A i \in Of(k) : i.host # "queued"
  BY DEF StartMove, Pending, Arriving, Admitted, Queued, Of, Shown
<1>2. \A i \in Of(k) : i.from = from => ~Busy(i) /\ i.event = "none"
  BY <1>0, <1>1 DEF Parties, Of, Busy
<1>3. fate[k] # "ended" BY <1>0, <1>1, <1>2 DEF Fates, EndedOK
<1>4. ASSUME Live(k) PROVE from = home[k] /\ ~\E i \in Of(k) : Busy(i)
  <2>1. LiveOK(k) BY <1>0 DEF Fates
  <2>2. from = home[k] BY <1>1, <1>2, <1>4, <2>1 DEF LiveOK, ShownAt, Busy
  <2>3. ASSUME NEW i \in Of(k), Busy(i) PROVE FALSE
    <3>1. CASE i.host = "adopting"
      <4>1. i.to = from BY <1>4, <2>1, <2>2, <3>1 DEF LiveOK, Placed
      <4> QED BY <1>1, <1>4, <2>1, <3>1, <4>1 DEF LiveOK, Awaited, Shown
    <3>2. CASE i.host # "adopting"
      <4>1. i.host \in {"journaled", "queued", "adopting", "returning", "over"}
        BY MoveFields DEF JInv, Typed, MovesOK, Of
      <4>2. home[k] = i.from BY <1>4, <2>1, <2>3, <3>2, <4>1 DEF LiveOK, Placed, Busy
      <4> QED BY <1>2, <2>2, <2>3, <4>2
    <3> QED BY <3>1, <3>2
  <2> QED BY <2>2, <2>3
<1> QED BY <1>3, <1>4

LEMMA StartMoveKeeps ==
    ASSUME JInv, ~MovesOn, NEW k \in Workspace, NEW from \in Window, NEW to \in Window,
           StartMove(k, from, to)
    PROVE  JInv'
<1> DEFINE n == Begun(k, from, to)
           e == [ws |-> k, from |-> from, to |-> to, settled |-> FALSE, discarded |-> FALSE]
<1>0. Typed /\ Closed /\ CaughtUp /\ Parties /\ Single /\ Fates BY DEF JInv
<1>1. RestOK /\ Known /\ DiskOK(disk) /\ MovesOK(moves) BY <1>0 DEF Typed
<1>2. /\ BegunFields(k, from, to, n) /\ moves' = moves \cup {n}
      /\ disk'.snap = disk.snap /\ disk'.journal = {r \in disk.journal : r.ws # k} \cup {e}
  BY <1>0, StartMoveEffect
<1>3. e.ws = k /\ e.from = from /\ e.to = to /\ e.settled = FALSE /\ e.discarded = FALSE OBVIOUS
<1> HIDE DEF n, e
<1>4. /\ n.ws = k /\ n.from = from /\ n.to = to /\ n.host = "journaled" /\ n.content = FALSE
      /\ n.src = TRUE /\ n.reply = "none" /\ n.event = "none" /\ n.tgt = "none"
      /\ n.previous = {r \in disk.journal : r.ws = k}
  BY <1>2 DEF BegunFields
<1>5. \A j : j \in moves' <=> j = n \/ j \in moves BY <1>2
<1>6. Typed' BY <1>0, StartMoveTyped
<1>g. /\ from \in open /\ k \in records[from] /\ leaving[from] = {} /\ from \notin closing
      /\ \A i \in Of(k) : ~(i.src /\ i.from = from)
      /\ \A i \in Of(k) : ~(i.to = from /\ Shown(i))
  BY DEF StartMove, Pending, Arriving, Admitted, Of, Shown
<1>u. /\ open' = open /\ active' = active /\ closing' = closing /\ removed' = removed
           /\ records' = records /\ away' = away
      /\ leaving' = leaving /\ dirty' = dirty /\ saves' = saves /\ home' = home /\ fate' = fate
  BY DEF StartMove, ghost, webview
<1>7. Closed' BY <1>0, <1>2, <1>u DEF Closed
<1>8. CaughtUp'
  <2>1. \A w : Latest(w)' = Latest(w) BY <1>2, <1>u, LatestSame
  <2> QED BY <1>0, <1>u, <2>1 DEF CaughtUp
<1>9. Parties' BY <1>0, <1>4, <1>5, <1>g, <1>u DEF Parties, Busy, Shown
<1>10. Single' BY <1>0, <1>4, <1>5, <1>g, <1>u DEF Single, Shown, Of
<1>11. ASSUME NEW j \in Workspace, j # k PROVE LiveOK(j)' /\ EndedOK(j)'
  <2>1. Untouched(j) BY <1>2, <1>3, <1>4, <1>5, <1>11, <1>u DEF Untouched
  <2> QED BY <1>0, <2>1, UntouchedKept DEF Fates
<1>o. \A j : j \in Of(k)' <=> j = n \/ j \in Of(k) BY <1>4, <1>5 DEF Of
<1>j. \A r : r \in disk'.journal /\ r.ws = k <=> r = e BY <1>2, <1>3
<1>12. LiveOK(k)'
  <2> SUFFICES ASSUME Live(k)
               PROVE  /\ OneBusy(k)' /\ Journaled(k)' /\ Recorded(k)' /\ Earlier(k)'
                           /\ Placed(k)' /\ Elsewhere(k)' /\ NotBack(k)'
                      /\ ShownAt(k)' /\ AtHome(k)' /\ Fated(k)' /\ Unhurried(k)' /\ Marked(k)'
                           /\ Awaited(k)'
    BY <1>u DEF Live, LiveOK
  <2>a. /\ OneBusy(k) /\ Journaled(k) /\ Recorded(k) /\ Earlier(k) /\ Placed(k) /\ Elsewhere(k)
             /\ NotBack(k)
        /\ ShownAt(k) /\ AtHome(k) /\ Fated(k) /\ Unhurried(k) /\ Marked(k) /\ Awaited(k)
    BY <1>0 DEF Fates, LiveOK
  <2>b. from = home[k] /\ \A i \in Of(k) : ~Busy(i) BY StartFromHome
  <2>c. \A i \in Of(k) : i.host = "over" BY <2>b DEF Busy
  <2>1. OneBusy(k)' BY <1>o, <2>b DEF OneBusy
  <2>2. Journaled(k)' BY <1>3, <1>4, <1>j, <1>o, <2>b DEF Journaled
  <2>3. Recorded(k)' BY <1>3, <1>4, <1>j, <1>o DEF Recorded, Busy
  <2>4. Earlier(k)' BY <1>4, <1>o, <1>u, <2>a, <2>b, <2>c DEF Earlier, Recorded
  <2>5. Placed(k)' BY <1>4, <1>o, <1>u, <2>b, <2>c DEF Placed
  <2>6. Elsewhere(k)' BY <1>4, <1>o, <1>u, <2>a, <2>c DEF Elsewhere, Shown
  <2>7. NotBack(k)' BY <1>4, <1>g, <1>o, <1>u, <2>a DEF NotBack, Shown
  <2>8. ShownAt(k)' BY <1>4, <1>o, <1>u, <2>a DEF ShownAt, Shown
  <2>9. AtHome(k)' BY <1>1, <1>g, <1>u, <2>b DEF AtHome, RestOK
  <2>10. Fated(k)' BY <1>u, <2>a DEF Fated
  <2>11. Unhurried(k)' BY <1>4, <1>g, <1>o, <1>u, <2>c DEF Unhurried
  <2>12. Marked(k)' BY <1>4, <1>g, <1>o, <1>u, <2>a, <2>c DEF Marked, Busy
  <2>13. Awaited(k)' BY <1>4, <1>o, <2>c DEF Awaited
  <2> QED BY <2>1, <2>2, <2>3, <2>4, <2>5, <2>6, <2>7, <2>8, <2>9, <2>10, <2>11, <2>12, <2>13
<1>13. EndedOK(k)' BY <1>u, StartFromHome DEF EndedOK
<1>14. Fates' BY <1>11, <1>12, <1>13 DEF Fates
<1> QED BY <1>6, <1>7, <1>8, <1>9, <1>10, <1>14 DEF JInv

LEMMA AdoptDoneKeeps ==
    ASSUME JInv, NEW m \in moves, AdoptDone(m)
    PROVE  JInv'
<1>0. Typed /\ Closed /\ CaughtUp /\ Parties /\ Single /\ Fates BY DEF JInv
<1>1. RestOK /\ Known /\ DiskOK(disk) /\ MovesOK(moves) BY <1>0 DEF Typed
<1>3. MoveOK(m) /\ m.ws \in Workspace /\ m.from \in Window /\ m.to \in Window /\ m.from # m.to
  BY <1>1, MoveFields DEF MovesOK, MoveOK
<1>6. Typed' BY <1>0, AdoptDoneTyped
<1>g. m.tgt = "mounted" /\ m.to \in open /\ ~\E i \in moves : i.ws = m.ws /\ i.to = m.to
      /\ i.host = "adopting"
  BY DEF AdoptDone
<1>u. /\ disk' = disk /\ open' = open /\ active' = active /\ closing' = closing
           /\ removed' = removed /\ records' = records
      /\ away' = away /\ leaving' = leaving /\ dirty' = dirty /\ saves' = saves
  BY DEF AdoptDone, webview
<1>h. home \in [Workspace -> Window]
      /\ fate \in [Workspace -> {"kept", "ending", "ended", "contested", "spoiled"}]
  BY <1>1 DEF RestOK
<1>7. Closed' BY <1>0, <1>u DEF Closed
<1>8. CaughtUp'
  <2>1. \A w : Latest(w)' = Latest(w) BY <1>u, LatestSame
  <2> QED BY <1>0, <1>u, <2>1 DEF CaughtUp
<1>k. PICK k \in Workspace : k = m.ws BY <1>3
<1>a. CASE Found(m) = {}
  <2>1. PICK n : Moved(m, n) /\ RefusedFields(m, n) BY <1>0, <1>a, AdoptDoneEffect
  <2>2. \A j : j \in moves' <=> (j = n /\ InPlay(n)) \/ (j \in moves /\ j # m)
    BY <1>1, <2>1 DEF Moved, MovesOK, MoveOK
  <2>3. n.ws = m.ws /\ n.from = m.from /\ n.to = m.to /\ n.host = m.host /\ n.src = m.src
        /\ n.reply = m.reply
        /\ n.event = m.event /\ n.tgt = "refused" /\ n.previous = m.previous
    BY <2>1 DEF Moved, RefusedFields
  <2>i. InPlay(n) BY <2>3 DEF InPlay
  <2>h. home' = home /\ fate' = fate
    <3>1. home' = [home EXCEPT ![m.ws] = home[m.ws]] /\ fate' = [fate EXCEPT ![m.ws] = fate[m.ws]]
      BY <1>a DEF AdoptDone, Found
    <3> QED BY <3>1, <1>h
  <2>4. Parties' BY <1>0, <1>g, <1>u, <2>2, <2>3 DEF Parties, Busy, Shown
  <2>5. Single' BY <1>0, <1>g, <1>u, <2>2, <2>3 DEF Single, Shown
  <2>6. ASSUME NEW j \in Workspace, j # k PROVE LiveOK(j)' /\ EndedOK(j)'
    <3>1. Untouched(j) BY <1>k, <1>u, <2>2, <2>3, <2>6, <2>h DEF Untouched
    <3> QED BY <1>0, <3>1, UntouchedKept DEF Fates
  <2>o. m \in Of(k) /\ \A j : j \in Of(k)' <=> j = n \/ (j \in Of(k) /\ j # m)
    BY <1>k, <2>2, <2>3, <2>i DEF Of
  <2>7. LiveOK(k)'
    <3> SUFFICES ASSUME Live(k)
                 PROVE  /\ OneBusy(k)' /\ Journaled(k)' /\ Recorded(k)' /\ Earlier(k)'
                             /\ Placed(k)' /\ Elsewhere(k)' /\ NotBack(k)'
                        /\ ShownAt(k)' /\ AtHome(k)' /\ Fated(k)' /\ Unhurried(k)' /\ Marked(k)'
                             /\ Awaited(k)'
      BY <2>h DEF Live, LiveOK
    <3>a. /\ OneBusy(k) /\ Journaled(k) /\ Recorded(k) /\ Earlier(k) /\ Placed(k)
               /\ Elsewhere(k) /\ NotBack(k)
          /\ ShownAt(k) /\ AtHome(k) /\ Fated(k) /\ Unhurried(k) /\ Marked(k) /\ Awaited(k)
      BY <1>0 DEF Fates, LiveOK
    <3>b. ~\E i \in Of(k) : i.to = m.to /\ i.host = "adopting" BY <1>g, <1>k DEF Of
    <3>1. OneBusy(k)' BY <2>3, <2>o, <3>a DEF OneBusy, Busy
    <3>2. Journaled(k)' BY <1>u, <2>3, <2>o, <3>a DEF Journaled, Busy
    <3>3. Recorded(k)' BY <1>u, <2>3, <2>h, <2>o, <3>a DEF Recorded, Busy
    <3>4. Earlier(k)' BY <2>3, <2>h, <2>o, <3>a DEF Earlier
    <3>5. Placed(k)' BY <2>3, <2>h, <2>o, <3>a DEF Placed
    <3>6. Elsewhere(k)' BY <1>g, <2>3, <2>h, <2>o, <3>a, <3>b DEF Elsewhere, Shown
    <3>7. NotBack(k)' BY <1>g, <2>3, <2>h, <2>o, <3>a DEF NotBack, Busy, Shown
    <3>8. ShownAt(k)' BY <1>u, <2>3, <2>h, <2>o, <3>a DEF ShownAt, Shown
    <3>9. AtHome(k)' BY <1>u, <2>3, <2>h, <2>o, <3>a DEF AtHome
    <3>10. Fated(k)' BY <1>u, <2>h, <3>a DEF Fated
    <3>11. Unhurried(k)' BY <1>u, <2>3, <2>o, <3>a DEF Unhurried
    <3>12. Marked(k)' BY <1>u, <2>3, <2>o, <3>a DEF Marked, Busy
    <3>13. Awaited(k)' BY <1>u, <2>3, <2>o, <3>a, <3>b DEF Awaited
    <3> QED BY <3>1, <3>2, <3>3, <3>4, <3>5, <3>6, <3>7, <3>8, <3>9, <3>10, <3>11, <3>12, <3>13
  <2>8. EndedOK(k)' BY <1>0, <1>u, <2>3, <2>h, <2>o DEF Fates, EndedOK, Busy, Shown
  <2>9. Fates' BY <2>6, <2>7, <2>8 DEF Fates
  <2> QED BY <1>6, <1>7, <1>8, <2>4, <2>5, <2>9 DEF JInv
<1>b. CASE Found(m) # {}
  <2>1. /\ \A i \in moves : TakenFields(m, i, TakenMove(m, i)) /\ MoveOK(TakenMove(m, i))
        /\ \A j : j \in moves' <=> \E i \in moves : j = TakenMove(m, i)
    BY <1>0, <1>b, AdoptDoneEffect
  <2> DEFINE T(i) == TakenMove(m, i)
  <2>2. \A i \in moves : /\ T(i).ws = i.ws /\ T(i).from = i.from /\ T(i).to = i.to
        /\ T(i).src = i.src /\ T(i).reply = i.reply
                         /\ T(i).event = i.event /\ T(i).tgt = i.tgt /\ T(i).previous = i.previous
                         /\ T(i).host = (IF i \in Found(m) THEN "adopting" ELSE i.host)
    BY <2>1 DEF TakenFields
  <2>3. \A i \in moves : i \notin Found(m) => T(i) = i BY DEF TakenMove
  <2>4. \A i : i \in Found(m) <=> i \in moves /\ i.ws = m.ws /\ i.to = m.to /\ i.host = "queued"
    BY DEF Found
  <2>5. \A j : j \in moves' <=> \E i \in moves : j = T(i) BY <2>1
  <2> HIDE DEF T
  <2>6. Parties'
    <3> SUFFICES ASSUME NEW i \in moves
                 PROVE  /\ T(i).src => T(i).from \in open
                        /\ T(i).event # "none" => T(i).host = "over" /\ T(i).src
                        /\ Busy(T(i)) /\ T(i).from \in open => T(i).src
                        /\ Shown(T(i)) => T(i).to \in open
                        /\ T(i).reply = "refused" => T(i).host = "over" /\ T(i).event = "none"
                        /\ T(i).host = "journaled" => T(i).reply = "none"
                        /\ T(i).src => Busy(T(i)) \/ T(i).event # "none" \/ T(i).reply = "refused"
                        /\ T(i).from \in open \cup removed
                        /\ T(i).host = "queued" /\ T(i).to \in removed => T(i).to \in open
      BY <1>u, <2>5 DEF Parties
    <3>1. CASE i \notin Found(m) BY <1>0, <2>3, <3>1 DEF Parties
    <3>2. CASE i \in Found(m)
      <4>1. i.host = "queued" /\ T(i).host = "adopting" BY <2>2, <2>4, <3>2
      <4> QED BY <1>0, <2>2, <4>1 DEF Parties, Busy, Shown
    <3> QED BY <3>1, <3>2
  <2>7. Single'
    <3> SUFFICES ASSUME NEW i \in moves, NEW j \in moves, T(i).ws = T(j).ws
                 PROVE  /\ T(i).src /\ T(j).src /\ T(i).from = T(j).from => T(i) = T(j)
                        /\ Shown(T(i)) /\ Shown(T(j)) /\ T(i).to = T(j).to => T(i) = T(j)
      BY <2>5 DEF Single
    <3> QED BY <1>0, <2>2 DEF Single, Shown
  <2>h. home'[k] = m.to /\ fate'[k] = (IF m.to \in closing \ removed /\ fate[k] = "kept"
        THEN "ending" ELSE fate[k])
        /\ \A j \in Workspace : j # k => home'[j] = home[j] /\ fate'[j] = fate[j]
    BY <1>b, <1>h, <1>k DEF AdoptDone, Found
  <2>8. ASSUME NEW j \in Workspace, j # k PROVE LiveOK(j)' /\ EndedOK(j)'
    <3>1. \A i : i.ws = j => (i \in moves' <=> i \in moves) BY <1>k, <2>2, <2>3, <2>4, <2>5, <2>8
    <3>2. Untouched(j) BY <1>u, <2>8, <2>h, <3>1 DEF Untouched
    <3> QED BY <1>0, <3>2, UntouchedKept DEF Fates
  <2>f. PICK f : f \in Found(m) BY <1>b
  <2>i. f \in Of(k) /\ f.host = "queued" /\ f.to = m.to /\ m \in Of(k) BY <1>k, <2>4, <2>f DEF Of
  <2>o. \A j : j \in Of(k)' <=> \E i \in Of(k) : j = T(i) BY <2>2, <2>5 DEF Of
  <2>9. LiveOK(k)'
    <3>0. Live(k)' => Live(k) BY <2>h DEF Live
    <3> SUFFICES ASSUME Live(k)
                 PROVE  /\ OneBusy(k)' /\ Journaled(k)' /\ Recorded(k)' /\ Earlier(k)'
                             /\ Placed(k)' /\ Elsewhere(k)' /\ NotBack(k)'
                        /\ ShownAt(k)' /\ AtHome(k)' /\ Fated(k)' /\ Unhurried(k)' /\ Marked(k)'
                             /\ Awaited(k)'
      BY <3>0 DEF LiveOK
    <3>a. /\ OneBusy(k) /\ Journaled(k) /\ Recorded(k) /\ Earlier(k) /\ Placed(k)
               /\ Elsewhere(k) /\ NotBack(k)
          /\ ShownAt(k) /\ AtHome(k) /\ Fated(k) /\ Unhurried(k) /\ Marked(k) /\ Awaited(k)
      BY <1>0 DEF Fates, LiveOK
    <3>b. \A i \in Of(k) : Busy(i) => i = f BY <2>i, <3>a DEF OneBusy, Busy
    <3>c. \A i \in Of(k) : i # f => T(i) = i /\ i.host = "over"
      BY <2>3, <2>4, <3>b DEF Of, Busy
    <3> DEFINE n == T(f)
    <3>d. /\ n.ws = f.ws /\ n.from = f.from /\ n.to = m.to /\ n.src = f.src /\ n.reply = f.reply
          /\ n.event = f.event /\ n.tgt = f.tgt /\ n.host = "adopting"
      BY <2>2, <2>f, <2>i DEF Of
    <3> HIDE DEF n
    <3>e. \A j : j \in Of(k)' <=> j = n \/ (j \in Of(k) /\ j # f) BY <2>i, <2>o, <3>c DEF n
    <3>f. home[k] = f.from /\ f.event = "none" /\ f.from # m.to
      BY <1>0, <1>1, <2>i, <3>a DEF Placed, Parties, Of, MovesOK, MoveOK
    <3>g. \A r, q \in disk.journal : r.ws = q.ws => r = q BY <1>1 DEF DiskOK, Orderly
    <3>h. \A r \in disk.journal : r.ws = k => ~r.settled BY <2>i, <3>a, <3>g DEF Journaled, Busy
    <3>i. \A i \in Of(k) : Shown(i) /\ i.to = m.to => i.tgt = "mounted"
      BY <1>0, <1>g, <2>i DEF Single, Shown, Of
    <3>1. OneBusy(k)' BY <3>b, <3>e DEF OneBusy
    <3>2. Journaled(k)' BY <1>u, <2>i, <3>a, <3>d, <3>e DEF Journaled, Busy
    <3>3. Recorded(k)' BY <1>u, <3>d, <3>e, <3>h DEF Recorded, Busy
    <3>4. Earlier(k)' BY <3>c, <3>d, <3>e DEF Earlier
    <3>5. Placed(k)' BY <2>h, <3>c, <3>d, <3>e DEF Placed
    <3>6. Elsewhere(k)'
      <4>1. \A i \in Of(k)' : Shown(i) /\ i.to = m.to => i.tgt = "mounted"
        BY <2>i, <3>d, <3>e, <3>i DEF Shown
      <4> QED BY <2>h, <3>d, <3>e, <4>1 DEF Elsewhere
    <3>7. NotBack(k)'
      <4>1. \A i \in Of(k)' : Shown(i) => \E j \in Of(k) : Shown(j) /\ j.to = i.to
        BY <2>i, <3>d, <3>e DEF Shown
      <4>2. \A i \in Of(k) : Shown(i) => i.to # f.from BY <2>i, <3>a DEF NotBack, Busy
      <4>3. \A j \in Of(k)' : Busy(j) \/ j.event # "none" => j = n
            \/ (j \in Of(k) /\ j.event # "none")
        BY <3>b, <3>e
      <4>4. \A j \in Of(k) : j.event # "none" => j.from # m.to
        BY <1>g, <2>i, <3>a DEF NotBack, Shown
      <4>5. ASSUME NEW j \in Of(k)', Busy(j) \/ j.event # "none", NEW i \in Of(k)', Shown(i)
            PROVE i.to # j.from
        <5>1. PICK q \in Of(k) : Shown(q) /\ q.to = i.to BY <4>1, <4>5
        <5>2. CASE j = n BY <4>2, <5>1, <5>2, <3>d
        <5>3. CASE j \in Of(k) /\ j.event # "none" BY <5>1, <5>3, <3>a DEF NotBack
        <5> QED BY <4>3, <4>5, <5>2, <5>3
      <4>6. ASSUME NEW j \in Of(k)', j.event = "departed" PROVE home'[k] # j.from
        BY <2>h, <3>d, <3>e, <3>f, <4>4, <4>6
      <4> QED BY <4>5, <4>6 DEF NotBack
    <3>8. ShownAt(k)'
      <4> SUFFICES ASSUME NEW w \in Window, k \in records[w], leaving[w] = {}
                   PROVE  \/ w = m.to
                          \/ \E i \in Of(k)' : i.to = w /\ Shown(i)
                          \/ \E i \in Of(k)' : i.from = w
                               /\ (i.host = "adopting" \/ i.event = "departed")
        BY <1>u, <2>h DEF ShownAt
      <4>1. CASE w = home[k] BY <4>1, <3>d, <3>e, <3>f
      <4>2. CASE \E i \in Of(k) : i.to = w /\ Shown(i) BY <4>2, <2>i, <3>d, <3>e DEF Shown
      <4>3. CASE \E i \in Of(k) : i.from = w /\ (i.host = "adopting" \/ i.event = "departed")
        BY <4>3, <2>i, <3>e, <3>f
      <4> QED BY <4>1, <4>2, <4>3, <3>a DEF ShownAt
    <3>9. AtHome(k)' BY <3>d, <3>e DEF AtHome
    <3>10. Fated(k)'
      <4>1. f.from \notin closing BY <2>i, <3>a DEF Unhurried
      <4>2. fate[k] = "kept" BY <3>a, <3>f, <4>1 DEF Fated, Live
      <4> QED BY <1>u, <2>h, <4>2 DEF Fated
    <3>11. Unhurried(k)' BY <3>c, <3>d, <3>e DEF Unhurried
    <3>12. Marked(k)'
      <4>1. \A w \in Window : k \in away[w] => \E i \in Of(k)' : i.src /\ i.from = w
            /\ (Busy(i) \/ i.event # "none")
        BY <2>i, <3>a, <3>d, <3>e DEF Marked, Busy
      <4> QED BY <1>u, <3>c, <3>d, <3>e, <4>1 DEF Marked
    <3>13. Awaited(k)'
      <4>1. \E i \in Of(k)' : i.to = m.to /\ i.tgt = "mounted" BY <1>g, <2>i, <3>d, <3>e
      <4> QED BY <1>g, <1>u, <3>c, <3>d, <3>e, <4>1 DEF Awaited
    <3> QED BY <3>1, <3>2, <3>3, <3>4, <3>5, <3>6, <3>7, <3>8, <3>9, <3>10, <3>11, <3>12, <3>13
  <2>10. EndedOK(k)'
    <3>1. fate'[k] # "ended" BY <1>0, <2>h, <2>i DEF Fates, EndedOK, Busy
    <3> QED BY <3>1 DEF EndedOK
  <2>11. Fates' BY <2>8, <2>9, <2>10 DEF Fates
  <2> QED BY <1>6, <1>7, <1>8, <2>6, <2>7, <2>11 DEF JInv
<1> QED BY <1>a, <1>b

LEMMA MarkAdoptedKeeps ==
    ASSUME JInv, NEW m \in moves, MarkAdopted(m)
    PROVE  JInv'
<1>0. Typed /\ Closed /\ CaughtUp /\ Parties /\ Single /\ Fates BY DEF JInv
<1>1. RestOK /\ Known /\ DiskOK(disk) /\ MovesOK(moves) BY <1>0 DEF Typed
<1>3. MoveOK(m) /\ m.ws \in Workspace /\ m.from \in Window /\ m.to \in Window /\ m.from # m.to
  BY <1>1, MoveFields DEF MovesOK, MoveOK
<1>6. Typed' BY <1>0, MarkAdoptedTyped
<1>g. m.host = "adopting" BY DEF MarkAdopted
<1>u. /\ open' = open /\ active' = active /\ closing' = closing /\ removed' = removed
      /\ away' = away /\ leaving' = leaving /\ saves' = saves /\ home' = home /\ fate' = fate
  BY DEF MarkAdopted, ghost
<1>b. /\ \A w \in Window, j \in Workspace : j \in records'[w] <=> j \in records[w]
           \/ (w = m.to /\ j = m.ws /\ m.to \in open)
      /\ \A w \in Window : w # m.to => records'[w] = records[w] /\ dirty'[w] = dirty[w]
      /\ m.to \in open => dirty'[m.to]
      /\ m.to \notin open => records'[m.to] = records[m.to] /\ ~dirty'[m.to]
  <2>0. records \in [Window -> SUBSET Workspace] /\ dirty \in [Window -> BOOLEAN]
    BY <1>1 DEF RestOK
  <2>1. /\ records' = [records EXCEPT ![m.to] = IF m.to \in open THEN @ \cup {m.ws} ELSE @]
        /\ dirty' = [dirty EXCEPT ![m.to] = m.to \in open]
    BY DEF MarkAdopted
  <2>2. \A w \in Window : w # m.to => records'[w] = records[w] /\ dirty'[w] = dirty[w]
    BY <2>0, <2>1
  <2>3. dirty'[m.to] = (m.to \in open) BY <2>0, <2>1, <1>3
  <2>4. records'[m.to] = IF m.to \in open THEN records[m.to] \cup {m.ws} ELSE records[m.to]
    BY <2>0, <2>1, <1>3
  <2> QED BY <2>2, <2>3, <2>4
<1> DEFINE d == Settle(disk, m.ws)
           M(i) == MarkedMove(m, i)
<1>d. /\ d \in Disk /\ d.snap = disk.snap /\ disk' = RetireSaved(d)
      /\ \A r \in disk.journal : r.ws # m.ws => r \in d.journal
      /\ \A r \in disk.journal : r.ws = m.ws => [r EXCEPT !.settled = TRUE] \in d.journal
      /\ \A q \in d.journal :
                  \/ q \in disk.journal /\ q.ws # m.ws
                  \/ \E r \in disk.journal : r.ws = m.ws /\ q = [r EXCEPT !.settled = TRUE]
  BY <1>1, <1>3, SettleFacts DEF MarkAdopted, DiskOK
<1> HIDE DEF d
<1>e. \A r \in disk.journal : LET q == [r EXCEPT !.settled = TRUE]
                              IN  q.ws = r.ws /\ q.from = r.from /\ q.to = r.to /\ q.settled
                                  /\ q.discarded = r.discarded
  BY <1>1 DEF DiskOK, Disk, Entry
<1>q. \A q \in d.journal :
         \/ q \in disk.journal /\ q.ws # m.ws
         \/ \E r \in disk.journal : r.ws = m.ws /\ q.ws = r.ws /\ q.to = r.to /\ q.settled
              /\ q.discarded = r.discarded
  <2> TAKE q \in d.journal
  <2>1. CASE q \in disk.journal /\ q.ws # m.ws BY <2>1
  <2>2. CASE \E r \in disk.journal : r.ws = m.ws /\ q = [r EXCEPT !.settled = TRUE]
    <3>1. PICK r \in disk.journal : r.ws = m.ws /\ q = [r EXCEPT !.settled = TRUE] BY <2>2
    <3>2. q.ws = r.ws /\ q.to = r.to /\ q.settled /\ q.discarded = r.discarded BY <1>e, <3>1
    <3> QED BY <3>1, <3>2
  <2> QED BY <1>d, <2>1, <2>2
<1>s. disk'.snap = disk.snap /\ DOMAIN d.snap \cap removed = {}
  BY <1>0, <1>d, RetireSavedFacts DEF Closed
<1>r. /\ disk'.journal \subseteq d.journal
      /\ \A r \in d.journal : ~r.settled \/ (~r.discarded /\ r.to \in removed) =>
           r \in disk'.journal
  BY <1>d, <1>s, RetireKeeps
<1>2. /\ \A i \in moves : MarkedFields(m, i, M(i))
      /\ \A j : j \in moves' <=> InPlay(j) /\ \E i \in moves : j = M(i)
  BY <1>0, MarkAdoptedEffect
<1>4. \A i \in moves :
        /\ M(i).ws = i.ws /\ M(i).from = i.from /\ M(i).to = i.to /\ M(i).src = i.src
             /\ M(i).reply = i.reply /\ M(i).previous = i.previous
        /\ M(i).host = (IF i = m THEN "over" ELSE i.host)
        /\ M(i).event = (IF i = m /\ m.from \in open THEN "departed" ELSE i.event)
        /\ M(i).tgt = (IF i.tgt = "mounted" /\ i.ws = m.ws /\ i.to = m.to THEN "over" ELSE i.tgt)
  BY <1>2 DEF MarkedFields
<1>5. \A i \in moves : i.ws # m.ws => M(i) = i BY <1>1 DEF MarkedMove, MovesOK, MoveOK, Move
<1> HIDE DEF M
<1>7. Closed' BY <1>0, <1>3, <1>b, <1>s, <1>u DEF Closed
<1>8. CaughtUp'
  <2>1. \A w : Latest(w)' = Latest(w) BY <1>s, <1>u, LatestSame
  <2>2. open \subseteq Window BY <1>1 DEF RestOK
  <2> QED BY <1>0, <1>b, <1>u, <2>1, <2>2 DEF CaughtUp
<1>9. Parties'
  <2> SUFFICES ASSUME NEW i \in moves
               PROVE  /\ M(i).src => M(i).from \in open
                      /\ M(i).event # "none" => M(i).host = "over" /\ M(i).src
                      /\ Busy(M(i)) /\ M(i).from \in open => M(i).src
                      /\ Shown(M(i)) => M(i).to \in open
                      /\ M(i).reply = "refused" => M(i).host = "over" /\ M(i).event = "none"
                      /\ M(i).host = "journaled" => M(i).reply = "none"
                      /\ M(i).src => Busy(M(i)) \/ M(i).event # "none" \/ M(i).reply = "refused"
                      /\ M(i).from \in open \cup removed
                      /\ M(i).host = "queued" /\ M(i).to \in removed => M(i).to \in open
    BY <1>u, <1>2 DEF Parties
  <2>1. CASE i = m BY <1>0, <1>4, <1>g, <2>1 DEF Parties, Busy, Shown
  <2>2. CASE i # m BY <1>0, <1>4, <2>2 DEF Parties, Busy, Shown
  <2> QED BY <2>1, <2>2
<1>10. Single'
  <2> SUFFICES ASSUME NEW i \in moves, NEW j \in moves, M(i).ws = M(j).ws
               PROVE  /\ M(i).src /\ M(j).src /\ M(i).from = M(j).from => M(i) = M(j)
                      /\ Shown(M(i)) /\ Shown(M(j)) /\ M(i).to = M(j).to => M(i) = M(j)
    BY <1>2 DEF Single
  <2>1. Shown(M(i)) => Shown(i) BY <1>4 DEF Shown
  <2>2. Shown(M(j)) => Shown(j) BY <1>4 DEF Shown
  <2> QED BY <1>0, <1>4, <2>1, <2>2 DEF Single
<1>11. ASSUME NEW j \in Workspace, j # m.ws PROVE LiveOK(j)' /\ EndedOK(j)'
  <2>1. \A i : i.ws = j => (i \in moves' <=> i \in moves)
    BY <1>1, <1>2, <1>4, <1>5, <1>11 DEF MovesOK, MoveOK
  <2>2. \A r \in disk'.journal : r.ws = j => r \in disk.journal BY <1>11, <1>q, <1>r
  <2>3. \A r \in disk.journal : r.ws = j /\ (~r.settled \/ (~r.discarded /\ r.to \in removed)) =>
        r \in disk'.journal
    BY <1>11, <1>d, <1>r
  <2>4. Untouched(j) BY <1>11, <1>b, <1>u, <2>1, <2>2, <2>3 DEF Untouched
  <2> QED BY <1>0, <2>4, UntouchedKept DEF Fates
<1>k. PICK k \in Workspace : k = m.ws BY <1>3
<1>o. m \in Of(k) /\ \A j : j \in Of(k)' <=> InPlay(j) /\ \E i \in Of(k) : j = M(i)
  BY <1>2, <1>4, <1>k DEF Of
<1>f. \A i \in Of(k) :
        /\ M(i).ws = i.ws /\ M(i).from = i.from /\ M(i).to = i.to /\ M(i).src = i.src
             /\ M(i).reply = i.reply
        /\ M(i).host = (IF i = m THEN "over" ELSE i.host)
        /\ M(i).event = (IF i = m /\ m.from \in open THEN "departed" ELSE i.event)
        /\ M(i).tgt = (IF i.tgt = "mounted" /\ i.to = m.to THEN "over" ELSE i.tgt)
  BY <1>4, <1>k DEF Of
<1>12. LiveOK(k)'
  <2> SUFFICES ASSUME Live(k)
               PROVE  /\ OneBusy(k)' /\ Journaled(k)' /\ Recorded(k)' /\ Earlier(k)'
                           /\ Placed(k)' /\ Elsewhere(k)' /\ NotBack(k)'
                      /\ ShownAt(k)' /\ AtHome(k)' /\ Fated(k)' /\ Unhurried(k)' /\ Marked(k)'
                           /\ Awaited(k)'
    BY <1>u DEF Live, LiveOK
  <2>a. /\ OneBusy(k) /\ Journaled(k) /\ Recorded(k) /\ Earlier(k) /\ Placed(k) /\ Elsewhere(k)
             /\ NotBack(k)
        /\ ShownAt(k) /\ AtHome(k) /\ Fated(k) /\ Unhurried(k) /\ Marked(k) /\ Awaited(k)
    BY <1>0 DEF Fates, LiveOK
  <2>b. \A i \in Of(k) : i # m => i.host = "over" BY <1>g, <1>o, <2>a DEF OneBusy, Busy
  <2>c. \A j \in Of(k)' : j.host = "over" BY <1>f, <1>o, <2>b
  <2>d. home[k] = m.to BY <1>g, <1>o, <2>a DEF Placed
  <2>e. PICK e \in disk.journal : e.ws = k /\ e.from = m.from /\ e.to = m.to /\ ~e.settled
    BY <1>g, <1>o, <2>a DEF Journaled, Busy
  <2>f. \A r \in disk.journal : r.ws = k => r = e BY <1>1, <2>e DEF DiskOK, Orderly
  <2>g. ~e.discarded BY <1>1, <2>e DEF DiskOK, EntryOK
  <2>h. \A r \in disk'.journal : r.ws = k => r.settled /\ ~r.discarded /\ r.to = m.to
    BY <1>k, <1>q, <1>r, <2>f, <2>g, <2>e
  <2>1. OneBusy(k)' BY <2>c DEF OneBusy, Busy
  <2>2. Journaled(k)' BY <2>c DEF Journaled, Busy
  <2>3. Recorded(k)' BY <1>u, <2>d, <2>h DEF Recorded
  <2>4. Earlier(k)' BY <2>c DEF Earlier
  <2>5. Placed(k)' BY <2>c DEF Placed
  <2>6. Elsewhere(k)'
    <3>1. \A i \in Of(k) : Shown(M(i)) => i.to # m.to BY <1>f, <2>a, <2>d DEF Elsewhere, Shown
    <3> QED BY <1>f, <1>o, <1>u, <2>d, <3>1 DEF Elsewhere
  <2>7. NotBack(k)'
    <3>1. \A i \in Of(k)' : Shown(i) => \E j \in Of(k) : Shown(j) /\ j.to = i.to
      BY <1>f, <1>o DEF Shown
    <3>2. \A i \in Of(k) : Shown(i) => i.to # m.from BY <1>g, <1>o, <2>a DEF NotBack, Busy
    <3>3. \A j \in Of(k)' : j.event # "none" => j.from = m.from
          \/ \E q \in Of(k) : q.event = j.event /\ q.from = j.from
      BY <1>f, <1>o
    <3>5. ASSUME NEW j \in Of(k)', Busy(j) \/ j.event # "none", NEW i \in Of(k)', Shown(i)
          PROVE i.to # j.from
      <4>0. j.event # "none" BY <2>c, <3>5 DEF Busy
      <4>1. PICK p \in Of(k) : Shown(p) /\ p.to = i.to BY <3>1, <3>5
      <4>2. CASE j.from = m.from BY <3>2, <4>1, <4>2
      <4>3. CASE \E q \in Of(k) : q.event = j.event /\ q.from = j.from
        BY <4>0, <4>1, <4>3, <2>a DEF NotBack
      <4> QED BY <3>3, <4>0, <4>2, <4>3
    <3>6. ASSUME NEW j \in Of(k)', j.event = "departed" PROVE home'[k] # j.from
      BY <1>3, <1>u, <2>a, <2>d, <3>3, <3>6 DEF NotBack
    <3> QED BY <3>5, <3>6 DEF NotBack
  <2>8. ShownAt(k)'
    <3> SUFFICES ASSUME NEW w \in Window, k \in records'[w], w # m.to, leaving[w] = {}
                 PROVE  \/ \E i \in Of(k)' : i.to = w /\ Shown(i)
                        \/ \E i \in Of(k)' : i.from = w
                             /\ (i.host = "adopting" \/ i.event = "departed")
      BY <1>u, <2>d DEF ShownAt
    <3>1. k \in records[w] /\ w \in open BY <1>0, <1>b DEF Closed
    <3>2. CASE \E i \in Of(k) : i.to = w /\ Shown(i)
      <4>1. PICK i \in Of(k) : i.to = w /\ Shown(i) BY <3>2
      <4>2. M(i).to = w /\ Shown(M(i)) BY <4>1, <1>f DEF Shown
      <4>3. InPlay(M(i)) BY <4>2 DEF InPlay, Shown
      <4> QED BY <4>1, <4>2, <4>3, <1>o
    <3>3. CASE \E i \in Of(k) : i.from = w /\ (i.host = "adopting" \/ i.event = "departed")
      <4>1. PICK i \in Of(k) : i.from = w /\ (i.host = "adopting" \/ i.event = "departed") BY <3>3
      <4>2. M(i).from = w /\ M(i).event = "departed" BY <4>1, <1>f, <2>b, <3>1
      <4>3. InPlay(M(i)) BY <4>2 DEF InPlay
      <4> QED BY <4>1, <4>2, <4>3, <1>o
    <3> QED BY <3>1, <3>2, <3>3, <2>a, <2>d DEF ShownAt
  <2>9. AtHome(k)'
    <3>1. CASE m.to \in removed
      <4> DEFINE q == [e EXCEPT !.settled = TRUE]
      <4>1. q \in d.journal /\ q.ws = k /\ q.to = m.to /\ q.settled /\ q.discarded = e.discarded
        BY <1>d, <1>e, <1>k, <2>e
      <4> HIDE DEF q
      <4>2. q \in disk'.journal BY <1>r, <2>g, <3>1, <4>1
      <4> QED BY <1>u, <2>d, <3>1, <4>1, <4>2 DEF AtHome
    <3>2. CASE m.to \notin removed
      <4>1. m.to \in open BY <1>g, <1>o, <2>a, <3>2 DEF Awaited
      <4>2. k \in records'[m.to] BY <1>3, <1>b, <1>k, <4>1
      <4> QED BY <1>u, <2>d, <3>2, <4>1, <4>2 DEF AtHome
    <3> QED BY <3>1, <3>2
  <2>10. Fated(k)' BY <1>u, <2>a DEF Fated
  <2>11. Unhurried(k)' BY <2>c DEF Unhurried
  <2>12. Marked(k)'
    <3>1. ASSUME NEW w \in Window, k \in away[w]
          PROVE  \E i \in Of(k)' : i.src /\ i.from = w /\ (Busy(i) \/ i.event # "none")
      <4>1. PICK i \in Of(k) : i.src /\ i.from = w /\ (Busy(i) \/ i.event # "none")
        BY <2>a, <3>1 DEF Marked
      <4>2. i.from \in open BY <1>0, <4>1 DEF Parties, Of
      <4>3. M(i).src /\ M(i).from = w /\ M(i).event # "none" BY <1>f, <2>b, <4>1, <4>2 DEF Busy
      <4>4. InPlay(M(i)) BY <4>3 DEF InPlay
      <4> QED BY <4>1, <4>3, <4>4, <1>o
    <3> QED BY <1>u, <2>c, <3>1 DEF Marked
  <2>13. Awaited(k)' BY <2>c DEF Awaited
  <2> QED BY <2>1, <2>2, <2>3, <2>4, <2>5, <2>6, <2>7, <2>8, <2>9, <2>10, <2>11, <2>12, <2>13
<1>13. EndedOK(k)' BY <1>0, <1>g, <1>o, <1>u DEF Fates, EndedOK, Busy
<1>14. Fates' BY <1>11, <1>12, <1>13, <1>k DEF Fates
<1> QED BY <1>6, <1>7, <1>8, <1>9, <1>10, <1>14 DEF JInv

LEMMA DestroyedKeeps ==
    ASSUME JInv, NEW w \in Window, Destroyed(w)
    PROVE  JInv'
<1>0. Typed /\ Closed /\ CaughtUp /\ Parties /\ Single /\ Fates BY DEF JInv
<1>1. RestOK /\ Known /\ DiskOK(disk) /\ MovesOK(moves) BY <1>0 DEF Typed
<1>6. Typed' BY <1>0, DestroyedTyped
<1>g. w \in removed /\ w \in open /\ open' = open \ {w} /\ active' = active \ {w} BY DEF Destroyed
<1>u. disk' = disk /\ closing' = closing /\ removed' = removed /\ home' = home /\ fate' = fate
  BY DEF Destroyed, ghost
<1>b. /\ records'[w] = {} /\ away'[w] = {} /\ leaving'[w] = {} /\ ~dirty'[w]
      /\ \A v \in Window : v # w => /\ records'[v] = records[v] /\ away'[v] = away[v]
           /\ leaving'[v] = leaving[v]
                                    /\ dirty'[v] = dirty[v] /\ saves'[v] = saves[v]
      /\ saves'[w] # <<>> => saves[w] # <<>>
  BY <1>1 DEF Destroyed, RestOK
<1> DEFINE M(i) == LeftMove(w, i)
<1>2. /\ \A i \in moves : LeftFields(w, i, M(i))
      /\ \A j : j \in moves' <=> InPlay(j) /\ \E i \in moves : j = M(i)
  BY <1>0, DestroyedEffect
<1>4. \A i \in moves :
        /\ M(i).ws = i.ws /\ M(i).from = i.from /\ M(i).to = i.to /\ M(i).previous = i.previous
        /\ M(i).src = (i.src /\ i.from # w)
        /\ M(i).reply = (IF i.from = w THEN "none" ELSE i.reply)
        /\ M(i).event = (IF i.from = w THEN "none" ELSE i.event)
        /\ M(i).host = (IF i.to = w /\ i.host = "queued" THEN "returning" ELSE i.host)
        /\ M(i).tgt = (IF i.to = w THEN "over" ELSE i.tgt)
  BY <1>2 DEF LeftFields
<1>5. \A i \in moves :
        /\ M(i).src <=> i.src /\ i.from # w
        /\ Busy(M(i)) <=> Busy(i)
        /\ Shown(M(i)) <=> Shown(i) /\ i.to # w
        /\ M(i).event # "none" <=> i.event # "none" /\ i.from # w
        /\ M(i).event # "none" => M(i).event = i.event
        /\ M(i).host = "adopting" <=> i.host = "adopting"
        /\ M(i).host = "journaled" <=> i.host = "journaled"
        /\ M(i).host = "queued" <=> i.host = "queued" /\ i.to # w
        /\ M(i).host = "returning" => i.host = "returning" \/ i.host = "queued"
  <2> SUFFICES ASSUME NEW i \in moves
               PROVE  /\ M(i).src <=> i.src /\ i.from # w
                      /\ Busy(M(i)) <=> Busy(i)
                      /\ Shown(M(i)) <=> Shown(i) /\ i.to # w
                      /\ M(i).event # "none" <=> i.event # "none" /\ i.from # w
                      /\ M(i).event # "none" => M(i).event = i.event
                      /\ M(i).host = "adopting" <=> i.host = "adopting"
                      /\ M(i).host = "journaled" <=> i.host = "journaled"
                      /\ M(i).host = "queued" <=> i.host = "queued" /\ i.to # w
                      /\ M(i).host = "returning" => i.host = "returning" \/ i.host = "queued"
    OBVIOUS
  <2>1. i.src \in BOOLEAN BY <1>1, MoveFields DEF MovesOK
  <2>2. M(i).src <=> i.src /\ i.from # w BY <1>4, <2>1
  <2> QED BY <1>4, <2>2 DEF Busy, Shown
<1> HIDE DEF M
<1>7. Closed'
  <2>1. removed \subseteq closing BY <1>1 DEF RestOK
  <2> QED BY <1>0, <1>b, <1>g, <1>u, <2>1 DEF Closed
<1>8. CaughtUp'
  <2>1. open \subseteq Window BY <1>1 DEF RestOK
  <2>2. \A v \in open' \ closing : Latest(v)' = Latest(v)
    BY <1>b, <1>g, <1>u, <2>1 DEF Latest, Names
  <2> QED BY <1>0, <1>b, <1>g, <1>u, <2>1, <2>2 DEF CaughtUp
<1>9. Parties'
  <2> SUFFICES ASSUME NEW i \in moves
               PROVE  /\ M(i).src => M(i).from \in open'
                      /\ M(i).event # "none" => M(i).host = "over" /\ M(i).src
                      /\ Busy(M(i)) /\ M(i).from \in open' => M(i).src
                      /\ Shown(M(i)) => M(i).to \in open'
                      /\ M(i).reply = "refused" => M(i).host = "over" /\ M(i).event = "none"
                      /\ M(i).host = "journaled" => M(i).reply = "none"
                      /\ M(i).src => Busy(M(i)) \/ M(i).event # "none" \/ M(i).reply = "refused"
                      /\ M(i).from \in open' \cup removed
                      /\ M(i).host = "queued" /\ M(i).to \in removed => M(i).to \in open'
    BY <1>u, <1>2 DEF Parties
  <2>1. M(i).src => M(i).from \in open' BY <1>0, <1>4, <1>5, <1>g DEF Parties
  <2>2. M(i).event # "none" => M(i).host = "over" /\ M(i).src BY <1>0, <1>4, <1>5 DEF Parties
  <2>3. Busy(M(i)) /\ M(i).from \in open' => M(i).src BY <1>0, <1>4, <1>5, <1>g DEF Parties
  <2>4. Shown(M(i)) => M(i).to \in open' BY <1>0, <1>4, <1>5, <1>g DEF Parties
  <2>5. M(i).reply = "refused" => M(i).host = "over" /\ M(i).event = "none"
    BY <1>0, <1>4 DEF Parties
  <2>6. M(i).host = "journaled" => M(i).reply = "none" BY <1>0, <1>4, <1>5 DEF Parties
  <2>7. M(i).src => Busy(M(i)) \/ M(i).event # "none" \/ M(i).reply = "refused"
    BY <1>0, <1>4, <1>5 DEF Parties
  <2>8. M(i).from \in open' \cup removed BY <1>0, <1>4, <1>g DEF Parties
  <2>9. M(i).host = "queued" /\ M(i).to \in removed => M(i).to \in open'
    BY <1>0, <1>4, <1>5, <1>g DEF Parties
  <2> QED BY <2>1, <2>2, <2>3, <2>4, <2>5, <2>6, <2>7, <2>8, <2>9
<1>10. Single'
  <2> SUFFICES ASSUME NEW i \in moves, NEW j \in moves, M(i).ws = M(j).ws
               PROVE  /\ M(i).src /\ M(j).src /\ M(i).from = M(j).from => M(i) = M(j)
                      /\ Shown(M(i)) /\ Shown(M(j)) /\ M(i).to = M(j).to => M(i) = M(j)
    BY <1>2 DEF Single
  <2> QED BY <1>0, <1>4, <1>5 DEF Single
<1>11. ASSUME NEW k \in Workspace PROVE LiveOK(k)' /\ EndedOK(k)'
  <2>o. \A j : j \in Of(k)' <=> InPlay(j) /\ \E i \in Of(k) : j = M(i) BY <1>2, <1>4 DEF Of
  <2>f. \A i \in Of(k) : i \in moves BY DEF Of
  <2>i. \A i \in Of(k) : Busy(i) \/ (i.event # "none" /\ i.from # w) \/ (Shown(i) /\ i.to # w) =>
        M(i) \in Of(k)'
    BY <1>5, <2>f, <2>o DEF InPlay, Busy, Shown
  <2>r. \A v \in Window : k \in records'[v] => v # w /\ k \in records[v]
        /\ leaving'[v] = leaving[v]
    BY <1>b
  <2>1. LiveOK(k)'
    <3> SUFFICES ASSUME Live(k)
                 PROVE  /\ OneBusy(k)' /\ Journaled(k)' /\ Recorded(k)' /\ Earlier(k)'
                             /\ Placed(k)' /\ Elsewhere(k)' /\ NotBack(k)'
                        /\ ShownAt(k)' /\ AtHome(k)' /\ Fated(k)' /\ Unhurried(k)' /\ Marked(k)'
                             /\ Awaited(k)'
      BY <1>u DEF Live, LiveOK
    <3>a. /\ OneBusy(k) /\ Journaled(k) /\ Recorded(k) /\ Earlier(k) /\ Placed(k)
               /\ Elsewhere(k) /\ NotBack(k)
          /\ ShownAt(k) /\ AtHome(k) /\ Fated(k) /\ Unhurried(k) /\ Marked(k) /\ Awaited(k)
      BY <1>0 DEF Fates, LiveOK
    <3>1. OneBusy(k)' BY <1>5, <2>f, <2>o, <3>a DEF OneBusy
    <3>2. Journaled(k)' BY <1>4, <1>5, <1>u, <2>f, <2>o, <3>a DEF Journaled
    <3>3. Recorded(k)' BY <1>5, <1>u, <2>f, <2>i, <3>a DEF Recorded
    <3>4. Earlier(k)' BY <1>4, <1>5, <1>u, <2>f, <2>o, <3>a DEF Earlier
    <3>5. Placed(k)' BY <1>4, <1>5, <1>u, <2>f, <2>o, <3>a DEF Placed
    <3>6. Elsewhere(k)'
      <4> SUFFICES ASSUME NEW j \in Of(k)', Shown(j), home[k] = j.to
                   PROVE  j.tgt = "mounted" /\ \E i \in Of(k)' : i.to = j.to
                          /\ i.host = "adopting"
        BY <1>u DEF Elsewhere
      <4>1. PICK p \in Of(k) : j = M(p) BY <2>o
      <4>2. Shown(p) /\ p.to # w /\ j.to = p.to /\ j.tgt = p.tgt BY <1>4, <1>5, <2>f, <4>1
      <4>3. p.tgt = "mounted" /\ \E i \in Of(k) : i.to = p.to /\ i.host = "adopting"
        BY <3>a, <4>2 DEF Elsewhere
      <4>4. PICK i \in Of(k) : i.to = p.to /\ i.host = "adopting" BY <4>3
      <4>5. M(i).to = p.to /\ M(i).host = "adopting" /\ M(i) \in Of(k)'
        BY <1>4, <1>5, <2>f, <2>i, <4>4 DEF Busy
      <4> QED BY <4>2, <4>3, <4>5
    <3>7. NotBack(k)'
      <4>1. ASSUME NEW j \in Of(k)', Busy(j) \/ j.event # "none", NEW i \in Of(k)', Shown(i)
            PROVE i.to # j.from
        <5>1. PICK p \in Of(k) : j = M(p) BY <2>o
        <5>2. PICK q \in Of(k) : i = M(q) BY <2>o
        <5>3. (Busy(p) \/ p.event # "none") /\ j.from = p.from BY <1>4, <1>5, <2>f, <4>1, <5>1
        <5>4. Shown(q) /\ i.to = q.to BY <1>4, <1>5, <2>f, <4>1, <5>2
        <5> QED BY <3>a, <5>3, <5>4 DEF NotBack
      <4>2. ASSUME NEW j \in Of(k)', j.event = "departed" PROVE home'[k] # j.from
        <5>1. PICK p \in Of(k) : j = M(p) BY <2>o
        <5>2. p.event = "departed" /\ j.from = p.from BY <1>4, <1>5, <2>f, <4>2, <5>1
        <5> QED BY <1>u, <3>a, <5>2 DEF NotBack
      <4> QED BY <4>1, <4>2 DEF NotBack
    <3>8. ShownAt(k)'
      <4> SUFFICES ASSUME NEW v \in Window, k \in records'[v], v # home[k], leaving'[v] = {}
                   PROVE  \/ \E i \in Of(k)' : i.to = v /\ Shown(i)
                          \/ \E i \in Of(k)' : i.from = v
                               /\ (i.host = "adopting" \/ i.event = "departed")
        BY <1>u DEF ShownAt
      <4>1. v # w /\ k \in records[v] /\ leaving[v] = {} BY <2>r
      <4>2. CASE \E i \in Of(k) : i.to = v /\ Shown(i)
        <5>1. PICK i \in Of(k) : i.to = v /\ Shown(i) BY <4>2
        <5>2. M(i).to = v /\ Shown(M(i)) /\ M(i) \in Of(k)' BY <1>4, <1>5, <2>f, <2>i, <4>1, <5>1
        <5> QED BY <5>2
      <4>3. CASE \E i \in Of(k) : i.from = v /\ (i.host = "adopting" \/ i.event = "departed")
        <5>1. PICK i \in Of(k) : i.from = v /\ (i.host = "adopting" \/ i.event = "departed")
          BY <4>3
        <5>2. M(i).from = v /\ (M(i).host = "adopting" \/ M(i).event = "departed")
          BY <1>4, <1>5, <2>f, <4>1, <5>1
        <5>3. M(i) \in Of(k)' BY <2>i, <4>1, <5>1 DEF Busy
        <5> QED BY <5>2, <5>3
      <4> QED BY <4>1, <4>2, <4>3, <3>a DEF ShownAt
    <3>9. AtHome(k)'
      <4>1. home[k] \in Window BY <1>1 DEF RestOK
      <4>2. (\E i \in Of(k) : i.host = "adopting") => \E i \in Of(k)' : i.host = "adopting"
        BY <1>5, <2>f, <2>i DEF Busy
      <4> QED BY <1>b, <1>g, <1>u, <3>a, <4>1, <4>2 DEF AtHome
    <3>10. Fated(k)' BY <1>u, <3>a DEF Fated
    <3>11. Unhurried(k)'
      <4>1. \A i \in Of(k) : i.from \in Window BY <1>1, <2>f, MoveFields DEF MovesOK
      <4>2. \A v \in Window : leaving[v] = {} => leaving'[v] = {} BY <1>b
      <4> QED BY <1>4, <1>5, <1>g, <1>u, <2>f, <2>o, <3>a, <4>1, <4>2 DEF Unhurried
    <3>12. Marked(k)'
      <4>1. ASSUME NEW v \in Window, k \in away'[v]
            PROVE  \E i \in Of(k)' : i.src /\ i.from = v /\ (Busy(i) \/ i.event # "none")
        <5>1. v # w /\ k \in away[v] BY <1>b, <4>1
        <5>2. PICK i \in Of(k) : i.src /\ i.from = v /\ (Busy(i) \/ i.event # "none")
          BY <3>a, <5>1 DEF Marked
        <5>3. M(i).src /\ M(i).from = v /\ (Busy(M(i)) \/ M(i).event # "none")
          BY <1>4, <1>5, <2>f, <5>1, <5>2
        <5>4. M(i) \in Of(k)' BY <2>i, <5>1, <5>2
        <5> QED BY <5>3, <5>4
      <4>2. \A i \in Of(k) : i.from \in Window BY <1>1, <2>f, MoveFields DEF MovesOK
      <4>3. \A v \in Window : k \in away'[v] => k \in away[v] BY <1>b
      <4>4. \A j \in Of(k)' : j.host = "journaled" => k \notin away'[j.from]
        BY <1>4, <1>5, <2>f, <2>o, <3>a, <4>2, <4>3 DEF Marked
      <4> QED BY <4>1, <4>4 DEF Marked
    <3>13. Awaited(k)'
      <4> SUFFICES ASSUME NEW j \in Of(k)', j.host = "adopting"
                   PROVE  /\ j.to \in open' \cup removed
                          /\ j.to \in open' => \E i \in Of(k)' : i.to = j.to /\ i.tgt = "mounted"
        BY <1>u DEF Awaited
      <4>1. PICK p \in Of(k) : j = M(p) BY <2>o
      <4>2. p.host = "adopting" /\ j.to = p.to BY <1>4, <1>5, <2>f, <4>1
      <4>3. j.to \in open' \cup removed BY <1>g, <3>a, <4>2 DEF Awaited
      <4>4. ASSUME j.to \in open' PROVE \E i \in Of(k)' : i.to = j.to /\ i.tgt = "mounted"
        <5>1. PICK i \in Of(k) : i.to = p.to /\ i.tgt = "mounted"
          BY <1>g, <3>a, <4>2, <4>4 DEF Awaited
        <5>2. i.to # w /\ Shown(i) BY <1>g, <4>2, <4>4, <5>1 DEF Shown
        <5>3. M(i).to = p.to /\ M(i).tgt = "mounted" BY <1>4, <2>f, <5>1, <5>2
        <5> QED BY <2>i, <4>2, <5>2, <5>3
      <4> QED BY <4>3, <4>4
    <3> QED BY <3>1, <3>2, <3>3, <3>4, <3>5, <3>6, <3>7, <3>8, <3>9, <3>10, <3>11, <3>12, <3>13
  <2>2. EndedOK(k)'
    <3> SUFFICES ASSUME fate[k] = "ended" PROVE EndedOK(k)' BY <1>u DEF EndedOK
    <3>1. EndedOK(k) BY <1>0 DEF Fates
    <3>2. ASSUME NEW v \in Window, k \in records'[v], v \notin closing, leaving'[v] = {}
          PROVE  \/ \E i \in Of(k)' : i.to = v /\ Shown(i)
                 \/ \E i \in Of(k)' : i.from = v /\ i.event = "departed"
      <4>1. v # w /\ k \in records[v] /\ leaving[v] = {} BY <2>r, <3>2
      <4>2. CASE \E i \in Of(k) : i.to = v /\ Shown(i)
        <5>1. PICK i \in Of(k) : i.to = v /\ Shown(i) BY <4>2
        <5>2. M(i).to = v /\ Shown(M(i)) /\ M(i) \in Of(k)' BY <1>4, <1>5, <2>f, <2>i, <4>1, <5>1
        <5> QED BY <5>2
      <4>3. CASE \E i \in Of(k) : i.from = v /\ i.event = "departed"
        <5>1. PICK i \in Of(k) : i.from = v /\ i.event = "departed" BY <4>3
        <5>2. M(i).from = v /\ M(i).event = "departed" /\ M(i) \in Of(k)'
          BY <1>4, <1>5, <2>f, <2>i, <4>1, <5>1
        <5> QED BY <5>2
      <4> QED BY <3>1, <3>2, <4>1, <4>2, <4>3 DEF EndedOK
    <3>3. \A j \in Of(k)' : ~Busy(j) BY <1>5, <2>f, <2>o, <3>1 DEF EndedOK
    <3> QED BY <1>u, <3>1, <3>2, <3>3 DEF EndedOK
  <2> QED BY <2>1, <2>2
<1>14. Fates' BY <1>11 DEF Fates
<1> QED BY <1>6, <1>7, <1>8, <1>9, <1>10, <1>14 DEF JInv

LEMMA WriteNowKeeps ==
    ASSUME JInv, NEW w \in Window, WriteNow(w)
    PROVE  JInv'
<1>0. Typed /\ Closed /\ CaughtUp /\ Parties /\ Single /\ Fates BY DEF JInv
<1>1. RestOK /\ Known /\ DiskOK(disk) /\ MovesOK(moves) BY <1>0 DEF Typed
<1>2. Typed' BY <1>0, WriteNowTyped
<1>g. w \in open BY DEF WriteNow
<1>u. /\ disk' = disk /\ open' = open /\ active' = active /\ closing' = closing
           /\ removed' = removed /\ moves' = moves
      /\ records' = records /\ away' = away /\ leaving' = leaving /\ home' = home /\ fate' = fate
  BY DEF WriteNow, ghost
<1>b. /\ \A v \in Window : v # w => dirty'[v] = dirty[v] /\ saves'[v] = saves[v]
      /\ ~dirty'[w]
  BY <1>1 DEF WriteNow, RestOK
<1>c. saves'[w] # <<>> /\ saves'[w][Len(saves'[w])] = records[w] \ away[w]
  <2> DEFINE shot == records[w] \ away[w]
             q == IF saves[w] = <<>> THEN <<shot>> ELSE <<saves[w][1], shot>>
  <2>1. saves'[w] = q BY <1>1 DEF WriteNow, RestOK
  <2>2. q # <<>> /\ q[Len(q)] = shot
    <3> HIDE DEF shot
    <3>1. \A a : <<a>> # <<>> /\ Len(<<a>>) = 1 /\ <<a>>[1] = a OBVIOUS
    <3>2. \A a, b : <<a, b>> # <<>> /\ Len(<<a, b>>) = 2 /\ <<a, b>>[2] = b OBVIOUS
    <3>3. CASE saves[w] = <<>> BY <3>1, <3>3
    <3>4. CASE saves[w] # <<>> BY <3>2, <3>4
    <3> QED BY <3>3, <3>4
  <2> HIDE DEF q
  <2> QED BY <2>1, <2>2
<1>3. Closed' BY <1>0, <1>b, <1>g, <1>u DEF Closed
<1>4. CaughtUp'
  <2>1. open \subseteq Window BY <1>1 DEF RestOK
  <2>2. \A v \in Window : v # w => Latest(v)' = Latest(v) BY <1>b, <1>u DEF Latest, Names
  <2>3. Latest(w)' = records[w] \ away[w] BY <1>c DEF Latest
  <2> QED BY <1>0, <1>b, <1>u, <2>1, <2>2, <2>3 DEF CaughtUp
<1>5. Parties' BY <1>0, <1>u DEF Parties
<1>6. Single' BY <1>0, <1>u DEF Single
<1>7. Fates'
  <2> SUFFICES ASSUME NEW k \in Workspace PROVE LiveOK(k)' /\ EndedOK(k)' BY DEF Fates
  <2>1. Untouched(k) BY <1>u DEF Untouched
  <2> QED BY <1>0, <2>1, UntouchedKept DEF Fates
<1> QED BY <1>2, <1>3, <1>4, <1>5, <1>6, <1>7 DEF JInv

LEMMA TailFacts ==
    ASSUME NEW S, NEW s \in Seq(S), Len(s) \in {1, 2}
    PROVE  /\ Len(s) = 1 => Tail(s) = <<>>
           /\ Len(s) = 2 => Tail(s) # <<>> /\ Tail(s)[Len(Tail(s))] = s[2]
<1>1. s # <<>> OBVIOUS
<1>2. Tail(s) \in Seq(S) /\ Len(Tail(s)) = Len(s) - 1 BY <1>1
<1>3. \A i \in 1..Len(Tail(s)) : Tail(s)[i] = s[i + 1] BY <1>1, <1>2
<1>4. ASSUME Len(s) = 1 PROVE Tail(s) = <<>>
  <2> DEFINE t == Tail(s)
  <2>1. t \in Seq(S) /\ Len(t) = 0 BY <1>2, <1>4
  <2> HIDE DEF t
  <2>2. t = <<>> BY <2>1
  <2> QED BY <2>2 DEF t
<1>5. ASSUME Len(s) = 2 PROVE Tail(s) # <<>> /\ Tail(s)[Len(Tail(s))] = s[2]
  <2>1. Len(Tail(s)) = 1 BY <1>2, <1>5
  <2>2. Tail(s)[1] = s[2] BY <1>3, <2>1
  <2>3. Len(<<>>) = 0 OBVIOUS
  <2>4. Tail(s) # <<>>
    <3> DEFINE t == Tail(s)
    <3>1. Len(t) = 1 BY <2>1
    <3> HIDE DEF t
    <3>2. t # <<>> BY <2>3, <3>1
    <3> QED BY <3>2 DEF t
  <2> QED BY <2>1, <2>2, <2>4
<1> QED BY <1>4, <1>5

LEMMA SaveSessionKeeps ==
    ASSUME JInv, NEW w \in Window, SaveSession(w)
    PROVE  JInv'
<1>0. Typed /\ Closed /\ CaughtUp /\ Parties /\ Single /\ Fates BY DEF JInv
<1>1. RestOK /\ Known /\ DiskOK(disk) /\ MovesOK(moves) BY <1>0 DEF Typed
<1>2. Typed' BY <1>0, SaveSessionTyped
<1>g. saves[w] # <<>> BY DEF SaveSession
<1>u. /\ open' = open /\ active' = active /\ closing' = closing /\ removed' = removed
           /\ moves' = moves
      /\ records' = records /\ away' = away /\ leaving' = leaving /\ dirty' = dirty
           /\ home' = home /\ fate' = fate
  BY DEF SaveSession, ghost, webview
<1>b. /\ \A v \in Window : v # w => saves'[v] = saves[v]
      /\ saves'[w] = IF w \in open THEN Tail(saves[w]) ELSE <<>>
  BY <1>1 DEF SaveSession, RestOK
<1>s. saves[w][1] \in SUBSET Workspace /\ Len(saves[w]) \in {1, 2}
      /\ saves[w] \in Seq(SUBSET Workspace)
  BY <1>0, <1>1, <1>g, SaveTyped DEF RestOK
<1>o. open \subseteq Window /\ removed \subseteq closing BY <1>1 DEF RestOK
<1>c. w \notin closing => w \in open \ removed BY <1>0, <1>g, <1>o DEF Closed
<1> DEFINE d == WriteSnap(disk, w, saves[w][1])
<1>d. /\ d \in Disk /\ d.journal = disk.journal /\ DOMAIN d.snap = DOMAIN disk.snap \cup {w}
           /\ d.snap[w] = saves[w][1]
      /\ \A v \in DOMAIN disk.snap : v # w => d.snap[v] = disk.snap[v]
      /\ disk' = IF w \in closing THEN disk ELSE RetireSaved(d)
  BY <1>1, <1>s, WriteSnapFacts DEF SaveSession, DiskOK
<1> HIDE DEF d
<1>e. w \notin closing => DOMAIN d.snap \cap removed = {} BY <1>0, <1>c, <1>d DEF Closed
<1>f. /\ \A v \in Window : v # w => Names(disk', v) = Names(disk, v)
      /\ w \notin closing => /\ DOMAIN disk'.snap = DOMAIN disk.snap \cup {w}
           /\ Names(disk', w) = saves[w][1]
                             /\ disk'.journal \subseteq disk.journal
                             /\ \A r \in disk.journal : ~r.settled
                                  \/ (~r.discarded /\ r.to \in removed) => r \in disk'.journal
  <2>1. CASE w \in closing BY <1>d, <2>1
  <2>2. CASE w \notin closing
    <3>1. disk' = RetireSaved(d) BY <1>d, <2>2
    <3>2. disk'.snap = d.snap BY <1>d, <3>1, RetireSavedFacts
    <3>3. \A v \in Window : v # w => Names(disk', v) = Names(disk, v) BY <1>d, <3>2 DEF Names
    <3>4. Names(disk', w) = saves[w][1] BY <1>d, <3>2 DEF Names
    <3>5. /\ disk'.journal \subseteq disk.journal
          /\ \A r \in disk.journal : ~r.settled \/ (~r.discarded /\ r.to \in removed) =>
               r \in disk'.journal
      BY <1>d, <1>e, <2>2, <3>1, RetireKeeps
    <3> QED BY <1>d, <3>2, <3>3, <3>4, <3>5
  <2> QED BY <2>1, <2>2
<1>3. Closed'
  <2>1. DOMAIN disk'.snap \subseteq open \ removed BY <1>0, <1>c, <1>d, <1>f DEF Closed
  <2>2. \A v \in Window : saves'[v] # <<>> => v \in open \cup closing
    BY <1>0, <1>b, <1>g DEF Closed
  <2> QED BY <1>0, <1>u, <2>1, <2>2 DEF Closed
<1>4. CaughtUp'
  <2>0. \A v : Names(disk, v)' = Names(disk', v) BY DEF Names
  <2>1. \A v \in Window : v # w => Latest(v)' = Latest(v) BY <1>b, <1>f, <2>0 DEF Latest
  <2>2. ASSUME w \in open \ closing PROVE Latest(w)' = Latest(w)
    <3>1. saves'[w] = Tail(saves[w]) BY <1>b, <2>2
    <3>2. Latest(w) = saves[w][Len(saves[w])] BY <1>g DEF Latest
    <3>3. CASE Len(saves[w]) = 1
      <4>1. saves'[w] = <<>> BY <1>s, <3>1, <3>3, TailFacts
      <4> QED BY <1>f, <2>0, <2>2, <3>2, <3>3, <4>1 DEF Latest
    <3>4. CASE Len(saves[w]) = 2
      <4>1. saves'[w] # <<>> /\ saves'[w][Len(saves'[w])] = saves[w][2]
        BY <1>s, <3>1, <3>4, TailFacts
      <4> QED BY <3>2, <3>4, <4>1 DEF Latest
    <3> QED BY <1>s, <3>3, <3>4
  <2> QED BY <1>0, <1>o, <1>u, <2>1, <2>2 DEF CaughtUp
<1>5. Parties' BY <1>0, <1>u DEF Parties
<1>6. Single' BY <1>0, <1>u DEF Single
<1>7. Fates'
  <2> SUFFICES ASSUME NEW k \in Workspace PROVE LiveOK(k)' /\ EndedOK(k)' BY DEF Fates
  <2>1. /\ disk'.journal \subseteq disk.journal
        /\ \A r \in disk.journal : ~r.settled \/ (~r.discarded /\ r.to \in removed) =>
             r \in disk'.journal
    BY <1>d, <1>f
  <2>2. Untouched(k) BY <1>u, <2>1 DEF Untouched
  <2> QED BY <1>0, <2>2, UntouchedKept DEF Fates
<1> QED BY <1>2, <1>3, <1>4, <1>5, <1>6, <1>7 DEF JInv

LEMMA RequestCloseKeeps ==
    ASSUME JInv, NEW w \in Window, RequestClose(w) \/ CancelClose(w)
    PROVE  JInv'
<1>0. Typed /\ Closed /\ CaughtUp /\ Parties /\ Single /\ Fates BY DEF JInv
<1>2. Typed' BY <1>0, RequestCloseTyped, CancelCloseTyped
<1>u. /\ disk' = disk /\ open' = open /\ closing' = closing /\ removed' = removed
           /\ moves' = moves /\ saves' = saves
      /\ records' = records /\ away' = away /\ leaving' = leaving /\ dirty' = dirty
           /\ home' = home /\ fate' = fate
  BY DEF RequestClose, CancelClose, ghost, webview
<1>a. \A i \in moves : i.host = "queued" /\ i.from \in active' => i.from \in active
  BY DEF RequestClose, CancelClose, Touches
<1>3. Closed' BY <1>0, <1>u DEF Closed
<1>4. CaughtUp'
  <2>1. \A v : Latest(v)' = Latest(v) BY <1>u, LatestSame
  <2> QED BY <1>0, <1>u, <2>1 DEF CaughtUp
<1>5. Parties' BY <1>0, <1>u DEF Parties
<1>6. Single' BY <1>0, <1>u DEF Single
<1>7. Fates'
  <2> SUFFICES ASSUME NEW k \in Workspace PROVE LiveOK(k)' /\ EndedOK(k)' BY DEF Fates
  <2>1. Untouched(k) BY <1>a, <1>u DEF Untouched
  <2> QED BY <1>0, <2>1, UntouchedKept DEF Fates
<1> QED BY <1>2, <1>3, <1>4, <1>5, <1>6, <1>7 DEF JInv

LEMMA BeginClosingKeeps ==
    ASSUME JInv, NEW w \in Window, BeginClosing(w)
    PROVE  JInv'
<1>0. Typed /\ Closed /\ CaughtUp /\ Parties /\ Single /\ Fates BY DEF JInv
<1>1. RestOK /\ Known /\ DiskOK(disk) /\ MovesOK(moves) BY <1>0 DEF Typed
<1>2. Typed' BY <1>0, BeginClosingTyped
<1>g. w \in open \ closing /\ (w \in active \/ leaving[w] # {}) /\ closing' = closing \cup {w}
  BY DEF BeginClosing
<1>u. /\ disk' = disk /\ open' = open /\ active' = active /\ removed' = removed
           /\ moves' = moves /\ saves' = saves
      /\ records' = records /\ away' = away /\ leaving' = leaving /\ dirty' = dirty
           /\ home' = home
  BY DEF BeginClosing, webview
<1>f. \A k \in Workspace : fate'[k] = IF home[k] = w /\ fate[k] = "kept" THEN "ending"
      ELSE fate[k]
  BY DEF BeginClosing
<1>r. w \notin removed BY <1>1, <1>g DEF RestOK
<1>3. Closed' BY <1>0, <1>g, <1>u DEF Closed
<1>4. CaughtUp'
  <2>1. \A v : Latest(v)' = Latest(v) BY <1>u, LatestSame
  <2> QED BY <1>0, <1>g, <1>u, <2>1 DEF CaughtUp
<1>5. Parties' BY <1>0, <1>u DEF Parties
<1>6. Single' BY <1>0, <1>u DEF Single
<1>7. Fates'
  <2> SUFFICES ASSUME NEW k \in Workspace PROVE LiveOK(k)' /\ EndedOK(k)' BY DEF Fates
  <2>0. Of(k)' = Of(k) BY <1>u DEF Of
  <2>1. LiveOK(k)'
    <3> SUFFICES ASSUME Live(k)
                 PROVE  /\ OneBusy(k)' /\ Journaled(k)' /\ Recorded(k)' /\ Earlier(k)'
                             /\ Placed(k)' /\ Elsewhere(k)' /\ NotBack(k)'
                        /\ ShownAt(k)' /\ AtHome(k)' /\ Fated(k)' /\ Unhurried(k)' /\ Marked(k)'
                             /\ Awaited(k)'
      BY <1>f DEF Live, LiveOK
    <3>a. /\ OneBusy(k) /\ Journaled(k) /\ Recorded(k) /\ Earlier(k) /\ Placed(k)
               /\ Elsewhere(k) /\ NotBack(k)
          /\ ShownAt(k) /\ AtHome(k) /\ Fated(k) /\ Unhurried(k) /\ Marked(k) /\ Awaited(k)
      BY <1>0 DEF Fates, LiveOK
    <3>1. OneBusy(k)' /\ Earlier(k)' BY <1>u, <2>0, <3>a DEF OneBusy, Earlier
    <3>2. Journaled(k)' /\ Recorded(k)' BY <1>u, <2>0, <3>a DEF Journaled, Recorded
    <3>3. Placed(k)' /\ Elsewhere(k)' BY <1>u, <2>0, <3>a DEF Placed, Elsewhere
    <3>4. NotBack(k)' /\ ShownAt(k)' BY <1>u, <2>0, <3>a DEF NotBack, ShownAt
    <3>5. AtHome(k)' /\ Marked(k)' /\ Awaited(k)' BY <1>u, <2>0, <3>a DEF AtHome, Marked, Awaited
    <3>6. Unhurried(k)'
      <4>1. \A i \in Of(k) : i.host = "queued" => i.from # w BY <1>g, <3>a DEF Unhurried
      <4> QED BY <1>g, <1>u, <2>0, <3>a, <4>1 DEF Unhurried
    <3>7. Fated(k)' BY <1>f, <1>g, <1>r, <1>u, <3>a DEF Fated, Live
    <3> QED BY <3>1, <3>2, <3>3, <3>4, <3>5, <3>6, <3>7
  <2>2. EndedOK(k)'
    <3> SUFFICES ASSUME fate[k] = "ended" PROVE EndedOK(k)' BY <1>f DEF EndedOK
    <3> QED BY <1>0, <1>g, <1>u, <2>0 DEF Fates, EndedOK
  <2> QED BY <2>1, <2>2
<1> QED BY <1>2, <1>3, <1>4, <1>5, <1>6, <1>7 DEF JInv

LEMMA CloseSnapshotKeeps ==
    ASSUME JInv, NEW w \in Window, CloseSnapshot(w)
    PROVE  JInv'
<1>0. Typed /\ Closed /\ CaughtUp /\ Parties /\ Single /\ Fates BY DEF JInv
<1>1. RestOK /\ Known /\ DiskOK(disk) /\ MovesOK(moves) BY <1>0 DEF Typed
<1>2. Typed' BY <1>0, CloseSnapshotTyped
<1>g. w \in open /\ w \in closing /\ w \notin removed /\ removed' = removed \cup {w}
  BY DEF CloseSnapshot
<1>u. /\ open' = open /\ active' = active /\ closing' = closing /\ moves' = moves
           /\ saves' = saves
      /\ records' = records /\ away' = away /\ leaving' = leaving /\ dirty' = dirty
           /\ home' = home
  BY DEF CloseSnapshot, webview
<1>f. \A k \in Workspace :
         /\ home[k] # w \/ fate[k] # "ending" => fate'[k] = fate[k]
         /\ home[k] = w /\ fate[k] = "ending" => fate'[k] = IF Unsettled(k) THEN "contested"
              ELSE "ended"
  BY DEF CloseSnapshot
<1> DEFINE t == Tombstone(disk, w)
           d == RemoveSnap(t, w)
<1>t. /\ t \in Disk /\ t.snap = disk.snap
      /\ \A r \in disk.journal : ~(r.to = w /\ r.settled) => r \in t.journal
      /\ \A q \in t.journal :
                  \/ q \in disk.journal /\ ~(q.to = w /\ q.settled)
                  \/ \E r \in disk.journal : r.to = w /\ r.settled
                       /\ q = [r EXCEPT !.discarded = TRUE]
  BY <1>1, TombstoneFacts DEF DiskOK
<1>q. \A q \in t.journal :
         \/ q \in disk.journal /\ ~(q.to = w /\ q.settled)
         \/ q.discarded /\ \E r \in disk.journal : r.to = w /\ r.settled /\ q.ws = r.ws
  <2> HIDE DEF t
  <2>1. \A r \in disk.journal : r \in Entry BY <1>1 DEF DiskOK, Disk
  <2> QED BY <1>t, <2>1 DEF Entry
<1>d. /\ d \in Disk /\ d.journal = t.journal /\ DOMAIN d.snap = DOMAIN disk.snap \ {w}
      /\ \A v \in DOMAIN disk.snap \ {w} : d.snap[v] = disk.snap[v]
      /\ disk' = RetireSaved(d)
  <2> HIDE DEF t
  <2>1. d \in Disk /\ d.journal = t.journal /\ DOMAIN d.snap = DOMAIN t.snap \ {w}
        /\ \A v \in DOMAIN t.snap \ {w} : d.snap[v] = t.snap[v]
    BY <1>t, RemoveSnapFacts
  <2>2. disk' = RetireSaved(d) BY DEF CloseSnapshot, t
  <2> HIDE DEF d
  <2> QED BY <1>t, <2>1, <2>2
<1> HIDE DEF t, d
<1>e. disk'.snap = d.snap /\ DOMAIN d.snap \cap removed = {}
  BY <1>0, <1>d, RetireSavedFacts DEF Closed
<1>j. /\ disk'.journal \subseteq t.journal
      /\ \A r \in t.journal : ~r.settled \/ (~r.discarded /\ r.to \in removed) =>
           r \in disk'.journal
  BY <1>d, <1>e, RetireKeeps
<1>3. Closed' BY <1>0, <1>d, <1>e, <1>g, <1>u DEF Closed
<1>4. CaughtUp'
  <2>1. \A v : v # w => Latest(v)' = Latest(v) BY <1>d, <1>e, <1>u DEF Latest, Names
  <2> QED BY <1>0, <1>g, <1>u, <2>1 DEF CaughtUp
<1>5. Parties' BY <1>0, <1>g, <1>u DEF Parties
<1>6. Single' BY <1>0, <1>u DEF Single
<1>7. Fates'
  <2> SUFFICES ASSUME NEW k \in Workspace PROVE LiveOK(k)' /\ EndedOK(k)' BY DEF Fates
  <2>0. Of(k)' = Of(k) /\ LiveOK(k) /\ EndedOK(k) BY <1>0, <1>u DEF Of, Fates
  <2>1. ASSUME fate'[k] \in {"kept", "ending"} PROVE LiveOK(k)' /\ EndedOK(k)'
    <3>1. Live(k) /\ fate'[k] = fate[k] BY <1>f, <2>1 DEF Live
    <3>2. Recorded(k) /\ Fated(k) BY <2>0, <3>1 DEF LiveOK
    <3>3. home[k] # w
      <4>1. ASSUME home[k] = w PROVE FALSE
        <5>1. fate[k] = "ending" BY <1>g, <3>2, <4>1 DEF Fated
        <5> QED BY <1>f, <2>1, <4>1, <5>1
      <4> QED BY <4>1
    <3>4. \A r \in disk.journal : r.ws = k => ~(r.to = w /\ r.settled) BY <3>2, <3>3 DEF Recorded
    <3>5. \A r \in disk'.journal : r.ws = k => r \in disk.journal BY <1>j, <1>q, <3>4
    <3>6. \A r \in disk.journal : r.ws = k /\ (~r.settled \/ (~r.discarded /\ r.to \in removed)) =>
          r \in disk'.journal
      BY <1>j, <1>t, <3>4
    <3>7. Untouched(k) BY <1>g, <1>u, <3>1, <3>3, <3>5, <3>6 DEF Untouched
    <3> QED BY <1>0, <2>0, <3>7, UntouchedKept
  <2>2. ASSUME fate'[k] = "ended" PROVE LiveOK(k)' /\ EndedOK(k)'
    <3>1. ~Live(k)' BY <2>2 DEF Live
    <3>2. CASE fate[k] = "ended"
      <4>1. \A r \in disk.journal : r.ws = k => r.discarded BY <2>0, <3>2 DEF EndedOK
      <4>2. \A r \in disk'.journal : r.ws = k => r.discarded BY <1>j, <1>q, <4>1
      <4>3. EndedOK(k)' BY <1>u, <2>0, <3>2, <4>2 DEF EndedOK
      <4> QED BY <3>1, <4>3 DEF LiveOK
    <3>3. CASE fate[k] # "ended"
      <4>1. home[k] = w /\ fate[k] = "ending" /\ ~Unsettled(k) BY <1>f, <2>2, <3>3
      <4>2. \A i \in Of(k) : ~Busy(i) BY <4>1 DEF Of, Unsettled, Busy
      <4>3. Recorded(k) /\ ShownAt(k) BY <2>0, <4>1 DEF LiveOK, Live
      <4>4. \A r \in disk.journal : r.ws = k => r.settled /\ r.to = w
        BY <4>1, <4>2, <4>3 DEF Recorded
      <4>5. \A r \in disk'.journal : r.ws = k => r.discarded BY <1>j, <1>q, <4>4
      <4>6. \A v \in Window : k \in records[v] =>
              \/ v \in closing \/ leaving[v] # {}
              \/ \E m \in Of(k) : m.to = v /\ Shown(m)
              \/ \E m \in Of(k) : m.from = v /\ m.event = "departed"
        BY <1>g, <4>1, <4>2, <4>3 DEF ShownAt, Busy
      <4>7. EndedOK(k)' BY <1>u, <2>0, <4>2, <4>5, <4>6 DEF EndedOK
      <4> QED BY <3>1, <4>7 DEF LiveOK
    <3> QED BY <3>2, <3>3
  <2>3. ASSUME fate'[k] \notin {"kept", "ending", "ended"} PROVE LiveOK(k)' /\ EndedOK(k)'
    BY <2>3 DEF LiveOK, EndedOK, Live
  <2> QED BY <2>1, <2>2, <2>3
<1> QED BY <1>2, <1>3, <1>4, <1>5, <1>6, <1>7 DEF JInv

LEMMA CrashKeeps ==
    ASSUME Typed, Crash
    PROVE  JInv'
<1>2. Typed' BY CrashTyped
<1>u. /\ active' = {} /\ closing' = {} /\ removed' = {} /\ moves' = {}
      /\ away' = [w \in Window |-> {}] /\ leaving' = [w \in Window |-> {}]
      /\ dirty' = [w \in Window |-> FALSE] /\ saves' = [w \in Window |-> <<>>]
  BY DEF Crash
<1>d. disk' \in Recovered BY DEF Crash
<1>e. DiskOK(disk') /\ disk'.journal = {} BY <1>d, RecoveredFacts
<1> DEFINE snap == disk'.snap
           At(k) == {w \in DOMAIN snap : k \in snap[w]}
           F(k) == CASE fate[k] = "contested" -> "contested"
                     [] fate[k] \in {"ending", "ended"} /\ At(k) = {} -> "ended"
                     [] fate[k] \in {"kept", "ending"} /\ (\E w \in At(k) : At(k) = {w}) -> "kept"
                     [] OTHER -> "spoiled"
<1>o. DOMAIN snap \subseteq open' BY DEF Crash
<1>n. DOMAIN snap \subseteq Window BY <1>e, SnapTyped DEF DiskOK, Disk
<1>r. \A w \in Window : records'[w] = IF w \in DOMAIN snap THEN snap[w] ELSE {} BY DEF Crash
<1>h. \A k \in Workspace : home'[k] = IF At(k) = {} THEN home[k] ELSE CHOOSE w \in At(k) : TRUE
  BY DEF Crash
<1>f. \A k \in Workspace : fate'[k] = F(k)
  <2>1. fate' = [k \in Workspace |-> F(k)] BY DEF Crash
  <2> HIDE DEF F
  <2> QED BY <2>1
<1>a. \A k \in Workspace :
        /\ fate'[k] # "ending"
        /\ fate'[k] = "ended" => At(k) = {}
        /\ fate'[k] = "kept" => \E w \in At(k) : At(k) = {w}
  <2> HIDE DEF At
  <2> QED BY <1>f
<1> HIDE DEF F
<1>3. Closed' BY <1>o, <1>r, <1>u DEF Closed
<1>4. CaughtUp'
  <2>1. open' \subseteq Window BY <1>2 DEF Typed, RestOK
  <2>2. \A w \in Window : Latest(w)' = records'[w] BY <1>r, <1>u DEF Latest, Names
  <2> QED BY <1>u, <2>1, <2>2 DEF CaughtUp
<1>5. Parties' BY <1>u DEF Parties
<1>6. Single' BY <1>u DEF Single
<1>7. Fates'
  <2> SUFFICES ASSUME NEW k \in Workspace PROVE LiveOK(k)' /\ EndedOK(k)' BY DEF Fates
  <2>0. Of(k)' = {} BY <1>u DEF Of
  <2>1. \A w \in Window : k \in records'[w] <=> w \in At(k) BY <1>n, <1>r
  <2>2. LiveOK(k)'
    <3> SUFFICES ASSUME fate'[k] = "kept"
                 PROVE  /\ OneBusy(k)' /\ Journaled(k)' /\ Recorded(k)' /\ Earlier(k)'
                             /\ Placed(k)' /\ Elsewhere(k)' /\ NotBack(k)'
                        /\ ShownAt(k)' /\ AtHome(k)' /\ Fated(k)' /\ Unhurried(k)' /\ Marked(k)'
                             /\ Awaited(k)'
      BY <1>a DEF Live, LiveOK
    <3>1. OneBusy(k)' /\ Journaled(k)' /\ Earlier(k)' /\ Placed(k)' /\ Elsewhere(k)'
          /\ NotBack(k)' /\ Unhurried(k)' /\ Awaited(k)'
      BY <2>0 DEF OneBusy, Journaled, Earlier, Placed, Elsewhere, NotBack, Unhurried, Awaited
    <3>2. Recorded(k)' /\ Marked(k)' BY <1>e, <1>u, <2>0 DEF Recorded, Marked
    <3>3. PICK w \in At(k) : At(k) = {w} BY <1>a
    <3>4. home'[k] = w
      <4> HIDE DEF At
      <4> QED BY <1>h, <3>3
    <3>5. ShownAt(k)' BY <2>1, <3>3, <3>4 DEF ShownAt
    <3>6. w \in open' /\ k \in records'[w] BY <1>n, <1>o, <2>1, <3>3
    <3>7. AtHome(k)' BY <1>u, <3>4, <3>6 DEF AtHome
    <3>8. Fated(k)' BY <1>u DEF Fated
    <3> QED BY <3>1, <3>2, <3>5, <3>7, <3>8
  <2>3. EndedOK(k)' BY <1>a, <1>e, <2>0, <2>1 DEF EndedOK
  <2> QED BY <2>2, <2>3
<1> QED BY <1>2, <1>3, <1>4, <1>5, <1>6, <1>7 DEF JInv

LEMMA InitJInv == Init => JInv
<1> SUFFICES ASSUME Init PROVE JInv OBVIOUS
<1>1. PICK start \in Starts : disk = [journal |-> {}, snap |-> start] BY DEF Init
<1>2. start \in Snapshots /\ \A k \in Workspace : \E w \in DOMAIN start :
         k \in start[w] /\ \A v \in DOMAIN start \ {w} : k \notin start[v]
  BY StartsHoldEachOnce
<1>3. disk.journal = {} /\ disk.snap = start /\ open = DOMAIN start BY <1>1 DEF Init
<1>u. /\ active = {} /\ closing = {} /\ removed = {} /\ moves = {}
      /\ away = [w \in Window |-> {}] /\ leaving = [w \in Window |-> {}]
      /\ dirty = [w \in Window |-> FALSE] /\ saves = [w \in Window |-> <<>>]
      /\ fate = [k \in Workspace |-> "kept"]
  BY DEF Init
<1>n. DOMAIN start \subseteq Window BY <1>2, SnapTyped
<1>r. \A w \in Window : records[w] = IF w \in DOMAIN start THEN start[w] ELSE {} BY <1>3 DEF Init
<1>4. Typed BY InitTyped
<1>5. Closed BY <1>3, <1>r, <1>u DEF Closed
<1>6. CaughtUp
  <2>1. \A w \in Window : Latest(w) = records[w] BY <1>3, <1>r, <1>u DEF Latest, Names
  <2> QED BY <1>3, <1>n, <1>u, <2>1 DEF CaughtUp
<1>7. Parties /\ Single BY <1>u DEF Parties, Single
<1>8. Fates
  <2> SUFFICES ASSUME NEW k \in Workspace PROVE LiveOK(k) /\ EndedOK(k) BY DEF Fates
  <2>0. Of(k) = {} /\ fate[k] = "kept" BY <1>u DEF Of
  <2>1. PICK w \in DOMAIN start : k \in start[w]
             /\ \A v \in DOMAIN start \ {w} : k \notin start[v]
    BY <1>2
  <2>2. home[k] = w
    <3>1. home[k] = CHOOSE v \in open : k \in disk.snap[v] BY DEF Init
    <3>2. home[k] = CHOOSE v \in DOMAIN start : k \in start[v] BY <3>1, <1>3
    <3> QED BY <2>1, <3>2
  <2>3. \A v \in Window : k \in records[v] <=> v = w BY <1>n, <1>r, <2>1
  <2>4. OneBusy(k) /\ Journaled(k) /\ Earlier(k) /\ Placed(k) /\ Elsewhere(k) /\ NotBack(k)
        /\ Unhurried(k) /\ Awaited(k)
    BY <2>0 DEF OneBusy, Journaled, Earlier, Placed, Elsewhere, NotBack, Unhurried, Awaited
  <2>5. Recorded(k) /\ Marked(k) BY <1>3, <1>u, <2>0 DEF Recorded, Marked
  <2>6. ShownAt(k) BY <2>2, <2>3 DEF ShownAt
  <2>7. AtHome(k) BY <1>3, <1>n, <1>u, <2>1, <2>2, <2>3 DEF AtHome
  <2>8. Fated(k) BY <1>u, <2>0 DEF Fated
  <2> QED BY <2>0, <2>4, <2>5, <2>6, <2>7, <2>8 DEF LiveOK, EndedOK
<1> QED BY <1>4, <1>5, <1>6, <1>7, <1>8 DEF JInv

LEMMA NextKeeps == ASSUME ~MovesOn, JInv, [Next]_vars PROVE JInv'
<1>0. Typed /\ Closed /\ CaughtUp /\ Parties /\ Single /\ Fates BY DEF JInv
<1>1. CASE UNCHANGED vars
  <2>1. /\ disk' = disk /\ open' = open /\ active' = active /\ closing' = closing
             /\ removed' = removed /\ moves' = moves
        /\ records' = records /\ away' = away /\ leaving' = leaving /\ dirty' = dirty
             /\ saves' = saves
        /\ home' = home /\ fate' = fate
    BY <1>1 DEF vars
  <2>2. Typed' BY <1>0, <1>1, NextTyped
  <2>3. Closed' /\ Parties' /\ Single' BY <1>0, <2>1 DEF Closed, Parties, Single
  <2>4. \A v : Latest(v)' = Latest(v) BY <2>1, LatestSame
  <2>5. CaughtUp' BY <1>0, <2>1, <2>4 DEF CaughtUp
  <2>6. \A k \in Workspace : Untouched(k) BY <2>1 DEF Untouched
  <2>7. Fates' BY <1>0, <2>6, UntouchedKept DEF Fates
  <2> QED BY <2>2, <2>3, <2>5, <2>7 DEF JInv
<1>2. CASE Next
  <2>1. ASSUME NEW k \in Workspace, NEW from \in Window, NEW to \in Window, StartMove(k, from, to)
        PROVE JInv'
    BY <2>1, StartMoveKeeps
  <2>2. ASSUME NEW m \in moves, HostStep(m) \/ WindowStep(m) \/ SendContent(m) \/ AdoptFailed(m)
               \/ Expire(m)
        PROVE JInv'
    BY <2>2, OpenArrivalKeeps, AdoptDoneKeeps, MarkAdoptedKeeps, HandBackKeeps, ReplyKeeps,
       MountKeeps, DiscardArrivalKeeps,
       DepartedKeeps, ArrivalFailedKeeps, SendContentKeeps, AdoptFailedKeeps,
           ExpireKeeps DEF HostStep, WindowStep
  <2>3. ASSUME NEW w \in Window, WriteNow(w) \/ SaveSession(w) \/ RequestClose(w)
               \/ CancelClose(w)
                                  \/ BeginClosing(w) \/ CloseSnapshot(w)
                                       \/ Destroyed(w) PROVE JInv'
    BY <2>3, WriteNowKeeps, SaveSessionKeeps, RequestCloseKeeps, BeginClosingKeeps,
       CloseSnapshotKeeps, DestroyedKeeps
  <2>4. CASE Crash BY <1>0, <2>4, CrashKeeps
  <2> QED BY <1>2, <2>1, <2>2, <2>3, <2>4 DEF Next
<1> QED BY <1>1, <1>2

-----------------------------------------------------------------------------
(* What a crash is recovered into *)

LEMMA HoldersAre ==
    ASSUME NEW d, NEW k PROVE \A w : w \in Holders(d, k) <=> k \in Names(d, w)
BY DEF Holders, Names

\* Only the snapshot of a window with a save on its way, or being closed, may be
\* torn.
LEMMA TornNames ==
    ASSUME JInv, NEW e \in Torn
    PROVE  \A v \in Window : \/ v \in open /\ (saves[v] # <<>> \/ v \in closing)
                             \/ Names(e, v) = Names(disk, v)
<1>0. Typed /\ Closed BY DEF JInv
<1>1. DiskOK(disk) /\ disk \in Disk /\ MovesOK(moves) /\ RestOK BY <1>0 DEF Typed, DiskOK
<1>2. CASE e = disk BY <1>2
<1>3. CASE \E w \in {v \in Window : saves[v] # <<>> /\ v \notin closing} : e = WriteSnap(disk, w,
           saves[w][1])
  <2>1. PICK w \in Window : saves[w] # <<>> /\ w \notin closing
             /\ e = WriteSnap(disk, w, saves[w][1])
    BY <1>3
  <2>2. w \in open BY <1>0, <2>1 DEF Closed
  <2>3. saves[w][1] \in SUBSET Workspace BY <1>0, <2>1, SaveTyped
  <2>4. /\ DOMAIN e.snap = DOMAIN disk.snap \cup {w}
        /\ \A v \in DOMAIN disk.snap : v # w => e.snap[v] = disk.snap[v]
    BY <1>1, <2>1, <2>3, WriteSnapFacts
  <2>5. \A v : v # w => Names(e, v) = Names(disk, v) BY <2>4 DEF Names
  <2> QED BY <2>1, <2>2, <2>5
<1>4. CASE \E m \in moves : e = Settle(disk, m.ws)
  <2>1. PICK m \in moves : e = Settle(disk, m.ws) BY <1>4
  <2>2. m.ws \in Workspace BY <1>1, MoveFields DEF MovesOK
  <2>3. e.snap = disk.snap BY <1>1, <2>1, <2>2, SettleFacts
  <2> QED BY <2>3, SameNames
<1>5. CASE \E m \in moves : e = Return(disk, m)
  <2>1. PICK m \in moves : e = Return(disk, m) BY <1>5
  <2>2. m \in Move BY <1>1, MoveFields DEF MovesOK
  <2>3. e.snap = disk.snap BY <1>1, <2>1, <2>2, ReturnFacts
  <2> QED BY <2>3, SameNames
<1>6. CASE \E w \in closing \ removed : e = Tombstone(disk, w)
           \/ e = RemoveSnap(Tombstone(disk, w), w)
  <2>1. PICK w \in closing \ removed : e = Tombstone(disk, w)
             \/ e = RemoveSnap(Tombstone(disk, w), w)
    BY <1>6
  <2>2. w \in Window BY <1>1 DEF RestOK
  <2> DEFINE t == Tombstone(disk, w)
  <2>3. t \in Disk /\ t.snap = disk.snap BY <1>1, <2>2, TombstoneFacts
  <2>4. e = t \/ e = RemoveSnap(t, w) BY <2>1
  <2> HIDE DEF t
  <2>5. CASE e = t BY <2>3, <2>5, SameNames
  <2>6. CASE e = RemoveSnap(t, w)
    <3>1. /\ DOMAIN e.snap = DOMAIN disk.snap \ {w}
          /\ \A v \in DOMAIN disk.snap \ {w} : e.snap[v] = disk.snap[v]
      BY <2>3, <2>6, RemoveSnapFacts
    <3>2. \A v : v # w => Names(e, v) = Names(disk, v) BY <3>1 DEF Names
    <3>3. w \notin open => Names(e, w) = Names(disk, w) BY <1>0, <3>1 DEF Names, Closed
    <3> QED BY <2>1, <3>2, <3>3
  <2> QED BY <2>4, <2>5, <2>6
<1> QED BY <1>2, <1>3, <1>4, <1>5, <1>6 DEF Torn

\* The record a Workspace the user keeps has after a crash: the one it had, or
\* the one its hand-back is writing.
LEMMA TornKept ==
    ASSUME JInv, NEW e \in Torn, NEW k \in Workspace, fate[k] = "kept"
    PROVE  /\ \A q \in e.journal : q.ws = k =>
                /\ ~q.discarded
                /\ \/ \E r \in disk.journal : r.ws = k /\ r.from = q.from /\ r.to = q.to
                   \/ \E m \in Of(k) : m.host = "returning" /\ q.from = m.to /\ q.to = m.from
           /\ (\E r \in disk.journal : r.ws = k) => \E q \in e.journal : q.ws = k
<1>0. Typed /\ Fates BY DEF JInv
<1>1. DiskOK(disk) /\ disk \in Disk /\ MovesOK(moves) /\ RestOK BY <1>0 DEF Typed, DiskOK
<1>a. Recorded(k) /\ Fated(k) BY <1>0 DEF Fates, LiveOK, Live
<1>b. \A r \in disk.journal : r.ws = k => ~r.discarded BY <1>1, <1>a DEF Recorded, DiskOK, EntryOK
<1>2. CASE e.journal = disk.journal BY <1>b, <1>2
<1>3. CASE \E w \in {v \in Window : saves[v] # <<>> /\ v \notin closing} : e = WriteSnap(disk, w,
           saves[w][1])
  <2>1. PICK w \in Window : saves[w] # <<>> /\ e = WriteSnap(disk, w, saves[w][1]) BY <1>3
  <2>2. saves[w][1] \in SUBSET Workspace BY <1>0, <2>1, SaveTyped
  <2>3. e.journal = disk.journal BY <1>1, <2>1, <2>2, WriteSnapFacts
  <2> QED BY <1>2, <2>3
<1>4. CASE \E m \in moves : e = Settle(disk, m.ws)
  <2>1. PICK m \in moves : e = Settle(disk, m.ws) BY <1>4
  <2>2. m.ws \in Workspace BY <1>1, MoveFields DEF MovesOK
  <2>3. /\ \A r \in disk.journal : r.ws # m.ws => r \in e.journal
        /\ \A r \in disk.journal : r.ws = m.ws => [r EXCEPT !.settled = TRUE] \in e.journal
        /\ \A q \in e.journal :
                  \/ q \in disk.journal /\ q.ws # m.ws
                  \/ \E r \in disk.journal : r.ws = m.ws /\ q = [r EXCEPT !.settled = TRUE]
    BY <1>1, <2>1, <2>2, SettleFacts
  <2>4. ASSUME NEW r \in disk.journal, NEW q, q = [r EXCEPT !.settled = TRUE]
        PROVE  q.ws = r.ws /\ q.from = r.from /\ q.to = r.to /\ q.discarded = r.discarded
    BY <1>1, <2>4 DEF Disk, Entry
  <2>5. ASSUME NEW q \in e.journal, q.ws = k
        PROVE  ~q.discarded /\ \E r \in disk.journal : r.ws = k /\ r.from = q.from /\ r.to = q.to
    <3>1. CASE q \in disk.journal BY <1>b, <2>5, <3>1
    <3>2. CASE \E r \in disk.journal : q = [r EXCEPT !.settled = TRUE]
      <4>1. PICK r \in disk.journal : q = [r EXCEPT !.settled = TRUE] BY <3>2
      <4>2. q.ws = r.ws /\ q.from = r.from /\ q.to = r.to /\ q.discarded = r.discarded
        BY <2>4, <4>1
      <4> QED BY <1>b, <2>5, <4>2
    <3> QED BY <2>3, <3>1, <3>2
  <2>6. ASSUME NEW r \in disk.journal, r.ws = k PROVE \E q \in e.journal : q.ws = k
    <3>1. CASE r.ws # m.ws BY <2>3, <2>6, <3>1
    <3>2. CASE r.ws = m.ws
      <4>1. PICK q \in e.journal : q = [r EXCEPT !.settled = TRUE] BY <2>3, <3>2
      <4> QED BY <2>4, <2>6, <4>1
    <3> QED BY <3>1, <3>2
  <2> QED BY <2>5, <2>6
<1>5. CASE \E m \in {i \in moves : i.host = "returning" /\ i.from \in open} : e = Return(disk, m)
  <2>1. PICK m \in moves : m.host = "returning" /\ e = Return(disk, m) BY <1>5
  <2>2. m \in Move BY <1>1, MoveFields DEF MovesOK
  <2> DEFINE p == [ws |-> m.ws, from |-> m.to, to |-> m.from, settled |-> TRUE,
             discarded |-> FALSE]
  <2>3. e.journal = {r \in disk.journal : r.ws # m.ws} \cup {p} BY <1>1, <2>1, <2>2, ReturnFacts
  <2>4. p.ws = m.ws /\ p.from = m.to /\ p.to = m.from /\ ~p.discarded OBVIOUS
  <2> HIDE DEF p
  <2> QED BY <1>b, <2>1, <2>3, <2>4 DEF Of
<1>6. CASE \E w \in closing \ removed : e = Tombstone(disk, w)
           \/ e = RemoveSnap(Tombstone(disk, w), w)
  <2>1. PICK w \in closing \ removed : e = Tombstone(disk, w)
             \/ e = RemoveSnap(Tombstone(disk, w), w)
    BY <1>6
  <2>2. w \in Window BY <1>1 DEF RestOK
  <2> DEFINE t == Tombstone(disk, w)
  <2>3. /\ t \in Disk
        /\ \A r \in disk.journal : ~(r.to = w /\ r.settled) => r \in t.journal
        /\ \A q \in t.journal :
                  \/ q \in disk.journal /\ ~(q.to = w /\ q.settled)
                  \/ \E r \in disk.journal : r.to = w /\ r.settled
                       /\ q = [r EXCEPT !.discarded = TRUE]
    BY <1>1, <2>2, TombstoneFacts
  <2>4. e = t \/ e = RemoveSnap(t, w) BY <2>1
  <2> HIDE DEF t
  <2>5. e.journal = t.journal BY <2>3, <2>4, RemoveSnapFacts
  <2>6. \A r \in disk.journal : r.ws = k => ~(r.to = w /\ r.settled)
    BY <1>a, <2>1 DEF Recorded, Fated
  <2>7. ASSUME NEW q \in e.journal, q.ws = k PROVE q \in disk.journal
    <3>1. CASE \E r \in disk.journal : r.to = w /\ r.settled /\ q = [r EXCEPT !.discarded = TRUE]
      <4>1. PICK r \in disk.journal : r.to = w /\ r.settled /\ q = [r EXCEPT !.discarded = TRUE]
        BY <3>1
      <4>2. r \in Entry BY <1>1 DEF Disk
      <4>3. q.ws = r.ws BY <4>1, <4>2 DEF Entry
      <4> QED BY <2>6, <2>7, <4>1, <4>3
    <3> QED BY <2>3, <2>5, <3>1
  <2> QED BY <1>b, <2>3, <2>5, <2>6, <2>7
<1> QED BY <1>2, <1>3, <1>4, <1>5, <1>6 DEF Torn

\* What went with its window is not brought back by a record.
LEMMA TornEnded ==
    ASSUME JInv, NEW e \in Torn, NEW k \in Workspace, fate[k] = "ended"
    PROVE  \A q \in e.journal : q.ws = k => q.discarded
<1>0. Typed /\ Fates BY DEF JInv
<1>1. DiskOK(disk) /\ disk \in Disk /\ MovesOK(moves) /\ RestOK BY <1>0 DEF Typed, DiskOK
<1>a. /\ \A r \in disk.journal : r.ws = k => r.discarded
      /\ \A m \in moves : m.ws = k => m.host = "over"
  BY <1>0 DEF Fates, EndedOK, Of, Busy
<1>2. CASE e.journal = disk.journal BY <1>a, <1>2
<1>3. CASE \E w \in {v \in Window : saves[v] # <<>> /\ v \notin closing} : e = WriteSnap(disk, w,
           saves[w][1])
  <2>1. PICK w \in Window : saves[w] # <<>> /\ e = WriteSnap(disk, w, saves[w][1]) BY <1>3
  <2>2. saves[w][1] \in SUBSET Workspace BY <1>0, <2>1, SaveTyped
  <2>3. e.journal = disk.journal BY <1>1, <2>1, <2>2, WriteSnapFacts
  <2> QED BY <1>2, <2>3
<1>4. CASE \E m \in {i \in moves : i.host = "adopting"} : e = Settle(disk, m.ws)
  <2>1. PICK m \in moves : m.host = "adopting" /\ e = Settle(disk, m.ws) BY <1>4
  <2>2. m.ws \in Workspace BY <1>1, MoveFields DEF MovesOK
  <2>3. \A q \in e.journal :
                  \/ q \in disk.journal /\ q.ws # m.ws
                  \/ \E r \in disk.journal : r.ws = m.ws /\ q = [r EXCEPT !.settled = TRUE]
    BY <1>1, <2>1, <2>2, SettleFacts
  <2>4. \A r \in disk.journal : r \in Entry BY <1>1 DEF Disk
  <2>5. \A q \in e.journal : q \in disk.journal \/ q.ws = m.ws BY <2>3, <2>4 DEF Entry
  <2> QED BY <1>a, <2>1, <2>5
<1>5. CASE \E m \in {i \in moves : i.host = "returning" /\ i.from \in open} : e = Return(disk, m)
  <2>1. PICK m \in moves : m.host = "returning" /\ e = Return(disk, m) BY <1>5
  <2>2. m \in Move BY <1>1, MoveFields DEF MovesOK
  <2> DEFINE p == [ws |-> m.ws, from |-> m.to, to |-> m.from, settled |-> TRUE,
             discarded |-> FALSE]
  <2>3. e.journal = {r \in disk.journal : r.ws # m.ws} \cup {p} BY <1>1, <2>1, <2>2, ReturnFacts
  <2>4. p.ws = m.ws OBVIOUS
  <2> HIDE DEF p
  <2> QED BY <1>a, <2>1, <2>3, <2>4
<1>6. CASE \E w \in closing \ removed : e = Tombstone(disk, w)
           \/ e = RemoveSnap(Tombstone(disk, w), w)
  <2>1. PICK w \in closing \ removed : e = Tombstone(disk, w)
             \/ e = RemoveSnap(Tombstone(disk, w), w)
    BY <1>6
  <2>2. w \in Window BY <1>1 DEF RestOK
  <2> DEFINE t == Tombstone(disk, w)
  <2>3. /\ t \in Disk
        /\ \A q \in t.journal :
                  \/ q \in disk.journal /\ ~(q.to = w /\ q.settled)
                  \/ \E r \in disk.journal : r.to = w /\ r.settled
                       /\ q = [r EXCEPT !.discarded = TRUE]
    BY <1>1, <2>2, TombstoneFacts
  <2>4. e = t \/ e = RemoveSnap(t, w) BY <2>1
  <2> HIDE DEF t
  <2>5. e.journal = t.journal BY <2>3, <2>4, RemoveSnapFacts
  <2>6. \A r \in disk.journal : r \in Entry BY <1>1 DEF Disk
  <2> QED BY <1>a, <2>3, <2>5, <2>6 DEF Entry
<1> QED BY <1>2, <1>3, <1>4, <1>5, <1>6 DEF Torn

\* No record of it, no move, and a window that has caught up shows it: it is in
\* that window's snapshot.
LEMMA SavedAtHome ==
    ASSUME JInv, NEW k \in Workspace, fate[k] = "kept", ~\E r \in disk.journal : r.ws = k,
           home[k] \in open /\ k \in records[home[k]] => ~Behind(home[k])
    PROVE  home[k] \in open /\ home[k] \notin closing /\ saves[home[k]] = <<>>
           /\ k \in Names(disk, home[k])
<1>0. Typed /\ CaughtUp /\ Parties /\ Fates BY DEF JInv
<1>a. Journaled(k) /\ AtHome(k) /\ Marked(k) BY <1>0 DEF Fates, LiveOK, Live
<1>b. \A m \in Of(k) : ~Busy(m) BY <1>a DEF Journaled
<1>1. home[k] \in open /\ k \in records[home[k]] BY <1>a, <1>b DEF AtHome, Busy
<1>2. home[k] \in Window BY <1>0 DEF Typed, RestOK
<1>3. ~Behind(home[k]) BY <1>1
<1>4. ~dirty[home[k]] /\ saves[home[k]] = <<>> /\ home[k] \notin closing BY <1>1, <1>3 DEF Behind
<1>5. k \notin away[home[k]]
  <2>1. ASSUME k \in away[home[k]] PROVE FALSE
    <3>1. PICK m \in Of(k) : m.src /\ m.from = home[k] /\ (Busy(m) \/ m.event # "none")
      BY <1>a, <1>2, <2>1 DEF Marked
    <3>2. m \in moves /\ m.event # "none" BY <1>b, <3>1 DEF Of
    <3> QED BY <1>1, <1>3, <3>1, <3>2 DEF Behind
  <2> QED BY <2>1
<1>6. Latest(home[k]) = records[home[k]] \ away[home[k]] BY <1>0, <1>1, <1>4 DEF CaughtUp
<1>7. Latest(home[k]) = Names(disk, home[k]) BY <1>4 DEF Latest
<1> QED BY <1>1, <1>4, <1>5, <1>6, <1>7

\* A record of a Workspace the user keeps brings it back.
LEMMA RecordBringsBack ==
    ASSUME JInv, NEW e \in Torn, NEW k \in Workspace, fate[k] = "kept",
           \E q \in e.journal : q.ws = k
    PROVE  Holders(RestoreArrivals(e), k) # {}
<1>1. DiskOK(e) BY TornOK DEF JInv
<1>2. PICK q \in e.journal : q.ws = k OBVIOUS
<1>3. ~q.discarded /\ q.from # q.to BY <1>1, <1>2, TornKept DEF DiskOK, EntryOK
<1>4. \A r \in e.journal : r.ws = k => r = q BY <1>1, <1>2 DEF DiskOK, Orderly
<1>5. Gains(k, q.to, e.journal) BY <1>2, <1>3 DEF Gains
<1>6. ~Loses(k, q.to, e.journal) BY <1>3, <1>4 DEF Loses
<1>7. k \in Names(RestoreArrivals(e), q.to) BY <1>1, <1>5, <1>6, RestoredFacts
<1> QED BY <1>7, HoldersAre

\* A Workspace every window that shows it has saved is restored.
LEMMA SavedIsSafe ==
    ASSUME JInv, NEW k \in Workspace, fate[k] = "kept",
           ~\E w \in Window : k \in records[w] /\ Behind(w), NEW d \in Recovered
    PROVE  Holders(d, k) # {}
<1>0. Typed BY DEF JInv
<1>1. PICK e \in Torn : d = RestoreArrivals(e) BY <1>0, RecoveredFacts
<1>2. CASE \E q \in e.journal : q.ws = k BY <1>1, <1>2, RecordBringsBack
<1>3. CASE ~\E q \in e.journal : q.ws = k
  <2>0. home[k] \in Window BY <1>0 DEF Typed, RestOK
  <2>1. ~\E r \in disk.journal : r.ws = k BY <1>3, TornKept
  <2>2. home[k] \in open /\ home[k] \notin closing /\ saves[home[k]] = <<>>
        /\ k \in Names(disk, home[k])
    BY <2>0, <2>1, SavedAtHome
  <2>3. k \in Names(e, home[k]) BY <2>0, <2>2, TornNames
  <2>4. ~Loses(k, home[k], e.journal) BY <1>3 DEF Loses
  <2>5. k \in Names(d, home[k]) BY <1>0, <1>1, <2>3, <2>4, TornOK, RestoredFacts
  <2> QED BY <2>5, HoldersAre
<1> QED BY <1>2, <1>3

\* So is one in flight, from its record.
LEMMA FlightIsSafe ==
    ASSUME JInv, NEW k \in Workspace, fate[k] = "kept", Unsettled(k), NEW d \in Recovered
    PROVE  Holders(d, k) # {}
<1>0. Typed /\ Fates BY DEF JInv
<1>1. PICK e \in Torn : d = RestoreArrivals(e) BY <1>0, RecoveredFacts
<1>2. PICK m \in Of(k) : Busy(m) BY DEF Unsettled, Of, Busy
<1>3. Journaled(k) BY <1>0 DEF Fates, LiveOK, Live
<1>4. \E r \in disk.journal : r.ws = k BY <1>2, <1>3 DEF Journaled
<1>5. \E q \in e.journal : q.ws = k BY <1>4, TornKept
<1> QED BY <1>1, <1>5, RecordBringsBack

LEMMA KeptIsSafe == JInv => LostOnlyUnsaved
BY SavedIsSafe, FlightIsSafe DEF LostOnlyUnsaved

\* Once every window has caught up, a snapshot names a Workspace only where the
\* host holds it, or where it is being adopted from.
LEMMA NamedWhere ==
    ASSUME JInv, \A w \in Window : ~Behind(w), NEW k \in Workspace, NEW v \in Window,
           k \in Names(disk, v)
    PROVE  /\ fate[k] = "kept" => v = home[k] \/ \E m \in Of(k) : m.from = v
                /\ m.host = "adopting"
           /\ fate[k] # "ended"
<1>0. Typed /\ Closed /\ CaughtUp /\ Parties /\ Fates BY DEF JInv
<1>1. v \in open BY <1>0 DEF Names, Closed
<1>2. ~dirty[v] /\ saves[v] = <<>> /\ v \notin closing /\ leaving[v] = {} BY <1>1 DEF Behind
<1>3. Latest(v) = records[v] \ away[v] BY <1>0, <1>1, <1>2 DEF CaughtUp
<1>4. k \in records[v] BY <1>2, <1>3 DEF Latest
<1>5. ~\E m \in Of(k) : m.from = v /\ m.event = "departed" BY <1>1 DEF Behind, Of
<1>6. ~\E m \in Of(k) : m.to = v /\ Shown(m) BY <1>1 DEF Behind, Arriving, Of, Shown
<1>7. ASSUME fate[k] = "kept"
      PROVE v = home[k] \/ \E m \in Of(k) : m.from = v /\ m.host = "adopting"
  <2>1. ShownAt(k) BY <1>0, <1>7 DEF Fates, LiveOK, Live
  <2> QED BY <1>2, <1>4, <1>5, <1>6, <2>1 DEF ShownAt
<1>8. ASSUME fate[k] = "ended" PROVE FALSE
  <2>1. EndedOK(k) BY <1>0 DEF Fates
  <2> QED BY <1>2, <1>4, <1>5, <1>6, <1>8, <2>1 DEF EndedOK
<1> QED BY <1>7, <1>8

LEMMA LeftIsRestored == JInv => RestoredAsLeft
<1> SUFFICES ASSUME JInv, \A w \in Window : ~Behind(w), NEW d \in Recovered, NEW k \in Workspace
             PROVE  /\ fate[k] = "kept" => \E w \in Window : Holders(d, k) = {w}
                    /\ fate[k] = "ended" => Holders(d, k) = {}
  BY DEF RestoredAsLeft
<1>0. Typed /\ Closed /\ Fates BY DEF JInv
<1>1. PICK e \in Torn : d = RestoreArrivals(e) BY <1>0, RecoveredFacts
<1>2. DiskOK(e) /\ DiskOK(disk) BY <1>0, TornOK DEF Typed
<1>3. \A w, j : j \in Names(d, w) <=> (j \in Names(e, w) \/ Gains(j, w, e.journal))
      /\ ~Loses(j, w, e.journal)
  BY <1>1, <1>2, RestoredFacts
<1>4. \A v \in Window : Names(e, v) = Names(disk, v) BY TornNames DEF Behind
<1>5. \A v : k \in Names(d, v) => v \in Window
  <2>1. d \in Disk BY <1>0, RecoveredFacts DEF DiskOK
  <2>2. DOMAIN d.snap \subseteq Window BY <2>1, SnapTyped DEF Disk
  <2> QED BY <2>2 DEF Names
<1>6. ASSUME fate[k] = "kept" PROVE \E w \in Window : Holders(d, k) = {w}
  <2>a. /\ OneBusy(k) /\ Journaled(k) /\ Recorded(k) /\ Placed(k)
    BY <1>0, <1>6 DEF Fates, LiveOK, Live
  <2>b. home[k] \in Window BY <1>0 DEF Typed, RestOK
  <2>t. /\ \A q \in e.journal : q.ws = k =>
                /\ ~q.discarded
                /\ \/ \E r \in disk.journal : r.ws = k /\ r.from = q.from /\ r.to = q.to
                   \/ \E m \in Of(k) : m.host = "returning" /\ q.from = m.to /\ q.to = m.from
        /\ (\E r \in disk.journal : r.ws = k) => \E q \in e.journal : q.ws = k
    BY <1>6, TornKept
  <2>n. \A v \in Window : k \in Names(e, v) => v = home[k] \/ \E m \in Of(k) : m.from = v
        /\ m.host = "adopting"
    BY <1>4, <1>6, NamedWhere
  <2>1. CASE ~\E q \in e.journal : q.ws = k
    <3>1. ~\E r \in disk.journal : r.ws = k BY <2>t, <2>1
    <3>2. k \in Names(disk, home[k]) BY <1>6, <2>b, <3>1, SavedAtHome
    <3>3. \A m \in Of(k) : m.host # "adopting" BY <2>a, <3>1 DEF Journaled, Busy
    <3>4. \A v : ~Gains(k, v, e.journal) /\ ~Loses(k, v, e.journal) BY <2>1 DEF Gains, Loses
    <3>5. \A v : k \in Names(d, v) <=> v = home[k]
      <4>1. ASSUME NEW v, k \in Names(d, v) PROVE v = home[k]
        BY <1>3, <1>5, <2>n, <3>3, <3>4, <4>1
      <4>2. k \in Names(d, home[k]) BY <1>3, <1>4, <2>b, <3>2, <3>4
      <4> QED BY <4>1, <4>2
    <3> QED BY <2>b, <3>5, HoldersAre
  <2>2. CASE \E q \in e.journal : q.ws = k
    <3>1. PICK q \in e.journal : q.ws = k BY <2>2
    <3>2. ~q.discarded /\ q.from # q.to /\ q.to \in Window
      BY <1>2, <2>t, <3>1 DEF DiskOK, EntryOK, Disk, Entry
    <3>3. \A r \in e.journal : r.ws = k => r = q BY <1>2, <3>1 DEF DiskOK, Orderly
    <3>4. \A v : Gains(k, v, e.journal) <=> v = q.to BY <3>1, <3>2, <3>3 DEF Gains
    <3>5. \A v : Loses(k, v, e.journal) <=> v = q.from BY <3>1, <3>2, <3>3 DEF Loses
    <3>6. \A v \in Window : k \in Names(e, v) => v = q.to \/ v = q.from
      <4>1. CASE \E r \in disk.journal : r.ws = k /\ r.from = q.from /\ r.to = q.to
        <5>1. PICK r \in disk.journal : r.ws = k /\ r.from = q.from /\ r.to = q.to BY <4>1
        <5>2. \A o \in disk.journal : o.ws = k => o = r BY <1>2, <5>1 DEF DiskOK, Orderly
        <5>3. CASE r.settled
          <6>1. home[k] = q.to BY <2>a, <5>1, <5>3 DEF Recorded
          <6>2. \A m \in Of(k) : m.host # "adopting" BY <2>a, <5>2, <5>3 DEF Journaled, Busy
          <6> QED BY <2>n, <6>1, <6>2
        <5>4. CASE ~r.settled
          <6>1. PICK m \in Of(k) : Busy(m) BY <2>a, <5>1, <5>4 DEF Recorded
          <6>2. m.from = q.from /\ m.to = q.to BY <2>a, <5>1, <5>2, <6>1 DEF Journaled
          <6>3. home[k] = m.from \/ home[k] = m.to
            <7>1. m \in Move BY <1>0, MoveFields DEF Typed, MovesOK, Of
            <7>2. m.host \in {"journaled", "queued", "adopting", "returning"}
              BY <6>1, <7>1 DEF Busy, Move
            <7> QED BY <2>a, <7>2 DEF Placed
          <6>4. \A i \in Of(k) : i.host = "adopting" => i = m BY <2>a, <6>1 DEF OneBusy, Busy
          <6> QED BY <2>n, <6>2, <6>3, <6>4
        <5> QED BY <5>3, <5>4
      <4>2. CASE \E m \in Of(k) : m.host = "returning" /\ q.from = m.to /\ q.to = m.from
        <5>1. PICK m \in Of(k) : m.host = "returning" /\ q.from = m.to /\ q.to = m.from BY <4>2
        <5>2. home[k] = q.to BY <2>a, <5>1 DEF Placed
        <5>3. \A i \in Of(k) : i.host # "adopting" BY <2>a, <5>1 DEF OneBusy, Busy
        <5> QED BY <2>n, <5>2, <5>3
      <4> QED BY <2>t, <3>1, <4>1, <4>2
    <3>7. \A v : k \in Names(d, v) <=> v = q.to
      <4>1. ASSUME NEW v, k \in Names(d, v) PROVE v = q.to BY <1>3, <1>5, <3>4, <3>5, <3>6, <4>1
      <4>2. k \in Names(d, q.to) BY <1>3, <3>2, <3>4, <3>5
      <4> QED BY <4>1, <4>2
    <3> QED BY <3>2, <3>7, HoldersAre
  <2> QED BY <2>1, <2>2
<1>7. ASSUME fate[k] = "ended" PROVE Holders(d, k) = {}
  <2>1. \A q \in e.journal : q.ws = k => q.discarded BY <1>7, TornEnded
  <2>2. \A v : ~Gains(k, v, e.journal) BY <2>1 DEF Gains
  <2>3. \A v \in Window : k \notin Names(e, v) BY <1>4, <1>7, NamedWhere
  <2>4. \A v : k \notin Names(d, v) BY <1>3, <1>5, <2>2, <2>3
  <2> QED BY <2>4, HoldersAre
<1> QED BY <1>6, <1>7

LEMMA JInvHolds == ASSUME ~MovesOn PROVE Spec => []JInv
<1>1. Init => JInv BY InitJInv
<1>2. JInv /\ [Next]_vars => JInv' BY NextKeeps
<1> QED BY <1>1, <1>2, PTL DEF Spec

\* LostOnlyUnsaved holds of every run in which a Workspace is moved on only once
\* its adoption has been answered: a crash loses nothing in flight, and whatever it
\* would lose is still shown by a window that has yet to save it
\* (journal_and_open_arrival, hand_back_arrival, adopt_done, save_session). With
\* MovesOn it is false.
THEOREM LossIsBounded == ASSUME ~MovesOn PROVE Spec => []LostOnlyUnsaved
<1>1. JInv => LostOnlyUnsaved BY KeptIsSafe
<1>2. Spec => []JInv BY JInvHolds
<1> QED BY <1>1, <1>2, PTL

\* RestoredAsLeft holds of the same runs: with every window caught up a crash, and
\* another while booting, restores each open Workspace in one window and none that
\* was closed (restore_arrivals, retire_saved_arrivals, close_window_snapshot).
THEOREM RestoresAsLeft == ASSUME ~MovesOn PROVE Spec => []RestoredAsLeft
<1>1. JInv => RestoredAsLeft BY LeftIsRestored
<1>2. Spec => []JInv BY JInvHolds
<1> QED BY <1>1, <1>2, PTL

=============================================================================
