----------------------------- MODULE SeamProofs -----------------------------
(***************************************************************************)
(* The seam of a transfer, for every set of windows and every bound: until *)
(* some wait is over before its answer came no terminal is given a byte    *)
(* twice or out of turn, and what settles is whole.                        *)
(***************************************************************************)
EXTENDS TransferProofs

-----------------------------------------------------------------------------
(* What the pipes carry *)

None(q, t) == \A i \in DOMAIN q : q[i].t # t

Only(q, t, i) == i \in DOMAIN q /\ q[i].t = t /\ \A j \in DOMAIN q : q[j].t = t => j = i

\* After place k there is only output.
Clear(q, k) == \A i \in DOMAIN q : i > k => q[i].t = "data"

\* No replay is asked for or on its way.
NoReplays == None(stdin, "init") /\ None(stdout, "replay")

\* One replay is, and it is w's, for move n.
OneReplay(w, n) ==
    \/ /\ None(stdout, "replay")
       /\ \E i \in DOMAIN stdin : Only(stdin, "init", i) /\ stdin[i].for = w /\ stdin[i].n = n
    \/ /\ None(stdin, "init")
       /\ \E i \in DOMAIN stdout : Only(stdout, "replay", i) /\ stdout[i].for = w /\ stdout[i].n = n

\* A line read between the bytes x and y of the stream; every replay starts after b.
LineStep(l, x, y, b) ==
    /\ y = IF l.t = "data" THEN x + 1 ELSE x
    /\ l.t = "data" => l.byte = y
    /\ l.t = "marked" => l.mark = x
    /\ l.t = "replay" => l.bytes = Bytes(b, x)

\* The lines of q take the stream from d to e.
Lines(q, d, e, b) ==
    \E p \in [Nat -> Nat] :
        /\ p[0] = d /\ p[Len(q)] = e
        /\ \A i, j \in Nat : i <= j /\ j <= Len(q) => p[i] <= p[j]
        /\ \A i \in DOMAIN q : LineStep(q[i], p[i - 1], p[i], b)

IsReturn(e) == e.t = "replay" /\ e.n = HandBackId

\* An event handled by a terminal that has the bytes up to x and then up to y.
EventStep(e, x, y) ==
    /\ e.t = "data" => y = x + 1 /\ e.byte = y
    /\ IsReturn(e) => x <= y /\ e.bytes = Bytes(x, y)
    /\ e.t # "data" /\ ~IsReturn(e) => y = x

\* The events of q after place k take a terminal from x to y.
Chain(q, k, x, y) ==
    \E p \in [Nat -> Nat] :
        /\ p[k] = x /\ p[Len(q)] = y
        /\ \A i \in DOMAIN q : i > k => EventStep(q[i], p[i - 1], p[i])

-----------------------------------------------------------------------------
(* The invariant *)

\* Up to d the output has been dispatched; what is replayed starts after b.
Laid(d, b) ==
    /\ b <= d
    /\ Lines(stdout, d, produced, b)
    /\ \A i \in DOMAIN stdin : stdin[i].t = "init" => stdin[i].since = b
    /\ cut # NoMark => cut = b

Exact == \A w \in mounted : screen[w] = Bytes(0, Len(screen[w]))

Shown ==
    /\ Exact
    /\ \A w \in mounted : place[w] # "none" \/ adopting[w].phase = "planned"
    /\ \A w \in live : Leaving(place[w], toWin[w]) => Head(toWin[w]).t = "departed"

\* w's question for directories.
Probe(r, w) == r.t = "cwds" /\ r.for = w

Unasked(w) ==
    /\ \A i \in DOMAIN stdin : ~Probe(stdin[i], w)
    /\ \A i \in DOMAIN stdout : ~Probe(stdout[i], w)
    /\ None(toWin[w], "cwds")

\* The question is last in the pipes, or its answer is: what it follows is marks
\* and replays of moves before.
Asked(w) ==
    \/ /\ stdin # <<>> /\ Probe(stdin[Len(stdin)], w)
       /\ \A i \in DOMAIN stdin : Probe(stdin[i], w) => i = Len(stdin)
       /\ \A i \in DOMAIN stdout : ~Probe(stdout[i], w)
       /\ None(toWin[w], "cwds")
    \/ /\ stdin = <<>>
       /\ \E j \in DOMAIN stdout :
             /\ Probe(stdout[j], w) /\ Clear(stdout, j)
             /\ \A i \in DOMAIN stdout : Probe(stdout[i], w) => i = j
       /\ None(toWin[w], "cwds")
    \/ /\ stdin = <<>> /\ Clear(stdout, 0)
       /\ \E j \in DOMAIN toWin[w] : Only(toWin[w], "cwds", j) /\ Clear(toWin[w], j)

Fence(w) ==
    /\ place[w] = "probing" => Asked(w)
    /\ place[w] # "probing" => Unasked(w)
    /\ place[w] = "prepared" => stdin = <<>> /\ Clear(stdout, 0) /\ Clear(toWin[w], 0)

\* A window still to open has asked nothing.
Fenced ==
    /\ \A w \in live : Fence(w)
    /\ \A w \in Window \ (live \cup gone) : Unasked(w)

\* w listens for a replay at place i of its events.
Expects(w, i) ==
    expecting[w] \/ \E k \in DOMAIN toWin[w] : k < i /\ toWin[w][k].t = "failed" /\ toWin[w][k].replay

\* The window that holds the Workspace is given all that is dispatched; or it has all
\* up to b, nothing more reaches it, and the replay that goes on from there is coming.
Holder(w, d, b) ==
    \/ /\ ~awaiting /\ NoReplays
       /\ Chain(toWin[w], 0, Len(screen[w]), d)
       /\ \A i \in DOMAIN toWin[w] : IsReturn(toWin[w][i]) =>
             Expects(w, i) /\ \A j \in DOMAIN toWin[w] : IsReturn(toWin[w][j]) => j = i
    \/ /\ awaiting /\ OneReplay(w, HandBackId)
       /\ Chain(toWin[w], 0, Len(screen[w]), b)
       /\ \A i \in DOMAIN toWin[w] : ~IsReturn(toWin[w][i])
       /\ Expects(w, Len(toWin[w]) + 1)

Held(d, b) == Records = {} /\ owner # NoWindow => Holder(owner, d, b)

\* The source is given everything until its mark, and nothing after it.
Source(w, d) ==
    /\ marking = w =>
          /\ place[w] = "inflight" /\ Clear(toWin[w], 0)
          /\ Chain(toWin[w], 0, Len(screen[w]), d)
    /\ marking # w /\ place[w] = "inflight" =>
          /\ toWin[w] # <<>> /\ toWin[w][Len(toWin[w])] = [t |-> "marked", mark |-> cut]
          /\ \A i \in DOMAIN toWin[w] : i < Len(toWin[w]) => toWin[w][i].t = "data"
          /\ Chain(toWin[w], 0, Len(screen[w]), cut)
    /\ place[w] # "inflight" =>
          marking # w /\ toWin[w] = <<>> /\ Len(screen[w]) = cut /\ stamp[w] = cut

Given(d) ==
    \A a \in Records :
        /\ marking \in {a.from, NoWindow}
        /\ marking # NoWindow => NoReplays
        /\ a.from \in live => Source(a.from, d)
        /\ a.ready =>
              /\ marking = NoWindow /\ a.mark = cut /\ a.part = Bytes(0, cut)
              /\ a.from \in live => place[a.from] = "sent"

\* A target that waits, before and after its replay is dispatched.
Waits(t, n) == OneReplay(t, n) /\ \A i \in DOMAIN toWin[t] : ~(toWin[t][i].t = "replay" /\ toWin[t][i].n = n)

Fed(t, n, d) ==
    /\ NoReplays /\ ~awaiting
    /\ \E j \in DOMAIN toWin[t], y \in Nat :
          /\ toWin[t][j].t = "replay" /\ toWin[t][j].n = n
          /\ cut <= y /\ toWin[t][j].bytes = Bytes(cut, y)
          /\ Chain(toWin[t], j, y, d)
          /\ \A i \in DOMAIN toWin[t] : toWin[t][i].t = "replay" /\ toWin[t][i].n = n => i = j
          /\ \A i \in DOMAIN toWin[t] : i > j => ~IsReturn(toWin[t][i])

Mounts(t, d) ==
    /\ NoReplays /\ ~awaiting
    /\ Chain(toWin[t], 0, Len(screen[t]), d)
    /\ \A i \in DOMAIN toWin[t] : ~IsReturn(toWin[t][i])

\* The target of the arrival a.
Aim(a, d) ==
    /\ adopting[a.to].phase = "idle" => NoReplays
    /\ adopting[a.to].phase # "idle" =>
          a.ready /\ adopting[a.to].n = a.n /\ adopting[a.to].part = a.part
    /\ adopting[a.to].phase = "collecting" => Waits(a.to, a.n) \/ Fed(a.to, a.n, d)
    /\ adopting[a.to].phase = "planned" => Mounts(a.to, d)

Taken(d) ==
    /\ \A w \in Window : adopting[w].phase # "idle" => \E a \in arrivals : a.to = w
    /\ \A a \in arrivals : Aim(a, d)
    /\ lost # {} => NoReplays

SeamAt(d, b) == Laid(d, b) /\ Shown /\ Fenced /\ Held(d, b) /\ Given(d) /\ Taken(d)

\* Until an answer is overtaken.
SeamInv == PlaceInv /\ (~overtaken => \E d, b \in Nat : SeamAt(d, b))

-----------------------------------------------------------------------------
(* Sequences *)

LEMMA Appended ==
    ASSUME NEW S, NEW q \in Seq(S), NEW e \in S, NEW r, r = Append(q, e)
    PROVE  /\ r \in Seq(S) /\ Len(r) = Len(q) + 1 /\ Len(q) \in Nat
           /\ DOMAIN q = 1..Len(q) /\ DOMAIN r = 1..Len(q) + 1
           /\ \A i \in 1..Len(q) : r[i] = q[i]
           /\ r[Len(q) + 1] = e
OBVIOUS

LEMMA Shortened ==
    ASSUME NEW S, NEW q \in Seq(S), q # <<>>, NEW r, r = Tail(q)
    PROVE  /\ r \in Seq(S) /\ Len(r) = Len(q) - 1 /\ Len(q) \in Nat /\ Len(q) > 0
           /\ DOMAIN q = 1..Len(q) /\ DOMAIN r = 1..Len(q) - 1
           /\ \A i \in 1..Len(q) - 1 : r[i] = q[i + 1]
           /\ q[1] = Head(q)
OBVIOUS

LEMMA LastTaken ==
    ASSUME NEW S, NEW q \in Seq(S), Len(q) = 1
    PROVE  Tail(q) = <<>>
<1>. DEFINE r == Tail(q)
<1>1. q # <<>>
  OBVIOUS
<1>2. r \in Seq(S) /\ Len(r) = Len(q) - 1
  BY <1>1, Shortened
<1>. HIDE DEF r
<1>3. r = <<>>
  BY <1>2
<1>. QED  BY <1>3 DEF r

LEMMA NoBytes == Bytes(0, 0) = <<>> /\ \A x \in Nat : Bytes(x, x) = <<>>
BY DEF Bytes

LEMMA BytesLen ==
    ASSUME NEW x \in Nat, NEW y \in Nat, x <= y
    PROVE  /\ Bytes(x, y) \in Seq(Nat) /\ Len(Bytes(x, y)) = y - x
           /\ DOMAIN Bytes(x, y) = 1..y - x
           /\ \A i \in 1..y - x : Bytes(x, y)[i] = x + i
<1>1. y - x \in Nat
  OBVIOUS
<1>2. \A i \in 1..y - x : x + i \in Nat
  OBVIOUS
<1>. QED  BY <1>1, <1>2 DEF Bytes

LEMMA BytesFirst ==
    ASSUME NEW y \in Nat
    PROVE  /\ Bytes(0, y) \in Seq(Nat) /\ Len(Bytes(0, y)) = y
           /\ \A i \in 1..y : Bytes(0, y)[i] = i
<1>1. y - 0 = y /\ \A i \in 1..y : 0 + i = i /\ i \in Nat
  OBVIOUS
<1>2. Bytes(0, y) = [i \in 1..y |-> i]
  BY <1>1 DEF Bytes
<1>. QED  BY <1>1, <1>2

LEMMA BytesJoin ==
    ASSUME NEW x \in Nat, NEW y \in Nat, x <= y
    PROVE  Bytes(0, x) \o Bytes(x, y) = Bytes(0, y)
<1>. DEFINE s == Bytes(0, x)  u == Bytes(x, y)  r == Bytes(0, y)  c == s \o u
<1>1. s \in Seq(Nat) /\ Len(s) = x /\ \A i \in 1..x : s[i] = i
  BY BytesFirst
<1>2. r \in Seq(Nat) /\ Len(r) = y /\ \A i \in 1..y : r[i] = i
  BY BytesFirst
<1>3. u \in Seq(Nat) /\ Len(u) = y - x /\ \A i \in 1..y - x : u[i] = x + i
  BY BytesLen
<1>. HIDE DEF s, u, r
<1>4. /\ c \in Seq(Nat) /\ Len(c) = Len(s) + Len(u)
      /\ \A i \in 1..Len(s) + Len(u) : c[i] = IF i <= Len(s) THEN s[i] ELSE u[i - Len(s)]
  BY <1>1, <1>3, ConcatProperties
<1>. HIDE DEF c
<1>5. x + (y - x) = y
  OBVIOUS
<1>6. ASSUME NEW i \in 1..y PROVE c[i] = r[i]
  <2>1. CASE i <= x
    BY <1>1, <1>2, <1>3, <1>4, <1>5, <2>1
  <2>2. CASE ~(i <= x)
    <3>1. i - x \in 1..y - x /\ x + (i - x) = i
      BY <2>2
    <3>2. c[i] = u[i - x]
      BY <1>1, <1>3, <1>4, <1>5, <2>2
    <3>3. u[i - x] = x + (i - x)
      BY <1>3, <3>1
    <3>. QED  BY <1>2, <3>1, <3>2, <3>3
  <2>. QED  BY <2>1, <2>2
<1>7. c = r
  BY <1>1, <1>2, <1>3, <1>4, <1>5, <1>6, SeqEqual
<1>. QED  BY <1>7 DEF s, u, r, c

LEMMA BytesGrow ==
    ASSUME NEW x \in Nat
    PROVE  Bytes(0, x) \o <<x + 1>> = Bytes(0, x + 1)
<1>1. Bytes(x, x + 1) = <<x + 1>>
  <2>1. (x + 1) - x = 1
    OBVIOUS
  <2>2. Bytes(x, x + 1) = [i \in 1..1 |-> x + i]
    BY <2>1 DEF Bytes
  <2>. QED  BY <2>2
<1>2. x <= x + 1 /\ x + 1 \in Nat
  OBVIOUS
<1>. QED  BY <1>1, <1>2, BytesJoin

\* Whether q has a t.
LEMMA NoneMore ==
    ASSUME NEW S, NEW q \in Seq(S), NEW e \in S, NEW t, None(q, t), e.t # t
    PROVE  None(Append(q, e), t)
<1>. DEFINE r == Append(q, e)
<1>1. /\ DOMAIN q = 1..Len(q) /\ DOMAIN r = 1..Len(q) + 1 /\ Len(q) \in Nat
      /\ \A i \in 1..Len(q) : r[i] = q[i]
      /\ r[Len(q) + 1] = e
  BY Appended
<1>. HIDE DEF r
<1>2. None(r, t)
  BY <1>1 DEF None
<1>. QED  BY <1>2 DEF r

LEMMA NoneLess ==
    ASSUME NEW S, NEW q \in Seq(S), q # <<>>, NEW t, None(q, t)
    PROVE  None(Tail(q), t) /\ Head(q).t # t
<1>. DEFINE r == Tail(q)
<1>1. /\ Len(q) \in Nat /\ Len(q) > 0 /\ DOMAIN q = 1..Len(q) /\ DOMAIN r = 1..Len(q) - 1
      /\ \A i \in 1..Len(q) - 1 : r[i] = q[i + 1]
      /\ q[1] = Head(q)
  BY Shortened
<1>. HIDE DEF r
<1>2. None(r, t) /\ Head(q).t # t
  BY <1>1 DEF None
<1>. QED  BY <1>2 DEF r

LEMMA OnlyMore ==
    ASSUME NEW S, NEW q \in Seq(S), NEW e \in S, NEW t, NEW i, Only(q, t, i), e.t # t
    PROVE  Only(Append(q, e), t, i) /\ Append(q, e)[i] = q[i]
<1>. DEFINE r == Append(q, e)
<1>1. /\ DOMAIN q = 1..Len(q) /\ DOMAIN r = 1..Len(q) + 1 /\ Len(q) \in Nat
      /\ \A j \in 1..Len(q) : r[j] = q[j]
      /\ r[Len(q) + 1] = e
  BY Appended
<1>. HIDE DEF r
<1>2. Only(r, t, i) /\ r[i] = q[i]
  BY <1>1 DEF Only
<1>. QED  BY <1>2 DEF r

LEMMA OnlyComes ==
    ASSUME NEW S, NEW q \in Seq(S), NEW e \in S, None(q, e.t)
    PROVE  Only(Append(q, e), e.t, Len(q) + 1) /\ Append(q, e)[Len(q) + 1] = e
<1>. DEFINE r == Append(q, e)
<1>1. /\ DOMAIN q = 1..Len(q) /\ DOMAIN r = 1..Len(q) + 1 /\ Len(q) \in Nat
      /\ \A j \in 1..Len(q) : r[j] = q[j]
      /\ r[Len(q) + 1] = e
  BY Appended
<1>. HIDE DEF r
<1>2. Only(r, e.t, Len(q) + 1) /\ r[Len(q) + 1] = e
  BY <1>1 DEF Only, None
<1>. QED  BY <1>2 DEF r

\* The head is the only t, or not a t.
LEMMA OnlyLess ==
    ASSUME NEW S, NEW q \in Seq(S), q # <<>>, NEW t, NEW i, Only(q, t, i)
    PROVE  /\ Head(q).t = t => i = 1 /\ Head(q) = q[i] /\ None(Tail(q), t)
           /\ Head(q).t # t => Only(Tail(q), t, i - 1) /\ Tail(q)[i - 1] = q[i]
<1>. DEFINE r == Tail(q)
<1>1. /\ Len(q) \in Nat /\ Len(q) > 0 /\ DOMAIN q = 1..Len(q) /\ DOMAIN r = 1..Len(q) - 1
      /\ \A j \in 1..Len(q) - 1 : r[j] = q[j + 1]
      /\ q[1] = Head(q)
  BY Shortened
<1>. HIDE DEF r
<1>2. i \in DOMAIN q /\ q[i].t = t /\ \A j \in DOMAIN q : q[j].t = t => j = i
  BY DEF Only
<1>3. ASSUME Head(q).t = t PROVE i = 1 /\ Head(q) = q[i] /\ None(r, t)
  <2>1. i = 1
    BY <1>1, <1>2, <1>3
  <2>2. \A j \in DOMAIN r : j + 1 \in DOMAIN q /\ j + 1 # 1
    BY <1>1
  <2>. QED  BY <1>1, <1>2, <2>1, <2>2 DEF None
<1>4. ASSUME Head(q).t # t PROVE Only(r, t, i - 1) /\ r[i - 1] = q[i]
  <2>1. i # 1 /\ i - 1 \in DOMAIN r /\ (i - 1) + 1 = i
    BY <1>1, <1>2, <1>4
  <2>2. \A j \in DOMAIN r : r[j].t = t => j = i - 1
    BY <1>1, <1>2
  <2>. QED  BY <1>1, <1>2, <2>1, <2>2 DEF Only
<1>. QED  BY <1>3, <1>4 DEF r
-----------------------------------------------------------------------------
(* Lines of the stream *)

\* Places in a sequence of length n that grew, and in one of length n that shrank.
LEMMA PlacesMore ==
    ASSUME NEW n \in Nat, NEW i \in 1..n + 1
    PROVE  /\ i \in Nat /\ i - 1 \in Nat
           /\ i <= n => i \in 1..n /\ i - 1 <= n
           /\ ~(i <= n) => i = n + 1 /\ i - 1 = n
OBVIOUS

LEMMA PlacesLess ==
    ASSUME NEW n \in Nat, n > 0, NEW i \in 1..n - 1
    PROVE  /\ i + 1 \in 1..n /\ (i + 1) - 1 = i /\ (i - 1) + 1 = i
           /\ i - 1 \in Nat /\ i \in Nat
OBVIOUS

LEMMA PlacesLast ==
    ASSUME NEW n \in Nat, n > 0, n # 1
    PROVE  /\ n - 1 \in 1..n - 1 /\ (n - 1) + 1 = n
           /\ \A i \in 1..n - 1 : i + 1 \in 1..n /\ (i < n - 1 => i + 1 < n)
OBVIOUS

\* Positions in the stream, one more and one less: s is p up to n, and z from there.
Carried(s, p, n, z) ==
    /\ \A i \in Nat : (i <= n => s[i] = p[i]) /\ (~(i <= n) => s[i] = z)
    /\ s[n] = p[n] /\ s[n + 1] = z

LEMMA MoreAt ==
    ASSUME NEW p \in [Nat -> Nat], NEW n \in Nat, NEW z \in Nat
    PROVE  \E s \in [Nat -> Nat] : Carried(s, p, n, z)
<1>. DEFINE s == [i \in Nat |-> IF i <= n THEN p[i] ELSE z]
<1>1. s \in [Nat -> Nat]
  OBVIOUS
<1>2. \A i \in Nat : (i <= n => s[i] = p[i]) /\ (~(i <= n) => s[i] = z)
  OBVIOUS
<1>3. n + 1 \in Nat /\ ~(n + 1 <= n) /\ n <= n
  OBVIOUS
<1>. HIDE DEF s
<1>. QED  BY <1>1, <1>2, <1>3 DEF Carried

LEMMA LessAt ==
    ASSUME NEW p \in [Nat -> Nat]
    PROVE  \E s \in [Nat -> Nat] : \A i \in Nat : s[i] = p[i + 1]
<1>. DEFINE s == [i \in Nat |-> p[i + 1]]
<1>1. s \in [Nat -> Nat]
  OBVIOUS
<1>. QED  BY <1>1

LEMMA LinesEnd ==
    ASSUME NEW q \in Seq(Line), NEW d \in Nat, NEW e \in Nat, NEW b, Lines(q, d, e, b)
    PROVE  d <= e /\ (q = <<>> => d = e)
<1>1. PICK p \in [Nat -> Nat] :
        /\ p[0] = d /\ p[Len(q)] = e
        /\ \A i, j \in Nat : i <= j /\ j <= Len(q) => p[i] <= p[j]
  BY DEF Lines
<1>2. Len(q) \in Nat /\ 0 <= Len(q)
  OBVIOUS
<1>3. d <= e
  BY <1>1, <1>2
<1>4. q = <<>> => Len(q) = 0
  OBVIOUS
<1>. QED  BY <1>1, <1>3, <1>4

LEMMA NoLines ==
    ASSUME NEW d \in Nat, NEW b
    PROVE  Lines(<<>>, d, d, b)
<1>. DEFINE none == <<>>  p == [i \in Nat |-> d]
<1>1. Len(none) = 0 /\ DOMAIN none = {}
  OBVIOUS
<1>2. p \in [Nat -> Nat] /\ \A i \in Nat : p[i] = d
  OBVIOUS
<1>. HIDE DEF none, p
<1>3. Lines(none, d, d, b)
  BY <1>1, <1>2 DEF Lines
<1>. QED  BY <1>3 DEF none

LEMMA LinesMore ==
    ASSUME NEW q \in Seq(Line), NEW l \in Line, NEW d \in Nat, NEW e \in Nat, NEW f \in Nat,
           NEW b, Lines(q, d, e, b), e <= f, LineStep(l, e, f, b)
    PROVE  Lines(Append(q, l), d, f, b)
<1>. DEFINE r == Append(q, l)
<1>1. /\ Len(r) = Len(q) + 1 /\ Len(q) \in Nat
      /\ DOMAIN q = 1..Len(q) /\ DOMAIN r = 1..Len(q) + 1
      /\ \A i \in 1..Len(q) : r[i] = q[i]
      /\ r[Len(q) + 1] = l
  BY Appended
<1>. HIDE DEF r
<1>2. PICK p \in [Nat -> Nat] :
        /\ p[0] = d /\ p[Len(q)] = e
        /\ \A i, j \in Nat : i <= j /\ j <= Len(q) => p[i] <= p[j]
        /\ \A i \in DOMAIN q : LineStep(q[i], p[i - 1], p[i], b)
  BY DEF Lines
<1>0. PICK s \in [Nat -> Nat] : Carried(s, p, Len(q), f)
  BY <1>1, MoreAt
<1>3. /\ \A i \in Nat : (i <= Len(q) => s[i] = p[i]) /\ (~(i <= Len(q)) => s[i] = f)
      /\ s[Len(q)] = p[Len(q)] /\ s[Len(q) + 1] = f
  BY <1>0 DEF Carried
<1>4. s[0] = d /\ s[Len(q)] = e /\ s[Len(q) + 1] = f
  <2>1. 0 \in Nat /\ 0 <= Len(q)
    BY <1>1
  <2>. QED  BY <1>2, <1>3, <2>1
<1>5. ASSUME NEW i \in Nat, NEW j \in Nat, i <= j, j <= Len(q) + 1
      PROVE  s[i] <= s[j]
  <2>1. CASE j <= Len(q)
    <3>1. i <= Len(q)
      BY <1>1, <1>5, <2>1
    <3>. QED  BY <1>2, <1>3, <1>5, <2>1, <3>1
  <2>2. CASE ~(j <= Len(q)) /\ i <= Len(q)
    <3>1. Len(q) \in Nat /\ Len(q) <= Len(q) /\ i <= Len(q) /\ p[i] \in Nat
      BY <1>1, <2>2
    <3>2. p[i] <= e
      BY <1>2, <3>1
    <3>3. s[i] = p[i] /\ s[j] = f
      BY <1>3, <2>2
    <3>. QED  BY <3>1, <3>2, <3>3
  <2>3. CASE ~(j <= Len(q)) /\ ~(i <= Len(q))
    BY <1>3, <2>3
  <2>. QED  BY <2>1, <2>2, <2>3
<1>6. ASSUME NEW i \in DOMAIN r PROVE LineStep(r[i], s[i - 1], s[i], b)
  <2>1. CASE i <= Len(q)
    <3>1. i \in DOMAIN q /\ i - 1 \in Nat /\ i - 1 <= Len(q) /\ i \in Nat
      BY <1>1, <2>1, PlacesMore
    <3>. QED  BY <1>1, <1>2, <1>3, <2>1, <3>1
  <2>2. CASE ~(i <= Len(q))
    <3>1. i = Len(q) + 1 /\ i - 1 = Len(q)
      BY <1>1, <2>2, PlacesMore
    <3>. QED  BY <1>1, <1>4, <3>1
  <2>. QED  BY <2>1, <2>2
<1>7. Lines(r, d, f, b)
  BY <1>1, <1>3, <1>4, <1>5, <1>6 DEF Lines
<1>. QED  BY <1>7 DEF r

LEMMA LinesLess ==
    ASSUME NEW q \in Seq(Line), q # <<>>, NEW d \in Nat, NEW e \in Nat, NEW b, Lines(q, d, e, b)
    PROVE  \E x \in Nat : d <= x /\ LineStep(Head(q), d, x, b) /\ Lines(Tail(q), x, e, b)
<1>. DEFINE r == Tail(q)
<1>1. /\ Len(r) = Len(q) - 1 /\ Len(q) \in Nat /\ Len(q) > 0 /\ Len(r) \in Nat
      /\ DOMAIN q = 1..Len(q) /\ DOMAIN r = 1..Len(q) - 1
      /\ \A i \in 1..Len(q) - 1 : r[i] = q[i + 1]
      /\ q[1] = Head(q)
  BY Shortened
<1>. HIDE DEF r
<1>2. PICK p \in [Nat -> Nat] :
        /\ p[0] = d /\ p[Len(q)] = e
        /\ \A i, j \in Nat : i <= j /\ j <= Len(q) => p[i] <= p[j]
        /\ \A i \in DOMAIN q : LineStep(q[i], p[i - 1], p[i], b)
  BY DEF Lines
<1>3. PICK s \in [Nat -> Nat] : \A i \in Nat : s[i] = p[i + 1]
  BY LessAt
<1>4. s[0] = p[1] /\ s[Len(r)] = e
  <2>1. 0 + 1 = 1 /\ Len(r) + 1 = Len(q)
    BY <1>1
  <2>. QED  BY <1>1, <1>2, <1>3, <2>1
<1>5. ASSUME NEW i \in Nat, NEW j \in Nat, i <= j, j <= Len(r)
      PROVE  s[i] <= s[j]
  <2>1. i + 1 \in Nat /\ j + 1 \in Nat /\ i + 1 <= j + 1 /\ j + 1 <= Len(q)
    BY <1>1, <1>5
  <2>. QED  BY <1>2, <1>3, <2>1
<1>6. ASSUME NEW i \in DOMAIN r PROVE LineStep(r[i], s[i - 1], s[i], b)
  <2>1. i + 1 \in DOMAIN q /\ (i + 1) - 1 = i /\ (i - 1) + 1 = i /\ i - 1 \in Nat /\ i \in Nat
    BY <1>1, PlacesLess
  <2>2. s[i - 1] = p[i] /\ s[i] = p[i + 1] /\ r[i] = q[i + 1]
    BY <1>1, <1>3, <2>1
  <2>3. LineStep(q[i + 1], p[(i + 1) - 1], p[i + 1], b)
    BY <1>2, <2>1
  <2>. QED  BY <2>1, <2>2, <2>3
<1>7. Lines(r, p[1], e, b)
  BY <1>1, <1>3, <1>4, <1>5, <1>6 DEF Lines
<1>8. d <= p[1] /\ LineStep(Head(q), d, p[1], b) /\ p[1] \in Nat
  <2>1. 1 \in DOMAIN q /\ 1 - 1 = 0 /\ 0 <= 1 /\ 1 <= Len(q)
    BY <1>1
  <2>2. LineStep(q[1], p[1 - 1], p[1], b)
    BY <1>2, <2>1
  <2>3. p[0] <= p[1]
    BY <1>2, <2>1
  <2>. QED  BY <1>1, <1>2, <2>1, <2>2, <2>3
<1>. QED  BY <1>7, <1>8 DEF r

\* Without a replay it does not matter where replays start.
LEMMA LinesAnew ==
    ASSUME NEW q \in Seq(Line), NEW d, NEW e, NEW b, NEW c, Lines(q, d, e, b), None(q, "replay")
    PROVE  Lines(q, d, e, c)
<1>1. PICK p \in [Nat -> Nat] :
        /\ p[0] = d /\ p[Len(q)] = e
        /\ \A i, j \in Nat : i <= j /\ j <= Len(q) => p[i] <= p[j]
        /\ \A i \in DOMAIN q : LineStep(q[i], p[i - 1], p[i], b)
  BY DEF Lines
<1>2. \A i \in DOMAIN q : LineStep(q[i], p[i - 1], p[i], c)
  BY <1>1 DEF LineStep, None
<1>. QED  BY <1>1, <1>2 DEF Lines

-----------------------------------------------------------------------------
(* Events of a terminal *)

LEMMA ChainEmpty ==
    ASSUME NEW x \in Nat, NEW q \in Seq(Event)
    PROVE  /\ Chain(q, Len(q), x, x)
           /\ \A y : q = <<>> /\ Chain(q, 0, x, y) => y = x
<1>. DEFINE p == [i \in Nat |-> x]
<1>1. p \in [Nat -> Nat] /\ \A i \in Nat : p[i] = x
  OBVIOUS
<1>. HIDE DEF p
<1>2. Len(q) \in Nat /\ \A i \in DOMAIN q : ~(i > Len(q))
  OBVIOUS
<1>3. Chain(q, Len(q), x, x)
  BY <1>1, <1>2 DEF Chain
<1>4. ASSUME NEW y, q = <<>>, Chain(q, 0, x, y) PROVE y = x
  <2>1. Len(q) = 0
    BY <1>4
  <2>. QED  BY <1>4, <2>1 DEF Chain
<1>. QED  BY <1>3, <1>4

LEMMA ChainMore ==
    ASSUME NEW q \in Seq(Event), NEW e \in Event, NEW k \in 0..Len(q),
           NEW x \in Nat, NEW y \in Nat, NEW z \in Nat, Chain(q, k, x, y), EventStep(e, y, z)
    PROVE  Chain(Append(q, e), k, x, z)
<1>. DEFINE r == Append(q, e)
<1>1. /\ Len(r) = Len(q) + 1 /\ Len(q) \in Nat
      /\ DOMAIN q = 1..Len(q) /\ DOMAIN r = 1..Len(q) + 1
      /\ \A i \in 1..Len(q) : r[i] = q[i]
      /\ r[Len(q) + 1] = e
  BY Appended
<1>. HIDE DEF r
<1>2. PICK p \in [Nat -> Nat] :
        /\ p[k] = x /\ p[Len(q)] = y
        /\ \A i \in DOMAIN q : i > k => EventStep(q[i], p[i - 1], p[i])
  BY DEF Chain
<1>0. PICK s \in [Nat -> Nat] : Carried(s, p, Len(q), z)
  BY <1>1, MoreAt
<1>3. /\ \A i \in Nat : (i <= Len(q) => s[i] = p[i]) /\ (~(i <= Len(q)) => s[i] = z)
      /\ s[Len(q)] = p[Len(q)] /\ s[Len(q) + 1] = z
  BY <1>0 DEF Carried
<1>4. s[k] = x /\ s[Len(q)] = y /\ s[Len(q) + 1] = z
  <2>1. k \in Nat /\ k <= Len(q)
    BY <1>1
  <2>. QED  BY <1>2, <1>3, <2>1
<1>5. ASSUME NEW i \in DOMAIN r, i > k PROVE EventStep(r[i], s[i - 1], s[i])
  <2>1. CASE i <= Len(q)
    <3>1. i \in DOMAIN q /\ i - 1 \in Nat /\ i - 1 <= Len(q) /\ i \in Nat
      BY <1>1, <2>1, PlacesMore
    <3>. QED  BY <1>1, <1>2, <1>3, <1>5, <2>1, <3>1
  <2>2. CASE ~(i <= Len(q))
    <3>1. i = Len(q) + 1 /\ i - 1 = Len(q)
      BY <1>1, <2>2, PlacesMore
    <3>. QED  BY <1>1, <1>4, <3>1
  <2>. QED  BY <2>1, <2>2
<1>6. Chain(r, k, x, z)
  BY <1>1, <1>3, <1>4, <1>5 DEF Chain
<1>. QED  BY <1>6 DEF r

LEMMA ChainLess ==
    ASSUME NEW q \in Seq(Event), q # <<>>, NEW k \in 1..Len(q), NEW x, NEW y, Chain(q, k, x, y)
    PROVE  Chain(Tail(q), k - 1, x, y)
<1>. DEFINE r == Tail(q)
<1>1. /\ Len(r) = Len(q) - 1 /\ Len(q) \in Nat /\ Len(q) > 0 /\ Len(r) \in Nat
      /\ DOMAIN q = 1..Len(q) /\ DOMAIN r = 1..Len(q) - 1
      /\ \A i \in 1..Len(q) - 1 : r[i] = q[i + 1]
  BY Shortened
<1>. HIDE DEF r
<1>2. PICK p \in [Nat -> Nat] :
        /\ p[k] = x /\ p[Len(q)] = y
        /\ \A i \in DOMAIN q : i > k => EventStep(q[i], p[i - 1], p[i])
  BY DEF Chain
<1>3. PICK s \in [Nat -> Nat] : \A i \in Nat : s[i] = p[i + 1]
  BY LessAt
<1>4. s[k - 1] = x /\ s[Len(r)] = y
  <2>1. k - 1 \in Nat /\ (k - 1) + 1 = k /\ Len(r) + 1 = Len(q)
    BY <1>1
  <2>. QED  BY <1>1, <1>2, <1>3, <2>1
<1>5. ASSUME NEW i \in DOMAIN r, i > k - 1 PROVE EventStep(r[i], s[i - 1], s[i])
  <2>1. i + 1 \in DOMAIN q /\ (i + 1) - 1 = i /\ (i - 1) + 1 = i /\ i - 1 \in Nat /\ i \in Nat
    BY <1>1, PlacesLess
  <2>0. i + 1 > k
    BY <1>5, <2>1
  <2>2. s[i - 1] = p[i] /\ s[i] = p[i + 1] /\ r[i] = q[i + 1]
    BY <1>1, <1>3, <2>1
  <2>3. EventStep(q[i + 1], p[(i + 1) - 1], p[i + 1])
    BY <1>2, <2>0, <2>1
  <2>. QED  BY <2>1, <2>2, <2>3
<1>6. Chain(r, k - 1, x, y)
  BY <1>3, <1>4, <1>5 DEF Chain
<1>. QED  BY <1>6 DEF r

LEMMA ChainHead ==
    ASSUME NEW q \in Seq(Event), q # <<>>, NEW x, NEW y, Chain(q, 0, x, y)
    PROVE  \E z \in Nat : EventStep(Head(q), x, z) /\ Chain(Tail(q), 0, z, y)
<1>. DEFINE r == Tail(q)
<1>1. Len(q) \in Nat /\ Len(q) > 0 /\ DOMAIN q = 1..Len(q) /\ q[1] = Head(q)
  BY Shortened
<1>2. PICK p \in [Nat -> Nat] :
        /\ p[0] = x /\ p[Len(q)] = y
        /\ \A i \in DOMAIN q : i > 0 => EventStep(q[i], p[i - 1], p[i])
  BY DEF Chain
<1>3. 1 \in DOMAIN q /\ 1 > 0 /\ 1 - 1 = 0 /\ 1 \in 1..Len(q) /\ \A i \in DOMAIN q : i > 1 => i > 0
  BY <1>1
<1>4. EventStep(q[1], p[1 - 1], p[1])
  BY <1>2, <1>3
<1>5. Chain(q, 1, p[1], y)
  BY <1>2, <1>3 DEF Chain
<1>6. Chain(Tail(q), 1 - 1, p[1], y)
  BY <1>3, <1>5, ChainLess
<1>. QED  BY <1>1, <1>2, <1>3, <1>4, <1>6
-----------------------------------------------------------------------------
(* Steps of the pipes alone *)

\* No replay is lost from the pipes and none comes.
ReplaysKeep ==
    /\ NoReplays => NoReplays'
    /\ \A w \in Window, n \in Nat : OneReplay(w, n) => OneReplay(w, n)'

\* No question for directories is lost, none comes, and nothing follows one.
QuestionsKeep ==
    /\ \A w \in Window : (Asked(w) => Asked(w)') /\ (Unasked(w) => Unasked(w)')
    /\ stdin = <<>> /\ Clear(stdout, 0) => stdin' = <<>> /\ Clear(stdout', 0)

LEMMA PipesOnly ==
    ASSUME PlaceInv, NEW d \in Nat, NEW b \in Nat, SeamAt(d, b), UNCHANGED <<hostVars, winVars>>,
           Laid(d, b)', ReplaysKeep, QuestionsKeep
    PROVE  SeamAt(d, b)'
<1>. USE DEF hostVars, winVars
<1>0. /\ Records' = Records /\ arrivals' = arrivals /\ owner' = owner /\ lost' = lost
      /\ owner \in Window \cup {NoWindow} /\ live \subseteq Window
      /\ \A a \in Records : a.from \in Window /\ a.to \in Window /\ a.n \in Nat
      /\ arrivals \subseteq Records
  BY DEF Records, PlaceInv, TypeOK, Arrival
<1>1. Shown'
  BY DEF SeamAt, Shown, Exact
<1>2. Fenced'
  BY <1>0 DEF SeamAt, Fenced, Fence, QuestionsKeep
<1>3. Held(d, b)'
  <2>1. \A w \in Window : Holder(w, d, b) => Holder(w, d, b)'
    <3>1. HandBackId \in Nat
      BY DEF HandBackId
    <3>. QED  BY <3>1 DEF Holder, ReplaysKeep, Expects
  <2>. QED  BY <1>0, <2>1 DEF SeamAt, Held
<1>4. Given(d)'
  <2>1. \A w \in Window : Source(w, d) => Source(w, d)'
    BY DEF Source
  <2>. QED  BY <1>0, <2>1 DEF SeamAt, Given, ReplaysKeep
<1>5. Taken(d)'
  <2>1. ASSUME NEW a \in arrivals, Aim(a, d) PROVE Aim(a, d)'
    <3>1. a.to \in Window /\ a.n \in Nat
      BY <1>0
    <3>2. Waits(a.to, a.n) => Waits(a.to, a.n)'
      BY <3>1 DEF Waits, ReplaysKeep
    <3>3. Fed(a.to, a.n, d) => Fed(a.to, a.n, d)'
      BY <3>1 DEF Fed, ReplaysKeep
    <3>4. Mounts(a.to, d) => Mounts(a.to, d)'
      BY <3>1 DEF Mounts, ReplaysKeep
    <3>. QED  BY <2>1, <3>2, <3>3, <3>4 DEF Aim, ReplaysKeep
  <2>. QED  BY <1>0, <2>1 DEF SeamAt, Taken, ReplaysKeep
<1>. QED  BY <1>1, <1>2, <1>3, <1>4, <1>5 DEF SeamAt

\* Output comes at the end of a pipe.
LEMMA ClearMore ==
    ASSUME NEW S, NEW q \in Seq(S), NEW e \in S, e.t = "data", NEW k, Clear(q, k)
    PROVE  Clear(Append(q, e), k)
<1>. DEFINE r == Append(q, e)
<1>1. /\ DOMAIN q = 1..Len(q) /\ DOMAIN r = 1..Len(q) + 1 /\ Len(q) \in Nat
      /\ \A i \in 1..Len(q) : r[i] = q[i]
      /\ r[Len(q) + 1] = e
  BY Appended
<1>. HIDE DEF r
<1>2. \A i \in DOMAIN r : i \in DOMAIN q \/ i = Len(q) + 1
  BY <1>1
<1>3. Clear(r, k)
  BY <1>1, <1>2 DEF Clear
<1>. QED  BY <1>3 DEF r

LEMMA OutputFollows ==
    ASSUME TypeOK, NEW l \in Line, l.t = "data", stdin' = stdin, toWin' = toWin,
           stdout' = Append(stdout, l)
    PROVE  ReplaysKeep /\ QuestionsKeep
<1>. DEFINE q == stdout  r == Append(stdout, l)
<1>0. q \in Seq(Line)
  BY DEF TypeOK
<1>1. /\ DOMAIN q = 1..Len(q) /\ DOMAIN r = 1..Len(q) + 1 /\ Len(q) \in Nat
      /\ \A i \in 1..Len(q) : r[i] = q[i]
      /\ r[Len(q) + 1] = l
  BY <1>0, Appended
<1>2. None(q, "replay") => None(r, "replay")
  BY <1>0, NoneMore
<1>3. \A i : Only(q, "replay", i) => Only(r, "replay", i) /\ r[i] = q[i] /\ i \in DOMAIN r
  BY <1>0, OnlyMore DEF Only
<1>4. \A k : Clear(q, k) => Clear(r, k)
  BY <1>0, ClearMore
<1>5. stdout' = r
  OBVIOUS
<1>. HIDE DEF r
<1>6. ReplaysKeep
  BY <1>2, <1>3, <1>5 DEF ReplaysKeep, NoReplays, OneReplay
<1>7. \A w : \A i \in DOMAIN r : Probe(r[i], w) => i \in DOMAIN q /\ Probe(q[i], w)
  <2>1. \A i \in DOMAIN r : i \in DOMAIN q \/ i = Len(q) + 1
    BY <1>1
  <2>. QED  BY <1>1, <2>1 DEF Probe
<1>8. \A i \in DOMAIN q : i \in DOMAIN r /\ r[i] = q[i]
  BY <1>1
<1>9. QuestionsKeep
  BY <1>4, <1>5, <1>7, <1>8 DEF QuestionsKeep, Asked, Unasked
<1>. QED  BY <1>6, <1>9

LEMMA ShellPrintsSeam ==
    ASSUME PlaceInv, NEW d \in Nat, NEW b \in Nat, SeamAt(d, b), ShellPrints
    PROVE  SeamAt(d, b)'
<1>. DEFINE l == [t |-> "data", byte |-> produced + 1]
<1>1. /\ produced \in Nat /\ produced' = produced + 1 /\ stdout \in Seq(Line) /\ stdout' = Append(stdout, l)
      /\ stdin' = stdin /\ toWin' = toWin /\ cut' = cut /\ UNCHANGED <<hostVars, winVars>> /\ TypeOK
  BY DEF ShellPrints, PlaceInv, TypeOK, hostVars, winVars
<1>2. l \in Line /\ l.t = "data" /\ l.byte = produced + 1
  BY <1>1 DEF Line
<1>. HIDE DEF l
<1>3. Laid(d, b)'
  <2>1. Lines(stdout, d, produced, b)
    BY DEF SeamAt, Laid
  <2>2. LineStep(l, produced, produced + 1, b) /\ produced <= produced + 1 /\ produced + 1 \in Nat
    BY <1>1, <1>2 DEF LineStep
  <2>3. Lines(Append(stdout, l), d, produced + 1, b)
    BY <1>1, <1>2, <2>1, <2>2, LinesMore
  <2>. QED  BY <1>1, <2>3 DEF SeamAt, Laid
<1>4. ReplaysKeep /\ QuestionsKeep
  BY <1>1, <1>2, OutputFollows
<1>. QED  BY <1>1, <1>3, <1>4, PipesOnly

\* The answer to the first question follows the output.
LEMMA AnswerOf ==
    ASSUME NEW r \in Request, NEW l, l = Answer(r)
    PROVE  /\ (l.t = "replay") = (r.t = "init")
           /\ r.t = "init" => l.for = r.for /\ l.n = r.n
           /\ \A w : Probe(l, w) = Probe(r, w)
<1>1. CASE r.t = "mark"
  BY <1>1 DEF Answer, Probe
<1>2. CASE r.t = "cwds"
  BY <1>2 DEF Answer, Probe
<1>3. CASE r.t = "init"
  BY <1>3 DEF Answer, Probe
<1>. QED  BY <1>1, <1>2, <1>3, RequestParts

LEMMA ServeSeam ==
    ASSUME PlaceInv, NEW d \in Nat, NEW b \in Nat, SeamAt(d, b), Serve
    PROVE  SeamAt(d, b)'
<1>. DEFINE h == Head(stdin)  l == Answer(h)  q == stdin  r == Tail(stdin)  s == stdout  u == Append(stdout, l)
<1>1. /\ produced \in Nat /\ produced' = produced /\ stdout \in Seq(Line) /\ stdout' = u
      /\ stdin \in Seq(Request) /\ stdin # <<>> /\ stdin' = r
      /\ toWin' = toWin /\ cut' = cut /\ UNCHANGED <<hostVars, winVars>> /\ TypeOK
  BY DEF Serve, PlaceInv, TypeOK, hostVars, winVars
<1>2. h \in Request
  BY <1>1
<1>3. l \in Line
  BY <1>1, <1>2, AnswerTyped
<1>4. /\ (l.t = "replay") = (h.t = "init")
      /\ h.t = "init" => l.for = h.for /\ l.n = h.n
      /\ \A w : Probe(l, w) = Probe(h, w)
  BY <1>2, AnswerOf
<1>5. /\ Len(r) = Len(q) - 1 /\ Len(q) \in Nat /\ Len(q) > 0
      /\ DOMAIN q = 1..Len(q) /\ DOMAIN r = 1..Len(q) - 1
      /\ \A i \in 1..Len(q) - 1 : r[i] = q[i + 1]
      /\ q[1] = h
  BY <1>1, Shortened
<1>6. /\ Len(u) = Len(s) + 1 /\ Len(s) \in Nat
      /\ DOMAIN s = 1..Len(s) /\ DOMAIN u = 1..Len(s) + 1
      /\ \A i \in 1..Len(s) : u[i] = s[i]
      /\ u[Len(s) + 1] = l
  BY <1>1, <1>3, Appended
<1>7. Laid(d, b)'
  <2>1. Lines(s, d, produced, b) /\ (h.t = "init" => h.since = b)
    BY <1>5 DEF SeamAt, Laid
  <2>2. LineStep(l, produced, produced, b)
    <3>1. CASE h.t = "mark"
      BY <3>1 DEF LineStep, Answer
    <3>2. CASE h.t = "cwds"
      BY <3>2 DEF LineStep, Answer
    <3>3. CASE h.t = "init"
      <4>1. (IF h.since = NoMark THEN 0 ELSE h.since) = b
        BY <2>1, <3>3 DEF NoMark
      <4>2. l = [t |-> "replay", for |-> h.for, n |-> h.n,
                 bytes |-> Bytes(IF h.since = NoMark THEN 0 ELSE h.since, produced)]
        BY <3>3 DEF Answer
      <4>. QED  BY <4>1, <4>2 DEF LineStep
    <3>. QED  BY <1>2, <3>1, <3>2, <3>3, RequestParts
  <2>3. Lines(u, d, produced, b)
    BY <1>1, <1>3, <2>1, <2>2, LinesMore
  <2>4. \A i \in DOMAIN r : i + 1 \in DOMAIN q /\ r[i] = q[i + 1]
    BY <1>5
  <2>5. \A i \in DOMAIN r : r[i].t = "init" => r[i].since = b
    BY <2>4 DEF SeamAt, Laid
  <2>. QED  BY <1>1, <2>3, <2>5 DEF SeamAt, Laid
<1>8. ReplaysKeep
  <2>1. None(q, "init") => None(r, "init") /\ h.t # "init"
    BY <1>1, NoneLess
  <2>2. \A i : Only(q, "init", i) =>
            /\ h.t = "init" => i = 1 /\ h = q[i] /\ None(r, "init")
            /\ h.t # "init" => Only(r, "init", i - 1) /\ r[i - 1] = q[i]
    BY <1>1, OnlyLess
  <2>3. None(s, "replay") /\ h.t # "init" => None(u, "replay")
    BY <1>1, <1>3, <1>4, NoneMore
  <2>4. h.t # "init" => \A i : Only(s, "replay", i) => Only(u, "replay", i) /\ u[i] = s[i]
    <3>1. stdout \in Seq(Line) /\ l \in Line /\ (h.t # "init" => l.t # "replay")
      BY <1>1, <1>3, <1>4
    <3>. QED  BY <3>1, OnlyMore
  <2>5. h.t = "init" /\ None(s, "replay") => Only(u, "replay", Len(s) + 1) /\ u[Len(s) + 1] = l
    <3>1. ASSUME l.t = "replay", None(s, l.t) PROVE Only(u, l.t, Len(s) + 1) /\ u[Len(s) + 1] = l
      BY <1>1, <1>3, <3>1, OnlyComes
    <3>. QED  BY <1>4, <3>1
  <2>. HIDE DEF l, h, r, u
  <2>6. NoReplays => None(r, "init") /\ None(u, "replay")
    BY <2>1, <2>3 DEF NoReplays
  <2>7. ASSUME NEW w \in Window, NEW n \in Nat, OneReplay(w, n) PROVE OneReplay(w, n)'
    <3>1. ASSUME None(s, "replay"), NEW i \in DOMAIN q, Only(q, "init", i), q[i].for = w, q[i].n = n
          PROVE  OneReplay(w, n)'
      <4>1. CASE h.t = "init"
        BY <1>1, <1>4, <1>6, <2>2, <2>5, <3>1, <4>1 DEF OneReplay, Only
      <4>2. CASE h.t # "init"
        BY <1>1, <2>2, <2>3, <3>1, <4>2 DEF OneReplay, Only
      <4>. QED  BY <4>1, <4>2
    <3>2. ASSUME None(q, "init"), NEW i \in DOMAIN s, Only(s, "replay", i), s[i].for = w, s[i].n = n
          PROVE  OneReplay(w, n)'
      BY <1>1, <2>1, <2>4, <3>2 DEF OneReplay, Only
    <3>. QED  BY <2>7, <3>1, <3>2 DEF OneReplay
  <2>. QED  BY <1>1, <2>6, <2>7 DEF ReplaysKeep, NoReplays
<1>9. QuestionsKeep
  <2>0. stdin' = r /\ stdout' = u /\ toWin' = toWin /\ q # <<>>
    BY <1>1
  <2>. HIDE DEF l, h, r, u
  <2>1. \A w : \A i \in DOMAIN u : Probe(u[i], w) => (i \in DOMAIN s /\ Probe(s[i], w)) \/ (i = Len(s) + 1 /\ Probe(h, w))
    <3>1. \A i \in DOMAIN u : (i \in DOMAIN s /\ u[i] = s[i]) \/ (i = Len(s) + 1 /\ u[i] = l)
      BY <1>6
    <3>. QED  BY <1>4, <3>1
  <2>2. \A i \in DOMAIN r : i + 1 \in DOMAIN q /\ r[i] = q[i + 1] /\ i + 1 # 1
    BY <1>5
  <2>3. 1 \in DOMAIN q
    BY <1>5
  <2>4. ASSUME NEW w \in Window, Unasked(w) PROVE Unasked(w)'
    BY <1>5, <2>0, <2>1, <2>2, <2>3, <2>4 DEF Unasked
  <2>5. ASSUME NEW w \in Window, Asked(w) PROVE Asked(w)'
    <3>1. /\ Probe(q[Len(q)], w)
          /\ \A i \in DOMAIN q : Probe(q[i], w) => i = Len(q)
          /\ \A i \in DOMAIN s : ~Probe(s[i], w)
          /\ None(toWin[w], "cwds")
      BY <2>0, <2>5 DEF Asked
    <3>2. CASE Len(q) = 1
      <4>1. r = <<>>
        BY <1>1, <1>5, <3>2 DEF r
      <4>2. Probe(l, w)
        BY <1>4, <1>5, <3>1, <3>2
      <4>3. Len(s) + 1 \in DOMAIN u /\ Clear(u, Len(s) + 1)
        BY <1>6 DEF Clear
      <4>4. \A i \in DOMAIN u : Probe(u[i], w) => i = Len(s) + 1
        BY <2>1, <3>1
      <4>. QED  BY <1>6, <2>0, <3>1, <4>1, <4>2, <4>3, <4>4 DEF Asked
    <3>3. CASE Len(q) # 1
      <4>1. Len(r) \in DOMAIN r /\ Len(r) + 1 = Len(q) /\ r # <<>>
        BY <1>5, <3>3
      <4>2. Probe(r[Len(r)], w)
        BY <2>2, <3>1, <4>1
      <4>3. ASSUME NEW i \in DOMAIN r, Probe(r[i], w) PROVE i = Len(r)
        <5>1. i + 1 = Len(q)
          BY <2>2, <3>1, <4>3
        <5>. QED  BY <1>5, <4>1, <5>1
      <4>4. ~Probe(h, w)
        BY <1>5, <2>3, <3>1, <3>3
      <4>5. \A i \in DOMAIN u : ~Probe(u[i], w)
        BY <2>1, <3>1, <4>4
      <4>. QED  BY <2>0, <3>1, <4>1, <4>2, <4>3, <4>5 DEF Asked
    <3>. QED  BY <3>2, <3>3
  <2>. QED  BY <2>0, <2>4, <2>5 DEF QuestionsKeep
<1>. QED  BY <1>1, <1>7, <1>8, <1>9, PipesOnly
-----------------------------------------------------------------------------
(* The invariant by windows *)

\* What the invariant says of an open window.
Role(v, d, b) ==
    /\ Records = {} /\ owner = v => Holder(v, d, b)
    /\ \A a \in Records : a.from = v => Source(v, d) /\ (a.ready => place[v] = "sent")
    /\ \A a \in arrivals : a.to = v => Aim(a, d)
    /\ Fence(v)
    /\ v \in mounted =>
          /\ screen[v] = Bytes(0, Len(screen[v]))
          /\ place[v] # "none" \/ adopting[v].phase = "planned"
    /\ Leaving(place[v], toWin[v]) => Head(toWin[v]).t = "departed"

\* What it says of the records.
Common ==
    /\ \A a \in Records :
          /\ marking \in {a.from, NoWindow}
          /\ marking # NoWindow => NoReplays
          /\ a.ready => marking = NoWindow /\ a.mark = cut /\ a.part = Bytes(0, cut)
    /\ \A w \in Window : adopting[w].phase # "idle" => \E a \in arrivals : a.to = w
    /\ \A a \in arrivals : a.to \notin live => NoReplays
    /\ lost # {} => NoReplays
    /\ \A w \in Window \ (live \cup gone) : Unasked(w)

LEMMA ClosedIsIdle ==
    ASSUME PlaceInv
    PROVE  /\ \A w \in Window \ live : adopting[w].phase = "idle" /\ w \notin mounted /\ toWin[w] = <<>>
           /\ mounted \subseteq live /\ live \subseteq Window
           /\ \A a \in Records : a \in Arrival /\ a.from \in Window /\ a.to \in Window /\ a.n \in Nat
           /\ arrivals \subseteq Records
<1>1. NotAdopting.phase = "idle"
  BY DEF NotAdopting
<1>. QED  BY <1>1 DEF PlaceInv, WindowsStand, Blank, TypeOK, Arrival, Records

LEMMA Parts ==
    ASSUME PlaceInv, NEW d \in Nat, NEW b \in Nat, SeamAt(d, b)
    PROVE  Common /\ Laid(d, b) /\ \A v \in live : Role(v, d, b)
<1>1. Common
  <2>1. \A a \in arrivals : a.to \notin live => NoReplays
    BY ClosedIsIdle DEF SeamAt, Taken, Aim
  <2>. QED  BY <2>1 DEF Common, SeamAt, Given, Taken, Fenced
<1>2. ASSUME NEW v \in live PROVE Role(v, d, b)
  <2>1. v # NoWindow
    BY WindowsAreDistinct DEF PlaceInv, TypeOK
  <2>2. Records = {} /\ owner = v => Holder(v, d, b)
    BY <2>1 DEF SeamAt, Held
  <2>3. \A a \in Records : a.from = v => Source(v, d) /\ (a.ready => place[v] = "sent")
    BY DEF SeamAt, Given
  <2>4. \A a \in arrivals : Aim(a, d)
    BY DEF SeamAt, Taken
  <2>5. Fence(v)
    BY DEF SeamAt, Fenced
  <2>6. /\ v \in mounted =>
            /\ screen[v] = Bytes(0, Len(screen[v]))
            /\ place[v] # "none" \/ adopting[v].phase = "planned"
        /\ Leaving(place[v], toWin[v]) => Head(toWin[v]).t = "departed"
    BY DEF SeamAt, Shown, Exact
  <2>. QED  BY <2>2, <2>3, <2>4, <2>5, <2>6 DEF Role
<1>. QED  BY <1>1, <1>2 DEF SeamAt

LEMMA Whole ==
    ASSUME PlaceInv', NEW d \in Nat, NEW b \in Nat, Common', Laid(d, b)',
           \A v \in live' : Role(v, d, b)'
    PROVE  SeamAt(d, b)'
<1>0. /\ \A w \in Window \ live' : adopting'[w].phase = "idle" /\ w \notin mounted'
      /\ mounted' \subseteq live' /\ live' \subseteq Window
      /\ \A a \in Records' : a.from \in Window /\ a.to \in Window
      /\ arrivals' \subseteq Records'
  <2>1. NotAdopting.phase = "idle"
    BY DEF NotAdopting
  <2>. QED  BY <2>1 DEF PlaceInv, WindowsStand, Blank, TypeOK, Arrival, Records
<1>1. Shown'
  BY <1>0 DEF Role, Shown, Exact
<1>2. Fenced'
  BY DEF Role, Fenced, Common
<1>3. Held(d, b)'
  <2>1. ASSUME Records' = {}, owner' # NoWindow PROVE owner' \in live'
    BY <2>1 DEF PlaceInv, OwnerHolds, Records
  <2>. QED  BY <2>1 DEF Role, Held
<1>4. Given(d)'
  BY DEF Role, Given, Common
<1>5. Taken(d)'
  <2>1. ASSUME NEW a \in arrivals' PROVE Aim(a, d)'
    <3>1. CASE a.to \in live'
      BY <3>1 DEF Role
    <3>2. CASE a.to \notin live'
      BY <1>0, <3>2 DEF Common, Aim
    <3>. QED  BY <3>1, <3>2
  <2>. QED  BY <2>1 DEF Taken, Common
<1>. QED  BY <1>1, <1>2, <1>3, <1>4, <1>5 DEF SeamAt

\* A window the step does not touch.
Same(w) ==
    /\ toWin'[w] = toWin[w] /\ place'[w] = place[w] /\ stamp'[w] = stamp[w]
    /\ adopting'[w] = adopting[w] /\ expecting'[w] = expecting[w]
    /\ screen'[w] = screen[w] /\ (w \in mounted') = (w \in mounted)

QuestionKept(w) ==
    /\ Asked(w) => Asked(w)'
    /\ Unasked(w) => Unasked(w)'
    /\ stdin = <<>> /\ Clear(stdout, 0) => stdin' = <<>> /\ Clear(stdout', 0)

LEMMA HolderSame ==
    ASSUME NEW w \in Window, toWin'[w] = toWin[w], screen'[w] = screen[w], expecting'[w] = expecting[w],
           awaiting' = awaiting, ReplaysKeep, NEW d, NEW b, Holder(w, d, b)
    PROVE  Holder(w, d, b)'
<1>1. HandBackId \in Nat
  BY DEF HandBackId
<1>. QED  BY <1>1 DEF Holder, ReplaysKeep, Expects

LEMMA SourceSame ==
    ASSUME NEW w \in Window, Same(w), marking' = marking, cut' = cut, NEW d, Source(w, d)
    PROVE  Source(w, d)'
BY DEF Source, Same

LEMMA AimSame ==
    ASSUME NEW a, a.to \in Window, a.n \in Nat, Same(a.to), awaiting' = awaiting, cut' = cut,
           ReplaysKeep, NEW d, Aim(a, d)
    PROVE  Aim(a, d)'
<1>1. Waits(a.to, a.n) => Waits(a.to, a.n)'
  BY DEF Waits, ReplaysKeep, Same
<1>2. Fed(a.to, a.n, d) => Fed(a.to, a.n, d)'
  BY DEF Fed, ReplaysKeep, Same
<1>3. Mounts(a.to, d) => Mounts(a.to, d)'
  BY DEF Mounts, ReplaysKeep, Same
<1>. QED  BY <1>1, <1>2, <1>3 DEF Aim, ReplaysKeep, Same

LEMMA FenceSame ==
    ASSUME NEW w \in Window, Same(w), QuestionKept(w), Fence(w)
    PROVE  Fence(w)'
BY DEF Fence, Same, QuestionKept

LEMMA RoleStays ==
    ASSUME PlaceInv, NEW w \in Window, Same(w), UNCHANGED <<owner, awaiting, marking, cut, arrivals, lost>>,
           ReplaysKeep, Fence(w)', NEW d, NEW b, Role(w, d, b)
    PROVE  Role(w, d, b)'
<1>0. Records' = Records /\ arrivals' = arrivals /\ owner' = owner /\ arrivals \subseteq Records
  BY DEF Records
<1>1. Records = {} /\ owner = w => Holder(w, d, b)'
  BY HolderSame DEF Role, Same
<1>2. \A a \in Records : a.from = w => Source(w, d)' /\ (a.ready => place'[w] = "sent")
  BY SourceSame DEF Role, Same
<1>3. \A a \in arrivals : a.to = w => Aim(a, d)'
  BY <1>0, ClosedIsIdle, AimSame DEF Role
<1>5. /\ w \in mounted' =>
          /\ screen'[w] = Bytes(0, Len(screen'[w]))
          /\ place'[w] # "none" \/ adopting'[w].phase = "planned"
      /\ Leaving(place'[w], toWin'[w]) => Head(toWin'[w]).t = "departed"
  BY DEF Role, Same
<1>. QED  BY <1>0, <1>1, <1>2, <1>3, <1>5 DEF Role

LEMMA RoleSame ==
    ASSUME PlaceInv, NEW w \in Window, Same(w), UNCHANGED <<owner, awaiting, marking, cut, arrivals, lost>>,
           ReplaysKeep, QuestionKept(w), NEW d, NEW b, Role(w, d, b)
    PROVE  Role(w, d, b)'
<1>1. Fence(w)'
  BY FenceSame DEF Role
<1>. QED  BY <1>1, RoleStays

LEMMA CommonSame ==
    ASSUME UNCHANGED <<marking, cut, arrivals, lost, live, gone>>, NoReplays => NoReplays', Common,
           \A w \in Window \ (live \cup gone) : Unasked(w) => Unasked(w)',
           \A w \in Window : adopting'[w].phase # "idle" => adopting[w].phase # "idle"
    PROVE  Common'
<1>1. Records' = Records
  BY DEF Records
<1>. QED  BY <1>1 DEF Common

LEMMA StillPipes ==
    ASSUME UNCHANGED <<stdin, stdout>>
    PROVE  /\ ReplaysKeep /\ (NoReplays' = NoReplays)
           /\ \A w : toWin'[w] = toWin[w] => QuestionKept(w)
BY DEF ReplaysKeep, NoReplays, OneReplay, QuestionKept, Asked, Unasked

\* A step of one window.
LEMMA OneWindow ==
    ASSUME PlaceInv, PlaceInv', NEW d \in Nat, NEW b \in Nat, SeamAt(d, b), NEW v \in live,
           UNCHANGED <<produced, stdin, stdout, hostVars>>,
           \A w \in Window \ {v} : Same(w),
           adopting'[v].phase # "idle" => adopting[v].phase # "idle",
           Role(v, d, b)'
    PROVE  SeamAt(d, b)'
<1>. USE DEF hostVars
<1>1. Common /\ Laid(d, b) /\ \A w \in live : Role(w, d, b)
  BY Parts
<1>2. ReplaysKeep /\ NoReplays' = NoReplays /\ \A w : toWin'[w] = toWin[w] => QuestionKept(w)
  BY StillPipes
<1>3. Laid(d, b)'
  BY <1>1 DEF Laid
<1>4. live \subseteq Window
  BY ClosedIsIdle
<1>5. \A w \in live' : Role(w, d, b)'
  <2>1. ASSUME NEW w \in live, w # v PROVE Role(w, d, b)'
    <3>1. w \in Window /\ Same(w) /\ QuestionKept(w)
      BY <1>2, <1>4, <2>1 DEF Same
    <3>. QED  BY <1>1, <1>2, <3>1, RoleSame
  <2>. QED  BY <2>1
<1>6. Common'
  <2>1. \A w \in Window : adopting'[w].phase # "idle" => adopting[w].phase # "idle"
    BY DEF Same
  <2>2. \A w \in Window \ (live \cup gone) : Unasked(w) => Unasked(w)'
    BY <1>2 DEF Same, QuestionKept
  <2>. QED  BY <1>1, <1>2, <2>1, <2>2, CommonSame
<1>. QED  BY <1>3, <1>5, <1>6, Whole
-----------------------------------------------------------------------------
(* A window takes an event *)

\* The places of a sequence and of what follows its head.
LEMMA Indices ==
    ASSUME NEW q, NEW r, Len(q) \in Nat, Len(q) > 0,
           DOMAIN q = 1..Len(q), DOMAIN r = 1..Len(q) - 1,
           \A i \in 1..Len(q) - 1 : r[i] = q[i + 1]
    PROVE  /\ 1 \in DOMAIN q
           /\ \A i \in DOMAIN r : i \in Nat /\ i + 1 \in DOMAIN q /\ r[i] = q[i + 1] /\ i + 1 # 1
           /\ \A k \in DOMAIN q : k = 1 \/ (k - 1 \in DOMAIN r /\ q[k] = r[k - 1])
<1>. DEFINE n == Len(q)
<1>1. n \in Nat /\ n > 0
  OBVIOUS
<1>. HIDE DEF n
<1>2. 1 \in 1..n /\ \A i \in 1..n - 1 : i \in Nat /\ i + 1 \in 1..n /\ i + 1 # 1
  BY <1>1
<1>3. \A k \in 1..n : k = 1 \/ (k - 1 \in 1..n - 1 /\ (k - 1) + 1 = k)
  BY <1>1
<1>. QED  BY <1>2, <1>3 DEF n

LEMMA TakesOne ==
    ASSUME NEW q \in Seq(Event), q # <<>>, NEW x \in Nat, NEW y \in Nat, Chain(q, 0, x, y)
    PROVE  /\ Head(q).t = "data" => Head(q).byte = x + 1 /\ Chain(Tail(q), 0, x + 1, y)
           /\ IsReturn(Head(q)) =>
                \E z \in Nat : x <= z /\ Head(q).bytes = Bytes(x, z) /\ Chain(Tail(q), 0, z, y)
           /\ Head(q).t # "data" /\ ~IsReturn(Head(q)) => Chain(Tail(q), 0, x, y)
<1>1. PICK z \in Nat : EventStep(Head(q), x, z) /\ Chain(Tail(q), 0, z, y)
  BY ChainHead
<1>. QED  BY <1>1 DEF EventStep

LEMMA ClearLess ==
    ASSUME NEW S, NEW q \in Seq(S), q # <<>>
    PROVE  /\ Clear(q, 0) => Clear(Tail(q), 0) /\ Head(q).t = "data"
           /\ \A k \in Nat : k > 0 /\ Clear(q, k) => Clear(Tail(q), k - 1)
<1>. DEFINE r == Tail(q)
<1>1. /\ Len(q) \in Nat /\ Len(q) > 0 /\ DOMAIN q = 1..Len(q) /\ DOMAIN r = 1..Len(q) - 1
      /\ \A i \in 1..Len(q) - 1 : r[i] = q[i + 1]
      /\ q[1] = Head(q)
  BY Shortened
<1>. HIDE DEF r
<1>2. 1 \in DOMAIN q /\ 1 > 0
  BY <1>1
<1>3. \A i \in DOMAIN r : i + 1 \in DOMAIN q /\ r[i] = q[i + 1] /\ i \in Nat /\ i + 1 > 0
  BY <1>1
<1>4. \A k \in Nat : \A i \in Nat : i > k - 1 => i + 1 > k
  OBVIOUS
<1>5. Clear(q, 0) => Clear(r, 0) /\ Head(q).t = "data"
  BY <1>1, <1>2, <1>3 DEF Clear
<1>6. \A k \in Nat : k > 0 /\ Clear(q, k) => Clear(r, k - 1)
  BY <1>3, <1>4 DEF Clear
<1>. QED  BY <1>5, <1>6 DEF r

\* A window with a place, a record or a plan has a terminal.
LEMMA HasTerminal ==
    ASSUME PlaceInv, NEW v \in live
    PROVE  /\ Records = {} /\ owner = v =>
                v \in mounted /\ Holding(place[v], toWin[v]) /\ adopting[v].phase = "idle"
           /\ (\E a \in Records : a.from = v) =>
                v \in mounted /\ Giving(place[v], toWin[v]) /\ adopting[v].phase = "idle"
           /\ adopting[v].phase = "planned" => v \in mounted /\ Unsettled(toWin[v])
<1>1. v \in Window /\ Stands(v) /\ Target(v) /\ v # NoWindow
  BY WindowsAreDistinct DEF PlaceInv, TypeOK, WindowsStand, TargetsStand
<1>2. ASSUME Records = {}, owner = v
      PROVE  v \in mounted /\ Holding(place[v], toWin[v]) /\ adopting[v].phase = "idle"
  <2>1. Holding(place[v], toWin[v])
    BY <1>1, <1>2 DEF PlaceInv, OwnerHolds, Records
  <2>. QED  BY <1>1, <2>1, StandingsDiffer DEF Stands
<1>3. ASSUME NEW a \in Records, a.from = v
      PROVE  v \in mounted /\ Giving(place[v], toWin[v]) /\ adopting[v].phase = "idle"
  <2>1. Giving(place[v], toWin[v])
    BY <1>3 DEF PlaceInv, RecordsStand
  <2>. QED  BY <1>1, <2>1, StandingsDiffer DEF Stands
<1>. QED  BY <1>1, <1>2, <1>3 DEF Target

\* What a terminal is about to be given goes on from what it has.
LEMMA ShownChain ==
    ASSUME PlaceInv, NEW v \in live, NEW d \in Nat, NEW b \in Nat, Common, Role(v, d, b), v \in mounted,
           toWin[v] # <<>>, Head(toWin[v]).t # "departed"
    PROVE  \E y \in Nat : Chain(toWin[v], 0, Len(screen[v]), y)
<1>1. v \in Window /\ Stands(v) /\ toWin[v] \in Seq(Event)
  BY DEF PlaceInv, TypeOK, WindowsStand
<1>2. ~Leaving(place[v], toWin[v])
  BY DEF Role
<1>3. CASE Away(place[v], toWin[v])
  <2>1. adopting[v].phase = "planned"
    BY <1>3 DEF Role, Away
  <2>2. PICK a \in arrivals : a.to = v
    BY <1>1, <2>1 DEF Common
  <2>. QED  BY <2>1, <2>2 DEF Role, Aim, Mounts
<1>4. CASE owner = v /\ Records = {}
  BY <1>4 DEF Role, Holder
<1>5. ASSUME NEW a \in Records, a.from = v PROVE \E y \in Nat : Chain(toWin[v], 0, Len(screen[v]), y)
  <2>1. Source(v, d)
    BY <1>5 DEF Role
  <2>2. CASE marking = v
    BY <2>1, <2>2 DEF Source
  <2>3. CASE marking # v
    <3>1. place[v] = "inflight" /\ Chain(toWin[v], 0, Len(screen[v]), cut)
      BY <2>1, <2>3 DEF Source
    <3>2. cut \in Nat
      <4>1. cut # NoMark
        BY <1>5, <2>3 DEF PlaceInv, RecordsStand
      <4>. QED  BY <4>1 DEF PlaceInv, TypeOK, Mark
    <3>. QED  BY <3>1, <3>2
  <2>. QED  BY <2>2, <2>3
<1>. QED  BY <1>1, <1>2, <1>3, <1>4, <1>5 DEF Stands

ChainsOn(v) ==
    \A y \in Nat : Chain(toWin[v], 0, Len(screen[v]), y) => Chain(toWin'[v], 0, Len(screen'[v]), y)

\* v takes its first event and the pipes stay.
Takes(v) ==
    /\ toWin[v] \in Seq(Event) /\ toWin[v] # <<>> /\ toWin'[v] = Tail(toWin[v])
    /\ UNCHANGED <<stdin, stdout, owner, awaiting, marking, cut, arrivals, lost>>

LEMMA HolderTakes ==
    ASSUME NEW v \in Window, Takes(v), ChainsOn(v), NEW d \in Nat, NEW b \in Nat, Holder(v, d, b),
           ~IsReturn(Head(toWin[v])) => (expecting[v] => expecting'[v]),
           Head(toWin[v]).t = "failed" /\ Head(toWin[v]).replay => expecting'[v]
    PROVE  Holder(v, d, b)'
<1>. DEFINE q == toWin[v]  r == toWin'[v]
<1>1. /\ Len(q) \in Nat /\ Len(q) > 0 /\ Len(r) = Len(q) - 1
      /\ DOMAIN q = 1..Len(q) /\ DOMAIN r = 1..Len(q) - 1
      /\ \A i \in 1..Len(q) - 1 : r[i] = q[i + 1]
      /\ q[1] = Head(q)
  BY Shortened DEF Takes
<1>2. /\ 1 \in DOMAIN q
      /\ \A i \in DOMAIN r : i \in Nat /\ i + 1 \in DOMAIN q /\ r[i] = q[i + 1] /\ i + 1 # 1
      /\ \A k \in DOMAIN q : k = 1 \/ (k - 1 \in DOMAIN r /\ q[k] = r[k - 1])
  BY <1>1, Indices
<1>3. NoReplays' = NoReplays /\ OneReplay(v, HandBackId)' = OneReplay(v, HandBackId) /\ awaiting' = awaiting
  BY DEF Takes, NoReplays, OneReplay
<1>4. ASSUME NEW i \in Nat, Expects(v, i + 1), ~IsReturn(Head(q)) PROVE Expects(v, i)'
  <2>1. CASE expecting[v]
    BY <1>4, <2>1 DEF Expects
  <2>2. ASSUME NEW k \in DOMAIN q, k < i + 1, q[k].t = "failed", q[k].replay PROVE Expects(v, i)'
    <3>1. CASE k = 1
      BY <1>1, <2>2, <3>1 DEF Expects
    <3>2. CASE k # 1
      <4>1. k - 1 \in DOMAIN r /\ r[k - 1] = q[k]
        BY <1>2, <3>2
      <4>2. k - 1 < i
        BY <1>1, <2>2
      <4>. QED  BY <2>2, <4>1, <4>2 DEF Expects
    <3>. QED  BY <3>1, <3>2
  <2>. QED  BY <1>4, <2>1, <2>2 DEF Expects
<1>5. CASE ~awaiting
  <2>1. /\ NoReplays /\ Chain(q, 0, Len(screen[v]), d)
        /\ \A i \in DOMAIN q : IsReturn(q[i]) =>
               Expects(v, i) /\ \A j \in DOMAIN q : IsReturn(q[j]) => j = i
    BY <1>5 DEF Holder
  <2>2. Chain(r, 0, Len(screen'[v]), d)
    BY <2>1 DEF ChainsOn
  <2>3. ASSUME NEW i \in DOMAIN r, IsReturn(r[i])
        PROVE  Expects(v, i)' /\ \A j \in DOMAIN r : IsReturn(r[j]) => j = i
    <3>1. Expects(v, i + 1) /\ ~IsReturn(Head(q))
      BY <1>1, <1>2, <2>1, <2>3
    <3>2. ASSUME NEW j \in DOMAIN r, IsReturn(r[j]) PROVE j = i
      <4>1. j + 1 = i + 1
        BY <1>2, <2>1, <2>3, <3>2
      <4>. QED  BY <1>1, <4>1
    <3>. QED  BY <1>2, <1>4, <3>1, <3>2
  <2>. QED  BY <1>3, <1>5, <2>1, <2>2, <2>3 DEF Holder
<1>6. CASE awaiting
  <2>1. /\ OneReplay(v, HandBackId) /\ Chain(q, 0, Len(screen[v]), b)
        /\ \A i \in DOMAIN q : ~IsReturn(q[i])
        /\ Expects(v, Len(q) + 1)
    BY <1>6 DEF Holder
  <2>2. Chain(r, 0, Len(screen'[v]), b)
    BY <2>1 DEF ChainsOn
  <2>3. (\A i \in DOMAIN r : ~IsReturn(r[i])) /\ ~IsReturn(Head(q))
    BY <1>1, <1>2, <2>1
  <2>4. expecting'[v] \/ \E k \in DOMAIN r : k < Len(r) + 1 /\ r[k].t = "failed" /\ r[k].replay
    <3>1. Len(r) + 1 = Len(q) /\ Len(r) + 1 \in Nat
      BY <1>1
    <3>2. ASSUME NEW i \in Nat, i = Len(q) PROVE Expects(v, i)'
      BY <1>4, <2>1, <2>3, <3>2
    <3>3. \A i \in Nat : Expects(v, i)' => (expecting'[v] \/ \E k \in DOMAIN r : k < i /\ r[k].t = "failed" /\ r[k].replay)
      BY DEF Expects
    <3>. QED  BY <3>1, <3>2, <3>3
  <2>. QED  BY <1>3, <1>6, <2>1, <2>2, <2>3, <2>4 DEF Holder, Expects
<1>. QED  BY <1>5, <1>6 DEF Holder

LEMMA AimTakes ==
    ASSUME NEW v \in Window, NEW a, a.to = v, a.n \in Nat, Takes(v), NEW d \in Nat, Aim(a, d),
           adopting'[v] = adopting[v],
           adopting[v].phase = "collecting" =>
               ~(Head(toWin[v]).t = "replay" /\ Head(toWin[v]).n = a.n),
           adopting[v].phase = "planned" => ChainsOn(v)
    PROVE  Aim(a, d)'
<1>. DEFINE q == toWin[v]  r == toWin'[v]
<1>1. /\ Len(q) \in Nat /\ Len(q) > 0 /\ Len(r) = Len(q) - 1
      /\ DOMAIN q = 1..Len(q) /\ DOMAIN r = 1..Len(q) - 1
      /\ \A i \in 1..Len(q) - 1 : r[i] = q[i + 1]
      /\ q[1] = Head(q)
  BY Shortened DEF Takes
<1>2. /\ 1 \in DOMAIN q
      /\ \A i \in DOMAIN r : i \in Nat /\ i + 1 \in DOMAIN q /\ r[i] = q[i + 1] /\ i + 1 # 1
      /\ \A k \in DOMAIN q : k = 1 \/ (k - 1 \in DOMAIN r /\ q[k] = r[k - 1])
  BY SMTT(30), <1>1, Indices
<1>3. /\ NoReplays' = NoReplays /\ OneReplay(v, a.n)' = OneReplay(v, a.n) /\ awaiting' = awaiting
      /\ cut' = cut
  BY DEF Takes, NoReplays, OneReplay
<1>4. Waits(v, a.n) => Waits(v, a.n)'
  BY <1>2, <1>3 DEF Waits
<1>5. ASSUME adopting[v].phase = "collecting", Fed(v, a.n, d) PROVE Fed(v, a.n, d)'
  <2>1. PICK j \in DOMAIN q, y \in Nat :
          /\ q[j].t = "replay" /\ q[j].n = a.n
          /\ cut <= y /\ q[j].bytes = Bytes(cut, y)
          /\ Chain(q, j, y, d)
          /\ \A i \in DOMAIN q : q[i].t = "replay" /\ q[i].n = a.n => i = j
          /\ \A i \in DOMAIN q : i > j => ~IsReturn(q[i])
    BY <1>5 DEF Fed
  <2>2. j # 1 /\ j - 1 \in DOMAIN r /\ q[j] = r[j - 1]
    BY <1>1, <1>2, <1>5, <2>1
  <2>3. Chain(r, j - 1, y, d)
    <3>1. j \in 1..Len(q) /\ q \in Seq(Event) /\ q # <<>> /\ r = Tail(q)
      BY <1>1 DEF Takes
    <3>. QED  BY <2>1, <3>1, ChainLess
  <2>4. ASSUME NEW i \in DOMAIN r, r[i].t = "replay", r[i].n = a.n PROVE i = j - 1
    <3>1. i + 1 = j
      BY <1>2, <2>1, <2>4
    <3>. QED  BY <1>2, <3>1
  <2>5. ASSUME NEW i \in DOMAIN r, i > j - 1 PROVE ~IsReturn(r[i])
    <3>1. i + 1 > j
      BY <1>1, <2>5
    <3>. QED  BY <1>2, <2>1, <3>1
  <2>6. NoReplays' /\ ~awaiting'
    BY <1>3, <1>5 DEF Fed
  <2>. QED  BY <1>3, <2>1, <2>2, <2>3, <2>4, <2>5, <2>6 DEF Fed
<1>6. ASSUME adopting[v].phase = "planned", Mounts(v, d) PROVE Mounts(v, d)'
  <2>1. /\ NoReplays /\ ~awaiting /\ Chain(q, 0, Len(screen[v]), d)
        /\ \A i \in DOMAIN q : ~IsReturn(q[i])
    BY <1>6 DEF Mounts
  <2>2. Chain(r, 0, Len(screen'[v]), d)
    BY <1>6, <2>1 DEF ChainsOn
  <2>. QED  BY <1>2, <1>3, <2>1, <2>2 DEF Mounts
<1>. QED  BY <1>3, <1>4, <1>5, <1>6 DEF Aim

\* The fence of a window whose head is not the answer to its question.
LEMMA FenceTakes ==
    ASSUME NEW v \in Window, Takes(v), Fence(v), Head(toWin[v]).t # "cwds",
           \/ place'[v] = place[v]
           \/ place[v] # "probing" /\ place'[v] \notin {"probing", "prepared"}
    PROVE  Fence(v)'
<1>. DEFINE q == toWin[v]  r == toWin'[v]
<1>0. /\ q \in Seq(Event) /\ q # <<>> /\ r = Tail(q) /\ UNCHANGED <<stdin, stdout>>
      /\ Len(q) \in Nat /\ DOMAIN q = 1..Len(q)
  BY DEF Takes
<1>1. None(q, "cwds") => None(r, "cwds")
  BY <1>0, NoneLess
<1>2. \A j : Only(q, "cwds", j) => Only(r, "cwds", j - 1)
  BY <1>0, OnlyLess
<1>3. /\ Clear(q, 0) => Clear(r, 0)
      /\ \A k \in Nat : k > 0 /\ Clear(q, k) => Clear(r, k - 1)
  BY <1>0, ClearLess
<1>. HIDE DEF q, r
<1>4. Unasked(v) => Unasked(v)'
  BY <1>0, <1>1 DEF Unasked, q, r
<1>5. Asked(v) => Asked(v)'
  <2>1. ASSUME NEW j \in DOMAIN q, Only(q, "cwds", j), Clear(q, j)
        PROVE  \E k \in DOMAIN r : Only(r, "cwds", k) /\ Clear(r, k)
    <3>1. j \in Nat /\ j > 0
      BY <1>0
    <3>2. Only(r, "cwds", j - 1) /\ Clear(r, j - 1)
      BY <1>2, <1>3, <2>1, <3>1
    <3>. QED  BY <3>2 DEF Only
  <2>. QED  BY <1>0, <1>1, <2>1 DEF Asked, q, r
<1>. QED  BY <1>0, <1>3, <1>4, <1>5 DEF Fence, q, r

LEMMA TakeFacts ==
    ASSUME PlaceInv, NEW v \in Window, NEW t, HasEvent(v, t), TakeEvent(v),
           UNCHANGED <<stdin, stdout, hostVars>>
    PROVE  /\ Takes(v) /\ v \in live /\ Head(toWin[v]).t = t /\ Head(toWin[v]) \in Event
           /\ toWin'[v] = Tail(toWin[v])
           /\ \A w \in Window \ {v} : toWin'[w] = toWin[w]
<1>1. TypeOK
  BY DEF PlaceInv
<1>2. /\ toWin[v] \in Seq(Event) /\ toWin[v] # <<>> /\ Head(toWin[v]).t = t /\ Head(toWin[v]) \in Event
  BY <1>1, EventTyped
<1>3. toWin'[v] = Tail(toWin[v]) /\ \A w \in Window \ {v} : toWin'[w] = toWin[w]
  BY <1>1, TakenEach
<1>. QED  BY <1>2, <1>3 DEF Takes, hostVars, HasEvent

LEMMA NotLeaving ==
    ASSUME PlaceInv, NEW v \in live, Takes(v), ~Leaving(place[v], toWin[v]),
           Head(toWin[v]).t \notin Outcomes, SameKind(place[v], place'[v])
    PROVE  ~Leaving(place'[v], toWin'[v])
<1>1. Stands(v) /\ toWin[v] \in Seq(Event)
  BY DEF PlaceInv, WindowsStand, TypeOK
<1>2. Grows(toWin[v], toWin'[v])
  BY DEF Takes, Grows
<1>3. /\ Away(place[v], toWin[v]) => Away(place'[v], toWin'[v])
      /\ Holding(place[v], toWin[v]) => Holding(place'[v], toWin'[v])
      /\ Giving(place[v], toWin[v]) => Giving(place'[v], toWin'[v])
  BY <1>1, <1>2, KindStands
<1>4. Away(place'[v], toWin'[v]) => ~Leaving(place'[v], toWin'[v])
  BY DEF Away, Leaving, Moving
<1>. QED  BY <1>1, <1>3, <1>4, StandingsDiffer DEF Stands

\* The role of a window that takes an event other than an answer to its question.
LEMMA RoleTakes ==
    ASSUME PlaceInv, NEW v \in live, NEW d \in Nat, NEW b \in Nat, Role(v, d, b), Takes(v),
           Head(toWin[v]).t # "cwds",
           \/ place'[v] = place[v]
           \/ place[v] # "probing" /\ place'[v] \notin {"probing", "prepared"},
           Records = {} /\ owner = v =>
               /\ ChainsOn(v)
               /\ ~IsReturn(Head(toWin[v])) => (expecting[v] => expecting'[v])
               /\ Head(toWin[v]).t = "failed" /\ Head(toWin[v]).replay => expecting'[v],
           \A a \in Records : a.from = v => Source(v, d)' /\ (a.ready => place'[v] = "sent"),
           \A a \in arrivals : a.to = v => Aim(a, d)',
           v \in mounted' =>
               /\ screen'[v] = Bytes(0, Len(screen'[v]))
               /\ place'[v] # "none" \/ adopting'[v].phase = "planned",
           ~Leaving(place'[v], toWin'[v])
    PROVE  Role(v, d, b)'
<1>0. v \in Window /\ Records' = Records /\ owner' = owner /\ arrivals' = arrivals
  BY ClosedIsIdle DEF Takes, Records
<1>1. Fence(v)'
  BY <1>0, FenceTakes DEF Role
<1>2. Records = {} /\ owner = v => Holder(v, d, b)'
  BY <1>0, HolderTakes DEF Role
<1>. QED  BY <1>0, <1>1, <1>2 DEF Role

\* A terminal is given what comes next.
LEMMA PaintedOne ==
    ASSUME NEW s \in Seq(Nat), NEW x \in Nat, x = Len(s), s = Bytes(0, x),
           NEW r, r = s \o <<x + 1>>
    PROVE  r = Bytes(0, x + 1) /\ Len(r) = x + 1
<1>0. x + 1 \in Nat
  OBVIOUS
<1>1. r = Bytes(0, x + 1)
  BY BytesGrow, Zenon
<1>. QED  BY <1>0, <1>1, BytesFirst

LEMMA OnDataSeam ==
    ASSUME PlaceInv, PlaceInv', NEW d \in Nat, NEW b \in Nat, SeamAt(d, b), NEW v \in Window, OnData(v)
    PROVE  SeamAt(d, b)'
<1>. DEFINE q == toWin[v]  h == Head(toWin[v])
<1>1. /\ Takes(v) /\ v \in live /\ h.t = "data" /\ h \in Event /\ toWin'[v] = Tail(q)
      /\ \A w \in Window \ {v} : toWin'[w] = toWin[w]
  BY TakeFacts DEF OnData
<1>2. /\ UNCHANGED <<produced, stdin, stdout, hostVars, place, stamp, adopting, expecting, mounted>>
      /\ Write(v, <<h.byte>>) /\ screen \in [Window -> Seq(Nat)] /\ q \in Seq(Event) /\ q # <<>>
  BY <1>1 DEF OnData, PlaceInv, TypeOK, Takes
<1>3. \A w \in Window \ {v} : Same(w)
  BY <1>1, <1>2 DEF Same, Write
<1>4. Common /\ Role(v, d, b)
  BY <1>1, Parts
<1>5. ~IsReturn(h) /\ h.t \notin Outcomes /\ h.t # "departed"
  BY <1>1 DEF IsReturn, Outcomes
<1>6. ~Leaving(place[v], q)
  BY <1>4, <1>5 DEF Role
<1>7. ~Leaving(place'[v], toWin'[v])
  <2>1. SameKind(place[v], place'[v])
    BY <1>2 DEF SameKind
  <2>. QED  BY <1>1, <1>5, <1>6, <2>1, NotLeaving
<1>8. ASSUME v \in mounted
      PROVE  ChainsOn(v) /\ screen'[v] = Bytes(0, Len(screen'[v]))
  <2>. DEFINE s == screen[v]  x == Len(screen[v])
  <2>1. s \in Seq(Nat) /\ x \in Nat /\ s = Bytes(0, x)
    BY <1>2, <1>4, <1>8 DEF Role
  <2>2. \A y \in Nat : Chain(q, 0, x, y) => h.byte = x + 1 /\ Chain(Tail(q), 0, x + 1, y)
    BY <1>1, <1>2, <2>1, TakesOne
  <2>3. \E y \in Nat : Chain(q, 0, x, y)
    BY <1>1, <1>2, <1>4, <1>5, <1>8, ShownChain
  <2>4. screen'[v] = s \o <<x + 1>>
    BY <1>2, <1>8, <2>2, <2>3 DEF Write
  <2>5. screen'[v] = Bytes(0, x + 1) /\ Len(screen'[v]) = x + 1
    BY <2>1, <2>4, PaintedOne
  <2>. QED  BY <1>1, <2>2, <2>5 DEF ChainsOn
<1>9. ASSUME NEW a \in Records, a.from = v PROVE Source(v, d)' /\ (a.ready => place'[v] = "sent")
  <2>1. v \in mounted /\ ChainsOn(v) /\ Source(v, d) /\ (a.ready => place[v] = "sent")
    BY <1>1, <1>4, <1>8, <1>9, HasTerminal DEF Role
  <2>2. /\ Len(q) \in Nat /\ Len(q) > 0 /\ Len(toWin'[v]) = Len(q) - 1
        /\ DOMAIN q = 1..Len(q) /\ DOMAIN toWin'[v] = 1..Len(q) - 1
        /\ \A i \in 1..Len(q) - 1 : toWin'[v][i] = q[i + 1]
        /\ q[1] = h
    BY <1>1, <1>2, Shortened
  <2>3. Clear(q, 0) => Clear(toWin'[v], 0)
    BY <1>1, <1>2, ClearLess
  <2>4. marking' = marking /\ cut' = cut /\ place'[v] = place[v]
    BY <1>2 DEF hostVars
  <2>5. CASE marking = v
    BY <2>1, <2>3, <2>4, <2>5 DEF Source, ChainsOn
  <2>6. CASE marking # v
    <3>1. /\ place[v] = "inflight" /\ q[Len(q)] = [t |-> "marked", mark |-> cut]
          /\ \A i \in DOMAIN q : i < Len(q) => q[i].t = "data"
          /\ Chain(q, 0, Len(screen[v]), cut)
      BY <1>2, <2>1, <2>6 DEF Source
    <3>2. Len(q) # 1
      BY <1>1, <2>2, <3>1
    <3>3. /\ Len(q) - 1 \in 1..Len(q) - 1 /\ (Len(q) - 1) + 1 = Len(q)
          /\ \A i \in 1..Len(q) - 1 : i + 1 \in 1..Len(q) /\ (i < Len(q) - 1 => i + 1 < Len(q))
      BY <2>2, <3>2, PlacesLast
    <3>4. toWin'[v] # <<>> /\ toWin'[v][Len(toWin'[v])] = [t |-> "marked", mark |-> cut]
      BY SMTT(30), <2>2, <3>1, <3>3
    <3>5. ASSUME NEW i \in DOMAIN toWin'[v], i < Len(toWin'[v]) PROVE toWin'[v][i].t = "data"
      <4>1. i \in 1..Len(q) - 1 /\ i + 1 \in DOMAIN q /\ i + 1 < Len(q)
        BY <2>2, <3>3, <3>5
      <4>. QED  BY <2>2, <3>1, <4>1
    <3>6. cut \in Nat
      <4>1. cut # NoMark
        BY <1>9, <2>6 DEF PlaceInv, RecordsStand
      <4>. QED  BY <4>1 DEF PlaceInv, TypeOK, Mark
    <3>7. Chain(toWin'[v], 0, Len(screen'[v]), cut)
      BY <2>1, <3>1, <3>6 DEF ChainsOn
    <3>. QED  BY <2>1, <2>4, <2>6, <3>1, <3>4, <3>5, <3>7 DEF Source
  <2>. QED  BY <1>2, <2>1, <2>5, <2>6
<1>10. ASSUME NEW a \in arrivals, a.to = v PROVE Aim(a, d)'
  <2>1. a.n \in Nat /\ Aim(a, d) /\ adopting'[v] = adopting[v]
    BY <1>2, <1>4, <1>10, ClosedIsIdle DEF Role
  <2>2. adopting[v].phase = "planned" => ChainsOn(v)
    BY <1>1, <1>8, HasTerminal
  <2>3. ~(h.t = "replay" /\ h.n = a.n)
    BY <1>1
  <2>. QED  BY <1>1, <1>10, <2>1, <2>2, <2>3, AimTakes
<1>11. Records = {} /\ owner = v =>
        ChainsOn(v) /\ (expecting[v] => expecting'[v])
  BY <1>1, <1>2, <1>8, HasTerminal
<1>12. Role(v, d, b)'
  <2>1. v \in mounted' =>
               /\ screen'[v] = Bytes(0, Len(screen'[v]))
               /\ place'[v] # "none" \/ adopting'[v].phase = "planned"
    BY <1>2, <1>4, <1>8 DEF Role
  <2>2. h.t # "cwds" /\ h.t # "failed" /\ place'[v] = place[v]
    BY <1>1, <1>2
  <2>. QED  BY <1>1, <1>4, <1>7, <1>9, <1>10, <1>11, <2>1, <2>2, RoleTakes
<1>. QED  BY <1>1, <1>2, <1>3, <1>12, OneWindow

\* A source is given output and its mark, nothing else.
LEMMA SourceHead ==
    ASSUME PlaceInv, NEW v \in live, NEW d, Source(v, d), toWin[v] # <<>>
    PROVE  /\ place[v] = "inflight"
           /\ \/ Head(toWin[v]).t = "data"
              \/ marking # v /\ Len(toWin[v]) = 1 /\ Head(toWin[v]) = [t |-> "marked", mark |-> cut]
<1>. DEFINE q == toWin[v]
<1>1. q \in Seq(Event)
  BY DEF PlaceInv, TypeOK
<1>2. Len(q) \in Nat /\ Len(q) > 0 /\ DOMAIN q = 1..Len(q) /\ q[1] = Head(q)
  BY <1>1, Shortened
<1>3. CASE marking = v
  BY <1>1, <1>3, ClearLess DEF Source
<1>4. CASE marking # v
  <2>1. /\ place[v] = "inflight" /\ q[Len(q)] = [t |-> "marked", mark |-> cut]
        /\ \A i \in DOMAIN q : i < Len(q) => q[i].t = "data"
    BY <1>4 DEF Source
  <2>2. CASE Len(q) = 1
    BY <1>2, <1>4, <2>1, <2>2
  <2>3. CASE Len(q) # 1
    <3>0. \A n \in Nat : n > 0 /\ n # 1 => 1 \in 1..n /\ 1 < n
      OBVIOUS
    <3>1. 1 \in DOMAIN q /\ 1 < Len(q)
      BY <1>2, <2>3, <3>0
    <3>. QED  BY <1>2, <2>1, <3>1
  <2>. QED  BY <2>2, <2>3
<1>. QED  BY <1>3, <1>4

\* An event that writes nothing.
LEMMA Inert ==
    ASSUME PlaceInv, NEW v \in Window, Takes(v), Head(toWin[v]).t # "data", ~IsReturn(Head(toWin[v])),
           Len(screen'[v]) = Len(screen[v])
    PROVE  ChainsOn(v)
<1>1. Len(screen[v]) \in Nat
  BY DEF PlaceInv, TypeOK
<1>2. \A y \in Nat : Chain(toWin[v], 0, Len(screen[v]), y) => Chain(Tail(toWin[v]), 0, Len(screen[v]), y)
  BY <1>1, TakesOne DEF Takes
<1>. QED  BY <1>2 DEF ChainsOn, Takes

LEMMA OnCwdsSeam ==
    ASSUME PlaceInv, PlaceInv', NEW d \in Nat, NEW b \in Nat, SeamAt(d, b), NEW v \in Window, OnCwds(v)
    PROVE  SeamAt(d, b)'
<1>. DEFINE q == toWin[v]  h == Head(toWin[v])
<1>1. /\ Takes(v) /\ v \in live /\ h.t = "cwds" /\ h \in Event /\ toWin'[v] = Tail(q)
      /\ \A w \in Window \ {v} : toWin'[w] = toWin[w]
  BY TakeFacts DEF OnCwds
<1>2. /\ UNCHANGED <<produced, stdin, stdout, hostVars, stamp, adopting, expecting, screen, mounted>>
      /\ q \in Seq(Event) /\ q # <<>>
      /\ place' = [place EXCEPT ![v] = IF @ = "probing" THEN "prepared" ELSE @] /\ place \in [Window -> Place]
  BY <1>1 DEF OnCwds, PlaceInv, TypeOK, Takes
<1>3. \A w \in Window \ {v} : Same(w)
  BY <1>1, <1>2 DEF Same
<1>4. Common /\ Role(v, d, b)
  BY <1>1, Parts
<1>5. ~IsReturn(h) /\ h.t \notin Outcomes /\ h.t # "departed" /\ h.t # "data"
  BY <1>1 DEF IsReturn, Outcomes
<1>6. q[1] = h /\ 1 \in DOMAIN q
  BY <1>2
<1>7. place[v] = "probing"
  BY <1>1, <1>4, <1>6 DEF Role, Fence, Unasked, None
<1>8. place'[v] = "prepared"
  BY <1>2, <1>7
<1>9. stdin = <<>> /\ Clear(stdout, 0) /\ None(Tail(q), "cwds") /\ Clear(Tail(q), 0)
  <2>1. Asked(v)
    BY <1>4, <1>7 DEF Role, Fence
  <2>2. ~None(q, "cwds")
    BY <1>1, <1>6 DEF None
  <2>3. /\ stdin = <<>> /\ Clear(stdout, 0)
        /\ \E j \in DOMAIN q : Only(q, "cwds", j) /\ Clear(q, j)
    BY <2>1, <2>2 DEF Asked
  <2>4. Only(q, "cwds", 1) /\ Clear(q, 1)
    BY <1>1, <1>6, <2>3 DEF Only
  <2>5. None(Tail(q), "cwds")
    BY <1>1, <1>2, <2>4, OnlyLess
  <2>6. Clear(Tail(q), 1 - 1)
    BY <1>2, <2>4, ClearLess
  <2>. QED  BY <2>3, <2>5, <2>6
<1>10. Fence(v)'
  <2>1. stdin' = <<>> /\ stdout' = stdout
    BY <1>2, <1>9
  <2>2. \A i \in DOMAIN stdin' : ~Probe(stdin'[i], v)
    BY <2>1
  <2>3. \A i \in DOMAIN stdout : ~Probe(stdout[i], v)
    <3>1. \A i \in DOMAIN stdout : i > 0
      BY DEF PlaceInv, TypeOK
    <3>. QED  BY <1>9, <3>1 DEF Clear, Probe
  <2>. QED  BY <1>1, <1>8, <1>9, <2>1, <2>2, <2>3 DEF Fence, Unasked
<1>11. Records = {} /\ owner = v /\ adopting[v].phase = "idle"
  BY <1>1, <1>7, RestingHolds DEF Resting
<1>12. Holder(v, d, b)'
  <2>1. ChainsOn(v)
    BY <1>1, <1>2, <1>5, Inert
  <2>. QED  BY <1>1, <1>2, <1>4, <1>11, <2>1, HolderTakes DEF Role
<1>13. Role(v, d, b)'
  <2>1. Records' = Records /\ arrivals' \subseteq Records /\ owner' = owner
    BY <1>2 DEF Records, hostVars
  <2>2. v \in mounted' => screen'[v] = Bytes(0, Len(screen'[v]))
    BY <1>2, <1>4 DEF Role
  <2>3. ~Leaving(place'[v], toWin'[v])
    BY <1>8 DEF Leaving, Moving
  <2>. QED  BY <1>8, <1>10, <1>11, <1>12, <2>1, <2>2, <2>3 DEF Role
<1>. QED  BY <1>1, <1>2, <1>3, <1>13, OneWindow

LEMMA OnMarkedSeam ==
    ASSUME PlaceInv, PlaceInv', NEW d \in Nat, NEW b \in Nat, SeamAt(d, b), NEW v \in Window, OnMarked(v)
    PROVE  SeamAt(d, b)'
<1>. DEFINE q == toWin[v]  h == Head(toWin[v])
<1>1. /\ Takes(v) /\ v \in live /\ h.t = "marked" /\ h \in Event /\ toWin'[v] = Tail(q)
      /\ \A w \in Window \ {v} : toWin'[w] = toWin[w]
  BY TakeFacts DEF OnMarked
<1>2. /\ UNCHANGED <<produced, stdin, stdout, hostVars, adopting, expecting, screen, mounted>>
      /\ q \in Seq(Event) /\ q # <<>> /\ place \in [Window -> Place] /\ stamp \in [Window -> Mark]
      /\ IF place[v] = "inflight"
         THEN /\ place' = [place EXCEPT ![v] = "captured"]
              /\ stamp' = [stamp EXCEPT ![v] = h.mark]
         ELSE UNCHANGED <<place, stamp>>
      /\ screen \in [Window -> Seq(Nat)]
  BY <1>1 DEF OnMarked, PlaceInv, TypeOK, Takes
<1>3. \A w \in Window \ {v} : Same(w)
  BY <1>1, <1>2 DEF Same
<1>4. Common /\ Role(v, d, b)
  BY <1>1, Parts
<1>5. ~IsReturn(h) /\ h.t \notin Outcomes /\ h.t # "departed" /\ h.t # "data" /\ h.t # "cwds" /\ h.t # "failed"
  BY <1>1 DEF IsReturn, Outcomes
<1>6. ~Leaving(place[v], q)
  BY <1>4, <1>5 DEF Role
<1>7. place'[v] = place[v] \/ (place[v] = "inflight" /\ place'[v] = "captured")
  BY <1>2
<1>8. ~Leaving(place'[v], toWin'[v])
  <2>1. SameKind(place[v], place'[v])
    BY <1>7 DEF SameKind, Moving
  <2>. QED  BY <1>1, <1>5, <1>6, <2>1, NotLeaving
<1>9. ChainsOn(v)
  BY <1>1, <1>2, <1>5, Inert
<1>10. ASSUME NEW a \in Records, a.from = v PROVE Source(v, d)' /\ (a.ready => place'[v] = "sent")
  <2>1. Source(v, d) /\ (a.ready => place[v] = "sent")
    BY <1>4, <1>10 DEF Role
  <2>2. place[v] = "inflight" /\ marking # v /\ Len(q) = 1 /\ h = [t |-> "marked", mark |-> cut]
    BY <1>1, <1>2, <2>1, SourceHead
  <2>3. Tail(q) = <<>>
    BY <1>2, <2>2, LastTaken
  <2>4. cut \in Nat
    <3>1. cut # NoMark
      BY <1>10, <2>2 DEF PlaceInv, RecordsStand
    <3>. QED  BY <3>1 DEF PlaceInv, TypeOK, Mark
  <2>5. Chain(toWin'[v], 0, Len(screen'[v]), cut)
    BY <1>9, <2>1, <2>2, <2>4 DEF Source, ChainsOn
  <2>6. Len(screen'[v]) = cut
    <3>1. Len(screen'[v]) \in Nat /\ toWin'[v] \in Seq(Event) /\ toWin'[v] = <<>>
      BY <1>1, <1>2, <2>3
    <3>. QED  BY <2>5, <3>1, ChainEmpty
  <2>7. place'[v] = "captured" /\ stamp'[v] = cut
    BY <1>2, <2>2
  <2>8. marking' # v /\ cut' = cut
    BY <1>2, <2>2 DEF hostVars
  <2>. QED  BY <1>1, <2>1, <2>2, <2>3, <2>6, <2>7, <2>8 DEF Source
<1>11. ASSUME NEW a \in arrivals, a.to = v PROVE Aim(a, d)'
  <2>1. a.n \in Nat /\ Aim(a, d) /\ adopting'[v] = adopting[v]
    BY <1>2, <1>4, <1>11, ClosedIsIdle DEF Role
  <2>2. ~(h.t = "replay" /\ h.n = a.n)
    BY <1>1
  <2>. QED  BY <1>1, <1>9, <1>11, <2>1, <2>2, AimTakes
<1>12. Role(v, d, b)'
  <2>1. v \in mounted' =>
               /\ screen'[v] = Bytes(0, Len(screen'[v]))
               /\ place'[v] # "none" \/ adopting'[v].phase = "planned"
    BY <1>2, <1>4, <1>7 DEF Role
  <2>2. \/ place'[v] = place[v]
        \/ place[v] # "probing" /\ place'[v] \notin {"probing", "prepared"}
    BY <1>7
  <2>3. expecting[v] => expecting'[v]
    BY <1>2
  <2>. QED  BY <1>1, <1>4, <1>5, <1>8, <1>9, <1>10, <1>11, <2>1, <2>2, <2>3, RoleTakes
<1>. QED  BY <1>1, <1>2, <1>3, <1>12, OneWindow

\* The target has its replay: its terminal has everything up to there.
LEMMA CollectedSeam ==
    ASSUME PlaceInv, PlaceInv', NEW d \in Nat, NEW b \in Nat, SeamAt(d, b), NEW v \in live, Takes(v),
           \A w \in Window \ {v} : Same(w),
           Head(toWin[v]).t = "replay", adopting[v].phase = "collecting", Head(toWin[v]).n = adopting[v].n,
           UNCHANGED <<produced, stdin, stdout, hostVars, place, stamp, expecting>>,
           screen' = [screen EXCEPT ![v] = adopting[v].part \o Head(toWin[v]).bytes],
           adopting' = [adopting EXCEPT ![v].phase = "planned"]
    PROVE  SeamAt(d, b)'
<1>. DEFINE q == toWin[v]  h == Head(toWin[v])
<1>1. /\ v \in Window /\ q \in Seq(Event) /\ q # <<>> /\ toWin'[v] = Tail(q)
      /\ screen \in [Window -> Seq(Nat)] /\ adopting \in [Window -> Adopting]
  BY DEF PlaceInv, TypeOK, Takes
<1>2. Common /\ Role(v, d, b)
  BY Parts
<1>3. PICK a \in arrivals : a.to = v
  BY <1>1, <1>2 DEF Common
<1>4. a \in Records /\ a.n \in Nat /\ a.n > 0 /\ \A c \in Records : c = a
  BY ClosedIsIdle DEF PlaceInv, RecordsStand
<1>5. Aim(a, d) /\ a.ready /\ h.n = a.n /\ adopting[v].part = a.part
  BY <1>2, <1>3 DEF Role, Aim
<1>6. cut \in Nat /\ a.part = Bytes(0, cut)
  <2>1. marking = NoWindow /\ a.part = Bytes(0, cut)
    BY <1>2, <1>4, <1>5 DEF Common
  <2>2. a.from \in Window
    BY <1>4, ClosedIsIdle
  <2>3. cut # NoMark
    BY <1>4, <2>1, <2>2, WindowsAreDistinct DEF PlaceInv, RecordsStand
  <2>. QED  BY <2>1, <2>3 DEF PlaceInv, TypeOK, Mark
<1>7. q[1] = h /\ 1 \in DOMAIN q /\ Len(q) \in Nat /\ DOMAIN q = 1..Len(q)
  BY <1>1
<1>8. Fed(v, a.n, d)
  <2>1. ~Waits(v, a.n)
    BY <1>5, <1>7 DEF Waits
  <2>. QED  BY <1>3, <1>5, <2>1 DEF Aim
<1>9. PICK j \in DOMAIN q, y \in Nat :
        /\ q[j].t = "replay" /\ q[j].n = a.n
        /\ cut <= y /\ q[j].bytes = Bytes(cut, y)
        /\ Chain(q, j, y, d)
        /\ \A i \in DOMAIN q : q[i].t = "replay" /\ q[i].n = a.n => i = j
        /\ \A i \in DOMAIN q : i > j => ~IsReturn(q[i])
  BY <1>8 DEF Fed
<1>10. j = 1 /\ h.bytes = Bytes(cut, y)
  BY <1>5, <1>7, <1>9
<1>11. screen'[v] = Bytes(0, y) /\ Len(screen'[v]) = y
  <2>1. screen'[v] = Bytes(0, cut) \o Bytes(cut, y)
    BY <1>1, <1>5, <1>6, <1>10
  <2>2. screen'[v] = Bytes(0, y)
    BY <1>6, <1>9, <2>1, BytesJoin
  <2>. QED  BY <2>2, BytesFirst
<1>12. Mounts(v, d)'
  <2>1. Chain(Tail(q), 0, y, d)
    <3>1. 1 \in 1..Len(q) /\ Chain(q, 1, y, d)
      BY <1>7, <1>9, <1>10
    <3>2. Chain(Tail(q), 1 - 1, y, d)
      BY <1>1, <3>1, ChainLess
    <3>. QED  BY <3>2
  <2>2. \A i \in DOMAIN Tail(q) : ~IsReturn(Tail(q)[i])
    <3>. DEFINE r == Tail(q)
    <3>1. /\ Len(q) \in Nat /\ Len(q) > 0 /\ DOMAIN q = 1..Len(q) /\ DOMAIN r = 1..Len(q) - 1
          /\ \A i \in 1..Len(q) - 1 : r[i] = q[i + 1]
      BY <1>1, Shortened
    <3>2. \A i \in DOMAIN r : i \in Nat /\ i + 1 \in DOMAIN q /\ r[i] = q[i + 1] /\ i + 1 # 1
      BY <3>1, Indices
    <3>. HIDE DEF r
    <3>3. \A i \in DOMAIN r : i + 1 > 1
      BY <3>1
    <3>4. \A i \in DOMAIN r : ~IsReturn(r[i])
      BY <1>9, <1>10, <3>2, <3>3
    <3>. QED  BY <3>4 DEF r
  <2>3. NoReplays' /\ ~awaiting'
    BY <1>8, StillPipes DEF Fed, hostVars
  <2>. QED  BY <1>1, <1>11, <2>1, <2>2, <2>3 DEF Mounts
<1>13. adopting'[v].phase = "planned" /\ adopting'[v].n = adopting[v].n /\ adopting'[v].part = adopting[v].part
  BY <1>1 DEF Adopting
<1>14. Aim(a, d)'
  BY <1>3, <1>5, <1>12, <1>13 DEF Aim
<1>15. ~Leaving(place[v], q) /\ Away(place[v], q)
  <2>1. ~Leaving(place[v], q)
    BY <1>2 DEF Role
  <2>. QED  BY <1>1, <2>1, AdopterIsAway
<1>16. Role(v, d, b)'
  <2>1. Records' = Records /\ arrivals' = arrivals /\ owner' = owner /\ place'[v] = place[v] /\ arrivals \subseteq Records
    BY DEF Records, hostVars
  <2>2. Fence(v)'
    BY <1>1, <1>2, <2>1, FenceTakes DEF Role
  <2>3. ~Leaving(place'[v], toWin'[v])
    BY <1>15, <2>1 DEF Away, Leaving, Moving
  <2>4. \A c \in Records : c.from # v
    BY <1>3, <1>4 DEF PlaceInv, RecordsStand
  <2>5. Records # {}
    BY <1>4
  <2>6. \A c \in arrivals' : Aim(c, d)'
    BY <1>4, <1>14, <2>1
  <2>7. v \in mounted' => screen'[v] = Bytes(0, Len(screen'[v])) /\ adopting'[v].phase = "planned"
    BY <1>11, <1>13
  <2>. QED  BY <2>1, <2>2, <2>3, <2>4, <2>5, <2>6, <2>7 DEF Role
<1>. QED  BY <1>16, OneWindow

\* A terminal that is given no output nor its hand-back's replay.
LEMMA ReplayRole ==
    ASSUME PlaceInv, NEW v \in live, NEW d \in Nat, NEW b \in Nat, Common, Role(v, d, b), Takes(v),
           Head(toWin[v]).t = "replay",
           adopting[v].phase = "collecting" => Head(toWin[v]).n # adopting[v].n,
           UNCHANGED <<place, adopting, mounted>>,
           v \in mounted => ChainsOn(v) /\ screen'[v] = Bytes(0, Len(screen'[v])),
           ~IsReturn(Head(toWin[v])) => (expecting[v] => expecting'[v])
    PROVE  Role(v, d, b)'
<1>. DEFINE q == toWin[v]  h == Head(toWin[v])
<1>1. v \in Window /\ place'[v] = place[v]
  BY ClosedIsIdle
<1>2. h.t \notin Outcomes /\ h.t # "departed" /\ h.t # "cwds" /\ h.t # "failed" /\ h.t # "data" /\ h.t # "marked"
  BY DEF Outcomes
<1>3. ~Leaving(place[v], q)
  BY <1>2 DEF Role
<1>4. ~Leaving(place'[v], toWin'[v])
  <2>1. SameKind(place[v], place'[v])
    BY <1>1 DEF SameKind
  <2>. QED  BY <1>2, <1>3, <2>1, NotLeaving
<1>5. \A a \in Records : a.from # v
  <2>1. ASSUME NEW a \in Records, a.from = v PROVE FALSE
    <3>1. Source(v, d) /\ q # <<>>
      BY <2>1 DEF Role, Takes
    <3>2. h.t = "data" \/ h = [t |-> "marked", mark |-> cut]
      BY <3>1, SourceHead
    <3>. QED  BY <1>2, <3>2
  <2>. QED  BY <2>1
<1>6. ASSUME NEW a \in arrivals, a.to = v PROVE Aim(a, d)'
  <2>1. a.n \in Nat /\ Aim(a, d) /\ adopting'[v] = adopting[v]
    BY <1>6, ClosedIsIdle DEF Role
  <2>2. adopting[v].phase = "planned" => ChainsOn(v)
    BY HasTerminal
  <2>3. adopting[v].phase = "collecting" => ~(h.t = "replay" /\ h.n = a.n)
    BY <1>6, <2>1 DEF Aim
  <2>. QED  BY <1>1, <1>6, <2>1, <2>2, <2>3, AimTakes
<1>7. Records = {} /\ owner = v => ChainsOn(v)
  BY HasTerminal
<1>8. v \in mounted' =>
           /\ screen'[v] = Bytes(0, Len(screen'[v]))
           /\ place'[v] # "none" \/ adopting'[v].phase = "planned"
  BY DEF Role
<1>. QED  BY <1>1, <1>2, <1>4, <1>5, <1>6, <1>7, <1>8, RoleTakes

LEMMA OnReplaySeam ==
    ASSUME PlaceInv, PlaceInv', NEW d \in Nat, NEW b \in Nat, SeamAt(d, b), NEW v \in Window, OnReplay(v)
    PROVE  SeamAt(d, b)'
<1>. DEFINE q == toWin[v]  h == Head(toWin[v])
            collected == adopting[v].phase = "collecting" /\ h.n = adopting[v].n
            returned == h.n = HandBackId /\ expecting[v]
<1>1. /\ HasEvent(v, "replay") /\ TakeEvent(v)
      /\ UNCHANGED <<produced, stdin, stdout, hostVars, place, stamp, moves>>
      /\ \/ /\ collected
            /\ screen' = [screen EXCEPT ![v] = adopting[v].part \o h.bytes]
            /\ mounted' = mounted \cup {v}
            /\ adopting' = [adopting EXCEPT ![v].phase = "planned"]
            /\ UNCHANGED expecting
         \/ /\ returned
            /\ Write(v, h.bytes)
            /\ expecting' = [expecting EXCEPT ![v] = FALSE]
            /\ UNCHANGED <<mounted, adopting>>
         \/ /\ ~collected /\ ~returned
            /\ UNCHANGED <<screen, mounted, adopting, expecting>>
  BY DEF OnReplay
<1>2. /\ Takes(v) /\ v \in live /\ h.t = "replay" /\ h \in Event /\ toWin'[v] = Tail(q)
      /\ \A w \in Window \ {v} : toWin'[w] = toWin[w]
  BY <1>1, TakeFacts
<1>3. /\ screen \in [Window -> Seq(Nat)] /\ adopting \in [Window -> Adopting]
      /\ expecting \in [Window -> BOOLEAN] /\ q \in Seq(Event) /\ q # <<>>
  BY <1>2 DEF PlaceInv, TypeOK, Takes
<1>4. Common /\ Role(v, d, b)
  BY <1>2, Parts
<1>5. place' = place /\ stamp' = stamp
  BY <1>1
<1>6. CASE /\ collected
           /\ screen' = [screen EXCEPT ![v] = adopting[v].part \o h.bytes]
           /\ mounted' = mounted \cup {v}
           /\ adopting' = [adopting EXCEPT ![v].phase = "planned"]
           /\ UNCHANGED expecting
  <2>1. \A w \in Window \ {v} : Same(w)
    BY <1>2, <1>3, <1>5, <1>6 DEF Same
  <2>2. UNCHANGED <<produced, stdin, stdout, hostVars, place, stamp, expecting>>
    BY <1>1, <1>6
  <2>. QED  BY <1>2, <1>6, <2>1, <2>2, CollectedSeam
<1>7. ASSUME ~collected, UNCHANGED <<mounted, adopting>>,
             v \in mounted => ChainsOn(v) /\ screen'[v] = Bytes(0, Len(screen'[v])),
             ~IsReturn(h) => (expecting[v] => expecting'[v]),
             \A w \in Window \ {v} : Same(w)
      PROVE  SeamAt(d, b)'
  <2>1. UNCHANGED <<place, adopting, mounted>> /\ UNCHANGED <<produced, stdin, stdout, hostVars>>
    BY <1>1, <1>7
  <2>2. Role(v, d, b)'
    BY <1>2, <1>4, <1>7, <2>1, ReplayRole
  <2>. QED  BY <1>2, <1>7, <2>1, <2>2, OneWindow
<1>8. CASE /\ returned
           /\ Write(v, h.bytes)
           /\ expecting' = [expecting EXCEPT ![v] = FALSE]
           /\ UNCHANGED <<mounted, adopting>>
  <2>1. IsReturn(h)
    BY <1>2, <1>8 DEF IsReturn
  <2>2. ~collected
    <3>1. adopting[v].phase = "collecting" => adopting[v].n > 0 /\ adopting[v].n \in Nat
      BY <1>3 DEF PlaceInv, TargetsStand, Target, Adopting
    <3>. QED  BY <1>8, <3>1 DEF HandBackId
  <2>3. \A w \in Window \ {v} : Same(w)
    BY <1>2, <1>3, <1>5, <1>8 DEF Same, Write
  <2>4. ASSUME v \in mounted PROVE ChainsOn(v) /\ screen'[v] = Bytes(0, Len(screen'[v]))
    <3>. DEFINE s == screen[v]  x == Len(screen[v])
    <3>1. s \in Seq(Nat) /\ x \in Nat /\ s = Bytes(0, x)
      BY <1>3, <1>4, <2>4 DEF Role
    <3>2. \A y \in Nat : Chain(q, 0, x, y) =>
             \E z \in Nat : x <= z /\ h.bytes = Bytes(x, z) /\ Chain(Tail(q), 0, z, y)
      BY <1>3, <2>1, <3>1, TakesOne
    <3>3. PICK y \in Nat : Chain(q, 0, x, y)
      BY <1>2, <1>3, <1>4, <2>4, ShownChain
    <3>4. PICK z \in Nat : x <= z /\ h.bytes = Bytes(x, z) /\ Chain(Tail(q), 0, z, y)
      BY <3>2, <3>3
    <3>5. screen'[v] = s \o Bytes(x, z)
      BY <1>3, <1>8, <2>4, <3>4 DEF Write
    <3>6. screen'[v] = Bytes(0, z) /\ Len(screen'[v]) = z
      <4>1. Bytes(0, x) \o Bytes(x, z) = Bytes(0, z)
        BY <3>1, <3>4, BytesJoin
      <4>2. screen'[v] = Bytes(0, z)
        BY <3>1, <3>5, <4>1, Zenon
      <4>. QED  BY <4>2, BytesFirst
    <3>7. ASSUME NEW e \in Nat, Chain(q, 0, x, e) PROVE Chain(Tail(q), 0, z, e)
      <4>1. PICK u \in Nat : x <= u /\ h.bytes = Bytes(x, u) /\ Chain(Tail(q), 0, u, e)
        BY <3>2, <3>7
      <4>2. Len(Bytes(x, u)) = u - x /\ Len(Bytes(x, z)) = z - x
        BY <3>1, <3>4, <4>1, BytesLen
      <4>3. u = z
        <5>1. u - x = z - x
          BY <3>4, <4>1, <4>2
        <5>. QED  BY <3>1, <5>1
      <4>. QED  BY <4>1, <4>3
    <3>. QED  BY <1>2, <3>6, <3>7 DEF ChainsOn
  <2>. QED  BY <1>7, <1>8, <2>1, <2>2, <2>3, <2>4
<1>9. CASE /\ ~collected /\ ~returned
           /\ UNCHANGED <<screen, mounted, adopting, expecting>>
  <2>1. \A w \in Window \ {v} : Same(w)
    BY <1>2, <1>5, <1>9 DEF Same
  <2>2. ASSUME v \in mounted PROVE ChainsOn(v) /\ screen'[v] = Bytes(0, Len(screen'[v]))
    <3>1. screen'[v] = Bytes(0, Len(screen'[v]))
      BY <1>4, <1>9, <2>2 DEF Role
    <3>2. ~IsReturn(h)
      <4>0. q[1] = h /\ 1 \in DOMAIN q /\ \A k \in DOMAIN q : ~(k < 1)
        BY <1>3
      <4>1. CASE Records = {} /\ owner = v
        <5>1. Holder(v, d, b)
          BY <1>4, <4>1 DEF Role
        <5>2. ~expecting[v] \/ ~IsReturn(h)
          BY <1>9 DEF IsReturn
        <5>3. IsReturn(h) => Expects(v, 1)
          BY <4>0, <5>1 DEF Holder
        <5>. QED  BY <4>0, <5>2, <5>3 DEF Expects
      <4>2. ASSUME NEW a \in Records, a.from = v PROVE FALSE
        <5>1. Source(v, d)
          BY <1>4, <4>2 DEF Role
        <5>2. h.t = "data" \/ h = [t |-> "marked", mark |-> cut]
          BY <1>2, <1>3, <5>1, SourceHead
        <5>. QED  BY <1>2, <5>2
      <4>3. CASE Away(place[v], q) \/ Leaving(place[v], q)
        <5>1. Away(place[v], q)
          BY <1>2, <1>4, <4>3 DEF Role
        <5>2. adopting[v].phase = "planned"
          BY <1>4, <2>2, <5>1 DEF Role, Away
        <5>3. PICK a \in arrivals : a.to = v
          BY <1>4, <5>2 DEF Common
        <5>4. Mounts(v, d)
          BY <1>4, <5>2, <5>3 DEF Role, Aim
        <5>. QED  BY <4>0, <5>4 DEF Mounts
      <4>. QED  BY <1>2, <4>1, <4>2, <4>3, OnlyOneHas
    <3>3. ChainsOn(v)
      BY <1>2, <1>9, <3>2, Inert
    <3>. QED  BY <3>1, <3>3
  <2>3. expecting[v] => expecting'[v]
    BY <1>9
  <2>. QED  BY <1>7, <1>9, <2>1, <2>2, <2>3
<1>. QED  BY <1>1, <1>6, <1>8, <1>9

LEMMA OnFailedSeam ==
    ASSUME PlaceInv, PlaceInv', NEW d \in Nat, NEW b \in Nat, SeamAt(d, b), NEW v \in Window, OnFailed(v)
    PROVE  SeamAt(d, b)'
<1>. DEFINE q == toWin[v]  h == Head(toWin[v])
<1>1. /\ Takes(v) /\ v \in live /\ h.t = "failed" /\ h \in Event /\ toWin'[v] = Tail(q)
      /\ \A w \in Window \ {v} : toWin'[w] = toWin[w]
  BY TakeFacts DEF OnFailed
<1>2. /\ UNCHANGED <<produced, stdin, stdout, hostVars, stamp, adopting, screen, mounted>>
      /\ q \in Seq(Event) /\ q # <<>> /\ place \in [Window -> Place] /\ expecting \in [Window -> BOOLEAN]
      /\ IF place[v] \in Moving
         THEN /\ place' = [place EXCEPT ![v] = "held"]
              /\ expecting' = [expecting EXCEPT ![v] = @ \/ h.replay]
         ELSE UNCHANGED <<place, expecting>>
  BY <1>1 DEF OnFailed, PlaceInv, TypeOK, Takes
<1>3. \A w \in Window \ {v} : Same(w)
  BY <1>1, <1>2 DEF Same
<1>4. Common /\ Role(v, d, b)
  BY <1>1, Parts
<1>5. ~IsReturn(h) /\ h.t \in Outcomes /\ h.t # "departed" /\ h.t # "data" /\ h.t # "cwds" /\ h.t # "replay"
  BY <1>1 DEF IsReturn, Outcomes
<1>6. ~Unsettled(q)
  BY <1>2, <1>5, HeadSettles
<1>7. owner = v /\ Records = {} /\ place[v] \in Moving
  <2>1. Stands(v)
    BY <1>1 DEF PlaceInv, WindowsStand
  <2>2. ~Leaving(place[v], q)
    BY <1>4, <1>5 DEF Role
  <2>. QED  BY <1>6, <2>1, <2>2 DEF Stands, Away, Giving, Holding
<1>8. place'[v] = "held" /\ (expecting[v] => expecting'[v]) /\ (h.replay => expecting'[v])
  BY <1>2, <1>7
<1>9. ChainsOn(v)
  BY <1>1, <1>2, <1>5, Inert
<1>10. Role(v, d, b)'
  <2>1. v \in mounted' =>
               /\ screen'[v] = Bytes(0, Len(screen'[v]))
               /\ place'[v] # "none" \/ adopting'[v].phase = "planned"
    BY <1>2, <1>4, <1>8 DEF Role
  <2>2. place[v] # "probing" /\ place'[v] \notin {"probing", "prepared"}
    BY <1>7, <1>8 DEF Moving
  <2>3. ~Leaving(place'[v], toWin'[v])
    BY <1>8 DEF Leaving, Moving
  <2>4. arrivals = {}
    BY <1>7 DEF Records
  <2>. QED  BY <1>1, <1>4, <1>5, <1>7, <1>8, <1>9, <2>1, <2>2, <2>3, <2>4, RoleTakes
<1>. QED  BY <1>1, <1>2, <1>3, <1>10, OneWindow

LEMMA OnDepartedSeam ==
    ASSUME PlaceInv, PlaceInv', NEW d \in Nat, NEW b \in Nat, SeamAt(d, b), NEW v \in Window, OnDeparted(v)
    PROVE  SeamAt(d, b)'
<1>. DEFINE q == toWin[v]  h == Head(toWin[v])
<1>1. /\ Takes(v) /\ v \in live /\ h.t = "departed" /\ h \in Event /\ toWin'[v] = Tail(q)
      /\ \A w \in Window \ {v} : toWin'[w] = toWin[w]
  BY TakeFacts DEF OnDeparted
<1>2. /\ UNCHANGED <<produced, stdin, stdout, hostVars, stamp, adopting, expecting>>
      /\ q \in Seq(Event) /\ q # <<>> /\ place \in [Window -> Place] /\ screen \in [Window -> Seq(Nat)]
      /\ IF place[v] \in Moving
         THEN /\ place' = [place EXCEPT ![v] = "none"]
              /\ screen' = [screen EXCEPT ![v] = <<>>]
              /\ mounted' = mounted \ {v}
         ELSE UNCHANGED <<place, screen, mounted>>
  BY <1>1 DEF OnDeparted, PlaceInv, TypeOK, Takes
<1>3. \A w \in Window \ {v} : Same(w)
  BY <1>1, <1>2 DEF Same
<1>4. Common /\ Role(v, d, b)
  BY <1>1, Parts
<1>5. ~IsReturn(h) /\ h.t \in Outcomes /\ h.t # "failed" /\ h.t # "data" /\ h.t # "cwds" /\ h.t # "replay"
  BY <1>1 DEF IsReturn, Outcomes
<1>6. ~Unsettled(q) /\ ~Settled(q, "failed")
  <2>1. ~Unsettled(q)
    BY <1>2, <1>5, HeadSettles
  <2>2. ~Settled(q, "failed")
    BY <1>2, <1>5, OutcomeTaken
  <2>. QED  BY <2>1, <2>2
<1>7. Leaving(place[v], q)
  <2>1. Stands(v)
    BY <1>1 DEF PlaceInv, WindowsStand
  <2>. QED  BY <1>6, <2>1 DEF Stands, Away, Giving, Holding
<1>8. place'[v] = "none" /\ v \notin mounted' /\ place[v] \in Moving
  BY <1>2, <1>7 DEF Leaving
<1>9. ~Holding(place[v], q) /\ ~Giving(place[v], q)
  BY <1>7, StandingsDiffer
<1>10. ASSUME NEW a \in arrivals, a.to = v PROVE Aim(a, d)'
  <2>1. a.n \in Nat /\ Aim(a, d) /\ adopting'[v] = adopting[v]
    BY <1>2, <1>4, <1>10, ClosedIsIdle DEF Role
  <2>2. adopting[v].phase # "planned"
    BY <1>1, <1>6, HasTerminal
  <2>. QED  BY <1>1, <1>5, <1>10, <2>1, <2>2, AimTakes
<1>11. Role(v, d, b)'
  <2>1. place[v] # "probing" /\ place'[v] \notin {"probing", "prepared"}
    BY <1>8 DEF Moving
  <2>2. ~Leaving(place'[v], toWin'[v])
    BY <1>8 DEF Leaving, Moving
  <2>3. ~(Records = {} /\ owner = v) /\ \A a \in Records : a.from # v
    BY <1>1, <1>9, HasTerminal
  <2>. QED  BY <1>1, <1>4, <1>5, <1>8, <1>10, <2>1, <2>2, <2>3, RoleTakes
<1>. QED  BY <1>1, <1>2, <1>3, <1>11, OneWindow
-----------------------------------------------------------------------------
(* The source's steps *)

\* A request that asks for no replay.
LEMMA Requested ==
    ASSUME TypeOK, NEW r \in Request, r.t # "init", stdin' = Append(stdin, r), stdout' = stdout,
           cut' = cut \/ cut' = NoMark, produced' = produced
    PROVE  /\ ReplaysKeep
           /\ \A d, b : Laid(d, b) => Laid(d, b)'
           /\ \A w : ~Probe(r, w) /\ toWin'[w] = toWin[w] /\ Unasked(w) => Unasked(w)'
<1>. DEFINE q == stdin  u == Append(stdin, r)
<1>0. q \in Seq(Request) /\ stdin' = u
  BY DEF TypeOK
<1>1. /\ DOMAIN q = 1..Len(q) /\ DOMAIN u = 1..Len(q) + 1 /\ Len(q) \in Nat
      /\ \A i \in 1..Len(q) : u[i] = q[i]
      /\ u[Len(q) + 1] = r
  BY <1>0, Appended
<1>2. None(q, "init") => None(u, "init")
  BY <1>0, NoneMore
<1>3. \A i : Only(q, "init", i) => Only(u, "init", i) /\ u[i] = q[i] /\ i \in DOMAIN u
  BY <1>0, OnlyMore DEF Only
<1>. HIDE DEF u
<1>4. \A i \in DOMAIN u : (i \in DOMAIN q /\ u[i] = q[i]) \/ u[i] = r
  BY <1>1
<1>5. ReplaysKeep
  BY <1>0, <1>2, <1>3 DEF ReplaysKeep, NoReplays, OneReplay
<1>6. ASSUME NEW d, NEW b, Laid(d, b) PROVE Laid(d, b)'
  BY <1>0, <1>4, <1>6 DEF Laid
<1>7. ASSUME NEW w, ~Probe(r, w), toWin'[w] = toWin[w], Unasked(w) PROVE Unasked(w)'
  BY <1>0, <1>4, <1>7 DEF Unasked
<1>. QED  BY <1>5, <1>6, <1>7

\* Only the window that holds the Workspace asks.
LEMMA OthersAskNothing ==
    ASSUME PlaceInv, NEW v \in live, NEW w \in live, w # v,
           place[v] \in Resting \/ \E a \in Records : a.from = v
    PROVE  place[w] \notin Resting
<1>1. CASE place[v] \in Resting
  <2>1. owner = v
    BY <1>1, RestingHolds
  <2>2. place[w] \in Resting => owner = w
    BY RestingHolds
  <2>. QED  BY <2>1, <2>2
<1>2. CASE \E a \in Records : a.from = v
  BY <1>2, RestingHolds
<1>. QED  BY <1>1, <1>2

LEMMA FenceIdle ==
    ASSUME NEW w, Fence(w), place[w] \notin Resting, place'[w] \notin Resting, Unasked(w) => Unasked(w)'
    PROVE  Fence(w)'
BY DEF Fence, Resting

LEMMA StartMoveSeam ==
    ASSUME PlaceInv, PlaceInv', NEW d \in Nat, NEW b \in Nat, SeamAt(d, b), NEW v \in Window, StartMove(v)
    PROVE  SeamAt(d, b)'
<1>. DEFINE r == [t |-> "cwds", for |-> v]  u == Append(stdin, r)
<1>1. /\ v \in live /\ place[v] = "held" /\ place' = [place EXCEPT ![v] = "probing"] /\ stdin' = u
      /\ UNCHANGED <<produced, stdout, hostVars, toWin, stamp, adopting, expecting, screen, mounted>>
      /\ place \in [Window -> Place] /\ stdin \in Seq(Request) /\ TypeOK
  BY DEF StartMove, PlaceInv, TypeOK
<1>2. r \in Request /\ r.t = "cwds" /\ \A w : Probe(r, w) <=> w = v
  BY DEF Request, Probe
<1>. HIDE DEF r
<1>3. /\ ReplaysKeep /\ (Laid(d, b) => Laid(d, b)')
      /\ \A w : w # v /\ Unasked(w) => Unasked(w)'
  <2>1. r.t # "init" /\ cut' = cut /\ toWin' = toWin /\ produced' = produced /\ stdout' = stdout
    BY <1>1, <1>2 DEF hostVars
  <2>. QED  BY <1>1, <1>2, <2>1, Requested
<1>4. Common /\ Laid(d, b) /\ \A w \in live : Role(w, d, b)
  BY Parts
<1>5. UNCHANGED <<owner, awaiting, marking, cut, arrivals, lost, live>>
  BY <1>1 DEF hostVars
<1>6. ASSUME NEW w \in live, w # v PROVE Role(w, d, b)'
  <2>1. w \in Window /\ Same(w) /\ place'[w] = place[w]
    BY <1>1, <1>6 DEF Same, TypeOK
  <2>2. place[w] \notin Resting
    BY <1>1, <1>6, OthersAskNothing DEF Resting
  <2>3. Fence(w)'
    BY <1>3, <1>4, <1>6, <2>1, <2>2, FenceIdle DEF Role
  <2>. QED  BY <1>3, <1>4, <1>5, <2>1, <2>3, RoleStays
<1>7. Role(v, d, b)'
  <2>1. Records = {} /\ owner = v /\ Records' = {} /\ arrivals' = {}
    BY <1>1, <1>5, RestingHolds DEF Resting, Records
  <2>2. Holder(v, d, b)'
    BY <1>1, <1>3, <1>4, <1>5, <2>1, HolderSame DEF Role
  <2>3. Asked(v)'
    <3>1. Unasked(v)
      BY <1>1, <1>4 DEF Role, Fence
    <3>2. /\ Len(u) = Len(stdin) + 1 /\ Len(stdin) \in Nat
          /\ DOMAIN stdin = 1..Len(stdin) /\ DOMAIN u = 1..Len(stdin) + 1
          /\ \A i \in 1..Len(stdin) : u[i] = stdin[i]
          /\ u[Len(stdin) + 1] = r
      BY <1>1, <1>2, Appended
    <3>3. u # <<>>
      BY <1>1, <1>2
    <3>. HIDE DEF u
    <3>4. \A i \in DOMAIN u : (i \in DOMAIN stdin /\ u[i] = stdin[i]) \/ i = Len(stdin) + 1
      BY <3>2
    <3>5. Probe(u[Len(u)], v) /\ \A i \in DOMAIN u : Probe(u[i], v) => i = Len(u)
      BY <1>2, <3>1, <3>2, <3>4 DEF Unasked
    <3>. QED  BY <1>1, <3>1, <3>3, <3>5 DEF Asked, Unasked
  <2>4. place'[v] = "probing"
    BY <1>1
  <2>5. v \in mounted' => screen'[v] = Bytes(0, Len(screen'[v]))
    BY <1>1, <1>4 DEF Role
  <2>6. ~Leaving(place'[v], toWin'[v])
    BY <2>4 DEF Leaving, Moving
  <2>. QED  BY <2>1, <2>2, <2>3, <2>4, <2>5, <2>6 DEF Role, Fence
<1>8. Common'
  BY <1>1, <1>3, <1>4, <1>5, CommonSame DEF ReplaysKeep, hostVars
<1>. QED  BY <1>3, <1>4, <1>5, <1>6, <1>7, <1>8, Whole

LEMMA MoveRefusedSeam ==
    ASSUME PlaceInv, PlaceInv', NEW d \in Nat, NEW b \in Nat, SeamAt(d, b), NEW v \in Window, MoveRefused(v)
    PROVE  SeamAt(d, b)'
<1>1. /\ v \in live /\ place[v] = "prepared" /\ place' = [place EXCEPT ![v] = "held"]
      /\ UNCHANGED <<produced, stdin, stdout, hostVars, toWin, stamp, adopting, expecting, screen, mounted>>
      /\ place \in [Window -> Place]
  BY DEF MoveRefused, PlaceInv, TypeOK
<1>2. Common /\ Role(v, d, b)
  BY <1>1, Parts
<1>3. \A w \in Window \ {v} : Same(w)
  BY <1>1 DEF Same
<1>4. Role(v, d, b)'
  <2>1. Records = {} /\ owner = v /\ Records' = {} /\ arrivals' = {}
    BY <1>1, RestingHolds DEF Resting, Records, hostVars
  <2>2. Holder(v, d, b)'
    BY <1>1, <1>2, <2>1, StillPipes, HolderSame DEF Role, hostVars
  <2>3. Unasked(v)'
    BY <1>1, <1>2 DEF Role, Fence, Unasked
  <2>4. place'[v] = "held"
    BY <1>1
  <2>5. v \in mounted' => screen'[v] = Bytes(0, Len(screen'[v]))
    BY <1>1, <1>2 DEF Role
  <2>6. ~Leaving(place'[v], toWin'[v])
    BY <2>4 DEF Leaving, Moving
  <2>. QED  BY <2>1, <2>2, <2>3, <2>4, <2>5, <2>6 DEF Role, Fence
<1>. QED  BY <1>1, <1>3, <1>4, OneWindow

\* A window that neither holds nor gives the Workspace keeps its role when its fence,
\* its terminal, its events and what it is given as a target stay.
LEMMA Bystander ==
    ASSUME NEW w \in Window, NEW d, NEW b, Role(w, d, b), Fence(w)',
           ~(Records' = {} /\ owner' = w), \A a \in Records' : a.from # w,
           \A a \in arrivals' : a.to = w => Aim(a, d)',
           w \in mounted' => w \in mounted, screen'[w] = screen[w], place'[w] = place[w],
           adopting'[w] = adopting[w], toWin'[w] = toWin[w]
    PROVE  Role(w, d, b)'
BY DEF Role

LEMMA BeginTransferSeam ==
    ASSUME PlaceInv, PlaceInv', NEW d \in Nat, NEW b \in Nat, SeamAt(d, b), NEW v \in Window, NEW to \in Window,
           BeginTransfer(v, to)
    PROVE  SeamAt(d, b)'
<1>. DEFINE r == [t |-> "mark"]
<1>0. PICK a : arrivals' = {a} /\ a.from = v /\ a.to = to /\ ~a.ready
  <2>. DEFINE c == [n |-> moves, from |-> v, to |-> to, pending |-> to \notin live,
                    ready |-> FALSE, part |-> <<>>, mark |-> NoMark]
  <2>1. arrivals' = {c}
    BY DEF BeginTransfer
  <2>2. c.from = v /\ c.to = to /\ ~c.ready
    OBVIOUS
  <2>. HIDE DEF c
  <2>. QED  BY <2>1, <2>2
<1>1. /\ v \in live /\ place[v] = "prepared" /\ place' = [place EXCEPT ![v] = "inflight"]
      /\ stdin' = Append(stdin, r) /\ to # v
      /\ awaiting' = FALSE /\ cut' = NoMark /\ marking' = v
      /\ UNCHANGED <<produced, stdout, live, gone, lost, toWin, stamp, adopting, expecting, screen, mounted, moves>>
      /\ place \in [Window -> Place] /\ stdin \in Seq(Request) /\ TypeOK
  BY DEF BeginTransfer, PlaceInv, TypeOK
<1>2. r \in Request /\ r.t = "mark" /\ \A w : ~Probe(r, w)
  BY DEF Request, Probe
<1>3. a.from = v /\ a.to = to /\ ~a.ready /\ arrivals' = {a}
  BY <1>0
<1>. HIDE DEF r
<1>4. /\ ReplaysKeep /\ (Laid(d, b) => Laid(d, b)')
      /\ \A w : Unasked(w) => Unasked(w)'
  BY <1>1, <1>2, Requested
<1>5. Common /\ Laid(d, b) /\ \A w \in live : Role(w, d, b)
  BY Parts
<1>6. Records = {} /\ owner = v /\ adopting[v].phase = "idle"
  BY <1>1, RestingHolds DEF Resting
<1>7. arrivals = {} /\ lost = {} /\ Records' = {a}
  BY <1>1, <1>3, <1>6 DEF Records
<1>8. stdin = <<>> /\ Clear(stdout, 0) /\ Clear(toWin[v], 0) /\ Unasked(v)
  BY <1>1, <1>5 DEF Role, Fence
<1>9. NoReplays /\ Chain(toWin[v], 0, Len(screen[v]), d)
  <2>1. Holder(v, d, b)
    BY <1>1, <1>5, <1>6 DEF Role
  <2>2. None(stdin, "init") /\ None(stdout, "replay")
    <3>1. \A i \in DOMAIN stdout : i > 0
      BY <1>1 DEF TypeOK
    <3>. QED  BY <1>8, <3>1 DEF None, Clear
  <2>3. ~OneReplay(v, HandBackId)
    BY <2>2 DEF OneReplay, Only, None
  <2>. QED  BY <2>1, <2>3 DEF Holder
<1>10. NoReplays'
  BY <1>4, <1>9 DEF ReplaysKeep
<1>11. \A w \in Window : adopting'[w].phase = "idle"
  BY <1>1, <1>5, <1>7 DEF Common
<1>12. Aim(a, d)'
  BY <1>3, <1>10, <1>11 DEF Aim
<1>13. ASSUME NEW w \in live, w # v PROVE Role(w, d, b)'
  <2>1. w \in Window /\ place'[w] = place[w]
    BY <1>1, <1>13 DEF TypeOK
  <2>2. place[w] \notin Resting
    BY <1>1, <1>13, OthersAskNothing DEF Resting
  <2>3. Fence(w)'
    BY <1>4, <1>5, <1>13, <2>1, <2>2, FenceIdle DEF Role
  <2>4. toWin'[w] = toWin[w] /\ screen'[w] = screen[w] /\ adopting'[w] = adopting[w] /\ mounted' = mounted
    BY <1>1
  <2>5. \A c \in Records' : c.from # w
    BY <1>3, <1>7, <1>13
  <2>6. \A c \in arrivals' : Aim(c, d)'
    BY <1>3, <1>12
  <2>7. Records' # {}
    BY <1>7
  <2>. QED  BY <1>5, <2>1, <2>3, <2>4, <2>5, <2>6, <2>7, Bystander
<1>14. Role(v, d, b)'
  <2>1. place'[v] = "inflight"
    BY <1>1
  <2>2. Source(v, d)'
    BY <1>1, <1>8, <1>9, <2>1 DEF Source
  <2>3. Fence(v)'
    BY <1>4, <1>8, <2>1 DEF Fence
  <2>4. v \in mounted' => screen'[v] = Bytes(0, Len(screen'[v]))
    BY <1>1, <1>5 DEF Role
  <2>5. ~Leaving(place'[v], toWin'[v])
    <3>1. Giving(place'[v], toWin'[v])
      BY <1>1, <1>3, <1>7 DEF PlaceInv, RecordsStand
    <3>. QED  BY <3>1, StandingsDiffer
  <2>6. \A c \in arrivals' : c.to # v
    BY <1>1, <1>3
  <2>7. \A c \in Records' : ~c.ready
    BY <1>3, <1>7
  <2>8. Records' # {}
    BY <1>7
  <2>. QED  BY <2>1, <2>2, <2>3, <2>4, <2>5, <2>6, <2>7, <2>8 DEF Role
<1>15. Common'
  BY <1>1, <1>3, <1>4, <1>5, <1>7, <1>10, <1>11 DEF Common
<1>. QED  BY <1>1, <1>4, <1>5, <1>13, <1>14, <1>15, Whole

LEMMA SendContentSeam ==
    ASSUME PlaceInv, PlaceInv', NEW d \in Nat, NEW b \in Nat, SeamAt(d, b), NEW v \in Window, SendContent(v)
    PROVE  SeamAt(d, b)'
<1>1. /\ v \in live /\ place[v] = "captured" /\ place' = [place EXCEPT ![v] = "sent"]
      /\ arrivals' = {IF a.from = v
                      THEN [a EXCEPT !.ready = TRUE, !.part = screen[v],
                                     !.mark = stamp[v], !.pending = FALSE]
                      ELSE a : a \in arrivals}
      /\ live' = live \cup {a.to : a \in {c \in arrivals : c.from = v /\ c.pending}}
  BY DEF SendContent
<1>2. UNCHANGED <<produced, stdin, stdout, gone, owner, awaiting, marking, cut,
                  lost, toWin, stamp, adopting, expecting, screen, mounted>>
  BY DEF SendContent
<1>3. TypeOK /\ place \in [Window -> Place]
  BY DEF PlaceInv, TypeOK
<1>4. place'[v] = "sent" /\ \A w \in Window : w # v => place'[w] = place[w]
  BY <1>1, <1>3
<1>. DEFINE sent(a) == IF a.from = v
                       THEN [a EXCEPT !.ready = TRUE, !.part = screen[v],
                                      !.mark = stamp[v], !.pending = FALSE]
                       ELSE a
<1>5. ASSUME NEW a \in arrivals
      PROVE  /\ sent(a).n = a.n /\ sent(a).from = a.from /\ sent(a).to = a.to
             /\ a.from = v => sent(a).part = screen[v] /\ sent(a).mark = stamp[v]
             /\ a.from # v => sent(a) = a
  <2>1. a \in Arrival
    BY <1>3 DEF TypeOK
  <2>. QED  BY <2>1 DEF Arrival
<1>6. arrivals' = {sent(a) : a \in arrivals}
  BY <1>1
<1>. HIDE DEF sent
<1>7. \A c \in arrivals' : \E a \in arrivals :
         /\ c.n = a.n /\ c.from = a.from /\ c.to = a.to
         /\ a.from = v => c.part = screen[v] /\ c.mark = stamp[v]
         /\ a.from # v => c = a
  BY <1>5, <1>6
<1>8. \A a \in arrivals : \E c \in arrivals' : c.from = a.from /\ c.to = a.to
  BY <1>5, <1>6
<1>9. \A c \in Records' : \E a \in Records :
         /\ c.n = a.n /\ c.from = a.from /\ c.to = a.to
         /\ c # a => c \in arrivals' /\ a.from = v /\ c.part = screen[v] /\ c.mark = stamp[v]
  BY <1>2, <1>7 DEF Records
<1>10. (Records' = {}) <=> (Records = {})
  BY <1>2, <1>7, <1>8 DEF Records
<1>11. Common /\ Laid(d, b) /\ \A w \in live : Role(w, d, b)
  BY Parts
<1>12. /\ ReplaysKeep /\ NoReplays' = NoReplays
       /\ \A w : Unasked(w) => Unasked(w)'
       /\ \A w : QuestionKept(w)
  BY <1>2, StillPipes DEF QuestionKept
<1>13. ASSUME NEW a \in Records, a.from = v
       PROVE  /\ marking # v /\ toWin[v] = <<>> /\ Len(screen[v]) = cut /\ stamp[v] = cut
              /\ screen[v] = Bytes(0, cut) /\ ~a.ready /\ marking = NoWindow
  <2>1. Source(v, d) /\ (a.ready => place[v] = "sent") /\ v \in mounted
    BY <1>1, <1>11, <1>13, HasTerminal DEF Role
  <2>2. screen[v] = Bytes(0, Len(screen[v]))
    BY <1>1, <1>11, <2>1 DEF Role
  <2>. QED  BY <1>1, <1>11, <1>13, <2>1, <2>2 DEF Source, Common
<1>14. live \subseteq live' /\ live' \subseteq Window
  BY <1>1 DEF PlaceInv, TypeOK
<1>15. ASSUME NEW w \in live', w \notin live
       PROVE  /\ \E a \in arrivals : a.to = w
              /\ w \in Window \ (live \cup gone) /\ \A a \in Records : a.from # w
  <2>1. \E a \in arrivals : a.to = w /\ a.pending
    BY <1>1, <1>15
  <2>2. w \notin live \cup gone
    BY <2>1 DEF PlaceInv, RecordsStand
  <2>. QED  BY <1>14, <2>1, <2>2 DEF PlaceInv, RecordsStand
<1>16. ASSUME NEW c \in arrivals' PROVE Aim(c, d)'
  <2>1. PICK a \in arrivals :
         /\ c.n = a.n /\ c.from = a.from /\ c.to = a.to
         /\ a.from # v => c = a
    BY <1>7
  <2>2. Aim(a, d) /\ a \in Records /\ a.to \in Window /\ a.n \in Nat
    BY ClosedIsIdle DEF SeamAt, Taken
  <2>3. CASE a.from = v
    <3>1. adopting[a.to].phase = "idle" /\ NoReplays
      BY <1>13, <2>2, <2>3 DEF Aim
    <3>. QED  BY <1>2, <1>12, <2>1, <3>1 DEF Aim
  <2>4. CASE a.from # v
    <3>1. a.to = v \/ Same(a.to)
      BY <1>2, <1>4, <2>2 DEF Same
    <3>2. Waits(a.to, a.n) => Waits(a.to, a.n)'
      BY <1>2, <1>12, <2>2 DEF Waits, ReplaysKeep
    <3>3. Fed(a.to, a.n, d) => Fed(a.to, a.n, d)'
      BY <1>2, <1>12 DEF Fed
    <3>4. Mounts(a.to, d) => Mounts(a.to, d)'
      BY <1>2, <1>12 DEF Mounts
    <3>5. Aim(a, d)'
      BY <1>2, <1>12, <2>2, <3>2, <3>3, <3>4 DEF Aim
    <3>. QED  BY <2>1, <2>4, <3>5
  <2>. QED  BY <2>3, <2>4
<1>17. ASSUME NEW w \in live PROVE Role(w, d, b)'
  <2>1. w \in Window /\ Role(w, d, b)
    BY <1>3, <1>11 DEF TypeOK
  <2>2. Records' = {} /\ owner' = w => Holder(w, d, b)'
    BY <1>2, <1>10, <1>12, <2>1, HolderSame DEF Role
  <2>3. ASSUME NEW c \in Records', c.from = w PROVE Source(w, d)' /\ (c.ready => place'[w] = "sent")
    <3>1. PICK a \in Records : c.from = a.from /\ (c # a => a.from = v)
      BY <1>9
    <3>2. CASE w = v
      BY <1>2, <1>4, <1>13, <2>3, <3>1, <3>2 DEF Source
    <3>3. CASE w # v
      <4>1. c = a /\ Source(w, d) /\ (c.ready => place[w] = "sent")
        BY <2>1, <2>3, <3>1, <3>3 DEF Role
      <4>2. Same(w) /\ place'[w] = place[w]
        BY <1>2, <1>4, <2>1, <3>3 DEF Same
      <4>. QED  BY <1>2, <2>1, <4>1, <4>2, SourceSame
    <3>. QED  BY <3>2, <3>3
  <2>4. Fence(w)'
    <3>1. CASE w = v
      <4>1. place[w] \notin Resting /\ place'[w] \notin Resting
        BY <1>1, <1>4, <3>1 DEF Resting
      <4>. QED  BY <1>12, <2>1, <4>1, FenceIdle DEF Role
    <3>2. CASE w # v
      BY <1>2, <1>4, <1>12, <2>1, <3>2 DEF Role, Fence, QuestionKept
    <3>. QED  BY <3>1, <3>2
  <2>5. /\ w \in mounted' =>
             /\ screen'[w] = Bytes(0, Len(screen'[w]))
             /\ place'[w] # "none" \/ adopting'[w].phase = "planned"
        /\ Leaving(place'[w], toWin'[w]) => Head(toWin'[w]).t = "departed"
    <3>1. place'[w] = place[w] \/ (place[w] = "captured" /\ place'[w] = "sent")
      BY <1>1, <1>4, <2>1
    <3>. QED  BY <1>2, <2>1, <3>1 DEF Role, Leaving, Moving
  <2>. QED  BY <1>16, <2>2, <2>3, <2>4, <2>5 DEF Role
<1>18. ASSUME NEW w \in live', w \notin live PROVE Role(w, d, b)'
  <2>1. w \in Window /\ Unasked(w) /\ w # v /\ Records # {}
    BY <1>1, <1>11, <1>15, <1>18 DEF Common, Records
  <2>2. place[w] = "none" /\ w \notin mounted /\ Unasked(w)'
    BY <1>12, <1>18, <2>1 DEF PlaceInv, WindowsStand, Blank
  <2>3. Fence(w)'
    BY <1>4, <2>1, <2>2 DEF Fence
  <2>4. ~Leaving(place'[w], toWin'[w])
    BY <1>4, <2>1, <2>2 DEF Leaving, Moving
  <2>5. \A c \in Records' : c.from # w
    BY <1>9, <1>15, <1>18
  <2>. QED  BY <1>2, <1>10, <1>16, <2>1, <2>2, <2>3, <2>4, <2>5 DEF Role
<1>19. Common'
  <2>1. ASSUME NEW c \in Records'
        PROVE  /\ marking' \in {c.from, NoWindow}
               /\ marking' # NoWindow => NoReplays'
               /\ c.ready => marking' = NoWindow /\ c.mark = cut' /\ c.part = Bytes(0, cut')
    <3>1. PICK a \in Records :
            /\ c.from = a.from
            /\ c # a => a.from = v /\ c.part = screen[v] /\ c.mark = stamp[v]
      BY <1>9
    <3>2. /\ marking \in {a.from, NoWindow} /\ (marking # NoWindow => NoReplays)
          /\ a.ready => marking = NoWindow /\ a.mark = cut /\ a.part = Bytes(0, cut)
      BY <1>11 DEF Common
    <3>3. CASE c = a
      BY <1>2, <1>12, <3>2, <3>3
    <3>4. CASE c # a
      BY <1>2, <1>12, <1>13, <3>1, <3>2, <3>4
    <3>. QED  BY <3>3, <3>4
  <2>2. \A w \in Window : adopting'[w].phase # "idle" => \E a \in arrivals' : a.to = w
    BY <1>2, <1>8, <1>11 DEF Common
  <2>3. \A c \in arrivals' : c.to \notin live' => NoReplays'
    BY <1>7, <1>11, <1>12, <1>14 DEF Common
  <2>4. lost' # {} => NoReplays'
    BY <1>2, <1>11, <1>12 DEF Common
  <2>5. \A w \in Window \ (live' \cup gone') : Unasked(w)'
    BY <1>2, <1>11, <1>12, <1>14 DEF Common
  <2>. QED  BY <2>1, <2>2, <2>3, <2>4, <2>5 DEF Common
<1>20. Laid(d, b)'
  BY <1>2, <1>11 DEF Laid
<1>. QED  BY <1>17, <1>18, <1>19, <1>20, Whole
-----------------------------------------------------------------------------
(* The target's steps *)

LEMMA AdoptReadySeam ==
    ASSUME PlaceInv, PlaceInv', NEW d \in Nat, NEW b \in Nat, SeamAt(d, b), NEW v \in Window, AdoptReady(v)
    PROVE  SeamAt(d, b)'
<1>1. PICK a \in arrivals :
        /\ v \in live /\ a.to = v /\ a.ready /\ adopting[v].phase = "idle"
        /\ adopting' = [adopting EXCEPT ![v] = [phase |-> "collecting", n |-> a.n, part |-> a.part]]
        /\ stdin' = Append(stdin, [t |-> "init", for |-> v, n |-> a.n, since |-> a.mark])
        /\ UNCHANGED <<produced, stdout, hostVars, toWin, place, stamp, expecting, screen, mounted, moves>>
  BY DEF AdoptReady
<1>. DEFINE r == [t |-> "init", for |-> v, n |-> a.n, since |-> a.mark]
            q == stdin  u == Append(stdin, r)
<1>2. /\ TypeOK /\ q \in Seq(Request) /\ a \in Arrival /\ a.n \in Nat /\ a.mark \in Mark /\ a \in Records
      /\ arrivals \subseteq Records /\ \A c \in Records : c = a
  BY DEF PlaceInv, TypeOK, Arrival, Records, RecordsStand
<1>3. r \in Request
  BY <1>1, <1>2 DEF Request
<1>4. r.t = "init" /\ r.for = v /\ r.n = a.n /\ r.since = a.mark /\ \A w : ~Probe(r, w)
  BY DEF Probe
<1>5. stdin' = u
  BY <1>1
<1>6. /\ DOMAIN q = 1..Len(q) /\ DOMAIN u = 1..Len(q) + 1 /\ Len(q) \in Nat
      /\ \A i \in 1..Len(q) : u[i] = q[i]
      /\ u[Len(q) + 1] = r
  BY <1>2, <1>3, Appended
<1>. HIDE DEF r
<1>7. Common /\ Laid(d, b) /\ \A w \in live : Role(w, d, b)
  BY Parts
<1>8. marking = NoWindow /\ a.mark = cut /\ a.part = Bytes(0, cut) /\ cut = b
  <2>1. marking = NoWindow /\ a.mark = cut /\ a.part = Bytes(0, cut)
    BY <1>1, <1>2, <1>7 DEF Common
  <2>2. a.from \in Window
    BY <1>2 DEF Arrival
  <2>3. cut # NoMark
    BY <1>2, <2>1, <2>2, WindowsAreDistinct DEF PlaceInv, RecordsStand
  <2>. QED  BY <1>7, <2>1, <2>3 DEF Laid
<1>9. NoReplays
  BY <1>1, <1>7 DEF Role, Aim
<1>10. OneReplay(v, a.n)'
  <2>1. None(q, r.t)
    BY <1>4, <1>9 DEF NoReplays
  <2>2. Only(u, r.t, Len(q) + 1) /\ u[Len(q) + 1] = r
    BY <1>2, <1>3, <2>1, OnlyComes
  <2>3. None(stdout', "replay")
    BY <1>1, <1>9 DEF NoReplays
  <2>. QED  BY <1>4, <1>5, <2>2, <2>3 DEF OneReplay, Only
<1>. HIDE DEF u
<1>11. \A i \in DOMAIN u : (i \in DOMAIN q /\ u[i] = q[i]) \/ u[i] = r
  BY <1>6
<1>12. \A w : Unasked(w) => Unasked(w)'
  BY <1>1, <1>4, <1>5, <1>11 DEF Unasked
<1>13. Laid(d, b)'
  <2>1. \A i \in DOMAIN u : u[i].t = "init" => u[i].since = b
    BY <1>4, <1>7, <1>8, <1>11 DEF Laid
  <2>. QED  BY <1>1, <1>5, <1>7, <2>1 DEF Laid, hostVars
<1>14. Waits(v, a.n)'
  <2>1. adopting[v].n # a.n
    BY <1>1, <1>2 DEF PlaceInv, TargetsStand, Target, NotAdopting, RecordsStand
  <2>2. ~Traffic(v, a.n)
    BY <1>1, <2>1 DEF PlaceInv, Numbered
  <2>3. \A i \in DOMAIN toWin[v] : toWin[v][i] \in Range(toWin[v])
    BY DEF Range
  <2>4. \A i \in DOMAIN toWin[v] : ~(toWin[v][i].t = "replay" /\ toWin[v][i].n = a.n)
    BY <2>2, <2>3 DEF Traffic
  <2>5. toWin' = toWin
    BY <1>1
  <2>. QED  BY <1>10, <2>4, <2>5 DEF Waits
<1>15. /\ adopting'[v].phase = "collecting" /\ adopting'[v].n = a.n /\ adopting'[v].part = a.part
       /\ \A w \in Window : w # v => adopting'[w] = adopting[w]
  BY <1>1, <1>2 DEF TypeOK
<1>16. Aim(a, d)'
  BY <1>1, <1>14, <1>15 DEF Aim
<1>17. /\ UNCHANGED <<toWin, place, stamp, expecting, screen, mounted>>
       /\ UNCHANGED <<live, gone, owner, awaiting, marking, cut, arrivals, lost>> /\ Records' = Records
  BY <1>1 DEF hostVars, Records
<1>18. ASSUME NEW w \in live PROVE Role(w, d, b)'
  <2>1. w \in Window /\ Role(w, d, b)
    BY <1>2, <1>7 DEF TypeOK
  <2>2. place[w] \notin Resting
    BY <1>2, RestingHolds
  <2>3. Fence(w)'
    BY <1>12, <1>17, <2>1, <2>2, FenceIdle DEF Role
  <2>4. \A c \in Records' : c.from = w => Source(w, d)' /\ (c.ready => place'[w] = "sent")
    <3>1. \A c \in Records : c.from = w => Source(w, d) /\ (c.ready => place[w] = "sent")
      BY <2>1 DEF Role
    <3>2. Source(w, d) => Source(w, d)'
      BY <1>17 DEF Source
    <3>. QED  BY <1>17, <3>1, <3>2
  <2>5. \A c \in arrivals' : Aim(c, d)'
    BY <1>2, <1>16, <1>17
  <2>6. Records' # {}
    BY <1>2, <1>17
  <2>7. w \in mounted' =>
             /\ screen'[w] = Bytes(0, Len(screen'[w]))
             /\ place'[w] # "none" \/ adopting'[w].phase = "planned"
    <3>1. adopting[w].phase = "planned" => adopting'[w].phase = "planned"
      BY <1>1, <1>15, <2>1
    <3>. QED  BY <1>17, <2>1, <3>1 DEF Role
  <2>8. Leaving(place'[w], toWin'[w]) => Head(toWin'[w]).t = "departed"
    BY <1>17, <2>1 DEF Role
  <2>. QED  BY <2>3, <2>4, <2>5, <2>6, <2>7, <2>8 DEF Role
<1>19. Common'
  <2>1. lost = {}
    BY <1>1 DEF PlaceInv, RecordsStand
  <2>2. \A w \in Window : adopting'[w].phase # "idle" => \E c \in arrivals : c.to = w
    BY <1>1, <1>7, <1>15 DEF Common
  <2>3. \A c \in arrivals : c.to \in live
    BY <1>1, <1>2
  <2>. QED  BY <1>7, <1>8, <1>12, <1>17, <2>1, <2>2, <2>3 DEF Common
<1>. QED  BY <1>13, <1>17, <1>18, <1>19, Whole

LEMMA AdoptDoneSeam ==
    ASSUME PlaceInv, PlaceInv', NEW d \in Nat, NEW b \in Nat, SeamAt(d, b), NEW v \in Window, AdoptDone(v)
    PROVE  SeamAt(d, b)'
<1>1. /\ v \in live /\ adopting[v].phase = "planned"
      /\ UNCHANGED <<produced, stdin, stdout, live, gone, owner, lost, stamp, expecting, moves>>
      /\ TypeOK
  BY DEF AdoptDone, PlaceInv
<1>2. Common /\ Laid(d, b) /\ \A w \in live : Role(w, d, b)
  BY Parts
<1>3. QueuedFor(v) # {}
  BY <1>1, <1>2 DEF Common, QueuedFor
<1>4. PICK a \in QueuedFor(v) :
        /\ arrivals' = arrivals \ {a} /\ awaiting' = FALSE /\ cut' = NoMark /\ marking' = NoWindow
        /\ Emit(a.from, [t |-> "departed"]) /\ place' = [place EXCEPT ![v] = "held"]
        /\ adopting' = [adopting EXCEPT ![v] = NotAdopting]
        /\ UNCHANGED <<screen, mounted>>
  BY <1>3 DEF AdoptDone
<1>5. a \in arrivals /\ a.to = v /\ a \in Records /\ a.from # v /\ a.from \in Window /\ owner = v /\ lost = {}
  BY <1>4, ClosedIsIdle DEF QueuedFor, Records, PlaceInv, RecordsStand
<1>6. \A c \in Records : c = a
  BY <1>5 DEF PlaceInv, RecordsStand
<1>7. arrivals' = {} /\ Records' = {}
  BY <1>1, <1>4, <1>5, <1>6 DEF Records
<1>8. Mounts(v, d) /\ a.ready
  BY <1>1, <1>2, <1>5 DEF Role, Aim
<1>9. [t |-> "departed"] \in Event
  BY DEF Event
<1>10. ASSUME NEW w \in Window
       PROVE  \/ toWin'[w] = toWin[w]
              \/ w \in live /\ w = a.from /\ toWin'[w] = Append(toWin[w], [t |-> "departed"])
  BY <1>1, <1>4, <1>9, EmitEach
<1>11. /\ place'[v] = "held" /\ \A w \in Window : w # v => place'[w] = place[w] /\ adopting'[w] = adopting[w]
       /\ adopting'[v] = NotAdopting /\ toWin'[v] = toWin[v] /\ screen' = screen /\ mounted' = mounted
  BY <1>1, <1>4, <1>5, <1>10 DEF TypeOK
<1>12. /\ NoReplays' = NoReplays
       /\ \A w : Unasked(w) /\ toWin'[w] = toWin[w] => Unasked(w)'
  BY <1>1 DEF NoReplays, Unasked
<1>13. Away(place[v], toWin[v])
  <2>1. Unsettled(toWin[v])
    BY <1>1, HasTerminal
  <2>2. ~Leaving(place[v], toWin[v])
    BY <2>1 DEF Leaving, Settled, Unsettled, Outcomes
  <2>. QED  BY <1>1, <2>2, AdopterIsAway
<1>14. Role(v, d, b)'
  <2>1. Holder(v, d, b)'
    BY <1>1, <1>4, <1>8, <1>11, <1>12 DEF Holder, Mounts
  <2>2. Fence(v)'
    BY <1>1, <1>2, <1>11, <1>12, <1>13 DEF Role, Fence, Away
  <2>3. v \in mounted' => screen'[v] = Bytes(0, Len(screen'[v]))
    BY <1>1, <1>2, <1>11 DEF Role
  <2>4. ~Leaving(place'[v], toWin'[v])
    BY <1>11 DEF Leaving, Moving
  <2>. QED  BY <1>7, <1>11, <2>1, <2>2, <2>3, <2>4 DEF Role
<1>15. ASSUME NEW w \in live, w # v, w # a.from PROVE Role(w, d, b)'
  <2>1. w \in Window /\ Role(w, d, b) /\ toWin'[w] = toWin[w] /\ place'[w] = place[w]
    BY <1>1, <1>2, <1>10, <1>11, <1>15 DEF TypeOK
  <2>2. place[w] \notin Resting
    BY <1>5, RestingHolds
  <2>3. Fence(w)'
    BY <1>12, <2>1, <2>2, FenceIdle DEF Role
  <2>. QED  BY <1>1, <1>5, <1>7, <1>11, <1>15, <2>1, <2>3, Bystander
<1>16. ASSUME NEW w \in live, w = a.from PROVE Role(w, d, b)'
  <2>1. w \in Window /\ Role(w, d, b) /\ place'[w] = place[w] /\ place[w] = "sent" /\ toWin[w] = <<>>
    BY <1>1, <1>2, <1>5, <1>8, <1>11, <1>16 DEF TypeOK, Role, Source
  <2>2. toWin'[w] = <<>> \/ toWin'[w] = <<[t |-> "departed"]>>
    BY <1>10, <2>1
  <2>3. Unasked(w)'
    <3>1. None(toWin'[w], "cwds")
      BY <2>2 DEF None
    <3>. QED  BY <1>1, <2>1, <3>1 DEF Role, Fence, Unasked
  <2>4. Fence(w)'
    BY <2>1, <2>3 DEF Fence
  <2>5. Leaving(place'[w], toWin'[w]) => Head(toWin'[w]).t = "departed"
    <3>1. CASE toWin'[w] = <<>>
      BY <3>1 DEF Leaving, Settled
    <3>2. CASE toWin'[w] = <<[t |-> "departed"]>>
      BY <3>2
    <3>. QED  BY <2>2, <3>1, <3>2
  <2>6. owner' # w
    BY <1>1, <1>5, <1>16
  <2>. QED  BY <1>7, <1>11, <2>1, <2>4, <2>5, <2>6 DEF Role
<1>17. Common'
  <2>1. \A w \in Window : adopting'[w].phase = "idle"
    <3>1. \A w \in Window : w # v => adopting[w].phase = "idle"
      BY <1>2, <1>5, <1>6 DEF Common, Records
    <3>. QED  BY <1>11, <3>1 DEF NotAdopting
  <2>2. \A w \in Window \ (live' \cup gone') : Unasked(w)'
    BY <1>1, <1>2, <1>10, <1>12 DEF Common
  <2>. QED  BY <1>1, <1>5, <1>7, <2>1, <2>2 DEF Common
<1>18. Laid(d, b)'
  BY <1>1, <1>2, <1>4 DEF Laid
<1>. QED  BY <1>1, <1>14, <1>15, <1>16, <1>17, <1>18, Whole
-----------------------------------------------------------------------------
(* The reader thread *)

LEMMA QueuesTyped ==
    ASSUME TypeOK, NEW w \in Window
    PROVE  toWin[w] \in Seq(Event) /\ screen[w] \in Seq(Nat) /\ Len(screen[w]) \in Nat
BY DEF TypeOK

\* A line other than a replay is read.
LEMMA LineRead ==
    ASSUME TypeOK, stdout # <<>>, stdout' = Tail(stdout), stdin' = stdin, Head(stdout).t # "replay"
    PROVE  ReplaysKeep
<1>. DEFINE q == stdout  r == Tail(stdout)
<1>0. q \in Seq(Line) /\ q # <<>> /\ Head(q).t # "replay"
  BY DEF TypeOK
<1>1. None(q, "replay") => None(r, "replay")
  BY <1>0, NoneLess
<1>2. \A i : Only(q, "replay", i) =>
            /\ Head(q).t = "replay" => i = 1 /\ Head(q) = q[i] /\ None(r, "replay")
            /\ Head(q).t # "replay" => Only(r, "replay", i - 1) /\ r[i - 1] = q[i]
  <2>1. q \in Seq(Line) /\ q # <<>>
    BY <1>0
  <2>. QED  BY <2>1, OnlyLess
<1>3. \A i : Only(q, "replay", i) => Only(r, "replay", i - 1) /\ r[i - 1] = q[i] /\ i - 1 \in DOMAIN r
  BY <1>0, <1>2, Zenon DEF Only
<1>4. stdout' = r /\ q = stdout
  OBVIOUS
<1>. HIDE DEF r, q
<1>5. NoReplays => NoReplays'
  BY <1>1, <1>4 DEF NoReplays
<1>6. ASSUME NEW w \in Window, NEW n \in Nat, OneReplay(w, n) PROVE OneReplay(w, n)'
  BY <1>1, <1>3, <1>4, <1>6 DEF OneReplay
<1>. QED  BY <1>5, <1>6 DEF ReplaysKeep

\* The questions of a window that is told nothing, or nothing about directories.
LEMMA QuestionsRead ==
    ASSUME TypeOK, stdout # <<>>, stdout' = Tail(stdout), stdin' = stdin,
           NEW v \in Window, ~Probe(Head(stdout), v),
           \/ toWin'[v] = toWin[v]
           \/ \E e \in Event : /\ toWin'[v] = Append(toWin[v], e) /\ e.t # "cwds"
                               /\ Head(stdout).t = "data" => e.t = "data"
    PROVE  /\ Unasked(v) => Unasked(v)'
           /\ place'[v] = place[v] /\ Fence(v) => Fence(v)'
<1>. DEFINE q == stdout  r == Tail(stdout)  h == Head(stdout)
<1>0. q \in Seq(Line) /\ q # <<>> /\ stdout' = r /\ toWin[v] \in Seq(Event)
  BY DEF TypeOK
<1>1. /\ Len(q) \in Nat /\ Len(q) > 0 /\ DOMAIN q = 1..Len(q) /\ DOMAIN r = 1..Len(q) - 1
      /\ \A i \in 1..Len(q) - 1 : r[i] = q[i + 1]
      /\ q[1] = h
  BY <1>0, Shortened
<1>2. /\ Clear(q, 0) => Clear(r, 0) /\ h.t = "data"
      /\ \A k \in Nat : k > 0 /\ Clear(q, k) => Clear(r, k - 1)
  BY <1>0, ClearLess
<1>3. None(toWin[v], "cwds") => None(toWin'[v], "cwds")
  <2>1. ASSUME NEW e \in Event, toWin'[v] = Append(toWin[v], e), e.t # "cwds", None(toWin[v], "cwds")
        PROVE  None(toWin'[v], "cwds")
    BY <1>0, <2>1, NoneMore
  <2>. QED  BY <2>1
<1>4. h.t = "data" =>
        /\ \A k : Clear(toWin[v], k) => Clear(toWin'[v], k)
        /\ \A k : Only(toWin[v], "cwds", k) => Only(toWin'[v], "cwds", k)
  <2>1. ASSUME NEW e \in Event, toWin'[v] = Append(toWin[v], e), e.t = "data"
        PROVE  /\ \A k : Clear(toWin[v], k) => Clear(toWin'[v], k)
               /\ \A k : Only(toWin[v], "cwds", k) => Only(toWin'[v], "cwds", k)
    BY <1>0, <2>1, ClearMore, OnlyMore
  <2>. QED  BY <2>1
<1>. HIDE DEF r, h
<1>5. /\ 1 \in DOMAIN q
      /\ \A i \in DOMAIN r : i \in Nat /\ i + 1 \in DOMAIN q /\ r[i] = q[i + 1] /\ i + 1 # 1
      /\ \A k \in DOMAIN q : k = 1 \/ (k - 1 \in DOMAIN r /\ q[k] = r[k - 1])
  BY <1>1, Indices
<1>6. (\A i \in DOMAIN q : ~Probe(q[i], v)) => \A i \in DOMAIN r : ~Probe(r[i], v)
  BY <1>5
<1>7. Unasked(v) => Unasked(v)'
  BY <1>0, <1>3, <1>6 DEF Unasked
<1>8. Asked(v) => Asked(v)'
  <2>1. ASSUME NEW j \in DOMAIN q, Probe(q[j], v), Clear(q, j), \A i \in DOMAIN q : Probe(q[i], v) => i = j
        PROVE  \E k \in DOMAIN r : /\ Probe(r[k], v) /\ Clear(r, k)
                                   /\ \A i \in DOMAIN r : Probe(r[i], v) => i = k
    <3>1. j # 1
      BY <1>1, <2>1 DEF h
    <3>2. j - 1 \in DOMAIN r /\ q[j] = r[j - 1] /\ j \in Nat /\ j > 0
      BY <1>1, <1>5, <3>1
    <3>3. Clear(r, j - 1)
      BY <1>2, <2>1, <3>2
    <3>4. ASSUME NEW i \in DOMAIN r, Probe(r[i], v) PROVE i = j - 1
      <4>1. i + 1 = j /\ i \in Nat
        BY <1>5, <2>1, <3>4
      <4>. QED  BY <4>1
    <3>. QED  BY <2>1, <3>2, <3>3, <3>4
  <2>2. ASSUME Clear(q, 0), NEW j \in DOMAIN toWin[v], Only(toWin[v], "cwds", j), Clear(toWin[v], j)
        PROVE  \E k \in DOMAIN toWin'[v] : Only(toWin'[v], "cwds", k) /\ Clear(toWin'[v], k)
    BY <1>2, <1>4, <2>2 DEF Only
  <2>. QED  BY <1>0, <1>2, <1>3, <1>6, <2>1, <2>2 DEF Asked
<1>9. ASSUME place'[v] = place[v], Fence(v) PROVE Fence(v)'
  BY <1>0, <1>2, <1>4, <1>7, <1>8, <1>9 DEF Fence
<1>. QED  BY <1>7, <1>9

\* Who is shown the output: the source until its mark, then the target, or the window
\* that holds the Workspace.
LEMMA ShownTo ==
    ASSUME PlaceInv, Common
    PROVE  /\ \A w \in live : Records = {} /\ owner = w => Showing = w
           /\ \A a \in Records : marking # NoWindow => Showing = a.from /\ marking = a.from
           /\ \A a \in arrivals : marking = NoWindow => Showing = a.to
           /\ lost # {} /\ marking = NoWindow => Showing = NoWindow
BY DEF PlaceInv, RecordsStand, Common, Showing

LEMMA MoreOutput ==
    ASSUME NEW q \in Seq(Event), NEW e \in Event, e.t = "data", NEW d \in Nat, e.byte = d + 1,
           NEW k \in 0..Len(q), NEW x \in Nat, Chain(q, k, x, d)
    PROVE  Chain(Append(q, e), k, x, d + 1)
<1>1. EventStep(e, d, d + 1) /\ d + 1 \in Nat
  BY DEF EventStep, IsReturn
<1>. QED  BY <1>1, ChainMore

\* The events before the one that comes, and it.
LEMMA OneMore ==
    ASSUME NEW q \in Seq(Event), NEW e \in Event, NEW r, r = Append(q, e)
    PROVE  /\ Len(q) \in Nat /\ Len(r) = Len(q) + 1 /\ Len(r) \in DOMAIN r /\ r[Len(r)] = e
           /\ \A i \in DOMAIN q : i \in DOMAIN r /\ r[i] = q[i] /\ i \in 0..Len(q) /\ i < Len(r)
           /\ \A i \in DOMAIN r : (i \in DOMAIN q /\ r[i] = q[i]) \/ (i = Len(r) /\ r[i] = e)
<1>1. /\ Len(r) = Len(q) + 1 /\ Len(q) \in Nat
      /\ DOMAIN q = 1..Len(q) /\ DOMAIN r = 1..Len(q) + 1
      /\ \A i \in 1..Len(q) : r[i] = q[i]
      /\ r[Len(q) + 1] = e
  BY Appended
<1>2. \A n \in Nat : /\ n + 1 \in 1..n + 1 /\ 0 \in 0..n
                     /\ \A i \in 1..n : i \in 1..n + 1 /\ i \in 0..n /\ i < n + 1
                     /\ \A i \in 1..n + 1 : i \in 1..n \/ i = n + 1
  OBVIOUS
<1>. QED  BY <1>1, <1>2

LEMMA HolderOutput ==
    ASSUME NEW w \in Window, toWin[w] \in Seq(Event), Len(screen[w]) \in Nat, NEW e \in Event, e.t = "data",
           NEW d \in Nat, NEW b \in Nat, e.byte = d + 1, Holder(w, d, b), awaiting' = awaiting, ReplaysKeep,
           screen'[w] = screen[w], expecting'[w] = expecting[w],
           IF awaiting THEN toWin'[w] = toWin[w] ELSE toWin'[w] = Append(toWin[w], e)
    PROVE  Holder(w, d + 1, b)'
<1>. DEFINE q == toWin[w]  r == toWin'[w]
<1>1. HandBackId \in Nat
  BY DEF HandBackId
<1>2. CASE awaiting
  BY <1>1, <1>2 DEF Holder, ReplaysKeep, Expects
<1>3. CASE ~awaiting
  <2>1. /\ NoReplays /\ Chain(q, 0, Len(screen[w]), d)
        /\ \A i \in DOMAIN q : IsReturn(q[i]) =>
               Expects(w, i) /\ \A j \in DOMAIN q : IsReturn(q[j]) => j = i
    BY <1>3 DEF Holder
  <2>2. /\ Len(q) \in Nat
        /\ \A i \in DOMAIN q : i \in DOMAIN r /\ r[i] = q[i]
        /\ \A i \in DOMAIN r : (i \in DOMAIN q /\ r[i] = q[i]) \/ r[i] = e
    BY <1>3, OneMore
  <2>3. Chain(r, 0, Len(screen'[w]), d + 1)
    <3>1. 0 \in 0..Len(q)
      BY <2>2
    <3>. QED  BY <1>3, <2>1, <3>1, MoreOutput
  <2>4. ASSUME NEW i \in DOMAIN r, IsReturn(r[i])
        PROVE  Expects(w, i)' /\ \A j \in DOMAIN r : IsReturn(r[j]) => j = i
    <3>1. ~IsReturn(e)
      BY DEF IsReturn
    <3>2. i \in DOMAIN q /\ IsReturn(q[i]) /\ \A j \in DOMAIN r : IsReturn(r[j]) => j \in DOMAIN q /\ IsReturn(q[j])
      BY <2>2, <2>4, <3>1
    <3>3. Expects(w, i)'
      BY <2>1, <2>2, <3>2 DEF Expects
    <3>. QED  BY <2>1, <3>2, <3>3
  <2>. QED  BY <1>3, <2>1, <2>3, <2>4 DEF Holder, ReplaysKeep
<1>. QED  BY <1>2, <1>3

LEMMA AimOutput ==
    ASSUME NEW v \in Window, NEW a, a.to = v, a.n \in Nat, toWin[v] \in Seq(Event), Len(screen[v]) \in Nat,
           NEW e \in Event, e.t = "data", NEW d \in Nat, e.byte = d + 1, Aim(a, d),
           awaiting' = awaiting, cut' = cut, ReplaysKeep, adopting'[v] = adopting[v], screen'[v] = screen[v],
           toWin'[v] = toWin[v] \/ toWin'[v] = Append(toWin[v], e),
           adopting[v].phase # "idle" /\ ~awaiting => toWin'[v] = Append(toWin[v], e)
    PROVE  Aim(a, d + 1)'
<1>. DEFINE q == toWin[v]  r == toWin'[v]
<1>0. ~IsReturn(e) /\ e.t # "replay"
  BY DEF IsReturn
<1>1. Waits(v, a.n) => Waits(v, a.n)'
  <2>1. ASSUME NEW i \in DOMAIN r PROVE (i \in DOMAIN q /\ r[i] = q[i]) \/ r[i] = e
    BY SMTT(30), OneMore
  <2>. QED  BY <1>0, <2>1 DEF Waits, ReplaysKeep
<1>2. ASSUME adopting[v].phase # "idle", ~awaiting
      PROVE  /\ r = Append(q, e) /\ Len(q) \in Nat /\ 0 \in 0..Len(q)
             /\ \A i \in DOMAIN q : i \in DOMAIN r /\ r[i] = q[i] /\ i \in 0..Len(q)
             /\ \A i \in DOMAIN r : (i \in DOMAIN q /\ r[i] = q[i]) \/ r[i] = e
  BY <1>2, OneMore
<1>3. ASSUME adopting[v].phase # "idle", Fed(v, a.n, d) PROVE Fed(v, a.n, d + 1)'
  <2>1. PICK j \in DOMAIN q, y \in Nat :
          /\ q[j].t = "replay" /\ q[j].n = a.n
          /\ cut <= y /\ q[j].bytes = Bytes(cut, y)
          /\ Chain(q, j, y, d)
          /\ \A i \in DOMAIN q : q[i].t = "replay" /\ q[i].n = a.n => i = j
          /\ \A i \in DOMAIN q : i > j => ~IsReturn(q[i])
    BY <1>3 DEF Fed
  <2>2. NoReplays' /\ ~awaiting /\ ~awaiting'
    BY <1>3 DEF Fed, ReplaysKeep
  <2>3. Chain(r, j, y, d + 1)
    <3>1. r = Append(q, e) /\ j \in 0..Len(q) /\ q \in Seq(Event)
      BY <1>2, <1>3, <2>2
    <3>. QED  BY <2>1, <3>1, MoreOutput
  <2>4. j \in DOMAIN r /\ r[j] = q[j]
    BY <1>2, <1>3, <2>2
  <2>5. \A i \in DOMAIN r : r[i].t = "replay" /\ r[i].n = a.n => i = j
    BY <1>0, <1>2, <1>3, <2>1, <2>2
  <2>6. \A i \in DOMAIN r : i > j => ~IsReturn(r[i])
    BY <1>0, <1>2, <1>3, <2>1, <2>2
  <2>. QED  BY <2>1, <2>2, <2>3, <2>4, <2>5, <2>6 DEF Fed
<1>4. ASSUME adopting[v].phase # "idle", Mounts(v, d) PROVE Mounts(v, d + 1)'
  <2>1. /\ NoReplays' /\ ~awaiting /\ ~awaiting' /\ Chain(q, 0, Len(screen[v]), d)
        /\ \A i \in DOMAIN q : ~IsReturn(q[i])
    BY <1>4 DEF Mounts, ReplaysKeep
  <2>2. Chain(r, 0, Len(screen'[v]), d + 1)
    <3>1. r = Append(q, e) /\ 0 \in 0..Len(q) /\ q \in Seq(Event)
      BY <1>2, <1>4, <2>1
    <3>2. Chain(r, 0, Len(screen[v]), d + 1)
      BY <2>1, <3>1, MoreOutput
    <3>. QED  BY <3>2
  <2>3. \A i \in DOMAIN r : ~IsReturn(r[i])
    BY <1>0, <1>2, <1>4, <2>1
  <2>. QED  BY <2>1, <2>2, <2>3 DEF Mounts
<1>. QED  BY <1>1, <1>3, <1>4 DEF Aim, ReplaysKeep

\* A window on its way out is told so next.
LEMMA LeavesOn ==
    ASSUME NEW p, NEW q \in Seq(Event), NEW e \in Event, e.t \notin Outcomes,
           NEW r, r = Append(q, e), Leaving(p, q) => Head(q).t = "departed"
    PROVE  Leaving(p, r) => Head(r).t = "departed"
<1>2. ASSUME Leaving(p, r) PROVE Head(r).t = "departed"
  <2>1. /\ \A i \in DOMAIN q : i \in DOMAIN r /\ r[i] = q[i]
        /\ \A i \in DOMAIN r : (i \in DOMAIN q /\ r[i] = q[i]) \/ r[i] = e
    BY OneMore
  <2>2. "departed" \in Outcomes
    BY DEF Outcomes
  <2>3. PICK i \in DOMAIN q : q[i].t = "departed" /\ \A j \in DOMAIN q : q[j].t \in Outcomes => j = i
    BY <1>2, <2>1, <2>2 DEF Leaving, Settled
  <2>4. Leaving(p, q)
    BY <1>2, <2>3 DEF Leaving, Settled
  <2>5. 1 \in DOMAIN q /\ Head(q) = q[1] /\ Head(r) = r[1]
    <3>1. q # <<>> /\ r # <<>>
      BY <1>2, <2>3
    <3>2. Len(q) \in Nat /\ Len(q) > 0 /\ DOMAIN q = 1..Len(q) /\ q[1] = Head(q)
      BY <3>1, Shortened
    <3>3. r[1] = Head(r)
      BY <1>2, <3>1, Shortened
    <3>. QED  BY <3>2, <3>3
  <2>. QED  BY <2>1, <2>4, <2>5
<1>. QED  BY <1>2

LEMMA DispatchDataSeam ==
    ASSUME PlaceInv, PlaceInv', NEW d \in Nat, NEW b \in Nat, SeamAt(d, b), DispatchData
    PROVE  SeamAt(d + 1, b)'
<1>. DEFINE h == Head(stdout)
<1>1. /\ stdout # <<>> /\ h.t = "data" /\ stdout' = Tail(stdout)
      /\ IF awaiting THEN UNCHANGED toWin ELSE Emit(Showing, h)
      /\ UNCHANGED <<produced, stdin, hostVars, place, stamp, adopting, expecting, screen, mounted>>
  BY DEF DispatchData, HasLine, TakeLine
<1>2. /\ TypeOK /\ stdout \in Seq(Line) /\ produced \in Nat /\ toWin \in [Window -> Seq(Event)]
      /\ screen \in [Window -> Seq(Nat)] /\ live \subseteq Window /\ d + 1 \in Nat
      /\ \A w \in Window : toWin[w] \in Seq(Event) /\ Len(screen[w]) \in Nat
  BY QueuesTyped DEF PlaceInv, TypeOK
<1>3. h \in Line /\ h \in Event
  BY <1>1, <1>2, LineParts
<1>4. UNCHANGED <<live, gone, owner, awaiting, marking, cut, arrivals, lost>> /\ Records' = Records
  BY <1>1 DEF hostVars, Records
<1>5. Common /\ Laid(d, b) /\ \A w \in live : Role(w, d, b)
  BY Parts
<1>6. h.byte = d + 1 /\ Lines(Tail(stdout), d + 1, produced, b)
  <2>1. PICK x \in Nat : LineStep(h, d, x, b) /\ Lines(Tail(stdout), x, produced, b)
    BY <1>1, <1>2, <1>5, LinesLess DEF Laid
  <2>2. x = d + 1 /\ h.byte = x
    BY <1>1, <2>1 DEF LineStep
  <2>. QED  BY <2>1, <2>2
<1>7. ~Probe(h, NoWindow) /\ \A w : ~Probe(h, w)
  BY <1>1 DEF Probe
<1>8. ReplaysKeep
  BY <1>1, <1>2, LineRead
<1>9. /\ \A w \in Window : toWin'[w] = toWin[w] \/ toWin'[w] = Append(toWin[w], h)
      /\ \A w \in live : IF ~awaiting /\ Showing = w THEN toWin'[w] = Append(toWin[w], h)
                                                     ELSE toWin'[w] = toWin[w]
  BY <1>1, <1>2 DEF Emit
<1>. HIDE DEF h
<1>10. ASSUME NEW w \in Window
       PROVE  (Unasked(w) => Unasked(w)') /\ (Fence(w) => Fence(w)')
  <2>1. \/ toWin'[w] = toWin[w]
        \/ \E e \in Event : toWin'[w] = Append(toWin[w], e) /\ e.t # "cwds" /\ e.t = "data"
    BY <1>1, <1>3, <1>9 DEF h
  <2>2. ~Probe(Head(stdout), w) /\ stdin' = stdin /\ place'[w] = place[w]
    BY <1>1, <1>7 DEF h
  <2>. QED  BY <1>1, <1>2, <2>1, <2>2, QuestionsRead
<1>11. Laid(d + 1, b)'
  <2>1. b <= d + 1
    BY <1>5 DEF Laid
  <2>. QED  BY <1>1, <1>4, <1>5, <1>6, <2>1 DEF Laid
<1>12. /\ \A w \in live : Records = {} /\ owner = w => Showing = w
       /\ \A a \in Records : marking # NoWindow => Showing = a.from /\ marking = a.from
       /\ \A a \in arrivals : marking = NoWindow => Showing = a.to
       /\ lost # {} /\ marking = NoWindow => Showing = NoWindow
  BY <1>5, ShownTo
<1>13. ASSUME NEW w \in live PROVE Role(w, d + 1, b)'
  <2>1. w \in Window /\ Role(w, d, b) /\ w # NoWindow
    BY <1>2, <1>5, WindowsAreDistinct
  <2>2. place'[w] = place[w] /\ screen'[w] = screen[w] /\ expecting'[w] = expecting[w] /\ stamp'[w] = stamp[w]
        /\ adopting'[w] = adopting[w] /\ mounted' = mounted
    BY <1>1
  <2>3. Records = {} /\ owner = w => Holder(w, d + 1, b)'
    <3>1. ASSUME Records = {}, owner = w PROVE Holder(w, d + 1, b)'
      <4>1. IF awaiting THEN toWin'[w] = toWin[w] ELSE toWin'[w] = Append(toWin[w], h)
        BY <1>9, <1>12, <3>1
      <4>2. Holder(w, d, b)
        BY <2>1, <3>1 DEF Role
      <4>. QED  BY <1>1, <1>2, <1>3, <1>4, <1>6, <1>8, <2>1, <2>2, <4>1, <4>2, HolderOutput
    <3>. QED  BY <3>1
  <2>4. ASSUME NEW a \in Records, a.from = w PROVE Source(w, d + 1)' /\ (a.ready => place'[w] = "sent")
    <3>1. Source(w, d) /\ (a.ready => place[w] = "sent")
      BY <2>1, <2>4 DEF Role
    <3>2. CASE marking = w
      <4>1. ~awaiting /\ Showing = w
        BY <1>2, <2>1, <3>2 DEF TypeOK, Showing
      <4>2. toWin'[w] = Append(toWin[w], h)
        BY <1>9, <4>1
      <4>3. Clear(toWin'[w], 0)
        BY <1>1, <1>2, <1>3, <2>1, <3>1, <3>2, <4>2, ClearMore DEF Source
      <4>4. Chain(toWin'[w], 0, Len(screen'[w]), d + 1)
        <5>1. 0 \in 0..Len(toWin[w])
          BY <1>2, <2>1
        <5>2. Chain(toWin[w], 0, Len(screen[w]), d)
          BY <3>1, <3>2 DEF Source
        <5>. QED  BY <1>1, <1>2, <1>3, <1>6, <2>1, <2>2, <4>2, <5>1, <5>2, MoreOutput
      <4>. QED  BY <1>4, <2>2, <3>1, <3>2, <4>3, <4>4 DEF Source
    <3>3. CASE marking # w
      <4>1. marking = NoWindow
        BY <1>12, <2>4, <3>3
      <4>2. Showing # w
        <5>1. \A c \in arrivals : c.to # w
          BY <2>4 DEF PlaceInv, RecordsStand, Records
        <5>2. arrivals # {} \/ lost # {}
          BY <2>4 DEF Records
        <5>. QED  BY <1>12, <2>1, <4>1, <5>1, <5>2
      <4>3. toWin'[w] = toWin[w]
        BY <1>9, <4>2
      <4>. QED  BY <1>4, <2>2, <3>1, <3>3, <4>3 DEF Source
    <3>. QED  BY <2>2, <3>1, <3>2, <3>3
  <2>5. ASSUME NEW a \in arrivals, a.to = w PROVE Aim(a, d + 1)'
    <3>1. Aim(a, d) /\ a.n \in Nat /\ a \in Records
      BY <2>1, <2>5, ClosedIsIdle DEF Role
    <3>2. adopting[w].phase # "idle" => a.ready
      BY <2>5, <3>1 DEF Aim
    <3>3. a.ready => marking = NoWindow
      BY <1>5, <3>1 DEF Common
    <3>4. adopting[w].phase # "idle" /\ ~awaiting => toWin'[w] = Append(toWin[w], h)
      BY <1>9, <1>12, <2>5, <3>2, <3>3
    <3>5. toWin'[w] = toWin[w] \/ toWin'[w] = Append(toWin[w], h)
      BY <1>9, <2>1
    <3>6. awaiting' = awaiting /\ cut' = cut
      BY <1>4
    <3>. QED  BY <1>1, <1>2, <1>3, <1>6, <1>8, <2>1, <2>2, <2>5, <3>1, <3>4, <3>5, <3>6, AimOutput
  <2>6. Fence(w)'
    BY <1>10, <2>1 DEF Role
  <2>7. Leaving(place'[w], toWin'[w]) => Head(toWin'[w]).t = "departed"
    <3>1. h.t \notin Outcomes
      BY <1>1 DEF Outcomes, h
    <3>2. toWin'[w] = toWin[w] \/ toWin'[w] = Append(toWin[w], h)
      BY <1>9, <2>1
    <3>3. toWin[w] \in Seq(Event) /\ (Leaving(place[w], toWin[w]) => Head(toWin[w]).t = "departed")
      BY <1>2, <2>1 DEF Role
    <3>4. Leaving(place[w], toWin'[w]) => Head(toWin'[w]).t = "departed"
      <4>1. CASE toWin'[w] = toWin[w]
        BY <3>3, <4>1
      <4>2. CASE toWin'[w] = Append(toWin[w], h)
        <5>. DEFINE q == toWin[w]  r == toWin'[w]
        <5>1. q \in Seq(Event) /\ r = Append(q, h) /\ (Leaving(place[w], q) => Head(q).t = "departed")
          BY <3>3, <4>2
        <5>. HIDE DEF q, r
        <5>2. Leaving(place[w], r) => Head(r).t = "departed"
          BY <1>3, <3>1, <5>1, LeavesOn
        <5>. QED  BY <5>2 DEF r
      <4>. QED  BY <3>2, <4>1, <4>2
    <3>. QED  BY <2>2, <3>4
  <2>8. w \in mounted' =>
             /\ screen'[w] = Bytes(0, Len(screen'[w]))
             /\ place'[w] # "none" \/ adopting'[w].phase = "planned"
    BY <2>1, <2>2 DEF Role
  <2>. QED  BY <1>4, <2>3, <2>4, <2>5, <2>6, <2>7, <2>8 DEF Role
<1>14. Common'
  <2>1. \A w \in Window \ (live \cup gone) : Unasked(w) => Unasked(w)'
    BY <1>10
  <2>2. adopting' = adopting /\ (NoReplays => NoReplays')
    BY <1>1, <1>8 DEF ReplaysKeep
  <2>. QED  BY <1>4, <1>5, <2>1, <2>2, CommonSame
<1>. QED  BY <1>2, <1>4, <1>11, <1>13, <1>14, Whole

\* An event that is no output and no replay.
Silent(e) == e.t \notin {"data", "replay"} /\ e.t \notin Outcomes

LEMMA SilentStep ==
    ASSUME NEW q \in Seq(Event), NEW e \in Event, Silent(e), NEW k \in 0..Len(q),
           NEW x \in Nat, NEW y \in Nat, Chain(q, k, x, y)
    PROVE  Chain(Append(q, e), k, x, y)
<1>1. EventStep(e, y, y)
  BY DEF EventStep, IsReturn, Silent
<1>. QED  BY <1>1, ChainMore

LEMMA HolderSilent ==
    ASSUME NEW w \in Window, toWin[w] \in Seq(Event), Len(screen[w]) \in Nat, NEW e \in Event, Silent(e),
           NEW d \in Nat, NEW b \in Nat, Holder(w, d, b), awaiting' = awaiting, ReplaysKeep,
           screen'[w] = screen[w], expecting'[w] = expecting[w], toWin'[w] = Append(toWin[w], e)
    PROVE  Holder(w, d, b)'
<1>. DEFINE q == toWin[w]  r == toWin'[w]
<1>1. HandBackId \in Nat /\ ~IsReturn(e)
  BY DEF HandBackId, IsReturn, Silent
<1>2. /\ Len(q) \in Nat /\ Len(r) = Len(q) + 1
      /\ \A i \in DOMAIN q : i \in DOMAIN r /\ r[i] = q[i] /\ i < Len(r)
      /\ \A i \in DOMAIN r : (i \in DOMAIN q /\ r[i] = q[i]) \/ r[i] = e
  BY OneMore
<1>3. 0 \in 0..Len(q)
  BY <1>2
<1>4. \A y \in Nat : Chain(q, 0, Len(screen[w]), y) => Chain(r, 0, Len(screen'[w]), y)
  BY <1>3, SilentStep
<1>5. CASE awaiting
  <2>1. /\ OneReplay(w, HandBackId) /\ Chain(q, 0, Len(screen[w]), b)
        /\ \A i \in DOMAIN q : ~IsReturn(q[i])
        /\ expecting[w] \/ \E k \in DOMAIN q : q[k].t = "failed" /\ q[k].replay
    BY <1>5 DEF Holder, Expects
  <2>2. OneReplay(w, HandBackId)' /\ Chain(r, 0, Len(screen'[w]), b) /\ \A i \in DOMAIN r : ~IsReturn(r[i])
    BY <1>1, <1>2, <1>4, <2>1 DEF ReplaysKeep
  <2>3. \A i \in DOMAIN q : i < Len(r) + 1
    BY <1>2
  <2>4. expecting'[w] \/ \E k \in DOMAIN r : k < Len(r) + 1 /\ r[k].t = "failed" /\ r[k].replay
    BY <1>2, <2>1, <2>3
  <2>. QED  BY <1>5, <2>2, <2>4 DEF Holder, Expects
<1>6. CASE ~awaiting
  <2>1. /\ NoReplays /\ Chain(q, 0, Len(screen[w]), d)
        /\ \A i \in DOMAIN q : IsReturn(q[i]) =>
               Expects(w, i) /\ \A j \in DOMAIN q : IsReturn(q[j]) => j = i
    BY <1>6 DEF Holder
  <2>2. ASSUME NEW i \in DOMAIN r, IsReturn(r[i])
        PROVE  Expects(w, i)' /\ \A j \in DOMAIN r : IsReturn(r[j]) => j = i
    <3>1. i \in DOMAIN q /\ IsReturn(q[i]) /\ \A j \in DOMAIN r : IsReturn(r[j]) => j \in DOMAIN q /\ IsReturn(q[j])
      BY <1>1, <1>2, <2>2
    <3>2. Expects(w, i)'
      BY <1>2, <2>1, <3>1 DEF Expects
    <3>. QED  BY <2>1, <3>1, <3>2
  <2>. QED  BY <1>4, <1>6, <2>1, <2>2 DEF Holder, ReplaysKeep
<1>. QED  BY <1>5, <1>6

LEMMA AimSilent ==
    ASSUME NEW v \in Window, NEW a, a.to = v, a.n \in Nat, toWin[v] \in Seq(Event), Len(screen[v]) \in Nat,
           NEW e \in Event, Silent(e), NEW d \in Nat, Aim(a, d),
           awaiting' = awaiting, cut' = cut, ReplaysKeep, adopting'[v] = adopting[v], screen'[v] = screen[v],
           toWin'[v] = Append(toWin[v], e)
    PROVE  Aim(a, d)'
<1>. DEFINE q == toWin[v]  r == toWin'[v]
<1>0. ~IsReturn(e) /\ e.t # "replay"
  BY DEF IsReturn, Silent
<1>1. /\ r = Append(q, e) /\ Len(q) \in Nat
      /\ \A i \in DOMAIN q : i \in DOMAIN r /\ r[i] = q[i] /\ i \in 0..Len(q)
      /\ \A i \in DOMAIN r : (i \in DOMAIN q /\ r[i] = q[i]) \/ r[i] = e
  BY OneMore
<1>2. Waits(v, a.n) => Waits(v, a.n)'
  BY <1>0, <1>1 DEF Waits, ReplaysKeep
<1>3. ASSUME Fed(v, a.n, d) PROVE Fed(v, a.n, d)'
  <2>1. PICK j \in DOMAIN q, y \in Nat :
          /\ q[j].t = "replay" /\ q[j].n = a.n
          /\ cut <= y /\ q[j].bytes = Bytes(cut, y)
          /\ Chain(q, j, y, d)
          /\ \A i \in DOMAIN q : q[i].t = "replay" /\ q[i].n = a.n => i = j
          /\ \A i \in DOMAIN q : i > j => ~IsReturn(q[i])
    BY <1>3 DEF Fed
  <2>2. NoReplays' /\ ~awaiting'
    BY <1>3 DEF Fed, ReplaysKeep
  <2>3. Chain(r, j, y, d)
    <3>1. r = Append(q, e) /\ j \in 0..Len(q) /\ q \in Seq(Event)
      BY <1>1
    <3>. QED  BY <2>1, <3>1, SilentStep
  <2>4. j \in DOMAIN r /\ r[j] = q[j]
    BY <1>1
  <2>5. \A i \in DOMAIN r : r[i].t = "replay" /\ r[i].n = a.n => i = j
    BY <1>0, <1>1, <2>1
  <2>6. \A i \in DOMAIN r : i > j => ~IsReturn(r[i])
    BY <1>0, <1>1, <2>1
  <2>. QED  BY <2>1, <2>2, <2>3, <2>4, <2>5, <2>6 DEF Fed
<1>4. ASSUME Mounts(v, d) PROVE Mounts(v, d)'
  <2>1. /\ NoReplays' /\ ~awaiting' /\ Chain(q, 0, Len(screen[v]), d)
        /\ \A i \in DOMAIN q : ~IsReturn(q[i])
    BY <1>4 DEF Mounts, ReplaysKeep
  <2>2. Chain(r, 0, Len(screen[v]), d)
    <3>1. r = Append(q, e) /\ 0 \in 0..Len(q) /\ q \in Seq(Event)
      BY <1>1
    <3>. QED  BY <2>1, <3>1, SilentStep
  <2>3. \A i \in DOMAIN r : ~IsReturn(r[i])
    BY <1>0, <1>1, <2>1
  <2>. QED  BY <2>1, <2>2, <2>3 DEF Mounts
<1>. QED  BY <1>2, <1>3, <1>4 DEF Aim, ReplaysKeep

\* A window that is told something silent.
LEMMA RoleSilent ==
    ASSUME PlaceInv, NEW w \in live, NEW e \in Event, Silent(e), NEW d \in Nat, NEW b \in Nat, Role(w, d, b),
           UNCHANGED <<owner, awaiting, marking, cut, arrivals, lost, place, stamp, adopting, expecting, screen, mounted>>,
           ReplaysKeep, Fence(w)', toWin'[w] = Append(toWin[w], e), \A a \in Records : a.from # w
    PROVE  Role(w, d, b)'
<1>0. /\ w \in Window /\ toWin[w] \in Seq(Event) /\ Len(screen[w]) \in Nat
      /\ Records' = Records /\ arrivals \subseteq Records /\ \A a \in Records : a.n \in Nat
  BY QueuesTyped, ClosedIsIdle DEF PlaceInv, Records
<1>1. Records = {} /\ owner = w => Holder(w, d, b)'
  BY <1>0, HolderSilent DEF Role
<1>2. ASSUME NEW a \in arrivals, a.to = w PROVE Aim(a, d)'
  <2>1. Aim(a, d) /\ a.n \in Nat
    BY <1>0, <1>2 DEF Role
  <2>. QED  BY <1>0, <1>2, <2>1, AimSilent
<1>3. Leaving(place'[w], toWin'[w]) => Head(toWin'[w]).t = "departed"
  <2>. DEFINE q == toWin[w]  r == toWin'[w]
  <2>1. /\ q \in Seq(Event) /\ r = Append(q, e) /\ (Leaving(place[w], q) => Head(q).t = "departed")
        /\ e.t \notin Outcomes /\ place'[w] = place[w]
    BY <1>0 DEF Role, Silent
  <2>. HIDE DEF q, r
  <2>2. Leaving(place[w], r) => Head(r).t = "departed"
    BY <2>1, LeavesOn
  <2>. QED  BY <2>1, <2>2 DEF r
<1>4. w \in mounted' =>
          /\ screen'[w] = Bytes(0, Len(screen'[w]))
          /\ place'[w] # "none" \/ adopting'[w].phase = "planned"
  BY DEF Role
<1>. QED  BY <1>0, <1>1, <1>2, <1>3, <1>4 DEF Role

\* A line that is neither output nor a replay, passed on to v.
LEMMA SilentSeam ==
    ASSUME PlaceInv, PlaceInv', NEW d \in Nat, NEW b \in Nat, SeamAt(d, b),
           stdout # <<>>, stdout' = Tail(stdout), Head(stdout).t \notin {"data", "replay"},
           UNCHANGED <<produced, stdin, hostVars, place, stamp, adopting, expecting, screen, mounted>>,
           NEW e \in Event, Silent(e), NEW v, Emit(v, e), \A a \in Records : v \in live => a.from # v,
           \A w \in live : Fence(w)',
           \A w \in Window \ (live \cup gone) : Unasked(w)'
    PROVE  SeamAt(d, b)'
<1>1. UNCHANGED <<live, gone, owner, awaiting, marking, cut, arrivals, lost>> /\ Records' = Records
  BY DEF hostVars, Records
<1>2. TypeOK /\ stdout \in Seq(Line) /\ produced \in Nat /\ live \subseteq Window
  BY DEF PlaceInv, TypeOK
<1>3. Common /\ Laid(d, b) /\ \A w \in live : Role(w, d, b)
  BY Parts
<1>4. ReplaysKeep
  BY <1>2, LineRead
<1>5. Laid(d, b)'
  <2>1. PICK x \in Nat : LineStep(Head(stdout), d, x, b) /\ Lines(Tail(stdout), x, produced, b)
    BY <1>2, <1>3, LinesLess DEF Laid
  <2>2. x = d
    BY <2>1 DEF LineStep
  <2>. QED  BY <1>1, <1>3, <2>1, <2>2 DEF Laid
<1>6. ASSUME NEW w \in live PROVE Role(w, d, b)'
  <2>1. w \in Window /\ Role(w, d, b) /\ Fence(w)'
    BY <1>2, <1>3
  <2>2. toWin'[w] = toWin[w] \/ (w = v /\ toWin'[w] = Append(toWin[w], e))
    BY <1>2, <2>1, EmitEach
  <2>3. CASE toWin'[w] = toWin[w]
    <3>1. Same(w)
      BY <2>3 DEF Same
    <3>. QED  BY <1>1, <1>4, <2>1, <3>1, RoleStays
  <2>4. CASE w = v /\ toWin'[w] = Append(toWin[w], e)
    BY <1>1, <1>4, <2>1, <2>4, RoleSilent
  <2>. QED  BY <2>2, <2>3, <2>4
<1>7. Common'
  <2>1. adopting' = adopting /\ (NoReplays => NoReplays')
    BY <1>4 DEF ReplaysKeep
  <2>. QED  BY <1>1, <1>3, <2>1, CommonSame
<1>. QED  BY <1>1, <1>5, <1>6, <1>7, Whole

LEMMA DispatchCwdsSeam ==
    ASSUME PlaceInv, PlaceInv', NEW d \in Nat, NEW b \in Nat, SeamAt(d, b), DispatchCwds
    PROVE  SeamAt(d, b)'
<1>. DEFINE q == stdout  h == Head(stdout)  r == Tail(stdout)  e == [t |-> "cwds"]
<1>1. /\ q # <<>> /\ h.t = "cwds" /\ stdout' = r /\ Emit(h.for, e)
      /\ UNCHANGED <<produced, stdin, hostVars, place, stamp, adopting, expecting, screen, mounted>>
  BY DEF DispatchCwds, HasLine, TakeLine
<1>2. TypeOK /\ q \in Seq(Line) /\ live \subseteq Window
  BY DEF PlaceInv, TypeOK
<1>3. h.for \in Window /\ Probe(h, h.for) /\ \A w : w # h.for => ~Probe(h, w)
  BY <1>1, <1>2, LineParts DEF Probe
<1>4. e \in Event /\ Silent(e) /\ e.t = "cwds"
  BY DEF Event, Silent, Outcomes
<1>. HIDE DEF e
<1>5. /\ Len(q) \in Nat /\ Len(q) > 0 /\ DOMAIN q = 1..Len(q) /\ q[1] = h
  BY <1>1, <1>2, Shortened
<1>6. 1 \in DOMAIN q /\ 1 > 0
  BY <1>5
<1>7. Common /\ \A w \in live : Role(w, d, b)
  BY Parts
<1>8. ASSUME NEW w \in Window, Unasked(w) PROVE w # h.for
  BY <1>3, <1>5, <1>6, <1>8 DEF Unasked
<1>9. ASSUME NEW w \in Window, w # h.for
      PROVE  (Unasked(w) => Unasked(w)') /\ (Fence(w) => Fence(w)')
  <2>1. toWin'[w] = toWin[w]
    BY <1>1, <1>2, <1>4, <1>9, EmitEach
  <2>2. ~Probe(Head(stdout), w) /\ stdin' = stdin /\ place'[w] = place[w]
    BY <1>1, <1>3, <1>9
  <2>. QED  BY <1>1, <1>2, <2>1, <2>2, QuestionsRead
<1>10. \A w \in Window \ (live \cup gone) : Unasked(w)'
  BY <1>7, <1>8, <1>9 DEF Common
<1>11. ASSUME h.for \in live PROVE place[h.for] = "probing" /\ Asked(h.for)
  BY <1>3, <1>7, <1>8, <1>11 DEF Role, Fence
<1>12. ASSUME NEW w \in live PROVE Fence(w)'
  <2>1. w \in Window /\ Fence(w)
    BY <1>2, <1>7 DEF Role
  <2>2. CASE w # h.for
    BY <1>9, <2>1, <2>2
  <2>3. CASE w = h.for
    <3>1. place[w] = "probing" /\ Asked(w) /\ place'[w] = "probing"
      BY <1>1, <1>11, <2>3
    <3>2. ~Clear(q, 0)
      BY <1>1, <1>5, <1>6 DEF Clear
    <3>3. /\ stdin = <<>> /\ None(toWin[w], "cwds")
          /\ \E j \in DOMAIN q : Clear(q, j) /\ \A i \in DOMAIN q : Probe(q[i], w) => i = j
      BY <1>3, <1>5, <1>6, <2>3, <3>1, <3>2 DEF Asked
    <3>4. Clear(q, 1)
      BY <1>3, <1>5, <1>6, <2>3, <3>3
    <3>5. Clear(r, 0)
      <4>1. Clear(r, 1 - 1)
        BY <1>1, <1>2, <3>4, ClearLess
      <4>. QED  BY <4>1
    <3>6. toWin'[w] = Append(toWin[w], e) /\ toWin[w] \in Seq(Event)
      BY <1>1, <1>2, <2>1, <2>3, QueuesTyped DEF Emit, TypeOK
    <3>7. \E j \in DOMAIN toWin'[w] : Only(toWin'[w], "cwds", j) /\ Clear(toWin'[w], j)
      <4>. DEFINE u == toWin[w]  s == toWin'[w]
      <4>1. None(u, e.t)
        BY <1>4, <3>3
      <4>2. Only(Append(u, e), e.t, Len(u) + 1)
        BY <1>4, <3>6, <4>1, OnlyComes
      <4>3. /\ DOMAIN s = 1..Len(u) + 1 /\ Len(u) \in Nat
        BY <1>4, <3>6, Appended
      <4>4. Clear(s, Len(u) + 1)
        BY <4>3 DEF Clear
      <4>. QED  BY <1>4, <3>6, <4>2, <4>4 DEF Only
    <3>8. stdin' = <<>> /\ Clear(stdout', 0)
      BY <1>1, <3>3, <3>5
    <3>9. Asked(w)'
      BY <3>7, <3>8 DEF Asked
    <3>. QED  BY <3>1, <3>9 DEF Fence
  <2>. QED  BY <2>2, <2>3
<1>13. ASSUME NEW a \in Records, h.for \in live PROVE a.from # h.for
  <2>1. place[h.for] \in Resting
    BY <1>11, <1>13 DEF Resting
  <2>. QED  BY <1>13, <2>1, RestingHolds
<1>. QED  BY <1>1, <1>4, <1>10, <1>12, <1>13, SilentSeam

LEMMA MarkedParts ==
    ASSUME NEW l \in Line, l.t = "marked"
    PROVE  l \in Event /\ l = [t |-> "marked", mark |-> l.mark] /\ l.mark \in Nat
BY DEF Line, Event

\* The mark of a move passes: from here on its replays start.
LEMMA CutSeam ==
    ASSUME PlaceInv, PlaceInv', NEW d \in Nat, NEW b \in Nat, SeamAt(d, b), DispatchMarked, marking # NoWindow
    PROVE  SeamAt(d, d)'
<1>. DEFINE h == Head(stdout)
<1>1. /\ stdout # <<>> /\ h.t = "marked" /\ stdout' = Tail(stdout) /\ Emit(Showing, h)
      /\ marking' = NoWindow /\ cut' = h.mark /\ awaiting' = TRUE
      /\ UNCHANGED <<produced, stdin, live, gone, owner, arrivals, lost, place, stamp, adopting,
                     expecting, screen, mounted>>
  BY DEF DispatchMarked, HasLine, TakeLine
<1>2. /\ TypeOK /\ stdout \in Seq(Line) /\ produced \in Nat /\ live \subseteq Window
  BY DEF PlaceInv, TypeOK
<1>3. h \in Line /\ h \in Event /\ h = [t |-> "marked", mark |-> h.mark] /\ Silent(h) /\ \A w : ~Probe(h, w)
  BY <1>1, <1>2, MarkedParts DEF Silent, Outcomes, Probe
<1>4. Common /\ Laid(d, b) /\ \A w \in live : Role(w, d, b)
  BY Parts
<1>5. PICK a \in Records : marking = a.from
  BY <1>4 DEF PlaceInv, RecordsStand, Common
<1>6. /\ \A c \in Records : c = a /\ ~c.ready
      /\ NoReplays /\ Showing = a.from /\ a.from \in Window /\ Records' = Records /\ arrivals \subseteq Records
  BY <1>1, <1>4, <1>5, ClosedIsIdle DEF PlaceInv, RecordsStand, Common, Showing, Records
<1>7. h.mark = d /\ Lines(Tail(stdout), d, produced, b)
  <2>1. PICK x \in Nat : LineStep(h, d, x, b) /\ Lines(Tail(stdout), x, produced, b)
    BY <1>1, <1>2, <1>4, LinesLess DEF Laid
  <2>. QED  BY <1>1, <2>1 DEF LineStep
<1>8. ReplaysKeep /\ NoReplays'
  <2>1. ReplaysKeep
    BY <1>1, <1>2, LineRead
  <2>. QED  BY <1>6, <2>1 DEF ReplaysKeep
<1>9. ASSUME NEW w \in Window
      PROVE  (Unasked(w) => Unasked(w)') /\ (Fence(w) => Fence(w)')
  <2>1. toWin'[w] = toWin[w] \/ toWin'[w] = Append(toWin[w], h)
    BY <1>1, <1>2, <1>3, EmitEach
  <2>2. ~Probe(Head(stdout), w) /\ stdin' = stdin /\ place'[w] = place[w] /\ h.t # "cwds" /\ h.t # "data"
    BY <1>1, <1>3
  <2>. QED  BY <1>1, <1>2, <1>3, <2>1, <2>2, QuestionsRead
<1>10. Laid(d, d)'
  <2>1. None(Tail(stdout), "replay") /\ Tail(stdout) \in Seq(Line)
    BY <1>1, <1>2, <1>8 DEF NoReplays
  <2>2. Lines(Tail(stdout), d, produced, d)
    BY <1>7, <2>1, LinesAnew
  <2>3. \A i \in DOMAIN stdin' : stdin'[i].t # "init"
    BY <1>8 DEF NoReplays, None
  <2>. QED  BY <1>1, <1>7, <2>2, <2>3 DEF Laid
<1>11. \A c \in arrivals : Aim(c, d)'
  <2>1. ASSUME NEW c \in arrivals PROVE adopting[c.to].phase = "idle"
    BY <1>6 DEF SeamAt, Taken, Aim
  <2>. QED  BY <1>1, <1>8, <2>1 DEF Aim
<1>. HIDE DEF h
<1>12. ASSUME NEW w \in live, w = a.from PROVE Role(w, d, d)'
  <2>. DEFINE q == toWin[w]  u == toWin'[w]
  <2>1. w \in Window /\ Source(w, d) /\ Fence(w)' /\ Role(w, d, b)
    BY <1>2, <1>4, <1>5, <1>9, <1>12 DEF Role
  <2>2. place[w] = "inflight" /\ Clear(q, 0) /\ Chain(q, 0, Len(screen[w]), d)
    BY <1>5, <1>12, <2>1 DEF Source
  <2>3. u = Append(q, h) /\ q \in Seq(Event) /\ Len(screen[w]) \in Nat
    BY <1>1, <1>2, <1>6, <1>12, <2>1, QueuesTyped DEF Emit, TypeOK, h
  <2>4. /\ Len(q) \in Nat /\ Len(u) \in DOMAIN u /\ u[Len(u)] = h
        /\ \A i \in DOMAIN u : (i \in DOMAIN q /\ u[i] = q[i]) \/ i = Len(u)
    BY <1>3, <2>3, OneMore
  <2>5. Chain(u, 0, Len(screen[w]), d)
    <3>1. 0 \in 0..Len(q)
      BY <2>4
    <3>. QED  BY <1>3, <2>2, <2>3, <3>1, SilentStep
  <2>6. u # <<>> /\ u[Len(u)] = [t |-> "marked", mark |-> cut']
    <3>1. u # <<>>
      BY <2>4
    <3>2. cut' = h.mark
      BY <1>1 DEF h
    <3>. QED  BY <1>3, <2>4, <3>1, <3>2
  <2>7. ASSUME NEW i \in DOMAIN u, i < Len(u) PROVE u[i].t = "data"
    <3>1. \A k \in DOMAIN q : k > 0
      BY <2>3
    <3>2. i # Len(u)
      BY <2>3, <2>7
    <3>. QED  BY <2>2, <2>4, <3>1, <3>2 DEF Clear
  <2>8. cut' = d /\ marking' # w /\ place'[w] = "inflight" /\ screen'[w] = screen[w]
    BY <1>1, <1>7, <2>1, <2>2, WindowsAreDistinct DEF h
  <2>9. Source(w, d)'
    BY <2>5, <2>6, <2>7, <2>8 DEF Source
  <2>10. ~Leaving(place'[w], toWin'[w])
    <3>1. Giving(place'[w], toWin'[w])
      BY <1>1, <1>6, <1>12 DEF PlaceInv, RecordsStand
    <3>. QED  BY <3>1, StandingsDiffer
  <2>11. w \in mounted' => screen'[w] = Bytes(0, Len(screen'[w]))
    BY <1>1, <2>1 DEF Role
  <2>. QED  BY <1>1, <1>6, <1>11, <2>1, <2>8, <2>9, <2>10, <2>11 DEF Role
<1>13. ASSUME NEW w \in live, w # a.from PROVE Role(w, d, d)'
  <2>1. w \in Window /\ Fence(w)' /\ Role(w, d, b)
    BY <1>2, <1>4, <1>9 DEF Role
  <2>2. toWin'[w] = toWin[w]
    BY <1>1, <1>2, <1>3, <1>6, <1>13, <2>1, EmitEach DEF h
  <2>. QED  BY <1>1, <1>5, <1>6, <1>11, <1>13, <2>1, <2>2 DEF Role
<1>14. Common'
  BY <1>1, <1>4, <1>6, <1>8, <1>9 DEF Common
<1>. QED  BY <1>1, <1>10, <1>12, <1>13, <1>14, Whole

LEMMA DispatchMarkedSeam ==
    ASSUME PlaceInv, PlaceInv', NEW d \in Nat, NEW b \in Nat, SeamAt(d, b), DispatchMarked
    PROVE  \E c \in Nat : SeamAt(d, c)'
<1>1. CASE marking # NoWindow
  BY <1>1, CutSeam
<1>2. CASE marking = NoWindow
  <2>. DEFINE h == Head(stdout)
  <2>1. /\ stdout # <<>> /\ h.t = "marked" /\ stdout' = Tail(stdout) /\ Emit(owner, h)
        /\ UNCHANGED <<produced, stdin, hostVars, place, stamp, adopting, expecting, screen, mounted>>
    BY <1>2 DEF DispatchMarked, HasLine, TakeLine, Showing, hostVars
  <2>2. TypeOK /\ stdout \in Seq(Line) /\ live \subseteq Window
    BY DEF PlaceInv, TypeOK
  <2>3. h \in Line /\ h \in Event /\ Silent(h) /\ \A w : ~Probe(h, w)
    BY <2>1, <2>2, MarkedParts DEF Silent, Outcomes, Probe
  <2>4. Common /\ \A w \in live : Role(w, d, b)
    BY Parts
  <2>5. ASSUME NEW w \in Window
        PROVE  (Unasked(w) => Unasked(w)') /\ (Fence(w) => Fence(w)')
    <3>1. toWin'[w] = toWin[w] \/ toWin'[w] = Append(toWin[w], h)
      BY <2>1, <2>2, <2>3, EmitEach
    <3>2. ~Probe(Head(stdout), w) /\ stdin' = stdin /\ place'[w] = place[w] /\ h.t # "cwds" /\ h.t # "data"
      BY <2>1, <2>3
    <3>. QED  BY <2>1, <2>2, <2>3, <3>1, <3>2, QuestionsRead
  <2>6. \A a \in Records : owner \in live => a.from # owner
    <3>1. NoWindow \notin live
      BY <2>2, WindowsAreDistinct
    <3>. QED  BY <3>1 DEF PlaceInv, RecordsStand, Records
  <2>7. /\ \A w \in live : Fence(w)'
        /\ \A w \in Window \ (live \cup gone) : Unasked(w)'
    BY <2>2, <2>4, <2>5 DEF Role, Common
  <2>8. h.t \notin {"data", "replay"}
    BY <2>1
  <2>9. SeamAt(d, b)'
    BY <2>1, <2>3, <2>6, <2>7, <2>8, SilentSeam
  <2>. QED  BY <2>9
<1>. QED  BY <1>1, <1>2

\* The one replay is read.
LEMMA ReplayRead ==
    ASSUME TypeOK, stdout # <<>>, stdout' = Tail(stdout), stdin' = stdin, Head(stdout).t = "replay"
    PROVE  /\ ~NoReplays
           /\ \A w, n : OneReplay(w, n) => Head(stdout).for = w /\ Head(stdout).n = n /\ NoReplays'
<1>. DEFINE q == stdout  r == Tail(stdout)  h == Head(stdout)
<1>0. q \in Seq(Line) /\ q # <<>>
  BY DEF TypeOK
<1>1. /\ Len(q) \in Nat /\ Len(q) > 0 /\ DOMAIN q = 1..Len(q) /\ q[1] = h
  BY <1>0, Shortened
<1>2. 1 \in DOMAIN q
  BY <1>1
<1>3. \A i : Only(q, "replay", i) =>
            /\ Head(q).t = "replay" => i = 1 /\ Head(q) = q[i] /\ None(r, "replay")
            /\ Head(q).t # "replay" => Only(r, "replay", i - 1) /\ r[i - 1] = q[i]
  BY <1>0, OnlyLess
<1>4. ~None(q, "replay")
  BY <1>1, <1>2 DEF None
<1>5. ASSUME NEW w, NEW n, OneReplay(w, n) PROVE h.for = w /\ h.n = n /\ NoReplays'
  <2>1. PICK i \in DOMAIN q : Only(q, "replay", i) /\ q[i].for = w /\ q[i].n = n /\ None(stdin, "init")
    BY <1>4, <1>5 DEF OneReplay
  <2>2. h = q[i] /\ None(r, "replay")
    BY <1>3, <2>1
  <2>. QED  BY <2>1, <2>2 DEF NoReplays
<1>. QED  BY <1>4, <1>5 DEF NoReplays

\* What hears of the replay: the window the Workspace went back to, its target, or nobody.
LEMMA ReplayFor ==
    ASSUME PlaceInv, NEW d \in Nat, NEW b \in Nat, SeamAt(d, b), ~NoReplays
    PROVE  /\ Records = {} /\ owner # NoWindow => awaiting /\ OneReplay(owner, HandBackId) /\ owner \in live
           /\ lost = {}
           /\ \A a \in Records :
                 /\ a \in arrivals /\ marking = NoWindow /\ a.to \in live
                 /\ adopting[a.to].phase = "collecting" /\ Waits(a.to, a.n)
<1>1. Common
  BY Parts
<1>2. ASSUME Records = {}, owner # NoWindow PROVE awaiting /\ OneReplay(owner, HandBackId) /\ owner \in live
  <2>1. Holder(owner, d, b)
    BY <1>2 DEF SeamAt, Held
  <2>2. owner \in live
    BY <1>2 DEF PlaceInv, OwnerHolds, Records
  <2>. QED  BY <2>1, <2>2 DEF Holder
<1>3. lost = {}
  BY <1>1 DEF Common
<1>4. ASSUME NEW a \in Records
      PROVE  /\ a \in arrivals /\ marking = NoWindow /\ a.to \in live
             /\ adopting[a.to].phase = "collecting" /\ Waits(a.to, a.n)
  <2>1. a \in arrivals /\ marking = NoWindow /\ a.to \in live
    BY <1>1, <1>3 DEF Common, Records
  <2>2. Aim(a, d)
    BY <2>1 DEF SeamAt, Taken
  <2>3. adopting[a.to].phase \in {"idle", "collecting", "planned"}
    <3>1. a.to \in Window
      BY ClosedIsIdle
    <3>. QED  BY <3>1 DEF PlaceInv, TypeOK, Adopting
  <2>. QED  BY <2>1, <2>2, <2>3 DEF Aim, Fed, Mounts
<1>. QED  BY <1>2, <1>3, <1>4

LEMMA DispatchReplaySeam ==
    ASSUME PlaceInv, PlaceInv', NEW d \in Nat, NEW b \in Nat, SeamAt(d, b), DispatchReplay
    PROVE  SeamAt(d, b)'
<1>. DEFINE h == Head(stdout)  e == [t |-> "replay", n |-> h.n, bytes |-> h.bytes]
<1>1. /\ stdout # <<>> /\ h.t = "replay" /\ stdout' = Tail(stdout) /\ Emit(h.for, e) /\ awaiting' = FALSE
      /\ UNCHANGED <<produced, stdin, live, gone, owner, marking, cut, arrivals, lost, place, stamp, adopting,
                     expecting, screen, mounted>>
  BY DEF DispatchReplay, HasLine, TakeLine
<1>2. TypeOK /\ stdout \in Seq(Line) /\ produced \in Nat /\ live \subseteq Window
  BY DEF PlaceInv, TypeOK
<1>3. h \in Line /\ h.for \in Window /\ h.n \in Nat /\ h.bytes \in Seq(Nat)
  BY <1>1, <1>2, LineParts
<1>4. e \in Event /\ e.t = "replay" /\ e.n = h.n /\ e.bytes = h.bytes
  BY <1>3 DEF Event
<1>. HIDE DEF e
<1>5. e.t \notin Outcomes /\ \A w : ~Probe(h, w)
  BY <1>1, <1>4 DEF Outcomes, Probe
<1>6. Common /\ Laid(d, b) /\ \A w \in live : Role(w, d, b)
  BY Parts
<1>7. h.bytes = Bytes(b, d) /\ Lines(Tail(stdout), d, produced, b) /\ b <= d
  <2>1. PICK x \in Nat : LineStep(h, d, x, b) /\ Lines(Tail(stdout), x, produced, b)
    BY <1>1, <1>2, <1>6, LinesLess DEF Laid
  <2>. QED  BY <1>1, <1>6, <2>1 DEF LineStep, Laid
<1>8. /\ ~NoReplays
      /\ \A w, n : OneReplay(w, n) => h.for = w /\ h.n = n /\ NoReplays'
  BY <1>1, <1>2, ReplayRead
<1>9. /\ Records = {} /\ owner # NoWindow => awaiting /\ OneReplay(owner, HandBackId) /\ owner \in live
      /\ lost = {}
      /\ \A a \in Records :
            /\ a \in arrivals /\ marking = NoWindow /\ a.to \in live
            /\ adopting[a.to].phase = "collecting" /\ Waits(a.to, a.n)
  BY <1>8, ReplayFor
<1>10. Records' = Records /\ arrivals \subseteq Records /\ \A a, c \in Records : a = c
  BY <1>1 DEF Records, PlaceInv, RecordsStand
<1>11. ASSUME NEW w \in Window
       PROVE  (Unasked(w) => Unasked(w)') /\ (Fence(w) => Fence(w)')
  <2>1. toWin'[w] = toWin[w] \/ toWin'[w] = Append(toWin[w], e)
    BY <1>1, <1>2, <1>4, EmitEach
  <2>2. ~Probe(Head(stdout), w) /\ stdin' = stdin /\ place'[w] = place[w] /\ e.t # "cwds" /\ h.t # "data"
    BY <1>1, <1>4, <1>5
  <2>. QED  BY <1>1, <1>2, <1>4, <2>1, <2>2, QuestionsRead
<1>. HIDE DEF h
<1>12. Laid(d, b)'
  BY <1>1, <1>6, <1>7 DEF Laid
<1>13. \A w \in live : IF w = h.for THEN toWin'[w] = Append(toWin[w], e) ELSE toWin'[w] = toWin[w]
  BY <1>1, <1>2 DEF Emit, TypeOK, h
<1>14. ASSUME NEW w \in live PROVE Role(w, d, b)'
  <2>. DEFINE q == toWin[w]  u == toWin'[w]
  <2>1. w \in Window /\ Role(w, d, b) /\ Fence(w)' /\ q \in Seq(Event) /\ Len(screen[w]) \in Nat
    BY <1>2, <1>6, <1>11, QueuesTyped DEF Role
  <2>2. /\ w \in mounted' =>
             /\ screen'[w] = Bytes(0, Len(screen'[w]))
             /\ place'[w] # "none" \/ adopting'[w].phase = "planned"
    BY <1>1, <2>1 DEF Role
  <2>3. Leaving(place'[w], u) => Head(u).t = "departed"
    <3>1. place'[w] = place[w] /\ (Leaving(place[w], q) => Head(q).t = "departed")
      BY <1>1, <2>1 DEF Role
    <3>2. CASE u = q
      BY <3>1, <3>2
    <3>3. CASE u = Append(q, e)
      <4>. HIDE DEF q, u
      <4>1. Leaving(place[w], u) => Head(u).t = "departed"
        BY <1>4, <1>5, <2>1, <3>1, <3>3, LeavesOn
      <4>. QED  BY <3>1, <4>1 DEF u
    <3>. QED  BY <1>13, <3>2, <3>3
  <2>4. ASSUME u = Append(q, e)
        PROVE  /\ Len(q) \in Nat /\ Len(u) = Len(q) + 1 /\ Len(u) \in DOMAIN u /\ u[Len(u)] = e
               /\ \A i \in DOMAIN q : i \in DOMAIN u /\ u[i] = q[i] /\ i \in 0..Len(q) /\ i < Len(u)
               /\ \A i \in DOMAIN u : (i \in DOMAIN q /\ u[i] = q[i]) \/ (i = Len(u) /\ u[i] = e)
    BY <1>4, <2>1, <2>4, OneMore
  <2>5. ASSUME Records = {}, owner = w PROVE Holder(w, d, b)'
    <3>1. w # NoWindow
      BY <2>1, WindowsAreDistinct
    <3>2. h.for = w /\ h.n = HandBackId /\ NoReplays' /\ awaiting
      BY <1>8, <1>9, <2>5, <3>1
    <3>3. /\ Chain(q, 0, Len(screen[w]), b) /\ \A i \in DOMAIN q : ~IsReturn(q[i])
          /\ expecting[w] \/ \E k \in DOMAIN q : q[k].t = "failed" /\ q[k].replay
      BY <2>1, <2>5, <3>2 DEF Role, Holder, Expects
    <3>4. u = Append(q, e)
      BY <1>13, <3>2
    <3>5. IsReturn(e) /\ e.bytes = Bytes(b, d)
      BY <1>4, <1>7, <3>2 DEF IsReturn
    <3>6. Chain(u, 0, Len(screen[w]), d)
      <4>1. EventStep(e, b, d) /\ 0 \in 0..Len(q)
        BY <1>4, <1>7, <2>4, <3>4, <3>5 DEF EventStep
      <4>. QED  BY <1>4, <2>1, <3>3, <3>4, <4>1, ChainMore
    <3>7. ASSUME NEW i \in DOMAIN u, IsReturn(u[i]) PROVE Expects(w, i)' /\ \A j \in DOMAIN u : IsReturn(u[j]) => j = i
      <4>1. i = Len(u) /\ \A j \in DOMAIN u : IsReturn(u[j]) => j = Len(u)
        BY <2>4, <3>3, <3>4, <3>7
      <4>2. expecting'[w] \/ \E k \in DOMAIN u : k < i /\ u[k].t = "failed" /\ u[k].replay
        BY <1>1, <2>4, <3>3, <3>4, <4>1
      <4>. QED  BY <4>1, <4>2 DEF Expects
    <3>8. screen'[w] = screen[w]
      BY <1>1
    <3>. QED  BY <1>1, <3>2, <3>6, <3>7, <3>8 DEF Holder
  <2>6. ASSUME NEW a \in Records, a.from = w PROVE Source(w, d)' /\ (a.ready => place'[w] = "sent")
    <3>1. Source(w, d) /\ (a.ready => place[w] = "sent")
      BY <2>1, <2>6 DEF Role
    <3>2. h.for # w
      <4>1. h.for = a.to
        BY <1>8, <1>9, <2>6 DEF Waits
      <4>. QED  BY <2>6, <4>1 DEF PlaceInv, RecordsStand
    <3>3. toWin'[w] = toWin[w]
      BY <1>13, <3>2
    <3>. QED  BY <1>1, <3>1, <3>3 DEF Source
  <2>7. ASSUME NEW a \in arrivals, a.to = w PROVE Aim(a, d)'
    <3>1. /\ a \in Records /\ marking = NoWindow /\ adopting[w].phase = "collecting" /\ Waits(w, a.n) /\ Aim(a, d)
          /\ a.from \in Window
      BY <1>9, <1>10, <2>1, <2>7, ClosedIsIdle DEF Role
    <3>2. h.for = w /\ h.n = a.n /\ NoReplays'
      BY <1>8, <3>1 DEF Waits
    <3>3. u = Append(q, e)
      BY <1>13, <3>2
    <3>4. cut = b
      <4>1. cut # NoMark
        BY <3>1, WindowsAreDistinct DEF PlaceInv, RecordsStand
      <4>. QED  BY <1>6, <4>1 DEF Laid
    <3>5. Chain(u, Len(u), d, d)
      <4>1. u \in Seq(Event)
        BY <1>4, <2>1, <3>3
      <4>. QED  BY <4>1, ChainEmpty
    <3>6. \A i \in DOMAIN u : u[i].t = "replay" /\ u[i].n = a.n => i = Len(u)
      BY <2>4, <3>1, <3>3 DEF Waits
    <3>7. \A i \in DOMAIN u : ~(i > Len(u))
      <4>1. \A i \in DOMAIN q : ~(i > Len(u))
        BY <2>4, <3>3
      <4>. QED  BY <2>4, <3>3, <4>1
    <3>8. Fed(w, a.n, d)'
      BY <1>1, <1>4, <1>7, <2>4, <3>2, <3>3, <3>4, <3>5, <3>6, <3>7 DEF Fed
    <3>. QED  BY <1>1, <2>7, <3>1, <3>8 DEF Aim
  <2>. QED  BY <1>1, <1>10, <2>1, <2>2, <2>3, <2>5, <2>6, <2>7 DEF Role
<1>15. Common'
  BY <1>1, <1>6, <1>9, <1>10, <1>11 DEF Common
<1>. QED  BY <1>1, <1>12, <1>14, <1>15, Whole

-----------------------------------------------------------------------------
(* Handing back *)

\* What the source of a record has: everything up to its mark, or everything so far.
LEMMA SourceHas ==
    ASSUME PlaceInv, NEW a \in Records, a.from \in live, NEW d \in Nat, NEW b \in Nat, SeamAt(d, b), NEW s, s = a.from
    PROVE  /\ s \in Window /\ s \in mounted /\ adopting[s].phase = "idle" /\ place[s] \in Moving
           /\ cut # NoMark => cut = b /\ Chain(toWin[s], 0, Len(screen[s]), b)
           /\ cut = NoMark => marking = s /\ Chain(toWin[s], 0, Len(screen[s]), d)
           /\ \A i \in DOMAIN toWin[s] : ~IsReturn(toWin[s][i])
<1>1. /\ s \in Window /\ s \in mounted /\ Giving(place[s], toWin[s]) /\ adopting[s].phase = "idle"
      /\ toWin[s] \in Seq(Event) /\ Len(screen[s]) \in Nat
  BY HasTerminal, QueuesTyped DEF PlaceInv, TypeOK
<1>2. Source(s, d) /\ Laid(d, b)
  BY DEF SeamAt, Given
<1>3. marking # NoWindow => cut = NoMark
  BY DEF PlaceInv, TypeOK
<1>4. s # NoWindow /\ (cut = NoMark => marking = s)
  BY <1>1, WindowsAreDistinct DEF PlaceInv, RecordsStand
<1>5. ASSUME cut # NoMark PROVE cut = b /\ Chain(toWin[s], 0, Len(screen[s]), b)
  <2>1. cut = b /\ marking # s
    BY <1>2, <1>3, <1>4, <1>5 DEF Laid
  <2>2. CASE place[s] = "inflight"
    BY <1>2, <2>1, <2>2 DEF Source
  <2>3. CASE place[s] # "inflight"
    <3>1. toWin[s] = <<>> /\ Len(screen[s]) = b
      BY <1>2, <2>1, <2>3 DEF Source
    <3>2. Chain(toWin[s], Len(toWin[s]), b, b)
      BY <1>1, ChainEmpty
    <3>3. Len(toWin[s]) = 0
      BY <3>1
    <3>. QED  BY <2>1, <3>1, <3>2, <3>3
  <2>. QED  BY <2>2, <2>3
<1>6. ASSUME cut = NoMark PROVE marking = s /\ Chain(toWin[s], 0, Len(screen[s]), d)
  BY <1>2, <1>4, <1>6 DEF Source
<1>7. ASSUME NEW i \in DOMAIN toWin[s] PROVE ~IsReturn(toWin[s][i])
  <2>1. toWin[s][i].t \in {"data", "marked"}
    <3>0. i > 0 /\ (i < Len(toWin[s]) \/ i = Len(toWin[s]))
      BY <1>1
    <3>1. CASE marking = s
      BY <1>2, <3>0, <3>1 DEF Source, Clear
    <3>2. CASE marking # s /\ place[s] = "inflight"
      BY <1>2, <3>0, <3>2 DEF Source
    <3>3. CASE place[s] # "inflight"
      BY <1>2, <3>3 DEF Source
    <3>. QED  BY <3>1, <3>2, <3>3
  <2>. QED  BY <2>1 DEF IsReturn
<1>. QED  BY <1>1, <1>5, <1>6, <1>7 DEF Giving

\* The window that has it back: it has everything, or is promised the rest.
LEMMA HolderBack ==
    ASSUME NEW s \in Window, toWin[s] \in Seq(Event), screen[s] \in Seq(Nat), NEW d \in Nat, NEW b \in Nat,
           NEW m \in BOOLEAN, NEW e, e = [t |-> "failed", replay |-> m],
           toWin'[s] = Append(toWin[s], e), screen'[s] = screen[s], awaiting' = m,
           \A i \in DOMAIN toWin[s] : ~IsReturn(toWin[s][i]),
           IF m THEN Chain(toWin[s], 0, Len(screen[s]), b) /\ OneReplay(s, HandBackId)'
                ELSE Chain(toWin[s], 0, Len(screen[s]), d) /\ NoReplays'
    PROVE  Holder(s, d, b)'
<1>. DEFINE q == toWin[s]  u == toWin'[s]
<1>0. e \in Event /\ e.t = "failed" /\ e.replay = m /\ Len(screen[s]) \in Nat
  BY DEF Event
<1>1. ~IsReturn(e) /\ \A y : EventStep(e, y, y)
  BY <1>0 DEF IsReturn, EventStep
<1>2. /\ Len(q) \in Nat /\ Len(u) = Len(q) + 1 /\ Len(u) \in DOMAIN u /\ u[Len(u)] = e
      /\ \A i \in DOMAIN u : (i \in DOMAIN q /\ u[i] = q[i]) \/ u[i] = e
  BY <1>0, OneMore
<1>3. 0 \in 0..Len(q)
  BY <1>2
<1>4. \A y \in Nat : Chain(q, 0, Len(screen[s]), y) => Chain(u, 0, Len(screen'[s]), y)
  BY <1>0, <1>1, <1>3, ChainMore
<1>5. \A i \in DOMAIN u : ~IsReturn(u[i])
  BY <1>1, <1>2
<1>6. CASE m
  <2>1. Len(u) < Len(u) + 1
    BY <1>2
  <2>2. Expects(s, Len(toWin[s]) + 1)'
    BY <1>0, <1>2, <1>6, <2>1 DEF Expects
  <2>. QED  BY <1>4, <1>5, <1>6, <2>2 DEF Holder
<1>7. CASE ~m
  BY <1>4, <1>5, <1>7 DEF Holder
<1>. QED  BY <1>6, <1>7

\* A replay is asked for where none is on its way.
LEMMA ReplayAsked ==
    ASSUME TypeOK, NEW r \in Request, r.t = "init", NoReplays, stdin' = Append(stdin, r), stdout' = stdout
    PROVE  /\ OneReplay(r.for, r.n)'
           /\ \A i \in DOMAIN stdin' : stdin'[i].t = "init" => stdin'[i] = r
           /\ \A w : \A i \in DOMAIN stdin' : Probe(stdin'[i], w) => \E j \in DOMAIN stdin : Probe(stdin[j], w)
<1>. DEFINE q == stdin  u == Append(stdin, r)
<1>0. q \in Seq(Request) /\ stdin' = u
  BY DEF TypeOK
<1>1. /\ DOMAIN q = 1..Len(q) /\ DOMAIN u = 1..Len(q) + 1 /\ Len(q) \in Nat
      /\ \A i \in 1..Len(q) : u[i] = q[i]
      /\ u[Len(q) + 1] = r
  BY <1>0, Appended
<1>2. None(q, r.t) /\ None(stdout, "replay")
  BY DEF NoReplays
<1>3. Only(u, r.t, Len(q) + 1) /\ u[Len(q) + 1] = r
  BY <1>0, <1>2, OnlyComes
<1>. HIDE DEF u
<1>4. \A i \in DOMAIN u : (i \in DOMAIN q /\ u[i] = q[i]) \/ u[i] = r
  BY <1>1
<1>5. ~ \E w : Probe(r, w)
  BY DEF Probe
<1>6. OneReplay(r.for, r.n)'
  BY <1>0, <1>2, <1>3 DEF OneReplay, Only
<1>7. \A i \in DOMAIN u : u[i].t = "init" => u[i] = r
  BY <1>2, <1>4 DEF None
<1>8. \A w : \A i \in DOMAIN u : Probe(u[i], w) => \E j \in DOMAIN q : Probe(q[j], w)
  BY <1>4, <1>5
<1>. QED  BY <1>0, <1>6, <1>7, <1>8

LEMMA HandBackSeam ==
    ASSUME PlaceInv, PlaceInv', NEW d \in Nat, NEW b \in Nat, SeamAt(d, b), NEW a \in Records, NoReplays,
           HandBack(a), arrivals' = {}, lost' = {},
           UNCHANGED <<produced, stdout, live, gone, expecting>>,
           \A w \in Window : adopting'[w].phase = "idle",
           \A w \in Window : adopting[w].phase = "idle" => screen'[w] = screen[w],
           \A w \in mounted' : w \in mounted /\ adopting[w].phase = "idle",
           \A w \in Window : place'[w] = place[w] \/ (w = a.from /\ place[w] \in Moving /\ place'[w] \in Moving)
    PROVE  SeamAt(d, b)'
<1>. DEFINE s == a.from  m == cut # NoMark
            r == [t |-> "init", for |-> s, n |-> HandBackId, since |-> cut]
            e == [t |-> "failed", replay |-> m]
<1>1. /\ TypeOK /\ live \subseteq Window /\ s \in Window /\ s # NoWindow /\ Records' = {}
      /\ marking = s \/ m
  <2>1. TypeOK /\ live \subseteq Window /\ s \in Window /\ s # NoWindow
    BY ClosedIsIdle, WindowsAreDistinct DEF PlaceInv
  <2>2. Records' = {}
    BY DEF Records
  <2>3. marking = s \/ m
    BY DEF PlaceInv, RecordsStand
  <2>. QED  BY <2>1, <2>2, <2>3
<1>2. Common /\ Laid(d, b) /\ \A w \in live : Role(w, d, b)
  BY Parts
<1>3. cut' = NoMark /\ marking' = NoWindow
  BY DEF HandBack
<1>4. ASSUME s \in live
      PROVE  /\ owner' = s /\ awaiting' = m /\ toWin' = [toWin EXCEPT ![s] = Append(@, e)]
             /\ stdin' = IF m THEN Append(stdin, r) ELSE stdin
  BY <1>1, <1>4 DEF HandBack
<1>5. ASSUME s \notin live PROVE owner' = NoWindow /\ awaiting' = FALSE /\ UNCHANGED <<stdin, toWin>>
  BY <1>5 DEF HandBack
<1>6. \A w \in Window : (w = s /\ s \in live) \/ toWin'[w] = toWin[w]
  BY <1>1, <1>4, <1>5 DEF TypeOK
<1>7. ASSUME s \in live, m
      PROVE  /\ OneReplay(s, HandBackId)'
             /\ \A i \in DOMAIN stdin' : stdin'[i].t = "init" => stdin'[i].since = b
             /\ \A w : \A i \in DOMAIN stdin' : Probe(stdin'[i], w) => \E j \in DOMAIN stdin : Probe(stdin[j], w)
  <2>1. r \in Request
    BY <1>1 DEF Request, HandBackId, TypeOK
  <2>0. r.t = "init" /\ r.for = s /\ r.n = HandBackId /\ r.since = cut
    OBVIOUS
  <2>3. stdin' = Append(stdin, r) /\ cut = b
    BY <1>2, <1>4, <1>7 DEF Laid
  <2>. HIDE DEF r
  <2>2. PICK c : /\ c \in Request /\ c.t = "init" /\ c.for = s /\ c.n = HandBackId /\ c.since = b
                 /\ stdin' = Append(stdin, c)
    BY <2>0, <2>1, <2>3
  <2>4. /\ OneReplay(c.for, c.n)'
        /\ \A i \in DOMAIN stdin' : stdin'[i].t = "init" => stdin'[i] = c
        /\ \A w : \A i \in DOMAIN stdin' : Probe(stdin'[i], w) => \E j \in DOMAIN stdin : Probe(stdin[j], w)
    BY <1>1, <2>2, ReplayAsked
  <2>. QED  BY <2>2, <2>4
<1>8. ~(s \in live /\ m) => stdin' = stdin
  BY <1>4, <1>5
<1>. HIDE DEF r, m
<1>9. Laid(d, b)'
  <2>1. \A i \in DOMAIN stdin' : stdin'[i].t = "init" => stdin'[i].since = b
    BY <1>2, <1>7, <1>8 DEF Laid
  <2>. QED  BY <1>2, <1>3, <2>1 DEF Laid
<1>10. \A w : \A i \in DOMAIN stdin' : Probe(stdin'[i], w) => \E j \in DOMAIN stdin : Probe(stdin[j], w)
  BY <1>7, <1>8
<1>11. \A w : Unasked(w) /\ (None(toWin[w], "cwds") => None(toWin'[w], "cwds")) => Unasked(w)'
  BY <1>10 DEF Unasked
<1>12. \A w \in live : place[w] \notin Resting /\ place'[w] \notin Resting
  <2>1. \A w \in live : place[w] \notin Resting
    BY RestingHolds
  <2>2. \A p \in Moving : p \notin Resting
    BY DEF Moving, Resting
  <2>. QED  BY <1>1, <2>1, <2>2
<1>13. ASSUME NEW w \in live, w = s PROVE Role(w, d, b)'
  <2>1. w \in Window /\ s \in live /\ Role(w, d, b) /\ toWin[w] \in Seq(Event) /\ screen[w] \in Seq(Nat)
    BY <1>1, <1>2, <1>13, QueuesTyped
  <2>2. /\ w \in mounted /\ adopting[w].phase = "idle" /\ place[w] \in Moving
        /\ m => cut = b /\ Chain(toWin[w], 0, Len(screen[w]), b)
        /\ ~m => Chain(toWin[w], 0, Len(screen[w]), d)
        /\ \A i \in DOMAIN toWin[w] : ~IsReturn(toWin[w][i])
    BY <1>13, <2>1, SourceHas DEF m
  <2>3. toWin'[w] = Append(toWin[w], e) /\ screen'[w] = screen[w] /\ awaiting' = m /\ owner' = w
    BY <1>1, <1>4, <1>13, <2>1, <2>2 DEF TypeOK
  <2>4. m \in BOOLEAN
    BY DEF m
  <2>5. IF m THEN OneReplay(w, HandBackId)' ELSE NoReplays'
    BY <1>7, <1>8, <1>13, <2>1 DEF NoReplays
  <2>6. Holder(w, d, b)'
    BY <2>1, <2>2, <2>3, <2>4, <2>5, HolderBack
  <2>7. Fence(w)'
    <3>1. e \in Event /\ e.t # "cwds"
      BY <2>4 DEF Event
    <3>2. None(toWin[w], "cwds") => None(toWin'[w], "cwds")
      BY <2>1, <2>3, <3>1, NoneMore
    <3>. QED  BY <1>11, <1>12, <2>1, <3>2, FenceIdle DEF Role
  <2>8. ~Leaving(place'[w], toWin'[w])
    <3>1. Holding(place'[w], toWin'[w])
      BY <1>1, <1>13, <2>1, <2>3 DEF PlaceInv, OwnerHolds
    <3>. QED  BY <3>1, StandingsDiffer
  <2>9. place'[w] # "none"
    BY <2>1, <2>2 DEF Moving
  <2>10. screen'[w] = Bytes(0, Len(screen'[w]))
    BY <2>1, <2>2, <2>3 DEF Role
  <2>. QED  BY <1>1, <2>6, <2>7, <2>8, <2>9, <2>10 DEF Role
<1>14. ASSUME NEW w \in live, w # s PROVE Role(w, d, b)'
  <2>1. w \in Window /\ Role(w, d, b) /\ toWin'[w] = toWin[w] /\ place'[w] = place[w] /\ w # NoWindow
    BY <1>1, <1>2, <1>6, <1>14, WindowsAreDistinct
  <2>2. owner' # w
    BY <1>4, <1>5, <1>14, <2>1
  <2>3. Fence(w)'
    BY <1>11, <1>12, <2>1, FenceIdle DEF Role
  <2>4. w \in mounted' => screen'[w] = Bytes(0, Len(screen'[w])) /\ place'[w] # "none"
    BY <2>1 DEF Role
  <2>5. Leaving(place'[w], toWin'[w]) => Head(toWin'[w]).t = "departed"
    BY <2>1 DEF Role
  <2>. QED  BY <1>1, <2>2, <2>3, <2>4, <2>5 DEF Role
<1>15. Common'
  <2>1. \A w \in Window \ (live' \cup gone') : Unasked(w)'
    <3>1. ASSUME NEW w \in Window \ (live \cup gone) PROVE Unasked(w)'
      BY <1>2, <1>6, <1>11 DEF Common
    <3>. QED  BY <3>1
  <2>. QED  BY <1>1, <2>1 DEF Common
<1>. QED  BY <1>9, <1>13, <1>14, <1>15, Whole

LEMMA HandBackLostSeam ==
    ASSUME PlaceInv, PlaceInv', NEW d \in Nat, NEW b \in Nat, SeamAt(d, b), NEW a \in lost, HandBackLost(a)
    PROVE  SeamAt(d, b)'
<1>1. /\ HandBack(a) /\ lost' = lost \ {a}
      /\ UNCHANGED <<produced, stdout, live, gone, arrivals, place, stamp, adopting, expecting, screen, mounted, moves>>
  BY DEF HandBackLost
<1>2. Common
  BY Parts
<1>3. a \in Records /\ arrivals' = {} /\ lost' = {} /\ NoReplays /\ arrivals = {}
  BY <1>1, <1>2 DEF Records, PlaceInv, RecordsStand, Common
<1>4. \A w \in Window : adopting[w].phase = "idle"
  BY <1>2, <1>3 DEF Common
<1>5. mounted \subseteq Window
  BY DEF PlaceInv, TypeOK
<1>6. /\ \A w \in Window : adopting'[w].phase = "idle"
      /\ \A w \in Window : adopting[w].phase = "idle" => screen'[w] = screen[w]
      /\ \A w \in mounted' : w \in mounted /\ adopting[w].phase = "idle"
      /\ \A w \in Window : place'[w] = place[w]
  BY <1>1, <1>4, <1>5
<1>. QED  BY <1>1, <1>3, <1>6, HandBackSeam

LEMMA BuildFailsSeam ==
    ASSUME PlaceInv, PlaceInv', NEW d \in Nat, NEW b \in Nat, SeamAt(d, b), NEW v \in Window, BuildFails(v)
    PROVE  SeamAt(d, b)'
<1>1. PICK a \in arrivals :
        /\ v \in live /\ a.from = v /\ a.pending /\ place[v] = "captured"
        /\ place' = [place EXCEPT ![v] = "sent"] /\ arrivals' = arrivals \ {a} /\ HandBack(a)
        /\ UNCHANGED <<produced, stdout, live, gone, lost, stamp, adopting, expecting, screen, mounted, moves>>
  BY DEF BuildFails
<1>2. Common
  BY Parts
<1>3. /\ a \in Records /\ (\A c \in arrivals : c = a) /\ arrivals' = {} /\ lost' = {}
      /\ a.to \notin live
  BY <1>1 DEF Records, PlaceInv, RecordsStand
<1>4. NoReplays
  BY <1>2, <1>3 DEF Common
<1>5. \A w \in Window : adopting[w].phase = "idle"
  BY <1>2, <1>3, ClosedIsIdle DEF Common
<1>6. mounted \subseteq Window /\ place \in [Window -> Place]
  BY DEF PlaceInv, TypeOK
<1>7. /\ \A w \in Window : adopting'[w].phase = "idle"
      /\ \A w \in Window : adopting[w].phase = "idle" => screen'[w] = screen[w]
      /\ \A w \in mounted' : w \in mounted /\ adopting[w].phase = "idle"
      /\ \A w \in Window : place'[w] = place[w] \/ (w = a.from /\ place[w] \in Moving /\ place'[w] \in Moving)
  BY <1>1, <1>5, <1>6 DEF Moving
<1>. QED  BY <1>1, <1>3, <1>4, <1>7, HandBackSeam

\* The watchdog, with a target that never began.
LEMMA ExpireSeam ==
    ASSUME PlaceInv, PlaceInv', NEW d \in Nat, NEW b \in Nat, SeamAt(d, b), NEW a \in arrivals, Expire(a), ~overtaken'
    PROVE  SeamAt(d, b)'
<1>1. /\ HandBack(a) /\ arrivals' = arrivals \ {a} /\ adopting[a.to].phase = "idle"
      /\ UNCHANGED <<produced, stdout, live, gone, lost, place, stamp, adopting, expecting, screen, mounted, moves>>
  BY DEF Expire
<1>2. Common /\ Aim(a, d)
  BY Parts DEF SeamAt, Taken
<1>3. a \in Records /\ (\A c \in arrivals : c = a) /\ arrivals' = {} /\ lost' = {}
  BY <1>1 DEF Records, PlaceInv, RecordsStand
<1>4. NoReplays
  BY <1>1, <1>2 DEF Aim
<1>5. \A w \in Window : adopting[w].phase = "idle"
  BY <1>1, <1>2, <1>3 DEF Common
<1>6. mounted \subseteq Window
  BY DEF PlaceInv, TypeOK
<1>7. /\ \A w \in Window : adopting'[w].phase = "idle"
      /\ \A w \in Window : adopting[w].phase = "idle" => screen'[w] = screen[w]
      /\ \A w \in mounted' : w \in mounted /\ adopting[w].phase = "idle"
      /\ \A w \in Window : place'[w] = place[w]
  BY <1>1, <1>5, <1>6
<1>. QED  BY <1>1, <1>3, <1>4, <1>7, HandBackSeam

\* A target that has no replay coming is not waiting for one.
LEMMA NoneComing ==
    ASSUME PlaceInv, NEW d \in Nat, NEW b \in Nat, SeamAt(d, b), NEW a \in arrivals, ~Outstanding(a.to)
    PROVE  NoReplays
<1>1. /\ Aim(a, d) /\ a.n # HandBackId /\ a.to \in Window
      /\ DOMAIN stdin = 1..Len(stdin) /\ DOMAIN stdout = 1..Len(stdout)
  <2>1. Aim(a, d)
    BY DEF SeamAt, Taken
  <2>2. a.n # HandBackId
    BY DEF PlaceInv, RecordsStand, Records, HandBackId
  <2>3. stdin \in Seq(Request) /\ stdout \in Seq(Line) /\ a.to \in Window
    BY ClosedIsIdle DEF PlaceInv, TypeOK
  <2>. QED  BY <2>1, <2>2, <2>3
<1>2. ~Waits(a.to, a.n)
  <2>1. OneReplay(a.to, a.n) => Outstanding(a.to)
    BY <1>1 DEF OneReplay, Only, Outstanding
  <2>. QED  BY <2>1 DEF Waits
<1>3. adopting[a.to].phase \in {"idle", "collecting", "planned"}
  BY <1>1 DEF PlaceInv, TypeOK, Adopting
<1>. QED  BY <1>1, <1>2, <1>3 DEF Aim, Fed, Mounts

LEMMA AdoptFailedSeam ==
    ASSUME PlaceInv, PlaceInv', NEW d \in Nat, NEW b \in Nat, SeamAt(d, b), NEW v \in Window, AdoptFailed(v), ~overtaken'
    PROVE  SeamAt(d, b)'
<1>1. /\ v \in live /\ adopting[v].phase # "idle" /\ ~Outstanding(v) /\ Discard(v)
      /\ arrivals' = arrivals \ QueuedFor(v)
      /\ UNCHANGED <<produced, stdout, live, gone, lost, place, stamp, expecting, moves>>
  BY DEF AdoptFailed
<1>2. Common
  BY Parts
<1>3. QueuedFor(v) # {}
  BY <1>1, <1>2 DEF Common, QueuedFor
<1>4. PICK a \in QueuedFor(v) : HandBack(a)
  BY <1>3 DEF AdoptFailed
<1>5. /\ a \in arrivals /\ a.to = v /\ a \in Records /\ (\A c \in arrivals : c = a) /\ arrivals' = {} /\ lost' = {}
  BY <1>1, <1>4 DEF QueuedFor, Records, PlaceInv, RecordsStand
<1>6. NoReplays
  BY <1>1, <1>5, NoneComing
<1>7. \A w \in Window : w # v => adopting[w].phase = "idle"
  BY <1>2, <1>5 DEF Common
<1>8. /\ adopting'[v].phase = "idle" /\ mounted' = mounted \ {v} /\ mounted \subseteq Window
      /\ \A w \in Window : w # v => adopting'[w] = adopting[w] /\ screen'[w] = screen[w]
  BY <1>1 DEF Discard, NotAdopting, PlaceInv, TypeOK
<1>9. /\ \A w \in Window : adopting'[w].phase = "idle"
      /\ \A w \in Window : adopting[w].phase = "idle" => screen'[w] = screen[w]
      /\ \A w \in mounted' : w \in mounted /\ adopting[w].phase = "idle"
      /\ \A w \in Window : place'[w] = place[w]
  BY <1>1, <1>7, <1>8
<1>. QED  BY <1>1, <1>4, <1>5, <1>6, <1>9, HandBackSeam

LEMMA DestroyedSeam ==
    ASSUME PlaceInv, PlaceInv', NEW d \in Nat, NEW b \in Nat, SeamAt(d, b), NEW v \in Window, Destroyed(v), ~overtaken'
    PROVE  SeamAt(d, b)'
<1>. DEFINE mine == {a \in arrivals : a.to = v}
<1>1. /\ v \in live /\ ~Outstanding(v) /\ live' = live \ {v} /\ gone' = gone \cup {v}
      /\ arrivals' = arrivals \ mine /\ lost' = lost \cup mine
      /\ owner' = IF mine # {} \/ owner = v THEN NoWindow ELSE owner
      /\ awaiting' = (awaiting /\ mine = {})
      /\ mounted' = mounted \ {v}
      /\ UNCHANGED <<produced, stdin, stdout, marking, cut, moves>>
  BY DEF Destroyed
<1>2. /\ adopting'[v].phase = "idle"
      /\ \A w \in Window : w # v => Same(w)
  BY DEF Destroyed, PlaceInv, TypeOK, Same, NotAdopting
<1>3. /\ Records' = Records /\ arrivals \subseteq Records /\ \A a, c \in Records : a = c
      /\ live \subseteq Window /\ awaiting \in BOOLEAN
  BY <1>1 DEF Records, PlaceInv, RecordsStand, TypeOK
<1>4. Common /\ Laid(d, b) /\ \A w \in live : Role(w, d, b)
  BY Parts
<1>5. ReplaysKeep /\ NoReplays' = NoReplays /\ \A w : toWin'[w] = toWin[w] => QuestionKept(w)
  BY <1>1, StillPipes
<1>6. mine # {} => NoReplays
  BY <1>1, NoneComing
<1>7. \A a \in arrivals : a.to # v => a \in arrivals' /\ mine = {}
  BY <1>1, <1>3
<1>8. \A a \in arrivals' : a \in arrivals /\ a.to # v
  BY <1>1
<1>9. Records = {} => mine = {}
  BY <1>3
<1>10. mine = {} => awaiting' = awaiting
  BY <1>1, <1>3
<1>. HIDE DEF mine
<1>11. Laid(d, b)'
  BY <1>1, <1>4 DEF Laid
<1>12. ASSUME NEW w \in live' PROVE Role(w, d, b)'
  <2>1. w \in live /\ w \in Window /\ w # v /\ Same(w) /\ Role(w, d, b) /\ w # NoWindow
    BY <1>1, <1>2, <1>3, <1>4, WindowsAreDistinct
  <2>2. toWin'[w] = toWin[w] /\ screen'[w] = screen[w] /\ expecting'[w] = expecting[w] /\ place'[w] = place[w]
    BY <2>1 DEF Same
  <2>3. ASSUME Records = {}, owner' = w PROVE Holder(w, d, b)'
    <3>1. owner = w /\ awaiting' = awaiting
      BY <1>1, <1>9, <1>10, <2>1, <2>3
    <3>2. Holder(w, d, b)
      BY <2>1, <2>3, <3>1 DEF Role
    <3>. QED  BY <1>5, <2>1, <2>2, <3>1, <3>2, HolderSame
  <2>4. \A a \in Records : a.from = w => Source(w, d)' /\ (a.ready => place'[w] = "sent")
    BY <1>1, <2>1, <2>2, SourceSame DEF Role
  <2>5. ASSUME NEW a \in arrivals', a.to = w PROVE Aim(a, d)'
    <3>1. Aim(a, d) /\ a.to \in Window /\ a.n \in Nat /\ awaiting' = awaiting /\ cut' = cut /\ Same(a.to)
      BY <1>1, <1>7, <1>8, <1>10, <2>1, <2>5, ClosedIsIdle DEF Role
    <3>. QED  BY <1>5, <3>1, AimSame
  <2>6. Fence(w)'
    BY <1>5, <2>1, <2>2, FenceSame DEF Role
  <2>7. /\ w \in mounted' =>
            /\ screen'[w] = Bytes(0, Len(screen'[w]))
            /\ place'[w] # "none" \/ adopting'[w].phase = "planned"
        /\ Leaving(place'[w], toWin'[w]) => Head(toWin'[w]).t = "departed"
    BY <2>1 DEF Role, Same
  <2>. QED  BY <1>3, <2>3, <2>4, <2>5, <2>6, <2>7 DEF Role
<1>13. Common'
  <2>1. ASSUME NEW a \in Records'
        PROVE  /\ marking' \in {a.from, NoWindow}
               /\ marking' # NoWindow => NoReplays'
               /\ a.ready => marking' = NoWindow /\ a.mark = cut' /\ a.part = Bytes(0, cut')
    BY <1>1, <1>3, <1>4, <1>5 DEF Common
  <2>2. \A w \in Window : adopting'[w].phase # "idle" => \E a \in arrivals' : a.to = w
    BY <1>2, <1>4, <1>7 DEF Common, Same
  <2>3. \A a \in arrivals' : a.to \notin live' => NoReplays'
    BY <1>1, <1>4, <1>5, <1>8 DEF Common
  <2>4. lost' # {} => NoReplays'
    BY <1>1, <1>4, <1>5, <1>6 DEF Common
  <2>5. \A w \in Window \ (live' \cup gone') : Unasked(w)'
    <3>1. ASSUME NEW w \in Window \ (live' \cup gone') PROVE Unasked(w)'
      <4>1. w \in Window \ (live \cup gone) /\ w # v
        BY <1>1, <3>1
      <4>. QED  BY <1>2, <1>4, <1>5, <4>1 DEF Common, Same, QuestionKept
    <3>. QED  BY <3>1
  <2>. QED  BY <2>1, <2>2, <2>3, <2>4, <2>5 DEF Common
<1>. QED  BY <1>11, <1>12, <1>13, Whole

-----------------------------------------------------------------------------
(* The seam is kept *)

LEMMA InitSeam == Init => SeamInv
<1>. SUFFICES ASSUME Init PROVE SeamInv
  OBVIOUS
<1>. DEFINE none == <<>>
<1>1. PlaceInv
  BY InitPlace
<1>2. /\ stdin = none /\ stdout = none /\ produced = 0 /\ cut = NoMark /\ marking = NoWindow
      /\ owner = Home /\ mounted = {Home} /\ arrivals = {} /\ lost = {} /\ ~awaiting
      /\ \A w \in Window : toWin[w] = none /\ screen[w] = none /\ adopting[w] = NotAdopting
      /\ \A w \in Window : place[w] = IF w = Home THEN "held" ELSE "none"
      /\ Home \in Window /\ live \subseteq Window
  BY WindowsAreDistinct DEF Init
<1>3. none \in Seq(Event) /\ DOMAIN none = {} /\ Len(none) = 0 /\ Lines(none, 0, 0, 0) /\ Bytes(0, 0) = none
  BY NoLines, NoBytes
<1>4. NotAdopting.phase = "idle" /\ Records = {}
  BY <1>2 DEF NotAdopting, Records
<1>. HIDE DEF none
<1>5. Laid(0, 0)
  BY <1>2, <1>3 DEF Laid
<1>6. NoReplays /\ \A w \in Window : Unasked(w)
  BY <1>2, <1>3 DEF NoReplays, None, Unasked
<1>7. Shown
  <2>1. \A w \in Window : ~Leaving(place[w], toWin[w])
    BY <1>2 DEF Leaving, Moving
  <2>. QED  BY <1>2, <1>3, <2>1 DEF Shown, Exact
<1>8. Fenced
  BY <1>2, <1>6 DEF Fenced, Fence
<1>9. Held(0, 0)
  <2>0. none \in Seq(Event)
    BY <1>3
  <2>1. \A x \in Nat : Chain(none, Len(none), x, x)
    BY <2>0, ChainEmpty
  <2>2. Chain(toWin[Home], 0, Len(screen[Home]), 0) /\ DOMAIN toWin[Home] = {}
    BY <1>2, <1>3, <2>1
  <2>3. Holder(Home, 0, 0)
    BY <1>2, <1>6, <2>2 DEF Holder
  <2>. QED  BY <1>2, <2>3 DEF Held
<1>10. Given(0) /\ Taken(0)
  BY <1>2, <1>4 DEF Given, Taken
<1>11. SeamAt(0, 0)
  BY <1>5, <1>7, <1>8, <1>9, <1>10 DEF SeamAt
<1>. QED  BY <1>1, <1>11 DEF SeamInv

\* What was overtaken stays recorded.
LEMMA Recorded ==
    ASSUME [Next]_vars, overtaken
    PROVE  overtaken'
<1>1. CASE HostStep
  BY <1>1 DEF HostStep, Serve, DispatchData, DispatchMarked, DispatchReplay, DispatchCwds, HandBackLost
<1>2. CASE WindowStep
  BY <1>2 DEF WindowStep, OnData, OnCwds, OnMarked, OnReplay, OnFailed, OnDeparted
<1>3. CASE SourceStep
  BY <1>3 DEF SourceStep, SendContent, BuildFails
<1>4. CASE TargetStep
  BY <1>4 DEF TargetStep, AdoptReady, PlanWithoutReplay, AdoptDone, AdoptFailed
<1>5. CASE Watchdog
  BY <1>5 DEF Watchdog, Expire
<1>6. CASE Optional
  BY <1>6 DEF Optional, ShellPrints, Sweep, StartMove, MoveRefused, MarkTimeout, HandBackReplayTimeout,
              Destroyed, BeginTransfer
<1>7. CASE UNCHANGED vars
  BY <1>7 DEF vars
<1>. QED  BY <1>1, <1>2, <1>3, <1>4, <1>5, <1>6, <1>7 DEF Next

LEMMA NextSeam == SeamInv /\ [Next]_vars => SeamInv'
<1>. SUFFICES ASSUME SeamInv, [Next]_vars, PlaceInv', ~overtaken'
              PROVE  \E e, c \in Nat : SeamAt(e, c)'
  BY NextPlace DEF SeamInv
<1>1. PlaceInv /\ PlaceInv'
  BY DEF SeamInv
<1>2. PICK d \in Nat, b \in Nat : SeamAt(d, b)
  BY Recorded DEF SeamInv
<1>5. CASE HostStep
  <2>1. d + 1 \in Nat
    OBVIOUS
  <2>2. CASE Serve
    BY <1>1, <1>2, <2>2, ServeSeam
  <2>3. CASE DispatchData
    BY <1>1, <1>2, <2>1, <2>3, DispatchDataSeam
  <2>4. CASE DispatchMarked
    BY <1>1, <1>2, <2>4, DispatchMarkedSeam
  <2>5. CASE DispatchReplay
    BY <1>1, <1>2, <2>5, DispatchReplaySeam
  <2>6. CASE DispatchCwds
    BY <1>1, <1>2, <2>6, DispatchCwdsSeam
  <2>7. ASSUME NEW a \in lost, HandBackLost(a) PROVE SeamAt(d, b)'
    BY <1>1, <1>2, <2>7, HandBackLostSeam
  <2>. QED  BY <1>2, <1>5, <2>2, <2>3, <2>4, <2>5, <2>6, <2>7 DEF HostStep
<1>6. CASE WindowStep
  <2>1. PICK w \in Window : \/ OnData(w) \/ OnCwds(w) \/ OnMarked(w) \/ OnReplay(w)
                            \/ OnFailed(w) \/ OnDeparted(w)
    BY <1>6 DEF WindowStep
  <2>. QED  BY <1>1, <1>2, <2>1, OnDataSeam, OnCwdsSeam, OnMarkedSeam, OnReplaySeam, OnFailedSeam, OnDepartedSeam
<1>7. CASE SourceStep
  <2>1. PICK w \in Window : SendContent(w) \/ BuildFails(w)
    BY <1>7 DEF SourceStep
  <2>. QED  BY <1>1, <1>2, <2>1, SendContentSeam, BuildFailsSeam
<1>8. CASE TargetStep
  <2>1. \A w \in Window : ~PlanWithoutReplay(w)
    BY DEF PlanWithoutReplay
  <2>2. PICK w \in Window : AdoptReady(w) \/ AdoptDone(w) \/ AdoptFailed(w)
    BY <1>8, <2>1 DEF TargetStep
  <2>. QED  BY <1>1, <1>2, <2>2, AdoptReadySeam, AdoptDoneSeam, AdoptFailedSeam
<1>9. CASE Watchdog
  BY <1>1, <1>2, <1>9, ExpireSeam DEF Watchdog
<1>10. CASE Optional
  <2>1. CASE ShellPrints
    BY <1>1, <1>2, <2>1, ShellPrintsSeam
  <2>2. ~Sweep
    BY DEF Sweep
  <2>3. ASSUME NEW w \in Window, StartMove(w) \/ MoveRefused(w) \/ Destroyed(w)
        PROVE  SeamAt(d, b)'
    BY <1>1, <1>2, <2>3, StartMoveSeam, MoveRefusedSeam, DestroyedSeam
  <2>4. ASSUME NEW w \in Window, NEW to \in Window, BeginTransfer(w, to)
        PROVE  SeamAt(d, b)'
    BY <1>1, <1>2, <2>4, BeginTransferSeam
  <2>5. \A w \in Window : ~MarkTimeout(w) /\ ~HandBackReplayTimeout(w)
    BY DEF MarkTimeout, HandBackReplayTimeout
  <2>. QED  BY <1>2, <1>10, <2>1, <2>2, <2>3, <2>4, <2>5 DEF Optional
<1>11. CASE UNCHANGED vars
  <2>1. UNCHANGED <<produced, stdin, stdout, cut, toWin>> /\ UNCHANGED <<hostVars, winVars>>
    BY <1>11 DEF vars, hostVars, winVars
  <2>2. ReplaysKeep /\ QuestionsKeep
    BY <2>1, StillPipes DEF QuestionsKeep, QuestionKept
  <2>3. Laid(d, b)'
    BY <1>2, <2>1 DEF SeamAt, Laid
  <2>. QED  BY <1>1, <1>2, <2>1, <2>2, <2>3, PipesOnly
<1>. QED  BY <1>5, <1>6, <1>7, <1>8, <1>9, <1>10, <1>11 DEF Next

\* Between any two lines the reader handles, and until some wait is over before its
\* answer came, every terminal, every queue and the pipes fit together: what a holder, a
\* source or a target shows, then the output queued for it, then what is still in the
\* pipes, is the stream without a gap or a repeat, and at most one replay, starting at
\* the mark, is under way to close a suppression (dispatch_sidecar_event, adopt_ready
\* and hand_back_arrival against handOff, adoptWorkspace and handleArrivalFailed).
THEOREM SeamHolds == Spec => []SeamInv
BY InitSeam, NextSeam, PTL DEF Spec

\* No terminal is given a byte twice or out of turn unless a wait was over before its
\* answer came, through any number of moves, refusals, tear-outs, windows that go away
\* and arrivals that expire unadopted (the mark of handOff, the replay since it, the
\* suppression between them).
THEOREM NoByteTwice == Spec => []SeamIsExact
<1>1. SeamInv => SeamIsExact
  BY DEF SeamInv, SeamAt, Shown, SeamIsExact, Exact
<1>. QED  BY <1>1, SeamHolds, PTL

\* At rest a window has the Workspace or has no part in it.
LEMMA NothingPending ==
    ASSUME PlaceInv, NEW w \in live, toWin[w] = <<>>, Records = {}
    PROVE  \/ Away(place[w], toWin[w])
           \/ owner = w /\ place[w] \in Resting /\ w \in mounted
<1>1. ~Settled(toWin[w], "departed") /\ ~Settled(toWin[w], "failed")
  <2>1. DOMAIN toWin[w] = {}
    OBVIOUS
  <2>. QED  BY <2>1 DEF Settled
<1>2. Stands(w)
  BY DEF PlaceInv, WindowsStand, TypeOK
<1>. QED  BY <1>1, <1>2 DEF Stands, Leaving, Holding

\* Once everything settled the Workspace is in the one window that owns its shell,
\* which nothing silences, or it went with its window, whatever was overtaken; and
\* unless something was the window shows all the shell printed (adopt_done,
\* hand_back_arrival, drop_window).
THEOREM SettlesWhole == Spec => []SettledInOnePlace
<1>1. ASSUME SeamInv, RestInv PROVE SettledInOnePlace
  <2>. SUFFICES ASSUME Quiet
                PROVE  \/ owner = NoWindow /\ \A w \in live : place[w] = "none" /\ w \notin mounted
                       \/ /\ owner \in live /\ ~awaiting /\ marking = NoWindow
                          /\ ~overtaken => screen[owner] = Bytes(0, produced)
                          /\ \A w \in live : (w \in mounted) = (w = owner)
                          /\ \A w \in live : (place[w] # "none") = (w = owner)
    BY DEF SettledInOnePlace
  <2>1. PlaceInv /\ TypeOK /\ "none" \notin Resting /\ live \subseteq Window
    BY <1>1 DEF SeamInv, PlaceInv, Resting, TypeOK
  <2>2. /\ stdin = <<>> /\ stdout = <<>> /\ arrivals = {} /\ Records = {}
        /\ \A w \in live : toWin[w] = <<>> /\ adopting[w].phase = "idle"
    BY DEF Quiet, Records
  <2>3. ASSUME NEW w \in live
        PROVE  \/ place[w] = "none" /\ w \notin mounted
               \/ owner = w /\ place[w] # "none" /\ w \in mounted
    <3>1. CASE Away(place[w], toWin[w])
      BY <1>1, <2>2, <3>1 DEF Away, RestInv, Parked
    <3>2. CASE owner = w /\ place[w] \in Resting /\ w \in mounted
      BY <2>1, <3>2
    <3>. QED  BY <2>1, <2>2, <3>1, <3>2, NothingPending
  <2>4. DOMAIN stdin = {} /\ DOMAIN stdout = {}
    BY <2>2
  <2>5. ~awaiting
    BY <1>1, <2>2, <2>4 DEF RestInv, Awaited, Coming, Range
  <2>6. CASE owner = NoWindow
    <3>1. \A w \in live : owner # w
      BY <2>1, <2>6, WindowsAreDistinct
    <3>. QED  BY <2>3, <2>6, <3>1
  <2>7. CASE owner # NoWindow
    <3>1. owner \in live /\ Holding(place[owner], toWin[owner]) /\ marking = NoWindow
      BY <2>1, <2>2, <2>7 DEF PlaceInv, OwnerHolds, RecordsStand
    <3>2. place[owner] # "none" /\ owner \in mounted
      <4>1. ~Away(place[owner], toWin[owner])
        BY <3>1, StandingsDiffer
      <4>. QED  BY <2>1, <2>2, <3>1, <4>1, NothingPending
    <3>3. ASSUME ~overtaken PROVE screen[owner] = Bytes(0, produced)
      <4>1. PICK d \in Nat, b \in Nat : SeamAt(d, b)
        BY <1>1, <3>3 DEF SeamInv
      <4>2. Chain(toWin[owner], 0, Len(screen[owner]), d)
        <5>1. Holder(owner, d, b)
          BY <2>2, <2>7, <4>1 DEF SeamAt, Held
        <5>. QED  BY <2>5, <5>1 DEF Holder
      <4>3. d = produced
        <5>1. Lines(stdout, d, produced, b) /\ stdout \in Seq(Line) /\ produced \in Nat
          BY <2>1, <4>1 DEF SeamAt, Laid, TypeOK
        <5>. QED  BY <2>2, <5>1, LinesEnd
      <4>4. Len(screen[owner]) = d
        <5>. DEFINE x == Len(screen[owner])  q == toWin[owner]
        <5>1. x \in Nat /\ q \in Seq(Event) /\ q = <<>> /\ Chain(q, 0, x, d)
          BY <2>1, <2>2, <3>1, <4>2 DEF TypeOK
        <5>. HIDE DEF x, q
        <5>2. x = d
          BY <5>1, ChainEmpty
        <5>. QED  BY <5>2 DEF x
      <4>5. screen[owner] = Bytes(0, Len(screen[owner]))
        BY <3>2, <4>1 DEF SeamAt, Shown, Exact
      <4>. QED  BY <4>3, <4>4, <4>5
    <3>. QED  BY <2>3, <2>5, <3>1, <3>2, <3>3
  <2>. QED  BY <2>6, <2>7
<1>. QED  BY <1>1, SeamHolds, ComesToRest, PTL

=============================================================================
