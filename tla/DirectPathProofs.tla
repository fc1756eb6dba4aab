-------------------------- MODULE DirectPathProofs --------------------------
(***************************************************************************)
(* What the cutover guarantees for every bound of its queues and buffers:  *)
(* no message reaches a cipher out of its place, an attempt that fails     *)
(* costs a relayed session nothing, and the two ends agree on each path.   *)
(***************************************************************************)
EXTENDS DirectPath, TLAPS

-----------------------------------------------------------------------------
(* The inductive invariant *)

\* The messages of s hold the places of the cipher stream after b.
InPlace(s, b) == \A i \in 1..Len(s) : s[i].n = b + i

\* One end: it has frames only on a channel, a live end has a peer that may still
\* open as long as its attempt runs and one that is open once it has switched, and
\* two peers that connected were both described.
Own(r, linked) ==
    /\ r.outbound = "relay" => r.buffer = <<>> /\ r.queue = <<>>
    /\ r.state = "idle" => r.peer = "none"
    /\ r.outbound = "direct" => linked
    /\ linked => r.peer \notin {"none", "describing"}
    /\ Live(r) =>
          /\ r.peer \in {"describing", "negotiating", "ready", "open"} <=> r.state = "attempting"
          /\ r.outbound = "direct" <=> r.peer = "open"
          /\ r.peer # "flushing"
          /\ r.state = "abandoned" => ~Switched(r)
    /\ ~Live(r) => r.peer \in {"none", "closed", "flushing"}

\* The stream before o's switch: all of it is on the relay, q.
Relayed(r, q, w, o) ==
    /\ r.inbound = "relay" /\ r.held = <<>> /\ w = <<>>
    /\ \A i \in 1..Len(q) : q[i].kind # "switch"
    /\ o.sent = r.got + Len(q)

\* The stream after it: the switch ends what the relay carries, and r's held
\* frames, the channel's, o's buffer and o's queue continue it in this order.
Cut(r, q, w, o) ==
    LET base == r.got + Len(q)
    IN  /\ r.inbound = "direct" => q = <<>> /\ r.held = <<>>
        /\ r.inbound = "relay" =>
              q # <<>> /\ \A i \in 1..Len(q) : q[i].kind = "switch" <=> i = Len(q)
        /\ r.peer \in Receiving =>
              /\ InPlace(r.held, base)
              /\ InPlace(w, base + Len(r.held))
              /\ InPlace(o.buffer, base + Len(r.held) + Len(w))
              /\ InPlace(o.queue, base + Len(r.held) + Len(w) + Len(o.buffer))
              /\ Live(o) =>
                    o.sent = base + Len(r.held) + Len(w) + Len(o.buffer) + Len(o.queue)

\* What o said, on its way to r over the relay q and the channel w.
Stream(r, q, w, o) ==
    Live(r) =>
        /\ InPlace(q, r.got)
        /\ o.outbound = "relay" => Relayed(r, q, w, o)
        /\ o.outbound = "direct" => Cut(r, q, w, o)

OwnInv == \A e \in Ends : Own(end[e], link)

StreamInv == \A e \in Ends : Stream(end[e], relay[e], wire[e], end[Other(e)])

PathInv == TypeOK /\ OwnInv /\ StreamInv /\ InOrder /\ AttemptIsFree

-----------------------------------------------------------------------------
(* Sequences of messages *)

LEMMA EndsPair ==
    ASSUME NEW e \in Ends
    PROVE  Other(e) \in Ends /\ Other(e) # e /\ Other(Other(e)) = e
           /\ \A d \in Ends : d = e \/ d = Other(e)
BY DEF Ends, Other

LEMMA InPlaceAppend ==
    ASSUME NEW s \in Seq(Messages), NEW b \in Nat, NEW m \in Messages,
           InPlace(s, b), m.n = b + Len(s) + 1
    PROVE  /\ Append(s, m) \in Seq(Messages) /\ Len(Append(s, m)) = Len(s) + 1
           /\ InPlace(Append(s, m), b)
           /\ Append(s, m) # <<>>
BY DEF InPlace

LEMMA InPlaceTail ==
    ASSUME NEW s \in Seq(Messages), NEW b \in Nat, InPlace(s, b), s # <<>>
    PROVE  /\ Tail(s) \in Seq(Messages) /\ Len(Tail(s)) = Len(s) - 1 /\ Len(s) > 0
           /\ Head(s) \in Messages /\ Head(s) = s[1] /\ Head(s).n = b + 1
           /\ InPlace(Tail(s), b + 1)
           /\ \A i \in 1..Len(Tail(s)) : Tail(s)[i] = s[i + 1] /\ i + 1 \in 1..Len(s)
<1>1. Len(s) \in Nat /\ Len(s) > 0 /\ 1 \in 1..Len(s)
  OBVIOUS
<1>2. /\ Tail(s) \in Seq(Messages) /\ Len(Tail(s)) = Len(s) - 1
      /\ Head(s) \in Messages /\ Head(s) = s[1]
      /\ \A i \in 1..Len(Tail(s)) : Tail(s)[i] = s[i + 1] /\ i + 1 \in 1..Len(s)
  BY <1>1
<1> QED
  BY <1>1, <1>2 DEF InPlace

\* The buffer s and the queue t, once k of the queue are moved to the buffer.
Drained(s, t, b, k, u, v) ==
    /\ u \in Seq(Messages) /\ v \in Seq(Messages)
    /\ Len(u) = Len(s) + k /\ Len(v) = Len(t) - k
    /\ InPlace(u, b) /\ InPlace(v, b + Len(u))

LEMMA InPlaceDrained ==
    ASSUME NEW s \in Seq(Messages), NEW t \in Seq(Messages), NEW b \in Nat,
           NEW k \in Nat, k <= Len(t), InPlace(s, b), InPlace(t, b + Len(s))
    PROVE  Drained(s, t, b, k, s \o SubSeq(t, 1, k), SubSeq(t, k + 1, Len(t)))
<1> DEFINE h == SubSeq(t, 1, k)
           u == s \o h
           v == SubSeq(t, k + 1, Len(t))
<1>1. h \in Seq(Messages) /\ Len(h) = k /\ \A i \in 1..k : h[i] = t[i] /\ i \in 1..Len(t)
  OBVIOUS
<1>2. /\ v \in Seq(Messages) /\ Len(v) = Len(t) - k
      /\ \A i \in 1..Len(t) - k : v[i] = t[k + i] /\ k + i \in 1..Len(t)
  OBVIOUS
<1> HIDE DEF h
<1>3. /\ u \in Seq(Messages) /\ Len(u) = Len(s) + k
      /\ \A i \in 1..Len(u) : u[i] = IF i <= Len(s) THEN s[i] ELSE h[i - Len(s)]
  BY <1>1
<1>4. InPlace(u, b)
  <2> SUFFICES ASSUME NEW i \in 1..Len(u) PROVE u[i].n = b + i
    BY DEF InPlace
  <2> HIDE DEF u
  <2>1. CASE i <= Len(s)
    BY <1>3, <2>1 DEF InPlace
  <2>2. CASE i > Len(s)
    <3>1. i - Len(s) \in 1..k /\ u[i] = h[i - Len(s)]
      BY <1>3, <2>2
    <3>2. u[i] = t[i - Len(s)] /\ i - Len(s) \in 1..Len(t)
      BY <1>1, <3>1
    <3> QED
      BY <3>2 DEF InPlace
  <2> QED
    BY <1>3, <2>1, <2>2
<1>5. InPlace(v, b + Len(u))
  <2> SUFFICES ASSUME NEW i \in 1..Len(v) PROVE v[i].n = b + Len(u) + i
    BY DEF InPlace
  <2> HIDE DEF u, v
  <2>1. v[i] = t[k + i] /\ k + i \in 1..Len(t)
    BY <1>2
  <2> QED
    BY <1>3, <2>1 DEF InPlace
<1>6. Drained(s, t, b, k, u, v)
  <2> HIDE DEF u, v
  <2> QED
    BY <1>2, <1>3, <1>4, <1>5 DEF Drained
<1> QED
  BY <1>6 DEF h

LEMMA ConcatOne ==
    ASSUME NEW s \in Seq(Messages), NEW m \in Messages
    PROVE  s \o <<m>> = Append(s, m) /\ Append(s, m) \in Seq(Messages)
OBVIOUS

LEMMA InPlaceNone ==
    ASSUME NEW b
    PROVE  InPlace(<<>>, b)
BY DEF InPlace

-----------------------------------------------------------------------------
(* Ends that close *)

\* Frames are kept only where there is a peer.
Bare(r) == r.peer = "none" => r.buffer = <<>> /\ r.queue = <<>>

\* n is r with its peer closed: its session is over, or its attempt abandoned
\* before a switch.
Gone(r, n) ==
    /\ n.outbound = r.outbound /\ n.inbound = r.inbound
    /\ n.sent = r.sent /\ n.got = r.got
    /\ n.peer = IF r.peer = "none" THEN "none" ELSE "closed"
    /\ n.buffer = <<>> /\ n.queue = <<>>
    /\ n.state = "idle" => r.state = "idle"
    /\ Live(n) => Live(r) /\ ~Switched(r) /\ n.state = "abandoned" /\ n.held = <<>>

LEMMA OwnBare ==
    ASSUME NEW r \in Session, NEW linked \in BOOLEAN, Own(r, linked)
    PROVE  Bare(r)
BY DEF Own, Bare, Session

LEMMA ClosePeerGone ==
    ASSUME NEW r \in Session, Bare(r)
    PROVE  /\ ClosePeer(r) \in Session
           /\ ClosePeer(r).buffer = <<>> /\ ClosePeer(r).queue = <<>>
           /\ ClosePeer(r).peer = IF r.peer = "none" THEN "none" ELSE "closed"
           /\ ClosePeer(r).outbound = r.outbound /\ ClosePeer(r).inbound = r.inbound
           /\ ClosePeer(r).sent = r.sent /\ ClosePeer(r).got = r.got
           /\ ClosePeer(r).state = r.state /\ ClosePeer(r).over = r.over
           /\ ClosePeer(r).held = r.held
<1>1. CASE r.peer = "none"
  BY <1>1 DEF ClosePeer, Bare
<1>2. CASE r.peer # "none"
  <2> DEFINE c == [r EXCEPT !.peer = "closed", !.queue = <<>>, !.buffer = <<>>]
  <2>1. ClosePeer(r) = c
    BY <1>2 DEF ClosePeer
  <2>2. c \in Session
    <3>1. "closed" \in Peers
      BY DEF Peers
    <3>2. <<>> \in Seq(Messages)
      OBVIOUS
    <3> QED
      BY <3>1, <3>2 DEF Session
  <2>3. /\ c.buffer = <<>> /\ c.queue = <<>> /\ c.peer = "closed"
        /\ c.outbound = r.outbound /\ c.inbound = r.inbound
        /\ c.sent = r.sent /\ c.got = r.got
        /\ c.state = r.state /\ c.over = r.over /\ c.held = r.held
    BY DEF Session
  <2> QED
    BY <1>2, <2>1, <2>2, <2>3
<1> QED
  BY <1>1, <1>2

LEMMA DisposeGone ==
    ASSUME NEW r \in Session, Bare(r), NEW why \in Reasons \ {"live"}
    PROVE  /\ Dispose(r, why) \in Session /\ Dispose(r, why).over = why
           /\ ~Live(Dispose(r, why)) /\ Gone(r, Dispose(r, why))
<1> DEFINE c == ClosePeer(r)
<1>1. /\ c \in Session /\ c.buffer = <<>> /\ c.queue = <<>>
      /\ c.peer = IF r.peer = "none" THEN "none" ELSE "closed"
      /\ c.outbound = r.outbound /\ c.inbound = r.inbound
      /\ c.sent = r.sent /\ c.got = r.got /\ c.state = r.state
  BY ClosePeerGone
<1>2. Dispose(r, why) = [c EXCEPT !.over = why, !.held = <<>>]
  BY DEF Dispose
<1> DEFINE n == [c EXCEPT !.over = why, !.held = <<>>]
<1> HIDE DEF c
<1>3. n \in Session /\ n.over = why
  BY <1>1 DEF Session
<1>4. /\ n.buffer = c.buffer /\ n.queue = c.queue /\ n.peer = c.peer
      /\ n.outbound = c.outbound /\ n.inbound = c.inbound
      /\ n.sent = c.sent /\ n.got = c.got /\ n.state = c.state
  BY <1>1 DEF Session
<1> HIDE DEF n
<1>5. ~Live(n)
  BY <1>3 DEF Live
<1>6. Gone(r, n)
  BY <1>1, <1>4, <1>5 DEF Gone
<1> QED
  BY <1>2, <1>3, <1>5, <1>6 DEF n

LEMMA GiveUpGone ==
    ASSUME NEW r \in Session, Bare(r), Live(r)
    PROVE  /\ GiveUp(r) \in Session /\ Gone(r, GiveUp(r))
           /\ GiveUp(r).over \in {"live", "path"}
           /\ GiveUp(r).over = "path" => Switched(r)
<1>1. CASE Switched(r)
  <2>1. GiveUp(r) = Dispose(r, "path")
    BY <1>1 DEF GiveUp
  <2>2. "path" \in Reasons \ {"live"}
    BY DEF Reasons
  <2> QED
    BY <1>1, <2>1, <2>2, DisposeGone
<1>2. CASE ~Switched(r)
  <2> DEFINE c == ClosePeer(r)
  <2>1. /\ c \in Session /\ c.buffer = <<>> /\ c.queue = <<>>
        /\ c.peer = IF r.peer = "none" THEN "none" ELSE "closed"
        /\ c.outbound = r.outbound /\ c.inbound = r.inbound
        /\ c.sent = r.sent /\ c.got = r.got /\ c.over = r.over
    BY ClosePeerGone
  <2>2. GiveUp(r) = [c EXCEPT !.state = "abandoned", !.held = <<>>]
    BY <1>2 DEF GiveUp
  <2> HIDE DEF c
  <2> QED
    BY ZenonT(60), <1>2, <2>1, <2>2 DEF Session, Gone, Live
<1> QED
  BY <1>1, <1>2

LEMMA OnClosedGone ==
    ASSUME NEW r \in Session, Bare(r)
    PROVE  /\ OnClosed(r) \in Session /\ Gone(r, OnClosed(r))
           /\ OnClosed(r).over \in {r.over, "path"}
           /\ OnClosed(r).over = "path" => r.over = "path" \/ (Live(r) /\ Switched(r))
<1>1. CASE Live(r)
  <2> DEFINE g == GiveUp(r)
  <2>1. /\ g \in Session /\ Gone(r, g) /\ g.over \in {"live", "path"}
        /\ g.over = "path" => Switched(r)
    BY <1>1, GiveUpGone
  <2> DEFINE n == [g EXCEPT !.owesAnswer = FALSE]
  <2>2. OnClosed(r) = n
    BY <1>1 DEF OnClosed
  <2> HIDE DEF g
  <2>3. n \in Session
    BY <2>1 DEF Session
  <2>4. /\ n.buffer = g.buffer /\ n.queue = g.queue /\ n.peer = g.peer
        /\ n.outbound = g.outbound /\ n.inbound = g.inbound /\ n.held = g.held
        /\ n.sent = g.sent /\ n.got = g.got /\ n.state = g.state /\ n.over = g.over
    BY <2>1 DEF Session
  <2> HIDE DEF n
  <2>5. Gone(r, n)
    BY <2>1, <2>4 DEF Gone, Live
  <2> QED
    BY <1>1, <2>1, <2>2, <2>3, <2>4, <2>5 DEF Live
<1>2. CASE ~Live(r)
  <2> DEFINE c == ClosePeer(r)
  <2>1. /\ c \in Session /\ c.buffer = <<>> /\ c.queue = <<>>
        /\ c.peer = IF r.peer = "none" THEN "none" ELSE "closed"
        /\ c.outbound = r.outbound /\ c.inbound = r.inbound
        /\ c.sent = r.sent /\ c.got = r.got /\ c.over = r.over /\ c.state = r.state
    BY ClosePeerGone
  <2>2. OnClosed(r) = c
    BY <1>2 DEF OnClosed
  <2> HIDE DEF c
  <2>3. Gone(r, c) /\ ~Live(c)
    BY <1>2, <2>1 DEF Gone, Live
  <2>4. c.over \in {r.over, "path"} /\ (c.over = "path" => r.over = "path")
    BY <2>1
  <2> QED
    BY <2>1, <2>2, <2>3, <2>4
<1> QED
  BY <1>1, <1>2

LEMMA GoneOwn ==
    ASSUME NEW r \in Session, NEW n \in Session, NEW linked \in BOOLEAN,
           Own(r, linked), Gone(r, n)
    PROVE  Own(n, linked)
BY DEF Own, Gone, Live, Switched, Session

\* A receiver that closes drops what the channel carries to it.
LEMMA GoneReceives ==
    ASSUME NEW r \in Session, NEW n \in Session, NEW o \in Session,
           NEW q \in Seq(Messages), NEW w \in Seq(Messages), NEW f \in Seq(Messages),
           Stream(r, q, w, o), Gone(r, n)
    PROVE  Stream(n, q, IF n.peer \in Receiving THEN f ELSE <<>>, o)
<1>1. n.peer \notin Receiving
  BY DEF Gone, Receiving
<1> SUFFICES ASSUME Live(n) PROVE Stream(n, q, <<>>, o)
  BY <1>1 DEF Stream
<1>2. /\ Live(r) /\ n.held = <<>> /\ r.inbound = "relay" /\ n.inbound = "relay"
      /\ n.got = r.got
  BY DEF Gone, Switched, Session
<1>3. ASSUME o.outbound = "relay" PROVE Relayed(n, q, <<>>, o)
  BY <1>2, <1>3 DEF Stream, Relayed
<1>4. ASSUME o.outbound = "direct" PROVE Cut(n, q, <<>>, o)
  BY <1>1, <1>2, <1>4 DEF Stream, Cut
<1> QED
  BY <1>2, <1>3, <1>4 DEF Stream

\* A sender that closes takes with it what had not left.
LEMMA GoneSends ==
    ASSUME NEW r \in Session, NEW n \in Session, NEW o \in Session,
           NEW q \in Seq(Messages), NEW w \in Seq(Messages),
           Stream(r, q, w, o), Gone(o, n)
    PROVE  Stream(r, q, w, n)
<1> SUFFICES ASSUME Live(r) PROVE Stream(r, q, w, n)
  BY DEF Stream
<1>1. CASE o.outbound = "relay"
  BY <1>1 DEF Stream, Relayed, Gone
<1>2. CASE o.outbound = "direct"
  <2>1. ~Live(n) /\ n.buffer = <<>> /\ n.queue = <<>> /\ n.outbound = "direct"
    BY <1>2 DEF Gone, Switched
  <2>2. Cut(r, q, w, o)
    BY <1>2 DEF Stream
  <2>3. Cut(r, q, w, n)
    BY <2>1, <2>2, InPlaceNone DEF Cut
  <2> QED
    BY <2>1, <2>3 DEF Stream
<1> QED
  BY <1>1, <1>2 DEF Session

-----------------------------------------------------------------------------
(* What a sender does to its stream *)

\* One more message on the relay, other than a switch.
LEMMA SaysMore ==
    ASSUME NEW r \in Session, NEW o \in Session, NEW n \in Session,
           NEW q \in Seq(Messages), NEW w \in Seq(Messages), NEW k \in Kinds,
           Stream(r, q, w, o), o.outbound = "relay", k # "switch",
           n.outbound = "relay", n.sent = o.sent + 1
    PROVE  Stream(r, Append(q, [kind |-> k, n |-> o.sent + 1]), w, n)
<1> SUFFICES ASSUME Live(r)
             PROVE  Stream(r, Append(q, [kind |-> k, n |-> o.sent + 1]), w, n)
  BY DEF Stream
<1> DEFINE m == [kind |-> k, n |-> o.sent + 1]
<1>1. InPlace(q, r.got) /\ Relayed(r, q, w, o) /\ o.sent = r.got + Len(q)
  BY DEF Stream, Relayed
<1>2. m \in Messages /\ m.n = r.got + Len(q) + 1 /\ m.kind # "switch"
  BY <1>1 DEF Messages, Session
<1> HIDE DEF m
<1>3. InPlace(Append(q, m), r.got) /\ Len(Append(q, m)) = Len(q) + 1
  BY <1>1, <1>2, InPlaceAppend DEF Session
<1>4. \A i \in 1..Len(Append(q, m)) : Append(q, m)[i].kind # "switch"
  BY <1>1, <1>2 DEF Relayed
<1>5. Relayed(r, Append(q, m), w, n)
  <2>1. r.got \in Nat /\ Len(q) \in Nat
    BY DEF Session
  <2> QED
    BY SMTT(30), <1>1, <1>3, <1>4, <2>1 DEF Relayed
<1>6. Stream(r, Append(q, m), w, n)
  BY <1>3, <1>5 DEF Stream
<1> QED
  BY <1>6 DEF m

\* The switch, the last message on the relay.
LEMMA Switches ==
    ASSUME NEW r \in Session, NEW o \in Session, NEW n \in Session,
           NEW q \in Seq(Messages), NEW w \in Seq(Messages),
           Stream(r, q, w, o), o.outbound = "relay",
           n.outbound = "direct", n.sent = o.sent + 1, n.buffer = <<>>, n.queue = <<>>
    PROVE  Stream(r, Append(q, [kind |-> "switch", n |-> o.sent + 1]), w, n)
<1> SUFFICES ASSUME Live(r)
             PROVE  Stream(r, Append(q, [kind |-> "switch", n |-> o.sent + 1]), w, n)
  BY DEF Stream
<1> DEFINE m == [kind |-> "switch", n |-> o.sent + 1]
<1>1. /\ InPlace(q, r.got) /\ Relayed(r, q, w, o) /\ o.sent = r.got + Len(q)
      /\ r.inbound = "relay" /\ r.held = <<>> /\ w = <<>>
  BY DEF Stream, Relayed
<1>2. m \in Messages /\ m.n = r.got + Len(q) + 1 /\ m.kind = "switch"
  BY <1>1 DEF Messages, Session, Kinds
<1> HIDE DEF m
<1> DEFINE p == Append(q, m)
<1>3. InPlace(p, r.got) /\ Len(p) = Len(q) + 1 /\ p # <<>>
  BY <1>1, <1>2, InPlaceAppend DEF Session
<1>4. \A i \in 1..Len(p) : p[i].kind = "switch" <=> i = Len(p)
  BY <1>1, <1>2 DEF Relayed
<1> HIDE DEF p
<1>5. n.sent = r.got + Len(p) + Len(r.held) + Len(w) + Len(n.buffer) + Len(n.queue)
  BY <1>1, <1>3 DEF Session
<1>6. Cut(r, p, w, n)
  BY <1>1, <1>3, <1>4, <1>5, InPlaceNone DEF Cut
<1>7. Stream(r, p, w, n)
  BY <1>3, <1>6 DEF Stream
<1> QED
  BY <1>7 DEF m, p

\* A sender whose stream is as it was.
LEMMA SaysNothing ==
    ASSUME NEW r, NEW o, NEW n, NEW q, NEW w,
           Stream(r, q, w, o), n.outbound = o.outbound, n.sent = o.sent,
           n.buffer = o.buffer, n.queue = o.queue, Live(n) => Live(o)
    PROVE  Stream(r, q, w, n)
BY DEF Stream, Relayed, Cut

\* One more frame, at the end of the buffer or of the queue behind it.
LEMMA Frames ==
    ASSUME NEW r \in Session, NEW o \in Session, NEW n \in Session,
           NEW q \in Seq(Messages), NEW w \in Seq(Messages), NEW m \in Messages,
           Stream(r, q, w, o), o.outbound = "direct", Live(o),
           m.n = o.sent + 1, n.outbound = "direct", n.sent = o.sent + 1,
           \/ o.queue = <<>> /\ n.queue = <<>> /\ n.buffer = Append(o.buffer, m)
           \/ n.buffer = o.buffer /\ n.queue = Append(o.queue, m)
    PROVE  Stream(r, q, w, n)
<1> SUFFICES ASSUME Live(r) PROVE Stream(r, q, w, n)
  BY DEF Stream
<1>1. Cut(r, q, w, o) /\ InPlace(q, r.got)
  BY DEF Stream
<1> DEFINE base == r.got + Len(q) + Len(r.held) + Len(w)
<1>2. base \in Nat
  <2>1. r.got \in Nat /\ r.held \in Seq(Messages)
    BY DEF Session
  <2> QED
    BY <2>1
<1>3. ASSUME r.peer \in Receiving
      PROVE  /\ InPlace(n.buffer, base) /\ InPlace(n.queue, base + Len(n.buffer))
             /\ n.sent = base + Len(n.buffer) + Len(n.queue)
  <2>1. /\ InPlace(o.buffer, base) /\ InPlace(o.queue, base + Len(o.buffer))
        /\ o.sent = base + Len(o.buffer) + Len(o.queue)
    BY <1>1, <1>3 DEF Cut
  <2> HIDE DEF base
  <2>2. o.buffer \in Seq(Messages) /\ o.queue \in Seq(Messages)
    BY DEF Session
  <2>3. CASE o.queue = <<>> /\ n.queue = <<>> /\ n.buffer = Append(o.buffer, m)
    <3>1. m.n = base + Len(o.buffer) + 1
      BY <1>2, <2>1, <2>2, <2>3
    <3>2. InPlace(n.buffer, base) /\ Len(n.buffer) = Len(o.buffer) + 1
      BY <1>2, <2>1, <2>2, <2>3, <3>1, InPlaceAppend
    <3>3. InPlace(n.queue, base + Len(n.buffer))
      BY <2>3, InPlaceNone
    <3>4. n.sent = base + Len(n.buffer) + Len(n.queue)
      BY <1>2, <2>1, <2>2, <2>3, <3>2
    <3> QED
      BY <3>2, <3>3, <3>4
  <2>4. CASE n.buffer = o.buffer /\ n.queue = Append(o.queue, m)
    <3> DEFINE b == base + Len(o.buffer)
    <3>1. b \in Nat /\ m.n = b + Len(o.queue) + 1
      BY <1>2, <2>1, <2>2
    <3>2. InPlace(o.queue, b)
      BY <2>1
    <3> HIDE DEF b
    <3>3. InPlace(n.queue, b) /\ Len(n.queue) = Len(o.queue) + 1
      BY <2>2, <2>4, <3>1, <3>2, InPlaceAppend
    <3>4. InPlace(n.queue, base + Len(n.buffer)) /\ InPlace(n.buffer, base)
      BY <2>1, <2>4, <3>3 DEF b
    <3>5. n.sent = base + Len(n.buffer) + Len(n.queue)
      <4>1. Len(o.buffer) \in Nat /\ Len(o.queue) \in Nat /\ Len(n.buffer) = Len(o.buffer)
        BY <2>2, <2>4
      <4>2. Len(n.queue) = Len(o.queue) + 1 /\ n.sent = o.sent + 1
        BY <3>3
      <4>3. o.sent = base + Len(o.buffer) + Len(o.queue)
        BY <2>1
      <4>4. \A b0, x, y \in Nat : (b0 + x + y) + 1 = b0 + x + (y + 1)
        OBVIOUS
      <4> QED
        BY ZenonT(60), <1>2, <4>1, <4>2, <4>3, <4>4
    <3> QED
      BY <3>4, <3>5
  <2> QED
    BY <2>3, <2>4
<1>4. Cut(r, q, w, n)
  BY <1>1, <1>3 DEF Cut
<1> QED
  BY <1>1, <1>4 DEF Stream

\* A sender that is over, its frames gone with its peer.
LEMMA DeadSends ==
    ASSUME NEW r, NEW o, NEW n, NEW q, NEW w, Stream(r, q, w, o), o.outbound = "direct",
           n.outbound = "direct", ~Live(n), n.buffer = <<>>, n.queue = <<>>
    PROVE  Stream(r, q, w, n)
BY InPlaceNone DEF Stream, Cut

\* n is r with m at the end of what it has still to send.
Queued(r, n, m) ==
    /\ n.state = r.state /\ n.outbound = r.outbound /\ n.inbound = r.inbound
    /\ n.held = r.held /\ n.peer = r.peer /\ n.over = r.over
    /\ n.sent = r.sent /\ n.got = r.got
    /\ \/ r.queue = <<>> /\ n.queue = <<>> /\ n.buffer = Append(r.buffer, m)
       \/ n.buffer = r.buffer /\ n.queue = Append(r.queue, m)

LEMMA ChannelSendCases ==
    ASSUME NEW r \in Session, NEW m \in Messages, r.peer = "open"
    PROVE  \/ ChannelSend(r, m) \in Session /\ Queued(r, ChannelSend(r, m), m)
           \/ ChannelSend(r, m) = OnClosed(r)
<1>1. CASE r.queue = <<>> /\ Len(r.buffer) < BufferHigh
  <2> DEFINE n == [r EXCEPT !.buffer = Append(@, m)]
  <2>1. ChannelSend(r, m) = n
    BY <1>1 DEF ChannelSend
  <2>2. Append(r.buffer, m) \in Seq(Messages)
    BY DEF Session
  <2>3. n \in Session /\ Queued(r, n, m)
    BY <1>1, <2>2 DEF Session, Queued
  <2> QED
    BY <2>1, <2>3
<1>2. CASE ~(r.queue = <<>> /\ Len(r.buffer) < BufferHigh) /\ Len(r.queue) < QueuedFrames
  <2> DEFINE n == [r EXCEPT !.queue = Append(@, m)]
  <2>1. ChannelSend(r, m) = n
    BY <1>2 DEF ChannelSend
  <2>2. Append(r.queue, m) \in Seq(Messages)
    BY DEF Session
  <2>3. n \in Session /\ Queued(r, n, m)
    BY <2>2 DEF Session, Queued
  <2> QED
    BY <2>1, <2>3
<1>3. CASE ~(r.queue = <<>> /\ Len(r.buffer) < BufferHigh) /\ ~(Len(r.queue) < QueuedFrames)
  BY <1>3 DEF ChannelSend
<1> QED
  BY <1>1, <1>2, <1>3

LEMMA MinOfTwo ==
    ASSUME NEW a \in Nat, NEW b \in Nat
    PROVE  Min({a, b}) \in Nat /\ Min({a, b}) <= a
<1>1. \E x \in {a, b} : \A y \in {a, b} : x <= y
  OBVIOUS
<1>2. Min({a, b}) \in {a, b} /\ \A y \in {a, b} : Min({a, b}) <= y
  BY <1>1 DEF Min
<1> QED
  BY <1>2

\* n is r without its oldest frame, with k more of the queue in the buffer.
Left(r, n, k) ==
    /\ n.state = r.state /\ n.outbound = r.outbound /\ n.inbound = r.inbound
    /\ n.held = r.held /\ n.peer = r.peer /\ n.over = r.over
    /\ n.sent = r.sent /\ n.got = r.got
    /\ n.buffer = Tail(r.buffer) \o SubSeq(r.queue, 1, k)
    /\ n.queue = SubSeq(r.queue, k + 1, Len(r.queue))

LEMMA Transmits ==
    ASSUME NEW r \in Session, NEW o \in Session, NEW n \in Session,
           NEW q \in Seq(Messages), NEW w \in Seq(Messages), NEW k \in Nat,
           Stream(r, q, w, o), o.outbound = "direct", o.buffer # <<>>,
           k <= Len(o.queue), Left(o, n, k)
    PROVE  Stream(r, q, IF Live(r) /\ r.peer \in Receiving
                        THEN Append(w, Head(o.buffer)) ELSE <<>>, n)
<1> SUFFICES ASSUME Live(r)
             PROVE  Stream(r, q, IF r.peer \in Receiving
                                 THEN Append(w, Head(o.buffer)) ELSE <<>>, n)
  BY DEF Stream
<1>1. Cut(r, q, w, o) /\ InPlace(q, r.got) /\ n.outbound = "direct"
  BY DEF Stream, Left
<1>2. CASE r.peer \notin Receiving
  BY <1>1, <1>2 DEF Stream, Cut
<1>3. CASE r.peer \in Receiving
  <2> DEFINE base == r.got + Len(q) + Len(r.held)
             v == Append(w, Head(o.buffer))
             t == Tail(o.buffer)
             b == base + Len(v)
  <2>1. base \in Nat /\ r.held \in Seq(Messages) /\ Len(w) \in Nat
    <3>1. r.got \in Nat /\ r.held \in Seq(Messages)
      BY DEF Session
    <3> QED
      BY <3>1
  <2>2. o.buffer \in Seq(Messages) /\ o.queue \in Seq(Messages)
    BY DEF Session
  <2>3. /\ InPlace(w, base) /\ InPlace(o.buffer, base + Len(w))
        /\ InPlace(o.queue, base + Len(w) + Len(o.buffer))
        /\ Live(o) => o.sent = base + Len(w) + Len(o.buffer) + Len(o.queue)
    BY <1>1, <1>3 DEF Cut
  <2>4. InPlace(r.held, r.got + Len(q))
    BY <1>1, <1>3 DEF Cut
  <2> HIDE DEF base
  <2>5. /\ t \in Seq(Messages) /\ Len(t) = Len(o.buffer) - 1 /\ Len(o.buffer) > 0
        /\ Head(o.buffer) \in Messages /\ Head(o.buffer).n = base + Len(w) + 1
        /\ InPlace(t, (base + Len(w)) + 1)
    <3> DEFINE c == base + Len(w)
    <3>1. c \in Nat /\ InPlace(o.buffer, c)
      BY <2>1, <2>3
    <3> HIDE DEF c
    <3>2. /\ t \in Seq(Messages) /\ Len(t) = Len(o.buffer) - 1 /\ Len(o.buffer) > 0
          /\ Head(o.buffer) \in Messages /\ Head(o.buffer).n = c + 1
          /\ InPlace(t, c + 1)
      BY <2>2, <3>1, InPlaceTail
    <3> QED
      BY <3>2 DEF c
  <2>6. v \in Seq(Messages) /\ Len(v) = Len(w) + 1 /\ InPlace(v, base)
    BY <2>1, <2>3, <2>5, InPlaceAppend
  <2> HIDE DEF v, t
  <2>7. b \in Nat /\ b = (base + Len(w)) + 1 /\ InPlace(t, b)
    BY <2>1, <2>5, <2>6
  <2>8. InPlace(o.queue, b + Len(t))
    <3>1. Len(o.buffer) \in Nat
      BY <2>2
    <3>2. \A x, y \in Nat : y > 0 => ((base + x) + 1) + (y - 1) = base + x + y
      BY <2>1
    <3>3. b + Len(t) = base + Len(w) + Len(o.buffer)
      BY ZenonT(60), <2>1, <2>5, <2>7, <3>1, <3>2
    <3> QED
      BY <2>3, <3>3
  <2> HIDE DEF b
  <2>9. /\ Len(n.buffer) = Len(t) + k /\ Len(n.queue) = Len(o.queue) - k
        /\ InPlace(n.buffer, b) /\ InPlace(n.queue, b + Len(n.buffer))
    <3>1. /\ n.buffer = t \o SubSeq(o.queue, 1, k)
          /\ n.queue = SubSeq(o.queue, k + 1, Len(o.queue))
      BY DEF Left, t
    <3>2. Drained(t, o.queue, b, k, t \o SubSeq(o.queue, 1, k),
                  SubSeq(o.queue, k + 1, Len(o.queue)))
      BY <2>2, <2>5, <2>7, <2>8, InPlaceDrained
    <3>3. Drained(t, o.queue, b, k, n.buffer, n.queue)
      BY <3>1, <3>2, Zenon
    <3> QED
      BY <3>3 DEF Drained
  <2>10. ASSUME Live(n) PROVE n.sent = base + Len(v) + Len(n.buffer) + Len(n.queue)
    <3>1. Live(o) /\ n.sent = o.sent
      BY <2>10 DEF Left, Live
    <3>2. o.sent = base + Len(w) + Len(o.buffer) + Len(o.queue)
      BY <2>3, <3>1
    <3>3. Len(n.buffer) = Len(o.buffer) - 1 + k /\ Len(n.queue) = Len(o.queue) - k
      BY <2>5, <2>9
    <3>4. Len(o.buffer) \in Nat /\ Len(o.queue) \in Nat
      BY <2>2
    <3>5. \A x, y, z \in Nat : k <= z /\ y > 0 =>
             base + x + y + z = base + (x + 1) + (y - 1 + k) + (z - k)
      BY <2>1
    <3>6. o.sent = base + (Len(w) + 1) + (Len(o.buffer) - 1 + k) + (Len(o.queue) - k)
      BY <2>1, <2>5, <3>2, <3>4, <3>5
    <3> QED
      BY <2>6, <3>1, <3>3, <3>6
  <2>11. Cut(r, q, v, n)
    BY <1>1, <1>3, <2>4, <2>6, <2>9, <2>10 DEF Cut, base, b
  <2>12. Stream(r, q, v, n)
    BY <1>1, <2>11 DEF Stream
  <2> QED
    BY <1>3, <2>12 DEF v
<1> QED
  BY <1>2, <1>3

-----------------------------------------------------------------------------
(* What a handler owes the invariant *)

\* Whatever r had said, n has said.
SendsAs(r, n) ==
    \A p \in Session, q, w \in Seq(Messages) : Stream(p, q, w, r) => Stream(p, q, w, n)

\* r becomes n, of a session whose other end is o.
Fate(r, n, o) ==
    /\ n.over # "order"
    /\ n.over = "path" => r.over = "path" \/ n.outbound = "direct" \/ o.outbound = "direct"
    /\ r.outbound = "direct" => n.outbound = "direct"

\* A handler of r that says nothing on the relay makes it n, and leaves q on the
\* relay and f on the channel.
Handles(r, n, q, f, o, linked) ==
    /\ n \in Session /\ Own(n, linked) /\ SendsAs(r, n) /\ Fate(r, n, o)
    /\ Stream(n, q, IF n.peer \in Receiving THEN f ELSE <<>>, o)

\* A live end that has read the peer's switch has a peer that sent it.
LEMMA SwitchedHere ==
    ASSUME NEW r \in Session, NEW o \in Session, NEW q, NEW w,
           Stream(r, q, w, o), Live(r), Switched(r)
    PROVE  r.outbound = "direct" \/ o.outbound = "direct"
BY DEF Stream, Relayed, Switched, Session

LEMMA StillSendsAs ==
    ASSUME NEW r, NEW n, n.outbound = r.outbound, n.sent = r.sent,
           n.buffer = r.buffer, n.queue = r.queue, Live(n) => Live(r)
    PROVE  SendsAs(r, n)
BY SaysNothing DEF SendsAs

LEMMA GoneSendsAs ==
    ASSUME NEW r \in Session, NEW n \in Session, Gone(r, n)
    PROVE  SendsAs(r, n)
BY GoneSends DEF SendsAs

LEMMA SendsAsTwice ==
    ASSUME NEW r, NEW m, NEW n, SendsAs(r, m), SendsAs(m, n)
    PROVE  SendsAs(r, n)
BY DEF SendsAs

\* A handler that first makes its record p.
LEMMA HandlesAfter ==
    ASSUME NEW r, NEW p, NEW n, NEW o, NEW q, NEW f, NEW linked,
           SendsAs(r, p), p.over = r.over, p.outbound = r.outbound,
           Handles(p, n, q, f, o, linked)
    PROVE  Handles(r, n, q, f, o, linked)
BY SendsAsTwice DEF Handles, Fate

LEMMA GoneHandles ==
    ASSUME NEW r \in Session, NEW n \in Session, NEW o \in Session,
           NEW q \in Seq(Messages), NEW w \in Seq(Messages), NEW f \in Seq(Messages),
           NEW linked \in BOOLEAN,
           Own(r, linked), Stream(r, q, w, o), Gone(r, n), Fate(r, n, o)
    PROVE  Handles(r, n, q, f, o, linked)
BY GoneOwn, GoneReceives, GoneSendsAs DEF Handles

\* An end that is over reads nothing more, whatever is left to read.
LEMMA OverHandles ==
    ASSUME NEW r \in Session, NEW n \in Session, NEW o \in Session, NEW q, NEW f,
           NEW linked \in BOOLEAN,
           Own(r, linked), Gone(r, n), ~Live(n), Fate(r, n, o)
    PROVE  Handles(r, n, q, f, o, linked)
BY GoneOwn, GoneSendsAs DEF Handles, Stream

LEMMA GiveUpHandles ==
    ASSUME NEW r \in Session, NEW o \in Session,
           NEW q \in Seq(Messages), NEW w \in Seq(Messages), NEW f \in Seq(Messages),
           NEW linked \in BOOLEAN, Own(r, linked), Stream(r, q, w, o), Live(r)
    PROVE  Handles(r, GiveUp(r), q, f, o, linked)
<1> DEFINE n == GiveUp(r)
<1>1. /\ n \in Session /\ Gone(r, n) /\ n.over \in {"live", "path"}
      /\ n.over = "path" => Switched(r)
  BY OwnBare, GiveUpGone
<1> HIDE DEF n
<1>2. Fate(r, n, o)
  BY <1>1, SwitchedHere DEF Fate, Gone
<1>3. Handles(r, n, q, f, o, linked)
  BY <1>1, <1>2, GoneHandles
<1> QED
  BY <1>3 DEF n

LEMMA OnClosedHandles ==
    ASSUME NEW r \in Session, NEW o \in Session,
           NEW q \in Seq(Messages), NEW w \in Seq(Messages), NEW f \in Seq(Messages),
           NEW linked \in BOOLEAN, Own(r, linked), Stream(r, q, w, o), r.over # "order"
    PROVE  Handles(r, OnClosed(r), q, f, o, linked)
<1> DEFINE n == OnClosed(r)
<1>1. /\ n \in Session /\ Gone(r, n) /\ n.over \in {r.over, "path"}
      /\ n.over = "path" => r.over = "path" \/ (Live(r) /\ Switched(r))
  BY OwnBare, OnClosedGone
<1> HIDE DEF n
<1>2. Fate(r, n, o)
  BY <1>1, SwitchedHere DEF Fate, Gone
<1>3. Handles(r, n, q, f, o, linked)
  BY <1>1, <1>2, GoneHandles
<1> QED
  BY <1>3 DEF n

LEMMA DisposeHandles ==
    ASSUME NEW r \in Session, NEW o \in Session, NEW q, NEW f,
           NEW linked \in BOOLEAN, NEW why \in Reasons \ {"live", "order"}, Own(r, linked),
           why = "path" => r.outbound = "direct" \/ o.outbound = "direct"
    PROVE  Handles(r, Dispose(r, why), q, f, o, linked)
<1> DEFINE n == Dispose(r, why)
<1>1. n \in Session /\ n.over = why /\ ~Live(n) /\ Gone(r, n)
  BY OwnBare, DisposeGone
<1> HIDE DEF n
<1>2. Fate(r, n, o)
  BY <1>1 DEF Fate, Gone
<1>3. Handles(r, n, q, f, o, linked)
  BY <1>1, <1>2, OverHandles
<1> QED
  BY <1>3 DEF n

\* A handler that only moves the attempt on.
LEMMA StillHandles ==
    ASSUME NEW r \in Session, NEW n \in Session, NEW o \in Session,
           NEW q \in Seq(Messages), NEW w \in Seq(Messages), NEW linked \in BOOLEAN,
           Own(n, linked), Stream(r, q, w, o), Live(r), Live(n),
           n.outbound = r.outbound, n.sent = r.sent, n.buffer = r.buffer, n.queue = r.queue,
           n.got = r.got, n.inbound = r.inbound, n.held = r.held,
           n.peer \in Receiving => r.peer \in Receiving \/ o.outbound = "relay"
    PROVE  Handles(r, n, q, w, o, linked)
<1>1. SendsAs(r, n)
  BY StillSendsAs
<1>2. Fate(r, n, o)
  BY DEF Fate, Live
<1>3. ASSUME o.outbound = "relay"
      PROVE  Relayed(n, q, IF n.peer \in Receiving THEN w ELSE <<>>, o)
  BY <1>3 DEF Stream, Relayed
<1>4. ASSUME o.outbound = "direct"
      PROVE  Cut(n, q, IF n.peer \in Receiving THEN w ELSE <<>>, o)
  <2>1. Cut(r, q, w, o)
    BY <1>4 DEF Stream
  <2>2. CASE n.peer \in Receiving
    BY <1>4, <2>1, <2>2 DEF Cut
  <2>3. CASE n.peer \notin Receiving
    BY <2>1, <2>3 DEF Cut
  <2> QED
    BY <2>2, <2>3
<1>5. InPlace(q, n.got)
  BY DEF Stream
<1> QED
  BY <1>1, <1>2, <1>3, <1>4, <1>5 DEF Handles, Stream

-----------------------------------------------------------------------------
(* What a receiver does to its stream *)

\* What comes first on the relay is in its place, and comes before the switch is read.
LEMMA FirstRelayed ==
    ASSUME NEW r \in Session, NEW o \in Session, NEW q \in Seq(Messages), NEW w,
           Stream(r, q, w, o), Live(r), q # <<>>
    PROVE  r.inbound = "relay" /\ Head(q).n = r.got + 1 /\ Head(q) \in Messages
<1>1. InPlace(q, r.got) /\ r.got \in Nat
  BY DEF Stream, Session
<1>2. Head(q).n = r.got + 1 /\ Head(q) \in Messages
  BY <1>1, InPlaceTail
<1>3. r.inbound = "relay"
  BY DEF Stream, Relayed, Cut, Session
<1> QED
  BY <1>2, <1>3

\* r with its cipher k places further.
Past(r, k) == [r EXCEPT !.got = @ + k]

LEMMA PastFields ==
    ASSUME NEW r \in Session, NEW k \in Nat
    PROVE  /\ Past(r, k) \in Session /\ Past(r, k).got = r.got + k
           /\ Past(r, k).state = r.state /\ Past(r, k).outbound = r.outbound
           /\ Past(r, k).inbound = r.inbound /\ Past(r, k).held = r.held
           /\ Past(r, k).peer = r.peer /\ Past(r, k).queue = r.queue
           /\ Past(r, k).buffer = r.buffer /\ Past(r, k).over = r.over
           /\ Past(r, k).sent = r.sent
<1>1. r.got + k \in Nat
  BY DEF Session
<1> QED
  BY <1>1 DEF Past, Session

LEMMA PastOwn ==
    ASSUME NEW r \in Session, NEW k \in Nat, NEW linked \in BOOLEAN, Own(r, linked)
    PROVE  Own(Past(r, k), linked) /\ SendsAs(r, Past(r, k))
<1> DEFINE p == Past(r, k)
<1>1. /\ p.state = r.state /\ p.outbound = r.outbound
      /\ p.inbound = r.inbound /\ p.held = r.held
      /\ p.peer = r.peer /\ p.queue = r.queue
      /\ p.buffer = r.buffer /\ p.over = r.over /\ p.sent = r.sent
  BY PastFields
<1> HIDE DEF p
<1>2. Own(p, linked)
  BY <1>1 DEF Own, Live, Switched
<1>3. SendsAs(r, p)
  BY <1>1, StillSendsAs DEF Live
<1> QED
  BY <1>2, <1>3 DEF p

\* A message other than the switch is read off the relay.
LEMMA ReadsRelayed ==
    ASSUME NEW r \in Session, NEW o \in Session, NEW q \in Seq(Messages),
           NEW w \in Seq(Messages),
           Stream(r, q, w, o), Live(r), q # <<>>, Head(q).kind # "switch"
    PROVE  Stream(Past(r, 1), Tail(q), w, o)
<1> DEFINE n == Past(r, 1)
           t == Tail(q)
<1>1. /\ n.got = r.got + 1 /\ n.inbound = r.inbound /\ n.held = r.held
      /\ n.peer = r.peer /\ n.over = r.over /\ r.got \in Nat
  <2>1. r.got \in Nat
    BY DEF Session
  <2> QED
    BY <2>1, PastFields
<1>2. InPlace(q, r.got) /\ Len(q) \in Nat
  BY DEF Stream
<1>3. /\ t \in Seq(Messages) /\ Len(t) = Len(q) - 1 /\ Len(q) > 0 /\ Head(q) = q[1]
      /\ InPlace(t, r.got + 1)
      /\ \A i \in 1..Len(t) : t[i] = q[i + 1] /\ i + 1 \in 1..Len(q)
  BY <1>1, <1>2, InPlaceTail
<1> HIDE DEF n, t
<1>4. InPlace(t, n.got) /\ n.got + Len(t) = r.got + Len(q)
  BY <1>1, <1>2, <1>3
<1>5. ASSUME o.outbound = "relay" PROVE Relayed(n, t, w, o)
  BY <1>1, <1>3, <1>4, <1>5 DEF Stream, Relayed
<1>6. ASSUME o.outbound = "direct" PROVE Cut(n, t, w, o)
  <2>1. Cut(r, q, w, o) /\ r.inbound = "relay"
    BY <1>6, FirstRelayed DEF Stream
  <2>2. \A i \in 1..Len(q) : q[i].kind = "switch" <=> i = Len(q)
    BY <2>1 DEF Cut
  <2>3. Len(q) > 1 /\ t # <<>>
    BY <1>2, <1>3, <2>2
  <2>4. \A i \in 1..Len(t) : t[i].kind = "switch" <=> i = Len(t)
    BY <1>2, <1>3, <2>2
  <2>5. n.inbound = "relay"
    BY <1>1, <2>1
  <2> QED
    BY <1>1, <1>4, <2>1, <2>3, <2>4, <2>5 DEF Cut, Live
<1>7. Stream(n, t, w, o)
  BY <1>4, <1>5, <1>6 DEF Stream
<1> QED
  BY <1>7 DEF n, t

\* A receiver whose cipher is where the frames begin reads them, and is over only
\* at a goodbye.
LEMMA ReadFramesReads ==
    ASSUME NEW r \in Session, NEW linked \in BOOLEAN, Own(r, linked), Live(r),
           NEW frames \in Seq(Messages), InPlace(frames, r.got)
    PROVE  \/ ReadFrames(r, frames) = Past(r, Len(frames))
           \/ ReadFrames(r, frames) = Dispose(Past(r, Len(frames)), "goodbye")
<1>1. DOMAIN frames = 1..Len(frames)
  OBVIOUS
<1>2. \A i \in DOMAIN frames : frames[i].n = r.got + i
  BY <1>1 DEF InPlace
<1> QED
  BY <1>2 DEF ReadFrames, Past

\* The frames read, and the channel's next one behind them.
LEMMA ReadFramesHandles ==
    ASSUME NEW r \in Session, NEW o \in Session, NEW linked \in BOOLEAN,
           Own(r, linked), Live(r), NEW frames \in Seq(Messages), InPlace(frames, r.got),
           NEW f \in Seq(Messages), r.inbound = "direct", r.held = <<>>,
           o.outbound = "direct", r.peer \in Receiving,
           InPlace(f, r.got + Len(frames)),
           InPlace(o.buffer, r.got + Len(frames) + Len(f)),
           InPlace(o.queue, r.got + Len(frames) + Len(f) + Len(o.buffer)),
           Live(o) =>
              o.sent = r.got + Len(frames) + Len(f) + Len(o.buffer) + Len(o.queue)
    PROVE  Handles(r, ReadFrames(r, frames), <<>>, f, o, linked)
<1> DEFINE p == Past(r, Len(frames))
<1>1. Len(frames) \in Nat /\ Len(f) \in Nat /\ r.got \in Nat
  BY DEF Session
<1>2. /\ p \in Session /\ p.got = r.got + Len(frames)
      /\ p.state = r.state /\ p.outbound = r.outbound
      /\ p.inbound = r.inbound /\ p.held = r.held
      /\ p.peer = r.peer /\ p.over = r.over
  BY <1>1, PastFields
<1>3. Own(p, linked) /\ SendsAs(r, p)
  BY <1>1, PastOwn
<1>4. ReadFrames(r, frames) \in {p, Dispose(p, "goodbye")}
  BY ReadFramesReads
<1> HIDE DEF p
<1>5. CASE ReadFrames(r, frames) = p
  <2> DEFINE e == <<>>
  <2>1. e \in Seq(Messages) /\ Len(e) = 0 /\ e = <<>>
    OBVIOUS
  <2> HIDE DEF e
  <2>2. p.got + Len(e) = r.got + Len(frames) /\ p.got + Len(e) + Len(p.held) = r.got + Len(frames)
    BY <1>1, <1>2, <2>1
  <2>3. Cut(p, e, f, o)
    BY <1>2, <2>1, <2>2, InPlaceNone DEF Cut
  <2>4. InPlace(e, p.got)
    BY <2>1, InPlaceNone
  <2>5. Stream(p, e, f, o)
    BY <2>3, <2>4 DEF Stream
  <2>6. Fate(r, p, o)
    BY <1>2 DEF Fate, Live
  <2>7. Handles(r, p, e, f, o, linked)
    BY <1>2, <1>3, <2>5, <2>6 DEF Handles
  <2> QED
    BY <1>5, <2>1, <2>7
<1>6. CASE ReadFrames(r, frames) = Dispose(p, "goodbye")
  <2> DEFINE n == Dispose(p, "goodbye")
             e == <<>>
  <2>1. "goodbye" \in Reasons \ {"live", "order"}
    BY DEF Reasons
  <2>2. Handles(p, n, e, f, o, linked)
    BY <1>2, <1>3, <2>1, DisposeHandles
  <2>3. Handles(r, n, e, f, o, linked)
    <3> HIDE DEF n, e
    <3> QED
      BY <1>2, <1>3, <2>2, HandlesAfter
  <2> QED
    BY <1>6, <2>3
<1> QED
  BY <1>4, <1>5, <1>6

\* Where the frames o sent by the channel are, when one is on the wire or the
\* switch is the next message on the relay.
LEMMA CutPlaces ==
    ASSUME NEW r \in Session, NEW o \in Session, NEW q \in Seq(Messages),
           NEW w \in Seq(Messages), Cut(r, q, w, o), r.peer \in Receiving
    PROVE  LET base == r.got + Len(q)
           IN  /\ base \in Nat /\ InPlace(r.held, base) /\ InPlace(w, base + Len(r.held))
               /\ InPlace(o.buffer, base + Len(r.held) + Len(w))
               /\ InPlace(o.queue, base + Len(r.held) + Len(w) + Len(o.buffer))
               /\ Live(o) =>
                     o.sent = base + Len(r.held) + Len(w) + Len(o.buffer) + Len(o.queue)
<1>1. r.got \in Nat
  BY DEF Session
<1> QED
  BY <1>1 DEF Cut

\* The peer's switch is read: what was held follows it.
LEMMA SwitchHandles ==
    ASSUME NEW r \in Session, NEW o \in Session, NEW q \in Seq(Messages),
           NEW w \in Seq(Messages), NEW linked \in BOOLEAN,
           Own(r, linked), Own(o, linked), Stream(r, q, w, o), Live(r), q # <<>>,
           Head(q).kind = "switch"
    PROVE  Handles(r, OnSwitch(Past(r, 1)), Tail(q), w, o, linked)
<1> DEFINE p == Past(r, 1)
           e == Tail(q)
<1>1. Len(q) \in Nat /\ Len(q) > 0 /\ 1 \in 1..Len(q) /\ q[1].kind = "switch"
  OBVIOUS
<1>2. o.outbound = "direct"
  BY <1>1 DEF Stream, Relayed, Session
<1>3. Cut(r, q, w, o) /\ r.inbound = "relay"
  BY <1>2, FirstRelayed DEF Stream
<1>4. Len(q) = 1 /\ e = <<>>
  <2>1. 1 = Len(q)
    BY <1>1, <1>3 DEF Cut
  <2>2. e \in Seq(Messages) /\ Len(e) = 0
    BY <2>1
  <2> HIDE DEF e
  <2>3. e = <<>>
    BY <2>2
  <2> QED
    BY <2>1, <2>3
<1>5. linked /\ r.peer \notin {"none", "describing"} /\ r.state # "idle"
  BY <1>2 DEF Own
<1>6. /\ p \in Session /\ p.got = r.got + 1 /\ p.state = r.state /\ p.outbound = r.outbound
      /\ p.inbound = r.inbound /\ p.held = r.held /\ p.peer = r.peer /\ p.over = r.over
      /\ p.buffer = r.buffer /\ p.queue = r.queue /\ p.sent = r.sent
  BY PastFields
<1>7. Own(p, linked) /\ SendsAs(r, p) /\ Live(p)
  BY <1>6, PastOwn DEF Live
<1> HIDE DEF p, e
<1>8. CASE r.state = "abandoned"
  <2>1. OnSwitch(p) = Dispose(p, "path")
    BY <1>6, <1>8 DEF OnSwitch
  <2>2. "path" \in Reasons \ {"live", "order"}
    BY DEF Reasons
  <2>3. Handles(p, Dispose(p, "path"), e, w, o, linked)
    BY <1>2, <1>6, <1>7, <2>2, DisposeHandles
  <2>4. Handles(r, Dispose(p, "path"), e, w, o, linked)
    BY <1>6, <1>7, <2>3, HandlesAfter
  <2> QED
    BY <2>1, <2>4 DEF p, e
<1>9. CASE r.state = "attempting"
  <2> DEFINE s == [p EXCEPT !.inbound = "direct", !.held = <<>>]
  <2>1. OnSwitch(p) = ReadFrames(s, r.held)
    BY <1>6, <1>9 DEF OnSwitch
  <2>2. r.peer \in {"negotiating", "ready", "open"} /\ r.peer \in Receiving
    BY <1>5, <1>9 DEF Own, Receiving
  <2>3. s \in Session /\ s.inbound = "direct" /\ s.held = <<>>
    <3>1. <<>> \in Seq(Messages)
      OBVIOUS
    <3>2. s \in Session
      BY <1>6, <3>1 DEF Session
    <3>3. s.inbound = "direct" /\ s.held = <<>>
      BY <1>6 DEF Session
    <3> QED
      BY <3>2, <3>3
  <2>4. /\ s.got = r.got + 1 /\ s.state = r.state /\ s.outbound = r.outbound
        /\ s.peer = r.peer /\ s.over = r.over
        /\ s.buffer = r.buffer /\ s.queue = r.queue /\ s.sent = r.sent
    BY <1>6 DEF Session
  <2> HIDE DEF s
  <2>5. Own(s, linked) /\ Live(s)
    BY <1>9, <2>4 DEF Own, Live, Switched
  <2>6. SendsAs(r, s)
    BY <2>4, StillSendsAs DEF Live
  <2>7. /\ r.held \in Seq(Messages) /\ r.got \in Nat
        /\ InPlace(r.held, s.got) /\ InPlace(w, s.got + Len(r.held))
        /\ InPlace(o.buffer, s.got + Len(r.held) + Len(w))
        /\ InPlace(o.queue, s.got + Len(r.held) + Len(w) + Len(o.buffer))
        /\ Live(o) =>
              o.sent = s.got + Len(r.held) + Len(w) + Len(o.buffer) + Len(o.queue)
    <3>1. s.got = r.got + Len(q)
      BY <1>4, <2>4
    <3>2. r.held \in Seq(Messages) /\ r.got \in Nat
      BY DEF Session
    <3> QED
      BY <1>3, <2>2, <3>1, <3>2, CutPlaces
  <2>8. Handles(s, ReadFrames(s, r.held), <<>>, w, o, linked)
    BY <1>2, <2>2, <2>3, <2>4, <2>5, <2>7, ReadFramesHandles
  <2> DEFINE n == ReadFrames(s, r.held)
  <2> HIDE DEF n
  <2>9. Handles(s, n, e, w, o, linked)
    BY <1>4, <2>8 DEF n
  <2>10. Handles(r, n, e, w, o, linked)
    BY <2>4, <2>6, <2>9, HandlesAfter
  <2> QED
    BY <2>1, <2>10 DEF n, p, e
<1> QED
  BY <1>5, <1>8, <1>9 DEF Session

\* A frame off the channel: read after the switch, held before it.
LEMMA FrameHandles ==
    ASSUME NEW r \in Session, NEW o \in Session, NEW q \in Seq(Messages),
           NEW w \in Seq(Messages), NEW linked \in BOOLEAN,
           Own(r, linked), Stream(r, q, w, o), Live(r), r.peer = "open", w # <<>>
    PROVE  Handles(r, OnFrame(r, Head(w)), q, Tail(w), o, linked)
<1> DEFINE m == Head(w)
           t == Tail(w)
           base == r.got + Len(q)
           b == base + Len(r.held)
<1>1. o.outbound = "direct" /\ Cut(r, q, w, o) /\ InPlace(q, r.got)
  BY DEF Stream, Relayed, Session
<1>2. r.peer \in Receiving
  BY DEF Receiving
<1>3. /\ base \in Nat /\ InPlace(r.held, base) /\ InPlace(w, b)
      /\ InPlace(o.buffer, b + Len(w)) /\ InPlace(o.queue, b + Len(w) + Len(o.buffer))
      /\ Live(o) => o.sent = b + Len(w) + Len(o.buffer) + Len(o.queue)
  BY <1>1, <1>2, CutPlaces
<1>4. r.held \in Seq(Messages) /\ r.got \in Nat /\ b \in Nat /\ Len(r.held) \in Nat
  <2>1. r.held \in Seq(Messages) /\ r.got \in Nat
    BY DEF Session
  <2> QED
    BY SMTT(30), <1>3, <2>1
<1>5. /\ t \in Seq(Messages) /\ Len(t) = Len(w) - 1 /\ Len(w) > 0 /\ Len(w) \in Nat
      /\ m \in Messages /\ m.n = b + 1 /\ InPlace(t, b + 1)
  <2> HIDE DEF b
  <2> QED
    BY <1>3, <1>4, InPlaceTail
<1> HIDE DEF m, t
<1>6. /\ b + 1 + Len(t) = b + Len(w)
      /\ InPlace(o.buffer, b + 1 + Len(t)) /\ InPlace(o.queue, b + 1 + Len(t) + Len(o.buffer))
      /\ Live(o) => o.sent = b + 1 + Len(t) + Len(o.buffer) + Len(o.queue)
  <2> HIDE DEF b
  <2>1. b + 1 + Len(t) = b + Len(w)
    BY <1>4, <1>5
  <2> QED
    BY <1>3, <2>1
<1>7. CASE r.inbound = "direct"
  <2> DEFINE frames == <<m>>
  <2>1. q = <<>> /\ r.held = <<>>
    BY <1>1, <1>7 DEF Cut
  <2>2. b = r.got
    BY <1>4, <2>1
  <2>3. frames \in Seq(Messages) /\ Len(frames) = 1 /\ frames[1] = m
    BY <1>5
  <2>4. OnFrame(r, m) = ReadFrames(r, frames)
    BY <1>7 DEF OnFrame
  <2> HIDE DEF frames, b
  <2>5. InPlace(frames, r.got)
    BY <1>5, <2>2, <2>3 DEF InPlace
  <2>6. /\ InPlace(t, r.got + Len(frames))
        /\ InPlace(o.buffer, r.got + Len(frames) + Len(t))
        /\ InPlace(o.queue, r.got + Len(frames) + Len(t) + Len(o.buffer))
        /\ Live(o) => o.sent = r.got + Len(frames) + Len(t) + Len(o.buffer) + Len(o.queue)
    BY <1>5, <1>6, <2>2, <2>3
  <2> DEFINE n == ReadFrames(r, frames)
             e == <<>>
  <2>7. Handles(r, n, e, t, o, linked)
    BY <1>1, <1>2, <1>5, <1>7, <2>1, <2>3, <2>5, <2>6, ReadFramesHandles
  <2>8. e = q /\ n = OnFrame(r, m)
    BY <2>1, <2>4
  <2> HIDE DEF n, e
  <2>9. Handles(r, OnFrame(r, m), q, t, o, linked)
    BY <2>7, <2>8
  <2> QED
    BY <2>9 DEF m, t
<1>8. CASE r.inbound = "relay" /\ Len(r.held) < HeldFrames
  <2> DEFINE n == [r EXCEPT !.held = Append(@, m)]
  <2>1. OnFrame(r, m) = n
    BY <1>8 DEF OnFrame
  <2>2. /\ Append(r.held, m) \in Seq(Messages) /\ Len(Append(r.held, m)) = Len(r.held) + 1
        /\ InPlace(Append(r.held, m), base)
    <3>1. m.n = base + Len(r.held) + 1
      BY <1>5
    <3> HIDE DEF base, b
    <3> QED
      BY <1>3, <1>4, <1>5, <3>1, InPlaceAppend
  <2>3. n \in Session /\ n.held = Append(r.held, m)
    BY <2>2 DEF Session
  <2>4. /\ n.got = r.got /\ n.state = r.state /\ n.outbound = r.outbound
        /\ n.inbound = r.inbound /\ n.peer = r.peer /\ n.over = r.over
        /\ n.buffer = r.buffer /\ n.queue = r.queue /\ n.sent = r.sent
    BY DEF Session
  <2> HIDE DEF n
  <2>5. Own(n, linked) /\ Live(n)
    BY <2>4 DEF Own, Live, Switched
  <2>6. SendsAs(r, n) /\ Fate(r, n, o)
    BY <1>1, <2>4, <2>5, StillSendsAs DEF Fate, Live
  <2>7. base + Len(n.held) = b + 1
    <3>1. Len(n.held) = Len(r.held) + 1
      BY <2>2, <2>3
    <3> HIDE DEF base
    <3>2. \A x \in Nat : base + (x + 1) = (base + x) + 1
      BY <1>3
    <3> QED
      BY <1>4, <3>1, <3>2
  <2>8. Cut(n, q, t, o)
    <3> DEFINE c == base + Len(n.held)
    <3>1. /\ InPlace(n.held, base) /\ InPlace(t, c) /\ InPlace(o.buffer, c + Len(t))
          /\ InPlace(o.queue, c + Len(t) + Len(o.buffer))
          /\ Live(o) => o.sent = c + Len(t) + Len(o.buffer) + Len(o.queue)
      <4> HIDE DEF b, base
      <4> QED
        BY <1>5, <1>6, <2>2, <2>3, <2>7
    <3>2. /\ n.inbound = "relay" /\ q # <<>>
          /\ \A i \in 1..Len(q) : q[i].kind = "switch" <=> i = Len(q)
      BY <1>1, <1>8, <2>4 DEF Cut
    <3> QED
      BY <2>4, <3>1, <3>2 DEF Cut
  <2>9. Stream(n, q, t, o) /\ n.peer \in Receiving
    BY <1>1, <1>2, <2>4, <2>8 DEF Stream
  <2>10. Handles(r, n, q, t, o, linked)
    BY <2>3, <2>5, <2>6, <2>9 DEF Handles
  <2> QED
    BY <2>1, <2>10 DEF m, t
<1>9. CASE r.inbound = "relay" /\ ~(Len(r.held) < HeldFrames)
  <2>1. OnFrame(r, m) = Dispose(r, "path")
    BY <1>9 DEF OnFrame
  <2>2. "path" \in Reasons \ {"live", "order"}
    BY DEF Reasons
  <2>3. Handles(r, Dispose(r, "path"), q, t, o, linked)
    BY <1>1, <2>2, DisposeHandles
  <2> QED
    BY <2>1, <2>3 DEF m, t
<1> QED
  BY <1>7, <1>8, <1>9 DEF Session

-----------------------------------------------------------------------------
(* Steps *)

\* What the invariant says of e and of the other end.
LEMMA InvAt ==
    ASSUME PathInv, NEW e \in Ends
    PROVE  /\ end[e] \in Session /\ end[Other(e)] \in Session
           /\ relay[e] \in Seq(Messages) /\ relay[Other(e)] \in Seq(Messages)
           /\ wire[e] \in Seq(Messages) /\ wire[Other(e)] \in Seq(Messages)
           /\ link \in BOOLEAN
           /\ Own(end[e], link) /\ Own(end[Other(e)], link)
           /\ Stream(end[e], relay[e], wire[e], end[Other(e)])
           /\ Stream(end[Other(e)], relay[Other(e)], wire[Other(e)], end[e])
           /\ end[e].over # "order"
<1>1. Other(e) \in Ends /\ Other(Other(e)) = e
  BY EndsPair
<1>2. Stream(end[Other(e)], relay[Other(e)], wire[Other(e)], end[Other(Other(e))])
  BY <1>1 DEF PathInv, StreamInv
<1> QED
  BY <1>1, <1>2 DEF PathInv, TypeOK, OwnInv, StreamInv, InOrder

\* A step of e that leaves it n, p and v on the relay and the channel to it, and x
\* on the relay to the other end.
LEMMA InvKept ==
    ASSUME PathInv, NEW e \in Ends, NEW n \in Session, NEW p \in Seq(Messages),
           NEW v \in Seq(Messages), NEW x \in Seq(Messages), NEW y \in Seq(Messages),
           end' = [end EXCEPT ![e] = n],
           relay' = [relay EXCEPT ![e] = p, ![Other(e)] = x],
           wire' = [wire EXCEPT ![e] = v, ![Other(e)] = y], link' = link,
           Own(n, link), Stream(n, p, v, end[Other(e)]), Stream(end[Other(e)], x, y, n),
           Fate(end[e], n, end[Other(e)])
    PROVE  PathInv'
<1> DEFINE o == Other(e)
<1>1. o \in Ends /\ o # e /\ Other(o) = e /\ \A d \in Ends : d = e \/ d = o
  BY EndsPair
<1> HIDE DEF o
<1>2. /\ end' \in [Ends -> Session] /\ relay' \in [Ends -> Seq(Messages)]
      /\ wire' \in [Ends -> Seq(Messages)] /\ link' \in BOOLEAN
  BY <1>1 DEF PathInv, TypeOK, o
<1>3. /\ end'[e] = n /\ end'[o] = end[o] /\ relay'[e] = p /\ relay'[o] = x
      /\ wire'[e] = v /\ wire'[o] = y
  BY <1>1 DEF PathInv, TypeOK, o
<1>4. TypeOK'
  BY <1>2 DEF TypeOK
<1>5. OwnInv'
  BY <1>1, <1>3 DEF PathInv, OwnInv
<1>6. StreamInv'
  <2>1. Stream(end'[e], relay'[e], wire'[e], end'[Other(e)])
    BY <1>3 DEF o
  <2>2. Stream(end'[o], relay'[o], wire'[o], end'[Other(o)])
    BY <1>1, <1>3 DEF o
  <2> QED
    BY <1>1, <2>1, <2>2 DEF StreamInv
<1>7. InOrder'
  BY <1>1, <1>3 DEF PathInv, InOrder, Fate
<1>8. AttemptIsFree'
  <2>1. ASSUME \E d \in Ends : end[d].outbound = "direct"
        PROVE  \E d \in Ends : end'[d].outbound = "direct"
    BY <1>1, <1>3, <2>1 DEF Fate
  <2>2. CASE n.over = "path"
    BY <1>1, <1>3, <2>1, <2>2 DEF Fate, PathInv, AttemptIsFree, o
  <2>3. CASE n.over # "path"
    BY <1>1, <1>3, <2>1, <2>3 DEF PathInv, AttemptIsFree
  <2> QED
    BY <2>2, <2>3
<1> QED
  BY <1>4, <1>5, <1>6, <1>7, <1>8 DEF PathInv

\* A step that says nothing on the relay.
LEMMA SilentStep ==
    ASSUME PathInv, NEW e \in Ends, NEW n, NEW q \in Seq(Messages), NEW f \in Seq(Messages),
           Step(e, n, <<>>, q, f), link' = link,
           Handles(end[e], n, q, f, end[Other(e)], link)
    PROVE  PathInv'
<1> DEFINE o == Other(e)
           p == IF Live(n) THEN q ELSE <<>>
           v == IF Live(n) /\ n.peer \in Receiving THEN f ELSE <<>>
           x == IF Live(end[o]) THEN relay[o] ELSE <<>>
<1>1. /\ end[e] \in Session /\ end[o] \in Session
      /\ relay[o] \in Seq(Messages) /\ wire[o] \in Seq(Messages)
      /\ Stream(end[o], relay[o], wire[o], end[e])
  BY InvAt
<1>2. /\ n \in Session /\ Own(n, link) /\ SendsAs(end[e], n) /\ Fate(end[e], n, end[o])
      /\ Stream(n, q, IF n.peer \in Receiving THEN f ELSE <<>>, end[o])
  BY DEF Handles
<1>3. [n EXCEPT !.sent = @ + Len(<<>>)] = n
  <2>1. n.sent + Len(<<>>) = n.sent
    BY <1>2 DEF Session
  <2> QED
    BY <1>2, <2>1 DEF Session
<1>4. relay[o] \o Numbered(n, <<>>) = relay[o]
  <2>1. Numbered(n, <<>>) = <<>>
    BY DEF Numbered
  <2> QED
    BY <1>1, <2>1
<1>5. e \in Ends /\ o \in Ends /\ o # e
  BY EndsPair
<1>6. end' = [end EXCEPT ![e] = n]
  BY <1>3 DEF Step
<1>7. relay' = [relay EXCEPT ![e] = p, ![o] = x]
  <2>1. relay' = [relay EXCEPT ![e] = p,
                               ![o] = IF Live(end[o]) THEN @ \o Numbered(n, <<>>) ELSE <<>>]
    BY DEF Step
  <2> HIDE DEF p, o
  <2>2. [relay EXCEPT ![e] = p][o] = relay[o]
    BY <1>5
  <2> QED
    BY <1>4, <2>1, <2>2
<1>8. wire' = [wire EXCEPT ![e] = v, ![o] = wire[o]]
  <2>1. wire' = [wire EXCEPT ![e] = v] /\ wire \in [Ends -> Seq(Messages)]
    BY DEF Step, PathInv, TypeOK
  <2> HIDE DEF v, o
  <2> QED
    BY <1>5, <2>1
<1>9. /\ p \in Seq(Messages) /\ v \in Seq(Messages) /\ x \in Seq(Messages)
      /\ Stream(n, p, v, end[o])
  BY <1>1, <1>2 DEF Stream
<1>10. Stream(end[o], x, wire[o], n)
  <2>1. Stream(end[o], relay[o], wire[o], n)
    BY <1>1, <1>2 DEF SendsAs
  <2> QED
    BY <2>1 DEF Stream
<1> HIDE DEF p, v, x
<1> QED
  BY <1>1, <1>2, <1>6, <1>7, <1>8, <1>9, <1>10, InvKept DEF o

\* A step that says k on the relay.
LEMMA SayingStep ==
    ASSUME PathInv, NEW e \in Ends, NEW r \in Session, NEW k \in Kinds,
           NEW q \in Seq(Messages), NEW f \in Seq(Messages),
           Step(e, r, <<k>>, q, f), link' = link,
           NEW n \in Session, n = [r EXCEPT !.sent = @ + 1],
           Own(n, link), Fate(end[e], n, end[Other(e)]),
           Stream(n, q, IF n.peer \in Receiving THEN f ELSE <<>>, end[Other(e)]),
           Stream(end[Other(e)], Append(relay[Other(e)], [kind |-> k, n |-> r.sent + 1]),
                  wire[Other(e)], n)
    PROVE  PathInv'
<1> DEFINE o == Other(e)
           m == [kind |-> k, n |-> r.sent + 1]
           said == Append(relay[o], m)
           p == IF Live(r) THEN q ELSE <<>>
           v == IF Live(r) /\ r.peer \in Receiving THEN f ELSE <<>>
           x == IF Live(end[o]) THEN said ELSE <<>>
<1>1. /\ end[o] \in Session /\ relay[o] \in Seq(Messages) /\ wire[o] \in Seq(Messages)
  BY InvAt
<1>2. n.over = r.over /\ n.peer = r.peer
  BY DEF Session
<1>3. [r EXCEPT !.sent = @ + Len(<<k>>)] = n
  <2>1. Len(<<k>>) = 1
    OBVIOUS
  <2> QED
    BY <2>1
<1>4. m \in Messages /\ said \in Seq(Messages) /\ relay[o] \o Numbered(r, <<k>>) = said
  <2>1. m \in Messages
    BY DEF Messages, Session
  <2>2. Numbered(r, <<k>>) = <<m>>
    <3>1. DOMAIN <<k>> = {1} /\ <<k>>[1] = k
      OBVIOUS
    <3>2. Numbered(r, <<k>>) = [i \in {1} |-> [kind |-> <<k>>[i], n |-> r.sent + i]]
      BY <3>1 DEF Numbered
    <3>3. Numbered(r, <<k>>) = [i \in {1} |-> m]
      BY <3>1, <3>2
    <3>4. <<m>> = [i \in {1} |-> m]
      OBVIOUS
    <3> QED
      BY <3>3, <3>4
  <2> HIDE DEF m, o
  <2> QED
    BY <1>1, <2>1, <2>2, ConcatOne
<1>5. e \in Ends /\ o \in Ends /\ o # e
  BY EndsPair
<1>6. end' = [end EXCEPT ![e] = n]
  BY <1>3 DEF Step
<1>7. relay' = [relay EXCEPT ![e] = p, ![o] = x]
  <2>1. relay' = [relay EXCEPT ![e] = p,
                               ![o] = IF Live(end[o]) THEN @ \o Numbered(r, <<k>>) ELSE <<>>]
    BY DEF Step
  <2> HIDE DEF p, o, said
  <2>2. [relay EXCEPT ![e] = p][o] = relay[o]
    BY <1>5
  <2> QED
    BY <1>4, <2>1, <2>2
<1>8. wire' = [wire EXCEPT ![e] = v, ![o] = wire[o]]
  <2>1. wire' = [wire EXCEPT ![e] = v] /\ wire \in [Ends -> Seq(Messages)]
    BY DEF Step, PathInv, TypeOK
  <2> HIDE DEF v, o
  <2> QED
    BY <1>5, <2>1
<1>9. /\ p \in Seq(Messages) /\ v \in Seq(Messages) /\ x \in Seq(Messages)
  <2> HIDE DEF said
  <2> QED
    BY <1>4
<1>10. Stream(n, p, v, end[o])
  BY <1>2 DEF Stream, Live
<1>11. Stream(end[o], x, wire[o], n)
  <2>1. Stream(end[o], said, wire[o], n)
    OBVIOUS
  <2> HIDE DEF said, o
  <2> QED
    BY <2>1 DEF Stream
<1> HIDE DEF p, v, x
<1> QED
  BY <1>1, <1>6, <1>7, <1>8, <1>9, <1>10, <1>11, InvKept DEF o

\* A handler's last word on the relay, other than the switch.
LEMMA HandledStep ==
    ASSUME PathInv, NEW e \in Ends, NEW r \in Session, NEW k \in Kinds, k # "switch",
           NEW q \in Seq(Messages), NEW f \in Seq(Messages),
           Step(e, r, <<k>>, q, f), link' = link, r.outbound = "relay",
           Handles(end[e], r, q, f, end[Other(e)], link)
    PROVE  PathInv'
<1> DEFINE n == [r EXCEPT !.sent = @ + 1]
           o == Other(e)
<1>1. /\ end[o] \in Session /\ relay[o] \in Seq(Messages) /\ wire[o] \in Seq(Messages)
      /\ Stream(end[o], relay[o], wire[o], end[e])
  BY InvAt
<1>2. n \in Session /\ n.sent = r.sent + 1
  <2>1. r.sent + 1 \in Nat
    BY DEF Session
  <2> QED
    BY <2>1 DEF Session
<1>3. /\ n.got = r.got /\ n.state = r.state /\ n.outbound = r.outbound
      /\ n.inbound = r.inbound /\ n.peer = r.peer /\ n.over = r.over
      /\ n.buffer = r.buffer /\ n.queue = r.queue /\ n.held = r.held
  BY DEF Session
<1>4. n = [r EXCEPT !.sent = @ + 1]
  OBVIOUS
<1> HIDE DEF n
<1>5. Own(n, link) /\ Fate(end[e], n, end[o])
  BY <1>3 DEF Handles, Own, Fate, Live, Switched
<1>6. Stream(n, q, IF n.peer \in Receiving THEN f ELSE <<>>, end[o])
  BY <1>3 DEF Handles, Stream, Relayed, Cut, Live
<1>7. Stream(end[o], relay[o], wire[o], r)
  BY <1>1 DEF Handles, SendsAs
<1>8. Stream(end[o], Append(relay[o], [kind |-> k, n |-> r.sent + 1]), wire[o], n)
  BY <1>1, <1>2, <1>3, <1>7, SaysMore
<1> QED
  BY <1>2, <1>4, <1>5, <1>6, <1>8, SayingStep DEF o

-----------------------------------------------------------------------------
(* The attempt begins *)

LEMMA IdleUnlinked ==
    ASSUME NEW r \in Session, NEW o \in Session, NEW q, NEW w, NEW linked \in BOOLEAN,
           Own(r, linked), Own(o, linked), Stream(r, q, w, o), Live(r),
           r.peer \in {"none", "describing"}
    PROVE  ~linked /\ r.outbound = "relay" /\ r.inbound = "relay" /\ o.outbound = "relay"
<1>1. ~linked /\ r.outbound = "relay" /\ o.outbound = "relay"
  BY DEF Own, Session
<1> QED
  BY <1>1 DEF Stream, Relayed

\* The attempt that cannot be begun is given up as if it had not been.
LEMMA GiveUpBegun ==
    ASSUME NEW r \in Session, r.peer = "none", ~Switched(r)
    PROVE  GiveUp([r EXCEPT !.state = "attempting"]) = GiveUp(r)
<1> DEFINE b == [r EXCEPT !.state = "attempting"]
<1>1. b.peer = "none" /\ ~Switched(b)
  BY DEF Session, Switched
<1>2. GiveUp(b) = [b EXCEPT !.state = "abandoned", !.held = <<>>]
  BY <1>1 DEF GiveUp, ClosePeer
<1>3. GiveUp(r) = [r EXCEPT !.state = "abandoned", !.held = <<>>]
  BY DEF GiveUp, ClosePeer
<1>4. [b EXCEPT !.state = "abandoned", !.held = <<>>]
         = [r EXCEPT !.state = "abandoned", !.held = <<>>]
  BY DEF Session
<1> QED
  BY <1>2, <1>3, <1>4

LEMMA BeginHandles ==
    ASSUME NEW r \in Session, NEW n \in Session, NEW o \in Session, NEW q \in Seq(Messages),
           NEW w \in Seq(Messages), NEW linked \in BOOLEAN,
           Own(r, linked), Own(o, linked), Stream(r, q, w, o), Live(r), r.state = "idle",
           n.state = "attempting", n.peer = "describing", n.over = r.over,
           n.outbound = r.outbound, n.sent = r.sent, n.buffer = r.buffer, n.queue = r.queue,
           n.got = r.got, n.inbound = r.inbound, n.held = r.held
    PROVE  Handles(r, n, q, w, o, linked)
<1>1. r.peer = "none"
  BY DEF Own
<1>2. ~linked /\ r.outbound = "relay"
  BY <1>1, IdleUnlinked
<1>3. Own(n, linked) /\ Live(n)
  BY <1>2 DEF Own, Live
<1>4. n.peer \notin Receiving
  BY DEF Receiving
<1> QED
  BY <1>3, <1>4, StillHandles

LEMMA OfferKeeps ==
    ASSUME PathInv, Offer
    PROVE  PathInv'
<1> DEFINE e == "client"
           r == end[e]
           begun == [r EXCEPT !.state = "attempting"]
<1>1. e \in Ends
  BY DEF Ends
<1>2. PICK built \in BOOLEAN :
         Step(e, IF built THEN [begun EXCEPT !.peer = "describing"] ELSE GiveUp(begun),
              <<>>, relay[e], wire[e])
  BY DEF Offer
<1>3. Live(r) /\ r.state = "idle" /\ link' = link
  BY DEF Offer
<1> HIDE DEF e
<1>4. /\ r \in Session /\ end[Other(e)] \in Session
      /\ relay[e] \in Seq(Messages) /\ wire[e] \in Seq(Messages) /\ link \in BOOLEAN
      /\ Own(r, link) /\ Own(end[Other(e)], link)
      /\ Stream(r, relay[e], wire[e], end[Other(e)])
  BY <1>1, InvAt
<1>5. CASE built
  <2> DEFINE n == [begun EXCEPT !.peer = "describing"]
  <2> HIDE DEF r
  <2>1. n \in Session
    <3>1. "describing" \in Peers
      BY DEF Peers
    <3> QED
      BY <1>4, <3>1 DEF Session
  <2>2. /\ n.state = "attempting" /\ n.peer = "describing" /\ n.over = r.over
        /\ n.outbound = r.outbound /\ n.sent = r.sent /\ n.buffer = r.buffer
        /\ n.queue = r.queue /\ n.got = r.got /\ n.inbound = r.inbound /\ n.held = r.held
    BY <1>4 DEF Session
  <2>3. Step(e, n, <<>>, relay[e], wire[e])
    BY <1>2, <1>5
  <2> HIDE DEF n
  <2>4. Handles(r, n, relay[e], wire[e], end[Other(e)], link)
    BY <1>3, <1>4, <2>1, <2>2, BeginHandles
  <2> QED
    BY <1>1, <1>3, <1>4, <2>3, <2>4, SilentStep DEF r
<1>6. CASE ~built
  <2> HIDE DEF r
  <2>1. r.peer = "none"
    BY <1>3, <1>4 DEF Own
  <2>2. ~Switched(r)
    BY <1>3, <1>4, <2>1, IdleUnlinked DEF Switched
  <2>3. GiveUp(begun) = GiveUp(r)
    BY <1>4, <2>1, <2>2, GiveUpBegun
  <2>4. Step(e, GiveUp(r), <<>>, relay[e], wire[e])
    BY <1>2, <1>6, <2>3
  <2>5. Handles(r, GiveUp(r), relay[e], wire[e], end[Other(e)], link)
    BY <1>3, <1>4, GiveUpHandles
  <2> QED
    BY <1>1, <1>3, <1>4, <2>4, <2>5, SilentStep DEF r
<1> QED
  BY <1>5, <1>6

LEMMA DescribedKeeps ==
    ASSUME PathInv, NEW e \in Ends, Described(e)
    PROVE  PathInv'
<1> DEFINE r == end[e]
           o == end[Other(e)]
           n == [r EXCEPT !.peer = "negotiating", !.owesAnswer = FALSE]
           k == IF e = "client" THEN "offer" ELSE "answer"
<1>1. Live(r) /\ r.peer = "describing" /\ link' = link
  BY DEF Described
<1>2. Step(e, n, <<k>>, relay[e], wire[e])
  BY DEF Described
<1>3. /\ r \in Session /\ o \in Session
      /\ relay[e] \in Seq(Messages) /\ wire[e] \in Seq(Messages) /\ link \in BOOLEAN
      /\ Own(r, link) /\ Own(o, link)
      /\ Stream(r, relay[e], wire[e], o)
  BY InvAt
<1>4. k \in Kinds /\ k # "switch"
  BY DEF Kinds
<1> HIDE DEF r, o, k
<1>5. n \in Session
  <2>1. "negotiating" \in Peers
    BY DEF Peers
  <2> QED
    BY <1>3, <2>1 DEF Session
<1>6. /\ n.state = r.state /\ n.peer = "negotiating" /\ n.over = r.over
      /\ n.outbound = r.outbound /\ n.sent = r.sent /\ n.buffer = r.buffer
      /\ n.queue = r.queue /\ n.got = r.got /\ n.inbound = r.inbound /\ n.held = r.held
  BY <1>3 DEF Session
<1> HIDE DEF n
<1>7. ~link /\ r.outbound = "relay" /\ o.outbound = "relay"
  BY <1>1, <1>3, IdleUnlinked
<1>8. Own(n, link) /\ Live(n)
  BY <1>1, <1>3, <1>6, <1>7 DEF Own, Live, Switched
<1>9. Handles(r, n, relay[e], wire[e], o, link)
  BY <1>1, <1>3, <1>5, <1>6, <1>7, <1>8, StillHandles
<1> QED
  BY <1>1, <1>2, <1>3, <1>4, <1>5, <1>6, <1>7, <1>9, HandledStep DEF r, o

-----------------------------------------------------------------------------
(* Messages off the relay *)

\* A message that changes nothing but the place of the cipher.
LEMMA SkipHandles ==
    ASSUME NEW r \in Session, NEW o \in Session, NEW q \in Seq(Messages),
           NEW w \in Seq(Messages), NEW linked \in BOOLEAN,
           Own(r, linked), Stream(r, q, w, o), Live(r)
    PROVE  Handles(r, r, q, w, o, linked)
BY StillHandles

\* The offer: an attempt begins here if none has.
LEMMA TakeOfferHandles ==
    ASSUME NEW r \in Session, NEW o \in Session, NEW q \in Seq(Messages),
           NEW w \in Seq(Messages), NEW linked \in BOOLEAN, NEW built \in BOOLEAN,
           Own(r, linked), Own(o, linked), Stream(r, q, w, o), Live(r)
    PROVE  /\ Handles(r, TakeOffer(r, built), q, w, o, linked)
           /\ r.state = "idle" /\ ~built => TakeOffer(r, built).outbound = "relay"
<1>1. CASE r.state # "idle"
  <2>1. TakeOffer(r, built) = r
    BY <1>1 DEF TakeOffer
  <2> QED
    BY <1>1, <2>1, SkipHandles
<1>2. CASE r.state = "idle" /\ built
  <2> DEFINE n == [r EXCEPT !.state = "attempting", !.owesAnswer = TRUE, !.peer = "describing"]
  <2>1. TakeOffer(r, built) = n
    BY <1>2 DEF TakeOffer
  <2>2. n \in Session
    <3>1. "describing" \in Peers
      BY DEF Peers
    <3> QED
      BY <3>1 DEF Session
  <2>3. /\ n.state = "attempting" /\ n.peer = "describing" /\ n.over = r.over
        /\ n.outbound = r.outbound /\ n.sent = r.sent /\ n.buffer = r.buffer
        /\ n.queue = r.queue /\ n.got = r.got /\ n.inbound = r.inbound /\ n.held = r.held
    BY DEF Session
  <2> HIDE DEF n
  <2>4. Handles(r, n, q, w, o, linked)
    BY <1>2, <2>2, <2>3, BeginHandles
  <2> QED
    BY <1>2, <2>1, <2>4
<1>3. CASE r.state = "idle" /\ ~built
  <2>1. r.peer = "none"
    BY <1>3 DEF Own
  <2>2. r.outbound = "relay" /\ ~Switched(r)
    BY <2>1, IdleUnlinked DEF Switched
  <2>3. TakeOffer(r, built) = GiveUp(r)
    BY <1>3, <2>1, <2>2, GiveUpBegun DEF TakeOffer
  <2>4. Handles(r, GiveUp(r), q, w, o, linked)
    BY GiveUpHandles
  <2>5. GiveUp(r).outbound = "relay"
    BY <2>2, OwnBare, GiveUpGone DEF Gone
  <2> QED
    BY <2>3, <2>4, <2>5
<1> QED
  BY <1>1, <1>2, <1>3

\* The answer: the client's peer is ready to connect.
LEMMA AnswerHandles ==
    ASSUME NEW r \in Session, NEW o \in Session, NEW q \in Seq(Messages),
           NEW w \in Seq(Messages), NEW linked \in BOOLEAN,
           Own(r, linked), Stream(r, q, w, o), Live(r)
    PROVE  Handles(r, [r EXCEPT !.peer = IF @ = "negotiating" THEN "ready" ELSE @],
                   q, w, o, linked)
<1>1. CASE r.peer = "negotiating"
  <2> DEFINE n == [r EXCEPT !.peer = "ready"]
  <2>1. n \in Session
    <3>1. "ready" \in Peers
      BY DEF Peers
    <3> QED
      BY <3>1 DEF Session
  <2>2. /\ n.state = r.state /\ n.peer = "ready" /\ n.over = r.over
        /\ n.outbound = r.outbound /\ n.sent = r.sent /\ n.buffer = r.buffer
        /\ n.queue = r.queue /\ n.got = r.got /\ n.inbound = r.inbound /\ n.held = r.held
    BY DEF Session
  <2>3. [r EXCEPT !.peer = IF @ = "negotiating" THEN "ready" ELSE @] = n
    BY <1>1
  <2> HIDE DEF n
  <2>4. Own(n, linked) /\ Live(n)
    BY <1>1, <2>2 DEF Own, Live, Switched
  <2>5. r.peer \in Receiving
    BY <1>1 DEF Receiving
  <2>6. Handles(r, n, q, w, o, linked)
    BY <2>1, <2>2, <2>4, <2>5, StillHandles
  <2> QED
    BY <2>3, <2>6
<1>2. CASE r.peer # "negotiating"
  <2>1. [r EXCEPT !.peer = IF @ = "negotiating" THEN "ready" ELSE @] = r
    BY <1>2 DEF Session
  <2> QED
    BY <2>1, SkipHandles
<1> QED
  BY <1>1, <1>2

LEMMA MessageHandles ==
    ASSUME NEW r \in Session, NEW o \in Session, NEW q \in Seq(Messages),
           NEW w \in Seq(Messages), NEW linked \in BOOLEAN, NEW built \in BOOLEAN,
           Own(r, linked), Own(o, linked), Stream(r, q, w, o), Live(r), q # <<>>
    PROVE  /\ Handles(r, OnMessage(Past(r, 1), Head(q), built), Tail(q), w, o, linked)
           /\ Head(q).kind = "offer" /\ r.state = "idle" /\ ~built =>
                 OnMessage(Past(r, 1), Head(q), built).outbound = "relay"
<1> DEFINE p == Past(r, 1)
           m == Head(q)
           t == Tail(q)
           n == OnMessage(p, m, built)
<1>1. m \in Messages /\ m.kind \in Kinds /\ t \in Seq(Messages)
  <2>1. m \in Messages
    BY FirstRelayed
  <2>2. t \in Seq(Messages)
    OBVIOUS
  <2> HIDE DEF m
  <2> QED
    BY <2>1, <2>2 DEF Messages
<1>2. CASE m.kind = "switch"
  <2>1. n = OnSwitch(p)
    BY <1>2 DEF OnMessage
  <2> HIDE DEF n
  <2>2. Handles(r, n, t, w, o, linked)
    BY <1>2, <2>1, SwitchHandles
  <2> QED
    BY <1>2, <2>2 DEF n
<1>3. CASE m.kind # "switch"
  <2>1. Stream(p, t, w, o)
    BY <1>3, ReadsRelayed
  <2>2. /\ p \in Session /\ p.over = r.over /\ p.state = r.state /\ p.outbound = r.outbound
    BY PastFields
  <2>3. Own(p, linked) /\ SendsAs(r, p) /\ Live(p)
    BY <2>2, PastOwn DEF Live
  <2> HIDE DEF p, m, t
  <2>4. /\ Handles(p, n, t, w, o, linked)
        /\ m.kind = "offer" /\ r.state = "idle" /\ ~built => n.outbound = "relay"
    <3>1. CASE m.kind = "offer"
      <4>1. n = TakeOffer(p, built)
        BY <3>1 DEF OnMessage
      <4> HIDE DEF n
      <4> QED
        BY <1>1, <2>1, <2>2, <2>3, <4>1, TakeOfferHandles
    <3>2. CASE m.kind = "answer"
      <4>1. n = [p EXCEPT !.peer = IF @ = "negotiating" THEN "ready" ELSE @]
        BY <3>2 DEF OnMessage
      <4> HIDE DEF n
      <4>2. Handles(p, n, t, w, o, linked)
        BY <1>1, <2>1, <2>2, <2>3, <4>1, AnswerHandles
      <4> QED
        BY <3>2, <4>2
    <3>3. CASE m.kind = "decline"
      <4>1. n = GiveUp(p)
        BY <3>3 DEF OnMessage
      <4> HIDE DEF n
      <4> QED
        BY <1>1, <2>1, <2>2, <2>3, <3>3, <4>1, GiveUpHandles
    <3>4. CASE m.kind = "goodbye"
      <4>1. n = Dispose(p, "goodbye")
        BY <3>4 DEF OnMessage
      <4>2. "goodbye" \in Reasons \ {"live", "order"}
        BY DEF Reasons
      <4> HIDE DEF n
      <4> QED
        BY <1>1, <2>1, <2>2, <2>3, <3>4, <4>1, <4>2, DisposeHandles
    <3>5. CASE m.kind = "app"
      <4>1. n = p
        BY <3>5 DEF OnMessage
      <4> HIDE DEF n
      <4> QED
        BY <1>1, <2>1, <2>2, <2>3, <3>5, <4>1, SkipHandles
    <3> QED
      BY <1>1, <1>3, <3>1, <3>2, <3>3, <3>4, <3>5 DEF Kinds
  <2> HIDE DEF n
  <2>5. Handles(r, n, t, w, o, linked)
    BY <2>2, <2>3, <2>4, HandlesAfter
  <2> QED
    BY <2>4, <2>5 DEF n, p, m, t
<1> QED
  BY <1>2, <1>3

LEMMA ReceiveRelayKeeps ==
    ASSUME PathInv, NEW e \in Ends, ReceiveRelay(e)
    PROVE  PathInv'
<1> DEFINE r == end[e]
           o == end[Other(e)]
           q == relay[e]
           w == wire[e]
           m == Head(q)
           t == Tail(q)
           declines(built) == m.kind = "offer" /\ r.state = "idle" /\ ~built
<1>1. Live(r) /\ q # <<>> /\ link' = link
  BY DEF ReceiveRelay
<1>2. /\ r \in Session /\ o \in Session /\ q \in Seq(Messages) /\ w \in Seq(Messages)
      /\ link \in BOOLEAN /\ Own(r, link) /\ Own(o, link) /\ Stream(r, q, w, o)
  BY InvAt
<1>3. PICK built \in BOOLEAN :
         Step(e, IF r.inbound = "direct" \/ m.n # r.got + 1 THEN Dispose(r, "order")
                 ELSE OnMessage(Past(r, 1), m, built),
              IF declines(built) THEN <<"decline">> ELSE <<>>, t, w)
  <2>1. (IF m.kind = "offer" THEN BOOLEAN ELSE {TRUE}) \subseteq BOOLEAN
    OBVIOUS
  <2> QED
    BY <2>1 DEF ReceiveRelay, Past
<1> DEFINE n == OnMessage(Past(r, 1), m, built)
<1> HIDE DEF r, o, q, w
<1>4. r.inbound = "relay" /\ m.n = r.got + 1
  BY <1>1, <1>2, FirstRelayed
<1>5. Step(e, n, IF declines(built) THEN <<"decline">> ELSE <<>>, t, w)
  BY <1>3, <1>4
<1>6. Handles(r, n, t, w, o, link) /\ (declines(built) => n.outbound = "relay")
  BY <1>1, <1>2, MessageHandles
<1>7. t \in Seq(Messages)
  BY <1>1, <1>2
<1> HIDE DEF n, t, m
<1>8. n \in Session
  BY <1>6 DEF Handles
<1>9. CASE declines(built)
  <2>1. "decline" \in Kinds
    BY DEF Kinds
  <2>2. Step(e, n, <<"decline">>, t, w)
    BY <1>5, <1>9
  <2> QED
    BY <1>1, <1>2, <1>6, <1>7, <1>8, <1>9, <2>1, <2>2, HandledStep DEF r, o
<1>10. CASE ~declines(built)
  <2>1. Step(e, n, <<>>, t, w)
    BY <1>5, <1>10
  <2> QED
    BY <1>1, <1>2, <1>6, <1>7, <2>1, SilentStep DEF r, o
<1> QED
  BY <1>9, <1>10

LEMMA ReceiveFrameKeeps ==
    ASSUME PathInv, NEW e \in Ends, ReceiveFrame(e)
    PROVE  PathInv'
<1> DEFINE r == end[e]
           w == wire[e]
           t == Tail(w)
           n == OnFrame(r, Head(w))
<1>1. Live(r) /\ r.peer = "open" /\ w # <<>> /\ link' = link /\ Step(e, n, <<>>, relay[e], t)
  BY DEF ReceiveFrame
<1>2. /\ r \in Session /\ end[Other(e)] \in Session
      /\ relay[e] \in Seq(Messages) /\ w \in Seq(Messages) /\ link \in BOOLEAN
      /\ Own(r, link) /\ Stream(r, relay[e], w, end[Other(e)])
  BY InvAt
<1>3. t \in Seq(Messages)
  BY <1>1, <1>2
<1> HIDE DEF r, w
<1>4. Handles(r, n, relay[e], t, end[Other(e)], link)
  BY <1>1, <1>2, FrameHandles
<1> HIDE DEF n, t
<1> QED
  BY <1>1, <1>2, <1>3, <1>4, SilentStep DEF r

-----------------------------------------------------------------------------
(* The channel *)

LEMMA ConnectKeeps ==
    ASSUME PathInv, Connect
    PROVE  PathInv'
<1>1. \A e \in Ends : Own(end[e], TRUE)
  <2> SUFFICES ASSUME NEW e \in Ends PROVE Own(end[e], TRUE)
    OBVIOUS
  <2>1. Own(end[e], link) /\ end[e].peer \in {"ready", "negotiating"}
    BY DEF PathInv, OwnInv, Connect, Ends
  <2> QED
    BY <2>1 DEF Own
<1>2. OwnInv'
  BY <1>1 DEF OwnInv, Connect
<1> QED
  BY <1>2 DEF PathInv, TypeOK, StreamInv, InOrder, AttemptIsFree, Connect

LEMMA OpenKeeps ==
    ASSUME PathInv, NEW e \in Ends, Open(e)
    PROVE  PathInv'
<1> DEFINE r == end[e]
           o == end[Other(e)]
           s == [r EXCEPT !.peer = "open", !.outbound = "direct"]
           n == [s EXCEPT !.sent = @ + 1]
           q == relay[e]
           w == wire[e]
<1>1. link /\ Live(r) /\ r.peer \in {"negotiating", "ready"} /\ link' = link
  BY DEF Open
<1>2. Step(e, s, <<"switch">>, q, w)
  BY DEF Open
<1>3. /\ r \in Session /\ o \in Session /\ q \in Seq(Messages) /\ w \in Seq(Messages)
      /\ relay[Other(e)] \in Seq(Messages) /\ wire[Other(e)] \in Seq(Messages)
      /\ Own(r, link) /\ Stream(r, q, w, o)
      /\ Stream(o, relay[Other(e)], wire[Other(e)], r)
  BY InvAt
<1> HIDE DEF r, o, q, w
<1>4. s \in Session /\ s.sent = r.sent
  <2>1. "open" \in Peers
    BY DEF Peers
  <2> QED
    BY <1>3, <2>1 DEF Session
<1>5. /\ s.state = r.state /\ s.peer = "open" /\ s.over = r.over /\ s.outbound = "direct"
      /\ s.buffer = r.buffer /\ s.queue = r.queue /\ s.got = r.got
      /\ s.inbound = r.inbound /\ s.held = r.held
  BY <1>3 DEF Session
<1> HIDE DEF s
<1>6. n \in Session /\ n.sent = r.sent + 1
  <2>1. s.sent + 1 \in Nat
    BY <1>4 DEF Session
  <2> QED
    BY <1>4, <2>1 DEF Session
<1>7. /\ n.state = r.state /\ n.peer = "open" /\ n.over = r.over /\ n.outbound = "direct"
      /\ n.buffer = r.buffer /\ n.queue = r.queue /\ n.got = r.got
      /\ n.inbound = r.inbound /\ n.held = r.held
  BY <1>4, <1>5 DEF Session
<1>8. n = [s EXCEPT !.sent = @ + 1]
  OBVIOUS
<1> HIDE DEF n
<1>9. r.outbound = "relay" /\ r.buffer = <<>> /\ r.queue = <<>> /\ r.state = "attempting"
  BY <1>1, <1>3 DEF Own, Session
<1>10. Own(n, link) /\ Fate(r, n, o)
  BY <1>1, <1>7, <1>9 DEF Own, Live, Fate
<1>11. n.peer \in Receiving /\ r.peer \in Receiving
  BY <1>1, <1>7 DEF Receiving
<1>12. Stream(n, q, w, o)
  BY <1>1, <1>3, <1>7, <1>11 DEF Stream, Relayed, Cut
<1>13. Stream(o, Append(relay[Other(e)], [kind |-> "switch", n |-> s.sent + 1]),
              wire[Other(e)], n)
  BY <1>3, <1>4, <1>6, <1>7, <1>9, Switches
<1>14. "switch" \in Kinds
  BY DEF Kinds
<1> QED
  BY <1>1, <1>2, <1>3, <1>4, <1>6, <1>8, <1>10, <1>11, <1>12, <1>13, <1>14, SayingStep
  DEF r, o

\* A message goes on the channel: it is queued, or the peer fails and the session
\* with it. s is the record that sends, one place further than r.
LEMMA ChannelSendHandles ==
    ASSUME NEW r \in Session, NEW s \in Session, NEW m \in Messages, NEW linked \in BOOLEAN,
           Own(r, linked), Live(r), r.outbound = "direct", m.n = r.sent + 1,
           s.sent = r.sent + 1, s.outbound = "direct", s.peer = r.peer, s.over # "order",
           s.buffer = r.buffer, s.queue = r.queue
    PROVE  /\ ChannelSend(s, m) \in Session /\ SendsAs(r, ChannelSend(s, m))
           /\ \/ Queued(s, ChannelSend(s, m), m)
              \/ Gone(s, ChannelSend(s, m)) /\ ~Live(ChannelSend(s, m))
                    /\ ChannelSend(s, m).over # "order"
<1> DEFINE n == ChannelSend(s, m)
<1>1. s.peer = "open" /\ Bare(s)
  BY DEF Own, Bare
<1>2. (n \in Session /\ Queued(s, n, m)) \/ n = OnClosed(s)
  BY <1>1, ChannelSendCases
<1> HIDE DEF n
<1>3. CASE n \in Session /\ Queued(s, n, m)
  <2>1. /\ n.outbound = "direct" /\ n.sent = r.sent + 1
        /\ \/ r.queue = <<>> /\ n.queue = <<>> /\ n.buffer = Append(r.buffer, m)
           \/ n.buffer = r.buffer /\ n.queue = Append(r.queue, m)
    BY <1>3 DEF Queued
  <2>2. SendsAs(r, n)
    <3> SUFFICES ASSUME NEW p \in Session, NEW q \in Seq(Messages), NEW w \in Seq(Messages),
                        Stream(p, q, w, r)
                 PROVE  Stream(p, q, w, n)
      BY DEF SendsAs
    <3> QED
      BY <1>3, <2>1, Frames
  <2> QED
    BY <1>3, <2>2 DEF n
<1>4. CASE n = OnClosed(s)
  <2>1. n \in Session /\ Gone(s, n) /\ n.over \in {s.over, "path"}
    BY <1>1, <1>4, OnClosedGone
  <2>2. ~Live(n) /\ n.over # "order"
    BY <2>1 DEF Gone, Switched
  <2>3. n.outbound = "direct" /\ n.buffer = <<>> /\ n.queue = <<>>
    BY <2>1 DEF Gone
  <2>4. SendsAs(r, n)
    <3> SUFFICES ASSUME NEW p \in Session, NEW q \in Seq(Messages), NEW w \in Seq(Messages),
                        Stream(p, q, w, r)
                 PROVE  Stream(p, q, w, n)
      BY DEF SendsAs
    <3> QED
      BY <2>2, <2>3, DeadSends
  <2> QED
    BY <2>1, <2>2, <2>4 DEF n
<1> QED
  BY <1>2, <1>3, <1>4

LEMMA SendKeeps ==
    ASSUME PathInv, NEW e \in Ends, Send(e)
    PROVE  PathInv'
<1> DEFINE c == end[e]
           o == end[Other(e)]
           q == relay[e]
           w == wire[e]
           r == [c EXCEPT !.apps = @ + 1]
           s == [r EXCEPT !.sent = @ + 1]
           m == [kind |-> "app", n |-> r.sent + 1]
<1>1. Live(r) /\ c.apps < MaxApp /\ link' = link
  BY DEF Send
<1>2. IF r.outbound = "relay" THEN Step(e, r, <<"app">>, q, w)
      ELSE Step(e, ChannelSend(s, m), <<>>, q, w)
  BY DEF Send
<1>3. /\ c \in Session /\ o \in Session /\ q \in Seq(Messages) /\ w \in Seq(Messages)
      /\ link \in BOOLEAN /\ Own(c, link) /\ Stream(c, q, w, o)
  BY InvAt
<1>4. "app" \in Kinds /\ "app" # "switch"
  BY DEF Kinds
<1> HIDE DEF c, o, q, w
<1>5. r \in Session
  <2>0. c.apps \in 0..MaxApp
    BY <1>3 DEF Session
  <2>1. c.apps + 1 \in 0..MaxApp
    BY <1>1, <2>0, BoundsAssumption
  <2> QED
    BY <1>3, <2>1 DEF Session
<1>6. /\ r.state = c.state /\ r.peer = c.peer /\ r.over = c.over /\ r.outbound = c.outbound
      /\ r.buffer = c.buffer /\ r.queue = c.queue /\ r.got = c.got
      /\ r.inbound = c.inbound /\ r.held = c.held /\ r.sent = c.sent
  BY <1>3 DEF Session
<1> HIDE DEF r
<1>7. Own(r, link) /\ Live(c)
  BY <1>1, <1>3, <1>6 DEF Own, Live, Switched
<1>8. Handles(c, r, q, w, o, link)
  BY <1>1, <1>3, <1>5, <1>6, <1>7, StillHandles
<1>9. CASE r.outbound = "relay"
  BY <1>1, <1>2, <1>3, <1>4, <1>5, <1>8, <1>9, HandledStep DEF c, o
<1>10. CASE r.outbound = "direct"
  <2> DEFINE n == ChannelSend(s, m)
  <2>1. Step(e, n, <<>>, q, w)
    BY <1>2, <1>10
  <2>2. s \in Session /\ m \in Messages /\ m.n = c.sent + 1
    <3>1. r.sent + 1 \in Nat
      BY <1>5 DEF Session
    <3> QED
      BY <1>4, <1>5, <1>6, <3>1 DEF Session, Messages
  <2>3. /\ s.state = c.state /\ s.peer = c.peer /\ s.over = c.over /\ s.outbound = "direct"
        /\ s.buffer = c.buffer /\ s.queue = c.queue /\ s.got = c.got
        /\ s.inbound = c.inbound /\ s.held = c.held /\ s.sent = c.sent + 1
    BY <1>5, <1>6, <1>10 DEF Session
  <2> HIDE DEF s, m
  <2>4. Own(s, link) /\ s.over # "order" /\ Live(s) /\ c.outbound = "direct"
    BY <1>3, <1>6, <1>7, <1>10, <2>3 DEF Own, Live, Switched
  <2>5. /\ n \in Session /\ SendsAs(c, n)
        /\ \/ Queued(s, n, m)
           \/ Gone(s, n) /\ ~Live(n) /\ n.over # "order"
    BY <1>3, <1>7, <2>2, <2>3, <2>4, ChannelSendHandles
  <2> HIDE DEF n
  <2>6. Handles(c, n, q, w, o, link)
    <3>1. CASE Queued(s, n, m)
      <4>1. /\ n.state = c.state /\ n.peer = c.peer /\ n.over = c.over
            /\ n.outbound = c.outbound /\ n.got = c.got
            /\ n.inbound = c.inbound /\ n.held = c.held
        BY <1>6, <1>10, <2>3, <3>1 DEF Queued
      <4>2. Own(n, link) /\ Fate(c, n, o)
        BY <1>3, <1>6, <1>7, <1>10, <4>1 DEF Own, Live, Switched, Fate
      <4>3. c.peer \in Receiving
        BY <1>3, <1>7, <2>4 DEF Own, Receiving
      <4>4. Stream(n, q, w, o)
        BY <1>3, <1>7, <4>1 DEF Stream, Relayed, Cut
      <4> QED
        BY <2>5, <4>1, <4>2, <4>3, <4>4 DEF Handles
    <3>2. CASE Gone(s, n) /\ ~Live(n) /\ n.over # "order"
      <4>1. Own(n, link)
        BY <1>3, <2>2, <2>4, <2>5, <3>2, GoneOwn
      <4>2. Fate(c, n, o)
        BY <2>3, <3>2 DEF Fate, Gone
      <4> QED
        BY <2>5, <3>2, <4>1, <4>2 DEF Handles, Stream
    <3> QED
      BY <2>5, <3>1, <3>2
  <2> QED
    BY <1>1, <1>3, <2>1, <2>6, SilentStep DEF c, o
<1> QED
  BY <1>5, <1>9, <1>10 DEF Session

\* What the channel lets go of, with or without more of the queue behind it.
LEMMA TransmitLeaves ==
    ASSUME NEW r \in Session, r.buffer # <<>>, NEW low \in Nat, low < BufferHigh,
           NEW left, left = [r EXCEPT !.buffer = Tail(@)],
           NEW n, n = IF Len(left.buffer) = low THEN Drain(left) ELSE left
    PROVE  n \in Session /\ \E k \in Nat : k <= Len(r.queue) /\ Left(r, n, k)
<1> DEFINE t == Tail(r.buffer)
           u == r.queue
<1>1. r.buffer \in Seq(Messages) /\ u \in Seq(Messages)
  BY DEF Session
<1>2. t \in Seq(Messages) /\ Len(u) \in Nat
  BY <1>1
<1> HIDE DEF t
<1>3. left \in Session /\ left.buffer = t /\ left.queue = u
  BY <1>2 DEF Session, t
<1>4. /\ left.state = r.state /\ left.outbound = r.outbound /\ left.inbound = r.inbound
      /\ left.held = r.held /\ left.peer = r.peer /\ left.over = r.over
      /\ left.sent = r.sent /\ left.got = r.got
  BY DEF Session
<1>5. CASE Len(left.buffer) = low
  <2> DEFINE k == Min({Len(u), BufferHigh - Len(t)})
             x == t \o SubSeq(u, 1, k)
             y == SubSeq(u, k + 1, Len(u))
  <2>1. Len(t) = low /\ BufferHigh - Len(t) \in Nat
    BY <1>3, <1>5, BoundsAssumption
  <2>2. k \in Nat /\ k <= Len(u)
    BY <1>2, <2>1, MinOfTwo
  <2>3. n = Drain(left)
    BY <1>5
  <2>4. n = [left EXCEPT !.buffer = x, !.queue = y]
    BY <1>3, <2>3 DEF Drain
  <2> HIDE DEF k
  <2>5. x \in Seq(Messages) /\ y \in Seq(Messages)
    <3>1. SubSeq(u, 1, k) \in Seq(Messages)
      BY <1>1, <2>2
    <3>2. y \in Seq(Messages)
      BY <1>1, <1>2, <2>2
    <3> QED
      BY <1>2, <3>1, <3>2
  <2> HIDE DEF x, y
  <2>6. n \in Session /\ n.buffer = x /\ n.queue = y
    BY <1>3, <2>4, <2>5 DEF Session
  <2>7. /\ n.state = r.state /\ n.outbound = r.outbound /\ n.inbound = r.inbound
        /\ n.held = r.held /\ n.peer = r.peer /\ n.over = r.over
        /\ n.sent = r.sent /\ n.got = r.got
    BY <1>3, <1>4, <2>4 DEF Session
  <2>8. Left(r, n, k)
    BY <2>6, <2>7 DEF Left, x, y, t
  <2> QED
    BY <2>2, <2>6, <2>8
<1>6. CASE Len(left.buffer) # low
  <2>1. n = left
    BY <1>6
  <2>2. SubSeq(u, 1, 0) = <<>> /\ SubSeq(u, 0 + 1, Len(u)) = u
    BY <1>1
  <2>3. t \o SubSeq(u, 1, 0) = t
    BY <1>2, <2>2
  <2>4. Left(r, left, 0)
    BY <1>3, <1>4, <2>2, <2>3 DEF Left, t
  <2>5. 0 \in Nat /\ 0 <= Len(u)
    BY <1>2
  <2> QED
    BY <1>3, <2>1, <2>4, <2>5
<1> QED
  BY <1>5, <1>6

LEMMA TransmitKeeps ==
    ASSUME PathInv, NEW e \in Ends, Transmit(e)
    PROVE  PathInv'
<1> DEFINE r == end[e]
           o == Other(e)
           left == [r EXCEPT !.buffer = Tail(@)]
           low == IF r.peer = "flushing" THEN 0 ELSE BufferLow
           n == IF Len(left.buffer) = low THEN Drain(left) ELSE left
           y == IF Live(end[o]) /\ end[o].peer \in Receiving
                THEN Append(wire[o], Head(r.buffer)) ELSE <<>>
<1>1. /\ r.buffer # <<>> /\ link' = link /\ relay' = relay
      /\ end' = [end EXCEPT ![e] = n]
      /\ wire' = [wire EXCEPT ![o] = y]
  BY DEF Transmit
<1>2. /\ r \in Session /\ end[o] \in Session /\ link \in BOOLEAN
      /\ relay[e] \in Seq(Messages) /\ wire[e] \in Seq(Messages)
      /\ relay[o] \in Seq(Messages) /\ wire[o] \in Seq(Messages)
      /\ Own(r, link) /\ Stream(r, relay[e], wire[e], end[o])
      /\ Stream(end[o], relay[o], wire[o], r) /\ r.over # "order"
  BY InvAt
<1>3. low \in Nat /\ low < BufferHigh
  BY BoundsAssumption
<1>4. e \in Ends /\ o \in Ends /\ o # e
  BY EndsPair
<1> HIDE DEF r, o, low, y
<1>5. n \in Session /\ \E k \in Nat : k <= Len(r.queue) /\ Left(r, n, k)
  BY <1>1, <1>2, <1>3, TransmitLeaves
<1> HIDE DEF n
<1>6. PICK k \in Nat : k <= Len(r.queue) /\ Left(r, n, k)
  BY <1>5
<1>7. r.outbound = "direct"
  BY <1>1, <1>2 DEF Own, Session
<1>8. Stream(end[o], relay[o], y, n)
  BY <1>1, <1>2, <1>5, <1>6, <1>7, Transmits DEF y
<1>9. Own(n, link)
  BY <1>2, <1>6, <1>7 DEF Own, Left, Live, Switched
<1>10. Stream(n, relay[e], wire[e], end[o])
  BY <1>2, <1>6 DEF Stream, Relayed, Cut, Left, Live
<1>11. Fate(r, n, end[o])
  BY <1>2, <1>6 DEF Fate, Left
<1>12. y \in Seq(Messages)
  <2>1. r.buffer \in Seq(Messages)
    BY <1>2 DEF Session
  <2>2. Head(r.buffer) \in Messages
    BY <1>1, <2>1
  <2> QED
    BY <1>2, <2>2 DEF y
<1>13. relay' = [relay EXCEPT ![e] = relay[e], ![o] = relay[o]]
  BY <1>1, <1>4 DEF PathInv, TypeOK
<1>14. wire' = [wire EXCEPT ![e] = wire[e], ![o] = y]
  BY <1>1, <1>4 DEF PathInv, TypeOK
<1> QED
  BY <1>1, <1>2, <1>5, <1>8, <1>9, <1>10, <1>11, <1>12, <1>13, <1>14, InvKept DEF r, o

-----------------------------------------------------------------------------
(* Failures and endings *)

LEMMA FailureKeeps ==
    ASSUME PathInv, NEW e \in Ends, NEW f \in Seq(Messages), link' = link,
           \/ Step(e, OnClosed(end[e]), Declines(end[e]), relay[e], f)
           \/ Step(e, OnClosed(end[e]), <<>>, relay[e], f)
    PROVE  PathInv'
<1> DEFINE r == end[e]
           o == end[Other(e)]
           n == OnClosed(r)
<1>1. /\ r \in Session /\ o \in Session /\ link \in BOOLEAN
      /\ relay[e] \in Seq(Messages) /\ wire[e] \in Seq(Messages)
      /\ Own(r, link) /\ Stream(r, relay[e], wire[e], o) /\ r.over # "order"
  BY InvAt
<1> HIDE DEF r, o
<1>2. Handles(r, n, relay[e], f, o, link)
  BY <1>1, OnClosedHandles
<1>3. n \in Session /\ n.outbound = r.outbound
  BY <1>1, OwnBare, OnClosedGone DEF Gone
<1>4. \/ Step(e, n, <<>>, relay[e], f)
      \/ Step(e, n, <<"decline">>, relay[e], f) /\ r.outbound = "relay"
  BY <1>1 DEF Declines, Switched, Session, r
<1>5. "decline" \in Kinds /\ "decline" # "switch"
  BY DEF Kinds
<1> HIDE DEF n
<1>6. CASE Step(e, n, <<>>, relay[e], f)
  BY <1>1, <1>2, <1>6, SilentStep DEF r, o
<1>7. CASE Step(e, n, <<"decline">>, relay[e], f) /\ r.outbound = "relay"
  BY <1>1, <1>2, <1>3, <1>5, <1>7, HandledStep DEF r, o
<1> QED
  BY <1>4, <1>6, <1>7

LEMMA DisposeKeeps ==
    ASSUME PathInv, NEW e \in Ends, NEW why \in Reasons \ {"live", "order"}, link' = link,
           NEW q \in Seq(Messages), NEW f \in Seq(Messages),
           Step(e, Dispose(end[e], why), <<>>, q, f),
           why = "path" => end[e].outbound = "direct"
    PROVE  PathInv'
<1>1. end[e] \in Session /\ end[Other(e)] \in Session /\ link \in BOOLEAN /\ Own(end[e], link)
  BY InvAt
<1>2. Handles(end[e], Dispose(end[e], why), q, f, end[Other(e)], link)
  BY <1>1, DisposeHandles
<1> QED
  BY <1>2, SilentStep

LEMMA FlushEndsKeeps ==
    ASSUME PathInv, FlushEnds
    PROVE  PathInv'
<1> DEFINE e == "burrow"
           r == end[e]
           o == end[Other(e)]
           n == OnClosed(r)
           none == <<>>
<1>1. e \in Ends /\ none \in Seq(Messages)
  BY DEF Ends
<1>2. r.peer = "flushing" /\ Step(e, ClosePeer(r), <<>>, none, none) /\ link' = link
  BY DEF FlushEnds
<1> HIDE DEF e, none
<1>3. /\ r \in Session /\ o \in Session /\ link \in BOOLEAN
      /\ Own(r, link) /\ r.over # "order"
  BY <1>1, InvAt
<1> HIDE DEF r, o
<1>4. ~Live(r) /\ ClosePeer(r) = n
  BY <1>2, <1>3 DEF Own, OnClosed
<1>5. /\ n \in Session /\ Gone(r, n) /\ n.over \in {r.over, "path"}
      /\ n.over = "path" => r.over = "path" \/ (Live(r) /\ Switched(r))
  BY <1>3, OwnBare, OnClosedGone
<1>6. Step(e, n, <<>>, none, none)
  BY <1>2, <1>4
<1> HIDE DEF n
<1>7. ~Live(n) /\ Fate(r, n, o)
  BY <1>3, <1>4, <1>5 DEF Gone, Fate
<1>8. Handles(r, n, none, none, o, link)
  BY <1>3, <1>5, <1>7, OverHandles
<1> QED
  BY <1>1, <1>2, <1>6, <1>8, SilentStep DEF r, o

LEMMA GoodbyeKeeps ==
    ASSUME PathInv, NEW flush \in BOOLEAN, Goodbye(flush)
    PROVE  PathInv'
<1> DEFINE e == "burrow"
           r == end[e]
           o == end[Other(e)]
           none == <<>>
           m == [kind |-> "goodbye", n |-> r.sent + 1]
           s == [r EXCEPT !.sent = @ + 1, !.over = "goodbye"]
           said == ChannelSend(s, m)
           n == IF flush /\ said.peer = "open"
                THEN [said EXCEPT !.peer = "flushing", !.held = <<>>]
                ELSE Dispose(said, "goodbye")
<1>1. e \in Ends /\ none \in Seq(Messages) /\ "goodbye" \in Kinds
  BY DEF Ends, Kinds
<1>2. Live(r) /\ link' = link
  BY DEF Goodbye
<1>3. IF r.outbound = "relay" THEN Step(e, Dispose(r, "goodbye"), <<"goodbye">>, none, none)
      ELSE Step(e, n, <<>>, none, none)
  BY DEF Goodbye
<1> HIDE DEF e, none
<1>4. r \in Session /\ o \in Session /\ link \in BOOLEAN /\ Own(r, link)
  BY <1>1, InvAt
<1>5. "goodbye" \in Reasons \ {"live", "order"} /\ "goodbye" \in Reasons \ {"live"}
  BY DEF Reasons
<1> HIDE DEF r, o
<1>6. CASE r.outbound = "relay"
  <2>1. Handles(r, Dispose(r, "goodbye"), none, none, o, link)
    BY <1>4, <1>5, DisposeHandles
  <2>2. Dispose(r, "goodbye") \in Session /\ Dispose(r, "goodbye").outbound = "relay"
    BY <1>4, <1>5, <1>6, OwnBare, DisposeGone DEF Gone
  <2> QED
    BY <1>1, <1>2, <1>3, <1>6, <2>1, <2>2, HandledStep DEF r, o
<1>7. CASE r.outbound = "direct"
  <2>1. Step(e, n, <<>>, none, none)
    BY <1>3, <1>7
  <2>2. s \in Session /\ m \in Messages /\ m.n = r.sent + 1
    <3>1. r.sent + 1 \in Nat
      BY <1>4 DEF Session
    <3> QED
      BY <1>1, <1>4, <1>5, <3>1 DEF Session, Messages
  <2>3. /\ s.state = r.state /\ s.peer = r.peer /\ s.over = "goodbye" /\ s.outbound = "direct"
        /\ s.buffer = r.buffer /\ s.queue = r.queue /\ s.got = r.got
        /\ s.inbound = r.inbound /\ s.held = r.held /\ s.sent = r.sent + 1
    BY <1>4, <1>7 DEF Session
  <2> HIDE DEF s, m
  <2>4. r.peer = "open" /\ r.state = "attempting" /\ link
    BY <1>2, <1>4, <1>7 DEF Own
  <2>5. /\ said \in Session /\ SendsAs(r, said)
        /\ \/ Queued(s, said, m)
           \/ Gone(s, said) /\ ~Live(said) /\ said.over # "order"
    BY <1>2, <1>4, <1>7, <2>2, <2>3, ChannelSendHandles
  <2>6. /\ said.outbound = "direct" /\ ~Live(said) /\ said.peer \in {"open", "closed"}
        /\ said.state # "idle"
    BY <2>3, <2>4, <2>5 DEF Queued, Gone, Live
  <2> HIDE DEF said
  <2>7. CASE flush /\ said.peer = "open"
    <3> DEFINE x == [said EXCEPT !.peer = "flushing", !.held = <<>>]
    <3>1. n = x
      BY <2>7
    <3>2. x \in Session
      <4>1. "flushing" \in Peers /\ <<>> \in Seq(Messages)
        BY DEF Peers
      <4> QED
        BY <2>5, <4>1 DEF Session
    <3>3. /\ x.state = said.state /\ x.peer = "flushing" /\ x.over = said.over
          /\ x.outbound = said.outbound /\ x.buffer = said.buffer /\ x.queue = said.queue
          /\ x.sent = said.sent
      BY <2>5 DEF Session
    <3> HIDE DEF x
    <3>4. ~Live(x) /\ Own(x, link)
      BY <2>4, <2>6, <3>3 DEF Own, Live
    <3>5. SendsAs(said, x)
      BY <3>3, <3>4, StillSendsAs
    <3>6. SendsAs(r, x)
      BY <2>5, <3>5, SendsAsTwice
    <3>7. said.over # "order"
      BY <2>3, <2>5 DEF Queued
    <3>8. Fate(r, x, o)
      BY <2>6, <3>3, <3>7 DEF Fate
    <3>9. Handles(r, x, none, none, o, link)
      BY <3>2, <3>4, <3>6, <3>8 DEF Handles, Stream
    <3>10. Step(e, x, <<>>, none, none)
      BY <2>1, <3>1
    <3> QED
      BY <1>1, <1>2, <3>9, <3>10, SilentStep DEF r, o
  <2>8. CASE ~(flush /\ said.peer = "open")
    <3> DEFINE x == Dispose(said, "goodbye")
    <3>1. n = x
      BY <2>8
    <3>2. Bare(said)
      BY <2>6 DEF Bare
    <3>3. x \in Session /\ x.over = "goodbye" /\ ~Live(x) /\ Gone(said, x)
      BY <1>5, <2>5, <3>2, DisposeGone
    <3> HIDE DEF x
    <3>4. SendsAs(r, x)
      BY <2>5, <3>3, GoneSendsAs, SendsAsTwice
    <3>5. Own(x, link)
      BY <2>4, <2>6, <3>3 DEF Own, Gone
    <3>6. Fate(r, x, o)
      BY <2>6, <3>3 DEF Fate, Gone
    <3>7. Handles(r, x, none, none, o, link)
      BY <3>3, <3>4, <3>5, <3>6 DEF Handles, Stream
    <3>8. Step(e, x, <<>>, none, none)
      BY <2>1, <3>1
    <3> QED
      BY <1>1, <1>2, <3>7, <3>8, SilentStep DEF r, o
  <2> QED
    BY <2>7, <2>8
<1> QED
  BY <1>4, <1>6, <1>7 DEF Session

-----------------------------------------------------------------------------
(* The invariant and the theorems *)

LEMMA InitPath ==
    ASSUME Init
    PROVE  PathInv
<1> DEFINE r == [state |-> "idle", outbound |-> "relay", inbound |-> "relay",
                 held |-> <<>>, owesAnswer |-> FALSE, peer |-> "none",
                 queue |-> <<>>, buffer |-> <<>>,
                 over |-> "live", sent |-> 0, got |-> 0, apps |-> 0]
<1>1. r \in Session
  BY BoundsAssumption DEF Session, Peers, Reasons
<1>2. Own(r, FALSE)
  BY DEF Own, Live, Switched
<1>3. Stream(r, <<>>, <<>>, r)
  BY InPlaceNone DEF Stream, Relayed
<1>4. \A e \in Ends : end[e] = r /\ relay[e] = <<>> /\ wire[e] = <<>>
  BY DEF Init
<1>5. link = FALSE /\ \A e \in Ends : Other(e) \in Ends
  BY EndsPair DEF Init
<1>6. TypeOK
  <2>1. end = [e \in Ends |-> r]
    BY DEF Init
  <2> HIDE DEF r
  <2>2. end \in [Ends -> Session]
    BY <1>1, <2>1
  <2>3. relay \in [Ends -> Seq(Messages)] /\ wire \in [Ends -> Seq(Messages)]
    BY DEF Init
  <2> QED
    BY <1>5, <2>2, <2>3 DEF TypeOK
<1>7. r.over = "live"
  OBVIOUS
<1> HIDE DEF r
<1>8. OwnInv /\ StreamInv
  BY <1>2, <1>3, <1>4, <1>5 DEF OwnInv, StreamInv
<1>9. InOrder /\ AttemptIsFree
  BY <1>4, <1>7 DEF InOrder, AttemptIsFree
<1> QED
  BY <1>6, <1>8, <1>9 DEF PathInv

LEMMA NextPath ==
    ASSUME PathInv, [Next]_vars
    PROVE  PathInv'
<1>1. CASE Next
  <2> DEFINE none == <<>>
  <2>1. none \in Seq(Messages)
    OBVIOUS
  <2>2. CASE Offer
    BY <2>2, OfferKeeps
  <2>3. CASE Connect
    BY <2>3, ConnectKeeps
  <2>4. CASE \E flush \in BOOLEAN : Goodbye(flush)
    BY <2>4, GoodbyeKeeps
  <2>5. CASE FlushEnds
    BY <2>5, FlushEndsKeeps
  <2>6. ASSUME NEW e \in Ends, Described(e) PROVE PathInv'
    BY <2>6, DescribedKeeps
  <2>7. ASSUME NEW e \in Ends, ReceiveRelay(e) PROVE PathInv'
    BY <2>7, ReceiveRelayKeeps
  <2>8. ASSUME NEW e \in Ends, Open(e) PROVE PathInv'
    BY <2>8, OpenKeeps
  <2>9. ASSUME NEW e \in Ends, Send(e) PROVE PathInv'
    BY <2>9, SendKeeps
  <2>10. ASSUME NEW e \in Ends, Transmit(e) PROVE PathInv'
    BY <2>10, TransmitKeeps
  <2>11. ASSUME NEW e \in Ends, ReceiveFrame(e) PROVE PathInv'
    BY <2>11, ReceiveFrameKeeps
  <2>12. ASSUME NEW e \in Ends, PeerFails(e) \/ SetupTimeout(e) PROVE PathInv'
    <3>1. /\ Step(e, OnClosed(end[e]), Declines(end[e]), relay[e], wire[e]) /\ link' = link
      BY <2>12 DEF PeerFails, SetupTimeout
    <3>2. wire[e] \in Seq(Messages)
      BY InvAt
    <3> QED
      BY <3>1, <3>2, FailureKeeps
  <2>13. ASSUME NEW e \in Ends, ChannelClosed(e) PROVE PathInv'
    <3>1. /\ Step(e, OnClosed(end[e]), <<>>, relay[e], none) /\ link' = link
      BY <2>13 DEF ChannelClosed
    <3> HIDE DEF none
    <3> QED
      BY <2>1, <3>1, FailureKeeps
  <2>14. ASSUME NEW e \in Ends, HandoffTimeout(e) PROVE PathInv'
    <3>1. /\ end[e].outbound = "direct" /\ link' = link
          /\ Step(e, Dispose(end[e], "path"), <<>>, relay[e], wire[e])
      BY <2>14 DEF HandoffTimeout
    <3>2. relay[e] \in Seq(Messages) /\ wire[e] \in Seq(Messages)
      BY InvAt
    <3>3. "path" \in Reasons \ {"live", "order"}
      BY DEF Reasons
    <3> QED
      BY <3>1, <3>2, <3>3, DisposeKeeps
  <2>15. ASSUME NEW e \in Ends, Drop(e) PROVE PathInv'
    <3>1. Step(e, Dispose(end[e], "dropped"), <<>>, none, none) /\ link' = link
      BY <2>15 DEF Drop
    <3>2. "dropped" \in Reasons \ {"live", "order"}
      BY DEF Reasons
    <3> HIDE DEF none
    <3> QED
      BY <2>1, <3>1, <3>2, DisposeKeeps
  <2> QED
    BY <1>1, <2>2, <2>3, <2>4, <2>5, <2>6, <2>7, <2>8, <2>9, <2>10, <2>11, <2>12,
       <2>13, <2>14, <2>15 DEF Next
<1>2. CASE UNCHANGED vars
  BY <1>2 DEF vars, PathInv, TypeOK, OwnInv, StreamInv, InOrder, AttemptIsFree
<1> QED
  BY <1>1, <1>2

\* Each end's record and what each path carries stay as the invariant says, for
\* every bound.
THEOREM PathHolds == Spec => []PathInv
BY InitPath, NextPath, PTL DEF Spec

\* No message reaches a cipher out of its place, none comes by the relay after a
\* switch was read, and no switch reaches an end that never began: the rules for a
\* peer that misbehaves end no session (#onOpen, #onFrame, onRelayFrame).
THEOREM StreamInOrder == Spec => []InOrder
<1>1. PathInv => InOrder
  BY DEF PathInv
<1> QED
  BY <1>1, PathHolds, PTL

\* A session is lost to its path only after an end has sent its switch, however an
\* attempt fails before that (#giveUp).
THEOREM FailedAttemptIsFree == Spec => []AttemptIsFree
<1>1. PathInv => AttemptIsFree
  BY DEF PathInv
<1> QED
  BY <1>1, PathHolds, PTL

\* An end that has left the relay is one whose peer has read its switch or has it on
\* the way, and an abandoned attempt leaves both directions on the relay
\* (onSwitchDecrypted, abandon).
THEOREM EndsAgree == Spec => []PathsAgree
<1>1. ASSUME PathInv PROVE PathsAgree
  <2> SUFFICES ASSUME NEW e \in Ends, Live(end[e])
               PROVE  /\ end[Other(e)].outbound = "direct" =>
                            \/ end[e].inbound = "direct"
                            \/ \E i \in DOMAIN relay[e] : relay[e][i].kind = "switch"
                      /\ end[e].inbound = "direct" => end[Other(e)].outbound = "direct"
                      /\ end[e].state = "abandoned" => ~Switched(end[e])
    BY DEF PathsAgree
  <2> DEFINE r == end[e]
             o == end[Other(e)]
             q == relay[e]
  <2>1. /\ r \in Session /\ o \in Session /\ q \in Seq(Messages)
        /\ Own(r, link) /\ Stream(r, q, wire[e], o)
    BY <1>1, InvAt
  <2> HIDE DEF r, o, q
  <2>2. Live(r)
    BY DEF r
  <2>3. r.state = "abandoned" => ~Switched(r)
    BY <2>1, <2>2 DEF Own
  <2>4. r.inbound = "direct" => o.outbound = "direct"
    BY <2>1, <2>2 DEF Stream, Relayed, Session
  <2>5. ASSUME o.outbound = "direct", r.inbound = "relay"
        PROVE  \E i \in DOMAIN q : q[i].kind = "switch"
    <3>1. q # <<>> /\ \A i \in 1..Len(q) : q[i].kind = "switch" <=> i = Len(q)
      BY <2>1, <2>2, <2>5 DEF Stream, Cut
    <3>2. Len(q) \in 1..Len(q) /\ DOMAIN q = 1..Len(q)
      BY <2>1, <3>1
    <3> QED
      BY <3>1, <3>2
  <2> QED
    BY <2>1, <2>3, <2>4, <2>5 DEF r, o, q, Session
<1> QED
  BY <1>1, PathHolds, PTL

=============================================================================
