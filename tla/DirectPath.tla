----------------------------- MODULE DirectPath -----------------------------
(* One authorized session's move off the relay onto a WebRTC data channel, at *)
(* both ends: DirectCutover (remote-lib-common/src/security/direct-path.ts),  *)
(* DirectEndpoint and DirectPeer (lib/src/remote/direct/), and what their two *)
(* owners do when the session is over: ClientSessionCore at the client, which *)
(* offers, and EstablishedE2eSession at the burrow, which answers.            *)
(*                                                                            *)
(* A transport message is its kind and its place in its sender's cipher       *)
(* stream; a receiver whose cipher expects another place cannot read it. The  *)
(* relay is a reliable queue in each direction. The channel is external: two  *)
(* connected peers carry frames in order until one of them closes, and what   *)
(* was still on its way to the other may or may not arrive before the close   *)
(* does. The path policy of a Burrow on Local networks, and the direct-only   *)
(* sessions it makes, are not modelled: no policy is held here.               *)
EXTENDS Naturals, Sequences, FiniteSetsExt

CONSTANTS
    MaxApp,        \* bound: application messages one end sends
    HeldFrames,    \* MAX_DIRECT_PENDING_FRAMES, of a receiver
    QueuedFrames,  \* MAX_DIRECT_PENDING_FRAMES, of a sender
    BufferHigh,    \* DIRECT_BUFFER_HIGH, in frames
    BufferLow      \* DIRECT_BUFFER_LOW, in frames

ASSUME BoundsAssumption ==
    /\ MaxApp \in Nat /\ HeldFrames \in Nat /\ QueuedFrames \in Nat
    /\ BufferHigh \in Nat /\ BufferLow \in Nat /\ BufferLow < BufferHigh

VARIABLES
    end,     \* each end's session, endpoint, cutover and peer
    relay,   \* relay[e]: what the relay is carrying to e
    wire,    \* wire[e]: what the channel is carrying to e
    link     \* whether the two peers have ever connected

vars == <<end, relay, wire, link>>

Ends == {"client", "burrow"}

Other(e) == IF e = "client" THEN "burrow" ELSE "client"

Kinds == {"app", "offer", "answer", "decline", "switch", "goodbye"}

Messages == [kind : Kinds, n : Nat]

(* Why a session is over. "path": its channel was lost, or could not be kept  *)
(* up with, after a switch. "order": a rule only a peer that misbehaves can   *)
(* break, or a message out of its place in the cipher stream. "goodbye": the  *)
(* burrow's ending, which it sent or the client read. "dropped": the owner's  *)
(* own ending, which sends nothing.                                           *)
Reasons == {"live", "path", "order", "goodbye", "dropped"}

(* A peer is describing while its description is built, negotiating once that *)
(* is sent, and ready, at the client, once the answer is set.                 *)
Peers == {"none", "describing", "negotiating", "ready", "open", "flushing", "closed"}

Receiving == {"negotiating", "ready", "open"}

(* One end: its cutover, its endpoint, its peer, and its places in the two    *)
(* cipher streams.                                                            *)
Session ==
    [state : {"idle", "attempting", "abandoned"},
     outbound : {"relay", "direct"}, inbound : {"relay", "direct"},
     held : Seq(Messages), owesAnswer : BOOLEAN, peer : Peers,
     queue : Seq(Messages), buffer : Seq(Messages),
     over : Reasons, sent : Nat, got : Nat, apps : 0..MaxApp]

TypeOK ==
    /\ end \in [Ends -> Session]
    /\ relay \in [Ends -> Seq(Messages)]
    /\ wire \in [Ends -> Seq(Messages)]
    /\ link \in BOOLEAN

Init ==
    /\ end = [e \in Ends |-> [state |-> "idle", outbound |-> "relay", inbound |-> "relay",
                              held |-> <<>>, owesAnswer |-> FALSE, peer |-> "none",
                              queue |-> <<>>, buffer |-> <<>>,
                              over |-> "live", sent |-> 0, got |-> 0, apps |-> 0]]
    /\ relay = [e \in Ends |-> <<>>]
    /\ wire = [e \in Ends |-> <<>>]
    /\ link = FALSE

-----------------------------------------------------------------------------
(* What one end's handlers do to its own record r.                           *)

Live(r) == r.over = "live"

Switched(r) == r.outbound = "direct" \/ r.inbound = "direct"

Path(r) == IF r.outbound = "direct" /\ r.inbound = "direct" THEN "direct" ELSE "relay"

(* DirectPeer.close: what was queued or buffered goes with the connection.   *)
ClosePeer(r) ==
    IF r.peer = "none" THEN r
    ELSE [r EXCEPT !.peer = "closed", !.queue = <<>>, !.buffer = <<>>]

(* The session is over and its endpoint disposed.                            *)
Dispose(r, why) == [ClosePeer(r) EXCEPT !.over = why, !.held = <<>>]

\* Mutant: an attempt that fails always ends the session.
GiveUpFatally(r) == Dispose(r, "path")

\* Mutant: a channel lost after a switch is an attempt that failed.
GiveUpQuietly(r) == [ClosePeer(r) EXCEPT !.state = "abandoned", !.held = <<>>]

(* #giveUp: before either direction has switched the attempt is abandoned,   *)
(* after that the session ends with it.                                      *)
GiveUp(r) ==
    IF Switched(r) THEN Dispose(r, "path")
    ELSE [ClosePeer(r) EXCEPT !.state = "abandoned", !.held = <<>>]

(* #onClosed, reached from every #fail of the peer: an end that still owes   *)
(* an answer declines instead. A peer kept for a flush only closes.          *)
OnClosed(r) ==
    IF Live(r) THEN [GiveUp(r) EXCEPT !.owesAnswer = FALSE] ELSE ClosePeer(r)

(* What OnClosed says on the relay: a decline, if the attempt was owed an    *)
(* answer and was only abandoned.                                            *)
Declines(r) == IF Live(r) /\ r.owesAnswer /\ ~Switched(r) THEN <<"decline">> ELSE <<>>

(* DirectPeer.send: once anything is queued, everything queues; a queue that *)
(* is full is a peer that fails.                                             *)
ChannelSend(r, m) ==
    IF r.peer # "open" THEN r
    ELSE IF r.queue = <<>> /\ Len(r.buffer) < BufferHigh
    THEN [r EXCEPT !.buffer = Append(@, m)]
    ELSE IF Len(r.queue) < QueuedFrames
    THEN [r EXCEPT !.queue = Append(@, m)]
    ELSE OnClosed(r)

(* #drain, on bufferedamountlow: as much of the queue as the channel takes.  *)
Drain(r) ==
    LET k == Min({Len(r.queue), BufferHigh - Len(r.buffer)})
    IN  [r EXCEPT !.buffer = @ \o SubSeq(r.queue, 1, k),
                  !.queue = SubSeq(@, k + 1, Len(@))]

(* session.receive on each of frames in turn: a message out of its place     *)
(* does not decrypt, and a goodbye is the last one read.                     *)
ReadFrames(r, frames) ==
    LET inPlace == \A i \in DOMAIN frames : frames[i].n = r.got + i
        bye == \E i \in DOMAIN frames : frames[i].kind = "goodbye"
    IN  IF ~inPlace THEN Dispose(r, "order")
        ELSE IF bye THEN Dispose([r EXCEPT !.got = @ + Len(frames)], "goodbye")
        ELSE [r EXCEPT !.got = @ + Len(frames)]

\* Mutant: a switch to an end that gave up is ignored.
OnSwitchIgnored(r) ==
    IF r.state # "attempting" THEN r
    ELSE ReadFrames([r EXCEPT !.inbound = "direct", !.held = <<>>], r.held)

(* The peer's direct-switch: fatal to an end that abandoned its attempt or   *)
(* never began one, otherwise what was held is read in arrival order.        *)
OnSwitch(r) ==
    IF r.state # "attempting"
    THEN Dispose(r, IF r.state = "idle" THEN "order" ELSE "path")
    ELSE ReadFrames([r EXCEPT !.inbound = "direct", !.held = <<>>], r.held)

\* Mutant: a channel frame is read as it arrives.
OnFrameUnheld(r, m) == ReadFrames(r, <<m>>)

(* #onFrame: read once the peer's switch has been, held until then.          *)
OnFrame(r, m) ==
    IF r.inbound = "direct" THEN ReadFrames(r, <<m>>)
    ELSE IF Len(r.held) < HeldFrames THEN [r EXCEPT !.held = Append(@, m)]
    ELSE Dispose(r, "path")

-----------------------------------------------------------------------------
(* One step of e: its new record, the messages it sends on the relay, and    *)
(* what is left of what the relay and the channel are carrying to it. A      *)
(* session that is over reads nothing more.                                  *)
Numbered(r, kinds) == [i \in DOMAIN kinds |-> [kind |-> kinds[i], n |-> r.sent + i]]

Step(e, r, kinds, relayed, framed) ==
    /\ end' = [end EXCEPT ![e] = [r EXCEPT !.sent = @ + Len(kinds)]]
    /\ relay' = [relay EXCEPT ![e] = IF Live(r) THEN relayed ELSE <<>>,
                              ![Other(e)] = IF Live(end[Other(e)])
                                            THEN @ \o Numbered(r, kinds) ELSE <<>>]
    /\ wire' = [wire EXCEPT ![e] = IF Live(r) /\ r.peer \in Receiving THEN framed ELSE <<>>]

(* establish: the client's one offer, begun as the session is.               *)
Offer ==
    LET r == end["client"]
        begun == [r EXCEPT !.state = "attempting"]
    IN  /\ Live(r) /\ r.state = "idle"
        /\ \E built \in BOOLEAN :
               Step("client", IF built THEN [begun EXCEPT !.peer = "describing"] ELSE GiveUp(begun),
                    <<>>, relay["client"], wire["client"])
        /\ UNCHANGED link

(* The description is built, and goes out in an offer or an answer.          *)
Described(e) ==
    LET r == end[e]
    IN  /\ Live(r) /\ r.peer = "describing"
        /\ Step(e, [r EXCEPT !.peer = "negotiating", !.owesAnswer = FALSE],
                IF e = "client" THEN <<"offer">> ELSE <<"answer">>, relay[e], wire[e])
        /\ UNCHANGED link

(* #answer, on the offer: begin, and a peer, or a decline where there is no  *)
(* peer to build.                                                            *)
TakeOffer(r, built) ==
    IF r.state # "idle" THEN r
    ELSE IF built THEN [r EXCEPT !.state = "attempting", !.owesAnswer = TRUE, !.peer = "describing"]
    ELSE GiveUp([r EXCEPT !.state = "attempting"])

(* One message read off the relay, by its kind.                              *)
OnMessage(r, m, built) ==
    CASE m.kind = "offer"   -> TakeOffer(r, built)
      [] m.kind = "answer"  -> [r EXCEPT !.peer = IF @ = "negotiating" THEN "ready" ELSE @]
      [] m.kind = "decline" -> GiveUp(r)
      [] m.kind = "switch"  -> OnSwitch(r)
      [] m.kind = "goodbye" -> Dispose(r, "goodbye")
      [] OTHER              -> r

(* onRelayFrame: nothing may come this way once the peer has switched.       *)
ReceiveRelay(e) ==
    LET r == end[e]
        m == Head(relay[e])
        read == [r EXCEPT !.got = @ + 1]
    IN  /\ Live(r) /\ relay[e] # <<>>
        /\ \E built \in IF m.kind = "offer" THEN BOOLEAN ELSE {TRUE} :
               Step(e, IF r.inbound = "direct" \/ m.n # r.got + 1 THEN Dispose(r, "order")
                       ELSE OnMessage(read, m, built),
                    IF m.kind = "offer" /\ r.state = "idle" /\ ~built THEN <<"decline">> ELSE <<>>,
                    Tail(relay[e]), wire[e])
        /\ UNCHANGED link

(* The two stacks connect, once each holds the other's description.          *)
Connect ==
    /\ ~link
    /\ end["client"].peer = "ready" /\ end["burrow"].peer = "negotiating"
    /\ link' = TRUE
    /\ UNCHANGED <<end, relay, wire>>

(* #onOpen: the switch is this end's last message on the relay.              *)
Open(e) ==
    LET r == end[e]
    IN  /\ link /\ Live(r) /\ r.peer \in {"negotiating", "ready"}
        /\ Step(e, [r EXCEPT !.peer = "open", !.outbound = "direct"],
                <<"switch">>, relay[e], wire[e])
        /\ UNCHANGED link

(* One application message or keepalive, on whichever path e sends on.       *)
Send(e) ==
    LET r == [end[e] EXCEPT !.apps = @ + 1]
        m == [kind |-> "app", n |-> r.sent + 1]
    IN  /\ Live(r) /\ end[e].apps < MaxApp
        /\ IF r.outbound = "relay"
           THEN Step(e, r, <<"app">>, relay[e], wire[e])
           ELSE Step(e, ChannelSend([r EXCEPT !.sent = @ + 1], m), <<>>, relay[e], wire[e])
        /\ UNCHANGED link

(* The channel lets go of its oldest frame, and at the low-water mark, which *)
(* a flush sets to nothing, takes more of the queue.                         *)
Transmit(e) ==
    LET r == end[e]
        o == Other(e)
        left == [r EXCEPT !.buffer = Tail(@)]
        low == IF r.peer = "flushing" THEN 0 ELSE BufferLow
    IN  /\ r.peer \in {"open", "flushing"} /\ r.buffer # <<>>
        /\ end' = [end EXCEPT ![e] = IF Len(left.buffer) = low THEN Drain(left) ELSE left]
        /\ wire' = [wire EXCEPT ![o] = IF Live(end[o]) /\ end[o].peer \in Receiving
                                       THEN Append(@, Head(r.buffer)) ELSE <<>>]
        /\ UNCHANGED <<relay, link>>

ReceiveFrame(e) ==
    LET r == end[e]
    IN  /\ Live(r) /\ r.peer = "open" /\ wire[e] # <<>>
        /\ Step(e, OnFrame(r, Head(wire[e])), <<>>, relay[e], Tail(wire[e]))
        /\ UNCHANGED link

-----------------------------------------------------------------------------
(* The peer's own failures, and the timers.                                  *)

(* A description that cannot be built, a channel refused or broken, a        *)
(* connection that failed or stayed disconnected. (Sending a signal fails    *)
(* only on a session that is over, and then nothing is left to decline.)     *)
PeerFails(e) ==
    LET r == end[e]
    IN  /\ r.peer \notin {"none", "closed"}
        /\ Step(e, OnClosed(r), Declines(r), relay[e], wire[e])
        /\ UNCHANGED link

\* Mutant: the budget is cleared once the description is sent.
SetupTimeoutCleared(e) ==
    /\ end[e].peer = "describing"
    /\ Step(e, OnClosed(end[e]), Declines(end[e]), relay[e], wire[e])
    /\ UNCHANGED link

(* The setup budget passes with the channel not open.                        *)
SetupTimeout(e) ==
    LET r == end[e]
    IN  /\ r.peer \in {"describing", "negotiating", "ready"}
        /\ Step(e, OnClosed(r), Declines(r), relay[e], wire[e])
        /\ UNCHANGED link

(* The other end closed its half of a connection that was up.                *)
ChannelClosed(e) ==
    LET r == end[e]
    IN  /\ link /\ end[Other(e)].peer = "closed"
        /\ r.peer \in Receiving \cup {"flushing"}
        /\ Step(e, OnClosed(r), <<>>, relay[e], <<>>)
        /\ UNCHANGED link

(* #settle's deadline, armed while e has switched and its peer has not.      *)
HandoffTimeout(e) ==
    LET r == end[e]
    IN  /\ Live(r) /\ r.outbound = "direct" /\ r.inbound = "relay"
        /\ Step(e, Dispose(r, "path"), <<>>, relay[e], wire[e])
        /\ UNCHANGED link

-----------------------------------------------------------------------------
(* Endings the owners choose.                                                *)

(* EstablishedE2eSession.end: the goodbye on whichever path the burrow sends *)
(* on; a switched channel closes once it has left, or at once where the      *)
(* owner is stopping.                                                        *)
Goodbye(flush) ==
    LET r == end["burrow"]
        m == [kind |-> "goodbye", n |-> r.sent + 1]
        said == ChannelSend([r EXCEPT !.sent = @ + 1, !.over = "goodbye"], m)
    IN  /\ Live(r)
        /\ IF r.outbound = "relay"
           THEN Step("burrow", Dispose(r, "goodbye"), <<"goodbye">>, <<>>, <<>>)
           ELSE Step("burrow",
                     IF flush /\ said.peer = "open"
                     THEN [said EXCEPT !.peer = "flushing", !.held = <<>>]
                     ELSE Dispose(said, "goodbye"),
                     <<>>, <<>>, <<>>)
        /\ UNCHANGED link

(* disposeAfterFlush's close: what was sent has left, or the grace is over.  *)
FlushEnds ==
    LET r == end["burrow"]
    IN  /\ r.peer = "flushing"
        /\ Step("burrow", ClosePeer(r), <<>>, <<>>, <<>>)
        /\ UNCHANGED link

(* disposeSession at the client, dispose at the burrow: a socket that        *)
(* dropped, a session replaced, a client or a burrow that is gone.           *)
Drop(e) ==
    /\ Live(end[e])
    /\ Step(e, Dispose(end[e], "dropped"), <<>>, <<>>, <<>>)
    /\ UNCHANGED link

Next ==
    \/ Offer
    \/ Connect
    \/ \E flush \in BOOLEAN : Goodbye(flush)
    \/ FlushEnds
    \/ \E e \in Ends :
          \/ Described(e)
          \/ ReceiveRelay(e)
          \/ Open(e)
          \/ Send(e)
          \/ Transmit(e)
          \/ ReceiveFrame(e)
          \/ PeerFails(e)
          \/ SetupTimeout(e)
          \/ ChannelClosed(e)
          \/ HandoffTimeout(e)
          \/ Drop(e)

(* The relay delivers, every timer fires, and a peer whose other half closed *)
(* is told so: by the close, or by a connection that stays disconnected.     *)
Fairness ==
    /\ WF_vars(FlushEnds)
    /\ \A e \in Ends :
          /\ WF_vars(ReceiveRelay(e))
          /\ WF_vars(SetupTimeout(e))
          /\ WF_vars(ChannelClosed(e))
          /\ WF_vars(HandoffTimeout(e))

Spec == Init /\ [][Next]_vars /\ Fairness
-----------------------------------------------------------------------------
(* Properties.                                                                *)

(* No session between two such ends is ended by the rules for an end that     *)
(* misbehaves: no message reaches a cipher out of its place, none comes by    *)
(* the relay after a switch was read, and no switch reaches an end that never *)
(* began. The switch is a sender's last message on the relay and channel      *)
(* frames wait for it, whichever path is the faster (#onOpen, #onFrame).      *)
InOrder == \A e \in Ends : end[e].over # "order"

(* An attempt costs a relayed session nothing: however it fails, a session is *)
(* lost to the path only after an end has sent its switch (#giveUp).          *)
AttemptIsFree ==
    (\E e \in Ends : end[e].over = "path") => \E d \in Ends : end[d].outbound = "direct"

(* The two ends never disagree silently about a direction: an end that has    *)
(* left the relay is one whose peer has read its switch or has it on the way, *)
(* and an end whose attempt is abandoned sends and reads on the relay         *)
(* (onSwitchDecrypted, abandon).                                              *)
PathsAgree ==
    \A e \in Ends : Live(end[e]) =>
        /\ end[Other(e)].outbound = "direct" =>
              \/ end[e].inbound = "direct"
              \/ \E i \in DOMAIN relay[e] : relay[e][i].kind = "switch"
        /\ end[e].inbound = "direct" => end[Other(e)].outbound = "direct"
        /\ end[e].state = "abandoned" => ~Switched(end[e])

(* An attempt comes to one of two ends, and stays there: the session is live  *)
(* and direct both ways, or the peer connection is gone. No end waits for a   *)
(* channel, or for the peer's switch, forever, and no connection outlives its *)
(* attempt or its session for longer than a goodbye takes to leave            *)
(* (#armSetupTimeout, #settle, #giveUp, dispose, disposeAfterFlush).          *)
PeerSettles ==
    \A e \in Ends :
        end[e].state # "idle" ~>
            \/ Live(end[e]) /\ Path(end[e]) = "direct"
            \/ end[e].peer \in {"none", "closed"}

(* Once an end has switched, the two sessions end together: an end that is    *)
(* over takes the other with it, which otherwise would send to no one. Before *)
(* any switch a dropped session may leave its peer waiting on the relay.      *)
EndsTogether ==
    (/\ \E e \in Ends : ~Live(end[e])
     /\ \E d \in Ends : end[d].outbound = "direct") ~> \A e \in Ends : ~Live(end[e])

=============================================================================
