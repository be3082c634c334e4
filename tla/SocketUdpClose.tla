--------------------------- MODULE SocketUdpClose ---------------------------
(***************************************************************************)
(* How a UDP socket ends.  Each of the two peers has a socket_full_udp_t   *)
(* (neoip_socket/udp/full) over an nlay_full_t stack whose brick           *)
(* nlay_closure_t (neoip_nlay_brick/closure) runs the closing handshake;   *)
(* when the user lets go of the socket, a socket_full_close_udp_t takes    *)
(* it over, lets the reliability layer drain (linger), then closes.        *)
(*                                                                         *)
(* A callback of the event loop runs through all these objects in one go,  *)
(* so the state of a peer is one record and every function of the code is  *)
(* an operator from such a record to the next one.                         *)
(***************************************************************************)
EXTENDS Integers, Sequences

CONSTANTS Peer,        \* the two ends
          Builds,      \* builds of the program: TRUE when DBG_ASSERT is compiled
                       \*   in (the default), FALSE when it is not
          Linger,      \* linger_profile.onoff() of a reliable (RDM) socket
          UserTshold,  \* the user has limited the send buffer and set a
                       \*   MAYSEND threshold that only the empty buffer meets
          ItorDelay, RespDelay, ProbePeriod,  \* nlay_closure_profile_t
          MaxParse,    \* bound: packets in pkt_parse_db
          Lossy,       \* the network may lose packets
          Quits        \* the application may quit (socket_layer_udp_t deleted)

ASSUME CloseAssumption ==
    /\ \E a, b \in Peer : a # b /\ Peer = {a, b}
    /\ {Linger, UserTshold, Lossy, Quits} \cup Builds \subseteq BOOLEAN
    /\ {ItorDelay, RespDelay} \subseteq Nat
    /\ ProbePeriod \in Nat \ {0}
    /\ MaxParse \in Nat \ {0}

VARIABLES peer,    \* the state of each end
          net,     \* closure packets in flight
          lost     \* history: the network has lost a packet

vars == <<peer, net, lost>>

PktType == {"CLOSE_REQUEST", "CLOSE_REPLY", "CLOSE_REPLY_ACK", "CLOSE_NOW"}
Pkt     == [to : Peer, type : PktType]
Other(p) == CHOOSE q \in Peer : q # p

\* Who owns the socket: the user, the close object in one of its three modes,
\* or nobody.  "failed": an assertion aborted the process, or it went on with
\* an object it had deleted.
Phase   == {"open", "lingering", "closing", "autodelete", "gone", "failed"}
Fatal   == {"NONE", "CNX_CLOSED", "IDLE_TIMEDOUT", "REMOTE_PEER_UNREACHABLE",
            "NETWORK_ERROR"}
Failure == {"none", "tokeep", "closure_state", "close_request",
            "destroyed_to_user", "should_linger", "maysend_off", "maysend_on"}

\* A timer_probing_t ends with the first total beyond its delay_end.
MaxDelay == IF ItorDelay > RespDelay THEN ItorDelay ELSE RespDelay

PeerState ==
    [asserts  : BOOLEAN,             \* the build
     phase    : Phase,
     fatal    : Fatal,               \* reported_fatal_event
     closure  : {"NONE", "ITOR", "RESP", "COMPLETED"},
     rxmit    : BOOLEAN,             \* rxmit_timeout is running
     total    : 0 .. MaxDelay,       \* delay_total of its timer_probing_t
     parse    : UNION {[1 .. n -> PktType] : n \in 0 .. MaxParse},        \* pkt_parse_db
     zt_destroyed : BOOLEAN,         \* cnx_destroyed_zerotimer is running
     pending  : BOOLEAN,             \* the send buffer of rdgram is not empty
     tshold   : {"none", "user", "unlimited"},
     zt_maysend : BOOLEAN,
     end      : {"none", "acked", "timedout", "async"},  \* CNX_DESTROYED reason
     failure  : Failure,
     out      : SUBSET PktType]      \* sent by the current callback

Init ==
    /\ \E build \in Builds : peer = [p \in Peer |->
                 [asserts |-> build, phase |-> "open", fatal |-> "NONE", closure |-> "NONE",
                  rxmit |-> FALSE, total |-> 0, parse |-> <<>>,
                  zt_destroyed |-> FALSE, pending |-> FALSE,
                  tshold |-> IF UserTshold THEN "user" ELSE "none",
                  zt_maysend |-> UserTshold, end |-> "none",
                  failure |-> "none", out |-> {}]]
    /\ net = {}
    /\ lost = FALSE

Alive(r)   == r.phase \notin {"gone", "failed"}
CloseObj(r) == r.phase \in {"lingering", "closing", "autodelete"}

Dead(r, ph)   == [r EXCEPT !.phase = ph, !.rxmit = FALSE, !.total = 0,
                           !.parse = <<>>, !.zt_destroyed = FALSE,
                           !.pending = FALSE, !.zt_maysend = FALSE]
Fail(r, why)  == [Dead(r, "failed") EXCEPT !.failure = why]

\* DBG_ASSERT(c) in front of the rest of a function.
Assert(c, r, why, rest) == IF c \/ ~r.asserts THEN rest ELSE Fail(r, why)
-----------------------------------------------------------------------------
(* Starting to close.                                                       *)

\* rdgram_t::stop of the RDM brick: the send buffer is emptied, which may
\* cross the MAYSEND threshold of the user.
RdgramStop(r) == [r EXCEPT !.pending = FALSE,
                           !.zt_maysend = @ \/ (r.pending /\ r.tshold = "user")]

\* timer_probing_t::first and rxmit_timeout.start.
StartRxmit(r) == [r EXCEPT !.rxmit = TRUE, !.total = 0]

\* Mutant: CLOSE_NOW already completed the closure, so nothing is left to do.
ClosureStartSilent(r) ==
    IF r.closure # "NONE" THEN r ELSE StartRxmit([r EXCEPT !.closure = "ITOR"])

\* nlay_closure_t::start_closure.
ClosureStart(r) ==
    CASE r.closure = "RESP"      -> r
      [] r.closure = "COMPLETED" -> [r EXCEPT !.zt_destroyed = TRUE]
      [] OTHER -> Assert(r.closure = "NONE", r, "closure_state",
                         StartRxmit([r EXCEPT !.closure = "ITOR"]))

\* nlay_full_t::stack_start_closure: every brick; reachpeer stops watching, which
\* phase "closing" stands for.
StackStartClosure(r) == IF r.phase = "failed" THEN r
                        ELSE RdgramStop(ClosureStart(r))

\* should_linger.  Only a reliable socket has something pending.  Its own
\* assertions (LingerCause) hold at the call in the constructor, which looks for
\* an unreachable peer first.
LingerCause(r)  == r.fatal \in {"NONE", "IDLE_TIMEDOUT", "CNX_CLOSED"}
ShouldLinger(r) == r.fatal # "CNX_CLOSED" /\ Linger /\ r.pending

\* start_closure, which asserts !should_linger().
CloseStartClosure(r) ==
    Assert(LingerCause(r) /\ ~ShouldLinger(r), r, "should_linger",
           StackStartClosure([r EXCEPT !.phase = "closing"]))

\* start_linger: the limit becomes the length in use; the threshold comes from
\* the getter xmitbuf_maxlen(), which answers UNLIMITED for a limited buffer.
StartLinger(r) == [r EXCEPT !.phase = "lingering", !.tshold = "unlimited",
                            !.zt_maysend = TRUE]

\* ~socket_full_t, then the constructor of socket_full_close_udp_t.
GlueDestruction(r) ==
    IF r.fatal \in {"REMOTE_PEER_UNREACHABLE", "NETWORK_ERROR"}
    THEN [r EXCEPT !.phase = "autodelete"]
    ELSE IF ShouldLinger(r) THEN StartLinger(r) ELSE CloseStartClosure(r)

\* ~socket_full_close_udp_t, ~socket_full_udp_t, ~nlay_full_t with
\* notify_imminent_destroy.
Delete(r) ==
    [Dead(r, "gone") EXCEPT
        !.out = IF r.closure = "COMPLETED" THEN @ ELSE @ \cup {"CLOSE_NOW"}]
-----------------------------------------------------------------------------
(* Events of the stack, as the socket hands them over.                      *)

\* notify_fatal_event.  A user destroys its socket from the callback, and the
\* close object takes over; the close object destroys everything, while
\* notify_fatal_event goes on answering 'tokeep' to the object that notified.
NotifyFatalEvent(r, event) ==
    LET s == [r EXCEPT !.fatal = event]
    IN  IF r.phase = "open" THEN GlueDestruction(s)
        ELSE Fail(Delete(s), "tokeep")

\* The case CNX_DESTROYED of neoip_nlay_full_event_cb: the close object
\* answers with its own destruction.
CnxDestroyed(r, reason) ==
    Assert(CloseObj(r), r, "destroyed_to_user",
           IF CloseObj(r) THEN Delete([r EXCEPT !.end = reason])
           ELSE GlueDestruction(r))

RecvCloseReply(r) ==
    IF r.closure # "ITOR" THEN r
    ELSE CnxDestroyed([r EXCEPT !.closure = "COMPLETED",
                                !.out = @ \cup {"CLOSE_REPLY_ACK"}], "acked")

\* Mutant: the user is not told that the other end is closing.
RecvCloseRequestSilent(r) ==
    CASE r.closure = "RESP" -> r
      [] r.closure = "ITOR" -> RecvCloseReply(r)
      [] OTHER -> StartRxmit([r EXCEPT !.closure = "RESP"])

\* Mutant: a request is an answer to ours or nothing.
RecvCloseRequestIgnored(r) == RecvCloseReply(r)

\* The user closes from inside the notification; then the timer starts.
RecvCloseRequest(r) ==
    CASE r.closure = "RESP" -> r
      [] r.closure = "ITOR" -> RecvCloseReply(r)
      [] OTHER ->
           Assert(r.closure = "NONE", r, "close_request",
                  LET s == NotifyFatalEvent([r EXCEPT !.closure = "RESP"],
                                            "CNX_CLOSED")
                  IN  IF s.phase = "failed" THEN s ELSE StartRxmit(s))

\* Mutant: the end of the exchange is left to the timer.
RecvCloseReplyAckLazy(r) ==
    IF r.closure # "RESP" THEN r ELSE [r EXCEPT !.closure = "COMPLETED"]

RecvCloseReplyAck(r) ==
    IF r.closure # "RESP" THEN r
    ELSE CnxDestroyed([r EXCEPT !.closure = "COMPLETED"], "acked")

\* "whatever the previous state": no answer is expected any more.
RecvCloseNow(r) ==
    NotifyFatalEvent([r EXCEPT !.closure = "COMPLETED", !.rxmit = FALSE,
                               !.total = 0], "CNX_CLOSED")

PktParse(r, type) ==
    CASE type = "CLOSE_REQUEST"   -> RecvCloseRequest(r)
      [] type = "CLOSE_REPLY"     -> RecvCloseReply(r)
      [] type = "CLOSE_REPLY_ACK" -> RecvCloseReplyAck(r)
      [] type = "CLOSE_NOW"       -> RecvCloseNow(r)
-----------------------------------------------------------------------------
(* The callbacks.  Commit puts the new state of p and what it sent in place.*)

Commit(p, r) ==
    /\ peer' = [peer EXCEPT ![p] = [r EXCEPT !.out = {}]]
    /\ net' = net \cup {[to |-> Other(p), type |-> t] : t \in r.out}
    /\ UNCHANGED lost

\* The user deletes its socket_full_t of its own accord.
Close(p) ==
    /\ peer[p].phase = "open"
    /\ Commit(p, GlueDestruction(peer[p]))

\* pkt_from_lower queues the packet; it stays in net as a possible duplicate.
RecvPkt(p, m) ==
    LET r == peer[p]
    IN  /\ m.to = p /\ Alive(r)
        /\ Len(r.parse) < MaxParse
        /\ Commit(p, [r EXCEPT !.parse = Append(@, m.type)])

\* pkt_parse_zerotimer_cb, one packet at a time: the rest of the queue could
\* as well have been received after the first packet was parsed.
ZtPktParse(p) ==
    LET r == peer[p]
    IN  /\ r.parse # <<>>
        /\ Commit(p, PktParse([r EXCEPT !.parse = Tail(@)], Head(r.parse)))

ZtCnxDestroyed(p) ==
    LET r == peer[p]
    IN  /\ r.zt_destroyed
        /\ Commit(p, CnxDestroyed([r EXCEPT !.zt_destroyed = FALSE], "async"))

\* Mutant: the timer policy never finishes.
RxmitTimeoutForever(p) ==
    /\ peer[p].rxmit
    /\ Commit(p, [peer[p] EXCEPT !.total = @ + ProbePeriod,
                                 !.out = {IF peer[p].closure = "ITOR"
                                          THEN "CLOSE_REQUEST" ELSE "CLOSE_REPLY"}])

\* neoip_timeout_expire_cb of nlay_closure_t over timer_probing_t.
RxmitTimeout(p) ==
    LET r   == peer[p]
        end == IF r.closure = "ITOR" THEN ItorDelay ELSE RespDelay
        s   == [r EXCEPT !.out = {IF r.closure = "ITOR" THEN "CLOSE_REQUEST"
                                                        ELSE "CLOSE_REPLY"},
                         !.total = @ + ProbePeriod]
    IN  /\ r.rxmit
        /\ Commit(p, Assert(r.closure \in {"ITOR", "RESP"}, r, "closure_state",
                            IF s.total <= end THEN s
                            ELSE CnxDestroyed([s EXCEPT !.rxmit = FALSE,
                                                        !.closure = "COMPLETED"],
                                              "timedout")))

\* The autodelete zero-timer, and the quitting application.
ZtAutodelete(p) ==
    /\ peer[p].phase = "autodelete"
    /\ Commit(p, Delete(peer[p]))

LayerDestroy(p) ==
    /\ Quits
    /\ CloseObj(peer[p])
    /\ Commit(p, Delete(peer[p]))

\* nlay_idletimeout_t stops watching when the stack starts its closure, and a data
\* packet of the other end, which may still come, makes it start again (recv_proof).
IdleTimedout(p) ==
    /\ Alive(peer[p])
    /\ Commit(p, NotifyFatalEvent(peer[p], "IDLE_TIMEDOUT"))

\* reachpeer_t gives up after a long silence: packets lost, or a dead end.
Unreachable(p) ==
    /\ peer[p].phase \in {"open", "lingering", "autodelete"}
    /\ lost \/ ~Alive(peer[Other(p)])
    /\ Commit(p, NotifyFatalEvent(peer[p], "REMOTE_PEER_UNREACHABLE"))

\* The CNX_CLOSED of udp_full_t: what was sent to a dead end comes back as an
\* error on the file descriptor.
NetworkError(p) ==
    /\ Alive(peer[p]) /\ ~Alive(peer[Other(p)])
    /\ Commit(p, NotifyFatalEvent(peer[p], "NETWORK_ERROR"))
-----------------------------------------------------------------------------
(* The send buffer, seen from here as empty or not.                         *)

CrossTshold(r) == [r EXCEPT !.zt_maysend = @ \/ r.tshold = "user"]

SendData(p) ==
    /\ peer[p].phase = "open" /\ ~peer[p].pending
    /\ Commit(p, CrossTshold([peer[p] EXCEPT !.pending = TRUE]))

DataAcked(p) ==
    /\ peer[p].pending
    /\ Commit(p, CrossTshold([peer[p] EXCEPT !.pending = FALSE]))

\* MAYSEND_OFF falls into the default of neoip_nlay_full_event_cb; MAYSEND_ON
\* ends the linger of a close object, which never sets its 'state' in
\* autodelete mode: the value it holds there is any.
MaysendOff(r) == Assert(FALSE, r, "maysend_off", r)
MaysendOn(r, is_lingering)  ==
    LET s == CloseStartClosure(r)
    IN  IF ~CloseObj(r) THEN r
        ELSE Assert(is_lingering /\ ~r.pending, r, "maysend_on",
                    IF r.phase = "autodelete" /\ s.phase = "closing"
                    THEN [s EXCEPT !.phase = "autodelete"] ELSE s)

\* zerotimer_maysend_process, rdgram to nlay_rdgram to socket.
ZtMaysend(p) ==
    LET r == [peer[p] EXCEPT !.zt_maysend = FALSE]
    IN  /\ peer[p].zt_maysend
        /\ \E is_lingering \in BOOLEAN :
             /\ \/ r.phase = "autodelete"
                \/ is_lingering = (r.phase = "lingering")
             /\ Commit(p, CASE r.tshold = "none" -> r
                            [] r.tshold = "unlimited" \/ r.pending -> MaysendOff(r)
                            [] OTHER -> MaysendOn(r, is_lingering))

LingerTimeout(p) ==
    /\ peer[p].phase = "lingering"
    /\ Commit(p, CloseStartClosure(peer[p]))

Lose(m) ==
    /\ Lossy
    /\ net' = net \ {m}
    /\ lost' = TRUE
    /\ UNCHANGED peer

Next ==
    \/ \E p \in Peer :
         \/ Close(p) \/ ZtPktParse(p) \/ ZtCnxDestroyed(p) \/ RxmitTimeout(p)
         \/ ZtAutodelete(p) \/ LayerDestroy(p)
         \/ IdleTimedout(p) \/ Unreachable(p) \/ NetworkError(p)
         \/ SendData(p) \/ DataAcked(p) \/ ZtMaysend(p) \/ LingerTimeout(p)
         \/ \E m \in net : RecvPkt(p, m)
    \/ \E m \in net : Lose(m)

Spec == Init /\ [][Next]_vars

\* The event loop runs every zero-timer and every timer that is due.
TimerFairness ==
    \A p \in Peer : /\ WF_vars(ZtPktParse(p)) /\ WF_vars(ZtCnxDestroyed(p))
                    /\ WF_vars(RxmitTimeout(p)) /\ WF_vars(ZtAutodelete(p))
                    /\ WF_vars(ZtMaysend(p))

\* A packet the network keeps arrives, and so do the acks of a living end.
NetFairness ==
    /\ \A m \in Pkt : WF_vars(m \in net /\ RecvPkt(m.to, m))
    /\ \A p \in Peer : WF_vars(Alive(peer[Other(p)]) /\ DataAcked(p))

\* The linger timeout is a timer too.
FairSpec == /\ Spec /\ TimerFairness /\ NetFairness
            /\ \A p \in Peer : WF_vars(LingerTimeout(p))

-----------------------------------------------------------------------------
\* Types; the policy of the retransmission timer ends with its delay.
TypeOK ==
    /\ peer \in [Peer -> PeerState]
    /\ net \subseteq Pkt
    /\ lost \in BOOLEAN

\* The retransmission timer runs only during the exchange (the assertion of
\* the timer's callback): recv_close_reply and recv_close_reply_ack complete
\* the closure without stopping it, and rely on the owner being the close
\* object, which deletes the brick from inside CNX_DESTROYED.
RxmitOnlyInExchange ==
    \A p \in Peer : peer[p].rxmit => peer[p].closure \in {"ITOR", "RESP"}

\* CNX_DESTROYED "MUST be reported only to socket_full_close_udp_t": whatever
\* may still produce it, a timer, an answer or the zero-timer, the user is
\* out of the picture by then.
DestroyedOnlyToCloser ==
    \A p \in Peer :
        (\/ peer[p].closure # "NONE" /\ Alive(peer[p])
         \/ peer[p].zt_destroyed) => CloseObj(peer[p])

\* "Connection closure acked by remote peer" is true: the remote user has let
\* its socket go as well, and a peer that closed in good order never resets it.
AckedIsMutual ==
    \A p \in Peer :
        peer[p].end = "acked" =>
            /\ peer[Other(p)].phase # "open"
            /\ [to |-> Other(p), type |-> "CLOSE_NOW"] \notin net

\* A close object does not outlive its work, lost packets or not: the socket is
\* deleted, or the process ends on the way (phase "failed").
CloseTerminates ==
    \A p \in Peer : peer[p].phase # "open" ~> ~Alive(peer[p])

\* A peer that closes takes the other one with it by the handshake alone, if
\* no packet is lost and no process dies.
BothSidesClose ==
    \A p \in Peer :
        peer[p].phase # "open" ~>
            \/ lost
            \/ \E q \in Peer : peer[q].phase = "failed"
            \/ \A q \in Peer : ~Alive(peer[q])
=============================================================================
