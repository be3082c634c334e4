------------------------ MODULE SocketUdpCloseProofs ------------------------
(***************************************************************************)
(* Proofs about SocketUdpClose, for every delay of the retransmission      *)
(* timers, every length of the parse queue, and whatever the options and   *)
(* the build.                                                              *)
(***************************************************************************)
EXTENDS SocketUdpClose, SequenceTheorems, TLAPS

\* A peer's state in which the retransmission timer still has any total.
LooseState ==
    [asserts : BOOLEAN, phase : Phase, fatal : Fatal,
     closure : {"NONE", "ITOR", "RESP", "COMPLETED"},
     rxmit : BOOLEAN, total : Nat,
     parse : UNION {[1 .. n -> PktType] : n \in 0 .. MaxParse},
     zt_destroyed : BOOLEAN, pending : BOOLEAN,
     tshold : {"none", "user", "unlimited"}, zt_maysend : BOOLEAN,
     end : {"none", "acked", "timedout", "async"},
     failure : Failure, out : SUBSET PktType]

Exchange(r) == r.closure \in {"ITOR", "RESP"}

\* What holds of a peer between two callbacks: the timers run for a close object only,
\* the closure has begun for a close object only, and nothing is left of a dead peer.
Sound(r) ==
    /\ r \in LooseState /\ r.total <= MaxDelay
    /\ r.rxmit => Exchange(r) /\ CloseObj(r)
    /\ r.closure # "NONE" /\ Alive(r) => CloseObj(r)
    /\ r.zt_destroyed => CloseObj(r)
    /\ r.end # "none" => ~Alive(r)
    /\ ~Alive(r) => r.parse = <<>> /\ ~r.pending /\ ~r.zt_maysend

CloseNow(p) == [to |-> p, type |-> "CLOSE_NOW"]

\* A packet for p shows that the other end is not open any more, a CLOSE_NOW that it is
\* dead without having been acked.
IndInv ==
    /\ peer \in [Peer -> LooseState] /\ net \subseteq Pkt /\ lost \in BOOLEAN
    /\ \A p \in Peer : Sound(peer[p]) /\ peer[p].out = {}
    /\ \A p \in Peer : peer[p].parse # <<>> \/ peer[p].end = "acked" => peer[Other(p)].phase # "open"
    /\ \A m \in net : peer[Other(m.to)].phase # "open"
    /\ \A p \in Peer : CloseNow(Other(p)) \in net => ~Alive(peer[p]) /\ peer[p].end # "acked"

-----------------------------------------------------------------------------
LEMMA Delays == MaxDelay \in Nat /\ ItorDelay \in Nat /\ RespDelay \in Nat
                /\ ItorDelay <= MaxDelay /\ RespDelay <= MaxDelay
BY CloseAssumption DEF MaxDelay

LEMMA Empty == <<>> \in UNION {[1 .. n -> PktType] : n \in 0 .. MaxParse}
<1>1. <<>> \in [1 .. 0 -> PktType] /\ 0 \in 0 .. MaxParse
  BY CloseAssumption
<1> QED BY <1>1

\* Nothing is left of a dead peer but what it has sent and how it ended.
LEMMA DeadIs ==
    ASSUME NEW r \in LooseState, NEW ph \in {"gone", "failed"}
    PROVE  /\ Dead(r, ph) \in LooseState /\ Sound(Dead(r, ph))
           /\ Dead(r, ph).phase = ph /\ Dead(r, ph).out = r.out /\ Dead(r, ph).end = r.end
           /\ Dead(r, ph).closure = r.closure
<1>1. Dead(r, ph) \in LooseState
  BY Empty DEF LooseState, Dead, Phase
<1>2. /\ Dead(r, ph).phase = ph /\ Dead(r, ph).out = r.out /\ Dead(r, ph).end = r.end
      /\ Dead(r, ph).closure = r.closure
      /\ Dead(r, ph).total = 0 /\ Dead(r, ph).parse = <<>>
      /\ Dead(r, ph).rxmit = FALSE /\ Dead(r, ph).zt_destroyed = FALSE
      /\ Dead(r, ph).pending = FALSE /\ Dead(r, ph).zt_maysend = FALSE
  BY DEF LooseState, Dead
<1> QED BY <1>1, <1>2, Delays DEF Sound, Alive, CloseObj

LEMMA FailIs ==
    ASSUME NEW r \in LooseState, NEW why \in Failure
    PROVE  /\ Fail(r, why) \in LooseState /\ Sound(Fail(r, why))
           /\ Fail(r, why).phase = "failed" /\ Fail(r, why).out = r.out /\ Fail(r, why).end = r.end
<1> DEFINE d == Dead(r, "failed")
           s == [d EXCEPT !.failure = why]
<1>1. /\ d \in LooseState /\ Sound(d)
      /\ d.phase = "failed" /\ d.out = r.out /\ d.end = r.end
  BY DeadIs
<1>2. Fail(r, why) = s
  BY DEF Fail
<1> HIDE DEF d
<1>3. /\ s \in LooseState
      /\ s.phase = d.phase /\ s.out = d.out /\ s.end = d.end /\ s.closure = d.closure
      /\ s.total = d.total /\ s.parse = d.parse
      /\ s.rxmit = d.rxmit /\ s.zt_destroyed = d.zt_destroyed
      /\ s.pending = d.pending /\ s.zt_maysend = d.zt_maysend
  BY <1>1 DEF LooseState
<1> HIDE DEF s
<1>4. Sound(s)
  BY <1>1, <1>3 DEF Sound, Alive, CloseObj, Exchange
<1> QED BY <1>1, <1>2, <1>3, <1>4

LEMMA DeleteIs ==
    ASSUME NEW r \in LooseState
    PROVE  /\ Delete(r) \in LooseState /\ Sound(Delete(r))
           /\ Delete(r).phase = "gone" /\ Delete(r).end = r.end
           /\ Delete(r).out \subseteq r.out \cup {"CLOSE_NOW"}
           /\ r.closure = "COMPLETED" => Delete(r).out = r.out
<1> DEFINE d == Dead(r, "gone")
           o == IF r.closure = "COMPLETED" THEN d.out ELSE d.out \cup {"CLOSE_NOW"}
           s == [d EXCEPT !.out = o]
<1>1. /\ d \in LooseState /\ Sound(d)
      /\ d.phase = "gone" /\ d.out = r.out /\ d.end = r.end
  BY DeadIs
<1>2. Delete(r) = s
  BY DEF Delete
<1>o. o \in SUBSET PktType /\ o \subseteq r.out \cup {"CLOSE_NOW"} /\ (r.closure = "COMPLETED" => o = r.out)
  BY <1>1 DEF LooseState, PktType
<1> HIDE DEF d, o
<1>3. /\ s \in LooseState
      /\ s.phase = d.phase /\ s.out = o /\ s.end = d.end /\ s.closure = d.closure
      /\ s.total = d.total /\ s.parse = d.parse
      /\ s.rxmit = d.rxmit /\ s.zt_destroyed = d.zt_destroyed
      /\ s.pending = d.pending /\ s.zt_maysend = d.zt_maysend
  BY <1>1, <1>o DEF LooseState
<1> HIDE DEF s
<1>4. Sound(s)
  BY <1>1, <1>3 DEF Sound, Alive, CloseObj, Exchange
<1> QED BY <1>1, <1>2, <1>3, <1>4, <1>o
-----------------------------------------------------------------------------
(* The functions that start a closure, for a record in the middle of a      *)
(* callback.                                                                 *)

\* A living peer in a callback: what was sent and how it ended is told apart.
Running(r) ==
    /\ r \in LooseState /\ r.total <= MaxDelay
    /\ r.rxmit => Exchange(r)
    /\ r.end = "none"

\* The record s that a callback leaves after r when it has started to close, or failed.
Closing(r, s) ==
    /\ Sound(s) /\ s.phase # "open"
    /\ s.out = r.out /\ s.end = "none" /\ s.parse \in {r.parse, <<>>}

LEMMA StartRxmitIs ==
    ASSUME NEW r \in LooseState
    PROVE  LET s == StartRxmit(r) IN
           /\ s \in LooseState /\ s.total = 0 /\ s.rxmit = TRUE
           /\ s.phase = r.phase /\ s.closure = r.closure /\ s.out = r.out /\ s.end = r.end
           /\ s.parse = r.parse /\ s.zt_destroyed = r.zt_destroyed
           /\ s.pending = r.pending /\ s.zt_maysend = r.zt_maysend
BY DEF LooseState, StartRxmit

LEMMA ClosureStartIs ==
    ASSUME NEW r, Running(r), r.phase = "closing"
    PROVE  LET s == ClosureStart(r) IN
           /\ Running(s)
           /\ s.phase = "failed" => Sound(s)
           /\ s.phase \in {"closing", "failed"}
           /\ s.out = r.out /\ s.parse \in {r.parse, <<>>}
           /\ r.closure = "RESP" => s.closure = "RESP"
<1> DEFINE s == ClosureStart(r)
<1>0. r \in LooseState
  BY DEF Running
<1>1. CASE r.closure = "RESP"
  <2>1. s = r
    BY <1>1 DEF ClosureStart
  <2> QED BY <2>1
<1>2. CASE r.closure = "COMPLETED"
  <2>1. s = [r EXCEPT !.zt_destroyed = TRUE]
    BY <1>2 DEF ClosureStart
  <2> HIDE DEF s
  <2>2. /\ s \in LooseState /\ s.total = r.total /\ s.rxmit = r.rxmit /\ s.closure = r.closure
        /\ s.phase = r.phase /\ s.out = r.out /\ s.end = r.end /\ s.parse = r.parse
    BY <2>1, <1>0 DEF LooseState
  <2>3. Running(s) /\ s.phase = "closing" /\ s.out = r.out /\ s.parse \in {r.parse, <<>>}
    BY <2>2 DEF Running, Exchange
  <2> QED BY <2>3, <1>2 DEF s
<1>3. CASE r.closure \notin {"RESP", "COMPLETED"}
  <2>1. s = Assert(r.closure = "NONE", r, "closure_state", StartRxmit([r EXCEPT !.closure = "ITOR"]))
    BY <1>3 DEF ClosureStart
  <2>2. CASE s = Fail(r, "closure_state")
    <3>1. /\ s \in LooseState /\ Sound(s) /\ s.phase = "failed" /\ s.out = r.out /\ s.end = r.end
      BY <2>2, <1>0, FailIs DEF Failure
    <3> HIDE DEF s
    <3>2. Running(s) /\ s.parse = <<>>
      BY <3>1 DEF Running, Sound, Alive
    <3> QED BY <3>1, <3>2, <1>3 DEF s
  <2>3. CASE s = StartRxmit([r EXCEPT !.closure = "ITOR"])
    <3> DEFINE t == [r EXCEPT !.closure = "ITOR"]
    <3>1. /\ t \in LooseState /\ t.closure = "ITOR" /\ t.phase = r.phase /\ t.out = r.out
          /\ t.end = r.end /\ t.parse = r.parse
      BY <1>0 DEF LooseState
    <3> HIDE DEF t
    <3>2. s = StartRxmit(t)
      BY <2>3 DEF t
    <3> HIDE DEF s
    <3>3. /\ s \in LooseState /\ s.total = 0 /\ s.closure = "ITOR" /\ s.phase = r.phase /\ s.out = r.out
          /\ s.end = r.end /\ s.parse = r.parse
      BY <3>1, <3>2, StartRxmitIs
    <3>4. Running(s)
      BY <3>3, Delays DEF Running, Exchange
    <3> QED BY <3>3, <3>4, <1>3 DEF s
  <2> QED BY <2>1, <2>2, <2>3 DEF Assert
<1> QED BY <1>1, <1>2, <1>3

LEMMA RdgramStopIs ==
    ASSUME NEW r, Running(r), r.phase = "closing"
    PROVE  Sound(RdgramStop(r)) /\ Closing(r, RdgramStop(r)) /\ RdgramStop(r).phase = "closing"
           /\ RdgramStop(r).closure = r.closure
<1> DEFINE s == RdgramStop(r)
<1>0. r \in LooseState
  BY DEF Running
<1>1. /\ s \in LooseState /\ s.total = r.total /\ s.rxmit = r.rxmit /\ s.closure = r.closure
      /\ s.phase = r.phase /\ s.out = r.out /\ s.end = r.end /\ s.parse = r.parse
  BY <1>0 DEF LooseState, RdgramStop
<1> HIDE DEF s
<1>2. Sound(s) /\ Closing(r, s) /\ s.phase = "closing" /\ s.closure = r.closure
  BY <1>1 DEF Running, Sound, Closing, Alive, CloseObj, Exchange
<1> QED BY <1>2 DEF s

LEMMA CloseStartClosureIs ==
    ASSUME NEW r, Running(r)
    PROVE  /\ Closing(r, CloseStartClosure(r))
           /\ CloseStartClosure(r).phase \in {"closing", "failed"}
           /\ r.closure = "RESP" /\ CloseStartClosure(r).phase = "closing" => CloseStartClosure(r).closure = "RESP"
<1> DEFINE u == [r EXCEPT !.phase = "closing"]
           t == ClosureStart(u)
           s == CloseStartClosure(r)
<1>0. r \in LooseState
  BY DEF Running
<1>1. s = Assert(LingerCause(r) /\ ~ShouldLinger(r), r, "should_linger", StackStartClosure(u))
  BY DEF CloseStartClosure
<1>2. CASE s = Fail(r, "should_linger")
  <2>1. /\ Sound(s) /\ s.phase = "failed" /\ s.out = r.out /\ s.end = r.end
    BY <1>2, <1>0, FailIs DEF Failure
  <2> HIDE DEF s
  <2>2. Closing(r, s)
    BY <2>1 DEF Running, Closing, Sound, Alive
  <2> QED BY <2>1, <2>2 DEF s
<1>3. CASE s = StackStartClosure(u)
  <2>1. /\ u \in LooseState /\ u.phase = "closing" /\ u.total = r.total /\ u.rxmit = r.rxmit
        /\ u.closure = r.closure /\ u.out = r.out /\ u.end = r.end /\ u.parse = r.parse
    BY <1>0 DEF LooseState, Phase
  <2> HIDE DEF u
  <2>2. Running(u)
    BY <2>1 DEF Running, Exchange
  <2>3. /\ Running(t)
        /\ t.phase = "failed" => Sound(t)
        /\ t.phase \in {"closing", "failed"}
        /\ t.out = u.out /\ t.parse \in {u.parse, <<>>}
        /\ u.closure = "RESP" => t.closure = "RESP"
    BY <2>1, <2>2, ClosureStartIs
  <2>4. s = IF u.phase = "failed" THEN u ELSE RdgramStop(t)
    BY <1>3 DEF StackStartClosure
  <2>5. s = RdgramStop(t)
    BY <2>1, <2>4
  <2> HIDE DEF s, t
  <2>6. CASE t.phase = "closing"
    <3>1. Closing(t, s) /\ s.phase = "closing" /\ s.closure = t.closure
      BY <2>3, <2>5, <2>6, RdgramStopIs
    <3>2. Closing(r, s)
      BY <3>1, <2>1, <2>3 DEF Closing
    <3> QED BY <3>1, <3>2, <2>1, <2>3 DEF s
  <2>7. CASE t.phase = "failed"
    <3>1. t \in LooseState /\ t.pending = FALSE /\ t.zt_maysend = FALSE
      BY <2>3, <2>7 DEF Sound, Alive, LooseState
    <3>2. s \in LooseState /\ s.total = t.total /\ s.rxmit = t.rxmit /\ s.closure = t.closure
          /\ s.phase = t.phase /\ s.out = t.out /\ s.end = t.end /\ s.parse = t.parse
          /\ s.pending = FALSE /\ s.zt_maysend = FALSE /\ s.zt_destroyed = t.zt_destroyed
      BY <3>1, <2>5 DEF LooseState, RdgramStop
    <3>3. Sound(s)
      BY <3>2, <2>3, <2>7 DEF Sound, Alive, CloseObj, Exchange
    <3>4. Closing(r, s)
      BY <3>2, <3>3, <2>1, <2>3, <2>7 DEF Closing, Running
    <3> QED BY <3>2, <3>4, <2>7 DEF s
  <2> QED BY <2>3, <2>6, <2>7
<1> QED BY <1>1, <1>2, <1>3 DEF Assert

LEMMA GlueDestructionIs ==
    ASSUME NEW r, Running(r)
    PROVE  /\ Closing(r, GlueDestruction(r))
           /\ r.fatal = "CNX_CLOSED" => GlueDestruction(r).phase \in {"closing", "failed"}
           /\ r.closure = "RESP" /\ GlueDestruction(r).phase = "closing" => GlueDestruction(r).closure = "RESP"
<1> DEFINE s == GlueDestruction(r)
<1>0. r \in LooseState
  BY DEF Running
<1>1. CASE r.fatal \in {"REMOTE_PEER_UNREACHABLE", "NETWORK_ERROR"}
  <2>1. s = [r EXCEPT !.phase = "autodelete"]
    BY <1>1 DEF GlueDestruction
  <2> HIDE DEF s
  <2>2. /\ s \in LooseState /\ s.phase = "autodelete" /\ s.total = r.total /\ s.rxmit = r.rxmit
        /\ s.closure = r.closure /\ s.out = r.out /\ s.end = r.end /\ s.parse = r.parse
    BY <2>1, <1>0 DEF LooseState, Phase
  <2>3. Closing(r, s)
    BY <2>2 DEF Running, Closing, Sound, Alive, CloseObj, Exchange
  <2> QED BY <2>2, <2>3, <1>1 DEF s
<1>2. CASE r.fatal \notin {"REMOTE_PEER_UNREACHABLE", "NETWORK_ERROR"} /\ ShouldLinger(r)
  <2>1. s = [r EXCEPT !.phase = "lingering", !.tshold = "unlimited", !.zt_maysend = TRUE]
    BY <1>2 DEF GlueDestruction, StartLinger
  <2> HIDE DEF s
  <2>2. /\ s \in LooseState /\ s.phase = "lingering" /\ s.total = r.total /\ s.rxmit = r.rxmit
        /\ s.closure = r.closure /\ s.out = r.out /\ s.end = r.end /\ s.parse = r.parse
    BY <2>1, <1>0 DEF LooseState, Phase
  <2>3. Closing(r, s)
    BY <2>2 DEF Running, Closing, Sound, Alive, CloseObj, Exchange
  <2> QED BY <2>2, <2>3, <1>2 DEF s, ShouldLinger
<1>3. CASE r.fatal \notin {"REMOTE_PEER_UNREACHABLE", "NETWORK_ERROR"} /\ ~ShouldLinger(r)
  <2>1. s = CloseStartClosure(r)
    BY <1>3 DEF GlueDestruction
  <2> QED BY <2>1, CloseStartClosureIs
<1> QED BY <1>1, <1>2, <1>3
-----------------------------------------------------------------------------
(* The events of the stack.                                                 *)

\* What a callback that begins with r may leave: s.
Outcome(r, s) ==
    /\ Sound(s)
    /\ s.phase = "open" => r.phase = "open" /\ s.out = {}
    /\ "CLOSE_NOW" \in s.out => ~Alive(s) /\ s.end # "acked"
    /\ s.parse \in {r.parse, <<>>}

LEMMA NotifyFatalEventIs ==
    ASSUME NEW r, Running(r), r.out = {}, NEW event \in Fatal
    PROVE  LET s == NotifyFatalEvent(r, event) IN
           /\ Outcome(r, s) /\ s.phase # "open" /\ s.end = "none"
           /\ event = "CNX_CLOSED" => s.phase \in {"closing", "failed"}
           /\ r.closure = "RESP" /\ s.phase = "closing" => s.closure = "RESP" /\ s.out = {}
<1> DEFINE u == [r EXCEPT !.fatal = event]
           s == NotifyFatalEvent(r, event)
<1>1. /\ u \in LooseState /\ u.fatal = event
      /\ u.phase = r.phase /\ u.total = r.total /\ u.rxmit = r.rxmit
      /\ u.closure = r.closure /\ u.out = r.out /\ u.end = r.end /\ u.parse = r.parse
  BY DEF LooseState, Running
<1>2. s = IF r.phase = "open" THEN GlueDestruction(u) ELSE Fail(Delete(u), "tokeep")
  BY DEF NotifyFatalEvent
<1> HIDE DEF u, s
<1>3. Running(u)
  BY <1>1 DEF Running, Exchange
<1>4. CASE r.phase = "open"
  <2>1. /\ Closing(u, s)
        /\ event = "CNX_CLOSED" => s.phase \in {"closing", "failed"}
        /\ u.closure = "RESP" /\ s.phase = "closing" => s.closure = "RESP"
    BY <1>1, <1>2, <1>3, <1>4, GlueDestructionIs
  <2> QED BY <2>1, <1>1 DEF Closing, Outcome, s
<1>5. CASE r.phase # "open"
  <2> DEFINE d == Delete(u)
  <2>1. d \in LooseState /\ d.end = r.end /\ d.out \subseteq {"CLOSE_NOW"}
    BY <1>1, DeleteIs
  <2> HIDE DEF d
  <2>2. s = Fail(d, "tokeep")
    BY <1>2, <1>5 DEF d
  <2>3. Sound(s) /\ s.phase = "failed" /\ s.out = d.out /\ s.end = d.end
    BY <2>1, <2>2, FailIs DEF Failure
  <2>4. Outcome(r, s) /\ s.end = "none"
    BY <2>1, <2>3 DEF Outcome, Sound, Alive, Running
  <2> QED BY <2>3, <2>4 DEF s
<1> QED BY <1>4, <1>5

LEMMA CnxDestroyedIs ==
    ASSUME NEW r \in LooseState, CloseObj(r), NEW reason \in {"acked", "timedout", "async"}
    PROVE  LET s == CnxDestroyed(r, reason) IN
           /\ Sound(s) /\ s.phase = "gone" /\ s.end = reason /\ s.parse = <<>>
           /\ s.out \subseteq r.out \cup {"CLOSE_NOW"}
           /\ r.closure = "COMPLETED" => s.out = r.out
<1> DEFINE u == [r EXCEPT !.end = reason]
           s == CnxDestroyed(r, reason)
<1>1. u \in LooseState /\ u.end = reason /\ u.closure = r.closure /\ u.out = r.out
  BY DEF LooseState
<1>2. s = Delete(u)
  BY DEF CnxDestroyed, Assert
<1> HIDE DEF u, s
<1>3. /\ Sound(s) /\ s.phase = "gone" /\ s.end = reason
      /\ s.out \subseteq r.out \cup {"CLOSE_NOW"}
      /\ r.closure = "COMPLETED" => s.out = r.out
  BY <1>1, <1>2, DeleteIs
<1> QED BY <1>3 DEF Sound, Alive, s

LEMMA RecvCloseReplyIs ==
    ASSUME NEW r, Sound(r), Alive(r), r.out = {}
    PROVE  Outcome(r, RecvCloseReply(r))
<1> DEFINE u == [r EXCEPT !.closure = "COMPLETED", !.out = @ \cup {"CLOSE_REPLY_ACK"}]
           s == RecvCloseReply(r)
<1>1. CASE r.closure # "ITOR"
  BY <1>1 DEF RecvCloseReply, Outcome
<1>2. CASE r.closure = "ITOR"
  <2>0. CloseObj(r) /\ r \in LooseState
    BY <1>2 DEF Sound
  <2>1. u \in LooseState /\ u.closure = "COMPLETED" /\ u.phase = r.phase /\ u.out = {"CLOSE_REPLY_ACK"}
    BY <2>0 DEF LooseState, PktType
  <2>2. s = CnxDestroyed(u, "acked")
    BY <1>2 DEF RecvCloseReply
  <2> HIDE DEF u, s
  <2>3. /\ Sound(s) /\ s.phase = "gone" /\ s.end = "acked" /\ s.parse = <<>>
        /\ s.out = {"CLOSE_REPLY_ACK"}
    BY <2>0, <2>1, <2>2, CnxDestroyedIs DEF CloseObj
  <2>4. Outcome(r, s)
    BY <2>3 DEF Outcome
  <2> QED BY <2>4 DEF s
<1> QED BY <1>1, <1>2

LEMMA RecvCloseRequestIs ==
    ASSUME NEW r, Sound(r), Alive(r), r.out = {}
    PROVE  Outcome(r, RecvCloseRequest(r))
<1> DEFINE u == [r EXCEPT !.closure = "RESP"]
           t == NotifyFatalEvent(u, "CNX_CLOSED")
           s == RecvCloseRequest(r)
<1>0. r \in LooseState /\ r.end = "none" /\ r.total <= MaxDelay
  BY DEF Sound
<1>1. CASE r.closure = "RESP"
  BY <1>1 DEF RecvCloseRequest, Outcome
<1>2. CASE r.closure = "ITOR"
  <2>1. s = RecvCloseReply(r)
    BY <1>2 DEF RecvCloseRequest
  <2> QED BY <2>1, RecvCloseReplyIs
<1>3. CASE r.closure \notin {"RESP", "ITOR"}
  <2>1. s = Assert(r.closure = "NONE", r, "close_request", IF t.phase = "failed" THEN t ELSE StartRxmit(t))
    BY <1>3 DEF RecvCloseRequest
  <2>2. /\ u \in LooseState /\ u.closure = "RESP" /\ u.phase = r.phase /\ u.total = r.total
        /\ u.rxmit = r.rxmit /\ u.out = {} /\ u.end = r.end /\ u.parse = r.parse
    BY <1>0 DEF LooseState
  <2> HIDE DEF u
  <2>3. Running(u)
    BY <2>2, <1>0 DEF Running, Exchange
  <2>4. /\ Outcome(u, t) /\ t.phase # "open" /\ t.end = "none"
        /\ t.phase \in {"closing", "failed"}
        /\ u.closure = "RESP" /\ t.phase = "closing" => t.closure = "RESP" /\ t.out = {}
    BY <2>2, <2>3, NotifyFatalEventIs DEF Fatal
  <2> HIDE DEF t
  <2>5. CASE s = Fail(r, "close_request")
    <3>1. Sound(s) /\ s.phase = "failed" /\ s.out = {}
      BY <2>5, <1>0, FailIs DEF Failure
    <3> HIDE DEF s
    <3>2. Outcome(r, s)
      BY <3>1 DEF Outcome, Sound, Alive
    <3> QED BY <3>2 DEF s
  <2>6. CASE s = t /\ t.phase = "failed"
    <3> HIDE DEF s
    <3>1. Outcome(r, s)
      BY <2>2, <2>4, <2>6 DEF Outcome
    <3> QED BY <3>1 DEF s
  <2>7. CASE s = StartRxmit(t) /\ t.phase = "closing"
    <3> HIDE DEF s
    <3>1. t \in LooseState /\ Sound(t) /\ t.closure = "RESP" /\ t.out = {} /\ t.parse \in {r.parse, <<>>}
      BY <2>2, <2>4, <2>7 DEF Outcome, Sound
    <3>2. /\ s \in LooseState /\ s.total = 0 /\ s.rxmit = TRUE
          /\ s.phase = "closing" /\ s.closure = "RESP" /\ s.out = {} /\ s.end = "none"
          /\ s.parse = t.parse
      BY <3>1, <2>4, <2>7, StartRxmitIs
    <3>3. Sound(s)
      BY <3>2, Delays DEF Sound, Alive, CloseObj, Exchange
    <3>4. Outcome(r, s)
      BY <3>1, <3>2, <3>3 DEF Outcome
    <3> QED BY <3>4 DEF s
  <2> QED BY <2>1, <2>4, <2>5, <2>6, <2>7 DEF Assert
<1> QED BY <1>1, <1>2, <1>3

LEMMA PktParseIs ==
    ASSUME NEW r, Sound(r), Alive(r), r.out = {}, NEW type \in PktType
    PROVE  Outcome(r, PktParse(r, type))
<1>0. r \in LooseState /\ r.end = "none" /\ r.total <= MaxDelay
  BY DEF Sound
<1>1. CASE type = "CLOSE_REQUEST"
  BY <1>1, RecvCloseRequestIs DEF PktParse
<1>2. CASE type = "CLOSE_REPLY"
  BY <1>2, RecvCloseReplyIs DEF PktParse
<1>3. CASE type = "CLOSE_REPLY_ACK"
  <2> DEFINE s == RecvCloseReplyAck(r)
             u == [r EXCEPT !.closure = "COMPLETED"]
  <2>0. PktParse(r, type) = s
    BY <1>3 DEF PktParse
  <2>1. CASE r.closure # "RESP"
    BY <2>0, <2>1 DEF RecvCloseReplyAck, Outcome
  <2>2. CASE r.closure = "RESP"
    <3>1. u \in LooseState /\ u.closure = "COMPLETED" /\ u.phase = r.phase /\ u.out = {} /\ CloseObj(r)
      BY <1>0, <2>2 DEF LooseState, Sound
    <3>2. s = CnxDestroyed(u, "acked")
      BY <2>2 DEF RecvCloseReplyAck
    <3> HIDE DEF u, s
    <3>3. Sound(s) /\ s.phase = "gone" /\ s.parse = <<>> /\ s.out = {}
      BY <3>1, <3>2, CnxDestroyedIs DEF CloseObj
    <3>4. Outcome(r, s)
      BY <3>3 DEF Outcome
    <3> QED BY <3>4, <2>0
  <2> QED BY <2>1, <2>2
<1>4. CASE type = "CLOSE_NOW"
  <2> DEFINE u == [r EXCEPT !.closure = "COMPLETED", !.rxmit = FALSE, !.total = 0]
             s == NotifyFatalEvent(u, "CNX_CLOSED")
  <2>0. PktParse(r, type) = s
    BY <1>4 DEF PktParse, RecvCloseNow
  <2>1. /\ u \in LooseState /\ u.phase = r.phase /\ u.total = 0 /\ u.rxmit = FALSE
        /\ u.out = {} /\ u.end = r.end /\ u.parse = r.parse
    BY <1>0 DEF LooseState
  <2> HIDE DEF u
  <2>2. Running(u)
    BY <2>1, <1>0, Delays DEF Running
  <2>3. Outcome(u, s)
    BY <2>1, <2>2, NotifyFatalEventIs DEF Fatal
  <2> HIDE DEF s
  <2> QED BY <2>0, <2>1, <2>3 DEF Outcome
<1> QED BY <1>1, <1>2, <1>3, <1>4 DEF PktType
-----------------------------------------------------------------------------
(* The callbacks.                                                           *)

LEMMA TwoPeers ==
    ASSUME NEW p \in Peer
    PROVE  /\ Other(p) \in Peer /\ Other(p) # p /\ Other(Other(p)) = p
           /\ \A q \in Peer : q = p \/ q = Other(p)
<1>1. PICK a, b \in Peer : a # b /\ Peer = {a, b}
  BY CloseAssumption
<1>2. ASSUME NEW x \in Peer PROVE Other(x) \in Peer /\ Other(x) # x
  <2>1. \E y \in Peer : y # x
    BY <1>1
  <2> QED BY <2>1 DEF Other
<1> QED BY <1>1, <1>2

LEMMA SoundPeer ==
    ASSUME IndInv, NEW p \in Peer
    PROVE  /\ Sound(peer[p]) /\ peer[p].out = {} /\ peer[p] \in LooseState
           /\ Alive(peer[p]) => Running(peer[p])
           /\ peer[p].parse # <<>> => peer[Other(p)].phase # "open"
           /\ ~Alive(peer[p]) => peer[p].phase \in {"gone", "failed"} /\ ~CloseObj(peer[p])
BY DEF IndInv, Sound, Running, Alive, CloseObj

\* The callback of a living peer p leaves s.
LEMMA CommitStep ==
    ASSUME IndInv, NEW p \in Peer, Alive(peer[p]), NEW s, Commit(p, s), Sound(s),
           s.phase = "open" => peer[p].phase = "open" /\ s.out = {},
           "CLOSE_NOW" \in s.out => ~Alive(s) /\ s.end # "acked",
           s.parse # <<>> \/ s.end = "acked" => peer[Other(p)].phase # "open"
    PROVE  IndInv'
<1> DEFINE o == Other(p)
           t == [s EXCEPT !.out = {}]
           sent == {[to |-> o, type |-> k] : k \in s.out}
<1>1. o \in Peer /\ o # p /\ Other(o) = p /\ \A q \in Peer : q = p \/ q = o
  BY TwoPeers
<1>2. /\ peer' = [peer EXCEPT ![p] = t] /\ net' = net \cup sent /\ lost' = lost
  BY DEF Commit
<1>3. /\ peer \in [Peer -> LooseState] /\ net \subseteq Pkt /\ lost \in BOOLEAN
      /\ \A q \in Peer : Sound(peer[q]) /\ peer[q].out = {}
      /\ \A q \in Peer : peer[q].parse # <<>> \/ peer[q].end = "acked" => peer[Other(q)].phase # "open"
      /\ \A m \in net : peer[Other(m.to)].phase # "open"
      /\ \A q \in Peer : CloseNow(Other(q)) \in net => ~Alive(peer[q]) /\ peer[q].end # "acked"
  BY DEF IndInv
<1>4. s \in LooseState /\ s.out \subseteq PktType
  BY DEF Sound, LooseState
<1>5. /\ t \in LooseState /\ t.out = {} /\ t.phase = s.phase /\ t.end = s.end /\ t.parse = s.parse
      /\ t.closure = s.closure /\ t.total = s.total /\ t.rxmit = s.rxmit /\ t.pending = s.pending
      /\ t.zt_maysend = s.zt_maysend /\ t.zt_destroyed = s.zt_destroyed
  BY <1>4 DEF LooseState
<1> HIDE DEF t
<1>6. Sound(t) /\ (Alive(t) <=> Alive(s))
  BY <1>5 DEF Sound, Alive, CloseObj, Exchange
<1>7. sent \subseteq Pkt /\ \A m \in sent : m.to = o /\ m.type \in s.out
  BY <1>1, <1>4 DEF Pkt
<1> HIDE DEF sent, o
<1>8. /\ peer' \in [Peer -> LooseState] /\ peer'[p] = t /\ peer'[o] = peer[o]
  BY <1>1, <1>2, <1>3, <1>5
<1>9. peer'[p].phase = "open" => peer[p].phase = "open" /\ s.out = {}
  BY <1>5, <1>8
<1>10. net' \subseteq Pkt /\ lost' \in BOOLEAN
  BY <1>2, <1>3, <1>7
<1>11. \A q \in Peer : Sound(peer'[q]) /\ peer'[q].out = {}
  BY <1>1, <1>3, <1>5, <1>6, <1>8
<1>12. \A q \in Peer : peer'[q].parse # <<>> \/ peer'[q].end = "acked" => peer'[Other(q)].phase # "open"
  <2>1. peer'[p].parse # <<>> \/ peer'[p].end = "acked" => peer'[o].phase # "open"
    BY <1>5, <1>8 DEF o
  <2>2. peer'[o].parse # <<>> \/ peer'[o].end = "acked" => peer'[p].phase # "open"
    BY <1>1, <1>3, <1>8, <1>9
  <2> QED BY <2>1, <2>2, <1>1 DEF o
<1>13. ASSUME NEW m \in net' PROVE peer'[Other(m.to)].phase # "open"
  <2>1. CASE m \in net
    <3>1. m.to \in Peer /\ peer[Other(m.to)].phase # "open"
      BY <2>1, <1>3 DEF Pkt
    <3>2. CASE m.to = o
      BY <3>1, <3>2, <1>1, <1>9
    <3>3. CASE m.to = p
      BY <3>1, <3>3, <1>8 DEF o
    <3> QED BY <3>1, <3>2, <3>3, <1>1
  <2>2. CASE m \in sent
    <3>1. m.to = o /\ s.out # {}
      BY <2>2, <1>7
    <3> QED BY <3>1, <1>1, <1>9
  <2> QED BY <2>1, <2>2, <1>2
<1>14. ASSUME NEW q \in Peer, CloseNow(Other(q)) \in net'
       PROVE  ~Alive(peer'[q]) /\ peer'[q].end # "acked"
  <2>1. CloseNow(Other(q)).to = Other(q) /\ CloseNow(Other(q)).type = "CLOSE_NOW"
    BY DEF CloseNow
  <2>2. CASE q = p
    <3>1. CloseNow(o) \notin net
      BY <1>3 DEF o
    <3>2. CloseNow(o) \in sent
      BY <3>1, <2>2, <1>2, <1>14 DEF o
    <3>3. "CLOSE_NOW" \in s.out
      BY <3>2, <2>1, <2>2, <1>7 DEF o
    <3> QED BY <3>3, <2>2, <1>5, <1>6, <1>8
  <2>3. CASE q = o
    <3>1. CloseNow(Other(q)) \notin sent
      BY <2>1, <2>3, <1>1, <1>7
    <3>2. CloseNow(Other(q)) \in net
      BY <3>1, <1>2, <1>14
    <3> QED BY <3>2, <2>3, <1>3, <1>8
  <2> QED BY <2>2, <2>3, <1>1
<1> QED BY <1>8, <1>10, <1>11, <1>12, <1>13, <1>14 DEF IndInv

\* The same, when s is an outcome of what the callback found.
LEMMA OutcomeStep ==
    ASSUME IndInv, NEW p \in Peer, Alive(peer[p]), NEW r, NEW s, Commit(p, s), Outcome(r, s),
           r.phase = peer[p].phase, r.parse # <<>> => peer[Other(p)].phase # "open",
           s.end = "acked" => peer[Other(p)].phase # "open"
    PROVE  IndInv'
BY CommitStep DEF Outcome

LEMMA ClosingOutcome ==
    ASSUME NEW r, r.out = {}, NEW s, Closing(r, s)
    PROVE  Outcome(r, s) /\ s.end # "acked"
BY DEF Closing, Outcome

LEMMA DeleteOutcome ==
    ASSUME NEW r, Running(r), r.out = {}
    PROVE  Outcome(r, Delete(r)) /\ Delete(r).end # "acked"
<1>1. r \in LooseState /\ r.end = "none"
  BY DEF Running
<1>2. /\ Sound(Delete(r)) /\ Delete(r).phase = "gone" /\ Delete(r).end = r.end
      /\ Delete(r).out \subseteq r.out \cup {"CLOSE_NOW"}
  BY <1>1, DeleteIs
<1> HIDE DEF Delete
<1> QED BY <1>1, <1>2 DEF Outcome, Sound, Alive

LEMMA CloseStep == ASSUME IndInv, NEW p \in Peer, Close(p) PROVE IndInv'
<1> DEFINE r == peer[p]
           s == GlueDestruction(r)
<1>1. r.phase = "open" /\ Commit(p, s)
  BY DEF Close
<1>2. Alive(r) /\ Running(r) /\ r.out = {} /\ (r.parse # <<>> => peer[Other(p)].phase # "open")
  BY <1>1, SoundPeer DEF Alive
<1>3. Outcome(r, s) /\ s.end # "acked"
  BY <1>2, GlueDestructionIs, ClosingOutcome
<1> HIDE DEF s
<1> QED BY <1>1, <1>2, <1>3, OutcomeStep

LEMMA LingerTimeoutStep == ASSUME IndInv, NEW p \in Peer, LingerTimeout(p) PROVE IndInv'
<1> DEFINE r == peer[p]
           s == CloseStartClosure(r)
<1>1. r.phase = "lingering" /\ Commit(p, s)
  BY DEF LingerTimeout
<1>2. Alive(r) /\ Running(r) /\ r.out = {} /\ (r.parse # <<>> => peer[Other(p)].phase # "open")
  BY <1>1, SoundPeer DEF Alive
<1>3. Outcome(r, s) /\ s.end # "acked"
  BY <1>2, CloseStartClosureIs, ClosingOutcome
<1> HIDE DEF s
<1> QED BY <1>1, <1>2, <1>3, OutcomeStep

LEMMA DeletedStep ==
    ASSUME IndInv, NEW p \in Peer, ZtAutodelete(p) \/ LayerDestroy(p)
    PROVE  IndInv'
<1> DEFINE r == peer[p]
           s == Delete(r)
<1>1. Commit(p, s) /\ Alive(r)
  BY DEF ZtAutodelete, LayerDestroy, Alive, CloseObj
<1>2. Running(r) /\ r.out = {} /\ (r.parse # <<>> => peer[Other(p)].phase # "open")
  BY <1>1, SoundPeer
<1>3. Outcome(r, s) /\ s.end # "acked"
  BY <1>2, DeleteOutcome
<1> HIDE DEF s
<1> QED BY <1>1, <1>2, <1>3, OutcomeStep

LEMMA NotifiedStep ==
    ASSUME IndInv, NEW p \in Peer, IdleTimedout(p) \/ Unreachable(p) \/ NetworkError(p)
    PROVE  IndInv'
<1> DEFINE r == peer[p]
<1>1. PICK event \in Fatal : Commit(p, NotifyFatalEvent(r, event)) /\ Alive(r)
  BY DEF IdleTimedout, Unreachable, NetworkError, Alive, Fatal
<1> DEFINE s == NotifyFatalEvent(r, event)
<1>2. Running(r) /\ r.out = {} /\ (r.parse # <<>> => peer[Other(p)].phase # "open")
  BY <1>1, SoundPeer
<1>3. Outcome(r, s) /\ s.end # "acked"
  BY <1>2, NotifyFatalEventIs
<1>4. Commit(p, s)
  BY <1>1
<1> HIDE DEF s
<1> QED BY <1>1, <1>2, <1>3, <1>4, OutcomeStep

LEMMA ParseType ==
    ASSUME NEW q \in UNION {[1 .. n -> PktType] : n \in 0 .. MaxParse}
    PROVE  /\ q \in Seq(PktType) /\ Len(q) <= MaxParse
           /\ Len(q) < MaxParse => \A t \in PktType :
                Append(q, t) \in UNION {[1 .. n -> PktType] : n \in 0 .. MaxParse}
           /\ q # <<>> => /\ Head(q) \in PktType
                          /\ Tail(q) \in UNION {[1 .. n -> PktType] : n \in 0 .. MaxParse}
<1>1. PICK n \in 0 .. MaxParse : q \in [1 .. n -> PktType]
  OBVIOUS
<1>2. MaxParse \in Nat /\ n \in Nat
  BY CloseAssumption
<1>3. q \in Seq(PktType) /\ Len(q) = n
  BY <1>1, <1>2
<1>4. ASSUME Len(q) < MaxParse, NEW t \in PktType
      PROVE  Append(q, t) \in UNION {[1 .. k -> PktType] : k \in 0 .. MaxParse}
  <2>1. n + 1 \in 0 .. MaxParse /\ Append(q, t) \in Seq(PktType) /\ Len(Append(q, t)) = n + 1
    BY <1>2, <1>3, <1>4
  <2>2. Append(q, t) \in [1 .. n + 1 -> PktType]
    BY <2>1, LenProperties
  <2> QED BY <2>1, <2>2
<1>5. ASSUME q # <<>>
      PROVE  Head(q) \in PktType /\ Tail(q) \in UNION {[1 .. k -> PktType] : k \in 0 .. MaxParse}
  <2>1. n # 0 /\ Head(q) \in PktType
    BY <1>3, <1>5
  <2>2. n - 1 \in 0 .. MaxParse /\ Tail(q) \in Seq(PktType) /\ Len(Tail(q)) = n - 1
    BY <2>1, <1>2, <1>3, <1>5
  <2>3. Tail(q) \in [1 .. n - 1 -> PktType]
    BY <2>2, LenProperties
  <2> QED BY <2>1, <2>2, <2>3
<1> QED BY <1>2, <1>3, <1>4, <1>5

LEMMA RecvPktStep == ASSUME IndInv, NEW p \in Peer, NEW m \in net, RecvPkt(p, m) PROVE IndInv'
<1> DEFINE r == peer[p]
           q == Append(r.parse, m.type)
           s == [r EXCEPT !.parse = q]
<1>1. m.to = p /\ Alive(r) /\ Len(r.parse) < MaxParse /\ Commit(p, s)
  BY DEF RecvPkt
<1>2. Sound(r) /\ r.out = {} /\ r \in LooseState
  BY SoundPeer
<1>3. m.type \in PktType /\ peer[Other(p)].phase # "open"
  BY <1>1 DEF IndInv, Pkt
<1>4. q \in UNION {[1 .. n -> PktType] : n \in 0 .. MaxParse}
  <2>1. r.parse \in UNION {[1 .. n -> PktType] : n \in 0 .. MaxParse}
    BY <1>2 DEF LooseState
  <2> QED BY <2>1, <1>1, <1>3, ParseType
<1> HIDE DEF q
<1>5. /\ s \in LooseState /\ s.out = {} /\ s.phase = r.phase /\ s.end = r.end
      /\ s.closure = r.closure /\ s.total = r.total /\ s.rxmit = r.rxmit /\ s.pending = r.pending
      /\ s.zt_maysend = r.zt_maysend /\ s.zt_destroyed = r.zt_destroyed
  BY <1>2, <1>4 DEF LooseState
<1> HIDE DEF s
<1>6. Sound(s)
  BY <1>1, <1>2, <1>5 DEF Sound, Alive, CloseObj, Exchange
<1> HIDE DEF r
<1> QED BY <1>1, <1>3, <1>5, <1>6, CommitStep DEF r

LEMMA ZtPktParseStep == ASSUME IndInv, NEW p \in Peer, ZtPktParse(p) PROVE IndInv'
<1> DEFINE r == peer[p]
           q == Tail(r.parse)
           k == Head(r.parse)
           u == [r EXCEPT !.parse = q]
           s == PktParse(u, k)
<1>1. r.parse # <<>> /\ Commit(p, s)
  BY DEF ZtPktParse
<1>2. Sound(r) /\ r.out = {} /\ r \in LooseState /\ peer[Other(p)].phase # "open"
  BY <1>1, SoundPeer
<1>3. Alive(r)
  BY <1>1, <1>2 DEF Sound
<1>4. k \in PktType /\ q \in UNION {[1 .. n -> PktType] : n \in 0 .. MaxParse}
  <2>1. r.parse \in UNION {[1 .. n -> PktType] : n \in 0 .. MaxParse}
    BY <1>2 DEF LooseState
  <2> QED BY <2>1, <1>1, ParseType
<1> HIDE DEF q, k
<1>5. /\ u \in LooseState /\ u.out = {} /\ u.phase = r.phase /\ u.end = r.end
      /\ u.closure = r.closure /\ u.total = r.total /\ u.rxmit = r.rxmit /\ u.pending = r.pending
      /\ u.zt_maysend = r.zt_maysend /\ u.zt_destroyed = r.zt_destroyed
  BY <1>2, <1>4 DEF LooseState
<1> HIDE DEF u
<1>6. Sound(u) /\ Alive(u)
  BY <1>2, <1>3, <1>5 DEF Sound, Alive, CloseObj, Exchange
<1>7. Outcome(u, s)
  BY <1>4, <1>5, <1>6, PktParseIs
<1> HIDE DEF s
<1> QED BY <1>1, <1>2, <1>3, <1>5, <1>7, OutcomeStep

LEMMA ZtCnxDestroyedStep == ASSUME IndInv, NEW p \in Peer, ZtCnxDestroyed(p) PROVE IndInv'
<1> DEFINE r == peer[p]
           u == [r EXCEPT !.zt_destroyed = FALSE]
           s == CnxDestroyed(u, "async")
<1>1. r.zt_destroyed /\ Commit(p, s)
  BY DEF ZtCnxDestroyed
<1>2. Sound(r) /\ r.out = {} /\ r \in LooseState
  BY SoundPeer
<1>3. CloseObj(r) /\ Alive(r)
  BY <1>1, <1>2 DEF Sound, CloseObj, Alive
<1>4. u \in LooseState /\ u.out = {} /\ u.phase = r.phase
  BY <1>2 DEF LooseState
<1> HIDE DEF u
<1>5. CloseObj(u)
  BY <1>3, <1>4 DEF CloseObj
<1>6. /\ Sound(s) /\ s.phase = "gone" /\ s.end = "async" /\ s.parse = <<>>
  BY <1>4, <1>5, CnxDestroyedIs
<1> HIDE DEF s
<1>7. ~Alive(s)
  BY <1>6 DEF Alive
<1> QED BY <1>1, <1>3, <1>6, <1>7, CommitStep

LEMMA RxmitTimeoutStep == ASSUME IndInv, NEW p \in Peer, RxmitTimeout(p) PROVE IndInv'
<1> DEFINE r == peer[p]
           end == IF r.closure = "ITOR" THEN ItorDelay ELSE RespDelay
           o == {IF r.closure = "ITOR" THEN "CLOSE_REQUEST" ELSE "CLOSE_REPLY"}
           u == [r EXCEPT !.out = o, !.total = @ + ProbePeriod]
           v == [u EXCEPT !.rxmit = FALSE, !.closure = "COMPLETED"]
<1>1. r.rxmit /\ Commit(p, Assert(r.closure \in {"ITOR", "RESP"}, r, "closure_state",
                                  IF u.total <= end THEN u ELSE CnxDestroyed(v, "timedout")))
  BY DEF RxmitTimeout
<1>2. Sound(r) /\ r.out = {} /\ r \in LooseState /\ (r.parse # <<>> => peer[Other(p)].phase # "open")
  BY SoundPeer
<1>3. r.closure \in {"ITOR", "RESP"} /\ CloseObj(r) /\ Alive(r)
  BY <1>1, <1>2 DEF Sound, CloseObj, Alive, Exchange
<1>4. Commit(p, IF u.total <= end THEN u ELSE CnxDestroyed(v, "timedout"))
  BY <1>1, <1>3 DEF Assert
<1>5. o \subseteq PktType /\ "CLOSE_NOW" \notin o /\ end \in Nat /\ end <= MaxDelay
  BY Delays DEF PktType
<1> HIDE DEF o, end
<1>6. /\ u \in LooseState /\ u.out = o /\ u.phase = r.phase /\ u.end = r.end
      /\ u.closure = r.closure /\ u.rxmit = r.rxmit /\ u.pending = r.pending /\ u.parse = r.parse
      /\ u.zt_maysend = r.zt_maysend /\ u.zt_destroyed = r.zt_destroyed
  <2>1. r.total + ProbePeriod \in Nat
    BY <1>2, CloseAssumption DEF LooseState
  <2> QED BY <2>1, <1>2, <1>5 DEF LooseState
<1> HIDE DEF u
<1>7. CASE u.total <= end
  <2>1. u.total <= MaxDelay
    BY <1>5, <1>6, <1>7, Delays DEF LooseState
  <2>2. Sound(u)
    BY <2>1, <1>2, <1>6 DEF Sound, Alive, CloseObj, Exchange
  <2>3. Commit(p, u)
    BY <1>4, <1>7
  <2>4. u.end # "acked" /\ u.phase # "open"
    BY <1>2, <1>3, <1>6 DEF Sound, CloseObj
  <2>5. (u.parse # <<>> \/ u.end = "acked") => peer[Other(p)].phase # "open"
    BY <2>4, <1>2, <1>6
  <2> HIDE DEF r
  <2> QED BY <2>2, <2>3, <2>4, <2>5, <1>3, <1>5, <1>6, CommitStep DEF r
<1>8. CASE ~(u.total <= end)
  <2> DEFINE s == CnxDestroyed(v, "timedout")
  <2>1. v \in LooseState /\ v.closure = "COMPLETED" /\ v.phase = r.phase /\ v.out = o
    BY <1>6 DEF LooseState
  <2> HIDE DEF v
  <2>2. /\ Sound(s) /\ s.phase = "gone" /\ s.end = "timedout" /\ s.parse = <<>> /\ s.out = o
    BY <2>1, <1>3, CnxDestroyedIs DEF CloseObj
  <2>3. Commit(p, s)
    BY <1>4, <1>8
  <2> HIDE DEF s
  <2> QED BY <2>2, <2>3, <1>3, <1>5, CommitStep
<1> QED BY <1>7, <1>8

LEMMA SendBufferStep ==
    ASSUME IndInv, NEW p \in Peer, SendData(p) \/ DataAcked(p)
    PROVE  IndInv'
<1> DEFINE r == peer[p]
<1>1. Sound(r) /\ r.out = {} /\ r \in LooseState /\ (r.parse # <<>> => peer[Other(p)].phase # "open")
  BY SoundPeer
<1>2. Alive(r)
  BY <1>1 DEF SendData, DataAcked, Sound, Alive
<1>3. PICK b \in BOOLEAN : Commit(p, CrossTshold([r EXCEPT !.pending = b]))
  BY DEF SendData, DataAcked
<1> DEFINE s == CrossTshold([r EXCEPT !.pending = b])
<1>4. /\ s \in LooseState /\ s.out = {} /\ s.phase = r.phase /\ s.end = r.end
      /\ s.closure = r.closure /\ s.total = r.total /\ s.rxmit = r.rxmit /\ s.parse = r.parse
      /\ s.zt_destroyed = r.zt_destroyed
  BY <1>1 DEF LooseState, CrossTshold
<1>5. Commit(p, s)
  BY <1>3
<1> HIDE DEF s
<1>6. Sound(s) /\ s.end # "acked"
  BY <1>1, <1>2, <1>4 DEF Sound, Alive, CloseObj, Exchange
<1> HIDE DEF r
<1> QED BY <1>1, <1>2, <1>4, <1>5, <1>6, CommitStep DEF r

LEMMA MaysendOnIs ==
    ASSUME NEW r, Sound(r), Running(r), Alive(r), r.out = {}, NEW l \in BOOLEAN
    PROVE  Outcome(r, MaysendOn(r, l)) /\ MaysendOn(r, l).end # "acked"
<1> DEFINE t == CloseStartClosure(r)
           u == IF r.phase = "autodelete" /\ t.phase = "closing" THEN [t EXCEPT !.phase = "autodelete"] ELSE t
           s == MaysendOn(r, l)
<1>1. CASE ~CloseObj(r)
  <2>1. s = r
    BY <1>1 DEF MaysendOn
  <2> QED BY <2>1 DEF Outcome, Running
<1>2. CASE CloseObj(r)
  <2>1. s = Assert(l /\ ~r.pending, r, "maysend_on", u)
    BY <1>2 DEF MaysendOn
  <2>2. Closing(r, t)
    BY CloseStartClosureIs
  <2> HIDE DEF t
  <2>3. Closing(r, u)
    <3>1. CASE r.phase = "autodelete" /\ t.phase = "closing"
      <4>1. u = [t EXCEPT !.phase = "autodelete"] /\ t \in LooseState
        BY <3>1, <2>2 DEF Closing, Sound
      <4> HIDE DEF u
      <4>2. /\ u \in LooseState /\ u.out = t.out /\ u.phase = "autodelete" /\ u.end = t.end
            /\ u.closure = t.closure /\ u.total = t.total /\ u.rxmit = t.rxmit /\ u.parse = t.parse
        BY <4>1 DEF LooseState, Phase
      <4> QED BY <4>2, <3>1, <2>2 DEF Closing, Sound, Alive, CloseObj, Exchange
    <3>2. CASE ~(r.phase = "autodelete" /\ t.phase = "closing")
      <4>1. u = t
        BY <3>2
      <4> QED BY <4>1, <2>2
    <3> QED BY <3>1, <3>2
  <2> HIDE DEF u
  <2>4. CASE s = u
    BY <2>3, <2>4, ClosingOutcome
  <2>5. CASE s = Fail(r, "maysend_on")
    <3>1. Sound(s) /\ s.phase = "failed" /\ s.out = {} /\ s.end = "none"
      BY <2>5, FailIs DEF Failure, Running
    <3> HIDE DEF s
    <3>2. Outcome(r, s) /\ s.end # "acked"
      BY <3>1 DEF Outcome, Sound, Alive
    <3> QED BY <3>2 DEF s
  <2> QED BY <2>1, <2>4, <2>5 DEF Assert
<1> QED BY <1>1, <1>2

LEMMA ZtMaysendStep == ASSUME IndInv, NEW p \in Peer, ZtMaysend(p) PROVE IndInv'
<1> DEFINE r0 == peer[p]
           r == [r0 EXCEPT !.zt_maysend = FALSE]
<1>1. Sound(r0) /\ r0.out = {} /\ r0 \in LooseState /\ (r0.parse # <<>> => peer[Other(p)].phase # "open")
  BY SoundPeer
<1>2. r0.zt_maysend
  BY DEF ZtMaysend
<1>3. Alive(r0)
  BY <1>1, <1>2 DEF Sound
<1>4. PICK l \in BOOLEAN :
        Commit(p, CASE r.tshold = "none" -> r
                    [] r.tshold = "unlimited" \/ r.pending -> MaysendOff(r)
                    [] OTHER -> MaysendOn(r, l))
  BY DEF ZtMaysend
<1>5. /\ r \in LooseState /\ r.out = {} /\ r.phase = r0.phase /\ r.end = r0.end
      /\ r.closure = r0.closure /\ r.total = r0.total /\ r.rxmit = r0.rxmit /\ r.parse = r0.parse
      /\ r.zt_destroyed = r0.zt_destroyed /\ r.pending = r0.pending /\ r.zt_maysend = FALSE
  BY <1>1 DEF LooseState
<1> HIDE DEF r
<1>6. Sound(r) /\ Running(r) /\ Alive(r)
  BY <1>1, <1>3, <1>5 DEF Sound, Running, Alive, CloseObj, Exchange
<1>7. PICK s : Commit(p, s) /\ s \in {r, MaysendOff(r), MaysendOn(r, l)}
  <2>1. CASE r.tshold = "none"
    BY <2>1, <1>4
  <2>2. CASE r.tshold # "none" /\ (r.tshold = "unlimited" \/ r.pending)
    BY <2>2, <1>4
  <2>3. CASE r.tshold # "none" /\ ~(r.tshold = "unlimited" \/ r.pending)
    BY <2>3, <1>4
  <2> QED BY <2>1, <2>2, <2>3
<1>8. Outcome(r, s) /\ s.end # "acked"
  <2>1. Outcome(r, r) /\ r.end # "acked"
    BY <1>5, <1>6 DEF Outcome, Running
  <2>2. CASE s = r
    BY <2>1, <2>2
  <2>3. CASE s = MaysendOff(r)
    <3>1. CASE s = r
      BY <2>1, <3>1
    <3>2. CASE s = Fail(r, "maysend_off")
      <4>1. Sound(s) /\ s.phase = "failed" /\ s.out = {} /\ s.end = "none"
        BY <3>2, <1>5, <1>6, FailIs DEF Failure, Running
      <4> QED BY <4>1 DEF Outcome, Sound, Alive
    <3> QED BY <2>3, <3>1, <3>2 DEF MaysendOff, Assert
  <2>4. CASE s = MaysendOn(r, l)
    BY <2>4, <1>4, <1>5, <1>6, MaysendOnIs
  <2> QED BY <2>2, <2>3, <2>4, <1>7
<1> QED BY <1>1, <1>3, <1>5, <1>7, <1>8, OutcomeStep
-----------------------------------------------------------------------------
LEMMA IndInvInit == Init => IndInv
<1> SUFFICES ASSUME Init PROVE IndInv
  OBVIOUS
<1>1. PICK build \in Builds : peer = [p \in Peer |->
                 [asserts |-> build, phase |-> "open", fatal |-> "NONE", closure |-> "NONE",
                  rxmit |-> FALSE, total |-> 0, parse |-> <<>>,
                  zt_destroyed |-> FALSE, pending |-> FALSE,
                  tshold |-> IF UserTshold THEN "user" ELSE "none",
                  zt_maysend |-> UserTshold, end |-> "none",
                  failure |-> "none", out |-> {}]]
  BY DEF Init
<1> DEFINE r == [asserts |-> build, phase |-> "open", fatal |-> "NONE", closure |-> "NONE",
                 rxmit |-> FALSE, total |-> 0, parse |-> <<>>,
                 zt_destroyed |-> FALSE, pending |-> FALSE,
                 tshold |-> IF UserTshold THEN "user" ELSE "none",
                 zt_maysend |-> UserTshold, end |-> "none",
                 failure |-> "none", out |-> {}]
<1>2. build \in BOOLEAN /\ UserTshold \in BOOLEAN
  BY CloseAssumption
<1>3. r \in LooseState
  BY <1>2, Empty DEF LooseState, Phase, Fatal, Failure
<1>4. /\ r.total = 0 /\ r.rxmit = FALSE /\ r.closure = "NONE" /\ r.zt_destroyed = FALSE
      /\ r.end = "none" /\ r.phase = "open" /\ r.out = {} /\ r.parse = <<>>
  OBVIOUS
<1>5. \A p \in Peer : peer[p] = r
  BY <1>1
<1>6. peer \in [Peer -> LooseState]
  BY <1>1, <1>3
<1> HIDE DEF r
<1>7. Sound(r)
  BY <1>3, <1>4, Delays DEF Sound, Alive
<1>8. net = {} /\ lost = FALSE
  BY DEF Init
<1> QED BY <1>4, <1>5, <1>6, <1>7, <1>8 DEF IndInv

LEMMA LoseStep == ASSUME IndInv, NEW m \in net, Lose(m) PROVE IndInv'
BY DEF IndInv, Lose

\* IndInv holds always, whatever the order of the callbacks and of the packets.
THEOREM Invariance == Spec => []IndInv
<1>1. IndInv /\ [Next]_vars => IndInv'
  <2> SUFFICES ASSUME IndInv, [Next]_vars PROVE IndInv'
    OBVIOUS
  <2>1. ASSUME NEW p \in Peer, Close(p) PROVE IndInv'
    BY <2>1, CloseStep
  <2>2. ASSUME NEW p \in Peer, ZtPktParse(p) PROVE IndInv'
    BY <2>2, ZtPktParseStep
  <2>3. ASSUME NEW p \in Peer, ZtCnxDestroyed(p) PROVE IndInv'
    BY <2>3, ZtCnxDestroyedStep
  <2>4. ASSUME NEW p \in Peer, RxmitTimeout(p) PROVE IndInv'
    BY <2>4, RxmitTimeoutStep
  <2>5. ASSUME NEW p \in Peer, ZtAutodelete(p) \/ LayerDestroy(p) PROVE IndInv'
    BY <2>5, DeletedStep
  <2>6. ASSUME NEW p \in Peer, IdleTimedout(p) \/ Unreachable(p) \/ NetworkError(p) PROVE IndInv'
    BY <2>6, NotifiedStep
  <2>7. ASSUME NEW p \in Peer, SendData(p) \/ DataAcked(p) PROVE IndInv'
    BY <2>7, SendBufferStep
  <2>8. ASSUME NEW p \in Peer, ZtMaysend(p) PROVE IndInv'
    BY <2>8, ZtMaysendStep
  <2>9. ASSUME NEW p \in Peer, LingerTimeout(p) PROVE IndInv'
    BY <2>9, LingerTimeoutStep
  <2>10. ASSUME NEW p \in Peer, NEW m \in net, RecvPkt(p, m) PROVE IndInv'
    BY <2>10, RecvPktStep
  <2>11. ASSUME NEW m \in net, Lose(m) PROVE IndInv'
    BY <2>11, LoseStep
  <2>12. CASE UNCHANGED vars
    BY <2>12 DEF IndInv, vars
  <2> QED BY <2>1, <2>2, <2>3, <2>4, <2>5, <2>6, <2>7, <2>8, <2>9, <2>10, <2>11, <2>12 DEF Next
<1> QED BY <1>1, IndInvInit, PTL DEF Spec

\* TypeOK of SocketUdpClose: among others, the delay of the probing timer and the queue of
\* packets to parse stay within their limits.
THEOREM TypeCorrect == Spec => []TypeOK
<1>1. ASSUME IndInv PROVE TypeOK
  <2>1. ASSUME NEW p \in Peer PROVE peer[p] \in PeerState
    <3>1. peer[p] \in LooseState /\ peer[p].total <= MaxDelay
      BY <1>1, <2>1 DEF IndInv, Sound
    <3> QED BY <3>1, Delays DEF LooseState, PeerState
  <2> QED BY <2>1, <1>1 DEF IndInv, TypeOK
<1> QED BY <1>1, Invariance, PTL

\* RxmitOnlyInExchange: the assertion of the retransmission timer's callback never fails,
\* although recv_close_reply and recv_close_reply_ack do not stop the timer.
THEOREM RxmitInExchange == Spec => []RxmitOnlyInExchange
<1>1. IndInv => RxmitOnlyInExchange
  BY DEF IndInv, Sound, Exchange, RxmitOnlyInExchange
<1> QED BY <1>1, Invariance, PTL

\* DestroyedOnlyToCloser: CNX_DESTROYED never reaches the user of the socket.
THEOREM DestroyedToCloser == Spec => []DestroyedOnlyToCloser
<1>1. IndInv => DestroyedOnlyToCloser
  BY DEF IndInv, Sound, DestroyedOnlyToCloser
<1> QED BY <1>1, Invariance, PTL

\* AckedIsMutual: an end that reports an acked closure has a peer that has let go of its
\* socket, and has not reset it.
THEOREM AckedMutual == Spec => []AckedIsMutual
<1>1. IndInv => AckedIsMutual
  BY DEF IndInv, AckedIsMutual, CloseNow
<1> QED BY <1>1, Invariance, PTL
=============================================================================
