------------------------------- MODULE Rdgram -------------------------------
(***************************************************************************)
(* The reliable datagram layer, rdgram_t (neoip_proto/rdgram), seen along  *)
(* one direction of a connection: the sending half of one peer (send       *)
(* buffer, retransmission, MAYSEND notifications), the acknowledging half  *)
(* of the other, and the datagram network between them, which may lose,    *)
(* duplicate and reorder.  The other direction is a second, independent    *)
(* copy.  Each peer is single threaded: one action is one callback of the  *)
(* event loop (a packet, a timer, a zero-timer) or one call of the user.   *)
(***************************************************************************)
EXTENDS Wai, Sequences, FiniteSets, Functions

CONSTANTS HdrLen,        \* bytes of pkttype + seqnb (get_mtu_overhead)
          Lens,          \* payload lengths the user sends
          MaxSend,       \* bound: number of packets the user sends
          SeqWindow,     \* bound: how many packets are sent at most before
                         \*   every trace of an older one is gone
          SendbufLens,   \* lengths the user gives to sendbuf_set_max_len
          Thresholds     \* thresholds the user gives to maysend_set_threshold

ASSUME RdgramAssumption ==
    /\ HdrLen \in Nat
    /\ Lens \subseteq Nat \ {0}
    /\ MaxSend \in Nat
    /\ SeqWindow \in Nat \ {0} /\ SeqWindow < WaiHalf
    /\ SendbufLens \subseteq Nat
    /\ Thresholds \subseteq Nat

VARIABLES
    sent,               \* history: lengths of the accepted payloads, in order
    next_xmit_seqnb,
    sendbuf_pkt_db,     \* unacknowledged packets: seqnb -> payload
    sendbuf_used_len,
    sendbuf_max_len,    \* 0 = unlimited
    maysend_threshold,  \* 0 = not set
    zt_maysend,         \* zerotimer_maysend is running
    maysend_event,      \* last MAYSEND_ON/OFF notified to the user
    maysend_fresh,      \* history: sendbuf_max_len not changed since the
                        \*   threshold was last set
    stopped,            \* stop() has been called
    net,                \* datagrams in flight
    seqnb2ack_list,     \* acks the receiver still has to send
    zt_seqnb2ack        \* zerotimer_seqnb2ack is running

sendVars == <<sent, next_xmit_seqnb, sendbuf_pkt_db, sendbuf_used_len,
              sendbuf_max_len, maysend_threshold, zt_maysend, maysend_event,
              maysend_fresh, stopped>>
ackVars  == <<seqnb2ack_list, zt_seqnb2ack>>
rdgramVars == <<sendVars, net, ackVars>>

(***************************************************************************)
(* A payload is known by its rank among the packets the user sent; its     *)
(* length is the only other thing the code looks at.  An ack carries only  *)
(* the sequence number; id is there to age it with its packet.             *)
(***************************************************************************)
Payload       == [id : 1 .. MaxSend, len : Lens]
DataPkt(s, p) == [type |-> "DATA_PKT", seqnb |-> s, id |-> p.id, len |-> p.len]
AckPkt(s, i)  == [type |-> "ACK_PKT", seqnb |-> s, id |-> i]
DataPkts      == [type : {"DATA_PKT"}, seqnb : WaiNum, id : 1 .. MaxSend, len : Lens]
AckPkts       == [type : {"ACK_PKT"}, seqnb : WaiNum, id : 1 .. MaxSend]
PayloadOf(m)  == [id |-> m.id, len |-> m.len]

\* What the packets of the sequence numbers S take in a buffer that charges
\* hdr bytes of header for each.
PktsLen(hdr, db, S) == FoldFunctionOnSet(LAMBDA p, n : p.len + hdr + n, 0, db, S)

(***************************************************************************)
(* wai_t "ASSUMES the difference between 2 numbers is lower than 2^31"     *)
(* (neoip_wai.hpp:28) and nothing in rdgram_t enforces it: it is the       *)
(* environment that never lets 2^31 packets go by while a copy, an ack or  *)
(* an unacknowledged original of an old one is around.                     *)
(***************************************************************************)
InWindow(i)      == Len(sent) - i < SeqWindow
RdgramWindowOpen ==
    /\ \A m \in net \cup seqnb2ack_list : InWindow(m.id)
    /\ \A s \in DOMAIN sendbuf_pkt_db : InWindow(sendbuf_pkt_db[s].id)

RdgramInit ==
    /\ sent = <<>>
    /\ next_xmit_seqnb = 0
    /\ sendbuf_pkt_db = <<>>
    /\ sendbuf_used_len = 0
    /\ sendbuf_max_len = 0
    /\ maysend_threshold = 0
    /\ zt_maysend = FALSE
    /\ maysend_event = "none"
    /\ maysend_fresh = FALSE
    /\ stopped = FALSE
    /\ net = {}
    /\ seqnb2ack_list = {}
    /\ zt_seqnb2ack = FALSE
-----------------------------------------------------------------------------
(* The sending half.                                                        *)

sendbuf_is_limited == sendbuf_max_len # 0
maysend_is_set     == maysend_threshold # 0 /\ sendbuf_is_limited
sendbuf_free_len   == sendbuf_max_len - sendbuf_used_len

\* Mutant: reaching the threshold exactly does not count as being above it.
SendbufAddStrict(len) ==
    LET free == sendbuf_free_len - len
    IN  /\ sendbuf_used_len' = sendbuf_used_len + len
        /\ zt_maysend' = (\/ zt_maysend
                          \/ /\ maysend_is_set
                             /\ free < maysend_threshold
                             /\ free + len > maysend_threshold)

\* sendbuf_add_pkt: charge len, and wake the MAYSEND zero-timer when the free
\* room falls below the threshold.
SendbufAdd(len) ==
    LET free == sendbuf_free_len - len
    IN  /\ sendbuf_used_len' = sendbuf_used_len + len
        /\ zt_maysend' = (\/ zt_maysend
                          \/ /\ maysend_is_set
                             /\ free < maysend_threshold
                             /\ free + len >= maysend_threshold)

\* Mutant: the header is charged and not given back.
SendbufDelNoHdr(S) ==
    LET len  == FoldFunctionOnSet(LAMBDA p, n : p.len + n, 0, sendbuf_pkt_db, S)
        free == sendbuf_free_len + len
    IN  /\ sendbuf_used_len' = sendbuf_used_len - len
        /\ zt_maysend' = (\/ zt_maysend
                          \/ /\ maysend_is_set
                             /\ free >= maysend_threshold
                             /\ free - len < maysend_threshold)
        /\ sendbuf_pkt_db' = Restrict(sendbuf_pkt_db, DOMAIN sendbuf_pkt_db \ S)

\* sendbuf_del_pkt, for the packets of the sequence numbers in S, one after
\* the other: the threshold is crossed upward by one of them iff it is by all.
SendbufDel(S) ==
    LET len  == PktsLen(HdrLen, sendbuf_pkt_db, S)
        free == sendbuf_free_len + len
    IN  /\ sendbuf_used_len' = sendbuf_used_len - len
        /\ zt_maysend' = (\/ zt_maysend
                          \/ /\ maysend_is_set
                             /\ free >= maysend_threshold
                             /\ free - len < maysend_threshold)
        /\ sendbuf_pkt_db' = Restrict(sendbuf_pkt_db, DOMAIN sendbuf_pkt_db \ S)

\* pkt_from_upper, then the transmission its caller does with the result.
\* SENDBUF_FULL leaves everything alone: the action is disabled.  Nobody sends after
\* stop(), which the stack calls when the owner of the socket has let go of it.
PktFromUpper(len) ==
    LET p     == [id |-> Len(sent) + 1, len |-> len]
        total == HdrLen + len
    IN  /\ ~stopped
        /\ Len(sent) < MaxSend
        /\ RdgramWindowOpen
        /\ ~(sendbuf_is_limited /\ sendbuf_used_len + total > sendbuf_max_len)
        /\ SendbufAdd(total)
        /\ sendbuf_pkt_db' = [s \in DOMAIN sendbuf_pkt_db \cup {next_xmit_seqnb} |->
                                 IF s = next_xmit_seqnb THEN p ELSE sendbuf_pkt_db[s]]
        /\ next_xmit_seqnb' = WaiAdd(next_xmit_seqnb, 1)
        /\ sent' = Append(sent, len)
        /\ net' = net \cup {DataPkt(next_xmit_seqnb, p)}
        /\ UNCHANGED <<sendbuf_max_len, maysend_threshold, maysend_event,
                       maysend_fresh, stopped, ackVars>>

\* sendbuf_pkt_t::neoip_timeout_expire_cb: retransmit a copy, timer rearmed.
RxmitTimeout(s) ==
    /\ s \in DOMAIN sendbuf_pkt_db
    /\ net' = net \cup {DataPkt(s, sendbuf_pkt_db[s])}
    /\ UNCHANGED <<sendVars, ackVars>>

\* Mutant: the ack is taken for a cumulative one.
RecvAckPktCumulative(m) ==
    /\ m.type = "ACK_PKT"
    /\ m.seqnb \in DOMAIN sendbuf_pkt_db
    /\ SendbufDel({s \in DOMAIN sendbuf_pkt_db : ~WaiGt(s, m.seqnb)})
    /\ UNCHANGED <<sent, next_xmit_seqnb, sendbuf_max_len, maysend_threshold,
                   maysend_event, maysend_fresh, stopped, net, ackVars>>

\* recv_ack_pkt: an ack of a packet not in the send buffer is discarded.
RecvAckPkt(m) ==
    /\ m.type = "ACK_PKT"
    /\ m.seqnb \in DOMAIN sendbuf_pkt_db
    /\ SendbufDel({m.seqnb})
    /\ UNCHANGED <<sent, next_xmit_seqnb, sendbuf_max_len, maysend_threshold,
                   maysend_event, maysend_fresh, stopped, net, ackVars>>

\* zerotimer_maysend_process: the event is computed from the current state.
ZerotimerMaysend ==
    /\ zt_maysend
    /\ zt_maysend' = FALSE
    /\ maysend_event' = IF ~maysend_is_set THEN maysend_event
                        ELSE IF sendbuf_free_len < maysend_threshold
                             THEN "off" ELSE "on"
    /\ UNCHANGED <<sent, next_xmit_seqnb, sendbuf_pkt_db, sendbuf_used_len,
                   sendbuf_max_len, maysend_threshold, maysend_fresh, stopped,
                   net, ackVars>>

MaysendSetThreshold(t) ==
    /\ maysend_threshold' = t
    /\ zt_maysend' = (zt_maysend \/ (t # 0 /\ sendbuf_is_limited))
    /\ maysend_fresh' = (t # 0 /\ sendbuf_is_limited)
    /\ UNCHANGED <<sent, next_xmit_seqnb, sendbuf_pkt_db, sendbuf_used_len,
                   sendbuf_max_len, maysend_event, stopped, net, ackVars>>

\* sendbuf_set_max_len: its assertion is a precondition on the caller.
SendbufSetMaxLen(len) ==
    /\ len >= sendbuf_used_len
    /\ sendbuf_max_len' = len
    /\ maysend_fresh' = FALSE
    /\ UNCHANGED <<sent, next_xmit_seqnb, sendbuf_pkt_db, sendbuf_used_len,
                   maysend_threshold, zt_maysend, maysend_event, stopped,
                   net, ackVars>>

\* stop(): every pending packet is deleted.
Stop ==
    /\ ~stopped
    /\ stopped' = TRUE
    /\ SendbufDel(DOMAIN sendbuf_pkt_db)
    /\ UNCHANGED <<sent, next_xmit_seqnb, sendbuf_max_len, maysend_threshold,
                   maysend_event, maysend_fresh, net, ackVars>>
-----------------------------------------------------------------------------
(* The acknowledging half, and the network.                                 *)

\* recv_data_pkt for a packet the layer above accepts: schedule its ack.
ScheduleAck(m) ==
    /\ seqnb2ack_list' = seqnb2ack_list \cup {AckPkt(m.seqnb, m.id)}
    /\ zt_seqnb2ack' = TRUE

\* zerotimer_seqnb2ack_process: one ack for each entry of the list.
ZerotimerSeqnb2ack ==
    /\ zt_seqnb2ack
    /\ zt_seqnb2ack' = FALSE
    /\ net' = net \cup seqnb2ack_list
    /\ seqnb2ack_list' = {}
    /\ UNCHANGED sendVars

\* A packet stays in net, and can be received again, until it is lost.
Lose(m) ==
    /\ net' = net \ {m}
    /\ UNCHANGED <<sendVars, ackVars>>

SenderNext ==
    \/ \E len \in Lens : PktFromUpper(len)
    \/ \E s \in DOMAIN sendbuf_pkt_db : RxmitTimeout(s)
    \/ \E m \in net : RecvAckPkt(m)
    \/ ZerotimerMaysend
    \/ \E t \in Thresholds : MaysendSetThreshold(t)
    \/ \E len \in SendbufLens : SendbufSetMaxLen(len)
    \/ Stop

RdgramNext ==
    \/ SenderNext
    \/ ZerotimerSeqnb2ack
    \/ \E m \in net : Lose(m)
=============================================================================
