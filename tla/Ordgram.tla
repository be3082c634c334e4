------------------------------- MODULE Ordgram -------------------------------
(***************************************************************************)
(* The ordered reliable datagram layer, ordgram_t (neoip_proto/ordgram):   *)
(* an rdgram_t whose receiver keeps the packets that arrive too early in a *)
(* receive buffer of bounded size and delivers in sequence order.  The     *)
(* packet that is next in order is delivered at once, through the packet   *)
(* filter; those behind it, from the receive buffer, by a zero-timer.      *)
(***************************************************************************)
EXTENDS Rdgram

CONSTANT RecvbufMaxLen   \* recvbuf_max_len

ASSUME OrdgramAssumption == RecvbufMaxLen \in Nat

VARIABLES
    next_seqnb_to_deliver,
    recvbuf_pkt_db,      \* early packets: seqnb -> payload
    recvbuf_used_len,
    zt_deliver,          \* zerotimer_deliver is running
    delivered            \* history: payloads handed to the layer above

recvVars == <<next_seqnb_to_deliver, recvbuf_pkt_db, recvbuf_used_len,
              zt_deliver, delivered>>
vars == <<rdgramVars, recvVars>>

Init ==
    /\ RdgramInit
    /\ next_seqnb_to_deliver = 0
    /\ recvbuf_pkt_db = <<>>
    /\ recvbuf_used_len = 0
    /\ zt_deliver = FALSE
    /\ delivered = <<>>

\* Mutant: the room left in the receive buffer is not looked at.
ShouldAckAlways(m) == TRUE

\* neoip_rdgram_should_acked_pkt_cb
ShouldAck(m) ==
    \/ WaiLt(m.seqnb, next_seqnb_to_deliver)
    \/ m.seqnb \in DOMAIN recvbuf_pkt_db
    \/ recvbuf_used_len + m.len <= RecvbufMaxLen

\* pkt_from_lower, packet already delivered: swallowed, acknowledged again.
RecvObsolete(m) ==
    /\ WaiLt(m.seqnb, next_seqnb_to_deliver)
    /\ UNCHANGED recvVars

\* pkt_from_lower_outoforder
RecvOutoforder(m) ==
    /\ WaiGt(m.seqnb, next_seqnb_to_deliver)
    /\ IF m.seqnb \in DOMAIN recvbuf_pkt_db
       THEN UNCHANGED <<recvbuf_pkt_db, recvbuf_used_len>>
       ELSE /\ recvbuf_used_len' = recvbuf_used_len + m.len
            /\ recvbuf_pkt_db' = [s \in DOMAIN recvbuf_pkt_db \cup {m.seqnb} |->
                                     IF s = m.seqnb THEN PayloadOf(m)
                                                    ELSE recvbuf_pkt_db[s]]
    /\ UNCHANGED <<next_seqnb_to_deliver, zt_deliver, delivered>>

\* Mutant: next_seqnb_to_deliver is not incremented.
RecvInOrderNoIncr(m) ==
    /\ m.seqnb = next_seqnb_to_deliver
    /\ delivered' = Append(delivered, PayloadOf(m))
    /\ zt_deliver' = (zt_deliver \/ DOMAIN recvbuf_pkt_db # {})
    /\ UNCHANGED <<recvbuf_pkt_db, recvbuf_used_len, next_seqnb_to_deliver>>

\* Mutant: zerotimer_deliver is not started.
RecvInOrderNoTimer(m) ==
    /\ m.seqnb = next_seqnb_to_deliver
    /\ next_seqnb_to_deliver' = WaiAdd(next_seqnb_to_deliver, 1)
    /\ delivered' = Append(delivered, PayloadOf(m))
    /\ UNCHANGED <<recvbuf_pkt_db, recvbuf_used_len, zt_deliver>>

\* Mutant: a packet that is merely not obsolete passes for the next one.
RecvInOrderGeq(m) ==
    /\ ~WaiLt(m.seqnb, next_seqnb_to_deliver)
    /\ next_seqnb_to_deliver' = WaiAdd(m.seqnb, 1)
    /\ delivered' = Append(delivered, PayloadOf(m))
    /\ zt_deliver' = (zt_deliver \/ DOMAIN recvbuf_pkt_db # {})
    /\ UNCHANGED <<recvbuf_pkt_db, recvbuf_used_len>>

\* pkt_from_lower, packet in order: it leaves through the filter.
RecvInOrder(m) ==
    /\ m.seqnb = next_seqnb_to_deliver
    /\ next_seqnb_to_deliver' = WaiAdd(next_seqnb_to_deliver, 1)
    /\ delivered' = Append(delivered, PayloadOf(m))
    /\ zt_deliver' = (zt_deliver \/ DOMAIN recvbuf_pkt_db # {})
    /\ UNCHANGED <<recvbuf_pkt_db, recvbuf_used_len>>

\* Mutant: the ack is scheduled before the layer above is asked.
RecvDataPktAckFirst(m) ==
    /\ m.type = "DATA_PKT"
    /\ ScheduleAck(m)
    /\ \/ ShouldAck(m) /\ (RecvObsolete(m) \/ RecvOutoforder(m) \/ RecvInOrder(m))
       \/ ~ShouldAck(m) /\ UNCHANGED recvVars
    /\ UNCHANGED <<sendVars, net>>

\* A refused packet is nulled before any of this: the action is disabled.
RecvDataPkt(m) ==
    /\ m.type = "DATA_PKT"
    /\ ShouldAck(m)
    /\ ScheduleAck(m)
    /\ RecvObsolete(m) \/ RecvOutoforder(m) \/ RecvInOrder(m)
    /\ UNCHANGED <<sendVars, net>>

\* The packets the zero-timer finds obsolete and erases.
ObsoletePkts == {s \in DOMAIN recvbuf_pkt_db : WaiLt(s, next_seqnb_to_deliver)}

\* The k packets that follow next_seqnb_to_deliver.
NextPkts(k) == {WaiAdd(next_seqnb_to_deliver, i) : i \in 0 .. (k - 1)}

RecvbufLen(S) == PktsLen(0, recvbuf_pkt_db, S)

\* neoip_zerotimer_expire_cb: obsolete packets are erased, which leaves
\* recvbuf_used_len alone; then the packets in order are delivered, as many as
\* there are.
ZerotimerDeliver ==
    /\ zt_deliver
    /\ zt_deliver' = FALSE
    /\ \E k \in 0 .. MaxSend :
        LET kept == DOMAIN recvbuf_pkt_db \ ObsoletePkts
        IN  /\ NextPkts(k) \subseteq kept
            /\ WaiAdd(next_seqnb_to_deliver, k) \notin kept
            /\ recvbuf_used_len' = recvbuf_used_len - RecvbufLen(NextPkts(k))
            /\ delivered' = delivered \o
                  [i \in 1 .. k |-> recvbuf_pkt_db[WaiAdd(next_seqnb_to_deliver, i - 1)]]
            /\ next_seqnb_to_deliver' = WaiAdd(next_seqnb_to_deliver, k)
            /\ recvbuf_pkt_db' = Restrict(recvbuf_pkt_db, kept \ NextPkts(k))
    /\ UNCHANGED rdgramVars

\* A packet left in the receive buffer is a trace of an old one too.
RecvbufWindowOpen ==
    \A s \in DOMAIN recvbuf_pkt_db : InWindow(recvbuf_pkt_db[s].id)

Next ==
    \/ /\ RdgramNext
       /\ sent' # sent => RecvbufWindowOpen
       /\ UNCHANGED recvVars
    \/ \E m \in net : RecvDataPkt(m)
    \/ ZerotimerDeliver

Spec == Init /\ [][Next]_vars
-----------------------------------------------------------------------------
(* Properties.                                                              *)

\* The two byte counters are the business of RecvbufBounded here and of
\* SendbufAccounting in NlayRdgram.
TypeOK ==
    /\ sent \in Seq(Lens) /\ Len(sent) <= MaxSend
    /\ next_xmit_seqnb \in WaiNum
    /\ DOMAIN sendbuf_pkt_db \subseteq WaiNum
    /\ \A s \in DOMAIN sendbuf_pkt_db : sendbuf_pkt_db[s] \in Payload
    /\ sendbuf_max_len \in Nat
    /\ maysend_threshold \in Nat
    /\ zt_maysend \in BOOLEAN
    /\ maysend_event \in {"none", "on", "off"}
    /\ maysend_fresh \in BOOLEAN
    /\ stopped \in BOOLEAN
    /\ net \subseteq DataPkts \cup AckPkts
    /\ seqnb2ack_list \subseteq AckPkts
    /\ zt_seqnb2ack \in BOOLEAN
    /\ next_seqnb_to_deliver \in WaiNum
    /\ DOMAIN recvbuf_pkt_db \subseteq WaiNum
    /\ \A s \in DOMAIN recvbuf_pkt_db : recvbuf_pkt_db[s] \in Payload
    /\ zt_deliver \in BOOLEAN
    /\ delivered \in Seq(Payload)

\* Whatever the network does, ordgram_t hands a prefix of what the sender's user
\* sent to the layer above: nothing twice, nothing skipped, nothing reordered, both
\* through the filter (ordgram_t::pkt_from_lower) and through the zero-timer.
DeliveredInOrder ==
    /\ Len(delivered) <= Len(sent)
    /\ \A i \in 1 .. Len(delivered) : delivered[i] = [id |-> i, len |-> sent[i]]

\* A packet leaves the send buffer (recv_ack_pkt) only when the receiver has
\* delivered it or holds it in its receive buffer: an ack never loses data.
AckedIsKept ==
    stopped \/ \A i \in 1 .. Len(sent) :
        \/ \E s \in DOMAIN sendbuf_pkt_db : sendbuf_pkt_db[s].id = i
        \/ i <= Len(delivered)
        \/ \E s \in DOMAIN recvbuf_pkt_db : recvbuf_pkt_db[s].id = i

\* A packet that is in the receive buffer when its turn comes is never
\* forgotten there: the zero-timer that delivers it is running.
DeliveryScheduled ==
    next_seqnb_to_deliver \in DOMAIN recvbuf_pkt_db => zt_deliver

\* recvbuf_used_len, from which neoip_rdgram_should_acked_pkt_cb decides, is
\* never less than what the receive buffer holds and never above the limit:
\* the buffer is bounded and the unsigned counter does not underflow.
RecvbufBounded ==
    /\ RecvbufLen(DOMAIN recvbuf_pkt_db) <= recvbuf_used_len
    /\ recvbuf_used_len <= RecvbufMaxLen

\* The inductive invariant behind the three properties above: every sequence
\* number stands for the payload it was given to, every trace of a payload
\* (packet, ack, buffer entry) is within the window of the sender and agrees
\* with what was sent, and an ack is in flight only for a payload received.
SeqnbOf(i)  == (i - 1) % SeqMod
Genuine(p)  == p.id \in 1 .. Len(sent) /\ p.len = sent[p.id]
Recent(i)   == Len(sent) - i <= SeqWindow
Received(i) == \/ i <= Len(delivered)
               \/ \E s \in DOMAIN recvbuf_pkt_db : recvbuf_pkt_db[s].id = i

SeqnbsAgree ==
    /\ next_xmit_seqnb = Len(sent) % SeqMod
    /\ next_seqnb_to_deliver = Len(delivered) % SeqMod
    /\ Recent(Len(delivered) + 1)

SendbufAgrees ==
    \A s \in DOMAIN sendbuf_pkt_db :
        /\ s = SeqnbOf(sendbuf_pkt_db[s].id)
        /\ Genuine(sendbuf_pkt_db[s])
        /\ Recent(sendbuf_pkt_db[s].id)

RecvbufAgrees ==
    \A s \in DOMAIN recvbuf_pkt_db :
        /\ s = SeqnbOf(recvbuf_pkt_db[s].id)
        /\ Genuine(recvbuf_pkt_db[s])
        /\ Recent(recvbuf_pkt_db[s].id)

PktsAgree ==
    \A m \in net \cup seqnb2ack_list :
        /\ m.seqnb = SeqnbOf(m.id)
        /\ m.id \in 1 .. Len(sent)
        /\ Recent(m.id)
        /\ m.type = "DATA_PKT" => m.len = sent[m.id]
        /\ m.type = "ACK_PKT" => Received(m.id)

IndInv ==
    /\ TypeOK
    /\ DeliveredInOrder
    /\ SeqnbsAgree
    /\ SendbufAgrees
    /\ RecvbufAgrees
    /\ PktsAgree
    /\ AckedIsKept
    /\ DeliveryScheduled

\* Ordgram implements the abstract ordered channel.
Channel == INSTANCE OrdChannel
             WITH Lens <- Lens, MaxSend <- MaxSend, sent <- sent, delivered <- delivered
ImplementsChannel == Channel!Spec
=============================================================================
