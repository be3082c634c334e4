----------------------------- MODULE NlayOrdgram -----------------------------
(***************************************************************************)
(* A connection of type SEQPACKET: ordgram_t under the brick nlay_ordgram_t*)
(* in the stack of nlay_full_t, under the socket.  A packet reaches the    *)
(* user of the socket by one of two ways: through the packet filter, when  *)
(* nlay_full_t::pkt_from_lower leaves a packet for the socket to notify,   *)
(* or as an event of the stack, when the zero-timer of ordgram_t delivers. *)
(* The other bricks of the stack pass data packets through unchanged.      *)
(***************************************************************************)
EXTENDS Ordgram

VARIABLES app_recved,   \* payloads the socket notified as RECVED_DATA
          to_lower      \* payloads the socket sent to the peer, unframed

nlayVars == <<vars, app_recved, to_lower>>

NInit == Init /\ app_recved = <<>> /\ to_lower = {}

Fresh == SubSeq(delivered', Len(delivered) + 1, Len(delivered'))

\* RECVED_DATA of the udp socket: what the filter leaves is notified.
FilterToUpper(m) ==
    /\ RecvDataPkt(m)
    /\ app_recved' = app_recved \o Fresh
    /\ UNCHANGED to_lower

\* PKT_TO_UPPER of ordgram_t: notify_pkt_to_upper of nlay_full_t emits a
\* PKT_TO_LOWER event, which the socket sends on the network.
NotifyPktToUpper ==
    /\ ZerotimerDeliver
    /\ to_lower' = to_lower \cup {Fresh[i] : i \in DOMAIN Fresh}
    /\ UNCHANGED app_recved

NNext ==
    \/ /\ RdgramNext
       /\ sent' # sent => RecvbufWindowOpen
       /\ UNCHANGED <<recvVars, app_recved, to_lower>>
    \/ \E m \in net : FilterToUpper(m)
    \/ NotifyPktToUpper

NSpec == NInit /\ [][NNext]_nlayVars

(***************************************************************************)
(* Fairness.  The timer of a packet in the send buffer and the zero-timer  *)
(* of ordgram_t expire: weak fairness.  The network is fair-lossy: a       *)
(* packet sent again and again gets through again and again, so its        *)
(* reception is strongly fair.  Nothing is assumed of the acks.            *)
(***************************************************************************)
Fairness ==
    /\ WF_nlayVars(NotifyPktToUpper)
    /\ \A i \in 1 .. MaxSend :
        /\ WF_nlayVars(\E s \in DOMAIN sendbuf_pkt_db :
                          /\ sendbuf_pkt_db[s].id = i
                          /\ RxmitTimeout(s)
                          /\ UNCHANGED <<recvVars, app_recved, to_lower>>)
        /\ SF_nlayVars(\E m \in net : m.id = i /\ FilterToUpper(m))

NFairSpec == NSpec /\ Fairness
-----------------------------------------------------------------------------
(* Properties.                                                              *)

\* The receive buffer has no room for the one packet that would empty it, which
\* neoip_rdgram_should_acked_pkt_cb then refuses for ever.
Stalled ==
    /\ Len(delivered) < Len(sent)
    /\ next_seqnb_to_deliver \notin DOMAIN recvbuf_pkt_db
    /\ recvbuf_used_len + sent[Len(delivered) + 1] > RecvbufMaxLen

\* Whatever was accepted is delivered in the end, by pkt_from_lower or by the
\* zero-timer of ordgram_t, unless the sender stops; a full receive buffer is the
\* only other way for a connection to come to a halt.  (At most MaxSend packets are
\* accepted, so this says that each one of them is delivered.)
EventuallyDelivered ==
    []<>(Len(delivered) = Len(sent) \/ stopped \/ Stalled)

\* What a SEQPACKET connection is for ("ordered reliable message" of nlay_type_t):
\* the user of the socket receives what the other end sent in order and without a
\* hole, whichever of the two ways a packet takes.  What notify_pkt_to_upper turns
\* round is missing, although it was acknowledged, so the code does not do this.
UserInOrder ==
    \A i \in 1 .. Len(app_recved) : app_recved[i] = [id |-> i, len |-> sent[i]]
=============================================================================
