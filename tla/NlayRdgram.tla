----------------------------- MODULE NlayRdgram -----------------------------
(***************************************************************************)
(* A connection of type RDM: rdgram_t under the brick nlay_rdgram_t        *)
(* (neoip_nlay_brick/rdgram), whose receiver has no buffer: it acknowledges*)
(* and delivers every data packet as it comes.                             *)
(***************************************************************************)
EXTENDS Rdgram

VARIABLE recved     \* history: payloads delivered to the user at least once

rdmVars == <<rdgramVars, recved>>

RdmInit == RdgramInit /\ recved = {}

\* recv_data_pkt, neoip_rdgram_should_acked_pkt_cb of nlay_rdgram_t being TRUE.
RdmRecvDataPkt(m) ==
    /\ m.type = "DATA_PKT"
    /\ ScheduleAck(m)
    /\ recved' = recved \cup {PayloadOf(m)}
    /\ UNCHANGED <<sendVars, net>>

RdmNext ==
    \/ RdgramNext /\ UNCHANGED recved
    \/ \E m \in net : RdmRecvDataPkt(m)

RdmSpec == RdmInit /\ [][RdmNext]_rdmVars
-----------------------------------------------------------------------------
SendbufLen == PktsLen(HdrLen, sendbuf_pkt_db, DOMAIN sendbuf_pkt_db)

\* A packet leaves the send buffer before stop() only if it was delivered.
AckedIsDelivered ==
    stopped \/ \A i \in 1 .. Len(sent) :
        \/ \E s \in DOMAIN sendbuf_pkt_db : sendbuf_pkt_db[s].id = i
        \/ [id |-> i, len |-> sent[i]] \in recved

\* The counter of the send buffer is what the buffer holds, headers included,
\* and never exceeds a limit that was set (assertions of sendbuf_add_pkt and
\* sendbuf_del_pkt).
SendbufAccounting ==
    /\ sendbuf_used_len = SendbufLen
    /\ sendbuf_is_limited => sendbuf_used_len <= sendbuf_max_len

\* The user is never left with a stale MAYSEND_ON or MAYSEND_OFF: once the
\* zero-timer has run, the last event tells whether the free room reaches the
\* threshold, as long as the limit was not moved under the threshold.
MaysendAccurate ==
    maysend_fresh /\ ~zt_maysend =>
        maysend_event = IF sendbuf_free_len < maysend_threshold THEN "off" ELSE "on"
=============================================================================
