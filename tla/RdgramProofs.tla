--------------------------- MODULE RdgramProofs ---------------------------
(***************************************************************************)
(* Proofs about the two connections above Rdgram, for every value of their *)
(* constants: Ordgram with NlayOrdgram above it, and NlayRdgram.           *)
(***************************************************************************)
EXTENDS NlayOrdgram, NlayRdgram, NatLemmas

LEMMA SeqModPos == SeqMod \in Nat \ {0}
BY SeqModAssumption

\* wai_t compares as the numbers do when they are less than half apart.
LEMMA WaiCmpIsDifference ==
    ASSUME NEW a \in Nat, NEW b \in Nat, a - b < WaiHalf, b - a <= WaiHalf
    PROVE  WaiCmp(a % SeqMod, b % SeqMod) = a - b
<1> USE SeqModAssumption
<1>1. a = SeqMod * (a \div SeqMod) + (a % SeqMod)
  OBVIOUS
<1>2. b = SeqMod * (b \div SeqMod) + (b % SeqMod)
  OBVIOUS
<1> DEFINE k == (a \div SeqMod) - (b \div SeqMod)
           d == (a % SeqMod) - (b % SeqMod)
<1>3. a - b = SeqMod * k + d /\ k \in Int /\ d \in Int
  BY <1>1, <1>2, Z3
<1>4. d < SeqMod /\ -SeqMod < d
  OBVIOUS
<1>5. SeqMod = 2 * WaiHalf /\ WaiHalf \in Nat
  BY DEF WaiHalf
<1> HIDE DEF k, d
<1>6. k \in {-1, 0, 1}
  BY <1>3, <1>4, <1>5, Z3
<1>7. (d >= 0 => d % SeqMod = d) /\ (d < 0 => d % SeqMod = d + SeqMod)
  BY <1>3, <1>4
<1> QED BY <1>3, <1>4, <1>5, <1>6, <1>7 DEF WaiCmp, d

\* Incrementing a wai_t wraps it around as the number it stands for.
LEMMA WaiAddIsSum ==
    ASSUME NEW a \in Nat, NEW n \in Nat
    PROVE  WaiAdd(a % SeqMod, n) = (a + n) % SeqMod
BY ModSum, SeqModPos DEF WaiAdd

\* The elements of a concatenation.
LEMMA ConcatIndex ==
    ASSUME NEW T, NEW s \in Seq(T), NEW t \in Seq(T)
    PROVE  /\ \A i \in 1 .. Len(s) : (s \o t)[i] = s[i]
           /\ \A i \in Len(s) + 1 .. Len(s) + Len(t) : (s \o t)[i] = t[i - Len(s)]
OBVIOUS

\* The comparisons of two traces of packets, both within the window.
LEMMA CompareInWindow ==
    ASSUME NEW i \in Nat \ {0}, NEW d \in Nat, i - 1 - d <= SeqWindow, d - i + 1 <= SeqWindow + 1
    PROVE  /\ WaiLt(SeqnbOf(i), d % SeqMod) <=> i <= d
           /\ WaiGt(SeqnbOf(i), d % SeqMod) <=> i > d + 1
           /\ SeqnbOf(i) = d % SeqMod <=> i = d + 1
<1>1. SeqWindow \in Nat /\ SeqWindow < WaiHalf
  BY RdgramAssumption
<1>2. WaiHalf \in Nat /\ SeqMod = 2 * WaiHalf
  BY SeqModAssumption DEF WaiHalf
<1>a. i - 1 \in Nat /\ SeqMod \in Nat
  BY <1>2
<1>b. (i - 1) - d < WaiHalf /\ d - (i - 1) <= WaiHalf
  BY <1>1, <1>2
<1>3. WaiCmp(SeqnbOf(i), d % SeqMod) = i - 1 - d
  BY <1>a, <1>b, WaiCmpIsDifference DEF SeqnbOf
<1>c. (i - 1) - d < SeqMod /\ d - (i - 1) < SeqMod
  BY <1>1, <1>2
<1>d. (i - 1) % SeqMod = d % SeqMod => i - 1 = d
  BY <1>a, <1>c, ModInjective, SeqModPos
<1>4. SeqnbOf(i) = d % SeqMod <=> i = d + 1
  BY <1>d DEF SeqnbOf
<1> QED BY <1>3, <1>4 DEF WaiLt, WaiGt

\* Two traces within the window that bear the same number are of one packet.
LEMMA SameSeqnb ==
    ASSUME NEW i \in Nat \ {0}, NEW j \in Nat \ {0}, i - j <= SeqWindow, j - i <= SeqWindow,
           SeqnbOf(i) = SeqnbOf(j)
    PROVE  i = j
<1>1. SeqWindow \in Nat /\ SeqWindow < SeqMod
  BY RdgramAssumption, SeqModAssumption DEF WaiHalf
<1>2. i - 1 \in Nat /\ j - 1 \in Nat /\ (i - 1) % SeqMod = (j - 1) % SeqMod
  BY DEF SeqnbOf
<1>3. (i - 1) - (j - 1) < SeqMod /\ (j - 1) - (i - 1) < SeqMod
  BY <1>1, SeqModAssumption
<1>4. i - 1 = j - 1
  BY <1>2, <1>3, ModInjective, SeqModPos
<1> QED BY <1>4
-----------------------------------------------------------------------------
\* The arithmetic every step starts from.
LEMMA Lengths ==
    ASSUME TypeOK, DeliveredInOrder
    PROVE  /\ Len(sent) \in Nat /\ Len(delivered) \in Nat
           /\ Len(delivered) <= Len(sent)
           /\ SeqWindow \in Nat /\ MaxSend \in Nat
           /\ \A i \in 1 .. Len(sent) : sent[i] \in Lens
BY RdgramAssumption DEF TypeOK, DeliveredInOrder

\* The initial state satisfies the inductive invariant.
LEMMA InitInv == Init => IndInv
<1> SUFFICES ASSUME Init PROVE IndInv
  OBVIOUS
<1> USE SeqModAssumption, RdgramAssumption DEF Init, RdgramInit
<1>1. TypeOK
  <2>1. sent \in Seq(Lens) /\ Len(sent) <= MaxSend /\ delivered \in Seq(Payload)
    OBVIOUS
  <2>2. DOMAIN sendbuf_pkt_db = {} /\ DOMAIN recvbuf_pkt_db = {}
    OBVIOUS
  <2>3. next_xmit_seqnb \in WaiNum /\ next_seqnb_to_deliver \in WaiNum
    BY DEF WaiNum
  <2> QED BY <2>1, <2>2, <2>3 DEF TypeOK
<1>2. DeliveredInOrder
  BY DEF DeliveredInOrder
<1>3. SeqnbsAgree
  BY DEF SeqnbsAgree, Recent
<1>4. SendbufAgrees /\ RecvbufAgrees /\ PktsAgree /\ AckedIsKept /\ DeliveryScheduled
  BY DEF SendbufAgrees, RecvbufAgrees, PktsAgree, AckedIsKept, DeliveryScheduled
<1> QED BY <1>1, <1>2, <1>3, <1>4 DEF IndInv

\* The user sends a packet.
LEMMA SendInv ==
    ASSUME IndInv, NEW len \in Lens, PktFromUpper(len), RecvbufWindowOpen,
           UNCHANGED recvVars
    PROVE  IndInv'
<1> DEFINE n == Len(sent)
           p == [id |-> n + 1, len |-> len]
<1>0. /\ ~stopped /\ n < MaxSend /\ RdgramWindowOpen
      /\ sent' = Append(sent, len)
      /\ next_xmit_seqnb' = WaiAdd(next_xmit_seqnb, 1)
      /\ sendbuf_pkt_db' = [s \in DOMAIN sendbuf_pkt_db \cup {next_xmit_seqnb} |->
                              IF s = next_xmit_seqnb THEN p ELSE sendbuf_pkt_db[s]]
      /\ net' = net \cup {DataPkt(next_xmit_seqnb, p)}
      /\ zt_maysend' \in BOOLEAN
      /\ UNCHANGED <<sendbuf_max_len, maysend_threshold, maysend_event,
                     maysend_fresh, stopped, seqnb2ack_list, zt_seqnb2ack,
                     next_seqnb_to_deliver, recvbuf_pkt_db, recvbuf_used_len,
                     zt_deliver, delivered>>
  BY DEF PktFromUpper, SendbufAdd, IndInv, TypeOK, recvVars, ackVars
<1>1. /\ n \in Nat /\ Len(delivered) \in Nat /\ Len(delivered) <= n
      /\ SeqWindow \in Nat /\ MaxSend \in Nat
  BY Lengths DEF IndInv
<1>2. /\ Len(sent') = n + 1 /\ sent' \in Seq(Lens) /\ sent'[n + 1] = len
      /\ \A i \in 1 .. n : sent'[i] = sent[i]
  BY <1>0 DEF IndInv, TypeOK
<1>3. next_xmit_seqnb = SeqnbOf(n + 1) /\ next_xmit_seqnb \in WaiNum
  BY <1>1 DEF IndInv, SeqnbsAgree, SeqnbOf, TypeOK
<1>4. next_xmit_seqnb' = (n + 1) % SeqMod /\ next_xmit_seqnb' \in WaiNum
  <2>1. next_xmit_seqnb' = (n + 1) % SeqMod
    BY <1>0, <1>1, WaiAddIsSum DEF IndInv, SeqnbsAgree
  <2> QED BY <2>1, <1>1, SeqModAssumption DEF WaiNum
<1>5. p \in Payload /\ DataPkt(next_xmit_seqnb, p) \in DataPkts
  BY <1>0, <1>1, <1>3 DEF Payload, DataPkt, DataPkts
<1>6. next_xmit_seqnb \notin DOMAIN sendbuf_pkt_db
  <2> SUFFICES ASSUME next_xmit_seqnb \in DOMAIN sendbuf_pkt_db PROVE FALSE
    OBVIOUS
  <2> DEFINE j == sendbuf_pkt_db[next_xmit_seqnb].id
  <2>1. j \in 1 .. n /\ n - j < SeqWindow /\ SeqnbOf(j) = SeqnbOf(n + 1)
    BY <1>0, <1>3 DEF IndInv, SendbufAgrees, Genuine, RdgramWindowOpen, InWindow
  <2> HIDE DEF j
  <2>2. j \in Nat \ {0} /\ n + 1 \in Nat \ {0} /\ n + 1 - j <= SeqWindow /\ j - (n + 1) <= SeqWindow
    BY <2>1, <1>1
  <2>3. j = n + 1
    BY <2>1, <2>2, SameSeqnb
  <2> QED BY <2>1, <2>3, <1>1
<1>7. TypeOK'
  <2>1. /\ DOMAIN sendbuf_pkt_db' \subseteq WaiNum
        /\ \A s \in DOMAIN sendbuf_pkt_db' : sendbuf_pkt_db'[s] \in Payload
    BY <1>0, <1>3, <1>5 DEF IndInv, TypeOK
  <2>2. net' \subseteq DataPkts \cup AckPkts
    BY <1>0, <1>5 DEF IndInv, TypeOK
  <2>3. sent' \in Seq(Lens) /\ Len(sent') <= MaxSend
    BY <1>0, <1>1, <1>2
  <2> QED BY <2>1, <2>2, <2>3, <1>0, <1>4 DEF IndInv, TypeOK
<1>8. DeliveredInOrder'
  BY <1>0, <1>1, <1>2 DEF IndInv, DeliveredInOrder
<1>9. SeqnbsAgree'
  <2>1. n + 1 - (Len(delivered) + 1) <= SeqWindow
    <3>1. CASE Len(delivered) = n
      BY <3>1, <1>1
    <3>2. CASE Len(delivered) < n
      <4>1. \/ \E s \in DOMAIN sendbuf_pkt_db : sendbuf_pkt_db[s].id = Len(delivered) + 1
            \/ \E s \in DOMAIN recvbuf_pkt_db : recvbuf_pkt_db[s].id = Len(delivered) + 1
        BY <3>2, <1>0, <1>1, SMTT(30) DEF IndInv, AckedIsKept
      <4>2. n - (Len(delivered) + 1) < SeqWindow
        BY <4>1, <1>0 DEF RdgramWindowOpen, RecvbufWindowOpen, InWindow
      <4> QED BY <4>2, <1>1
    <3> QED BY <3>1, <3>2, <1>1
  <2> QED BY <2>1, <1>0, <1>2, <1>4 DEF IndInv, SeqnbsAgree, Recent
<1>10. SendbufAgrees'
  <2> SUFFICES ASSUME NEW s \in DOMAIN sendbuf_pkt_db'
               PROVE  /\ s = SeqnbOf(sendbuf_pkt_db'[s].id)
                      /\ Genuine(sendbuf_pkt_db[s])'
                      /\ Recent(sendbuf_pkt_db[s].id)'
    BY DEF SendbufAgrees, SeqnbOf
  <2>1. CASE s = next_xmit_seqnb
    BY <2>1, <1>0, <1>1, <1>2, <1>3 DEF Genuine, Recent
  <2>2. CASE s # next_xmit_seqnb
    <3>1. s \in DOMAIN sendbuf_pkt_db /\ sendbuf_pkt_db'[s] = sendbuf_pkt_db[s]
      BY <2>2, <1>0
    <3>2. /\ s = SeqnbOf(sendbuf_pkt_db[s].id) /\ Genuine(sendbuf_pkt_db[s])
          /\ n - sendbuf_pkt_db[s].id < SeqWindow
      BY <3>1, <1>0 DEF IndInv, SendbufAgrees, RdgramWindowOpen, InWindow
    <3> QED BY <3>1, <3>2, <1>1, <1>2 DEF Genuine, Recent
  <2> QED BY <2>1, <2>2
<1>11. RecvbufAgrees'
  BY <1>0, <1>1, <1>2 DEF IndInv, RecvbufAgrees, RecvbufWindowOpen, InWindow, Genuine, Recent, SeqnbOf
<1>12. PktsAgree'
  <2> SUFFICES ASSUME NEW m \in (net \cup seqnb2ack_list)'
               PROVE  /\ m.seqnb = SeqnbOf(m.id) /\ m.id \in 1 .. n + 1
                      /\ n + 1 - m.id <= SeqWindow
                      /\ m.type = "DATA_PKT" => m.len = sent'[m.id]
                      /\ m.type = "ACK_PKT" => Received(m.id)
    BY <1>0, <1>2 DEF PktsAgree, SeqnbOf, Recent, Received
  <2>1. CASE m = DataPkt(next_xmit_seqnb, p)
    BY <2>1, <1>1, <1>2, <1>3 DEF DataPkt
  <2>2. CASE m \in net \cup seqnb2ack_list
    BY <2>2, <1>0, <1>1, <1>2 DEF IndInv, PktsAgree, RdgramWindowOpen, InWindow
  <2> QED BY <2>1, <2>2, <1>0
<1>13. AckedIsKept'
  <2> SUFFICES ASSUME NEW i \in 1 .. n + 1
               PROVE  \/ \E s \in DOMAIN sendbuf_pkt_db' : sendbuf_pkt_db'[s].id = i
                      \/ i <= Len(delivered)
                      \/ \E s \in DOMAIN recvbuf_pkt_db : recvbuf_pkt_db[s].id = i
    BY <1>0, <1>2 DEF AckedIsKept
  <2>1. CASE i = n + 1
    BY <2>1, <1>0
  <2>2. CASE i \in 1 .. n
    BY <2>2, <1>0, <1>6 DEF IndInv, AckedIsKept
  <2> QED BY <2>1, <2>2, <1>1
<1>14. DeliveryScheduled'
  BY <1>0 DEF IndInv, DeliveryScheduled
<1> QED BY <1>7, <1>8, <1>9, <1>10, <1>11, <1>12, <1>13, <1>14 DEF IndInv

\* The steps that touch neither a buffer nor what is delivered: timers, the
\* network, the user's settings.
QuietStep ==
    /\ UNCHANGED <<sent, next_xmit_seqnb, sendbuf_pkt_db, stopped, recvVars>>
    /\ \A m \in net' \cup seqnb2ack_list' :
           \/ m \in net \cup seqnb2ack_list
           \/ \E s \in DOMAIN sendbuf_pkt_db : m = DataPkt(s, sendbuf_pkt_db[s])

\* A step that touches no buffer keeps the inductive invariant.
LEMMA QuietInv ==
    ASSUME IndInv, QuietStep, TypeOK'
    PROVE  IndInv'
<1> USE DEF QuietStep, recvVars
<1>1. DeliveredInOrder' /\ SeqnbsAgree' /\ AckedIsKept' /\ DeliveryScheduled'
  BY DEF IndInv, DeliveredInOrder, SeqnbsAgree, AckedIsKept, DeliveryScheduled, Recent
<1>2. SendbufAgrees' /\ RecvbufAgrees'
  BY DEF IndInv, SendbufAgrees, RecvbufAgrees, Genuine, Recent, SeqnbOf
<1>3. PktsAgree'
  <2> SUFFICES ASSUME NEW m \in net' \cup seqnb2ack_list'
               PROVE  /\ m.seqnb = SeqnbOf(m.id) /\ m.id \in 1 .. Len(sent)
                      /\ Recent(m.id)
                      /\ m.type = "DATA_PKT" => m.len = sent[m.id]
                      /\ m.type = "ACK_PKT" => Received(m.id)
    BY DEF PktsAgree, SeqnbOf, Recent, Received
  <2>1. CASE m \in net \cup seqnb2ack_list
    BY <2>1 DEF IndInv, PktsAgree
  <2>2. CASE \E s \in DOMAIN sendbuf_pkt_db : m = DataPkt(s, sendbuf_pkt_db[s])
    BY <2>2 DEF IndInv, SendbufAgrees, Genuine, DataPkt
  <2> QED BY <2>1, <2>2
<1> QED BY <1>1, <1>2, <1>3 DEF IndInv

\* The steps of rdgram_t that shrink the send buffer: an ack, or stop().
LEMMA ShrinkInv ==
    ASSUME IndInv, TypeOK', NEW S \in SUBSET DOMAIN sendbuf_pkt_db,
           sendbuf_pkt_db' = Restrict(sendbuf_pkt_db, DOMAIN sendbuf_pkt_db \ S),
           UNCHANGED <<sent, next_xmit_seqnb, net, seqnb2ack_list, recvVars>>,
           stopped' \/ (stopped' = stopped /\ \A s \in S : Received(sendbuf_pkt_db[s].id))
    PROVE  IndInv'
<1> USE DEF recvVars
<1>0. /\ DOMAIN sendbuf_pkt_db' = DOMAIN sendbuf_pkt_db \ S
      /\ \A s \in DOMAIN sendbuf_pkt_db \ S : sendbuf_pkt_db'[s] = sendbuf_pkt_db[s]
  BY DEF Restrict
<1>1. DeliveredInOrder' /\ SeqnbsAgree' /\ DeliveryScheduled'
  BY DEF IndInv, DeliveredInOrder, SeqnbsAgree, DeliveryScheduled, Recent
<1>2. SendbufAgrees' /\ RecvbufAgrees'
  <2>1. SendbufAgrees'
    BY <1>0 DEF IndInv, SendbufAgrees, Genuine, Recent, SeqnbOf
  <2>2. RecvbufAgrees'
    BY DEF IndInv, RecvbufAgrees, Genuine, Recent, SeqnbOf
  <2> QED BY <2>1, <2>2
<1>3. PktsAgree'
  BY DEF IndInv, PktsAgree, SeqnbOf, Recent, Received
<1>4. AckedIsKept'
  <2>1. CASE stopped'
    BY <2>1 DEF AckedIsKept
  <2>2. CASE ~stopped' /\ ~stopped /\ \A s \in S : Received(sendbuf_pkt_db[s].id)
    <3> SUFFICES ASSUME NEW i \in 1 .. Len(sent)
                 PROVE  (\E s \in DOMAIN sendbuf_pkt_db' : sendbuf_pkt_db'[s].id = i) \/ Received(i)
      BY DEF AckedIsKept, Received
    <3>1. (\E s \in DOMAIN sendbuf_pkt_db : sendbuf_pkt_db[s].id = i) \/ Received(i)
      BY <2>2 DEF IndInv, AckedIsKept, Received
    <3> QED BY <3>1, <2>2, <1>0
  <2> QED BY <2>1, <2>2 DEF IndInv, TypeOK
<1> QED BY <1>1, <1>2, <1>3, <1>4 DEF IndInv

\* Every step of the rdgram_t halves and of the network keeps it.
LEMMA RdgramInv ==
    ASSUME IndInv, RdgramNext, sent' # sent => RecvbufWindowOpen, UNCHANGED recvVars
    PROVE  IndInv'
<1>1. CASE \E len \in Lens : PktFromUpper(len)
  <2>1. PICK len \in Lens : PktFromUpper(len)
    BY <1>1
  <2>2. sent' # sent
    BY <2>1 DEF PktFromUpper, IndInv, TypeOK
  <2> QED BY <2>1, <2>2, SendInv
<1>2. CASE \E s \in DOMAIN sendbuf_pkt_db : RxmitTimeout(s)
  <2>1. PICK s \in DOMAIN sendbuf_pkt_db : RxmitTimeout(s)
    BY <1>2
  <2>2. DataPkt(s, sendbuf_pkt_db[s]) \in DataPkts
    BY DEF IndInv, TypeOK, DataPkt, DataPkts, Payload
  <2>3. TypeOK' /\ QuietStep
    BY <2>1, <2>2 DEF RxmitTimeout, IndInv, TypeOK, QuietStep, sendVars, ackVars, recvVars
  <2> QED BY <2>3, QuietInv
<1>3. CASE \E m \in net : RecvAckPkt(m)
  <2>1. PICK m \in net : RecvAckPkt(m)
    BY <1>3
  <2>2. /\ m.type = "ACK_PKT" /\ m.seqnb \in DOMAIN sendbuf_pkt_db
        /\ sendbuf_pkt_db' = Restrict(sendbuf_pkt_db, DOMAIN sendbuf_pkt_db \ {m.seqnb})
        /\ UNCHANGED <<sent, next_xmit_seqnb, net, seqnb2ack_list, recvVars>>
        /\ stopped' = stopped
    BY <2>1 DEF RecvAckPkt, SendbufDel, ackVars
  <2>3. Received(sendbuf_pkt_db[m.seqnb].id)
    <3> DEFINE j == sendbuf_pkt_db[m.seqnb].id
    <3>1. Len(sent) \in Nat /\ SeqWindow \in Nat
      BY Lengths DEF IndInv
    <3>2. /\ m.id \in 1 .. Len(sent) /\ Len(sent) - m.id <= SeqWindow /\ Received(m.id)
          /\ m.seqnb = SeqnbOf(m.id)
      BY <2>1, <2>2 DEF IndInv, PktsAgree, Recent
    <3>3. j \in 1 .. Len(sent) /\ Len(sent) - j <= SeqWindow /\ m.seqnb = SeqnbOf(j)
      BY <2>2 DEF IndInv, SendbufAgrees, Recent, Genuine
    <3> HIDE DEF j
    <3>4. /\ j \in Nat \ {0} /\ m.id \in Nat \ {0}
          /\ j - m.id <= SeqWindow /\ m.id - j <= SeqWindow
      BY <3>1, <3>2, <3>3
    <3>5. j = m.id
      BY <3>2, <3>3, <3>4, SameSeqnb
    <3> QED BY <3>2, <3>5 DEF j
  <2>4. TypeOK'
    <3>1. /\ DOMAIN sendbuf_pkt_db' \subseteq WaiNum
          /\ \A s \in DOMAIN sendbuf_pkt_db' : sendbuf_pkt_db'[s] \in Payload
      BY <2>2 DEF IndInv, TypeOK, Restrict
    <3> QED BY <2>1, <3>1 DEF RecvAckPkt, SendbufDel, IndInv, TypeOK, ackVars, recvVars
  <2> QED BY <2>2, <2>3, <2>4, ShrinkInv
<1>4. CASE Stop
  <2>1. /\ sendbuf_pkt_db' = Restrict(sendbuf_pkt_db, DOMAIN sendbuf_pkt_db \ DOMAIN sendbuf_pkt_db)
        /\ UNCHANGED <<sent, next_xmit_seqnb, net, seqnb2ack_list, recvVars>>
        /\ stopped'
    BY <1>4 DEF Stop, SendbufDel, ackVars
  <2>2. TypeOK'
    <3>1. DOMAIN sendbuf_pkt_db' = {}
      BY <2>1 DEF Restrict
    <3> QED BY <1>4, <3>1 DEF Stop, SendbufDel, IndInv, TypeOK, ackVars, recvVars
  <2> QED BY <2>1, <2>2, ShrinkInv
<1>5. CASE ZerotimerMaysend
  <2>1. TypeOK' /\ QuietStep
    BY <1>5 DEF ZerotimerMaysend, IndInv, TypeOK, QuietStep, ackVars, recvVars
  <2> QED BY <2>1, QuietInv
<1>6. CASE \E t \in Thresholds : MaysendSetThreshold(t)
  <2>1. TypeOK' /\ QuietStep
    BY <1>6, RdgramAssumption DEF MaysendSetThreshold, IndInv, TypeOK, QuietStep, ackVars, recvVars
  <2> QED BY <2>1, QuietInv
<1>7. CASE \E len \in SendbufLens : SendbufSetMaxLen(len)
  <2>1. TypeOK' /\ QuietStep
    BY <1>7, RdgramAssumption DEF SendbufSetMaxLen, IndInv, TypeOK, QuietStep, ackVars, recvVars
  <2> QED BY <2>1, QuietInv
<1>8. CASE ZerotimerSeqnb2ack
  <2>1. TypeOK' /\ QuietStep
    BY <1>8 DEF ZerotimerSeqnb2ack, IndInv, TypeOK, QuietStep, sendVars, recvVars
  <2> QED BY <2>1, QuietInv
<1>9. CASE \E m \in net : Lose(m)
  <2>1. TypeOK' /\ QuietStep
    BY <1>9 DEF Lose, IndInv, TypeOK, QuietStep, sendVars, ackVars, recvVars
  <2> QED BY <2>1, QuietInv
<1> QED BY <1>1, <1>2, <1>3, <1>4, <1>5, <1>6, <1>7, <1>8, <1>9 DEF RdgramNext, SenderNext

\* What the steps of the receiver have in common: what it had received it has
\* still received, and it schedules acks only for what it has received.
ReceiveStep ==
    /\ UNCHANGED <<sent, next_xmit_seqnb, sendbuf_pkt_db, stopped, net>>
    /\ \A i \in 1 .. Len(sent) : Received(i) => Received(i)'
    /\ \A a \in seqnb2ack_list' :
           \/ a \in seqnb2ack_list
           \/ \E m \in net : /\ m.type = "DATA_PKT" /\ Received(m.id)'
                            /\ a = AckPkt(m.seqnb, m.id)

\* The part of TypeOK the receiver's steps can disturb.
RecvTypes ==
    /\ next_seqnb_to_deliver \in WaiNum
    /\ DOMAIN recvbuf_pkt_db \subseteq WaiNum
    /\ \A s \in DOMAIN recvbuf_pkt_db : recvbuf_pkt_db[s] \in Payload
    /\ zt_deliver \in BOOLEAN
    /\ delivered \in Seq(Payload)

\* A step of the receiver that keeps its own part keeps the whole.
LEMMA ReceiveInv ==
    ASSUME IndInv, ReceiveStep, TypeOK', DeliveredInOrder', SeqnbsAgree',
           RecvbufAgrees', DeliveryScheduled'
    PROVE  IndInv'
<1> USE DEF ReceiveStep
<1>1. SendbufAgrees'
  BY DEF IndInv, SendbufAgrees, Genuine, Recent, SeqnbOf
<1>2. AckedIsKept'
  <2> SUFFICES ASSUME ~stopped, NEW i \in 1 .. Len(sent)
               PROVE  (\E s \in DOMAIN sendbuf_pkt_db : sendbuf_pkt_db[s].id = i) \/ Received(i)'
    BY DEF AckedIsKept, Received
  <2> QED BY DEF IndInv, AckedIsKept, Received
<1>3. PktsAgree'
  <2> SUFFICES ASSUME NEW a \in net \cup seqnb2ack_list'
               PROVE  /\ a.seqnb = SeqnbOf(a.id) /\ a.id \in 1 .. Len(sent)
                      /\ Recent(a.id)
                      /\ a.type = "DATA_PKT" => a.len = sent[a.id]
                      /\ a.type = "ACK_PKT" => Received(a.id)'
    BY DEF PktsAgree, SeqnbOf, Recent
  <2>1. CASE a \in net \cup seqnb2ack_list
    BY <2>1 DEF IndInv, PktsAgree
  <2>2. CASE \E m \in net : /\ m.type = "DATA_PKT" /\ Received(m.id)'
                          /\ a = AckPkt(m.seqnb, m.id)
    <3>1. PICK m \in net : /\ m.type = "DATA_PKT" /\ Received(m.id)'
                          /\ a = AckPkt(m.seqnb, m.id)
      BY <2>2
    <3>2. a.type = "ACK_PKT" /\ a.seqnb = m.seqnb /\ a.id = m.id
      BY <3>1 DEF AckPkt
    <3>3. m.seqnb = SeqnbOf(m.id) /\ m.id \in 1 .. Len(sent) /\ Recent(m.id)
      BY DEF IndInv, PktsAgree
    <3> QED BY <3>1, <3>2, <3>3
  <2> QED BY <2>1, <2>2
<1> QED BY <1>1, <1>2, <1>3 DEF IndInv

\* A data packet is received: obsolete, too early, or in order.
LEMMA RecvDataInv ==
    ASSUME IndInv, NEW m \in net, RecvDataPkt(m)
    PROVE  IndInv'
<1> DEFINE n == Len(sent)
           d == Len(delivered)
<1>1. /\ n \in Nat /\ d \in Nat /\ d <= n /\ SeqWindow \in Nat
      /\ n - (d + 1) <= SeqWindow /\ next_seqnb_to_deliver = d % SeqMod
      /\ \A i \in 1 .. n : sent[i] \in Lens
  BY Lengths DEF IndInv, SeqnbsAgree, Recent
<1>2. /\ m.id \in 1 .. n /\ n - m.id <= SeqWindow /\ m.seqnb = SeqnbOf(m.id)
      /\ m.type = "DATA_PKT" /\ m.len = sent[m.id] /\ m.seqnb \in WaiNum /\ m.id \in 1 .. MaxSend
  BY DEF IndInv, PktsAgree, Recent, RecvDataPkt, TypeOK, DataPkts, AckPkts
<1>3. /\ WaiLt(m.seqnb, next_seqnb_to_deliver) <=> m.id <= d
      /\ WaiGt(m.seqnb, next_seqnb_to_deliver) <=> m.id > d + 1
      /\ m.seqnb = next_seqnb_to_deliver <=> m.id = d + 1
  <2>1. m.id \in Nat \ {0} /\ m.id - 1 - d <= SeqWindow /\ d - m.id + 1 <= SeqWindow + 1
    BY <1>1, <1>2
  <2> QED BY <2>1, <1>1, <1>2, CompareInWindow
<1>4. /\ PayloadOf(m) \in Payload
      /\ PayloadOf(m).id = m.id /\ Genuine(PayloadOf(m)) /\ Recent(PayloadOf(m).id)
  BY <1>1, <1>2 DEF PayloadOf, Payload, Genuine, Recent
<1>5. /\ UNCHANGED <<sent, next_xmit_seqnb, sendbuf_pkt_db, sendbuf_used_len,
                     sendbuf_max_len, maysend_threshold, zt_maysend,
                     maysend_event, maysend_fresh, stopped, net>>
      /\ seqnb2ack_list' = seqnb2ack_list \cup {AckPkt(m.seqnb, m.id)}
      /\ zt_seqnb2ack' = TRUE
  BY DEF RecvDataPkt, sendVars, ScheduleAck
<1>6. AckPkt(m.seqnb, m.id) \in AckPkts
  BY <1>2 DEF AckPkt, AckPkts
<1>7. ASSUME RecvTypes', DeliveredInOrder', SeqnbsAgree', RecvbufAgrees',
             DeliveryScheduled', Received(m.id)',
             \A i \in 1 .. n : Received(i) => Received(i)'
      PROVE  IndInv'
  <2>1. TypeOK'
    BY <1>5, <1>6, <1>7 DEF IndInv, TypeOK, RecvTypes
  <2>2. ReceiveStep
    BY <1>2, <1>5, <1>7 DEF ReceiveStep
  <2> QED BY <2>1, <2>2, <1>7, ReceiveInv
<1>8. RecvTypes
  BY DEF IndInv, TypeOK, RecvTypes
<1>9. CASE RecvObsolete(m)
  <2>1. m.id <= d /\ UNCHANGED recvVars
    BY <1>3, <1>9 DEF RecvObsolete
  <2>2. /\ RecvTypes' /\ DeliveredInOrder' /\ SeqnbsAgree' /\ RecvbufAgrees'
        /\ DeliveryScheduled'
    BY <2>1, <1>5, <1>8 DEF IndInv, recvVars, RecvTypes, DeliveredInOrder, SeqnbsAgree,
       RecvbufAgrees, DeliveryScheduled, Genuine, Recent, SeqnbOf
  <2>3. Received(m.id)' /\ \A i \in 1 .. n : Received(i) => Received(i)'
    BY <2>1 DEF recvVars, Received
  <2> QED BY <2>2, <2>3, <1>7
<1>10. CASE RecvOutoforder(m)
  <2>1. /\ m.id > d + 1 /\ m.seqnb # next_seqnb_to_deliver
        /\ UNCHANGED <<next_seqnb_to_deliver, zt_deliver, delivered>>
    BY <1>1, <1>2, <1>3, <1>10 DEF RecvOutoforder
  <2>2. CASE m.seqnb \in DOMAIN recvbuf_pkt_db
    <3>1. recvbuf_pkt_db' = recvbuf_pkt_db
      BY <2>2, <1>10 DEF RecvOutoforder
    <3>2. /\ RecvTypes' /\ DeliveredInOrder' /\ SeqnbsAgree' /\ RecvbufAgrees'
          /\ DeliveryScheduled'
      BY <2>1, <3>1, <1>5, <1>8 DEF IndInv, RecvTypes, DeliveredInOrder, SeqnbsAgree,
         RecvbufAgrees, DeliveryScheduled, Genuine, Recent, SeqnbOf
    <3> DEFINE j == recvbuf_pkt_db[m.seqnb].id
    <3>3. j \in 1 .. n /\ n - j <= SeqWindow /\ SeqnbOf(j) = SeqnbOf(m.id)
      BY <2>2, <1>2 DEF IndInv, RecvbufAgrees, Genuine, Recent
    <3> HIDE DEF j
    <3>4. /\ j \in Nat \ {0} /\ m.id \in Nat \ {0}
          /\ j - m.id <= SeqWindow /\ m.id - j <= SeqWindow
      BY <3>3, <1>1, <1>2
    <3>5. j = m.id
      BY <3>3, <3>4, SameSeqnb
    <3>6. Received(m.id)' /\ \A i \in 1 .. n : Received(i) => Received(i)'
      BY <2>1, <2>2, <3>1, <3>5 DEF Received, j
    <3> QED BY <3>2, <3>6, <1>7
  <2>3. CASE m.seqnb \notin DOMAIN recvbuf_pkt_db
    <3>1. /\ DOMAIN recvbuf_pkt_db' = DOMAIN recvbuf_pkt_db \cup {m.seqnb}
          /\ recvbuf_pkt_db'[m.seqnb] = PayloadOf(m)
          /\ \A s \in DOMAIN recvbuf_pkt_db : recvbuf_pkt_db'[s] = recvbuf_pkt_db[s]
      BY <2>3, <1>10 DEF RecvOutoforder
    <3>2. RecvTypes' /\ DeliveredInOrder' /\ SeqnbsAgree' /\ DeliveryScheduled'
      BY <2>1, <3>1, <1>2, <1>4, <1>5, <1>8 DEF IndInv, RecvTypes, DeliveredInOrder,
         SeqnbsAgree, DeliveryScheduled, Recent
    <3>3. RecvbufAgrees'
      <4> SUFFICES ASSUME NEW s \in DOMAIN recvbuf_pkt_db'
                   PROVE  /\ s = SeqnbOf(recvbuf_pkt_db'[s].id)
                          /\ Genuine(recvbuf_pkt_db'[s]) /\ Recent(recvbuf_pkt_db'[s].id)
        BY <1>5 DEF RecvbufAgrees, Genuine, Recent, SeqnbOf
      <4>1. CASE s = m.seqnb
        BY <4>1, <3>1, <1>2, <1>4
      <4>2. CASE s \in DOMAIN recvbuf_pkt_db
        BY <4>2, <3>1 DEF IndInv, RecvbufAgrees
      <4> QED BY <4>1, <4>2, <3>1
    <3>4. Received(m.id)' /\ \A i \in 1 .. n : Received(i) => Received(i)'
      BY <2>1, <3>1, <1>4 DEF Received
    <3> QED BY <3>2, <3>3, <3>4, <1>7
  <2> QED BY <2>2, <2>3
<1>11. CASE RecvInOrder(m)
  <2>1. /\ m.id = d + 1 /\ delivered' = Append(delivered, PayloadOf(m))
        /\ next_seqnb_to_deliver' = WaiAdd(d % SeqMod, 1)
        /\ zt_deliver' = (zt_deliver \/ DOMAIN recvbuf_pkt_db # {})
        /\ recvbuf_pkt_db' = recvbuf_pkt_db
    BY <1>1, <1>3, <1>11 DEF RecvInOrder
  <2>2. next_seqnb_to_deliver' = (d + 1) % SeqMod
    BY <2>1, <1>1, WaiAddIsSum
  <2>3. /\ delivered' \in Seq(Payload) /\ Len(delivered') = d + 1
        /\ delivered'[d + 1] = PayloadOf(m)
        /\ \A i \in 1 .. d : delivered'[i] = delivered[i]
    BY <2>1, <1>4, <1>8 DEF RecvTypes
  <2>4. RecvTypes'
    <3>1. next_seqnb_to_deliver' \in WaiNum
      BY <2>2, <1>1, SeqModAssumption DEF WaiNum
    <3> QED BY <2>1, <2>3, <3>1, <1>8 DEF RecvTypes
  <2>5. DeliveredInOrder'
    BY <2>1, <2>3, <1>1, <1>2, <1>5 DEF IndInv, DeliveredInOrder, PayloadOf
  <2>6. SeqnbsAgree' /\ RecvbufAgrees' /\ DeliveryScheduled'
    <3>1. SeqnbsAgree'
      BY <2>2, <2>3, <1>1, <1>5 DEF IndInv, SeqnbsAgree, Recent
    <3>2. RecvbufAgrees'
      BY <2>1, <1>5 DEF IndInv, RecvbufAgrees, Genuine, Recent, SeqnbOf
    <3>3. DeliveryScheduled'
      BY <2>1 DEF DeliveryScheduled
    <3> QED BY <3>1, <3>2, <3>3
  <2>7. Received(m.id)' /\ \A i \in 1 .. n : Received(i) => Received(i)'
    BY <2>1, <2>3, <1>1 DEF Received
  <2> QED BY <2>4, <2>5, <2>6, <2>7, <1>7
<1> QED BY <1>9, <1>10, <1>11 DEF RecvDataPkt

\* The zero-timer delivers from the receive buffer.  The entry it finds at the
\* i-th number after next_seqnb_to_deliver is the i-th packet to come, and not
\* one SeqMod before or after, because all entries are within the window.
LEMMA DeliverInv ==
    ASSUME IndInv, ZerotimerDeliver
    PROVE  IndInv'
<1> DEFINE n == Len(sent)
           d == Len(delivered)
           kept == DOMAIN recvbuf_pkt_db \ ObsoletePkts
<1>1. /\ n \in Nat /\ d \in Nat /\ d <= n /\ SeqWindow \in Nat /\ SeqWindow + 1 < SeqMod
      /\ n - (d + 1) <= SeqWindow /\ next_seqnb_to_deliver = d % SeqMod
      /\ MaxSend \in Nat /\ SeqMod \in Nat \ {0}
  <2>1. SeqWindow \in Nat /\ SeqWindow + 1 < SeqMod /\ SeqMod \in Nat \ {0}
    BY RdgramAssumption, SeqModAssumption DEF WaiHalf
  <2> QED BY <2>1, Lengths DEF IndInv, SeqnbsAgree, Recent
<1>2. PICK k \in 0 .. MaxSend :
        /\ NextPkts(k) \subseteq kept
        /\ WaiAdd(next_seqnb_to_deliver, k) \notin kept
        /\ delivered' = delivered \o
             [i \in 1 .. k |-> recvbuf_pkt_db[WaiAdd(next_seqnb_to_deliver, i - 1)]]
        /\ next_seqnb_to_deliver' = WaiAdd(next_seqnb_to_deliver, k)
        /\ recvbuf_pkt_db' = Restrict(recvbuf_pkt_db, kept \ NextPkts(k))
  BY DEF ZerotimerDeliver
<1>3. /\ UNCHANGED <<sent, next_xmit_seqnb, sendbuf_pkt_db, sendbuf_used_len,
                     sendbuf_max_len, maysend_threshold, zt_maysend,
                     maysend_event, maysend_fresh, stopped, net, seqnb2ack_list,
                     zt_seqnb2ack>>
      /\ zt_deliver' = FALSE
  BY DEF ZerotimerDeliver, rdgramVars, sendVars, ackVars
<1>4. ASSUME NEW s \in DOMAIN recvbuf_pkt_db
      PROVE  /\ recvbuf_pkt_db[s].id \in 1 .. n /\ n - recvbuf_pkt_db[s].id <= SeqWindow
             /\ recvbuf_pkt_db[s].len = sent[recvbuf_pkt_db[s].id]
             /\ recvbuf_pkt_db[s] \in Payload
             /\ s = (recvbuf_pkt_db[s].id - 1) % SeqMod
             /\ s \notin kept <=> recvbuf_pkt_db[s].id <= d
  <2> DEFINE j == recvbuf_pkt_db[s].id
  <2>1. /\ j \in 1 .. n /\ n - j <= SeqWindow /\ s = SeqnbOf(j)
        /\ recvbuf_pkt_db[s].len = sent[j] /\ recvbuf_pkt_db[s] \in Payload
    BY DEF IndInv, RecvbufAgrees, Genuine, Recent, TypeOK
  <2> HIDE DEF j
  <2>2. j \in Nat \ {0} /\ j - 1 - d <= SeqWindow /\ d - j + 1 <= SeqWindow + 1
    BY <2>1, <1>1
  <2>3. WaiLt(s, next_seqnb_to_deliver) <=> j <= d
    BY <2>1, <2>2, <1>1, CompareInWindow
  <2> QED BY <2>1, <2>3 DEF ObsoletePkts, SeqnbOf, j
<1>5. ASSUME NEW i \in 0 .. SeqWindow + 1, (d + i) % SeqMod \in kept
      PROVE  recvbuf_pkt_db[(d + i) % SeqMod].id = d + i + 1
  <2> DEFINE s == (d + i) % SeqMod
             j == recvbuf_pkt_db[s].id
  <2>1. s \in DOMAIN recvbuf_pkt_db /\ s \in kept
    BY <1>5
  <2>2. /\ j \in 1 .. n /\ n - j <= SeqWindow /\ s = (j - 1) % SeqMod
        /\ ~(j <= d)
    BY <2>1, <1>4
  <2> HIDE DEF j
  <2>3. /\ d + i \in Nat /\ j - 1 \in Nat
        /\ (d + i) - (j - 1) < SeqMod /\ (j - 1) - (d + i) < SeqMod
    BY <2>2, <1>1, <1>5
  <2>4. d + i = j - 1
    BY <2>2, <2>3, <1>1, ModInjective
  <2> QED BY <2>2, <2>4, <1>1, SMTT(30) DEF j
<1>6. \A i \in 0 .. k - 1 : (d + i) % SeqMod \in kept
  <2> SUFFICES ASSUME NEW i \in 0 .. k - 1 PROVE (d + i) % SeqMod \in kept
    OBVIOUS
  <2>1. i \in Nat /\ WaiAdd(next_seqnb_to_deliver, i) = (d + i) % SeqMod
    BY <1>1, WaiAddIsSum
  <2> QED BY <2>1, <1>2 DEF NextPkts
<1>7. k <= n - d
  <2> SUFFICES ASSUME k > n - d PROVE FALSE
    BY <1>1, <1>2
  <2> DEFINE i == n - d
  <2>1. i \in 0 .. k - 1 /\ i \in 0 .. SeqWindow + 1
    BY <1>1, <1>2
  <2>2. (d + i) % SeqMod \in kept
    BY <2>1, <1>6
  <2>3. recvbuf_pkt_db[(d + i) % SeqMod].id = d + i + 1
    BY <2>1, <2>2, <1>5
  <2>4. recvbuf_pkt_db[(d + i) % SeqMod].id \in 1 .. n
    BY <2>2, <1>4
  <2> QED BY <2>3, <2>4, <1>1
<1>8. ASSUME NEW i \in 1 .. k
      PROVE  /\ recvbuf_pkt_db[WaiAdd(next_seqnb_to_deliver, i - 1)]
                  = [id |-> d + i, len |-> sent[d + i]]
             /\ recvbuf_pkt_db[WaiAdd(next_seqnb_to_deliver, i - 1)] \in Payload
  <2> DEFINE s == (d + (i - 1)) % SeqMod
  <2>1. WaiAdd(next_seqnb_to_deliver, i - 1) = s
    <3>1. i - 1 \in Nat
      OBVIOUS
    <3> QED BY <3>1, <1>1, WaiAddIsSum
  <2>2. s \in kept
    <3>1. i - 1 \in 0 .. k - 1
      BY <1>2
    <3> QED BY <3>1, <1>6
  <2>3. recvbuf_pkt_db[s].id = d + i
    <3>1. i - 1 \in 0 .. SeqWindow + 1 /\ d + (i - 1) + 1 = d + i
      BY <1>1, <1>2, <1>7
    <3> QED BY <3>1, <2>2, <1>5
  <2>4. recvbuf_pkt_db[s].len = sent[d + i] /\ recvbuf_pkt_db[s] \in Payload
    BY <2>2, <2>3, <1>4
  <2> QED BY <2>1, <2>3, <2>4 DEF Payload
<1>9. /\ delivered' \in Seq(Payload) /\ Len(delivered') = d + k
      /\ \A i \in 1 .. d : delivered'[i] = delivered[i]
      /\ \A i \in d + 1 .. d + k : delivered'[i] = [id |-> i, len |-> sent[i]]
  <2> DEFINE t == [i \in 1 .. k |-> recvbuf_pkt_db[WaiAdd(next_seqnb_to_deliver, i - 1)]]
  <2>1. t \in Seq(Payload) /\ Len(t) = k /\ \A i \in 1 .. k : t[i] = [id |-> d + i, len |-> sent[d + i]]
    <3>1. \A i \in 1 .. k : t[i] \in Payload /\ t[i] = [id |-> d + i, len |-> sent[d + i]]
      BY <1>8
    <3>2. t = [i \in 1 .. k |-> t[i]] /\ k \in Nat
      BY <1>2
    <3> HIDE DEF t
    <3>3. t \in Seq(Payload) /\ Len(t) = k
      BY <3>1, <3>2
    <3> QED BY <3>1, <3>3
  <2>2. delivered \in Seq(Payload) /\ delivered' = delivered \o t
    BY <1>2 DEF IndInv, TypeOK
  <2> HIDE DEF t
  <2>3. delivered' \in Seq(Payload) /\ Len(delivered') = d + k
    BY <2>1, <2>2
  <2>4. \A i \in 1 .. d : delivered'[i] = delivered[i]
    BY <2>1, <2>2, ConcatIndex
  <2>5. ASSUME NEW i \in d + 1 .. d + k PROVE delivered'[i] = [id |-> i, len |-> sent[i]]
    <3>1. i - d \in 1 .. k /\ d + (i - d) = i
      BY <1>1, <1>2
    <3>2. delivered'[i] = t[i - d]
      BY <2>1, <2>2, ConcatIndex
    <3> QED BY <3>1, <3>2, <2>1
  <2> QED BY <2>3, <2>4, <2>5
<1>10. next_seqnb_to_deliver' = (d + k) % SeqMod /\ next_seqnb_to_deliver' \in WaiNum
  <2>1. k \in Nat /\ d + k \in Nat
    BY <1>1, <1>2
  <2>2. next_seqnb_to_deliver' = (d + k) % SeqMod
    BY <2>1, <1>1, <1>2, WaiAddIsSum
  <2> QED BY <2>1, <2>2, <1>1 DEF WaiNum
<1>11. /\ DOMAIN recvbuf_pkt_db' = kept \ NextPkts(k)
       /\ \A s \in DOMAIN recvbuf_pkt_db' : recvbuf_pkt_db'[s] = recvbuf_pkt_db[s]
  BY <1>2 DEF Restrict
<1>12. TypeOK'
  BY <1>3, <1>9, <1>10, <1>11, <1>4 DEF IndInv, TypeOK
<1>13. DeliveredInOrder'
  <2>1. Len(delivered') <= Len(sent')
    BY <1>1, <1>2, <1>3, <1>7, <1>9
  <2>2. ASSUME NEW i \in 1 .. d + k PROVE delivered'[i] = [id |-> i, len |-> sent[i]]
    <3>1. CASE i \in 1 .. d
      BY <3>1, <1>9 DEF IndInv, DeliveredInOrder
    <3>2. CASE i \in d + 1 .. d + k
      BY <3>2, <1>9
    <3> QED BY <3>1, <3>2, <1>1, <1>2
  <2> QED BY <2>1, <2>2, <1>3, <1>9 DEF DeliveredInOrder
<1>14. SeqnbsAgree'
  BY <1>1, <1>2, <1>3, <1>9, <1>10 DEF IndInv, SeqnbsAgree, Recent
<1>15. RecvbufAgrees'
  BY <1>3, <1>11 DEF IndInv, RecvbufAgrees, Genuine, Recent, SeqnbOf
<1>16. DeliveryScheduled'
  BY <1>2, <1>11 DEF DeliveryScheduled
<1>17. ASSUME NEW i \in 1 .. n, Received(i) PROVE Received(i)'
  <2>1. CASE i <= d
    BY <2>1, <1>1, <1>2, <1>9 DEF Received
  <2>2. CASE i > d
    <3>1. PICK s \in DOMAIN recvbuf_pkt_db : recvbuf_pkt_db[s].id = i
      BY <2>2, <1>17, <1>1 DEF Received
    <3>2. s \in kept
      BY <3>1, <2>2, <1>1, <1>4
    <3>3. CASE s \in NextPkts(k)
      <4>1. PICK l \in 0 .. k - 1 : s = WaiAdd(next_seqnb_to_deliver, l)
        BY <3>3 DEF NextPkts
      <4>2. l + 1 \in 1 .. k /\ (l + 1) - 1 = l
        BY <1>2
      <4>3. recvbuf_pkt_db[s] = [id |-> d + (l + 1), len |-> sent[d + (l + 1)]]
        BY <4>1, <4>2, <1>8
      <4>4. i <= d + k
        BY <4>2, <4>3, <3>1, <1>1, <1>2
      <4> QED BY <4>4, <1>9 DEF Received
    <3>4. CASE s \notin NextPkts(k)
      BY <3>1, <3>2, <3>4, <1>11 DEF Received
    <3> QED BY <3>3, <3>4
  <2> QED BY <2>1, <2>2, <1>1
<1>18. ReceiveStep
  BY <1>3, <1>17 DEF ReceiveStep
<1> QED BY <1>12, <1>13, <1>14, <1>15, <1>16, <1>18, ReceiveInv

\* A step that changes nothing keeps it.
LEMMA StutterInv ==
    ASSUME IndInv, UNCHANGED vars
    PROVE  IndInv'
<1>1. TypeOK' /\ QuietStep
  BY DEF vars, rdgramVars, sendVars, ackVars, recvVars, IndInv, TypeOK, QuietStep
<1> QED BY <1>1, QuietInv

\* Every step keeps the inductive invariant.
LEMMA StepInv == IndInv /\ [Next]_vars => IndInv'
BY RdgramInv, RecvDataInv, DeliverInv, StutterInv DEF Next

\* IndInv is inductive, hence an invariant of the ordered layer.
THEOREM Inductive == Spec => []IndInv
BY InitInv, StepInv, PTL DEF Spec

\* Type correctness.
THEOREM Types == Spec => []TypeOK
<1>1. IndInv => TypeOK
  BY DEF IndInv
<1> QED BY <1>1, Inductive, PTL

\* In-order, exactly-once delivery, for every modulus, window and buffer size.
THEOREM InOrder == Spec => []DeliveredInOrder
<1>1. IndInv => DeliveredInOrder
  BY DEF IndInv
<1> QED BY <1>1, Inductive, PTL

\* An acknowledged packet is delivered or held by the receiver.
THEOREM AckLosesNothing == Spec => []AckedIsKept
<1>1. IndInv => AckedIsKept
  BY DEF IndInv
<1> QED BY <1>1, Inductive, PTL

\* The packet whose turn has come never waits without its zero-timer.
THEOREM NoForgottenPacket == Spec => []DeliveryScheduled
<1>1. IndInv => DeliveryScheduled
  BY DEF IndInv
<1> QED BY <1>1, Inductive, PTL
-----------------------------------------------------------------------------
\* A step of the receiver that only lengthens what is delivered is a Deliver
\* step of the abstract channel, or a stutter.
LEMMA LengthensIsDeliver ==
    ASSUME IndInv, IndInv', sent' = sent, Len(delivered') >= Len(delivered)
    PROVE  [Channel!Next]_<<sent, delivered>>
<1> DEFINE d == Len(delivered)
           e == Len(delivered')
           f == [i \in 1 .. e |-> IF i <= d THEN delivered[i]
                                  ELSE [id |-> i, len |-> sent[i]]]
<1>1. /\ d \in Nat /\ e \in Nat /\ d <= e /\ e <= Len(sent) /\ Len(sent) <= MaxSend
      /\ MaxSend \in Nat /\ Len(sent) \in Nat
      /\ delivered \in Seq(Payload) /\ delivered' \in Seq(Payload)
  BY RdgramAssumption DEF IndInv, TypeOK, DeliveredInOrder
<1>2. ASSUME NEW i \in 1 .. e PROVE delivered'[i] = f[i]
  <2>1. delivered'[i] = [id |-> i, len |-> sent[i]]
    BY DEF IndInv, DeliveredInOrder
  <2>2. i <= d => delivered[i] = [id |-> i, len |-> sent[i]]
    BY <1>1 DEF IndInv, DeliveredInOrder
  <2> QED BY <2>1, <2>2
<1>3. delivered' = [i \in 1 .. e |-> delivered'[i]] /\ delivered = [i \in 1 .. d |-> delivered[i]]
  BY <1>1
<1>4. delivered' = f
  <2> HIDE DEF f
  <2>1. f = [i \in 1 .. e |-> f[i]]
    BY DEF f
  <2> QED BY <2>1, <1>2, <1>3
<1>5. CASE e = d
  <2>1. \A i \in 1 .. d : delivered'[i] = delivered[i]
    BY <1>2, <1>5, <1>1
  <2>2. delivered' = delivered
    BY <2>1, <1>3, <1>5
  <2> QED BY <2>2
<1>6. CASE e > d
  <2>1. e - d \in 1 .. MaxSend /\ d + (e - d) = e
    BY <1>1, <1>6
  <2>2. Channel!Deliver
    BY <2>1, <1>1, <1>4 DEF Channel!Deliver
  <2> QED BY <2>2 DEF Channel!Next
<1> QED BY <1>1, <1>5, <1>6

\* What is delivered is never taken back.
LEMMA DeliveredGrows ==
    ASSUME IndInv, (\E m \in net : RecvDataPkt(m)) \/ ZerotimerDeliver
    PROVE  Len(delivered') >= Len(delivered)
<1>1. CASE \E m \in net : RecvDataPkt(m)
  <2>1. PICK m \in net : RecvDataPkt(m)
    BY <1>1
  <2>2. delivered \in Seq(Payload) /\ Len(delivered) \in Nat
    BY DEF IndInv, TypeOK
  <2>3. delivered' = delivered \/ delivered' = Append(delivered, PayloadOf(m))
    BY <2>1 DEF RecvDataPkt, RecvObsolete, RecvOutoforder, RecvInOrder, recvVars
  <2> QED BY <2>2, <2>3
<1>2. CASE ZerotimerDeliver
  <2>2. PICK k \in 0 .. MaxSend : delivered' = delivered \o
             [i \in 1 .. k |-> recvbuf_pkt_db[WaiAdd(next_seqnb_to_deliver, i - 1)]]
    BY <1>2 DEF ZerotimerDeliver
  <2> DEFINE t == [i \in 1 .. k |-> recvbuf_pkt_db[WaiAdd(next_seqnb_to_deliver, i - 1)]]
             T == Payload \cup {t[i] : i \in 1 .. k}
  <2>3. t \in Seq(T) /\ Len(t) = k /\ k \in Nat
    <3>1. k \in Nat
      BY RdgramAssumption
    <3>2. \A i \in 1 .. k : t[i] \in T
      OBVIOUS
    <3>3. t = [i \in 1 .. k |-> t[i]]
      OBVIOUS
    <3> HIDE DEF t, T
    <3> QED BY <3>1, <3>2, <3>3
  <2>4. delivered \in Seq(T)
    BY DEF IndInv, TypeOK
  <2> HIDE DEF t, T
  <2>5. Len(delivered \o t) = Len(delivered) + Len(t) /\ Len(delivered) \in Nat
    BY <2>3, <2>4
  <2>6. Len(delivered') >= Len(delivered)
    BY <2>2, <2>3, <2>5 DEF t
  <2> QED BY <2>6
<1> QED BY <1>1, <1>2

\* Every step of the ordered layer is a step of the abstract channel.
LEMMA StepRefines ==
    ASSUME IndInv, IndInv', [Next]_vars
    PROVE  [Channel!Next]_<<sent, delivered>>
<1>1. CASE RdgramNext /\ UNCHANGED recvVars
  <2>1. CASE \E len \in Lens : PktFromUpper(len)
    BY <1>1, <2>1 DEF PktFromUpper, recvVars, Channel!Next, Channel!Send
  <2>2. CASE ~\E len \in Lens : PktFromUpper(len)
    <3>1. sent' = sent
      BY <1>1, <2>2 DEF RdgramNext, SenderNext, RxmitTimeout, RecvAckPkt, ZerotimerMaysend,
         MaysendSetThreshold, SendbufSetMaxLen, Stop, ZerotimerSeqnb2ack, Lose, sendVars
    <3> QED BY <3>1, <1>1 DEF recvVars
  <2> QED BY <2>1, <2>2
<1>2. CASE \E m \in net : RecvDataPkt(m)
  <2>1. PICK m \in net : RecvDataPkt(m)
    BY <1>2
  <2>2. sent' = sent
    BY <2>1 DEF RecvDataPkt, sendVars
  <2>3. Len(delivered') >= Len(delivered)
    BY <2>1, DeliveredGrows
  <2> QED BY <2>2, <2>3, LengthensIsDeliver
<1>3. CASE ZerotimerDeliver
  <2>1. sent' = sent
    BY <1>3 DEF ZerotimerDeliver, rdgramVars, sendVars
  <2>2. Len(delivered') >= Len(delivered)
    BY <1>3, DeliveredGrows
  <2> QED BY <2>1, <2>2, LengthensIsDeliver
<1>4. CASE UNCHANGED vars
  BY <1>4 DEF vars, rdgramVars, sendVars, recvVars
<1> QED BY <1>1, <1>2, <1>3, <1>4 DEF Next

\* The ordered layer implements the abstract ordered channel.
THEOREM Refinement == Spec => ImplementsChannel
<1>1. Init => Channel!Init
  BY DEF Init, RdgramInit, Channel!Init
<1> QED BY <1>1, StepRefines, Inductive, PTL DEF Spec, Channel!Spec, ImplementsChannel
-----------------------------------------------------------------------------
(* The size of the receive buffer.                                          *)

LEMMA PktsLenIsSum == ASSUME NEW h, NEW f, NEW S PROVE PktsLen(h, f, S) = LenSum(h, f, S)
BY Zenon DEF PktsLen, LenSum

\* The receive buffer charges no header.
NoHdr == 0
DataLen(p) == LenOf(NoHdr, p)
DataSum(f, S) == LenSum(NoHdr, f, S)

LEMMA NoHdrNat == NoHdr \in Nat
BY DEF NoHdr

LEMMA RecvbufLenIsSum ==
    ASSUME NEW S PROVE RecvbufLen(S) = DataSum(recvbuf_pkt_db, S)
BY PktsLenIsSum DEF NoHdr, RecvbufLen, DataSum

LEMMA PayloadLen == ASSUME NEW p \in Payload PROVE p.len \in Nat /\ DataLen(p) = p.len
<1>1. p.len \in Lens /\ Lens \subseteq Nat
  BY RdgramAssumption DEF Payload
<1>2. p.len \in Nat
  BY <1>1
<1> QED BY <1>2 DEF DataLen, LenOf, NoHdr

LEMMA RecvbufAdd ==
    ASSUME NEW f, NEW g, NEW S, NEW T, NEW x, IsFiniteSet(T), x \in T, T \ {x} = S,
           \A y \in T : g[y] \in Payload, \A y \in S : f[y] = g[y]
    PROVE  DataSum(g, T) = DataLen(g[x]) + DataSum(f, S) /\ DataSum(f, S) \in Nat
<1>1. NoHdr \in Nat /\ \A y \in T : g[y].len \in Nat
  BY PayloadLen, NoHdrNat
<1> QED BY <1>1, LenSumAdd DEF DataSum, DataLen

LEMMA RecvbufFinite ==
    ASSUME IndInv
    PROVE  /\ IsFiniteSet(DOMAIN recvbuf_pkt_db)
           /\ \A s \in DOMAIN recvbuf_pkt_db : recvbuf_pkt_db[s].len \in Nat
<1>1. IsFiniteSet(WaiNum)
  BY FS_Interval, SeqModPos DEF WaiNum
<1>2. IsFiniteSet(DOMAIN recvbuf_pkt_db)
  BY <1>1, FS_Subset DEF IndInv, TypeOK
<1> QED BY <1>2, PayloadLen DEF IndInv, TypeOK

\* The counter also is a natural number: the code's is unsigned.
BoundInv == RecvbufBounded /\ recvbuf_used_len \in Nat

LEMMA QuietBound ==
    ASSUME BoundInv, UNCHANGED <<recvbuf_pkt_db, recvbuf_used_len>>
    PROVE  BoundInv'
BY DEF BoundInv, RecvbufBounded, RecvbufLen

\* An early packet is kept only if the room was there.
LEMMA OutoforderBound ==
    ASSUME IndInv, IndInv', BoundInv, NEW m \in net, RecvDataPkt(m), RecvOutoforder(m)
    PROVE  BoundInv'
<1> DEFINE D == DOMAIN recvbuf_pkt_db
           E == DOMAIN recvbuf_pkt_db'
           q == m.seqnb
<1>1. CASE q \in D
  BY <1>1, QuietBound DEF RecvOutoforder
<1>2. CASE q \notin D
  <2>1. /\ recvbuf_used_len' = recvbuf_used_len + m.len
        /\ E = D \cup {q} /\ recvbuf_pkt_db'[q] = PayloadOf(m)
        /\ \A s \in D : recvbuf_pkt_db[s] = recvbuf_pkt_db'[s]
    BY <1>2 DEF RecvOutoforder
  <2>2. /\ ~WaiLt(m.seqnb, next_seqnb_to_deliver) /\ m.seqnb \notin DOMAIN recvbuf_pkt_db
        /\ ShouldAck(m)
    <3>1. WaiCmp(m.seqnb, next_seqnb_to_deliver) \in Int
      <4>1. m.seqnb \in Int /\ next_seqnb_to_deliver \in Int
        <5>1. m.seqnb \in WaiNum /\ next_seqnb_to_deliver \in WaiNum
          BY DEF IndInv, TypeOK, DataPkts, AckPkts
        <5> QED BY <5>1 DEF WaiNum
      <4> QED BY <4>1, SeqModAssumption DEF WaiCmp, WaiHalf
    <3> QED BY <3>1, <1>2 DEF RecvOutoforder, RecvDataPkt, WaiLt, WaiGt
  <2>3. recvbuf_used_len + m.len <= RecvbufMaxLen
    BY <2>2 DEF ShouldAck
  <2>4. m.len \in Nat /\ PayloadOf(m).len = m.len
    <3>1. m.type = "DATA_PKT" /\ m \in DataPkts
      BY DEF RecvDataPkt, IndInv, TypeOK, DataPkts, AckPkts
    <3>2. m.len \in Lens
      BY <3>1 DEF DataPkts
    <3> QED BY <3>2, RdgramAssumption DEF PayloadOf
  <2>5. IsFiniteSet(D) /\ (\A y \in D : recvbuf_pkt_db[y].len \in Nat)
    BY RecvbufFinite
  <2>6. IsFiniteSet(E) /\ q \in E /\ E \ {q} = D /\ (\A y \in E : recvbuf_pkt_db'[y].len \in Nat)
    BY <1>2, <2>1, <2>4, <2>5, FS_AddElement
  <2>a. \A s \in D : recvbuf_pkt_db[s] = recvbuf_pkt_db'[s]
    BY <2>1
  <2>b. DataLen(recvbuf_pkt_db'[q]) = m.len
    BY <2>1, <2>4 DEF DataLen, LenOf, NoHdr
  <2>c. recvbuf_used_len' = recvbuf_used_len + m.len
    BY <2>1
  <2> HIDE DEF D, E, q
  <2>7. /\ DataSum(recvbuf_pkt_db', E) = DataLen(recvbuf_pkt_db'[q]) + DataSum(recvbuf_pkt_db, D)
        /\ DataSum(recvbuf_pkt_db, D) \in Nat
    <3>1. IsFiniteSet(E) /\ q \in E /\ E \ {q} = D
      BY <2>6
    <3>2. \A y \in E : recvbuf_pkt_db'[y] \in Payload
      BY DEF IndInv, TypeOK, E
    <3> QED BY <3>1, <3>2, <2>a, RecvbufAdd
  <2>8. DataSum(recvbuf_pkt_db, D) <= recvbuf_used_len /\ recvbuf_used_len \in Nat
    BY RecvbufLenIsSum DEF BoundInv, RecvbufBounded, D
  <2>9. DataSum(recvbuf_pkt_db', E) <= recvbuf_used_len' /\ recvbuf_used_len' \in Nat
    BY <2>7, <2>8, <2>b, <2>c, <2>4
  <2>10. recvbuf_used_len' <= RecvbufMaxLen
    BY <2>3, <2>c
  <2>11. RecvbufLen(DOMAIN recvbuf_pkt_db)' = DataSum(recvbuf_pkt_db', E)
    BY PktsLenIsSum DEF RecvbufLen, E, NoHdr, DataSum
  <2> QED BY <2>9, <2>10, <2>11 DEF BoundInv, RecvbufBounded
<1> QED BY <1>1, <1>2

\* The zero-timer gives back what it delivers, and may only forget to give
\* back what was obsolete.
LEMMA DeliverBound ==
    ASSUME IndInv, BoundInv, ZerotimerDeliver
    PROVE  BoundInv'
<1> DEFINE D == DOMAIN recvbuf_pkt_db
           kept == D \ ObsoletePkts
<1>1. PICK k \in 0 .. MaxSend :
        /\ NextPkts(k) \subseteq kept
        /\ recvbuf_used_len' = recvbuf_used_len - RecvbufLen(NextPkts(k))
        /\ recvbuf_pkt_db' = Restrict(recvbuf_pkt_db, kept \ NextPkts(k))
  BY DEF ZerotimerDeliver
<1> DEFINE A == NextPkts(k)
           E == kept \ A
<1>2. /\ A \in SUBSET D /\ E \in SUBSET (D \ A) /\ E \in SUBSET D
      /\ DOMAIN recvbuf_pkt_db' = E
      /\ \A s \in E : recvbuf_pkt_db'[s] = recvbuf_pkt_db[s]
  BY <1>1 DEF Restrict
<1>3. IsFiniteSet(D) /\ (\A y \in D : recvbuf_pkt_db[y].len \in Nat)
  BY RecvbufFinite
<1>4. IsFiniteSet(D \ A) /\ IsFiniteSet(E) /\ IsFiniteSet(A)
  BY <1>2, <1>3, FS_Subset
<1>5. RecvbufLen(A) = DataSum(recvbuf_pkt_db, A)
  BY RecvbufLenIsSum
<1>6. DataSum(recvbuf_pkt_db, D) <= recvbuf_used_len /\ recvbuf_used_len \in Nat
      /\ recvbuf_used_len <= RecvbufMaxLen
  BY RecvbufLenIsSum DEF BoundInv, RecvbufBounded
<1>a. recvbuf_used_len' = recvbuf_used_len - DataSum(recvbuf_pkt_db, A)
  BY <1>1, <1>5
<1> HIDE DEF A, D, E
<1>7. DataSum(recvbuf_pkt_db, D) = DataSum(recvbuf_pkt_db, A) + DataSum(recvbuf_pkt_db, D \ A)
  BY <1>2, <1>3, LenSumSplit, NoHdrNat DEF DataSum
<1>8. DataSum(recvbuf_pkt_db, D \ A) = DataSum(recvbuf_pkt_db, E) + DataSum(recvbuf_pkt_db, (D \ A) \ E)
  <2>1. \A y \in D \ A : recvbuf_pkt_db[y].len \in Nat
    BY <1>3
  <2> QED BY <2>1, <1>2, <1>4, LenSumSplit, NoHdrNat DEF DataSum
<1>9. /\ DataSum(recvbuf_pkt_db, A) \in Nat /\ DataSum(recvbuf_pkt_db, E) \in Nat
      /\ DataSum(recvbuf_pkt_db, (D \ A) \ E) \in Nat
  <2>1. IsFiniteSet((D \ A) \ E)
    BY <1>4, FS_Subset
  <2>2. (\A y \in A : recvbuf_pkt_db[y].len \in Nat) /\ (\A y \in E : recvbuf_pkt_db[y].len \in Nat)
        /\ (\A y \in (D \ A) \ E : recvbuf_pkt_db[y].len \in Nat)
    BY <1>2, <1>3
  <2> QED BY <2>1, <2>2, <1>4, LenSumNat, NoHdrNat DEF DataSum
<1>10. DataSum(recvbuf_pkt_db', E) = DataSum(recvbuf_pkt_db, E)
  BY <1>2, <1>3, <1>4, LenSumSame, NoHdrNat DEF DataSum
<1>11. RecvbufLen(DOMAIN recvbuf_pkt_db)' = DataSum(recvbuf_pkt_db', E)
  BY <1>2, PktsLenIsSum DEF RecvbufLen, NoHdr, DataSum
<1>12. /\ DataSum(recvbuf_pkt_db, E) <= recvbuf_used_len' /\ recvbuf_used_len' \in Nat
       /\ recvbuf_used_len' <= RecvbufMaxLen
  BY <1>6, <1>7, <1>8, <1>9, <1>a, OrdgramAssumption
<1> QED BY <1>10, <1>11, <1>12 DEF BoundInv, RecvbufBounded

\* Every step keeps the bound.
LEMMA StepBound == IndInv /\ IndInv' /\ BoundInv /\ [Next]_vars => BoundInv'
<1> SUFFICES ASSUME IndInv, IndInv', BoundInv, [Next]_vars PROVE BoundInv'
  OBVIOUS
<1>1. CASE RdgramNext /\ UNCHANGED recvVars
  BY <1>1, QuietBound DEF recvVars
<1>2. ASSUME NEW m \in net, RecvDataPkt(m) PROVE BoundInv'
  <2>1. CASE RecvOutoforder(m)
    BY <1>2, <2>1, OutoforderBound
  <2>2. CASE RecvObsolete(m) \/ RecvInOrder(m)
    BY <2>2, QuietBound DEF RecvObsolete, RecvInOrder, recvVars
  <2> QED BY <1>2, <2>1, <2>2 DEF RecvDataPkt
<1>3. CASE ZerotimerDeliver
  BY <1>3, DeliverBound
<1>4. CASE UNCHANGED vars
  BY <1>4, QuietBound DEF vars, recvVars
<1> QED BY <1>1, <1>2, <1>3, <1>4 DEF Next

\* The receive buffer never exceeds its limit, and the counter that should_ack
\* decides from neither underflows nor falls behind what the buffer holds.
THEOREM BufferBounded == Spec => []RecvbufBounded
<1>1. Init => BoundInv
  <2> SUFFICES ASSUME Init PROVE BoundInv
    OBVIOUS
  <2>1. recvbuf_used_len = 0 /\ DOMAIN recvbuf_pkt_db = {}
    BY DEF Init
  <2>2. RecvbufLen(DOMAIN recvbuf_pkt_db) = 0
    BY <2>1, RecvbufLenIsSum, LenSumEmpty, NoHdrNat DEF DataSum
  <2> QED BY <2>1, <2>2, OrdgramAssumption DEF BoundInv, RecvbufBounded
<1>2. BoundInv => RecvbufBounded
  BY DEF BoundInv
<1> QED BY <1>1, <1>2, StepBound, Inductive, PTL DEF Spec
-----------------------------------------------------------------------------
(* The brick above: NlayOrdgram.                                            *)

\* A connection of type SEQPACKET is an ordered layer with two ways out.
LEMMA NStepIsStep == [NNext]_nlayVars => [Next]_vars
BY DEF NNext, Next, nlayVars, FilterToUpper, NotifyPktToUpper

\* So its inductive invariant is one of the whole connection (nlay_ordgram_t).
THEOREM NInductive == NSpec => []IndInv
<1>1. NInit => IndInv
  BY InitInv DEF NInit
<1>2. IndInv /\ [NNext]_nlayVars => IndInv'
  BY StepInv, NStepIsStep
<1> QED BY <1>1, <1>2, PTL DEF NSpec
-----------------------------------------------------------------------------
(***************************************************************************)
(* The unordered connection: NlayRdgram.                                   *)
(***************************************************************************)

PktLen(p) == LenOf(HdrLen, p)

\* What a packet takes in the send buffer.
LEMMA BytesNat == ASSUME NEW p \in Payload PROVE HdrLen \in Nat /\ p.len \in Nat /\ PktLen(p) \in Nat
<1>1. p.len \in Lens
  BY DEF Payload
<1>2. HdrLen \in Nat /\ Lens \subseteq Nat
  BY RdgramAssumption
<1>3. p.len \in Nat
  BY <1>1, <1>2
<1> QED BY <1>2, <1>3, LenOfNat DEF PktLen

LEMMA PktsLenEmpty == ASSUME NEW f PROVE PktsLen(HdrLen, f, {}) = 0
BY PktsLenIsSum, LenSumEmpty, RdgramAssumption

LEMMA PktsLenNat ==
    ASSUME NEW f, NEW S, IsFiniteSet(S), \A y \in S : f[y] \in Payload
    PROVE  PktsLen(HdrLen, f, S) \in Nat
<1>1. HdrLen \in Nat /\ \A y \in S : f[y].len \in Nat
  BY BytesNat, RdgramAssumption
<1> QED BY <1>1, PktsLenIsSum, LenSumNat

LEMMA PktsLenOne ==
    ASSUME NEW f, NEW x, f[x] \in Payload
    PROVE  PktsLen(HdrLen, f, {x}) = PktLen(f[x])
<1>1. HdrLen \in Nat /\ f[x].len \in Nat
  BY BytesNat
<1> QED BY <1>1, PktsLenIsSum, LenSumOne DEF PktLen

\* A packet more adds what it takes.
LEMMA PktsLenAdd ==
    ASSUME NEW f, NEW g, NEW S, NEW T, NEW x, IsFiniteSet(T), x \in T, T \ {x} = S,
           \A y \in T : g[y] \in Payload, \A y \in S : f[y] = g[y]
    PROVE  PktsLen(HdrLen, g, T) = PktLen(g[x]) + PktsLen(HdrLen, f, S) /\ PktsLen(HdrLen, f, S) \in Nat
<1>1. HdrLen \in Nat /\ \A y \in T : g[y].len \in Nat
  BY BytesNat, RdgramAssumption
<1>2. LenSum(HdrLen, g, T) = LenOf(HdrLen, g[x]) + LenSum(HdrLen, f, S) /\ LenSum(HdrLen, f, S) \in Nat
  BY <1>1, LenSumAdd, SMTT(30)
<1> QED BY <1>2, PktsLenIsSum DEF PktLen
-----------------------------------------------------------------------------
(***************************************************************************)
(* The inductive invariant: every copy of a packet (in the send buffer, in *)
(* flight, as an ack) is a copy of a packet that was sent, bears its       *)
(* number and is recent enough for that number to be of no other packet;   *)
(* an ack is of a packet that was delivered.                               *)
(***************************************************************************)
RdmRecent(i)   == i \in 1 .. Len(sent) /\ Len(sent) - i <= SeqWindow
RdmReceived(i) == [id |-> i, len |-> sent[i]] \in recved

RdmTypeInv ==
    /\ sent \in Seq(Lens) /\ Len(sent) <= MaxSend
    /\ DOMAIN sendbuf_pkt_db \subseteq WaiNum
    /\ \A s \in DOMAIN sendbuf_pkt_db : sendbuf_pkt_db[s] \in Payload
    /\ sendbuf_max_len \in Nat /\ maysend_threshold \in Nat
    /\ zt_maysend \in BOOLEAN /\ maysend_fresh \in BOOLEAN /\ stopped \in BOOLEAN

RdmSendbufAgrees ==
    \A s \in DOMAIN sendbuf_pkt_db :
        /\ RdmRecent(sendbuf_pkt_db[s].id)
        /\ s = SeqnbOf(sendbuf_pkt_db[s].id)
        /\ sendbuf_pkt_db[s].len = sent[sendbuf_pkt_db[s].id]

RdmPktsAgree ==
    \A m \in net \cup seqnb2ack_list :
        /\ m.type \in {"DATA_PKT", "ACK_PKT"}
        /\ RdmRecent(m.id)
        /\ m.seqnb = SeqnbOf(m.id)
        /\ m.type = "DATA_PKT" => m.len = sent[m.id]
        /\ m.type = "ACK_PKT" => RdmReceived(m.id)

BufferInv ==
    /\ RdmTypeInv
    /\ next_xmit_seqnb = Len(sent) % SeqMod
    /\ RdmSendbufAgrees
    /\ RdmPktsAgree
    /\ AckedIsDelivered

AccountInv ==
    /\ SendbufAccounting
    /\ maysend_fresh => maysend_is_set
    /\ MaysendAccurate

RdmInv == BufferInv /\ AccountInv
-----------------------------------------------------------------------------
(* Lemmas about the invariant.                                              *)

LEMMA Constants ==
    /\ SeqMod \in Nat \ {0} /\ SeqWindow \in Nat /\ SeqWindow < SeqMod
    /\ HdrLen \in Nat /\ MaxSend \in Nat /\ Lens \subseteq Nat \ {0}
    /\ SendbufLens \subseteq Nat /\ Thresholds \subseteq Nat
    /\ \A a \in Nat : a % SeqMod \in WaiNum
<1>1. SeqMod \in Nat \ {0} /\ WaiHalf \in Nat /\ WaiHalf <= SeqMod
  BY SeqModAssumption DEF WaiHalf
<1>2. \A a \in Nat : a % SeqMod \in WaiNum
  BY <1>1 DEF WaiNum
<1>3. SeqWindow \in Nat /\ SeqWindow < WaiHalf
  BY RdgramAssumption
<1>4. SeqWindow < SeqMod
  BY <1>1, <1>3
<1> QED BY <1>1, <1>2, <1>3, <1>4, RdgramAssumption

LEMMA DbFinite == RdmTypeInv => IsFiniteSet(DOMAIN sendbuf_pkt_db)
<1>1. IsFiniteSet(WaiNum)
  BY FS_Interval, Constants DEF WaiNum
<1> QED BY <1>1, FS_Subset DEF RdmTypeInv

\* What a packet in the send buffer tells, by its number.
LEMMA SendbufEntry ==
    ASSUME RdmTypeInv, RdmSendbufAgrees, NEW s \in DOMAIN sendbuf_pkt_db
    PROVE  LET i == sendbuf_pkt_db[s].id
           IN  /\ RdmRecent(i) /\ i \in Nat \ {0} /\ s = SeqnbOf(i)
               /\ sendbuf_pkt_db[s] = [id |-> i, len |-> sent[i]]
<1>1. sendbuf_pkt_db[s] \in Payload
  BY DEF RdmTypeInv
<1>2. Len(sent) \in Nat
  BY DEF RdmTypeInv
<1> QED BY <1>1, <1>2 DEF RdmSendbufAgrees, RdmRecent, Payload
-----------------------------------------------------------------------------
(* The copies of the packets.                                               *)

\* The user sends a packet: the number it gets is of no packet of the buffer.
LEMMA SendBuffer ==
    ASSUME BufferInv, NEW len \in Lens, PktFromUpper(len), UNCHANGED recved
    PROVE  BufferInv' /\ next_xmit_seqnb \notin DOMAIN sendbuf_pkt_db
<1> DEFINE n == Len(sent)
           p == [id |-> n + 1, len |-> len]
<1>0. /\ ~stopped /\ n < MaxSend /\ RdgramWindowOpen
      /\ sent' = Append(sent, len)
      /\ next_xmit_seqnb' = WaiAdd(next_xmit_seqnb, 1)
      /\ sendbuf_pkt_db' = [s \in DOMAIN sendbuf_pkt_db \cup {next_xmit_seqnb} |->
                              IF s = next_xmit_seqnb THEN p ELSE sendbuf_pkt_db[s]]
      /\ net' = net \cup {DataPkt(next_xmit_seqnb, p)}
      /\ zt_maysend' \in BOOLEAN
      /\ UNCHANGED <<sendbuf_max_len, maysend_threshold, maysend_fresh, stopped, seqnb2ack_list>>
  BY DEF PktFromUpper, SendbufAdd, BufferInv, RdmTypeInv, ackVars
<1>1. n \in Nat /\ SeqWindow \in Nat /\ MaxSend \in Nat
  BY Constants DEF BufferInv, RdmTypeInv
<1>2. /\ Len(sent') = n + 1 /\ sent' \in Seq(Lens) /\ sent'[n + 1] = len
      /\ \A i \in 1 .. n : sent'[i] = sent[i]
  BY <1>0 DEF BufferInv, RdmTypeInv
<1>3. next_xmit_seqnb = SeqnbOf(n + 1) /\ next_xmit_seqnb \in WaiNum
  BY <1>1, Constants DEF BufferInv, SeqnbOf
<1>4. next_xmit_seqnb' = (n + 1) % SeqMod
  BY <1>0, <1>1, Constants, ModSum DEF BufferInv, WaiAdd
<1>5. p \in Payload
  BY <1>0, <1>1 DEF Payload
<1>6. next_xmit_seqnb \notin DOMAIN sendbuf_pkt_db
  <2> SUFFICES ASSUME next_xmit_seqnb \in DOMAIN sendbuf_pkt_db PROVE FALSE
    OBVIOUS
  <2> DEFINE j == sendbuf_pkt_db[next_xmit_seqnb].id
  <2>1. j \in 1 .. n /\ n - j < SeqWindow /\ SeqnbOf(j) = SeqnbOf(n + 1)
    BY <1>0, <1>3 DEF BufferInv, RdmSendbufAgrees, RdmRecent, RdgramWindowOpen, InWindow
  <2> HIDE DEF j
  <2>2. j \in Nat \ {0} /\ n + 1 \in Nat \ {0} /\ n + 1 - j <= SeqWindow /\ j - (n + 1) <= SeqWindow
    BY <2>1, <1>1
  <2>3. j = n + 1
    BY <2>1, <2>2, SameSeqnb
  <2> QED BY <2>1, <2>3, <1>1
<1>7. RdmTypeInv'
  <2>1. /\ DOMAIN sendbuf_pkt_db' \subseteq WaiNum
        /\ \A s \in DOMAIN sendbuf_pkt_db' : sendbuf_pkt_db'[s] \in Payload
    BY <1>0, <1>3, <1>5 DEF BufferInv, RdmTypeInv
  <2>2. sent' \in Seq(Lens) /\ Len(sent') <= MaxSend
    BY <1>0, <1>1, <1>2
  <2> QED BY <2>1, <2>2, <1>0 DEF BufferInv, RdmTypeInv
<1>8. RdmSendbufAgrees'
  <2> SUFFICES ASSUME NEW s \in DOMAIN sendbuf_pkt_db'
               PROVE  /\ sendbuf_pkt_db'[s].id \in 1 .. n + 1 /\ n + 1 - sendbuf_pkt_db'[s].id <= SeqWindow
                      /\ s = SeqnbOf(sendbuf_pkt_db'[s].id)
                      /\ sendbuf_pkt_db'[s].len = sent'[sendbuf_pkt_db'[s].id]
    BY <1>2 DEF RdmSendbufAgrees, SeqnbOf, RdmRecent
  <2>1. CASE s = next_xmit_seqnb
    BY <2>1, <1>0, <1>1, <1>2, <1>3
  <2>2. CASE s # next_xmit_seqnb
    <3>1. s \in DOMAIN sendbuf_pkt_db /\ sendbuf_pkt_db'[s] = sendbuf_pkt_db[s]
      BY <2>2, <1>0
    <3>2. /\ s = SeqnbOf(sendbuf_pkt_db[s].id) /\ sendbuf_pkt_db[s].id \in 1 .. n
          /\ sendbuf_pkt_db[s].len = sent[sendbuf_pkt_db[s].id]
          /\ n - sendbuf_pkt_db[s].id < SeqWindow
      BY <3>1, <1>0 DEF BufferInv, RdmSendbufAgrees, RdmRecent, RdgramWindowOpen, InWindow
    <3> QED BY <3>1, <3>2, <1>1, <1>2
  <2> QED BY <2>1, <2>2
<1>a. Len(sent') = n + 1 /\ recved' = recved
  BY <1>2
<1>9. RdmPktsAgree'
  <2> SUFFICES ASSUME NEW m \in net' \cup seqnb2ack_list'
               PROVE  /\ m.type \in {"DATA_PKT", "ACK_PKT"}
                      /\ m.seqnb = SeqnbOf(m.id) /\ m.id \in 1 .. n + 1
                      /\ n + 1 - m.id <= SeqWindow
                      /\ m.type = "DATA_PKT" => m.len = sent'[m.id]
                      /\ m.type = "ACK_PKT" => [id |-> m.id, len |-> sent'[m.id]] \in recved
    BY <1>a DEF RdmPktsAgree, SeqnbOf, RdmRecent, RdmReceived
  <2>1. CASE m = DataPkt(next_xmit_seqnb, p)
    BY <2>1, <1>1, <1>2, <1>3 DEF DataPkt
  <2>2. CASE m \in net \cup seqnb2ack_list
    <3>1. /\ m.type \in {"DATA_PKT", "ACK_PKT"} /\ m.id \in 1 .. n /\ m.seqnb = SeqnbOf(m.id)
          /\ m.type = "DATA_PKT" => m.len = sent[m.id]
          /\ m.type = "ACK_PKT" => RdmReceived(m.id)
          /\ n - m.id < SeqWindow
      BY <2>2, <1>0 DEF BufferInv, RdmPktsAgree, RdmRecent, RdgramWindowOpen, InWindow
    <3> QED BY <3>1, <1>1, <1>2 DEF RdmReceived
  <2> QED BY <2>1, <2>2, <1>0
<1>10. AckedIsDelivered'
  <2> SUFFICES ASSUME NEW i \in 1 .. n + 1
               PROVE  \/ \E s \in DOMAIN sendbuf_pkt_db' : sendbuf_pkt_db'[s].id = i
                      \/ [id |-> i, len |-> sent'[i]] \in recved
    BY <1>0, <1>2 DEF AckedIsDelivered
  <2>1. CASE i = n + 1
    BY <2>1, <1>0
  <2>2. CASE i \in 1 .. n
    <3>1. \/ \E s \in DOMAIN sendbuf_pkt_db : sendbuf_pkt_db[s].id = i
          \/ [id |-> i, len |-> sent[i]] \in recved
      BY <2>2, <1>0 DEF BufferInv, AckedIsDelivered
    <3> QED BY <3>1, <2>2, <1>0, <1>2, <1>6
  <2> QED BY <2>1, <2>2, <1>1
<1> QED BY <1>2, <1>4, <1>6, <1>7, <1>8, <1>9, <1>10 DEF BufferInv

\* A packet of the buffer is what a retransmission copies.
LEMMA CopyOfEntry ==
    ASSUME BufferInv, NEW s \in DOMAIN sendbuf_pkt_db, NEW m, m = DataPkt(s, sendbuf_pkt_db[s])
    PROVE  m.type = "DATA_PKT" /\ RdmRecent(m.id) /\ m.seqnb = SeqnbOf(m.id) /\ m.len = sent[m.id]
BY SendbufEntry DEF BufferInv, RdmSendbufAgrees, DataPkt

\* The steps that leave the buffer alone, send only copies of what it holds
\* or acks of what was delivered, and deliver only what was sent.
RdmQuietStep ==
    /\ UNCHANGED <<sent, next_xmit_seqnb, sendbuf_pkt_db, stopped>>
    /\ recved \subseteq recved'
    /\ \A m \in net' \cup seqnb2ack_list' :
           \/ m \in net \cup seqnb2ack_list
           \/ \E s \in DOMAIN sendbuf_pkt_db : m = DataPkt(s, sendbuf_pkt_db[s])
           \/ \E d \in net : /\ d.type = "DATA_PKT" /\ m = AckPkt(d.seqnb, d.id)
                             /\ PayloadOf(d) \in recved'

LEMMA QuietBuffer ==
    ASSUME BufferInv, RdmQuietStep, RdmTypeInv'
    PROVE  BufferInv'
<1> USE DEF RdmQuietStep
<1>1. next_xmit_seqnb' = Len(sent') % SeqMod /\ RdmSendbufAgrees' /\ AckedIsDelivered'
  BY DEF BufferInv, RdmSendbufAgrees, AckedIsDelivered, RdmRecent, SeqnbOf
<1>2. RdmPktsAgree'
  <2> SUFFICES ASSUME NEW m \in net' \cup seqnb2ack_list'
               PROVE  /\ m.type \in {"DATA_PKT", "ACK_PKT"}
                      /\ RdmRecent(m.id)
                      /\ m.seqnb = SeqnbOf(m.id)
                      /\ m.type = "DATA_PKT" => m.len = sent[m.id]
                      /\ m.type = "ACK_PKT" => [id |-> m.id, len |-> sent[m.id]] \in recved'
    BY DEF RdmPktsAgree, RdmRecent, RdmReceived, SeqnbOf
  <2>1. CASE m \in net \cup seqnb2ack_list
    BY <2>1 DEF BufferInv, RdmPktsAgree, RdmReceived
  <2>2. CASE \E s \in DOMAIN sendbuf_pkt_db : m = DataPkt(s, sendbuf_pkt_db[s])
    BY <2>2, CopyOfEntry
  <2>3. ASSUME NEW d \in net, d.type = "DATA_PKT", m = AckPkt(d.seqnb, d.id), PayloadOf(d) \in recved'
        PROVE  /\ m.type = "ACK_PKT" /\ RdmRecent(m.id) /\ m.seqnb = SeqnbOf(m.id)
               /\ [id |-> m.id, len |-> sent[m.id]] \in recved'
    <3>1. m.type = "ACK_PKT" /\ m.id = d.id /\ m.seqnb = d.seqnb
      BY <2>3 DEF AckPkt
    <3>2. RdmRecent(d.id) /\ d.seqnb = SeqnbOf(d.id) /\ d.len = sent[d.id]
      BY <2>3 DEF BufferInv, RdmPktsAgree
    <3> QED BY <3>1, <3>2, <2>3 DEF PayloadOf
  <2> QED BY <2>1, <2>2, <2>3
<1> QED BY <1>1, <1>2 DEF BufferInv

\* The steps that shrink the send buffer: an ack, or stop().
LEMMA ShrinkBuffer ==
    ASSUME BufferInv, NEW S \in SUBSET DOMAIN sendbuf_pkt_db, SendbufDel(S),
           UNCHANGED <<sent, next_xmit_seqnb, sendbuf_max_len, maysend_threshold, maysend_fresh,
                       net, seqnb2ack_list, recved>>,
           stopped' = TRUE \/ (stopped' = stopped /\ \A s \in S : RdmReceived(sendbuf_pkt_db[s].id))
    PROVE  BufferInv'
<1>0. /\ DOMAIN sendbuf_pkt_db' = DOMAIN sendbuf_pkt_db \ S
      /\ \A s \in DOMAIN sendbuf_pkt_db \ S : sendbuf_pkt_db'[s] = sendbuf_pkt_db[s]
      /\ zt_maysend' \in BOOLEAN
  BY DEF SendbufDel, Restrict
<1>1. RdmTypeInv'
  BY <1>0 DEF BufferInv, RdmTypeInv
<1>2. next_xmit_seqnb' = Len(sent') % SeqMod /\ RdmSendbufAgrees'
  BY <1>0 DEF BufferInv, RdmSendbufAgrees, RdmRecent, SeqnbOf
<1>3. RdmPktsAgree'
  BY DEF BufferInv, RdmPktsAgree, SeqnbOf, RdmRecent, RdmReceived
<1>4. AckedIsDelivered'
  <2>1. CASE stopped'
    BY <2>1 DEF AckedIsDelivered
  <2>2. CASE ~stopped' /\ ~stopped /\ \A s \in S : RdmReceived(sendbuf_pkt_db[s].id)
    <3> SUFFICES ASSUME NEW i \in 1 .. Len(sent)
                 PROVE  (\E s \in DOMAIN sendbuf_pkt_db' : sendbuf_pkt_db'[s].id = i) \/ RdmReceived(i)
      BY DEF AckedIsDelivered, RdmReceived
    <3>1. (\E s \in DOMAIN sendbuf_pkt_db : sendbuf_pkt_db[s].id = i) \/ RdmReceived(i)
      BY <2>2 DEF BufferInv, AckedIsDelivered, RdmReceived
    <3> QED BY <3>1, <2>2, <1>0
  <2> QED BY <2>1, <2>2 DEF BufferInv, RdmTypeInv
<1> QED BY <1>1, <1>2, <1>3, <1>4 DEF BufferInv

\* The packet an ack takes out of the buffer is the one it acknowledges.
LEMMA AckedWasReceived ==
    ASSUME BufferInv, NEW m \in net, m.type = "ACK_PKT", m.seqnb \in DOMAIN sendbuf_pkt_db
    PROVE  RdmReceived(sendbuf_pkt_db[m.seqnb].id)
<1> DEFINE i == sendbuf_pkt_db[m.seqnb].id
<1>1. RdmRecent(i) /\ m.seqnb = SeqnbOf(i)
  BY DEF BufferInv, RdmSendbufAgrees
<1>2. RdmRecent(m.id) /\ m.seqnb = SeqnbOf(m.id) /\ RdmReceived(m.id)
  BY DEF BufferInv, RdmPktsAgree
<1>3. Len(sent) \in Nat /\ SeqWindow \in Nat
  BY Constants DEF BufferInv, RdmTypeInv
<1> HIDE DEF i
<1>4. /\ i \in Nat \ {0} /\ m.id \in Nat \ {0}
      /\ i - m.id <= SeqWindow /\ m.id - i <= SeqWindow
  BY <1>1, <1>2, <1>3 DEF RdmRecent
<1>5. i = m.id
  BY <1>1, <1>2, <1>4, SameSeqnb
<1> QED BY <1>2, <1>5 DEF i
-----------------------------------------------------------------------------
(* The accounting and the notifications.                                    *)

\* The bytes of the buffer before and after a packet is added.
LEMMA SendAccount ==
    ASSUME RdmInv, NEW len \in Lens, PktFromUpper(len), next_xmit_seqnb \notin DOMAIN sendbuf_pkt_db,
           RdmTypeInv'
    PROVE  AccountInv'
<1> DEFINE nx == next_xmit_seqnb
           D == DOMAIN sendbuf_pkt_db
           D2 == DOMAIN sendbuf_pkt_db'
           total == HdrLen + len
<1>1. /\ D2 = D \cup {nx} /\ \A s \in D : sendbuf_pkt_db'[s] = sendbuf_pkt_db[s]
      /\ sendbuf_pkt_db'[nx].len = len
  BY DEF PktFromUpper
<1>2. /\ sendbuf_used_len' = sendbuf_used_len + total
      /\ zt_maysend' = (\/ zt_maysend
                        \/ /\ maysend_is_set
                           /\ sendbuf_free_len - total < maysend_threshold
                           /\ sendbuf_free_len - total + total >= maysend_threshold)
      /\ ~(sendbuf_is_limited /\ sendbuf_used_len + total > sendbuf_max_len)
      /\ UNCHANGED <<sendbuf_max_len, maysend_threshold, maysend_event, maysend_fresh>>
  BY DEF PktFromUpper, SendbufAdd
<1>3. IsFiniteSet(D2) /\ \A y \in D2 : sendbuf_pkt_db'[y] \in Payload
  <2>1. IsFiniteSet(D)
    BY DbFinite DEF RdmInv, BufferInv
  <2> QED BY <2>1, <1>1, FS_AddElement DEF RdmTypeInv
<1>4. nx \in D2 /\ D2 \ {nx} = D /\ \A y \in D2 \ {nx} : sendbuf_pkt_db[y] = sendbuf_pkt_db'[y]
  BY <1>1
<1> HIDE DEF D, D2, nx
<1>5. /\ PktsLen(HdrLen, sendbuf_pkt_db', D2) = len + HdrLen + PktsLen(HdrLen, sendbuf_pkt_db, D)
      /\ PktsLen(HdrLen, sendbuf_pkt_db, D) \in Nat
  <2>1. IsFiniteSet(D2) /\ nx \in D2 /\ D2 \ {nx} = D
    BY <1>3, <1>4
  <2>2. (\A y \in D2 : sendbuf_pkt_db'[y] \in Payload) /\ (\A y \in D : sendbuf_pkt_db[y] = sendbuf_pkt_db'[y])
    BY <1>3, <1>4
  <2>3. sendbuf_pkt_db'[nx].len = len
    BY <1>1
  <2>4. /\ PktsLen(HdrLen, sendbuf_pkt_db', D2) = PktLen(sendbuf_pkt_db'[nx]) + PktsLen(HdrLen, sendbuf_pkt_db, D)
        /\ PktsLen(HdrLen, sendbuf_pkt_db, D) \in Nat
    BY <2>1, <2>2, PktsLenAdd
  <2> QED BY <2>3, <2>4 DEF PktLen, LenOf
<1>6. HdrLen \in Nat /\ len \in Nat
  BY Constants
<1>7. sendbuf_used_len = PktsLen(HdrLen, sendbuf_pkt_db, D) /\ sendbuf_used_len \in Nat
  BY <1>5 DEF RdmInv, AccountInv, SendbufAccounting, SendbufLen, D
<1>8. SendbufAccounting'
  <2>1. sendbuf_used_len' = SendbufLen'
    BY <1>2, <1>5, <1>6, <1>7 DEF SendbufLen, D2
  <2>2. sendbuf_is_limited' => sendbuf_used_len' <= sendbuf_max_len'
    BY <1>2, <1>6, <1>7 DEF sendbuf_is_limited, RdmInv, BufferInv, RdmTypeInv
  <2> QED BY <2>1, <2>2 DEF SendbufAccounting
<1>9. (maysend_fresh => maysend_is_set)'
  BY <1>2 DEF RdmInv, AccountInv, maysend_is_set, sendbuf_is_limited
<1>10. MaysendAccurate'
  BY <1>2, <1>6, <1>7, SMTT(30) DEF RdmInv, AccountInv, MaysendAccurate, sendbuf_free_len, BufferInv, RdmTypeInv
<1> QED BY <1>8, <1>9, <1>10 DEF AccountInv

\* The bytes of the buffer before and after packets are deleted.
LEMMA DelAccount ==
    ASSUME RdmInv, NEW S \in SUBSET DOMAIN sendbuf_pkt_db, SendbufDel(S),
           S = DOMAIN sendbuf_pkt_db \/ \E x \in DOMAIN sendbuf_pkt_db : S = {x},
           UNCHANGED <<sendbuf_max_len, maysend_threshold, maysend_event, maysend_fresh>>
    PROVE  AccountInv'
<1> DEFINE D == DOMAIN sendbuf_pkt_db
           len == PktsLen(HdrLen, sendbuf_pkt_db, S)
           rest == PktsLen(HdrLen, sendbuf_pkt_db', DOMAIN sendbuf_pkt_db')
<1>0. sendbuf_used_len' = sendbuf_used_len - len /\ sendbuf_pkt_db' = Restrict(sendbuf_pkt_db, D \ S)
  BY DEF SendbufDel
<1>1. ~zt_maysend' => /\ ~zt_maysend
                     /\ ~(/\ maysend_is_set
                          /\ sendbuf_free_len + len >= maysend_threshold
                          /\ (sendbuf_free_len + len) - len < maysend_threshold)
  BY DEF SendbufDel
<1>a. /\ DOMAIN sendbuf_pkt_db' = D \ S
      /\ \A y \in D \ S : sendbuf_pkt_db'[y] = sendbuf_pkt_db[y]
  BY <1>0 DEF Restrict
<1>2. IsFiniteSet(D) /\ \A y \in D : sendbuf_pkt_db[y] \in Payload
  BY DbFinite DEF RdmInv, BufferInv, RdmTypeInv
<1>3. PktsLen(HdrLen, sendbuf_pkt_db, D) = len + rest /\ len \in Nat /\ rest \in Nat
  <2>1. CASE S = D
    <3>1. DOMAIN sendbuf_pkt_db' = {}
      BY <1>a, <2>1
    <3>2. rest = 0
      BY <3>1, PktsLenEmpty
    <3>3. len \in Nat
      BY <2>1, <1>2, PktsLenNat
    <3> QED BY <3>2, <3>3, <2>1
  <2>2. ASSUME NEW x \in D, S = {x} PROVE PktsLen(HdrLen, sendbuf_pkt_db, D) = len + rest /\ len \in Nat /\ rest \in Nat
    <3>1. len = PktLen(sendbuf_pkt_db[x])
      BY <2>2, <1>2, PktsLenOne
    <3>2. PktLen(sendbuf_pkt_db[x]) \in Nat
      BY <1>2, BytesNat
    <3>3. IsFiniteSet(D) /\ x \in D /\ D \ {x} = D \ S
      BY <1>2, <2>2
    <3>4. (\A y \in D : sendbuf_pkt_db[y] \in Payload) /\ (\A y \in D \ S : sendbuf_pkt_db'[y] = sendbuf_pkt_db[y])
      BY <1>a, <1>2
    <3> HIDE DEF D
    <3>5. /\ PktsLen(HdrLen, sendbuf_pkt_db, D) = PktLen(sendbuf_pkt_db[x]) + PktsLen(HdrLen, sendbuf_pkt_db', D \ S)
          /\ PktsLen(HdrLen, sendbuf_pkt_db', D \ S) \in Nat
      BY <3>3, <3>4, PktsLenAdd
    <3>6. rest = PktsLen(HdrLen, sendbuf_pkt_db', D \ S)
      BY <1>a
    <3> HIDE DEF rest, len
    <3> QED BY <3>1, <3>2, <3>5, <3>6
  <2> QED BY <2>1, <2>2
<1>4. sendbuf_used_len = PktsLen(HdrLen, sendbuf_pkt_db, D)
  BY DEF RdmInv, AccountInv, SendbufAccounting, SendbufLen
<1>5. sendbuf_used_len' = SendbufLen'
  BY <1>0, <1>1, <1>3, <1>4 DEF SendbufLen
<1> HIDE DEF len, rest, D
<1>6. /\ sendbuf_used_len \in Nat /\ sendbuf_used_len' = sendbuf_used_len - len
      /\ sendbuf_used_len' <= sendbuf_used_len /\ sendbuf_used_len' \in Nat
  BY <1>0, <1>1, <1>3, <1>4
<1>7. SendbufAccounting'
  <2>1. sendbuf_is_limited' => sendbuf_used_len' <= sendbuf_max_len'
    BY <1>6 DEF RdmInv, AccountInv, SendbufAccounting, sendbuf_is_limited, BufferInv, RdmTypeInv
  <2> QED BY <2>1, <1>5 DEF SendbufAccounting
<1>8. (maysend_fresh => maysend_is_set)'
  BY DEF RdmInv, AccountInv, maysend_is_set, sendbuf_is_limited
<1>9. MaysendAccurate'
  BY <1>0, <1>1, <1>3, <1>6 DEF RdmInv, AccountInv, MaysendAccurate, sendbuf_free_len, BufferInv, RdmTypeInv
<1> QED BY <1>7, <1>8, <1>9 DEF AccountInv

\* The steps that leave the buffer and its settings alone.
LEMMA QuietAccount ==
    ASSUME RdmInv, UNCHANGED <<sendbuf_pkt_db, sendbuf_used_len, sendbuf_max_len, maysend_threshold,
                               zt_maysend, maysend_event, maysend_fresh>>
    PROVE  AccountInv'
BY DEF RdmInv, AccountInv, SendbufAccounting, MaysendAccurate, SendbufLen, sendbuf_is_limited,
       maysend_is_set, sendbuf_free_len

LEMMA UsedLenNat == RdmInv => sendbuf_used_len \in Nat
<1> SUFFICES ASSUME RdmInv PROVE sendbuf_used_len \in Nat
  OBVIOUS
<1>1. IsFiniteSet(DOMAIN sendbuf_pkt_db) /\ \A s \in DOMAIN sendbuf_pkt_db : sendbuf_pkt_db[s] \in Payload
  BY DbFinite DEF RdmInv, BufferInv, RdmTypeInv
<1>2. PktsLen(HdrLen, sendbuf_pkt_db, DOMAIN sendbuf_pkt_db) \in Nat
  BY <1>1, PktsLenNat
<1> QED BY <1>2 DEF RdmInv, AccountInv, SendbufAccounting, SendbufLen
-----------------------------------------------------------------------------
(* The invariant holds initially and every step keeps it.                   *)

LEMMA RdmInitInv == RdmInit => RdmInv
<1> SUFFICES ASSUME RdmInit PROVE RdmInv
  OBVIOUS
<1> USE DEF RdmInit, RdgramInit
<1>0. DOMAIN sendbuf_pkt_db = {} /\ Len(sent) = 0 /\ sent \in Seq(Lens)
  OBVIOUS
<1>a. MaxSend \in Nat
  BY Constants
<1>b. zt_maysend \in BOOLEAN /\ maysend_fresh \in BOOLEAN /\ stopped \in BOOLEAN
  OBVIOUS
<1>1. RdmTypeInv
  BY <1>0, <1>a, <1>b DEF RdmTypeInv
<1>2. next_xmit_seqnb = Len(sent) % SeqMod
  BY <1>0, Constants
<1>3. RdmSendbufAgrees /\ RdmPktsAgree /\ AckedIsDelivered
  BY <1>0 DEF RdmSendbufAgrees, RdmPktsAgree, AckedIsDelivered
<1>4. SendbufAccounting
  BY <1>0, PktsLenEmpty DEF SendbufAccounting, SendbufLen, sendbuf_is_limited
<1>5. MaysendAccurate /\ (maysend_fresh => maysend_is_set)
  BY DEF MaysendAccurate
<1> QED BY <1>1, <1>2, <1>3, <1>4, <1>5 DEF RdmInv, BufferInv, AccountInv

\* The zero-timer and the settings of the user.
LEMMA SettingsInv ==
    ASSUME RdmInv, UNCHANGED recved,
           \/ ZerotimerMaysend
           \/ \E t \in Thresholds : MaysendSetThreshold(t)
           \/ \E len \in SendbufLens : SendbufSetMaxLen(len)
    PROVE  RdmInv'
<1>0. sendbuf_used_len \in Nat /\ sendbuf_max_len \in Nat /\ maysend_threshold \in Nat
  BY UsedLenNat DEF RdmInv, BufferInv, RdmTypeInv
<1>a. UNCHANGED <<sent, next_xmit_seqnb, sendbuf_pkt_db, sendbuf_used_len, stopped, net, seqnb2ack_list>>
  BY DEF ZerotimerMaysend, MaysendSetThreshold, SendbufSetMaxLen, ackVars
<1>b. SendbufLen' = SendbufLen
  BY <1>a DEF SendbufLen
<1>1. RdmQuietStep
  BY <1>a DEF RdmQuietStep
<1>2. CASE ZerotimerMaysend
  <2> USE <1>2 DEF ZerotimerMaysend
  <2>1. RdmTypeInv'
    BY DEF RdmInv, BufferInv, RdmTypeInv
  <2>2. AccountInv'
    <3>1. SendbufAccounting'
      BY <1>b DEF RdmInv, AccountInv, SendbufAccounting, sendbuf_is_limited
    <3>2. (maysend_fresh => maysend_is_set)'
      BY DEF RdmInv, AccountInv, maysend_is_set, sendbuf_is_limited
    <3>3. MaysendAccurate'
      <4>1. maysend_fresh => maysend_is_set
        BY DEF RdmInv, AccountInv
      <4>2. maysend_fresh => maysend_event' = IF sendbuf_free_len < maysend_threshold THEN "off" ELSE "on"
        BY <4>1
      <4> QED BY <4>2 DEF MaysendAccurate, sendbuf_free_len
    <3> QED BY <3>1, <3>2, <3>3 DEF AccountInv
  <2>3. BufferInv'
    BY <2>1, <1>1, QuietBuffer DEF RdmInv
  <2> QED BY <2>2, <2>3 DEF RdmInv
<1>3. CASE \E t \in Thresholds : MaysendSetThreshold(t)
  <2>0. PICK t \in Thresholds : MaysendSetThreshold(t)
    BY <1>3
  <2> USE <2>0 DEF MaysendSetThreshold
  <2>1. RdmTypeInv'
    <3>1. t \in Nat
      BY Constants
    <3> QED BY <3>1 DEF RdmInv, BufferInv, RdmTypeInv
  <2>2. AccountInv'
    <3>1. SendbufAccounting'
      BY <1>b DEF RdmInv, AccountInv, SendbufAccounting, sendbuf_is_limited
    <3>2. (maysend_fresh => maysend_is_set)'
      BY DEF maysend_is_set, sendbuf_is_limited
    <3>3. maysend_fresh' => zt_maysend'
      OBVIOUS
    <3> QED BY <3>1, <3>2, <3>3 DEF AccountInv, MaysendAccurate
  <2>3. BufferInv'
    BY <2>1, <1>1, QuietBuffer DEF RdmInv
  <2> QED BY <2>2, <2>3 DEF RdmInv
<1>4. CASE \E len \in SendbufLens : SendbufSetMaxLen(len)
  <2>0. PICK len \in SendbufLens : SendbufSetMaxLen(len)
    BY <1>4
  <2> USE <2>0 DEF SendbufSetMaxLen
  <2>a. len \in Nat
    BY Constants
  <2>1. RdmTypeInv'
    BY <2>a DEF RdmInv, BufferInv, RdmTypeInv
  <2>2. AccountInv'
    <3>1. SendbufAccounting'
      BY <2>a, <1>0, <1>b DEF RdmInv, AccountInv, SendbufAccounting, sendbuf_is_limited
    <3> QED BY <3>1 DEF AccountInv, MaysendAccurate
  <2>3. BufferInv'
    BY <2>1, <1>1, QuietBuffer DEF RdmInv
  <2> QED BY <2>2, <2>3 DEF RdmInv
<1> QED BY <1>2, <1>3, <1>4

\* Every step keeps the invariant.
LEMMA RdmNextInv == RdmInv /\ [RdmNext]_rdmVars => RdmInv'
<1> SUFFICES ASSUME RdmInv, [RdmNext]_rdmVars PROVE RdmInv'
  OBVIOUS
<1>1. ASSUME NEW len \in Lens, PktFromUpper(len), UNCHANGED recved PROVE RdmInv'
  <2>1. BufferInv' /\ next_xmit_seqnb \notin DOMAIN sendbuf_pkt_db
    BY <1>1, SendBuffer DEF RdmInv
  <2>2. AccountInv'
    BY <1>1, <2>1, SendAccount DEF BufferInv
  <2> QED BY <2>1, <2>2 DEF RdmInv
<1>2. ASSUME NEW s \in DOMAIN sendbuf_pkt_db, RxmitTimeout(s), UNCHANGED recved PROVE RdmInv'
  <2> USE <1>2 DEF RxmitTimeout, sendVars, ackVars
  <2>1. AccountInv'
    BY QuietAccount
  <2>2. RdmTypeInv' /\ RdmQuietStep
    BY DEF RdmInv, BufferInv, RdmTypeInv, RdmQuietStep
  <2> QED BY <2>1, <2>2, QuietBuffer DEF RdmInv
<1>3. ASSUME NEW m \in net, RecvAckPkt(m), UNCHANGED recved PROVE RdmInv'
  <2> DEFINE S == {m.seqnb}
  <2>1. /\ m.type = "ACK_PKT" /\ m.seqnb \in DOMAIN sendbuf_pkt_db /\ SendbufDel(S)
        /\ UNCHANGED <<sent, next_xmit_seqnb, sendbuf_max_len, maysend_threshold, maysend_fresh,
                       maysend_event, net, seqnb2ack_list, recved, stopped>>
    BY <1>3 DEF RecvAckPkt, ackVars
  <2>2. S \in SUBSET DOMAIN sendbuf_pkt_db /\ \A s \in S : RdmReceived(sendbuf_pkt_db[s].id)
    BY <2>1, AckedWasReceived DEF RdmInv
  <2>3. \E x \in DOMAIN sendbuf_pkt_db : S = {x}
    BY <2>1
  <2> HIDE DEF S
  <2>4. BufferInv'
    BY <2>1, <2>2, ShrinkBuffer DEF RdmInv
  <2>5. AccountInv'
    BY <2>1, <2>2, <2>3, DelAccount
  <2> QED BY <2>4, <2>5 DEF RdmInv
<1>4. ASSUME Stop, UNCHANGED recved PROVE RdmInv'
  <2>1. /\ stopped' = TRUE /\ SendbufDel(DOMAIN sendbuf_pkt_db)
        /\ UNCHANGED <<sent, next_xmit_seqnb, sendbuf_max_len, maysend_threshold, maysend_fresh,
                       maysend_event, net, seqnb2ack_list, recved>>
    BY <1>4 DEF Stop, ackVars
  <2>2. BufferInv'
    BY <2>1, ShrinkBuffer DEF RdmInv
  <2>3. AccountInv'
    BY <2>1, DelAccount
  <2> QED BY <2>2, <2>3 DEF RdmInv
<1>5. ASSUME ZerotimerSeqnb2ack, UNCHANGED recved PROVE RdmInv'
  <2> USE <1>5 DEF ZerotimerSeqnb2ack, sendVars
  <2>1. AccountInv'
    BY QuietAccount
  <2>2. RdmTypeInv' /\ RdmQuietStep
    BY DEF RdmInv, BufferInv, RdmTypeInv, RdmQuietStep
  <2> QED BY <2>1, <2>2, QuietBuffer DEF RdmInv
<1>6. ASSUME NEW m \in net, Lose(m), UNCHANGED recved PROVE RdmInv'
  <2> USE <1>6 DEF Lose, sendVars, ackVars
  <2>1. AccountInv'
    BY QuietAccount
  <2>2. RdmTypeInv' /\ RdmQuietStep
    BY DEF RdmInv, BufferInv, RdmTypeInv, RdmQuietStep
  <2> QED BY <2>1, <2>2, QuietBuffer DEF RdmInv
<1>7. ASSUME NEW m \in net, RdmRecvDataPkt(m) PROVE RdmInv'
  <2> USE <1>7 DEF RdmRecvDataPkt, ScheduleAck, sendVars
  <2>1. AccountInv'
    BY QuietAccount
  <2>2. RdmTypeInv' /\ RdmQuietStep
    BY DEF RdmInv, BufferInv, RdmTypeInv, RdmQuietStep
  <2> QED BY <2>1, <2>2, QuietBuffer DEF RdmInv
<1>8. CASE UNCHANGED rdmVars
  <2> USE <1>8 DEF rdmVars, rdgramVars, sendVars, ackVars
  <2>1. AccountInv'
    BY QuietAccount
  <2>2. RdmTypeInv' /\ RdmQuietStep
    BY DEF RdmInv, BufferInv, RdmTypeInv, RdmQuietStep
  <2> QED BY <2>1, <2>2, QuietBuffer DEF RdmInv
<1>9. CASE RdmNext
  <2>1. CASE RdgramNext /\ UNCHANGED recved
    BY <2>1, <1>1, <1>2, <1>3, <1>4, <1>5, <1>6, SettingsInv DEF RdgramNext, SenderNext
  <2>2. CASE \E m \in net : RdmRecvDataPkt(m)
    BY <2>2, <1>7
  <2> QED BY <1>9, <2>1, <2>2 DEF RdmNext
<1> QED BY <1>8, <1>9

\* The invariant holds in every reachable state.
THEOREM RdmInductive == RdmSpec => []RdmInv
<1>1. RdmInit => RdmInv
  BY RdmInitInv
<1>2. RdmInv /\ [RdmNext]_rdmVars => RdmInv'
  BY RdmNextInv
<1> QED BY <1>1, <1>2, PTL DEF RdmSpec
-----------------------------------------------------------------------------
\* No packet leaves the send buffer of rdgram_t before it was delivered, for
\* every modulus and window, whatever the network loses or reorders.
THEOREM AckedDelivered == RdmSpec => []AckedIsDelivered
<1>1. RdmInv => AckedIsDelivered
  BY DEF RdmInv, BufferInv
<1> QED BY <1>1, RdmInductive, PTL

\* sendbuf_used_len is what the packets of the buffer weigh, headers included,
\* and never exceeds the limit that was set.
THEOREM AccountingExact == RdmSpec => []SendbufAccounting
<1>1. RdmInv => SendbufAccounting
  BY DEF RdmInv, AccountInv
<1> QED BY <1>1, RdmInductive, PTL

\* Between two runs of the zero-timer the last MAYSEND event tells the truth.
THEOREM MaysendTrue == RdmSpec => []MaysendAccurate
<1>1. RdmInv => MaysendAccurate
  BY DEF RdmInv, AccountInv
<1> QED BY <1>1, RdmInductive, PTL
=============================================================================
