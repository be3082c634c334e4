--------------------------- MODULE PktfragProofs ---------------------------
(***************************************************************************)
(* Proofs about Pktfrag, for every range of sequence numbers, every set of *)
(* MTUs and of lengths, and any number of datagrams and copies.            *)
(***************************************************************************)
EXTENDS Pktfrag, NatLemmas

\* Adding the divisor leaves the remainder alone.
LEMMA ModShift ==
    ASSUME NEW m \in Nat \ {0}, NEW a \in Nat
    PROVE  (a + m) % m = a % m
<1> DEFINE x == a % m
           y == (a + m) % m
           q == 1 + (a \div m) - ((a + m) \div m)
<1>1. a = m * (a \div m) + x /\ x \in 0 .. (m - 1)
  OBVIOUS
<1>2. a + m = m * ((a + m) \div m) + y /\ y \in 0 .. (m - 1)
  OBVIOUS
<1>3. y - x = m * q /\ q \in Int
  BY <1>1, <1>2, Z3
<1> HIDE DEF q
<1>4. q = 0
  <2> HIDE DEF x, y
  <2> QED BY <1>1, <1>2, <1>3, Z3
<1> QED
  BY <1>1, <1>2, <1>3, <1>4

\* Two multiples of m are at least m apart.
LEMMA MultiplesApart ==
    ASSUME NEW m \in Nat \ {0}, NEW a \in Nat, NEW b \in Nat,
           a % m = 0, b % m = 0, a < b
    PROVE  a + m <= b
<1> DEFINE k == (b \div m) - (a \div m)
<1>1. a = m * (a \div m) /\ b = m * (b \div m)
  OBVIOUS
<1>2. b - a = m * k /\ k \in Int
  BY <1>1, Z3
<1> HIDE DEF k
<1>3. k >= 1
  BY <1>2, Z3
<1>4. m * k >= m
  BY <1>3, <1>2, Z3
<1> QED
  BY <1>2, <1>4

\* The offsets of a datagram: they begin with 0, follow each other at the
\* distance of payl_mtu up to the end, and no two are closer.
LEMMA OffsetsFollow ==
    ASSUME NEW d \in Datagrams, NEW o \in Offsets(d)
    PROVE  /\ o \in Nat /\ o < d.len
           /\ d.mtu - HdrLen \in Nat \ {0}
           /\ d.len \in Nat \ {0}
           /\ 0 \in Offsets(d)
           /\ o + (d.mtu - HdrLen) < d.len => o + (d.mtu - HdrLen) \in Offsets(d)
           /\ o # 0 => o - (d.mtu - HdrLen) \in Offsets(d)
           /\ \A q \in Offsets(d) : o < q => o + (d.mtu - HdrLen) <= q
<1> DEFINE m == d.mtu - HdrLen
<1>1. m \in Nat \ {0} /\ d.len \in Nat \ {0}
  <2>1. d.mtu \in Mtus /\ d.len \in Lens
    BY DEF Datagrams
  <2>2. d.mtu \in Nat /\ d.mtu > HdrLen /\ HdrLen \in Nat /\ d.len \in Nat \ {0}
    BY <2>1, PktfragAssumption
  <2> QED BY <2>2
<1>2. o \in Nat /\ o < d.len /\ o % m = 0
  BY <1>1 DEF Offsets
<1>3. 0 \in Offsets(d)
  BY <1>1 DEF Offsets
<1> HIDE DEF m
<1>4. o + m < d.len => o + m \in 0 .. (d.len - 1) /\ (o + m) % m = 0
  <2>1. (o + m) % m = o % m
    BY <1>1, <1>2, ModShift
  <2> QED BY <2>1, <1>1, <1>2
<1>5. o # 0 => o - m \in 0 .. (d.len - 1) /\ (o - m) % m = 0
  <2> SUFFICES ASSUME o # 0 PROVE o - m \in 0 .. (d.len - 1) /\ (o - m) % m = 0
    OBVIOUS
  <2>1. 0 + m <= o
    BY <1>1, <1>2, MultiplesApart
  <2>2. o - m \in Nat /\ o - m < d.len
    BY <2>1, <1>1, <1>2
  <2>3. ((o - m) + m) % m = (o - m) % m
    BY <2>2, <1>1, ModShift
  <2> QED BY <2>2, <2>3, <1>1, <1>2
<1>6. ASSUME NEW q \in 0 .. (d.len - 1), q % m = 0, o < q
      PROVE  o + m <= q
  <2>1. q \in Nat
    BY <1>1
  <2> QED BY <2>1, <1>1, <1>2, <1>6, MultiplesApart
<1> QED
  BY <1>1, <1>2, <1>3, <1>4, <1>5, <1>6 DEF Offsets, m

\* A fragment ends where the next one begins, or with the datagram.
LEMMA FragmentEnds ==
    ASSUME NEW i, NEW d \in Datagrams, NEW o \in Offsets(d), NEW p, p = Fragment(i, d, o)
    PROVE  /\ p.type = "PKT_FRAGMENT" /\ p.id = i /\ p.seqnb = d.seqnb /\ p.offset = o
           /\ p.more \in BOOLEAN /\ p.len \in Nat \ {0}
           /\ p.more => o + p.len \in Offsets(d)
           /\ ~p.more => o + p.len = d.len
           /\ \A q \in Offsets(d) : o < q => p.len = d.mtu - HdrLen /\ o + p.len <= q
<1> DEFINE m == d.mtu - HdrLen
<1>1. /\ o \in Nat /\ o < d.len /\ m \in Nat \ {0} /\ d.len \in Nat \ {0}
      /\ o + m < d.len => o + m \in Offsets(d)
      /\ \A q \in Offsets(d) : o < q => o + m <= q
  BY OffsetsFollow
<1>2. \A q \in Offsets(d) : q \in Nat /\ q < d.len
  BY OffsetsFollow
<1>3. /\ p.type = "PKT_FRAGMENT" /\ p.id = i /\ p.seqnb = d.seqnb /\ p.offset = o
      /\ p.more = (d.len - o > m)
      /\ p.len = IF d.len - o > m THEN m ELSE d.len - o
  BY DEF Fragment
<1> HIDE DEF m
<1>4. CASE d.len - o > m
  <2>a. p.more = TRUE
    BY <1>3, <1>4, Zenon
  <2>b. o + m < d.len /\ p.len = m
    BY <1>1, <1>3, <1>4
  <2>1. o + m < d.len /\ p.len = m /\ p.more = TRUE
    BY <2>a, <2>b
  <2>2. \A q \in Offsets(d) : o < q => p.len = m /\ o + p.len <= q
    BY <2>1, <1>1
  <2>3. p.len \in Nat \ {0} /\ o + p.len \in Offsets(d)
    BY <2>1, <1>1
  <2> QED BY <2>1, <2>2, <2>3, <1>3 DEF m
<1>5. CASE ~(d.len - o > m)
  <2>a. p.more = FALSE
    <3>1. (d.len - o > m) = FALSE
      BY <1>1, <1>5
    <3> QED BY <3>1, <1>3, Zenon
  <2>b. p.len = d.len - o
    BY <1>3, <1>5
  <2>1. p.len = d.len - o /\ p.more = FALSE
    BY <2>a, <2>b
  <2>2. \A q \in Offsets(d) : ~(o < q)
    BY <1>1, <1>2, <1>5
  <2>3. p.len \in Nat \ {0} /\ o + p.len = d.len
    BY <2>1, <1>1
  <2> QED BY <2>1, <2>2, <2>3, <1>3
<1> QED BY <1>4, <1>5

LEMMA FragmentFields ==
    ASSUME NEW i, NEW d \in Datagrams, NEW o \in Offsets(d)
    PROVE  /\ Fragment(i, d, o).type = "PKT_FRAGMENT" /\ Fragment(i, d, o).id = i
           /\ Fragment(i, d, o).seqnb = d.seqnb /\ Fragment(i, d, o).offset = o
           /\ Fragment(i, d, o).more \in BOOLEAN
           /\ ~Fragment(i, d, o).more => o + Fragment(i, d, o).len = d.len
  BY FragmentEnds

\* db holds fragments of datagram i only, each at its offset.
FragmentsOf(db, i, d) ==
    /\ DOMAIN db \subseteq Offsets(d)
    /\ \A o \in DOMAIN db : db[o] = Fragment(i, d, o)

\* The walk of is_complete visits every offset: were one left out, the least
\* such would follow one it does visit.
LEMMA CompleteIsAll ==
    ASSUME NEW i, NEW d \in Datagrams, NEW pd, FragmentsOf(pd.fragment_db, i, d),
           pd.full_dgram_len = d.len, IsComplete(pd)
    PROVE  Offsets(d) \subseteq DOMAIN pd.fragment_db
<1> DEFINE db == pd.fragment_db
           m  == d.mtu - HdrLen
<1>1. PICK W \in SUBSET DOMAIN db :
        /\ 0 \in W
        /\ \A o \in W : o + db[o].len >= d.len \/ o + db[o].len \in W
  BY DEF IsComplete
<1>2. SUFFICES ASSUME Offsets(d) \ W # {} PROVE FALSE
  BY <1>1
<1>3. \A o \in Offsets(d) : o \in Nat
  BY OffsetsFollow
<1>4. PICK x \in Offsets(d) \ W : \A y \in Offsets(d) \ W : x <= y
  <2>1. Offsets(d) \ W \in SUBSET Nat
    BY <1>3
  <2> QED BY <2>1, <1>2, LeastNat
<1>5. /\ x # 0 /\ x \in Nat /\ x < d.len /\ d.len \in Nat
      /\ x - m \in Offsets(d) /\ m \in Nat \ {0}
  BY <1>1, <1>4, OffsetsFollow
<1>6. x - m \in W /\ x - m < x
  BY <1>3, <1>4, <1>5
<1>7. db[x - m] = Fragment(i, d, x - m)
  BY <1>1, <1>6 DEF FragmentsOf
<1>8. db[x - m].len = m
  BY <1>4, <1>5, <1>6, <1>7, FragmentEnds
<1>9. (x - m) + db[x - m].len = x
  BY <1>5, <1>8
<1> QED
  BY <1>1, <1>4, <1>5, <1>6, <1>9

\* All the fragments make a complete datagram.
LEMMA AllIsComplete ==
    ASSUME NEW i, NEW d \in Datagrams, NEW pd, FragmentsOf(pd.fragment_db, i, d),
           pd.full_dgram_len = d.len, Offsets(d) \subseteq DOMAIN pd.fragment_db,
           NEW o \in Offsets(d)
    PROVE  IsComplete(pd)
<1> DEFINE db == pd.fragment_db
<1>1. DOMAIN db = Offsets(d) /\ 0 \in Offsets(d) /\ d.len \in Nat \ {0}
  BY OffsetsFollow DEF FragmentsOf
<1>2. ASSUME NEW q \in Offsets(d)
      PROVE  q + db[q].len >= d.len \/ q + db[q].len \in Offsets(d)
  <2>1. db[q] = Fragment(i, d, q)
    BY <1>1 DEF FragmentsOf
  <2> QED BY <2>1, <1>1, FragmentEnds
<1> QED
  BY <1>1, <1>2 DEF IsComplete

\* ... whose concatenation is the datagram.
LEMMA AllRebuilds ==
    ASSUME NEW i, sent[i] \in Datagrams, NEW db, FragmentsOf(db, i, sent[i]),
           Offsets(sent[i]) \subseteq DOMAIN db, DOMAIN db # {}
    PROVE  Rebuilds(db, i)
<1> DEFINE d == sent[i]
<1>1. DOMAIN db = Offsets(d)
  BY DEF FragmentsOf
<1>2. 0 \in Offsets(d)
  BY <1>1, OffsetsFollow
<1>3. ASSUME NEW o \in DOMAIN db
      PROVE  /\ db[o].id = i /\ db[o].offset = o
             /\ o + db[o].len = d.len \/ o + db[o].len \in DOMAIN db
             /\ \A q \in DOMAIN db : o < q => o + db[o].len <= q
  <2>1. db[o] = Fragment(i, d, o) /\ o \in Offsets(d)
    BY <1>1 DEF FragmentsOf
  <2>2. /\ db[o].id = i /\ db[o].offset = o
        /\ db[o].more => o + db[o].len \in Offsets(d)
        /\ ~db[o].more => o + db[o].len = d.len
        /\ \A q \in Offsets(d) : o < q => o + db[o].len <= q
    BY <2>1, FragmentEnds
  <2> QED BY <2>2, <1>1
<1> QED
  BY <1>1, <1>2, <1>3 DEF Rebuilds
-----------------------------------------------------------------------------
LEMMA InitIndInv == Init => IndInv
<1> SUFFICES ASSUME Init PROVE IndInv
  OBVIOUS
<1> USE DEF Init
<1>1. DOMAIN net = {} /\ DOMAIN copies = {} /\ DOMAIN pending_dgram_db = {}
  OBVIOUS
<1>2. Len(sent) = 0 /\ sent \in Seq(Datagrams) /\ DOMAIN recved = {}
  OBVIOUS
<1>3. TypeOK
  BY <1>1, <1>2, PktfragAssumption DEF TypeOK
<1>4. DeliveredIntact
  BY DEF DeliveredIntact
<1> QED
  BY <1>1, <1>2, <1>3, <1>4
     DEF IndInv, PktsAgree, OneDgramPerSeqnb, PendingAgrees, PendingIsPartial, CopiesConserved

\* A fragment in the network is one of its datagram's.
LEMMA NetFragment ==
    ASSUME TypeOK, PktsAgree, NEW p \in DOMAIN net, p.type = "PKT_FRAGMENT"
    PROVE  /\ p.id \in 1 .. Len(sent) /\ sent[p.id] \in Datagrams /\ ~Fits(sent[p.id])
           /\ p.offset \in Offsets(sent[p.id])
           /\ p = Fragment(p.id, sent[p.id], p.offset)
           /\ p.seqnb = sent[p.id].seqnb
<1>1. p.id \in 1 .. Len(sent) /\ p \in Pkts(p.id, sent[p.id])
  BY DEF PktsAgree
<1>2. sent[p.id] \in Datagrams
  BY <1>1 DEF TypeOK
<1>3. ~Fits(sent[p.id])
  BY <1>1 DEF Pkts, WholePkt
<1>4. PICK o \in Offsets(sent[p.id]) : p = Fragment(p.id, sent[p.id], o)
  BY <1>1, <1>3 DEF Pkts
<1>5. p.offset = o /\ p.seqnb = sent[p.id].seqnb
  BY <1>2, <1>4, FragmentEnds
<1> QED
  BY <1>1, <1>2, <1>3, <1>4, <1>5

\* A pending datagram holds fragments of one datagram only.
LEMMA PendingOfOne ==
    ASSUME IndInv, NEW s \in DOMAIN pending_dgram_db
    PROVE  \E i \in 1 .. Len(sent) :
              /\ sent[i] \in Datagrams /\ ~Fits(sent[i]) /\ sent[i].seqnb = s
              /\ FragmentsOf(pending_dgram_db[s].fragment_db, i, sent[i])
              /\ \A o \in DOMAIN pending_dgram_db[s].fragment_db :
                    pending_dgram_db[s].fragment_db[o].id = i
<1> DEFINE db == pending_dgram_db[s].fragment_db
<1>0. TypeOK /\ PktsAgree
  BY DEF IndInv
<1>1. \A o \in DOMAIN db : /\ db[o] \in DOMAIN net /\ db[o].type = "PKT_FRAGMENT"
                             /\ db[o].seqnb = s /\ db[o].offset = o
  BY DEF IndInv, TypeOK, PendingAgrees
<1>2. PICK o1 \in DOMAIN db : TRUE
  BY DEF IndInv, PendingAgrees
<1>3. \A o \in DOMAIN db : Held(db[o])
  BY <1>1 DEF Held
<1>4. \A o \in DOMAIN db : db[o].id = db[o1].id
  BY <1>1, <1>3 DEF IndInv, OneDgramPerSeqnb
<1> DEFINE i == db[o1].id
<1>5. \A o \in DOMAIN db :
        /\ i \in 1 .. Len(sent) /\ sent[i] \in Datagrams /\ ~Fits(sent[i])
        /\ o \in Offsets(sent[i]) /\ db[o] = Fragment(i, sent[i], o) /\ sent[i].seqnb = s
  <2> SUFFICES ASSUME NEW o \in DOMAIN db
               PROVE  /\ i \in 1 .. Len(sent) /\ sent[i] \in Datagrams /\ ~Fits(sent[i])
                      /\ o \in Offsets(sent[i]) /\ db[o] = Fragment(i, sent[i], o)
                      /\ sent[i].seqnb = s
    OBVIOUS
  <2>1. db[o] \in DOMAIN net /\ db[o].type = "PKT_FRAGMENT"
    BY <1>1
  <2>2. /\ db[o].id \in 1 .. Len(sent) /\ sent[db[o].id] \in Datagrams
        /\ ~Fits(sent[db[o].id])
        /\ db[o].offset \in Offsets(sent[db[o].id])
        /\ db[o] = Fragment(db[o].id, sent[db[o].id], db[o].offset)
        /\ db[o].seqnb = sent[db[o].id].seqnb
    BY <2>1, <1>0, NetFragment
  <2>3. db[o].id = i /\ db[o].offset = o /\ db[o].seqnb = s
    BY <1>1, <1>4
  <2> HIDE DEF i, db
  <2> QED BY <2>2, <2>3
<1> HIDE DEF i, db
<1>6. FragmentsOf(db, i, sent[i])
  BY <1>5 DEF FragmentsOf
<1>7. \A o \in DOMAIN db : db[o].id = i
  BY <1>4 DEF i
<1>8. i \in 1 .. Len(sent) /\ sent[i] \in Datagrams /\ ~Fits(sent[i]) /\ sent[i].seqnb = s
  BY <1>5, <1>2
<1> QED
  BY <1>6, <1>7, <1>8 DEF db
-----------------------------------------------------------------------------
LEMMA SetOutterMtuInv ==
    ASSUME IndInv, NEW mtu \in Mtus, SetOutterMtu(mtu)
    PROVE  IndInv'
<1> USE DEF SetOutterMtu
<1>1. TypeOK'
  BY DEF IndInv, TypeOK
<1>2. PktsAgree' /\ OneDgramPerSeqnb' /\ PendingAgrees'
  BY DEF IndInv, PktsAgree, OneDgramPerSeqnb, PendingAgrees, Held
<1>3. PendingIsPartial' /\ CopiesConserved' /\ DeliveredIntact'
  BY DEF IndInv, PendingIsPartial, CopiesConserved, DeliveredIntact, Rebuilds, Held
<1> QED
  BY <1>1, <1>2, <1>3 DEF IndInv

LEMMA DroppedInv ==
    ASSUME IndInv, NEW p \in DOMAIN net, Dropped(p)
    PROVE  IndInv'
<1> USE DEF Dropped, Arrive
<1>0. /\ DOMAIN net' = DOMAIN net
      /\ \A q \in DOMAIN net : net[q] \in Nat /\ net'[q] \in Nat /\ net'[q] <= net[q]
  BY DEF IndInv, TypeOK
<1>1. TypeOK'
  BY <1>0 DEF IndInv, TypeOK
<1>2. PktsAgree'
  BY <1>0 DEF IndInv, PktsAgree
<1>3. \A q \in DOMAIN net : Held(q)' = Held(q)
  BY DEF Held
<1>4. OneDgramPerSeqnb'
  <2>1. \A q \in DOMAIN net : net'[q] > 0 => net[q] > 0
    BY <1>0
  <2> QED BY <2>1, <1>0, <1>3 DEF IndInv, OneDgramPerSeqnb
<1>5. PendingAgrees' /\ PendingIsPartial' /\ DeliveredIntact'
  BY DEF IndInv, PendingAgrees, PendingIsPartial, DeliveredIntact, Rebuilds
<1>6. CopiesConserved'
  <2> SUFFICES ASSUME NEW q \in DOMAIN net
               PROVE  net'[q] + (IF Held(q) THEN 1 ELSE 0) + recved[q.id] <= copies[q]
    BY <1>0, <1>3 DEF CopiesConserved
  <2>1. recved[q.id] \in Nat /\ copies[q] \in Nat
    BY DEF IndInv, TypeOK, PktsAgree
  <2>2. net[q] + (IF Held(q) THEN 1 ELSE 0) + recved[q.id] <= copies[q]
    BY DEF IndInv, CopiesConserved
  <2> QED BY <2>1, <2>2, <1>0
<1> QED
  BY <1>1, <1>2, <1>4, <1>5, <1>6 DEF IndInv

LEMMA DuplicateInv ==
    ASSUME IndInv, NEW p \in DOMAIN net, Duplicate(p)
    PROVE  IndInv'
<1> USE DEF Duplicate
<1>0. /\ DOMAIN net' = DOMAIN net /\ DOMAIN copies' = DOMAIN copies
      /\ DOMAIN copies = DOMAIN net
      /\ \A q \in DOMAIN net :
            /\ net[q] \in Nat /\ copies[q] \in Nat
            /\ net'[q] = IF q = p THEN net[q] + 1 ELSE net[q]
            /\ copies'[q] = IF q = p THEN copies[q] + 1 ELSE copies[q]
  BY DEF IndInv, TypeOK
<1>1. TypeOK'
  BY <1>0 DEF IndInv, TypeOK
<1>2. PktsAgree'
  BY <1>0 DEF IndInv, PktsAgree
<1>3. \A q \in DOMAIN net : Held(q)' = Held(q)
  BY DEF Held
<1>4. OneDgramPerSeqnb'
  <2>1. \A q \in DOMAIN net : net'[q] > 0 => net[q] > 0
    BY <1>0
  <2> QED BY <2>1, <1>0, <1>3 DEF IndInv, OneDgramPerSeqnb
<1>5. PendingAgrees' /\ PendingIsPartial' /\ DeliveredIntact'
  BY DEF IndInv, PendingAgrees, PendingIsPartial, DeliveredIntact, Rebuilds
<1>6. CopiesConserved'
  <2> SUFFICES ASSUME NEW q \in DOMAIN net
               PROVE  net'[q] + (IF Held(q) THEN 1 ELSE 0) + recved[q.id] <= copies'[q]
    BY <1>0, <1>3 DEF CopiesConserved
  <2>1. recved[q.id] \in Nat
    BY DEF IndInv, TypeOK, PktsAgree
  <2>2. net[q] + (IF Held(q) THEN 1 ELSE 0) + recved[q.id] <= copies[q]
    BY DEF IndInv, CopiesConserved
  <2> QED BY <2>1, <2>2, <1>0
<1> QED
  BY <1>1, <1>2, <1>4, <1>5, <1>6 DEF IndInv

\* A pending datagram that is deleted.
LEMMA ExpireTimeoutInv ==
    ASSUME IndInv, NEW s \in DOMAIN pending_dgram_db, ExpireTimeout(s)
    PROVE  IndInv'
<1> USE DEF ExpireTimeout
<1>0. /\ DOMAIN pending_dgram_db' = DOMAIN pending_dgram_db \ {s}
      /\ \A t \in DOMAIN pending_dgram_db \ {s} : pending_dgram_db'[t] = pending_dgram_db[t]
  BY DEF DeletePending, Restrict
<1>1. TypeOK'
  BY <1>0 DEF IndInv, TypeOK
<1>2. PktsAgree'
  BY DEF IndInv, PktsAgree
<1>3. \A q \in DOMAIN net : Held(q)' => Held(q)
  BY <1>0 DEF Held
<1>4. OneDgramPerSeqnb'
  BY <1>3 DEF IndInv, OneDgramPerSeqnb
<1>5. PendingAgrees' /\ DeliveredIntact'
  BY <1>0 DEF IndInv, PendingAgrees, DeliveredIntact, Rebuilds
<1>6. PendingIsPartial'
  BY <1>0 DEF IndInv, PendingIsPartial
<1>7. CopiesConserved'
  <2> SUFFICES ASSUME NEW q \in DOMAIN net
               PROVE  net[q] + (IF Held(q)' THEN 1 ELSE 0) + recved[q.id] <= copies[q]
    BY DEF CopiesConserved
  <2>1. recved[q.id] \in Nat /\ net[q] \in Nat /\ copies[q] \in Nat
    BY DEF IndInv, TypeOK, PktsAgree
  <2>2. net[q] + (IF Held(q) THEN 1 ELSE 0) + recved[q.id] <= copies[q]
    BY DEF IndInv, CopiesConserved
  <2> QED BY <2>1, <2>2, <1>3
<1> QED
  BY <1>1, <1>2, <1>4, <1>5, <1>6, <1>7 DEF IndInv

LEMMA RecvWholeInv ==
    ASSUME IndInv, NEW p \in DOMAIN net, RecvWhole(p)
    PROVE  IndInv'
<1> USE DEF RecvWhole, Arrive
<1> DEFINE i  == p.id
           db == [o \in {0} |-> p]
<1>0. /\ DOMAIN net' = DOMAIN net
      /\ \A q \in DOMAIN net :
            /\ net[q] \in Nat /\ net'[q] \in Nat /\ copies[q] \in Nat
            /\ net'[q] = IF q = p THEN net[q] - 1 ELSE net[q]
  BY DEF IndInv, TypeOK
<1>1. /\ i \in 1 .. Len(sent) /\ sent[i] \in Datagrams /\ Fits(sent[i])
      /\ p = WholePkt(i, sent[i]) /\ Pkts(i, sent[i]) = {p}
  <2>1. i \in 1 .. Len(sent) /\ p \in Pkts(i, sent[i])
    BY DEF IndInv, PktsAgree
  <2>2. sent[i] \in Datagrams
    BY <2>1 DEF IndInv, TypeOK
  <2>3. Fits(sent[i])
    BY <2>1 DEF Pkts, Fragment
  <2> QED BY <2>1, <2>2, <2>3 DEF Pkts
<1>2. /\ DOMAIN recved' = DOMAIN recved
      /\ \A j \in 1 .. Len(sent) :
            /\ recved[j] \in Nat
            /\ recved'[j] = IF i = j THEN recved[j] + 1 ELSE recved[j]
  BY DEF PktToUpper, IndInv, TypeOK
<1>3. TypeOK'
  BY <1>0, <1>2 DEF IndInv, TypeOK
<1>4. PktsAgree'
  BY <1>0 DEF IndInv, PktsAgree
<1>5. \A q \in DOMAIN net : Held(q)' = Held(q)
  BY DEF Held
<1>6. OneDgramPerSeqnb'
  <2>1. \A q \in DOMAIN net : net'[q] > 0 => net[q] > 0
    BY <1>0
  <2> QED BY <2>1, <1>0, <1>5 DEF IndInv, OneDgramPerSeqnb
<1>7. PendingAgrees' /\ PendingIsPartial'
  BY DEF IndInv, PendingAgrees, PendingIsPartial
<1>8. DeliveredIntact'
  <2>1. p.id = i /\ p.offset = 0 /\ p.len = sent[i].len /\ sent[i].len \in Nat
    <3>1. sent[i].len \in Lens
      BY <1>1 DEF Datagrams
    <3> QED BY <3>1, <1>1, PktfragAssumption DEF WholePkt
  <2>2. DOMAIN db = {0} /\ db[0] = p
    OBVIOUS
  <2> HIDE DEF db
  <2>3. Rebuilds(db, i)'
    BY <2>1, <2>2 DEF Rebuilds
  <2>4. \A e \in delivered' : e \in delivered \/ e = db
    BY DEF PktToUpper, db
  <2>5. \A e \in delivered : \E j \in 1 .. Len(sent) : Rebuilds(e, j)'
    BY DEF IndInv, DeliveredIntact, Rebuilds
  <2> QED BY <2>3, <2>4, <2>5, <1>1 DEF DeliveredIntact
<1>9. CopiesConserved'
  <2> SUFFICES ASSUME NEW q \in DOMAIN net
               PROVE  net'[q] + (IF Held(q) THEN 1 ELSE 0) + recved'[q.id] <= copies[q]
    BY <1>0, <1>5 DEF CopiesConserved
  <2>1. q.id \in 1 .. Len(sent) /\ q \in Pkts(q.id, sent[q.id])
    BY DEF IndInv, PktsAgree
  <2>2. net[q] + (IF Held(q) THEN 1 ELSE 0) + recved[q.id] <= copies[q]
    BY DEF IndInv, CopiesConserved
  <2>3. q.id = i => q = p
    BY <2>1, <1>1
  <2>4. recved'[q.id] = IF q = p THEN recved[q.id] + 1 ELSE recved[q.id]
    BY <2>1, <2>3, <1>2
  <2>5. /\ recved[q.id] \in Nat /\ net[q] \in Nat /\ copies[q] \in Nat
        /\ net'[q] = IF q = p THEN net[q] - 1 ELSE net[q]
    BY <2>1, <1>0, <1>2, ZenonT(20)
  <2> HIDE DEF db, i
  <2> QED BY <2>2, <2>4, <2>5
<1> QED
  BY <1>3, <1>4, <1>6, <1>7, <1>8, <1>9 DEF IndInv

LEMMA PktFromUpperInv ==
    ASSUME IndInv, NEW len \in Lens, PktFromUpper(len)
    PROVE  IndInv'
<1> DEFINE whole == len <= outter_mtu
           s     == IF whole THEN next_xmit_seqnb ELSE NextSeqnb
           d     == [len |-> len, mtu |-> outter_mtu, seqnb |-> s]
           n     == Len(sent) + 1
           new   == Pkts(n, d)
<1>1. /\ Len(sent) < MaxSend
      /\ whole \/ SeqnbFree(s)
      /\ next_xmit_seqnb' = s
      /\ sent' = Append(sent, d)
      /\ net' = [p \in DOMAIN net \cup new |-> IF p \in new THEN 1 ELSE net[p]]
      /\ copies' = [p \in DOMAIN copies \cup new |-> IF p \in new THEN 1 ELSE copies[p]]
      /\ recved' = Append(recved, 0)
      /\ UNCHANGED <<outter_mtu, pending_dgram_db, delivered>>
  BY DEF PktFromUpper
<1>2. s \in 0 .. (SeqMod - 1) /\ outter_mtu \in Mtus
  BY PktfragAssumption DEF IndInv, TypeOK, NextSeqnb
<1>3. d \in Datagrams /\ d.len = len /\ d.mtu = outter_mtu /\ d.seqnb = s
  <2> HIDE DEF s
  <2> QED BY <1>2 DEF Datagrams
<1>4. whole <=> Fits(d)
  BY <1>3 DEF Fits
<1>5. /\ sent \in Seq(Datagrams) /\ Len(sent) \in Nat /\ n \in Nat /\ n \in 1 .. MaxSend
      /\ MaxSend \in Nat
  BY <1>1, PktfragAssumption DEF IndInv, TypeOK
<1> HIDE DEF d, s
<1>6. /\ Len(sent') = n /\ sent'[n] = d /\ sent' \in Seq(Datagrams)
      /\ \A i \in 1 .. Len(sent) : sent'[i] = sent[i]
  BY <1>1, <1>3, <1>5
<1>7. ASSUME NEW p \in new
      PROVE  /\ p.id = n /\ p.seqnb = s /\ p \in PktType
             /\ p.type = "PKT_FRAGMENT" => SeqnbFree(s)
  <2>1. CASE Fits(d)
    <3>1. p = WholePkt(n, d)
      BY <2>1, <1>7 DEF Pkts
    <3>2. len \in Nat \ {0}
      BY PktfragAssumption
    <3> HIDE DEF n
    <3> QED BY <3>1, <3>2, <1>2, <1>3, <1>5 DEF WholePkt, PktType
  <2>2. CASE ~Fits(d)
    <3>1. PICK o \in Offsets(d) : p = Fragment(n, d, o)
      BY <2>2, <1>7 DEF Pkts
    <3> HIDE DEF n
    <3>2. o \in Nat
      BY <1>3, OffsetsFollow
    <3>3. /\ p.type = "PKT_FRAGMENT" /\ p.id = n /\ p.seqnb = d.seqnb /\ p.offset = o
          /\ p.more \in BOOLEAN /\ p.len \in Nat \ {0}
      BY <3>1, <1>3, FragmentEnds
    <3>4. p = [type |-> p.type, id |-> p.id, seqnb |-> p.seqnb, offset |-> p.offset,
               more |-> p.more, len |-> p.len]
      BY <3>1 DEF Fragment
    <3>5. p \in PktType
      BY <3>2, <3>3, <3>4, <1>2, <1>3, <1>5 DEF PktType
    <3>6. SeqnbFree(s)
      BY <2>2, <1>1, <1>4
    <3> QED BY <3>3, <3>5, <3>6, <1>3
  <2> QED BY <2>1, <2>2
<1> HIDE DEF new, n, whole
<1>8. \A p \in DOMAIN net : p.id \in 1 .. Len(sent) /\ p \notin new
  <2>1. \A p \in DOMAIN net : p.id \in 1 .. Len(sent)
    BY DEF IndInv, PktsAgree
  <2>2. n \notin 1 .. Len(sent)
    BY <1>5 DEF n
  <2> QED BY <2>1, <2>2, <1>7
<1>9. /\ DOMAIN net' = DOMAIN net \cup new /\ DOMAIN copies' = DOMAIN net'
      /\ \A p \in DOMAIN net : net'[p] = net[p] /\ copies'[p] = copies[p]
      /\ \A p \in new : net'[p] = 1 /\ copies'[p] = 1
  BY <1>1, <1>8 DEF IndInv, TypeOK
<1>10. /\ DOMAIN recved' = 1 .. n /\ recved'[n] = 0
       /\ \A i \in 1 .. Len(sent) : recved'[i] = recved[i]
  BY <1>1, <1>5 DEF IndInv, TypeOK, n
<1>11. TypeOK'
  <2>1. \A i \in 1 .. n : recved'[i] \in Nat
    BY <1>10, <1>5 DEF IndInv, TypeOK, n
  <2>2. \A p \in DOMAIN net' : net'[p] \in Nat /\ copies'[p] \in Nat /\ p \in PktType
    BY <1>7, <1>9 DEF IndInv, TypeOK
  <2>3. \A t \in DOMAIN pending_dgram_db : \A o \in DOMAIN pending_dgram_db[t].fragment_db :
          pending_dgram_db[t].fragment_db[o] \in DOMAIN net'
    BY <1>9 DEF IndInv, TypeOK
  <2>4. /\ outter_mtu' \in Mtus /\ next_xmit_seqnb' \in 0 .. (SeqMod - 1)
        /\ pending_dgram_db' = pending_dgram_db
    BY <1>1, <1>2
  <2>5. sent' \in Seq(Datagrams) /\ Len(sent') <= MaxSend /\ Len(sent') = n
    BY <1>5, <1>6
  <2>6. DOMAIN net' \subseteq PktType /\ DOMAIN copies' = DOMAIN net'
    BY <2>2, <1>9
  <2> QED BY <2>1, <2>2, <2>3, <2>4, <2>5, <2>6, <1>10 DEF IndInv, TypeOK
<1>12. PktsAgree'
  <2>1. ASSUME NEW p \in DOMAIN net'
        PROVE  p.id \in 1 .. Len(sent') /\ p \in Pkts(p.id, sent'[p.id])
    <3>1. CASE p \in new
      BY <3>1, <1>5, <1>6, <1>7 DEF new
    <3>2. CASE p \in DOMAIN net
      <4>1. p.id \in 1 .. Len(sent) /\ p \in Pkts(p.id, sent[p.id])
        BY <3>2 DEF IndInv, PktsAgree
      <4>2. sent'[p.id] = sent[p.id] /\ p.id \in 1 .. Len(sent')
        BY <4>1, <1>5, <1>6 DEF n
      <4> QED BY <4>1, <4>2
    <3> QED BY <3>1, <3>2, <1>9
  <2>2. ASSUME NEW i \in 1 .. Len(sent')
        PROVE  Pkts(i, sent'[i]) \subseteq DOMAIN net'
    <3>1. i = n \/ i \in 1 .. Len(sent)
      BY <1>5, <1>6 DEF n
    <3>2. CASE i = n
      BY <3>2, <1>6, <1>9 DEF new
    <3>3. CASE i \in 1 .. Len(sent)
      <4>1. Pkts(i, sent[i]) \subseteq DOMAIN net /\ sent'[i] = sent[i]
        BY <3>3, <1>6 DEF IndInv, PktsAgree
      <4> QED BY <4>1, <1>9
    <3> QED BY <3>1, <3>2, <3>3
  <2> QED BY <2>1, <2>2 DEF PktsAgree
<1>13. \A p \in DOMAIN net' : Held(p)' = Held(p)
  BY <1>1 DEF Held
<1>14. \A p \in new : p.type = "PKT_FRAGMENT" => SeqnbFree(s)
  BY <1>7
<1>15. \A p \in new : ~Held(p)
  BY <1>7, <1>14 DEF Held, SeqnbFree
<1>16. OneDgramPerSeqnb'
  <2> SUFFICES ASSUME NEW p \in DOMAIN net', NEW q \in DOMAIN net',
                      p.type = "PKT_FRAGMENT", q.type = "PKT_FRAGMENT", p.seqnb = q.seqnb,
                      net'[p] > 0 \/ Held(p), net'[q] > 0 \/ Held(q)
               PROVE  p.id = q.id
    BY <1>13 DEF OneDgramPerSeqnb
  <2>1. \A x \in DOMAIN net, y \in new :
          x.type = "PKT_FRAGMENT" /\ y.type = "PKT_FRAGMENT" /\ x.seqnb = y.seqnb
          => net[x] = 0 /\ ~Held(x)
    BY <1>7, <1>14 DEF SeqnbFree, Held
  <2>2. CASE p \in DOMAIN net /\ q \in DOMAIN net
    BY <2>2, <1>9 DEF IndInv, OneDgramPerSeqnb
  <2>3. CASE p \in new /\ q \in new
    BY <2>3, <1>7
  <2>4. CASE p \in DOMAIN net /\ q \in new
    BY <2>1, <2>4, <1>9
  <2>5. CASE p \in new /\ q \in DOMAIN net
    BY <2>1, <2>5, <1>9
  <2> QED BY <2>2, <2>3, <2>4, <2>5, <1>9
<1>17. \A t \in DOMAIN pending_dgram_db : \A o \in DOMAIN pending_dgram_db[t].fragment_db :
         LET i == pending_dgram_db[t].fragment_db[o].id
         IN  i \in 1 .. Len(sent) /\ sent'[i] = sent[i]
  BY <1>6, <1>8 DEF IndInv, TypeOK
<1>18. PendingAgrees'
  BY <1>1, <1>17 DEF IndInv, PendingAgrees
<1>19. PendingIsPartial'
  BY <1>1, <1>17 DEF IndInv, PendingIsPartial
<1>20. DeliveredIntact'
  <2>1. ASSUME NEW db \in delivered PROVE \E i \in 1 .. Len(sent') : Rebuilds(db, i)'
    <3>1. PICK i \in 1 .. Len(sent) : Rebuilds(db, i)
      BY DEF IndInv, DeliveredIntact
    <3>2. i \in 1 .. Len(sent') /\ sent'[i] = sent[i]
      BY <1>5, <1>6 DEF n
    <3> QED BY <3>1, <3>2 DEF Rebuilds
  <2> QED BY <2>1, <1>1 DEF DeliveredIntact
<1>21. CopiesConserved'
  <2> SUFFICES ASSUME NEW p \in DOMAIN net'
               PROVE  net'[p] + (IF Held(p) THEN 1 ELSE 0) + recved'[p.id] <= copies'[p]
    BY <1>13 DEF CopiesConserved
  <2>1. CASE p \in new
    BY <2>1, <1>7, <1>9, <1>10, <1>15
  <2>2. CASE p \in DOMAIN net
    <3>1. net'[p] = net[p] /\ copies'[p] = copies[p] /\ recved'[p.id] = recved[p.id]
      BY <2>2, <1>8, <1>9, <1>10
    <3>2. net[p] + (IF Held(p) THEN 1 ELSE 0) + recved[p.id] <= copies[p]
      BY <2>2 DEF IndInv, CopiesConserved
    <3> QED BY <3>1, <3>2
  <2> QED BY <2>1, <2>2, <1>9
<1> QED
  BY <1>11, <1>12, <1>16, <1>18, <1>19, <1>20, <1>21 DEF IndInv

\* One of the fragments of a datagram is the last: the one with least behind it.
LEMMA LastFragment ==
    ASSUME NEW i, NEW d \in Datagrams, NEW o1 \in Offsets(d)
    PROVE  \E o \in Offsets(d) : ~Fragment(i, d, o).more
<1> DEFINE Left == {x \in Nat : d.len - x \in Offsets(d)}
<1>1. \A o \in Offsets(d) : o \in Nat /\ o < d.len /\ d.len \in Nat
  BY OffsetsFollow
<1>2. d.len - o1 \in Left
  <2>1. d.len - o1 \in Nat /\ d.len - (d.len - o1) = o1
    BY <1>1
  <2> QED BY <2>1
<1>3. PICK x \in Left : \A y \in Left : x <= y
  <2>1. Left \in SUBSET Nat /\ Left # {}
    BY <1>2
  <2> HIDE DEF Left
  <2> QED BY <2>1, LeastNat
<1> DEFINE o == d.len - x
           f == Fragment(i, d, o)
<1>4. o \in Offsets(d) /\ x \in Nat
  BY <1>3
<1>5. f.len \in Nat \ {0} /\ (f.more => o + f.len \in Offsets(d))
  <2> HIDE DEF o
  <2> QED BY <1>4, FragmentEnds
<1>6. SUFFICES ASSUME f.more PROVE FALSE
  BY <1>4
<1> HIDE DEF f
<1>7. x - f.len \in Left
  <2>1. o + f.len \in Offsets(d) /\ o + f.len < d.len
    BY <1>1, <1>5, <1>6
  <2>2. x - f.len \in Nat /\ d.len - (x - f.len) = o + f.len
    BY <2>1, <1>1, <1>4, <1>5
  <2> QED BY <2>1, <2>2
<1> QED
  BY <1>3, <1>4, <1>5, <1>7

\* pd is old and p, fragments of one datagram, and has its length if the last
\* fragment is among them.
Added(p, old, pd) ==
    /\ p.id \in 1 .. Len(sent) /\ sent[p.id] \in Datagrams
    /\ ~Fits(sent[p.id]) /\ p.seqnb = sent[p.id].seqnb
    /\ FragmentsOf(pd.fragment_db, p.id, sent[p.id])
    /\ DOMAIN pd.fragment_db = DOMAIN old.fragment_db \cup {p.offset}
    /\ pd.fragment_db[p.offset] = p
    /\ \A o \in DOMAIN old.fragment_db : pd.fragment_db[o] = old.fragment_db[o]
    /\ \A o \in DOMAIN pd.fragment_db : pd.fragment_db[o] \in DOMAIN net
    /\ pd.full_dgram_len \in {0, sent[p.id].len}
    /\ pd.full_dgram_len # 0 => \E o \in DOMAIN pd.fragment_db : ~pd.fragment_db[o].more
    /\ \A o \in DOMAIN pd.fragment_db :
          ~pd.fragment_db[o].more => pd.full_dgram_len = sent[p.id].len

\* What add_fragment makes of a fragment that arrives for the first time.
LEMMA AddedFragment ==
    ASSUME IndInv, NEW p \in DOMAIN net, p.type = "PKT_FRAGMENT", net[p] > 0,
           NEW old, old = PendingDgram(p.seqnb), p.offset \notin DOMAIN old.fragment_db,
           NEW pd, pd = AddFragment(old, p)
    PROVE  Added(p, old, pd)
<1> DEFINE s == p.seqnb
           d == sent[p.id]
<1>0. TypeOK /\ PktsAgree
  BY DEF IndInv
<1>1. /\ p.id \in 1 .. Len(sent) /\ d \in Datagrams /\ ~Fits(d) /\ p.seqnb = d.seqnb
      /\ p.offset \in Offsets(d) /\ p = Fragment(p.id, d, p.offset)
  BY <1>0, NetFragment
<1>2. d.len \in Nat \ {0} /\ p.more \in BOOLEAN /\ (~p.more => p.offset + p.len = d.len)
  <2>1. d.len \in Nat \ {0}
    BY <1>1, OffsetsFollow
  <2>2. p.more \in BOOLEAN /\ (~p.more => p.offset + p.len = d.len)
    BY <1>1, FragmentFields
  <2> QED BY <2>1, <2>2
<1>3. /\ DOMAIN pd.fragment_db = DOMAIN old.fragment_db \cup {p.offset}
      /\ pd.fragment_db[p.offset] = p
      /\ \A o \in DOMAIN old.fragment_db : pd.fragment_db[o] = old.fragment_db[o]
      /\ pd.full_dgram_len = IF p.more THEN old.full_dgram_len ELSE p.offset + p.len
  BY DEF AddFragment
<1>4. /\ FragmentsOf(old.fragment_db, p.id, d)
      /\ \A o \in DOMAIN old.fragment_db : old.fragment_db[o] \in DOMAIN net
      /\ old.full_dgram_len \in {0, d.len}
      /\ old.full_dgram_len # 0 => \E o \in DOMAIN old.fragment_db : ~old.fragment_db[o].more
      /\ \A o \in DOMAIN old.fragment_db :
            ~old.fragment_db[o].more => old.full_dgram_len = d.len
  <2>1. CASE s \notin DOMAIN pending_dgram_db
    <3>1. old.full_dgram_len = 0 /\ DOMAIN old.fragment_db = {}
      BY <2>1 DEF PendingDgram, NewPendingDgram
    <3> QED BY <3>1 DEF FragmentsOf
  <2>2. CASE s \in DOMAIN pending_dgram_db
    <3>1. old = pending_dgram_db[s]
      BY <2>2 DEF PendingDgram
    <3>2. PICK i \in 1 .. Len(sent) :
            /\ FragmentsOf(old.fragment_db, i, sent[i])
            /\ \A o \in DOMAIN old.fragment_db : old.fragment_db[o].id = i
      BY <2>2, <3>1, PendingOfOne
    <3>3. /\ \A o \in DOMAIN old.fragment_db :
               /\ old.fragment_db[o] \in DOMAIN net
               /\ old.fragment_db[o].type = "PKT_FRAGMENT"
               /\ old.fragment_db[o].seqnb = s /\ old.fragment_db[o].offset = o
               /\ Held(old.fragment_db[o])
      <4>1. \A o \in DOMAIN old.fragment_db :
              /\ old.fragment_db[o] \in DOMAIN net
              /\ old.fragment_db[o].type = "PKT_FRAGMENT"
              /\ old.fragment_db[o].seqnb = s /\ old.fragment_db[o].offset = o
        <5>1. TypeOK /\ PendingAgrees
          BY DEF IndInv
        <5>2. \A o \in DOMAIN old.fragment_db : old.fragment_db[o] \in DOMAIN net
          BY <5>1, <2>2, <3>1, ZenonT(20) DEF TypeOK
        <5>3. \A o \in DOMAIN old.fragment_db :
                /\ old.fragment_db[o].type = "PKT_FRAGMENT"
                /\ old.fragment_db[o].seqnb = s /\ old.fragment_db[o].offset = o
          <6>1. \A o \in DOMAIN pending_dgram_db[s].fragment_db :
                  /\ pending_dgram_db[s].fragment_db[o].type = "PKT_FRAGMENT"
                  /\ pending_dgram_db[s].fragment_db[o].seqnb = s
                  /\ pending_dgram_db[s].fragment_db[o].offset = o
            BY <5>1, <2>2 DEF PendingAgrees
          <6> QED BY <6>1, <3>1, ZenonT(20)
        <5> QED BY <5>2, <5>3, ZenonT(20)
      <4> QED BY <4>1, <2>2, <3>1 DEF Held
    <3>4. PICK o1 \in DOMAIN old.fragment_db : TRUE
      BY <2>2, <3>1 DEF IndInv, PendingAgrees
    <3>5. old.fragment_db[o1].id = p.id
      BY <3>3, <3>4 DEF IndInv, OneDgramPerSeqnb
    <3>6. i = p.id
      BY <3>2, <3>4, <3>5
    <3>7. /\ \A o \in DOMAIN old.fragment_db :
               /\ old.full_dgram_len \in {0, sent[old.fragment_db[o].id].len}
               /\ ~old.fragment_db[o].more => old.full_dgram_len # 0
          /\ old.full_dgram_len # 0 => \E o \in DOMAIN old.fragment_db : ~old.fragment_db[o].more
      <4>1. PendingAgrees
        BY DEF IndInv
      <4>2. /\ \A o \in DOMAIN pending_dgram_db[s].fragment_db :
                 LET q == pending_dgram_db[s].fragment_db[o]
                 IN  /\ pending_dgram_db[s].full_dgram_len \in {0, sent[q.id].len}
                     /\ ~q.more => pending_dgram_db[s].full_dgram_len # 0
            /\ pending_dgram_db[s].full_dgram_len # 0 =>
                 \E o \in DOMAIN pending_dgram_db[s].fragment_db :
                     ~pending_dgram_db[s].fragment_db[o].more
        BY <4>1, <2>2 DEF PendingAgrees
      <4> QED BY <4>2, <3>1, ZenonT(20)
    <3>8. old.full_dgram_len \in {0, d.len}
      BY <3>4, <3>5, <3>7, ZenonT(20)
    <3> QED BY <3>2, <3>3, <3>6, <3>7, <3>8
  <2> QED BY <2>1, <2>2
<1>5. FragmentsOf(pd.fragment_db, p.id, d)
  BY <1>1, <1>3, <1>4 DEF FragmentsOf
<1>6. \A o \in DOMAIN pd.fragment_db : pd.fragment_db[o] \in DOMAIN net
  BY <1>3, <1>4, ZenonT(20)
<1>7. CASE p.more
  <2>1. pd.full_dgram_len = old.full_dgram_len
    BY <1>3, <1>7
  <2>2. pd.full_dgram_len # 0 => \E o \in DOMAIN pd.fragment_db : ~pd.fragment_db[o].more
    BY <2>1, <1>3, <1>4
  <2>3. ASSUME NEW o \in DOMAIN pd.fragment_db, ~pd.fragment_db[o].more
        PROVE  pd.full_dgram_len = d.len
    BY <2>1, <2>3, <1>3, <1>4, <1>7, ZenonT(20)
  <2> QED BY <2>1, <2>2, <2>3, <1>1, <1>3, <1>4, <1>5, <1>6 DEF Added
<1>8. CASE ~p.more
  <2>1. pd.full_dgram_len = d.len
    BY <1>2, <1>3, <1>8
  <2>2. \E o \in DOMAIN pd.fragment_db : ~pd.fragment_db[o].more
    BY <1>3, <1>8
  <2> QED BY <2>1, <2>2, <1>1, <1>3, <1>5, <1>6 DEF Added
<1> QED BY <1>7, <1>8

\* The fragment that completes a datagram: all of its fragments are there, and
\* their concatenation is what is delivered.
LEMMA CompleteDelivers ==
    ASSUME IndInv, NEW p, NEW old, NEW pd, Added(p, old, pd),
           IsComplete(pd), PktToUpper(pd.fragment_db)
    PROVE  /\ Offsets(sent[p.id]) \subseteq DOMAIN pd.fragment_db
           /\ Rebuilds(pd.fragment_db, p.id)
           /\ delivered' = delivered \cup {pd.fragment_db}
           /\ recved' = [recved EXCEPT ![p.id] = @ + 1]
<1> DEFINE i  == p.id
           d  == sent[i]
           db == pd.fragment_db
<1>1. /\ i \in 1 .. Len(sent) /\ d \in Datagrams
      /\ FragmentsOf(db, i, d) /\ p.offset \in DOMAIN db
      /\ pd.full_dgram_len \in {0, d.len}
  BY DEF Added
<1>2. Offsets(d) \subseteq DOMAIN db
  <2>1. pd.full_dgram_len = d.len
    BY <1>1 DEF IsComplete
  <2> QED BY <2>1, <1>1, CompleteIsAll
<1>3. \A o \in DOMAIN db : db[o].id = i
  <2> SUFFICES ASSUME NEW o \in DOMAIN db PROVE db[o].id = i
    OBVIOUS
  <2>1. o \in Offsets(d) /\ db[o] = Fragment(i, d, o)
    BY <1>1 DEF FragmentsOf
  <2> QED BY <2>1, <1>1, FragmentFields
<1>4. recved' = [recved EXCEPT ![i] = @ + 1]
  <2>1. \A j \in 1 .. Len(sent) : (\E o \in DOMAIN db : db[o].id = j) <=> i = j
    BY <1>1, <1>3
  <2>2. DOMAIN recved = 1 .. Len(sent)
    BY DEF IndInv, TypeOK
  <2>3. recved' = [j \in DOMAIN recved |-> IF \E o \in DOMAIN db : db[o].id = j
                                             THEN recved[j] + 1 ELSE recved[j]]
    BY DEF PktToUpper
  <2> HIDE DEF db, i
  <2> QED BY <2>1, <2>2, <2>3, <1>1
<1>5. Rebuilds(db, i)
  BY <1>1, <1>2, AllRebuilds
<1> QED
  BY <1>2, <1>4, <1>5 DEF PktToUpper

LEMMA ArriveCounts ==
    ASSUME IndInv, NEW p \in DOMAIN net, Arrive(p)
    PROVE  /\ DOMAIN net' = DOMAIN net
           /\ \A q \in DOMAIN net :
                 /\ net[q] \in Nat /\ net'[q] \in Nat /\ copies[q] \in Nat
                 /\ net'[q] = IF q = p THEN net[q] - 1 ELSE net[q]
<1>1. \A q \in DOMAIN net : net[q] \in Nat /\ copies[q] \in Nat
  BY DEF IndInv, TypeOK
<1>2. net[p] > 0 /\ net' = [net EXCEPT ![p] = @ - 1]
  BY DEF Arrive
<1> QED
  BY <1>1, <1>2

\* Each of the copies of these fragments is used up by the delivery.
LEMMA RecvCompleteInv ==
    ASSUME IndInv, NEW p \in DOMAIN net, p.type = "PKT_FRAGMENT",
           NEW old, old = PendingDgram(p.seqnb), p.offset \notin DOMAIN old.fragment_db,
           NEW pd, pd = AddFragment(old, p), IsComplete(pd),
           Arrive(p), PktToUpper(pd.fragment_db), DeletePending(p.seqnb)
    PROVE  IndInv'
<1>a. net[p] > 0
  BY DEF Arrive
<1>b. Added(p, old, pd)
  BY <1>a, AddedFragment
<1>0. /\ DOMAIN net' = DOMAIN net
      /\ \A q \in DOMAIN net :
            /\ net[q] \in Nat /\ net'[q] \in Nat /\ copies[q] \in Nat
            /\ net'[q] = IF q = p THEN net[q] - 1 ELSE net[q]
  BY ArriveCounts
<1> USE DEF Arrive
<1> DEFINE i  == p.id
           d  == sent[i]
           s  == p.seqnb
           db == pd.fragment_db
<1>c. /\ Offsets(d) \subseteq DOMAIN db /\ Rebuilds(db, i)
      /\ delivered' = delivered \cup {db}
      /\ recved' = [recved EXCEPT ![i] = @ + 1]
  BY <1>b, CompleteDelivers, ZenonT(20)
<1>1. /\ i \in 1 .. Len(sent) /\ d \in Datagrams /\ ~Fits(d) /\ s = d.seqnb
      /\ FragmentsOf(db, i, d)
      /\ DOMAIN db = DOMAIN old.fragment_db \cup {p.offset}
      /\ \A o \in DOMAIN old.fragment_db : db[o] = old.fragment_db[o]
  BY <1>b DEF Added
<1>2. Offsets(d) \subseteq DOMAIN db
  BY <1>c
<1>4. /\ DOMAIN recved' = DOMAIN recved
      /\ \A j \in 1 .. Len(sent) :
            /\ recved[j] \in Nat
            /\ recved'[j] = IF i = j THEN recved[j] + 1 ELSE recved[j]
  <2>1. DOMAIN recved = 1 .. Len(sent) /\ \A j \in 1 .. Len(sent) : recved[j] \in Nat
    BY DEF IndInv, TypeOK
  <2> HIDE DEF db, i
  <2> QED BY <2>1, <1>c
<1>5. /\ DOMAIN pending_dgram_db' = DOMAIN pending_dgram_db \ {s}
      /\ \A t \in DOMAIN pending_dgram_db \ {s} : pending_dgram_db'[t] = pending_dgram_db[t]
  BY DEF DeletePending, Restrict
<1>6. TypeOK'
  <2>1. \A t \in DOMAIN pending_dgram_db' :
          /\ t \in 0 .. (SeqMod - 1)
          /\ DOMAIN pending_dgram_db'[t].fragment_db \subseteq Nat
          /\ pending_dgram_db'[t].full_dgram_len \in Nat
          /\ \A o \in DOMAIN pending_dgram_db'[t].fragment_db :
                pending_dgram_db'[t].fragment_db[o] \in DOMAIN net
    BY <1>5 DEF IndInv, TypeOK
  <2>2. DOMAIN recved' = 1 .. Len(sent') /\ \A j \in 1 .. Len(sent') : recved'[j] \in Nat
    BY <1>4 DEF IndInv, TypeOK
  <2> QED BY <2>1, <2>2, <1>0 DEF IndInv, TypeOK
<1>7. PktsAgree'
  BY <1>0 DEF IndInv, PktsAgree
<1>8. \A q \in DOMAIN net : Held(q)' => Held(q) /\ q.seqnb # s
  BY <1>5 DEF Held
<1>9. OneDgramPerSeqnb'
  <2>1. \A q \in DOMAIN net : net'[q] > 0 => net[q] > 0
    BY <1>0
  <2> QED BY <2>1, <1>0, <1>8 DEF IndInv, OneDgramPerSeqnb
<1>10. PendingAgrees'
  BY <1>5 DEF IndInv, PendingAgrees
<1>11. PendingIsPartial'
  BY <1>5 DEF IndInv, PendingIsPartial
<1>12. DeliveredIntact'
  <2>2. Rebuilds(db, i)
    BY <1>c
  <2>3. \A e \in delivered' : e \in delivered \/ e = db
    BY <1>c
  <2>4. \A e \in delivered : \E j \in 1 .. Len(sent) : Rebuilds(e, j)
    BY DEF IndInv, DeliveredIntact
  <2>5. \A e, j : Rebuilds(e, j)' = Rebuilds(e, j)
    BY DEF Rebuilds
  <2>6. Len(sent') = Len(sent)
    OBVIOUS
  <2> HIDE DEF db, i
  <2> QED BY <2>2, <2>3, <2>4, <2>5, <2>6, <1>1 DEF DeliveredIntact
<1>13. CopiesConserved'
  <2> SUFFICES ASSUME NEW q \in DOMAIN net
               PROVE  net'[q] + (IF Held(q)' THEN 1 ELSE 0) + recved'[q.id] <= copies[q]
    BY <1>0 DEF CopiesConserved
  <2>1. q.id \in 1 .. Len(sent) /\ q \in Pkts(q.id, sent[q.id])
    BY DEF IndInv, PktsAgree
  <2>2. net[q] + (IF Held(q) THEN 1 ELSE 0) + recved[q.id] <= copies[q]
    BY DEF IndInv, CopiesConserved
  <2>3. CASE q.id # i
    <3>1. recved'[q.id] = recved[q.id] /\ recved[q.id] \in Nat
      BY <2>1, <2>3, <1>4
    <3>2. net'[q] = net[q]
      BY <2>3, <1>0
    <3> QED BY <2>2, <3>1, <3>2, <1>0, <1>8
  <2>4. CASE q.id = i
    <3>1. PICK o \in Offsets(d) : q = Fragment(i, d, o)
      BY <2>1, <2>4, <1>1 DEF Pkts
    <3>2. q.type = "PKT_FRAGMENT" /\ q.seqnb = s /\ q.offset = o
      BY <3>1, <1>1, FragmentFields
    <3>3. ~Held(q)'
      BY <3>2, <1>8
    <3>4. recved'[q.id] = recved[q.id] + 1 /\ recved[q.id] \in Nat
      BY <2>1, <2>4, <1>4
    <3>5. CASE q = p
      BY <2>2, <3>3, <3>4, <3>5, <1>0
    <3>6. CASE q # p
      <4>1. o # p.offset
        BY <3>1, <3>6, <1>0, NetFragment DEF IndInv
      <4>2. o \in DOMAIN old.fragment_db /\ old.fragment_db[o] = q
        BY <4>1, <3>1, <1>1, <1>2 DEF FragmentsOf
      <4>3. s \in DOMAIN pending_dgram_db /\ old = pending_dgram_db[s]
        BY <4>2 DEF PendingDgram, NewPendingDgram
      <4>4. Held(q)
        BY <4>2, <4>3, <3>2 DEF Held
      <4> QED BY <4>4, <2>2, <3>3, <3>4, <3>6, <1>0
    <3> QED BY <3>5, <3>6
  <2> QED BY <2>3, <2>4
<1> QED
  BY <1>6, <1>7, <1>9, <1>10, <1>11, <1>12, <1>13 DEF IndInv

\* A fragment that is stored.
LEMMA RecvIncompleteInv ==
    ASSUME IndInv, NEW p \in DOMAIN net, p.type = "PKT_FRAGMENT",
           NEW old, old = PendingDgram(p.seqnb), p.offset \notin DOMAIN old.fragment_db,
           NEW pd, pd = AddFragment(old, p), ~IsComplete(pd),
           Arrive(p), StorePending(p.seqnb, pd), UNCHANGED <<delivered, recved>>
    PROVE  IndInv'
<1>a. net[p] > 0
  BY DEF Arrive
<1>b. Added(p, old, pd)
  BY <1>a, AddedFragment
<1>0. /\ DOMAIN net' = DOMAIN net
      /\ \A q \in DOMAIN net :
            /\ net[q] \in Nat /\ net'[q] \in Nat /\ copies[q] \in Nat
            /\ net'[q] = IF q = p THEN net[q] - 1 ELSE net[q]
  BY ArriveCounts
<1> USE DEF Arrive
<1> DEFINE i  == p.id
           d  == sent[i]
           s  == p.seqnb
           db == pd.fragment_db
<1>1. /\ i \in 1 .. Len(sent) /\ d \in Datagrams /\ ~Fits(d) /\ s = d.seqnb
      /\ FragmentsOf(db, i, d)
      /\ DOMAIN db = DOMAIN old.fragment_db \cup {p.offset}
      /\ db[p.offset] = p
      /\ \A o \in DOMAIN old.fragment_db : db[o] = old.fragment_db[o]
      /\ \A o \in DOMAIN db : db[o] \in DOMAIN net
      /\ pd.full_dgram_len \in {0, d.len}
      /\ pd.full_dgram_len # 0 => \E o \in DOMAIN db : ~db[o].more
      /\ \A o \in DOMAIN db : ~db[o].more => pd.full_dgram_len = d.len
  BY <1>b, ZenonT(20) DEF Added
<1>2. \A o \in DOMAIN db : /\ o \in Offsets(d) /\ o \in Nat /\ db[o] = Fragment(i, d, o)
                             /\ db[o].id = i /\ db[o].offset = o /\ db[o].seqnb = s
                             /\ db[o].type = "PKT_FRAGMENT"
  <2> SUFFICES ASSUME NEW o \in DOMAIN db
               PROVE  /\ o \in Offsets(d) /\ o \in Nat /\ db[o] = Fragment(i, d, o)
                      /\ db[o].id = i /\ db[o].offset = o /\ db[o].seqnb = s
                      /\ db[o].type = "PKT_FRAGMENT"
    BY ZenonT(20)
  <2>1. o \in Offsets(d) /\ db[o] = Fragment(i, d, o)
    BY <1>1, ZenonT(20) DEF FragmentsOf
  <2>2. o \in Nat
    BY <2>1, <1>1, OffsetsFollow, ZenonT(20)
  <2>3. /\ Fragment(i, d, o).type = "PKT_FRAGMENT" /\ Fragment(i, d, o).id = i
        /\ Fragment(i, d, o).seqnb = d.seqnb /\ Fragment(i, d, o).offset = o
    <3>1. d \in Datagrams /\ o \in Offsets(d)
      BY <1>1, <2>1, ZenonT(20)
    <3> HIDE DEF i, d
    <3> QED BY <3>1, FragmentFields
  <2>4. s = d.seqnb
    BY <1>1, ZenonT(20)
  <2> QED BY <2>1, <2>2, <2>3, <2>4, ZenonT(20)
<1>3. d.len \in Nat \ {0}
  BY <1>1, <1>2, OffsetsFollow
<1>4. /\ DOMAIN pending_dgram_db' = DOMAIN pending_dgram_db \cup {s}
      /\ pending_dgram_db'[s] = pd
      /\ \A t \in DOMAIN pending_dgram_db \ {s} : pending_dgram_db'[t] = pending_dgram_db[t]
  BY DEF StorePending
<1>5. TypeOK'
  <2>0. DOMAIN db \subseteq Nat
    BY <1>2, ZenonT(20)
  <2>a. pd.full_dgram_len = 0 \/ pd.full_dgram_len = d.len
    BY <1>1
  <2>b. pd.full_dgram_len \in Nat
    BY <2>a, <1>3
  <2>1. DOMAIN db \subseteq Nat /\ pd.full_dgram_len \in Nat
    BY <2>0, <2>b, ZenonT(20)
  <2>2. s \in 0 .. (SeqMod - 1)
    BY <1>1 DEF Datagrams
  <2>3. DOMAIN pending_dgram_db' \subseteq 0 .. (SeqMod - 1)
    BY <2>2, <1>4, ZenonT(20) DEF IndInv, TypeOK
  <2>4. ASSUME NEW t \in DOMAIN pending_dgram_db'
        PROVE  /\ DOMAIN pending_dgram_db'[t].fragment_db \subseteq Nat
               /\ pending_dgram_db'[t].full_dgram_len \in Nat
               /\ \A o \in DOMAIN pending_dgram_db'[t].fragment_db :
                     pending_dgram_db'[t].fragment_db[o] \in DOMAIN net
    <3>1. CASE t = s
      BY <3>1, <2>1, <1>1, <1>4
    <3>2. CASE t # s
      BY <3>2, <1>4 DEF IndInv, TypeOK
    <3> QED BY <3>1, <3>2, ZenonT(20)
  <2> QED BY <2>3, <2>4, <1>0 DEF IndInv, TypeOK
<1>6. PktsAgree'
  BY <1>0 DEF IndInv, PktsAgree
<1>7. \A q \in DOMAIN net : Held(q)' => Held(q) \/ q = p
  <2> SUFFICES ASSUME NEW q \in DOMAIN net, Held(q)', q # p PROVE Held(q)
    OBVIOUS
  <2>1. /\ q.type = "PKT_FRAGMENT" /\ q.seqnb \in DOMAIN pending_dgram_db'
        /\ q.offset \in DOMAIN pending_dgram_db'[q.seqnb].fragment_db
        /\ pending_dgram_db'[q.seqnb].fragment_db[q.offset] = q
    BY DEF Held
  <2>2. CASE q.seqnb # s
    BY <2>1, <2>2, <1>4 DEF Held
  <2>3. CASE q.seqnb = s
    <3>1. q.offset \in DOMAIN db /\ db[q.offset] = q
      BY <2>1, <2>3, <1>4, ZenonT(20)
    <3>2. q.offset # p.offset
      BY <3>1, <1>1, ZenonT(20)
    <3>3. q.offset \in DOMAIN old.fragment_db /\ old.fragment_db[q.offset] = q
      BY <3>1, <3>2, <1>1
    <3>4. s \in DOMAIN pending_dgram_db /\ old = pending_dgram_db[s]
      BY <3>3 DEF PendingDgram, NewPendingDgram
    <3> QED BY <2>1, <2>3, <3>3, <3>4 DEF Held
  <2> QED BY <2>2, <2>3
<1>8. OneDgramPerSeqnb'
  <2>1. \A q \in DOMAIN net : net'[q] > 0 \/ Held(q)' => net[q] > 0 \/ Held(q)
    BY <1>0, <1>7
  <2> QED BY <2>1, <1>0 DEF IndInv, OneDgramPerSeqnb
<1>9. PendingAgrees'
  <2> SUFFICES ASSUME NEW t \in DOMAIN pending_dgram_db', NEW e, e = pending_dgram_db'[t]
               PROVE  /\ DOMAIN e.fragment_db # {}
                      /\ \A o \in DOMAIN e.fragment_db :
                            /\ e.fragment_db[o].type = "PKT_FRAGMENT"
                            /\ e.fragment_db[o].seqnb = t /\ e.fragment_db[o].offset = o
                            /\ e.full_dgram_len \in {0, sent[e.fragment_db[o].id].len}
                            /\ ~e.fragment_db[o].more => e.full_dgram_len # 0
                      /\ e.full_dgram_len # 0 =>
                            \E o \in DOMAIN e.fragment_db : ~e.fragment_db[o].more
    BY DEF PendingAgrees
  <2>1. CASE t # s
    <3>1. t \in DOMAIN pending_dgram_db /\ e = pending_dgram_db[t]
      BY <2>1, <1>4
    <3> QED BY <3>1 DEF IndInv, PendingAgrees
  <2>2. CASE t = s
    <3>1. e = pd
      BY <2>2, <1>4
    <3>2. DOMAIN db # {} /\ (pd.full_dgram_len # 0 => \E o \in DOMAIN db : ~db[o].more)
      BY <1>1, ZenonT(20)
    <3>3. ASSUME NEW o \in DOMAIN db
          PROVE  /\ db[o].type = "PKT_FRAGMENT" /\ db[o].seqnb = s /\ db[o].offset = o
                 /\ pd.full_dgram_len \in {0, sent[db[o].id].len}
      BY <1>1, <1>2, ZenonT(20)
    <3>4. ASSUME NEW o \in DOMAIN db, ~db[o].more PROVE pd.full_dgram_len # 0
      BY <3>4, <1>1, <1>3
    <3>5. ASSUME NEW o \in DOMAIN db
          PROVE  /\ db[o].type = "PKT_FRAGMENT" /\ db[o].seqnb = t /\ db[o].offset = o
                 /\ pd.full_dgram_len \in {0, sent[db[o].id].len}
                 /\ ~db[o].more => pd.full_dgram_len # 0
      BY <2>2, <3>3, <3>4, ZenonT(20)
    <3>6. e.fragment_db = db /\ e.full_dgram_len = pd.full_dgram_len
      BY <3>1
    <3>7. \A o \in DOMAIN db :
             /\ db[o].type = "PKT_FRAGMENT" /\ db[o].seqnb = t /\ db[o].offset = o
             /\ pd.full_dgram_len \in {0, sent[db[o].id].len}
             /\ ~db[o].more => pd.full_dgram_len # 0
      BY <3>5, ZenonT(20)
    <3> HIDE DEF db
    <3> QED BY <3>2, <3>6, <3>7
  <2> QED BY <2>1, <2>2
<1>10. PendingIsPartial'
  <2>1. ~(Offsets(d) \subseteq DOMAIN db)
    <3> SUFFICES ASSUME Offsets(d) \subseteq DOMAIN db PROVE FALSE
      OBVIOUS
    <3>1. p.offset \in Offsets(d)
      BY <1>1, <1>2
    <3>2. PICK o \in Offsets(d) : ~Fragment(i, d, o).more
      BY <3>1, <1>1, LastFragment
    <3>3. o \in DOMAIN db /\ ~db[o].more
      BY <3>2, <1>2
    <3>4. pd.full_dgram_len = d.len
      BY <3>3, <1>1
    <3> QED BY <3>1, <3>4, <1>1, AllIsComplete
  <2>2. ASSUME NEW t \in DOMAIN pending_dgram_db', NEW e, e = pending_dgram_db'[t]
        PROVE  /\ ~IsComplete(e)
               /\ \E o \in DOMAIN e.fragment_db :
                     ~(Offsets(sent[e.fragment_db[o].id]) \subseteq DOMAIN e.fragment_db)
    <3>1. CASE t # s
      <4>1. t \in DOMAIN pending_dgram_db /\ e = pending_dgram_db[t]
        BY <2>2, <3>1, <1>4, ZenonT(20)
      <4> QED BY <4>1 DEF IndInv, PendingIsPartial
    <3>2. CASE t = s
      <4>1. e = pd
        BY <2>2, <3>2, <1>4
      <4> QED BY <4>1, <2>1, <1>1, <1>2, ZenonT(20)
    <3> QED BY <3>1, <3>2
  <2> QED BY <2>2, ZenonT(20) DEF PendingIsPartial
<1>11. DeliveredIntact'
  BY DEF IndInv, DeliveredIntact, Rebuilds
<1>12. CopiesConserved'
  <2> SUFFICES ASSUME NEW q \in DOMAIN net
               PROVE  net'[q] + (IF Held(q)' THEN 1 ELSE 0) + recved[q.id] <= copies[q]
    BY <1>0 DEF CopiesConserved
  <2>1. recved[q.id] \in Nat
    BY DEF IndInv, TypeOK, PktsAgree
  <2>2. net[q] + (IF Held(q) THEN 1 ELSE 0) + recved[q.id] <= copies[q]
    BY DEF IndInv, CopiesConserved
  <2>3. CASE q = p
    BY <2>1, <2>2, <2>3, <1>0
  <2>4. CASE q # p
    BY <2>1, <2>2, <2>4, <1>0, <1>7
  <2> QED BY <2>3, <2>4
<1> QED
  BY <1>5, <1>6, <1>8, <1>9, <1>10, <1>11, <1>12 DEF IndInv

LEMMA RecvFragmentInv ==
    ASSUME IndInv, NEW p \in DOMAIN net, RecvFragment(p)
    PROVE  IndInv'
<1> DEFINE old == PendingDgram(p.seqnb)
           pd  == AddFragment(old, p)
<1>1. /\ p.type = "PKT_FRAGMENT" /\ p.offset \notin DOMAIN old.fragment_db /\ Arrive(p)
      /\ \/ IsComplete(pd) /\ PktToUpper(pd.fragment_db) /\ DeletePending(p.seqnb)
         \/ ~IsComplete(pd) /\ StorePending(p.seqnb, pd) /\ UNCHANGED <<delivered, recved>>
  BY DEF RecvFragment
<1>2. CASE IsComplete(pd) /\ PktToUpper(pd.fragment_db) /\ DeletePending(p.seqnb)
  BY <1>1, <1>2, RecvCompleteInv
<1>3. CASE ~IsComplete(pd) /\ StorePending(p.seqnb, pd) /\ UNCHANGED <<delivered, recved>>
  BY <1>1, <1>3, RecvIncompleteInv
<1> QED BY <1>1, <1>2, <1>3

LEMMA StutterInv ==
    ASSUME IndInv, UNCHANGED vars
    PROVE  IndInv'
<1> USE DEF vars
<1>1. TypeOK'
  BY DEF IndInv, TypeOK
<1>2. PktsAgree' /\ OneDgramPerSeqnb' /\ PendingAgrees'
  BY DEF IndInv, PktsAgree, OneDgramPerSeqnb, PendingAgrees, Held
<1>3. PendingIsPartial' /\ CopiesConserved' /\ DeliveredIntact'
  BY DEF IndInv, PendingIsPartial, CopiesConserved, DeliveredIntact, Rebuilds, Held
<1> QED
  BY <1>1, <1>2, <1>3 DEF IndInv

LEMMA NextIndInv == IndInv /\ [Next]_vars => IndInv'
<1> SUFFICES ASSUME IndInv, [Next]_vars PROVE IndInv'
  OBVIOUS
<1>1. CASE \E len \in Lens : PktFromUpper(len)
  BY <1>1, PktFromUpperInv
<1>2. CASE \E mtu \in Mtus : SetOutterMtu(mtu)
  BY <1>2, SetOutterMtuInv
<1>3. CASE \E p \in DOMAIN net : RecvWhole(p)
  BY <1>3, RecvWholeInv
<1>4. CASE \E p \in DOMAIN net : RecvTooLarge(p) \/ RecvAgain(p) \/ Lose(p)
  BY <1>4, DroppedInv DEF RecvTooLarge, RecvAgain, Lose
<1>5. CASE \E p \in DOMAIN net : RecvFragment(p)
  BY <1>5, RecvFragmentInv
<1>6. CASE \E p \in DOMAIN net : Duplicate(p)
  BY <1>6, DuplicateInv
<1>7. CASE \E s \in DOMAIN pending_dgram_db : ExpireTimeout(s)
  BY <1>7, ExpireTimeoutInv
<1>8. CASE UNCHANGED vars
  BY <1>8, StutterInv
<1> QED
  BY <1>1, <1>2, <1>3, <1>4, <1>5, <1>6, <1>7, <1>8 DEF Next

\* The inductive invariant: fragments alive under one sequence number belong
\* to one datagram, and no copy of a packet is in two places.
THEOREM PktfragInductive == Spec => []IndInv
  BY InitIndInv, NextIndInv, PTL DEF Spec

\* Type correctness, sequence numbers within their width included.
THEOREM PktfragTypes == Spec => []TypeOK
<1>1. IndInv => TypeOK
  BY DEF IndInv
<1> QED BY <1>1, PktfragInductive, PTL

\* What get_complete_dgram hands to the upper layer is a datagram that was
\* sent, intact, whatever the network and the MTU did.
THEOREM ReassemblyIntact == Spec => []DeliveredIntact
<1>1. IndInv => DeliveredIntact
  BY DEF IndInv
<1> QED BY <1>1, PktfragInductive, PTL

\* The assertion of add_fragment never fails, and a datagram whose fragments
\* have all come does not wait.
THEOREM NothingCompleteWaits == Spec => []PendingIsPartial
<1>1. IndInv => PendingIsPartial
  BY DEF IndInv
<1> QED BY <1>1, PktfragInductive, PTL

\* A datagram is delivered at most once for each copy of each of its packets.
LEMMA CopiesBound == IndInv => AtMostCopies
<1> SUFFICES ASSUME IndInv, NEW p \in DOMAIN copies PROVE recved[p.id] <= copies[p]
  BY DEF AtMostCopies
<1>1. p \in DOMAIN net /\ net[p] \in Nat /\ copies[p] \in Nat
  BY DEF IndInv, TypeOK
<1>2. recved[p.id] \in Nat
  BY <1>1 DEF IndInv, TypeOK, PktsAgree
<1>3. net[p] + (IF Held(p) THEN 1 ELSE 0) + recved[p.id] <= copies[p]
  BY <1>1 DEF IndInv, CopiesConserved
<1> QED BY <1>1, <1>2, <1>3

\* No copy of a fragment is used twice by the reassembly.
THEOREM DeliveredPerCopy == Spec => []AtMostCopies
  BY CopiesBound, PktfragInductive, PTL
-----------------------------------------------------------------------------
(* The refinement.                                                          *)

LEMMA MinCopies ==
    ASSUME NEW c, NEW P, P # {}, \A p \in P : c[p] \in Nat,
           NEW m, m = Min({c[p] : p \in P})
    PROVE  m \in Nat /\ (\E q \in P : m = c[q]) /\ (\A q \in P : m <= c[q])
<1> DEFINE S == {c[p] : p \in P}
<1>1. S \in SUBSET Nat /\ S # {}
  OBVIOUS
<1> HIDE DEF S
<1>2. Min(S) \in S /\ \A y \in S : Min(S) <= y
  BY <1>1, LeastNat DEF Min
<1> QED
  BY <1>1, <1>2 DEF S

LEMMA SomePkt ==
    ASSUME NEW i, NEW d \in Datagrams
    PROVE  Pkts(i, d) # {}
<1>1. d.mtu \in Mtus /\ d.len \in Lens
  BY DEF Datagrams
<1>2. d.mtu \in Nat /\ d.mtu > HdrLen /\ HdrLen \in Nat /\ d.len \in Nat \ {0}
  BY <1>1, PktfragAssumption
<1>3. 0 \in Offsets(d)
  BY <1>2 DEF Offsets
<1> QED
  BY <1>3 DEF Pkts

\* A new element at the end of a function on 1 .. n.
LEMMA AppendExtends ==
    ASSUME NEW n \in Nat, NEW f, f = [i \in 1 .. n |-> f[i]], NEW x,
           NEW g, g = [i \in 1 .. (n + 1) |-> g[i]], g[n + 1] = x,
           \A i \in 1 .. n : g[i] = f[i]
    PROVE  g = Append(f, x)
<1> DEFINE T == {f[i] : i \in 1 .. n} \cup {x}
<1>1. f \in Seq(T) /\ Len(f) = n
  OBVIOUS
<1> HIDE DEF T
<1>2. /\ DOMAIN Append(f, x) = 1 .. (n + 1) /\ Append(f, x)[n + 1] = x
      /\ \A i \in 1 .. n : Append(f, x)[i] = f[i]
      /\ Append(f, x) = [i \in 1 .. (n + 1) |-> Append(f, x)[i]]
  BY <1>1
<1>3. \A i \in 1 .. (n + 1) : i \in 1 .. n \/ i = n + 1
  OBVIOUS
<1>4. \A i \in 1 .. (n + 1) : Append(f, x)[i] = g[i]
  BY <1>2, <1>3
<1> QED
  BY <1>2, <1>4, ZenonT(20)

LEMMA RebuiltIs ==
    ASSUME NEW i \in 1 .. Len(sent), NEW db, Rebuilds(db, i)
    PROVE  Rebuilt(db) = [id |-> i, len |-> sent[i].len]
  BY DEF Rebuilt, AsDatagram, Rebuilds

LEMMA RefineInit == Init => Dgram!Init
<1> SUFFICES ASSUME Init PROVE Dgram!Init
  OBVIOUS
<1>1. Len(sent) = 0 /\ delivered = {} /\ recved = <<>>
  BY DEF Init
<1>2. DgramSent = <<>> /\ DgramCopies = <<>>
  BY <1>1 DEF DgramSent, DgramCopies
<1>3. DgramDelivered = {}
  BY <1>1 DEF DgramDelivered
<1> QED
  BY <1>1, <1>2, <1>3 DEF Dgram!Init

LEMMA RefineStutter ==
    ASSUME UNCHANGED <<sent, copies, delivered, recved>>
    PROVE  UNCHANGED Dgram!vars
  BY DEF Dgram!vars, DgramSent, DgramCopies, DgramDelivered, CopiesOf, Rebuilt, AsDatagram,
         Rebuilds

\* A delivery of the reassembly is one of the datagram service: it uses up a
\* copy of the datagram.
LEMMA RefineDeliver ==
    ASSUME IndInv, IndInv', sent' = sent, copies' = copies,
           NEW i \in 1 .. Len(sent), NEW db, Rebuilds(db, i),
           delivered' = delivered \cup {db}, recved' = [recved EXCEPT ![i] = @ + 1]
    PROVE  Dgram!Next
<1> DEFINE P == Pkts(i, sent[i])
           m == Min({copies[q] : q \in P})
<1>1. P # {} /\ P \subseteq DOMAIN net /\ DOMAIN copies = DOMAIN net
  BY SomePkt DEF IndInv, TypeOK, PktsAgree
<1>2. \A p \in P : copies[p] \in Nat
  BY <1>1 DEF IndInv, TypeOK
<1>0. m \in Nat /\ (\E q \in P : m = copies[q]) /\ (\A q \in P : m <= copies[q])
  <2> HIDE DEF P, m
  <2> QED BY <1>1, <1>2, MinCopies DEF m
<1>3. PICK q \in P : m = copies[q]
  BY <1>0
<1>4. q.id = i
  <2>1. sent[i] \in Datagrams
    BY DEF IndInv, TypeOK
  <2>2. CASE Fits(sent[i])
    BY <2>2 DEF Pkts, WholePkt
  <2>3. CASE ~Fits(sent[i])
    BY <2>1, <2>3, FragmentFields DEF Pkts
  <2> QED BY <2>2, <2>3
<1>5. recved'[i] <= copies[q]
  <2>1. AtMostCopies'
    <3>1. \A p \in DOMAIN net' : net'[p] \in Nat /\ copies'[p] \in Nat /\ recved'[p.id] \in Nat
      BY DEF IndInv, TypeOK, PktsAgree
    <3>2. \A p \in DOMAIN net' :
            net'[p] + (IF Held(p)' THEN 1 ELSE 0) + recved'[p.id] <= copies'[p]
      BY DEF IndInv, CopiesConserved
    <3>3. \A p \in DOMAIN net' : recved'[p.id] <= copies'[p]
      BY <3>1, <3>2
    <3> QED BY <3>3 DEF AtMostCopies, IndInv, TypeOK
  <2> QED BY <2>1, <1>1, <1>3, <1>4 DEF AtMostCopies
<1>6. recved[i] \in Nat /\ i \in DOMAIN recved /\ recved'[i] = recved[i] + 1
  BY DEF IndInv, TypeOK
<1>7. /\ Len(DgramSent) = Len(sent) /\ DgramSent[i] = sent[i].len
      /\ DgramCopies[i] = m
  <2>1. Len(sent) \in Nat
    BY DEF IndInv, TypeOK
  <2>2. CopiesOf(i) = m
    BY DEF CopiesOf
  <2> HIDE DEF m
  <2> QED BY <2>1, <2>2 DEF DgramSent, DgramCopies
<1> HIDE DEF m
<1>8. recved[i] < DgramCopies[i]
  BY <1>2, <1>3, <1>5, <1>6, <1>7
<1>9. DgramSent' = DgramSent /\ DgramCopies' = DgramCopies
  BY DEF DgramSent, DgramCopies, CopiesOf
<1>10. DgramDelivered' = DgramDelivered \cup {[id |-> i, len |-> DgramSent[i]]}
  <2>1. \A e : Rebuilt(e)' = Rebuilt(e)
    BY DEF Rebuilt, AsDatagram, Rebuilds
  <2>2. DgramDelivered' = {Rebuilt(e) : e \in delivered \cup {db}}
    BY <2>1 DEF DgramDelivered
  <2>3. Rebuilt(db) = [id |-> i, len |-> DgramSent[i]]
    BY <1>7, RebuiltIs
  <2> QED BY <2>2, <2>3 DEF DgramDelivered
<1>11. Dgram!Deliver(i)
  BY <1>8, <1>9, <1>10 DEF Dgram!Deliver
<1> QED
  BY <1>7, <1>11 DEF Dgram!Next

LEMMA RefineDuplicate ==
    ASSUME IndInv, NEW p \in DOMAIN net, Duplicate(p)
    PROVE  Dgram!Next \/ UNCHANGED Dgram!vars
<1> DEFINE i  == p.id
           P  == Pkts(i, sent[i])
           m  == Min({copies[q] : q \in P})
           mm == Min({copies'[q] : q \in P})
<1>0. /\ sent' = sent /\ delivered' = delivered /\ recved' = recved
      /\ i \in 1 .. Len(sent) /\ Len(sent) \in Nat /\ p \in P
      /\ DOMAIN copies = DOMAIN net /\ P \subseteq DOMAIN net /\ P # {}
  BY DEF Duplicate, IndInv, TypeOK, PktsAgree
<1>1. \A q \in DOMAIN net : /\ copies[q] \in Nat
                             /\ copies'[q] = IF q = p THEN copies[q] + 1 ELSE copies[q]
  BY DEF Duplicate, IndInv, TypeOK
<1>2. \A q \in P : copies[q] \in Nat /\ copies'[q] \in Nat
  BY <1>0, <1>1
<1>3. m \in Nat /\ (\E q \in P : m = copies[q]) /\ (\A q \in P : m <= copies[q])
  <2> HIDE DEF P, m
  <2> QED BY <1>0, <1>2, MinCopies DEF m
<1>4. mm \in Nat /\ (\E q \in P : mm = copies'[q]) /\ (\A q \in P : mm <= copies'[q])
  <2> HIDE DEF P, mm
  <2> QED BY <1>0, <1>2, MinCopies DEF mm
<1>5. mm = m \/ mm = m + 1
  <2> HIDE DEF P, m, mm
  <2>1. PICK q \in P : m = copies[q]
    BY <1>3
  <2>2. PICK r \in P : mm = copies'[r]
    BY <1>4
  <2>3. mm <= m + 1
    BY <2>1, <1>0, <1>1, <1>3, <1>4
  <2>4. m <= mm
    BY <2>2, <1>0, <1>1, <1>3, <1>4
  <2> QED BY <2>3, <2>4, <1>3, <1>4
<1>6. CopiesOf(i) = m /\ CopiesOf(i)' = mm
  BY <1>0 DEF CopiesOf
<1>7. \A j \in 1 .. Len(sent) : j # i => CopiesOf(j)' = CopiesOf(j)
  <2> SUFFICES ASSUME NEW j \in 1 .. Len(sent), j # i PROVE CopiesOf(j)' = CopiesOf(j)
    OBVIOUS
  <2>a. sent[j] \in Datagrams
    BY DEF IndInv, TypeOK
  <2>b. Pkts(j, sent[j]) \subseteq DOMAIN net
    BY ZenonT(20) DEF IndInv, PktsAgree
  <2>1. sent[j] \in Datagrams /\ Pkts(j, sent[j]) \subseteq DOMAIN net
    BY <2>a, <2>b
  <2>2. \A q \in Pkts(j, sent[j]) : q.id = j
    <3>1. CASE Fits(sent[j])
      BY <3>1 DEF Pkts, WholePkt
    <3>2. CASE ~Fits(sent[j])
      BY <2>1, <3>2, FragmentFields DEF Pkts
    <3> QED BY <3>1, <3>2
  <2>3. \A q \in Pkts(j, sent[j]) : copies'[q] = copies[q]
    BY <2>1, <2>2, <1>1
  <2>4. {copies'[q] : q \in Pkts(j, sent[j])} = {copies[q] : q \in Pkts(j, sent[j])}
    BY <2>3
  <2> QED BY <2>4, <1>0 DEF CopiesOf
<1> HIDE DEF P, m, mm, i
<1>8. DgramSent' = DgramSent /\ DgramDelivered' = DgramDelivered
  BY <1>0 DEF DgramSent, DgramDelivered, Rebuilt, AsDatagram, Rebuilds
<1>9. /\ DgramCopies = [j \in 1 .. Len(sent) |-> CopiesOf(j)]
      /\ DgramCopies' = [j \in 1 .. Len(sent) |-> CopiesOf(j)']
  BY <1>0 DEF DgramCopies
<1>10. CASE mm = m
  <2>1. \A j \in 1 .. Len(sent) : CopiesOf(j)' = CopiesOf(j)
    BY <1>6, <1>7, <1>10
  <2>2. DgramCopies' = DgramCopies
    BY <2>1, <1>9
  <2> QED BY <2>2, <1>0, <1>8 DEF Dgram!vars
<1>11. CASE mm = m + 1
  <2>1. DgramCopies' = [DgramCopies EXCEPT ![i] = @ + 1]
    <3>1. \A j \in 1 .. Len(sent) :
            CopiesOf(j)' = IF j = i THEN CopiesOf(j) + 1 ELSE CopiesOf(j)
      BY <1>6, <1>7, <1>11
    <3> QED BY <3>1, <1>0, <1>9
  <2>2. Dgram!Duplicate(i)
    BY <2>1, <1>0, <1>8 DEF Dgram!Duplicate
  <2>3. i \in 1 .. Len(DgramSent)
    BY <1>0 DEF DgramSent
  <2> QED BY <2>2, <2>3 DEF Dgram!Next
<1> QED BY <1>5, <1>10, <1>11

LEMMA RefineSend ==
    ASSUME IndInv, IndInv', NEW len \in Lens, PktFromUpper(len)
    PROVE  Dgram!Next
<1> DEFINE n == Len(sent)
<1>1. PICK d : /\ sent' = Append(sent, d) /\ d.len = len
               /\ n < MaxSend /\ recved' = Append(recved, 0) /\ delivered' = delivered
               /\ copies' = [p \in DOMAIN copies \cup Pkts(n + 1, d) |->
                                IF p \in Pkts(n + 1, d) THEN 1 ELSE copies[p]]
  BY DEF PktFromUpper
<1>2. sent \in Seq(Datagrams) /\ n \in Nat /\ sent' \in Seq(Datagrams)
  BY DEF IndInv, TypeOK
<1>3. /\ Len(sent') = n + 1 /\ sent'[n + 1] = d
      /\ \A i \in 1 .. n : sent'[i] = sent[i]
  BY <1>1, <1>2
<1>4. d \in Datagrams
  BY <1>2, <1>3
<1>5. \A p \in Pkts(n + 1, d) : p.id = n + 1
  <2>1. CASE Fits(d)
    BY <2>1 DEF Pkts, WholePkt
  <2>2. CASE ~Fits(d)
    BY <1>4, <2>2, FragmentFields DEF Pkts
  <2> QED BY <2>1, <2>2
<1>6. \A i \in 1 .. n : /\ sent[i] \in Datagrams
                         /\ \A p \in Pkts(i, sent[i]) :
                               p \in DOMAIN copies /\ p.id = i /\ copies'[p] = copies[p]
  <2> SUFFICES ASSUME NEW i \in 1 .. n, NEW p \in Pkts(i, sent[i])
               PROVE  p \in DOMAIN copies /\ p.id = i /\ copies'[p] = copies[p]
    BY <1>2
  <2>1. sent[i] \in Datagrams
    BY <1>2
  <2>2. p.id = i
    <3>1. CASE Fits(sent[i])
      BY <3>1 DEF Pkts, WholePkt
    <3>2. CASE ~Fits(sent[i])
      BY <2>1, <3>2, FragmentFields DEF Pkts
    <3> QED BY <3>1, <3>2
  <2>3. p \in DOMAIN copies
    BY DEF IndInv, TypeOK, PktsAgree
  <2>4. p \notin Pkts(n + 1, d)
    BY <2>2, <1>2, <1>5
  <2> QED BY <2>2, <2>3, <2>4, <1>1
<1>7. \A i \in 1 .. n : CopiesOf(i)' = CopiesOf(i)
  <2> SUFFICES ASSUME NEW i \in 1 .. n PROVE CopiesOf(i)' = CopiesOf(i)
    OBVIOUS
  <2>1. {copies'[p] : p \in Pkts(i, sent[i])} = {copies[p] : p \in Pkts(i, sent[i])}
    BY <1>6
  <2>2. sent'[i] = sent[i]
    BY <1>3
  <2> QED BY <2>1, <2>2 DEF CopiesOf
\* k is rigid: priming CopiesOf(n + 1) would prime n.
<1>0. PICK k \in Nat : k = n + 1
  BY <1>2
<1>8. CopiesOf(k)' = 1
  <2> DEFINE P == Pkts(k, d)
  <2>1. P # {} /\ \A p \in P : copies'[p] = 1
    BY <1>0, <1>1, <1>4, SomePkt
  <2>2. CopiesOf(k)' = Min({copies'[p] : p \in P})
    BY <1>0, <1>3 DEF CopiesOf
  <2> HIDE DEF P
  <2>3. {copies'[p] : p \in P} = {1}
    BY <2>1
  <2>4. Min({1}) = 1
    BY DEF Min
  <2> QED BY <2>2, <2>3, <2>4
<1>9. DgramSent' = Append(DgramSent, len)
  <2>1. DgramSent = [i \in 1 .. n |-> sent[i].len]
    BY DEF DgramSent
  <2>2. DgramSent' = [i \in 1 .. (n + 1) |-> sent'[i].len]
    BY <1>3 DEF DgramSent
  <2>3. DgramSent = [i \in 1 .. n |-> DgramSent[i]] /\ \A i \in 1 .. n : DgramSent[i] = sent[i].len
    BY <2>1
  <2>4. /\ DgramSent' = [i \in 1 .. (n + 1) |-> DgramSent'[i]]
        /\ \A i \in 1 .. (n + 1) : DgramSent'[i] = sent'[i].len
    BY <2>2
  <2>0. d.len = len
    BY <1>1
  <2> HIDE DEF n
  <2>6. n + 1 \in 1 .. (n + 1) /\ \A i \in 1 .. n : i \in 1 .. (n + 1)
    BY <1>2
  <2>5. DgramSent'[n + 1] = len /\ \A i \in 1 .. n : DgramSent'[i] = DgramSent[i]
    BY <2>0, <2>3, <2>4, <2>6, <1>3
  <2> QED BY <2>3, <2>4, <2>5, <1>2, AppendExtends
<1>10. DgramCopies' = Append(DgramCopies, 1)
  <2>1. DgramCopies = [i \in 1 .. n |-> CopiesOf(i)]
    BY DEF DgramCopies
  <2>2. DgramCopies' = [i \in 1 .. (n + 1) |-> CopiesOf(i)']
    BY <1>3 DEF DgramCopies
  <2>3. DgramCopies = [i \in 1 .. n |-> DgramCopies[i]] /\ \A i \in 1 .. n : DgramCopies[i] = CopiesOf(i)
    BY <2>1
  <2>4. /\ DgramCopies' = [i \in 1 .. (n + 1) |-> DgramCopies'[i]]
        /\ \A i \in 1 .. (n + 1) : DgramCopies'[i] = CopiesOf(i)'
    BY <2>2
  <2> HIDE DEF n
  <2>0. n + 1 \in 1 .. (n + 1) /\ \A i \in 1 .. n : i \in 1 .. (n + 1)
    BY <1>2
  <2>6. DgramCopies'[n + 1] = 1
    <3>1. DgramCopies'[k] = CopiesOf(k)'
      BY <2>0, <2>4, <1>0
    <3> QED BY <3>1, <1>0, <1>8
  <2>7. ASSUME NEW i \in 1 .. n PROVE DgramCopies'[i] = DgramCopies[i]
    <3>1. DgramCopies'[i] = CopiesOf(i)'
      BY <2>0, <2>4
    <3>2. CopiesOf(i)' = CopiesOf(i)
      BY <1>7
    <3> QED BY <3>1, <3>2, <2>3
  <2>5. DgramCopies'[n + 1] = 1 /\ \A i \in 1 .. n : DgramCopies'[i] = DgramCopies[i]
    BY <2>6, <2>7
  <2> QED BY <2>3, <2>4, <2>5, <1>2, AppendExtends
<1>11. DgramDelivered' = DgramDelivered
  <2>1. ASSUME NEW db \in delivered PROVE Rebuilt(db)' = Rebuilt(db)
    <3>1. PICK i \in 1 .. n : Rebuilds(db, i)
      BY DEF IndInv, DeliveredIntact
    <3>2. Rebuilt(db) = [id |-> i, len |-> sent[i].len]
      BY <3>1, RebuiltIs
    <3>3. sent'[i] = sent[i] /\ i \in 1 .. Len(sent') /\ db[0].id = i
      BY <3>1, <1>2, <1>3 DEF Rebuilds
    <3>4. Rebuilds(db, i)'
      BY <3>1, <3>3 DEF Rebuilds
    <3>5. Rebuilt(db)' = AsDatagram(db)'
      BY <3>3, <3>4 DEF Rebuilt
    <3> QED BY <3>2, <3>3, <3>5 DEF AsDatagram
  <2> QED BY <2>1, <1>1 DEF DgramDelivered
<1>12. Len(DgramSent) < MaxSend
  BY <1>1, <1>2 DEF DgramSent
<1>13. Dgram!Send(len)
  BY <1>1, <1>9, <1>10, <1>11, <1>12 DEF Dgram!Send
<1> QED
  BY <1>13 DEF Dgram!Next

\* A whole packet is delivered as it is.
LEMMA RefineWhole ==
    ASSUME IndInv, IndInv', NEW p \in DOMAIN net, RecvWhole(p)
    PROVE  Dgram!Next
<1>0. PICK i : i = p.id
  OBVIOUS
<1>1. PICK db : db = [o \in {0} |-> p]
  OBVIOUS
<1>2. i \in 1 .. Len(sent) /\ sent[i] \in Datagrams /\ p = WholePkt(i, sent[i])
  <2>1. i \in 1 .. Len(sent) /\ p \in Pkts(i, sent[i])
    BY <1>0 DEF IndInv, PktsAgree
  <2>2. sent[i] \in Datagrams
    BY <2>1 DEF IndInv, TypeOK
  <2>3. Fits(sent[i])
    BY <2>1 DEF Pkts, Fragment, RecvWhole
  <2> QED BY <2>1, <2>2, <2>3 DEF Pkts
<1>3. Rebuilds(db, i)
  <2>1. sent[i].len \in Nat
    BY <1>2, PktfragAssumption DEF Datagrams
  <2>2. p.id = i /\ p.offset = 0 /\ p.len = sent[i].len
    BY <1>2 DEF WholePkt
  <2>3. DOMAIN db = {0} /\ db[0] = p
    BY <1>1
  <2> QED BY <2>1, <2>2, <2>3 DEF Rebuilds
<1>4. sent' = sent /\ copies' = copies /\ PktToUpper(db)
  BY <1>1 DEF RecvWhole, Arrive
<1>5. delivered' = delivered \cup {db} /\ recved' = [recved EXCEPT ![i] = @ + 1]
  <2>1. \A j : (\E o \in DOMAIN db : db[o].id = j) <=> i = j
    BY <1>0, <1>1
  <2>2. i \in DOMAIN recved
    BY <1>2 DEF IndInv, TypeOK
  <2>3. recved' = [j \in DOMAIN recved |-> IF \E o \in DOMAIN db : db[o].id = j
                                             THEN recved[j] + 1 ELSE recved[j]]
    BY <1>4 DEF PktToUpper
  <2>4. delivered' = delivered \cup {db}
    BY <1>4 DEF PktToUpper
  <2> QED BY <2>1, <2>2, <2>3, <2>4
<1> QED
  BY <1>2, <1>3, <1>4, <1>5, RefineDeliver

LEMMA RefineFragment ==
    ASSUME IndInv, IndInv', NEW p \in DOMAIN net, RecvFragment(p)
    PROVE  Dgram!Next \/ UNCHANGED Dgram!vars
<1>0. PICK old, pd, i : old = PendingDgram(p.seqnb) /\ pd = AddFragment(old, p) /\ i = p.id
  OBVIOUS
<1>1. /\ p.type = "PKT_FRAGMENT" /\ p.offset \notin DOMAIN old.fragment_db
      /\ net[p] > 0 /\ sent' = sent /\ copies' = copies
      /\ \/ IsComplete(pd) /\ PktToUpper(pd.fragment_db)
         \/ UNCHANGED <<delivered, recved>>
  BY <1>0 DEF RecvFragment, Arrive
<1>2. CASE IsComplete(pd) /\ PktToUpper(pd.fragment_db)
  <2>1. Added(p, old, pd)
    BY <1>0, <1>1, AddedFragment
  <2>2. /\ Rebuilds(pd.fragment_db, i)
        /\ delivered' = delivered \cup {pd.fragment_db}
        /\ recved' = [recved EXCEPT ![i] = @ + 1]
    BY <1>0, <1>2, <2>1, CompleteDelivers
  <2>3. i \in 1 .. Len(sent)
    BY <1>0, <2>1 DEF Added
  <2>4. PICK db : db = pd.fragment_db
    OBVIOUS
  <2>5. Rebuilds(db, i) /\ delivered' = delivered \cup {db}
    BY <2>2, <2>4
  <2> QED BY <1>1, <2>2, <2>3, <2>5, RefineDeliver
<1>3. CASE UNCHANGED <<delivered, recved>>
  BY <1>1, <1>3, RefineStutter
<1> QED BY <1>1, <1>2, <1>3

LEMMA RefineNext == IndInv /\ IndInv' /\ [Next]_vars => [Dgram!Next]_(Dgram!vars)
<1> SUFFICES ASSUME IndInv, IndInv', [Next]_vars
             PROVE  Dgram!Next \/ UNCHANGED Dgram!vars
  OBVIOUS
<1>1. CASE \E len \in Lens : PktFromUpper(len)
  BY <1>1, RefineSend
<1>2. CASE \E mtu \in Mtus : SetOutterMtu(mtu)
  BY <1>2, RefineStutter DEF SetOutterMtu
<1>3. CASE \E p \in DOMAIN net : RecvWhole(p)
  BY <1>3, RefineWhole
<1>4. CASE \E p \in DOMAIN net : RecvTooLarge(p) \/ RecvAgain(p) \/ Lose(p)
  BY <1>4, RefineStutter DEF RecvTooLarge, RecvAgain, Lose, Dropped, Arrive
<1>5. CASE \E p \in DOMAIN net : RecvFragment(p)
  BY <1>5, RefineFragment
<1>6. CASE \E p \in DOMAIN net : Duplicate(p)
  BY <1>6, RefineDuplicate
<1>7. CASE \E s \in DOMAIN pending_dgram_db : ExpireTimeout(s)
  BY <1>7, RefineStutter DEF ExpireTimeout
<1>8. CASE UNCHANGED vars
  BY <1>8, RefineStutter DEF vars
<1> QED
  BY <1>1, <1>2, <1>3, <1>4, <1>5, <1>6, <1>7, <1>8 DEF Next

\* pktfrag_t over a network that loses, duplicates and reorders packets is an
\* unreliable datagram service: it hands up datagrams that were sent, intact,
\* each at most once for every copy of it.
THEOREM PktfragRefinement == Spec => ImplementsDgram
<1>1. Init => Dgram!Init
  BY RefineInit
<1>2. IndInv /\ IndInv' /\ [Next]_vars => [Dgram!Next]_(Dgram!vars)
  BY RefineNext
<1> QED
  BY <1>1, <1>2, PktfragInductive, PTL DEF Spec, ImplementsDgram, Dgram!Spec
=============================================================================
