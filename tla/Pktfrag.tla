------------------------------ MODULE Pktfrag ------------------------------
(***************************************************************************)
(* pktfrag_t under the brick nlay_pktfrag_t: datagrams larger than the MTU *)
(* are cut into fragments, which a network loses, duplicates and reorders, *)
(* and the other end rebuilds them.  A datagram is known by its place in   *)
(* the history sent; a packet carries the bytes offset .. offset + len - 1 *)
(* of datagram id, and the code sees all of it but id.                     *)
(***************************************************************************)
EXTENDS Integers, Sequences, FiniteSetsExt

CONSTANTS SeqMod,       \* range of the uint32_t sequence numbers
          HdrLen,       \* cpu_fragment_hd_len()
          Mtus,         \* values given to set_outter_mtu
          Lens,         \* lengths of the datagrams of the upper layer
          PoolMaxSize,  \* pool_max_size, 0 for unlimited
          MaxSend,      \* bound on the number of datagrams
          MaxCopies,    \* bound on the copies of a packet
          MaxDup        \* bound on the packets of which there are copies

\* set_outter_mtu accepts every MTU; one that leaves no room for data behind
\* the header makes pkt_from_upper loop for ever, or cut one fragment only.
ASSUME PktfragAssumption ==
    /\ SeqMod \in Nat \ {0}
    /\ HdrLen \in Nat
    /\ Mtus \subseteq Nat /\ \A m \in Mtus : m > HdrLen
    /\ Lens \subseteq Nat \ {0}
    /\ PoolMaxSize \in Nat
    /\ MaxSend \in Nat

VARIABLES
    outter_mtu,
    next_xmit_seqnb,
    sent,               \* the datagrams sent: their length, MTU and seqnb
    net,                \* packet -> how many copies of it are under way
    copies,             \* packet -> how many there ever were
    pending_dgram_db,   \* seqnb -> pending_dgram_t
    delivered,          \* fragment_dbs whose concatenation went to the upper layer
    recved              \* how many of those held a fragment of datagram i

vars == <<outter_mtu, next_xmit_seqnb, sent, net, copies, pending_dgram_db,
          delivered, recved>>

Init ==
    /\ outter_mtu \in Mtus
    /\ next_xmit_seqnb = 0
    /\ sent = <<>>
    /\ net = <<>>
    /\ copies = <<>>
    /\ pending_dgram_db = <<>>
    /\ delivered = {}
    /\ recved = <<>>
-----------------------------------------------------------------------------
(* Fragmentation.                                                           *)

\* Offsets of the fragments of a datagram: the multiples of payl_mtu in it.
Offsets(d) == {o \in 0 .. (d.len - 1) : o % (d.mtu - HdrLen) = 0}

\* The fragment of datagram i at offset o: payl_mtu bytes and the more bit, or
\* what is left.
Fragment(i, d, o) ==
    LET more == d.len - o > d.mtu - HdrLen
    IN  [type |-> "PKT_FRAGMENT", id |-> i, seqnb |-> d.seqnb, offset |-> o,
         more |-> more, len |-> IF more THEN d.mtu - HdrLen ELSE d.len - o]

\* A packet that fits goes through the brick as it is.
WholePkt(i, d) ==
    [type |-> "DATA", id |-> i, seqnb |-> d.seqnb, offset |-> 0,
     more |-> FALSE, len |-> d.len]

Fits(d) == d.len <= d.mtu

Pkts(i, d) ==
    IF Fits(d) THEN {WholePkt(i, d)} ELSE {Fragment(i, d, o) : o \in Offsets(d)}

\* Sequence numbers are used again after SeqMod datagrams.  The code relies on
\* that taking longer than a packet stays in the network plus the time
\* (pending_dgram_expire) a pending datagram is kept.
SeqnbFree(s) ==
    /\ \A p \in DOMAIN net :
           p.type = "PKT_FRAGMENT" /\ p.seqnb = s => net[p] = 0
    /\ s \notin DOMAIN pending_dgram_db

\* A counter that is wider than the field of the header.
NextSeqnbNoWrap == next_xmit_seqnb + 1

\* The sequence number of the next datagram that is cut; it starts with 1.
NextSeqnb == (next_xmit_seqnb + 1) % SeqMod

\* nlay_pktfrag_t::pkt_from_upper: the whole packet, or all its fragments.
PktFromUpper(len) ==
    LET whole == len <= outter_mtu
        s     == IF whole THEN next_xmit_seqnb ELSE NextSeqnb
        d     == [len |-> len, mtu |-> outter_mtu, seqnb |-> s]
        new   == Pkts(Len(sent) + 1, d)
    IN  /\ Len(sent) < MaxSend
        /\ whole \/ SeqnbFree(s)
        /\ next_xmit_seqnb' = s
        /\ sent' = Append(sent, d)
        /\ net' = [p \in DOMAIN net \cup new |-> IF p \in new THEN 1 ELSE net[p]]
        /\ copies' = [p \in DOMAIN copies \cup new |-> IF p \in new THEN 1 ELSE copies[p]]
        /\ recved' = Append(recved, 0)
        /\ UNCHANGED <<outter_mtu, pending_dgram_db, delivered>>

\* The path MTU changes between two datagrams.
SetOutterMtu(mtu) ==
    /\ outter_mtu' = mtu
    /\ UNCHANGED <<next_xmit_seqnb, sent, net, copies, pending_dgram_db, delivered, recved>>
-----------------------------------------------------------------------------
(* Reassembly.                                                              *)

NewPendingDgram == [fragment_db |-> <<>>, full_dgram_len |-> 0]

\* add_fragment stores the packet under its offset; the last fragment tells
\* the length of the datagram.
AddFragment(pd, p) ==
    [fragment_db    |-> [o \in DOMAIN pd.fragment_db \cup {p.offset} |->
                            IF o = p.offset THEN p ELSE pd.fragment_db[o]],
     full_dgram_len |-> IF p.more THEN pd.full_dgram_len ELSE p.offset + p.len]

\* The last fragment is taken for the end of the datagram.
IsCompleteAtLast(pd) == pd.full_dgram_len # 0

\* is_complete: W are the offsets its loop visits, each one found and the next
\* one behind it, up to the length of the datagram.
IsComplete(pd) ==
    /\ pd.full_dgram_len # 0
    /\ \E W \in SUBSET DOMAIN pd.fragment_db :
        /\ 0 \in W
        /\ \A o \in W : \/ o + pd.fragment_db[o].len >= pd.full_dgram_len
                        \/ o + pd.fragment_db[o].len \in W

\* The pool is never drained: pool_cur_size is compared and never updated.
PoolCurSize == 0

FragmentTooLarge(p) == PoolMaxSize # 0 /\ PoolMaxSize - PoolCurSize < p.len

\* get_complete_dgram concatenates the fragments in the order of the offsets,
\* and the result goes to the upper layer.
PktToUpper(fragment_db) ==
    /\ delivered' = delivered \cup {fragment_db}
    /\ recved' = [i \in DOMAIN recved |->
                     IF \E o \in DOMAIN fragment_db : fragment_db[o].id = i
                     THEN recved[i] + 1 ELSE recved[i]]

\* One copy of p leaves the network.
Arrive(p) ==
    /\ net[p] > 0
    /\ net' = [net EXCEPT ![p] = @ - 1]
    /\ UNCHANGED <<outter_mtu, next_xmit_seqnb, sent, copies>>

Dropped(p) == Arrive(p) /\ UNCHANGED <<pending_dgram_db, delivered, recved>>

\* A packet that is not a fragment passes the brick.
RecvWhole(p) ==
    /\ p.type = "DATA"
    /\ Arrive(p)
    /\ PktToUpper([o \in {0} |-> p])
    /\ UNCHANGED pending_dgram_db

\* The pending datagram of the sequence number of p, created if need be.
PendingDgram(s) ==
    IF s \in DOMAIN pending_dgram_db THEN pending_dgram_db[s] ELSE NewPendingDgram

StorePending(s, pd) ==
    pending_dgram_db' = [t \in DOMAIN pending_dgram_db \cup {s} |->
                            IF t = s THEN pd ELSE pending_dgram_db[t]]

DeletePending(s) ==
    pending_dgram_db' = Restrict(pending_dgram_db, DOMAIN pending_dgram_db \ {s})

\* recv_pkt_fragment: a fragment beyond the pool is refused, ...
RecvTooLarge(p) ==
    /\ p.type = "PKT_FRAGMENT" /\ FragmentTooLarge(p)
    /\ Dropped(p)

\* ... one whose offset is there already is discarded, ...
RecvAgain(p) ==
    /\ p.type = "PKT_FRAGMENT" /\ ~FragmentTooLarge(p)
    /\ p.offset \in DOMAIN PendingDgram(p.seqnb).fragment_db
    /\ Dropped(p)

\* The fragment that completes the datagram is handed up without being stored,
\* and the others are not deleted.
RecvFragmentKeepsPending(p) ==
    LET pd == AddFragment(PendingDgram(p.seqnb), p)
        s  == p.seqnb
    IN  /\ p.type = "PKT_FRAGMENT" /\ ~FragmentTooLarge(p)
        /\ p.offset \notin DOMAIN PendingDgram(s).fragment_db
        /\ Arrive(p)
        /\ \/ /\ IsComplete(pd)
              /\ PktToUpper(pd.fragment_db)
              /\ UNCHANGED pending_dgram_db
           \/ /\ ~IsComplete(pd)
              /\ StorePending(s, pd)
              /\ UNCHANGED <<delivered, recved>>

\* ... and any other one is stored, and may complete the datagram.
RecvFragment(p) ==
    LET pd == AddFragment(PendingDgram(p.seqnb), p)
        s  == p.seqnb
    IN  /\ p.type = "PKT_FRAGMENT" /\ ~FragmentTooLarge(p)
        /\ p.offset \notin DOMAIN PendingDgram(s).fragment_db
        /\ Arrive(p)
        /\ \/ /\ IsComplete(pd)
              /\ PktToUpper(pd.fragment_db)
              /\ DeletePending(s)
           \/ /\ ~IsComplete(pd)
              /\ StorePending(s, pd)
              /\ UNCHANGED <<delivered, recved>>

\* neoip_timeout_expire_cb of a pending datagram.
ExpireTimeout(s) ==
    /\ DeletePending(s)
    /\ UNCHANGED <<outter_mtu, next_xmit_seqnb, sent, net, copies, delivered, recved>>
-----------------------------------------------------------------------------
(* The network.                                                             *)

Lose(p) == Dropped(p)

Duplicate(p) ==
    /\ net[p] > 0
    /\ copies[p] < MaxCopies
    /\ Cardinality({q \in DOMAIN copies : copies[q] > 1} \cup {p}) <= MaxDup
    /\ net' = [net EXCEPT ![p] = @ + 1]
    /\ copies' = [copies EXCEPT ![p] = @ + 1]
    /\ UNCHANGED <<outter_mtu, next_xmit_seqnb, sent, pending_dgram_db, delivered, recved>>

Next ==
    \/ \E len \in Lens : PktFromUpper(len)
    \/ \E mtu \in Mtus : SetOutterMtu(mtu)
    \/ \E p \in DOMAIN net :
          \/ RecvWhole(p) \/ RecvTooLarge(p) \/ RecvAgain(p) \/ RecvFragment(p)
          \/ Lose(p) \/ Duplicate(p)
    \/ \E s \in DOMAIN pending_dgram_db : ExpireTimeout(s)

Spec == Init /\ [][Next]_vars
-----------------------------------------------------------------------------
(* Properties.                                                              *)

Datagrams == [len : Lens, mtu : Mtus, seqnb : 0 .. (SeqMod - 1)]

PktType == [type : {"PKT_FRAGMENT", "DATA"}, id : 1 .. MaxSend,
            seqnb : 0 .. (SeqMod - 1), offset : Nat, more : BOOLEAN, len : Nat \ {0}]

\* Types; among them, that sequence numbers stay within their width.
TypeOK ==
    /\ outter_mtu \in Mtus
    /\ next_xmit_seqnb \in 0 .. (SeqMod - 1)
    /\ sent \in Seq(Datagrams) /\ Len(sent) <= MaxSend
    /\ DOMAIN net \subseteq PktType /\ DOMAIN copies = DOMAIN net
    /\ \A p \in DOMAIN net : net[p] \in Nat /\ copies[p] \in Nat
    /\ DOMAIN pending_dgram_db \subseteq 0 .. (SeqMod - 1)
    /\ \A s \in DOMAIN pending_dgram_db :
          /\ DOMAIN pending_dgram_db[s].fragment_db \subseteq Nat
          /\ pending_dgram_db[s].full_dgram_len \in Nat
          /\ \A o \in DOMAIN pending_dgram_db[s].fragment_db :
                pending_dgram_db[s].fragment_db[o] \in DOMAIN net
    /\ DOMAIN recved = 1 .. Len(sent)
    /\ \A i \in 1 .. Len(sent) : recved[i] \in Nat

\* The concatenation of the fragments is datagram i: they are pieces of it, in
\* their places, without a hole and without an overlap.
Rebuilds(db, i) ==
    /\ 0 \in DOMAIN db
    /\ \A o \in DOMAIN db :
          /\ db[o].id = i /\ db[o].offset = o
          /\ o + db[o].len = sent[i].len \/ o + db[o].len \in DOMAIN db
          /\ \A q \in DOMAIN db : o < q => o + db[o].len <= q

\* Whatever the network loses, duplicates and reorders, and however the MTU
\* changes and the sequence numbers wrap around, what get_complete_dgram hands
\* to the upper layer is one of the datagrams sent, intact.
DeliveredIntact ==
    \A db \in delivered : \E i \in 1 .. Len(sent) : Rebuilds(db, i)

\* "sanity check - the datagram MUST not be already complete"
\* (neoip_pktfrag_pending_dgram.cpp:65), and more: a datagram whose fragments
\* have all come is never left waiting for its expiry, in whatever order they
\* came.
PendingIsPartial ==
    \A s \in DOMAIN pending_dgram_db :
        /\ ~IsComplete(pending_dgram_db[s])
        /\ \E o \in DOMAIN pending_dgram_db[s].fragment_db :
              LET i == pending_dgram_db[s].fragment_db[o].id
              IN  ~(Offsets(sent[i]) \subseteq DOMAIN pending_dgram_db[s].fragment_db)

\* A datagram is handed to the upper layer at most as often as there were
\* copies of each one of its packets: no copy of a fragment is used twice, by
\* a reassembly that outlives its completion or one begun by a late duplicate.
AtMostCopies ==
    \A p \in DOMAIN copies : recved[p.id] <= copies[p]

\* Fragmentation, network and reassembly together are an unreliable datagram
\* service, of which a copy of a datagram is one copy of each of its packets.
CopiesOf(i) == Min({copies[p] : p \in Pkts(i, sent[i])})

AsDatagram(db) == [id |-> db[0].id, len |-> sent[db[0].id].len]

Rebuilt(db) ==
    IF \E i \in 1 .. Len(sent) : Rebuilds(db, i) THEN AsDatagram(db) ELSE [id |-> 0]

DgramSent      == [i \in 1 .. Len(sent) |-> sent[i].len]
DgramCopies    == [i \in 1 .. Len(sent) |-> CopiesOf(i)]
DgramDelivered == {Rebuilt(db) : db \in delivered}

Dgram == INSTANCE DgramChannel
           WITH sent <- DgramSent, copies <- DgramCopies,
                delivered <- DgramDelivered, recved <- recved

ImplementsDgram == Dgram!Spec

(***************************************************************************)
(* The inductive invariant.  A packet is alive while a copy of it is under *)
(* way or it waits in a pending datagram.                                  *)
(***************************************************************************)
Held(p) ==
    /\ p.type = "PKT_FRAGMENT"
    /\ p.seqnb \in DOMAIN pending_dgram_db
    /\ p.offset \in DOMAIN pending_dgram_db[p.seqnb].fragment_db
    /\ pending_dgram_db[p.seqnb].fragment_db[p.offset] = p

\* The packets of the network are those of the datagrams sent.
PktsAgree ==
    /\ \A p \in DOMAIN net : p.id \in 1 .. Len(sent) /\ p \in Pkts(p.id, sent[p.id])
    /\ \A i \in 1 .. Len(sent) : Pkts(i, sent[i]) \subseteq DOMAIN net

\* Fragments that are alive under one sequence number are of one datagram.
OneDgramPerSeqnb ==
    \A p, q \in DOMAIN net :
        /\ p.type = "PKT_FRAGMENT" /\ q.type = "PKT_FRAGMENT" /\ p.seqnb = q.seqnb
        /\ net[p] > 0 \/ Held(p)
        /\ net[q] > 0 \/ Held(q)
        => p.id = q.id

\* A pending datagram holds fragments under their number and offset, and knows
\* the length of its datagram once it holds the last one.
PendingAgrees ==
    \A s \in DOMAIN pending_dgram_db :
        LET pd == pending_dgram_db[s]
        IN  /\ DOMAIN pd.fragment_db # {}
            /\ \A o \in DOMAIN pd.fragment_db :
                  LET p == pd.fragment_db[o]
                  IN  /\ p.type = "PKT_FRAGMENT" /\ p.seqnb = s /\ p.offset = o
                      /\ pd.full_dgram_len \in {0, sent[p.id].len}
                      /\ ~p.more => pd.full_dgram_len # 0
            /\ pd.full_dgram_len # 0 =>
                  \E o \in DOMAIN pd.fragment_db : ~pd.fragment_db[o].more

\* No copy of a packet is in two places.
CopiesConserved ==
    \A p \in DOMAIN net :
        net[p] + (IF Held(p) THEN 1 ELSE 0) + recved[p.id] <= copies[p]

IndInv ==
    /\ TypeOK
    /\ PktsAgree
    /\ OneDgramPerSeqnb
    /\ PendingAgrees
    /\ PendingIsPartial
    /\ CopiesConserved
    /\ DeliveredIntact
=============================================================================
