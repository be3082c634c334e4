---------------------------- MODULE SwarmSchedProofs ----------------------------
(***************************************************************************)
(* Proofs about the download scheduler: for every number of connections,   *)
(* pieces and blocks, every length of the request queues and whatever the  *)
(* environment does.                                                       *)
(*                                                                         *)
(* As in SwarmSched, everything is said of the record s the handlers work  *)
(* on; the inductive invariant is the one of Cur.                          *)
(***************************************************************************)
EXTENDS SwarmSched, NatLemmas

\* A peer of this program sends PIECE_BFIELD once, and before any PIECE_ISAVAIL.
BfieldFirst == "bfield_late" \notin Adversity

Rec == [full_db : Seq(Full), ecnx_db : Seq(Ecnx),
        remote_pavail : [Cnx -> SUBSET Piece], other_doauth : [Cnx -> BOOLEAN],
        bfield_seen : SUBSET Full, remote_pfreq : [Piece -> Nat],
        needed : SUBSET Piece, local_pavail : SUBSET Piece, dling : SUBSET Piece,
        hashing : SUBSET Piece, block_db : SUBSET Block, writing : SUBSET Block,
        written : SUBSET Block, corrupt : SUBSET Block,
        pending : SUBSET (Cnx \X Block), expired : SUBSET (Cnx \X Block),
        wire : [Cnx -> SUBSET Block], zerotimer : SUBSET ({"next", "kill"} \X Ecnx)]

OpenIn(s, c) == Member(s.full_db, c) \/ Member(s.ecnx_db, c)

\* Where the content of a piece is while it is downloaded, and afterwards.
Disk(s) ==
    /\ s.hashing \subseteq s.dling
    /\ s.corrupt \subseteq s.writing \cup s.written
    /\ s.local_pavail \cap s.dling = {}
    /\ s.block_db \cap s.writing = {}
    /\ s.block_db \cap s.written = {}
    /\ s.writing \cap s.written = {}
    /\ \A b \in s.block_db \cup s.writing : PieceOf(b) \in s.dling
    /\ \A b \in s.written : PieceOf(b) \in s.dling \cup s.local_pavail
    /\ \A p \in s.dling : p \in s.hashing <=> Blocks(p) \subseteq s.written
    /\ \A p \in s.local_pavail : /\ Blocks(p) \subseteq s.written
                                 /\ DoPiecehash => Blocks(p) \cap s.corrupt = {}

\* What a request stands for, and how many there are.
Live(s, r) ==
    /\ OpenIn(s, r[1]) /\ s.other_doauth[r[1]]
    /\ r[2] \in s.block_db
    /\ BfieldFirst => PieceOf(r[2]) \in s.remote_pavail[r[1]]

Req(s) ==
    /\ \A r \in s.pending \cup s.expired : Live(s, r)
    /\ \A b \in Block : \A c, d \in Cnx :
           <<c, b>> \in s.pending /\ <<d, b>> \in s.pending => c = d
    /\ \A c \in Cnx : Cardinality(Requests(s, c)) <= ReqNbMax

\* What a connection has before it is opened, and before its PIECE_BFIELD.
Quiet(s) ==
    /\ \A c \in Cnx : ~OpenIn(s, c) => s.remote_pavail[c] = {} /\ ~s.other_doauth[c]
    /\ BfieldFirst => \A c \in Full \ s.bfield_seen : s.remote_pavail[c] = {}

\* A server with requests is at work or about to be.
Iov(s) ==
    \A c \in Ecnx : Requests(s, c) # {} => s.wire[c] # {} \/ <<"next", c>> \in s.zerotimer

Core(s) == s \in Rec /\ Disk(s) /\ Req(s) /\ Quiet(s) /\ Iov(s)

\* How many connections offer a piece.
Offering(s, p) == {c \in Cnx : OpenIn(s, c) /\ p \in s.remote_pavail[c]}

Pfreq(s) ==
    \A p \in Piece : /\ Cardinality(Offering(s, p)) <= s.remote_pfreq[p]
                     /\ BfieldFirst => Cardinality(Offering(s, p)) = s.remote_pfreq[p]

Ok(s) == Core(s) /\ s.dling \subseteq s.needed /\ Pfreq(s)

IndInv == Ok(Cur)

\* What sending requests leaves as it is.
Frame(s, t) ==
    /\ t.full_db = s.full_db /\ t.ecnx_db = s.ecnx_db
    /\ t.remote_pavail = s.remote_pavail /\ t.other_doauth = s.other_doauth
    /\ t.bfield_seen = s.bfield_seen /\ t.remote_pfreq = s.remote_pfreq
    /\ t.needed = s.needed /\ t.local_pavail = s.local_pavail
    /\ t.hashing = s.hashing /\ t.writing = s.writing
    /\ t.written = s.written /\ t.corrupt = s.corrupt
    /\ s.zerotimer \subseteq t.zerotimer
    /\ t.dling \subseteq s.dling \cup s.needed
-----------------------------------------------------------------------------
(* Pieces, blocks and connections *)

LEMMA BlockFacts ==
    /\ \A p \in Piece : /\ Blocks(p) \subseteq Block /\ Blocks(p) # {}
                        /\ \A b \in Blocks(p) : PieceOf(b) = p /\ b[2] \in Nat
    /\ \A b \in Block : PieceOf(b) \in Piece /\ b \in Blocks(PieceOf(b))
<1>1. \A p \in Piece : NbBlock[p] \in Nat \ {0}
  BY SwarmSchedAssumption DEF Piece
<1>2. ASSUME NEW p \in Piece
      PROVE  /\ Blocks(p) \subseteq Block /\ Blocks(p) # {}
             /\ \A b \in Blocks(p) : PieceOf(b) = p /\ b[2] \in Nat
  <2>1. <<p, 1>> \in Blocks(p)
    BY <1>1 DEF Blocks
  <2>2. Blocks(p) \subseteq Block
    BY DEF Block
  <2>3. \A b \in Blocks(p) : PieceOf(b) = p /\ b[2] \in Nat
    BY <1>1 DEF Blocks, PieceOf
  <2> QED BY <2>1, <2>2, <2>3
<1>3. ASSUME NEW b \in Block PROVE PieceOf(b) \in Piece /\ b \in Blocks(PieceOf(b))
  <2>1. PICK p \in Piece : b \in Blocks(p)
    BY DEF Block
  <2> QED BY <2>1, <1>2
<1> QED BY <1>2, <1>3

LEMMA BlockFinite == IsFiniteSet(Block)
<1>1. \A p \in Piece : NbBlock[p] \in Nat \ {0}
  BY SwarmSchedAssumption DEF Piece
<1>2. Len(NbBlock) \in Nat
  BY SwarmSchedAssumption
<1>3. IsFiniteSet(Piece)
  BY <1>2, FS_Interval DEF Piece
<1>4. ASSUME NEW p \in Piece PROVE IsFiniteSet(Blocks(p))
  <2>1. IsFiniteSet({p}) /\ IsFiniteSet(1 .. NbBlock[p])
    <3>1. NbBlock[p] \in Int /\ 1 \in Int
      BY <1>1
    <3> QED BY <3>1, FS_Singleton, FS_Interval
  <2> QED BY <2>1, FS_Product DEF Blocks
<1>5. IsFiniteSet({Blocks(p) : p \in Piece})
  <2> DEFINE f == [p \in Piece |-> Blocks(p)]
             T == {Blocks(p) : p \in Piece}
  <2>1. f \in Surjection(Piece, T)
    BY DEF Surjection
  <2> QED BY <2>1, <1>3, FS_Surjection
<1> QED BY <1>4, <1>5, FS_UNION DEF Block

LEMMA CnxFacts == Full \subseteq Cnx /\ Ecnx \subseteq Cnx /\ Full \cap Ecnx = {} /\ Cnx = Full \cup Ecnx
BY SwarmSchedAssumption DEF Cnx

\* A connection has finitely many requests.
LEMMA RequestsFacts ==
    ASSUME NEW s \in Rec, NEW c \in Cnx
    PROVE  /\ Requests(s, c) \subseteq {c} \X Block
           /\ IsFiniteSet(Requests(s, c)) /\ Cardinality(Requests(s, c)) \in Nat
<1>1. Requests(s, c) \subseteq {c} \X Block
  BY DEF Rec, Requests
<1>2. IsFiniteSet({c} \X Block)
  BY BlockFinite, FS_Singleton, FS_Product
<1> QED BY <1>1, <1>2, FS_Subset, FS_CardinalityType

\* The range of a sequence is finite.
LEMMA RangeFinite ==
    ASSUME NEW T, NEW db \in Seq(T)
    PROVE  IsFiniteSet({c \in T : Member(db, c)})
<1> DEFINE R == {c \in T : Member(db, c)}
<1>1. db \in Surjection(1 .. Len(db), R)
  BY DEF Surjection, Member
<1>2. IsFiniteSet(1 .. Len(db))
  BY FS_Interval
<1> QED BY <1>1, <1>2, FS_Surjection

\* Finitely many connections are open.
LEMMA OpenFinite ==
    ASSUME NEW s \in Rec
    PROVE  IsFiniteSet({c \in Cnx : OpenIn(s, c)})
<1> DEFINE F == {c \in Full : Member(s.full_db, c)}
           E == {c \in Ecnx : Member(s.ecnx_db, c)}
<1>1. s.full_db \in Seq(Full) /\ s.ecnx_db \in Seq(Ecnx)
  BY DEF Rec
<1>2. IsFiniteSet(F) /\ IsFiniteSet(E)
  BY <1>1, RangeFinite
<1>3. IsFiniteSet(F \cup E)
  BY <1>2, FS_Union
<1>4. \A c \in Cnx : OpenIn(s, c) => c \in F \cup E
  BY <1>1 DEF OpenIn, Member
<1> QED BY <1>3, <1>4, FS_Subset

LEMMA AppendHas ==
    ASSUME NEW T, NEW k \in Seq(T), NEW x \in T
    PROVE  /\ Append(k, x) \in Seq(T)
           /\ \A d : Member(Append(k, x), d) <=> Member(k, d) \/ d = x
<1> DEFINE a == Append(k, x)
<1>1. /\ a \in Seq(T) /\ Len(a) = Len(k) + 1 /\ Len(k) \in Nat
      /\ \A i \in 1 .. Len(k) : a[i] = k[i]
      /\ a[Len(k) + 1] = x
  OBVIOUS
<1>2. DOMAIN a = 1 .. Len(a) /\ DOMAIN k = 1 .. Len(k)
  BY <1>1
<1> HIDE DEF a
<1>3. \A d : (\E i \in 1 .. Len(a) : a[i] = d) <=> (\E i \in 1 .. Len(k) : k[i] = d) \/ d = x
  <2> TAKE d
  <2>1. ASSUME NEW i \in 1 .. Len(a), a[i] = d PROVE (\E j \in 1 .. Len(k) : k[j] = d) \/ d = x
    <3>1. i \in 1 .. Len(k) \/ i = Len(k) + 1
      BY <1>1
    <3> QED BY <3>1, <2>1, <1>1
  <2>2. ASSUME NEW j \in 1 .. Len(k), k[j] = d PROVE \E i \in 1 .. Len(a) : a[i] = d
    <3>1. j \in 1 .. Len(a) /\ a[j] = d
      BY <2>2, <1>1
    <3> QED BY <3>1
  <2>3. ASSUME d = x PROVE \E i \in 1 .. Len(a) : a[i] = d
    <3>1. Len(k) + 1 \in 1 .. Len(a)
      BY <1>1
    <3> QED BY <3>1, <2>3, <1>1
  <2> QED BY <2>1, <2>2, <2>3
<1> QED BY <1>1, <1>2, <1>3 DEF a, Member

\* What a connection leaves in the list of the others.
LEMMA WithoutIs ==
    ASSUME NEW T, NEW db \in Seq(T), NEW c
    PROVE  /\ Without(db, c) \in Seq(T)
           /\ \A d : Member(Without(db, c), d) <=> Member(db, d) /\ d # c
<1> DEFINE Step(k, d) == IF d = c THEN k ELSE Append(k, d)
           P(g) == g = [n \in 0 .. Len(db) |->
                          IF n = 0 THEN <<>>
                          ELSE Step(g[n - 1], db[n])]
           keep == CHOOSE g : P(g)
           D == Seq(T)
           G == [n \in 1 .. Len(db) |-> [k \in D |-> Step(k, db[n])]]
<1>1. \A k \in D : \A d \in T : Step(k, d) \in D
  OBVIOUS
<1>2. <<>> \in D /\ Len(db) \in Nat /\ \A n \in 1 .. Len(db) : db[n] \in T
  OBVIOUS
<1> HIDE DEF D
<1>3. G \in [1 .. Len(db) -> [D -> D]] /\ \A n \in 1 .. Len(db) : \A k \in D : G[n][k] = Step(k, db[n])
  BY <1>1, <1>2
<1> HIDE DEF G
<1>a. \E f : IsRecursion(f, Len(db), D, <<>>, G)
  BY <1>2, <1>3, RecursionExists, Zenon
<1>4. PICK f \in [0 .. Len(db) -> D] : f[0] = <<>> /\ \A n \in 1 .. Len(db) : f[n] = G[n][f[n - 1]]
  BY <1>a, Zenon DEF IsRecursion
<1>5. ASSUME NEW n \in 1 .. Len(db) PROVE f[n] = Step(f[n - 1], db[n])
  <2>1. f[n - 1] \in D
    BY <1>2
  <2> QED BY <2>1, <1>3, <1>4
<1>6. Without(db, c) = keep[Len(db)]
  BY Zenon DEF Without
<1> HIDE DEF Step
<1>7. P(f)
  BY <1>4, <1>5
<1>8. P(keep)
  BY <1>7, Zenon
<1> HIDE DEF keep
<1>9. keep[0] = <<>> /\ \A n \in 1 .. Len(db) : keep[n] = Step(keep[n - 1], db[n])
  BY <1>8
<1>b. ASSUME NEW k, NEW d PROVE Step(k, d) = IF d = c THEN k ELSE Append(k, d)
  BY DEF Step
<1> DEFINE Up(n, d) == \E i \in 1 .. n : db[i] = d /\ d # c
           S == {n \in 0 .. Len(db) : keep[n] \in D /\ \A d : Member(keep[n], d) <=> Up(n, d)}
<1>10. 0 \in S
  BY <1>9, <1>2 DEF Member
<1>11. ASSUME NEW n \in 1 .. Len(db), n - 1 \in S PROVE n \in S
  <2>1. /\ keep[n - 1] \in D /\ db[n] \in T
        /\ \A d : Member(keep[n - 1], d) <=> Up(n - 1, d)
    BY <1>11, <1>2
  <2>2. CASE db[n] = c
    <3>1. keep[n] = keep[n - 1]
      BY <2>2, <1>9, <1>b
    <3>2. \A d : Up(n - 1, d) <=> Up(n, d)
      BY <2>2
    <3> HIDE DEF Up
    <3> QED BY <2>1, <3>1, <3>2
  <2>3. CASE db[n] # c
    <3>1. keep[n] = Append(keep[n - 1], db[n])
      BY <2>3, <1>9, <1>b
    <3>2. keep[n] \in Seq(T) /\ \A d : Member(keep[n], d) <=> Member(keep[n - 1], d) \/ d = db[n]
      BY <2>1, <3>1, AppendHas DEF D
    <3>4. \A d : Up(n, d) <=> Up(n - 1, d) \/ d = db[n]
      BY <2>3
    <3> HIDE DEF Up
    <3> QED BY <2>1, <3>2, <3>4 DEF D
  <2> QED BY <2>2, <2>3
<1> HIDE DEF S
<1>12. \A n \in 0 .. Len(db) : n \in S
  BY <1>2, <1>10, <1>11, RangeInduction, Zenon
<1>13. Len(db) \in S
  BY <1>2, <1>12
<1>14. keep[Len(db)] \in Seq(T) /\ \A d : Member(keep[Len(db)], d) <=> Up(Len(db), d)
  BY <1>13 DEF S, D
<1>16. \A d : Up(Len(db), d) <=> Member(db, d) /\ d # c
  BY DEF Member
<1> HIDE DEF Up
<1> QED BY <1>6, <1>14, <1>16
-----------------------------------------------------------------------------
(* try_send_request *)

LEMMA NbRequestNat ==
    ASSUME NEW s \in Rec, Req(s), NEW b
    PROVE  NbRequest(s, b) \in Nat
<1> DEFINE T == {c \in Cnx : IsReqedBy(s, b, c)}
<1>1. T \subseteq {c \in Cnx : OpenIn(s, c)}
  BY DEF Req, Live, IsReqedBy
<1>2. IsFiniteSet(T)
  BY <1>1, OpenFinite, FS_Subset
<1> QED BY <1>2, FS_CardinalityType DEF NbRequest

\* Of the candidates one has been requested the least often.
LEMMA LeastRequested ==
    ASSUME NEW s \in Rec, Req(s), NEW cand, cand # {}
    PROVE  \E b \in cand : \A d \in cand : NbRequest(s, b) <= NbRequest(s, d)
<1> DEFINE N == {NbRequest(s, b) : b \in cand}
<1>1. N \in SUBSET Nat /\ N # {}
  BY NbRequestNat
<1>2. PICK x \in N : \A y \in N : x <= y
  BY <1>1, LeastNat, Zenon
<1> QED BY <1>2

\* What may be requested of c.
Candidate(s, c, b) ==
    /\ b \notin s.writing \cup s.written
    /\ \A d \in Cnx : <<d, b>> \notin s.pending
    /\ ~IsReqedBy(s, b, c)

LEMMA NeverReqCandidate ==
    ASSUME NEW s, Req(s), NEW c \in Cnx, NEW b \in NeverReq(s)
    PROVE  Candidate(s, c, b)
BY DEF Req, Live, Candidate, NeverReq, IsReqedBy

LEMMA NeedreqCandidate ==
    ASSUME NEW s, Disk(s), NEW c \in Cnx, NEW b, BlockDoNeedreq(s, b), ~IsReqedBy(s, b, c)
    PROVE  Candidate(s, c, b)
BY DEF Disk, Candidate, BlockDoNeedreq

\* get_block_to_request returns a block the connection may be asked for.
LEMMA BlockToRequestIs ==
    ASSUME NEW s \in Rec, Disk(s), Req(s), NEW c \in Cnx, NEW p \in SelectPieceToRequest(s, c)
    PROVE  /\ p \in Piece /\ p \in s.remote_pavail[c]
           /\ p \in s.dling \cup s.needed /\ p \notin s.local_pavail
           /\ BlockToRequest(s, p, c) \in Blocks(p)
           /\ Candidate(s, c, BlockToRequest(s, p, c))
<1> DEFINE cand == {b \in Blocks(p) : BlockDoNeedreq(s, b) /\ ~IsReqedBy(s, b, c)}
           least == {b \in cand : \A d \in cand : NbRequest(s, b) <= NbRequest(s, d)}
           never == {b \in Blocks(p) : b \in NeverReq(s)}
           pool == IF cand # {} THEN least ELSE never
<1>1. \/ p \in s.dling \cap s.remote_pavail[c] /\ MayRequestBlockThru(s, p, c)
      \/ p \in (s.needed \ (s.dling \cup s.local_pavail)) \cap s.remote_pavail[c]
  BY DEF SelectPieceToRequest
<1>2. s.remote_pavail[c] \subseteq Piece
  BY DEF Rec
<1>3. p \in Piece /\ p \in s.remote_pavail[c] /\ p \in s.dling \cup s.needed /\ p \notin s.local_pavail
  BY <1>1, <1>2 DEF Disk
<1>4. Blocks(p) \subseteq Block /\ Blocks(p) # {} /\ \A b \in Blocks(p) : PieceOf(b) = p /\ b[2] \in Nat
  BY <1>3, BlockFacts
<1>5. cand # {} \/ never # {}
  <2>1. CASE p \in s.dling
    BY <1>1, <2>1 DEF MayRequestBlockThru
  <2>2. CASE p \notin s.dling
    <3>1. p \notin s.local_pavail
      BY <1>3
    <3>2. \A b \in Blocks(p) : b \notin s.block_db \cup s.writing \cup s.written
      BY <1>4, <2>2, <3>1 DEF Disk
    <3>3. \A b \in Blocks(p) : b \in NeverReq(s)
      BY <3>2, <1>4 DEF NeverReq
    <3> QED BY <3>3, <1>4
  <2> QED BY <2>1, <2>2
<1>6. cand # {} => least # {}
  <2> SUFFICES ASSUME cand # {} PROVE least # {}
    OBVIOUS
  <2> HIDE DEF cand
  <2> QED BY LeastRequested
<1>7. \A b \in cand : b \in Blocks(p) /\ Candidate(s, c, b)
  BY NeedreqCandidate
<1>8. \A b \in never : b \in Blocks(p) /\ Candidate(s, c, b)
  BY NeverReqCandidate
<1>9. BlockToRequest(s, p, c) = CHOOSE b \in pool : \A d \in pool : b[2] <= d[2]
  BY DEF BlockToRequest
<1> HIDE DEF cand, never
<1>10. pool # {} /\ \A b \in pool : b \in Blocks(p) /\ Candidate(s, c, b)
  BY <1>5, <1>6, <1>7, <1>8
<1> HIDE DEF pool, least
<1> DEFINE N == {b[2] : b \in pool}
<1>11. N \in SUBSET Nat /\ N # {}
  BY <1>4, <1>10
<1>12. PICK x \in N : \A y \in N : x <= y
  BY <1>11, LeastNat, Zenon
<1>13. \E b \in pool : \A d \in pool : b[2] <= d[2]
  BY <1>12
<1>14. BlockToRequest(s, p, c) \in pool
  BY <1>9, <1>13, Zenon
<1> QED BY <1>3, <1>10, <1>14

LEMMA RequestCtorFields ==
    ASSUME NEW s \in Rec, NEW c \in Cnx, NEW b \in Block, PieceOf(b) \in s.dling \cup s.needed
    PROVE  /\ RequestCtor(s, b, c) \in Rec
           /\ Frame(s, RequestCtor(s, b, c))
           /\ RequestCtor(s, b, c).dling = s.dling \cup {PieceOf(b)}
           /\ RequestCtor(s, b, c).block_db = s.block_db \cup {b}
           /\ RequestCtor(s, b, c).pending = s.pending \cup {<<c, b>>}
           /\ RequestCtor(s, b, c).expired = s.expired
           /\ \A d \in Cnx : s.wire[d] \subseteq RequestCtor(s, b, c).wire[d]
           /\ c \in Ecnx => <<"next", c>> \in RequestCtor(s, b, c).zerotimer
<1> DEFINE P == PieceOf(b)
           w == [s.wire EXCEPT ![c] = IF c \in Full THEN @ \cup {b} ELSE @]
           z == IF c \in Ecnx THEN s.zerotimer \cup {<<"next", c>>} ELSE s.zerotimer
           dl == s.dling \cup {P}
           bd == s.block_db \cup {b}
           pe == s.pending \cup {<<c, b>>}
           t == [s EXCEPT !.dling = dl, !.block_db = bd, !.pending = pe, !.wire = w,
                          !.zerotimer = z]
<1>1. P \in Piece
  BY BlockFacts
<1>2. s.wire \in [Cnx -> SUBSET Block] /\ s.zerotimer \in SUBSET ({"next", "kill"} \X Ecnx)
  BY DEF Rec
<1>3. w \in [Cnx -> SUBSET Block] /\ \A d \in Cnx : s.wire[d] \subseteq w[d]
  BY <1>2
<1>4. /\ z \in SUBSET ({"next", "kill"} \X Ecnx) /\ s.zerotimer \subseteq z
      /\ c \in Ecnx => <<"next", c>> \in z
  BY <1>2
<1>5. RequestCtor(s, b, c) = t
  BY DEF RequestCtor, Rec
<1>6. P \in s.dling \cup s.needed
  OBVIOUS
<1>a. dl \in SUBSET Piece /\ bd \in SUBSET Block /\ pe \in SUBSET (Cnx \X Block)
  BY <1>1 DEF Rec
<1>b. dl \subseteq s.dling \cup s.needed
  BY <1>6
<1> HIDE DEF P, w, z, dl, bd, pe
<1>7. t \in Rec
  BY <1>a, <1>3, <1>4 DEF Rec
<1>8. /\ t.dling = dl /\ t.block_db = bd
      /\ t.pending = pe /\ t.expired = s.expired
      /\ t.wire = w /\ t.zerotimer = z
  BY DEF Rec
<1>9. Frame(s, t)
  BY <1>4, <1>b DEF Rec, Frame
<1> HIDE DEF t
<1> QED BY <1>3, <1>4, <1>5, <1>7, <1>8, <1>9 DEF P, dl, bd, pe

\* A new request keeps all that is known of the scheduler.
LEMMA RequestCtorCore ==
    ASSUME NEW s, Core(s), NEW c \in Cnx, s.other_doauth[c],
           Cardinality(Requests(s, c)) < ReqNbMax,
           NEW p \in Piece, p \in s.remote_pavail[c], p \in s.dling \cup s.needed,
           p \notin s.local_pavail, NEW b \in Blocks(p), Candidate(s, c, b)
    PROVE  /\ Core(RequestCtor(s, b, c)) /\ Frame(s, RequestCtor(s, b, c))
           /\ Cardinality(Requests(RequestCtor(s, b, c), c)) <= Cardinality(Requests(s, c)) + 1
<1> DEFINE t == RequestCtor(s, b, c)
<1>1. s \in Rec /\ Disk(s) /\ Req(s) /\ Quiet(s) /\ Iov(s)
  BY DEF Core
<1>2. b \in Block /\ PieceOf(b) = p /\ \A x \in Blocks(p) : x \in Block /\ PieceOf(x) = p
  BY BlockFacts
<1>3. /\ t \in Rec /\ Frame(s, t)
      /\ t.dling = s.dling \cup {p} /\ t.block_db = s.block_db \cup {b}
      /\ t.pending = s.pending \cup {<<c, b>>} /\ t.expired = s.expired
      /\ \A d \in Cnx : s.wire[d] \subseteq t.wire[d]
      /\ c \in Ecnx => <<"next", c>> \in t.zerotimer
  BY <1>1, <1>2, RequestCtorFields
<1> HIDE DEF t
<1>4. Disk(t)
  <2>1. ASSUME p \notin s.dling PROVE b \notin s.written /\ p \notin s.hashing
    BY <2>1, <1>1, <1>2 DEF Disk
  <2>2. \A q \in t.dling : q \in t.hashing <=> Blocks(q) \subseteq t.written
    BY <2>1, <1>1, <1>3 DEF Disk, Frame
  <2>3. b \notin s.writing /\ b \notin s.written
    BY DEF Candidate
  <2> QED BY <1>1, <1>2, <1>3, <2>2, <2>3 DEF Disk, Frame
<1>5. OpenIn(s, c)
  BY <1>1 DEF Quiet
<1>6. \A d : OpenIn(t, d) <=> OpenIn(s, d)
  BY <1>3 DEF Frame, OpenIn
<1>7. \A r \in t.pending \cup t.expired : Live(t, r)
  <2> SUFFICES ASSUME NEW r \in t.pending \cup t.expired PROVE Live(t, r)
    OBVIOUS
  <2>1. CASE r = <<c, b>>
    <3>1. r[1] = c /\ r[2] = b
      BY <2>1
    <3> QED BY <3>1, <1>2, <1>3, <1>5, <1>6 DEF Live, Frame
  <2>2. CASE r # <<c, b>>
    <3>1. Live(s, r)
      BY <2>2, <1>1, <1>3 DEF Req
    <3> QED BY <3>1, <1>3, <1>6 DEF Live, Frame
  <2> QED BY <2>1, <2>2
<1>8. Requests(t, c) = Requests(s, c) \cup {<<c, b>>}
  BY <1>3 DEF Requests
<1>9. ASSUME NEW d \in Cnx, d # c PROVE Requests(t, d) = Requests(s, d)
  BY <1>3, <1>9 DEF Requests
<1>10. Cardinality(Requests(t, c)) <= Cardinality(Requests(s, c)) + 1
  <2>1. IsFiniteSet(Requests(s, c)) /\ Cardinality(Requests(s, c)) \in Nat
    BY <1>1, RequestsFacts
  <2>2. Cardinality(Requests(t, c)) = Cardinality(Requests(s, c)) \/ Cardinality(Requests(t, c)) = Cardinality(Requests(s, c)) + 1
    BY <2>1, <1>8, FS_AddElement
  <2> QED BY <2>1, <2>2
<1>11. Req(t)
  <2>1. \A d \in Cnx : Cardinality(Requests(t, d)) <= ReqNbMax
    <3>1. Cardinality(Requests(t, c)) <= ReqNbMax
      <4>1. Cardinality(Requests(s, c)) \in Nat /\ Cardinality(Requests(t, c)) \in Nat /\ ReqNbMax \in Nat
        BY <1>1, <1>3, RequestsFacts, SwarmSchedAssumption
      <4> QED BY <4>1, <1>10
    <3> QED BY <3>1, <1>1, <1>9 DEF Req
  <2>2. \A x \in Block : \A d, e \in Cnx : <<d, x>> \in t.pending /\ <<e, x>> \in t.pending => d = e
    <3>1. \A d \in Cnx : <<d, b>> \notin s.pending
      BY DEF Candidate
    <3>2. \A x \in Block : \A d, e \in Cnx : <<d, x>> \in s.pending /\ <<e, x>> \in s.pending => d = e
      BY <1>1 DEF Req
    <3> QED BY <3>1, <3>2, <1>3
  <2> QED BY <1>7, <2>1, <2>2 DEF Req
<1>12. Quiet(t)
  BY <1>1, <1>3, <1>6 DEF Quiet, Frame
<1>13. Iov(t)
  BY <1>1, <1>3, <1>9, CnxFacts DEF Iov, Frame
<1>14. Core(t)
  BY <1>3, <1>4, <1>11, <1>12, <1>13 DEF Core
<1> QED BY <1>14, <1>3, <1>10 DEF t

LEMMA FrameRefl == ASSUME NEW s \in Rec PROVE Frame(s, s)
BY DEF Frame

LEMMA FrameTrans ==
    ASSUME NEW s, NEW t, NEW u, Frame(s, t), Frame(t, u)
    PROVE  Frame(s, u)
BY DEF Frame

\* One turn of try_send_request.
LEMMA RequestOneCore ==
    ASSUME NEW s, Core(s), NEW c \in Cnx, s.other_doauth[c],
           Cardinality(Requests(s, c)) < ReqNbMax, NEW t \in RequestOne(s, c)
    PROVE  /\ Core(t) /\ Frame(s, t)
           /\ Cardinality(Requests(t, c)) <= Cardinality(Requests(s, c)) + 1
<1>1. s \in Rec /\ Disk(s) /\ Req(s)
  BY DEF Core
<1>2. Cardinality(Requests(s, c)) \in Nat
  BY <1>1, RequestsFacts
<1>3. CASE SelectPieceToRequest(s, c) = {}
  <2>1. t = s
    BY <1>3 DEF RequestOne
  <2> QED BY <2>1, <1>1, <1>2, FrameRefl
<1>4. CASE SelectPieceToRequest(s, c) # {}
  <2>1. PICK p \in SelectPieceToRequest(s, c) : t = RequestCtor(s, BlockToRequest(s, p, c), c)
    BY <1>4 DEF RequestOne
  <2> DEFINE b == BlockToRequest(s, p, c)
  <2>2. /\ p \in Piece /\ p \in s.remote_pavail[c]
        /\ p \in s.dling \cup s.needed /\ p \notin s.local_pavail
        /\ b \in Blocks(p) /\ Candidate(s, c, b)
    BY <1>1, BlockToRequestIs
  <2> HIDE DEF b
  <2>3. t = RequestCtor(s, b, c)
    BY <2>1 DEF b
  <2> QED BY <2>2, <2>3, RequestCtorCore
<1> QED BY <1>3, <1>4

\* f is a walk through sets of states that X[n] bounds at its n-th step.
IsWalk(f, N, R, X, s0, G) ==
    /\ f \in [0 .. N -> SUBSET R]
    /\ f[0] = {s0}
    /\ \A n \in 1 .. N : f[n] = UNION {G[n][t] : t \in f[n - 1]}
    /\ \A n \in 0 .. N : f[n] \subseteq X[n]

LEMMA WalkExists ==
    ASSUME NEW N \in Nat, NEW R, NEW X \in [0 .. N -> SUBSET R], NEW s0, s0 \in X[0],
           NEW G \in [1 .. N -> [R -> SUBSET R]],
           \A n \in 1 .. N : \A t \in X[n - 1] : G[n][t] \subseteq X[n]
    PROVE  \E f : IsWalk(f, N, R, X, s0, G)
<1> DEFINE D == SUBSET R
           Step(n, A) == UNION {G[n][t] : t \in A}
           H == [n \in 1 .. N |-> [A \in D |-> Step(n, A)]]
<1>1. \A n \in 1 .. N : \A A \in D : Step(n, A) \in D
  OBVIOUS
<1>2. {s0} \in D
  <2>1. 0 \in 0 .. N
    OBVIOUS
  <2> QED BY <2>1
<1> HIDE DEF Step, D
<1>3. H \in [1 .. N -> [D -> D]] /\ \A n \in 1 .. N : \A A \in D : H[n][A] = Step(n, A)
  BY <1>1
<1> HIDE DEF H
<1>a. \E f : IsRecursion(f, N, D, {s0}, H)
  BY <1>2, <1>3, RecursionExists, Zenon
<1>4. PICK f \in [0 .. N -> D] : f[0] = {s0} /\ \A n \in 1 .. N : f[n] = H[n][f[n - 1]]
  BY <1>a, Zenon DEF IsRecursion
<1>5. ASSUME NEW n \in 1 .. N PROVE f[n] = Step(n, f[n - 1])
  <2>1. n - 1 \in 0 .. N
    OBVIOUS
  <2>2. f[n - 1] \in D
    BY <2>1
  <2> QED BY <2>2, <1>3, <1>4
<1> DEFINE S == {n \in 0 .. N : f[n] \subseteq X[n]}
<1>6. 0 \in S
  BY <1>4
<1>7. ASSUME NEW n \in 1 .. N, n - 1 \in S PROVE n \in S
  <2>1. f[n - 1] \subseteq X[n - 1]
    BY <1>7
  <2>2. \A t \in f[n - 1] : G[n][t] \subseteq X[n]
    BY <2>1
  <2>3. Step(n, f[n - 1]) \subseteq X[n]
    BY <2>2 DEF Step
  <2> QED BY <2>3, <1>5
<1> HIDE DEF S
<1>8. \A n \in 0 .. N : n \in S
  BY <1>6, <1>7, RangeInduction, Zenon
<1>9. \A n \in 0 .. N : f[n] \subseteq X[n]
  BY <1>8 DEF S
<1> QED BY <1>4, <1>5, <1>9 DEF D, Step, IsWalk

LEMMA WalkStep ==
    ASSUME NEW N \in Nat, NEW R, NEW X, NEW s0, NEW G, NEW f, IsWalk(f, N, R, X, s0, G),
           NEW n \in 1 .. N
    PROVE  f[n - 1] \subseteq X[n - 1] /\ f[n] = UNION {G[n][t] : t \in f[n - 1]}
<1>1. n - 1 \in 0 .. N
  OBVIOUS
<1> QED BY <1>1, Zenon DEF IsWalk

\* try_send_request, for any length of the queue.
LEMMA FillQueueCore ==
    ASSUME NEW s, Core(s), NEW c \in Cnx, s.other_doauth[c], NEW nbMax \in 1 .. ReqNbMax,
           NEW t \in FillQueue(s, c, nbMax)
    PROVE  Core(t) /\ Frame(s, t)
<1> DEFINE k == Cardinality(Requests(s, c))
           room == IF k < nbMax THEN nbMax - k ELSE 0
           P(g) == g = [n \in 0 .. room |->
                          IF n = 0 THEN {s} ELSE UNION {RequestOne(u, c) : u \in g[n - 1]}]
           turn == CHOOSE g : P(g)
           Good(n) == {u \in Rec : /\ Core(u) /\ Frame(s, u)
                                   /\ Cardinality(Requests(u, c)) <= k + n}
           X == [n \in 0 .. room |-> Good(n)]
           G == [n \in 1 .. room |-> [u \in Rec |-> IF u \in Good(n - 1) THEN RequestOne(u, c) ELSE {}]]
<1>1. t \in turn[room]
  BY Zenon DEF FillQueue
<1>2. s \in Rec /\ k \in Nat
  BY RequestsFacts DEF Core
<1>3. ReqNbMax \in Nat
  BY SwarmSchedAssumption
<1> HIDE DEF k
<1>4. room \in Nat /\ \A n \in 1 .. room : n - 1 \in 0 .. room /\ k + (n - 1) < ReqNbMax
  BY <1>2, <1>3
<1> HIDE DEF room
<1>5. s \in Good(0)
  <2>1. Cardinality(Requests(s, c)) <= k + 0
    BY <1>2 DEF k
  <2> QED BY <1>2, <2>1, FrameRefl
<1>6. ASSUME NEW n \in 1 .. room, NEW u \in Good(n - 1), NEW v \in RequestOne(u, c) PROVE v \in Good(n)
  <2>1. u \in Rec /\ Core(u) /\ Frame(s, u) /\ Cardinality(Requests(u, c)) <= k + (n - 1)
    OBVIOUS
  <2>2. u.other_doauth[c]
    BY <2>1 DEF Frame
  <2>3. Cardinality(Requests(u, c)) \in Nat
    BY <2>1, RequestsFacts
  <2>4. Cardinality(Requests(u, c)) < ReqNbMax
    BY <2>1, <2>3, <1>4, <1>3, <1>2
  <2>5. Core(v) /\ Frame(u, v) /\ Cardinality(Requests(v, c)) <= Cardinality(Requests(u, c)) + 1
    BY <2>1, <2>2, <2>4, RequestOneCore
  <2>6. v \in Rec /\ Frame(s, v)
    BY <2>1, <2>5, FrameTrans DEF Core
  <2>7. Cardinality(Requests(v, c)) \in Nat
    BY <2>6, RequestsFacts
  <2>8. Cardinality(Requests(v, c)) <= k + n
    BY <2>1, <2>3, <2>5, <2>7, <1>2
  <2> QED BY <2>5, <2>6, <2>8
<1>7. \A n \in 0 .. room : Good(n) \subseteq Rec
  OBVIOUS
<1> HIDE DEF Good
<1>8. X \in [0 .. room -> SUBSET Rec] /\ s \in X[0] /\ \A n \in 0 .. room : X[n] = Good(n)
  BY <1>4, <1>5, <1>7
<1>9. /\ G \in [1 .. room -> [Rec -> SUBSET Rec]]
      /\ \A n \in 1 .. room : \A u \in X[n - 1] : G[n][u] \subseteq X[n]
      /\ \A n \in 1 .. room : \A u \in X[n - 1] : u \in Rec /\ G[n][u] = RequestOne(u, c)
  <2> DEFINE H(n) == [u \in Rec |-> IF u \in Good(n - 1) THEN RequestOne(u, c) ELSE {}]
  <2>1. ASSUME NEW n \in 1 .. room
        PROVE  H(n) \in [Rec -> SUBSET Rec] /\ \A u \in Good(n - 1) : u \in Rec /\ H(n)[u] = RequestOne(u, c)
    <3>1. n \in 0 .. room /\ n - 1 \in 0 .. room
      BY <1>4
    <3>2. Good(n) \subseteq Rec /\ Good(n - 1) \subseteq Rec
      BY <3>1, <1>7
    <3>3. \A u \in Good(n - 1) : RequestOne(u, c) \subseteq Rec
      BY <3>2, <1>6
    <3> QED BY <3>2, <3>3
  <2>2. \A n \in 1 .. room : X[n - 1] = Good(n - 1) /\ X[n] = Good(n)
    BY <1>4, <1>8
  <2> HIDE DEF X
  <2>3. G = [n \in 1 .. room |-> H(n)]
    OBVIOUS
  <2> HIDE DEF H, G
  <2>4. G \in [1 .. room -> [Rec -> SUBSET Rec]] /\ \A n \in 1 .. room : G[n] = H(n)
    BY <2>1, <2>3
  <2>5. \A n \in 1 .. room : \A u \in X[n - 1] : u \in Rec /\ G[n][u] = RequestOne(u, c)
    BY <2>1, <2>2, <2>4
  <2>6. \A n \in 1 .. room : \A u \in X[n - 1] : G[n][u] \subseteq X[n]
    BY <2>2, <2>5, <1>6
  <2> QED BY <2>4, <2>5, <2>6
<1> HIDE DEF X, G
<1>10. PICK f \in [0 .. room -> SUBSET Rec] :
              /\ f[0] = {s}
              /\ \A n \in 1 .. room : f[n] = UNION {G[n][u] : u \in f[n - 1]}
              /\ \A n \in 0 .. room : f[n] \subseteq X[n]
  <2>1. \E f : IsWalk(f, room, Rec, X, s, G)
    BY <1>4, <1>8, <1>9, WalkExists, Zenon
  <2> QED BY <2>1, Zenon DEF IsWalk
<1>11. ASSUME NEW n \in 1 .. room PROVE f[n] = UNION {RequestOne(u, c) : u \in f[n - 1]}
  <2>1. f[n - 1] \subseteq X[n - 1]
    BY <1>4, <1>10
  <2> QED BY <2>1, <1>9, <1>10
<1>12. P(f)
  BY <1>10, <1>11
<1>13. P(turn)
  BY <1>12, Zenon
<1> HIDE DEF turn
<1>14. turn[0] = {s} /\ \A n \in 1 .. room : turn[n] = UNION {RequestOne(u, c) : u \in turn[n - 1]}
  BY <1>4, <1>13
<1> DEFINE S == {n \in 0 .. room : turn[n] \subseteq Good(n)}
<1>15. 0 \in S
  BY <1>4, <1>5, <1>14
<1>16. ASSUME NEW n \in 1 .. room, n - 1 \in S PROVE n \in S
  BY <1>6, <1>14, <1>16
<1> HIDE DEF S
<1>17. \A n \in 0 .. room : n \in S
  BY <1>4, <1>15, <1>16, RangeInduction, Zenon
<1>18. t \in Good(room)
  BY <1>1, <1>4, <1>17 DEF S
<1> QED BY <1>18 DEF Good

LEMMA TrySendRequestCore ==
    ASSUME NEW s, Core(s), NEW c \in Cnx, NEW t \in TrySendRequest(s, c)
    PROVE  Core(t) /\ Frame(s, t)
<1>1. CASE ~s.other_doauth[c]
  <2>1. t = s
    BY <1>1 DEF TrySendRequest
  <2> QED BY <2>1, FrameRefl DEF Core
<1>2. CASE s.other_doauth[c]
  <2>1. PICK n \in 1 .. ReqNbMax : t \in FillQueue(s, c, n)
    BY <1>2 DEF TrySendRequest
  <2> QED BY <2>1, <1>2, FillQueueCore
<1> QED BY <1>1, <1>2

\* try_send_request_on_idle_cnx
LEMMA IdleCnxCore ==
    ASSUME NEW s, Core(s), NEW t \in TrySendRequestOnIdleCnx(s)
    PROVE  Core(t) /\ Frame(s, t)
<1> DEFINE db == s.ecnx_db \o s.full_db
           N == Len(db)
           Step(u, d) == IF Requests(u, d) # {} THEN {u} ELSE TrySendRequest(u, d)
           P(g) == g = [n \in 0 .. N |->
                          IF n = 0 THEN {s} ELSE UNION {Step(u, db[n]) : u \in g[n - 1]}]
           walk == CHOOSE g : P(g)
           Good == {u \in Rec : Core(u) /\ Frame(s, u)}
           X == [n \in 0 .. N |-> Good]
           G == [n \in 1 .. N |-> [u \in Rec |-> IF u \in Good THEN Step(u, db[n]) ELSE {}]]
<1>1. t \in walk[N]
  BY Zenon DEF TrySendRequestOnIdleCnx
<1>2. s \in Good
  BY FrameRefl DEF Core
<1>3. N \in Nat /\ \A n \in 1 .. N : db[n] \in Cnx
  <2>1. s.ecnx_db \in Seq(Cnx) /\ s.full_db \in Seq(Cnx)
    BY CnxFacts DEF Core, Rec
  <2>2. db \in Seq(Cnx)
    BY <2>1
  <2> HIDE DEF db
  <2> QED BY <2>2
<1> HIDE DEF db, N
<1>4. ASSUME NEW n \in 1 .. N, NEW u \in Good PROVE Step(u, db[n]) \subseteq Good
  <2> SUFFICES ASSUME NEW v \in Step(u, db[n]) PROVE v \in Good
    OBVIOUS
  <2>1. u \in Rec /\ Core(u) /\ Frame(s, u) /\ db[n] \in Cnx
    BY <1>3
  <2>2. Core(v) /\ Frame(u, v)
    BY <2>1, TrySendRequestCore, FrameRefl
  <2>3. Frame(s, v) /\ v \in Rec
    BY <2>1, <2>2, FrameTrans DEF Core
  <2> QED BY <2>2, <2>3
<1>5. Good \subseteq Rec
  OBVIOUS
<1> HIDE DEF Good, Step
<1>6. X \in [0 .. N -> SUBSET Rec] /\ s \in X[0] /\ \A n \in 0 .. N : X[n] = Good
  BY <1>2, <1>3, <1>5
<1>7. /\ G \in [1 .. N -> [Rec -> SUBSET Rec]]
      /\ \A n \in 1 .. N : \A u \in Good : u \in Rec /\ G[n][u] = Step(u, db[n])
  BY <1>4, <1>5
<1>8. \A n \in 1 .. N : X[n] = Good /\ X[n - 1] = Good
  BY <1>3, <1>6
<1> HIDE DEF X, G
<1>9. \A n \in 1 .. N : \A u \in X[n - 1] : G[n][u] \subseteq X[n]
  BY <1>4, <1>7, <1>8
<1>10. \E f : IsWalk(f, N, Rec, X, s, G)
  BY <1>3, <1>6, <1>7, <1>9, WalkExists, Zenon
<1>11. PICK f : IsWalk(f, N, Rec, X, s, G)
  BY <1>10
<1>12. ASSUME NEW n \in 1 .. N PROVE f[n] = UNION {Step(u, db[n]) : u \in f[n - 1]}
  <2>1. f[n - 1] \subseteq X[n - 1] /\ f[n] = UNION {G[n][u] : u \in f[n - 1]}
    BY <1>3, <1>11, WalkStep
  <2> QED BY <2>1, <1>7, <1>8
<1>13. P(f)
  BY <1>11, <1>12 DEF IsWalk
<1>14. P(walk)
  BY <1>13, Zenon
<1> HIDE DEF walk
<1>15. walk[0] = {s} /\ \A n \in 1 .. N : walk[n] = UNION {Step(u, db[n]) : u \in walk[n - 1]}
  <2>1. 0 \in 0 .. N /\ \A n \in 1 .. N : n \in 0 .. N /\ n # 0
    BY <1>3
  <2>2. \A n \in 0 .. N : walk[n] = IF n = 0 THEN {s} ELSE UNION {Step(u, db[n]) : u \in walk[n - 1]}
    BY <1>14, Zenon
  <2> QED BY <2>1, <2>2
<1> DEFINE S == {n \in 0 .. N : walk[n] \subseteq Good}
<1>16. 0 \in S
  BY <1>2, <1>3, <1>15
<1>17. ASSUME NEW n \in 1 .. N, n - 1 \in S PROVE n \in S
  BY <1>4, <1>15, <1>17
<1> HIDE DEF S
<1>18. \A n \in 0 .. N : n \in S
  BY <1>3, <1>16, <1>17, RangeInduction, Zenon
<1>19. t \in Good
  BY <1>1, <1>3, <1>18 DEF S
<1> QED BY <1>19 DEF Good

\* What a request leaves as it is says that the rest of the invariant stays.
LEMMA FrameOk ==
    ASSUME NEW s, NEW t, Frame(s, t), Core(t)
    PROVE  /\ Pfreq(s) => Pfreq(t)
           /\ s.dling \subseteq s.needed => t.dling \subseteq t.needed
           /\ Ok(s) => Ok(t)
<1>1. \A p : Offering(t, p) = Offering(s, p)
  BY DEF Frame, Offering, OpenIn
<1>2. Pfreq(s) => Pfreq(t)
  BY <1>1 DEF Frame, Pfreq
<1>3. s.dling \subseteq s.needed => t.dling \subseteq t.needed
  BY DEF Frame
<1> QED BY <1>2, <1>3 DEF Ok
-----------------------------------------------------------------------------
(* What the destructors leave *)

\* The connections are the same.
SameCnx(s, t) ==
    /\ t.full_db = s.full_db /\ t.ecnx_db = s.ecnx_db
    /\ t.remote_pavail = s.remote_pavail /\ t.other_doauth = s.other_doauth
    /\ t.bfield_seen = s.bfield_seen /\ t.remote_pfreq = s.remote_pfreq

\* The pieces and what is on the disk are the same.
SameDisk(s, t) ==
    /\ t.needed = s.needed /\ t.local_pavail = s.local_pavail
    /\ t.dling = s.dling /\ t.hashing = s.hashing /\ t.block_db = s.block_db
    /\ t.writing = s.writing /\ t.written = s.written /\ t.corrupt = s.corrupt

LEMMA SameDiskDisk == ASSUME NEW s, NEW t, Disk(s), SameDisk(s, t) PROVE Disk(t)
BY DEF SameDisk, Disk

LEMMA SameCnxFacts ==
    ASSUME NEW s, NEW t, SameCnx(s, t)
    PROVE  /\ \A c : OpenIn(t, c) <=> OpenIn(s, c)
           /\ Quiet(s) => Quiet(t)
           /\ Pfreq(s) => Pfreq(t)
<1>1. \A c : OpenIn(t, c) <=> OpenIn(s, c)
  BY DEF SameCnx, OpenIn
<1>2. Quiet(s) => Quiet(t)
  BY <1>1 DEF SameCnx, Quiet
<1>3. \A p : Offering(t, p) = Offering(s, p)
  BY <1>1 DEF SameCnx, Offering
<1>4. Pfreq(s) => Pfreq(t)
  BY <1>3 DEF SameCnx, Pfreq
<1> QED BY <1>1, <1>2, <1>4

\* Fewer requests are within the limits.
LEMMA FewerRequests ==
    ASSUME NEW s \in Rec, NEW t \in Rec, Req(s),
           t.pending \subseteq s.pending, t.pending \cup t.expired \subseteq s.pending \cup s.expired,
           \A r \in t.pending \cup t.expired : Live(t, r)
    PROVE  Req(t) /\ \A c : Requests(t, c) \subseteq Requests(s, c)
<1>1. \A c : Requests(t, c) \subseteq Requests(s, c)
  BY DEF Requests
<1>2. ASSUME NEW c \in Cnx PROVE Cardinality(Requests(t, c)) <= ReqNbMax
  <2>1. IsFiniteSet(Requests(s, c)) /\ Cardinality(Requests(s, c)) \in Nat /\ Cardinality(Requests(t, c)) \in Nat
    BY RequestsFacts
  <2>2. Cardinality(Requests(t, c)) <= Cardinality(Requests(s, c))
    BY <1>1, <2>1, FS_Subset
  <2>3. Cardinality(Requests(s, c)) <= ReqNbMax /\ ReqNbMax \in Nat
    BY SwarmSchedAssumption DEF Req
  <2> QED BY <2>1, <2>2, <2>3
<1>3. \A b \in Block : \A c, d \in Cnx : <<c, b>> \in t.pending /\ <<d, b>> \in t.pending => c = d
  <2>1. \A b \in Block : \A c, d \in Cnx : <<c, b>> \in s.pending /\ <<d, b>> \in s.pending => c = d
    BY DEF Req
  <2> QED BY <2>1
<1> QED BY <1>1, <1>2, <1>3 DEF Req

LEMMA DeleteRequestsFields ==
    ASSUME NEW s \in Rec, NEW R
    PROVE  /\ DeleteRequests(s, R) \in Rec
           /\ SameCnx(s, DeleteRequests(s, R)) /\ SameDisk(s, DeleteRequests(s, R))
           /\ DeleteRequests(s, R).pending = s.pending \ R
           /\ DeleteRequests(s, R).expired = s.expired \ R
           /\ DeleteRequests(s, R).wire = s.wire
           /\ s.zerotimer \subseteq DeleteRequests(s, R).zerotimer
<1> DEFINE pe == s.pending \ R
           ex == s.expired \ R
           idle == {c \in Ecnx : Requests(s, c) # {} /\ Requests(s, c) \subseteq R}
           z == s.zerotimer \cup {<<"kill", c>> : c \in idle}
           t == [s EXCEPT !.pending = pe, !.expired = ex, !.zerotimer = z]
<1>1. pe \in SUBSET (Cnx \X Block) /\ ex \in SUBSET (Cnx \X Block)
  BY DEF Rec
<1>2. s.zerotimer \in SUBSET ({"next", "kill"} \X Ecnx)
  BY DEF Rec
<1>3. z \in SUBSET ({"next", "kill"} \X Ecnx) /\ s.zerotimer \subseteq z
  BY <1>2
<1>4. DeleteRequests(s, R) = t
  BY DEF DeleteRequests, Rec
<1> HIDE DEF pe, ex, z
<1>5. t \in Rec
  BY <1>1, <1>3 DEF Rec
<1>6. t.pending = pe /\ t.expired = ex /\ t.zerotimer = z /\ t.wire = s.wire
  BY DEF Rec
<1>7. SameCnx(s, t) /\ SameDisk(s, t)
  BY DEF Rec, SameCnx, SameDisk
<1> HIDE DEF t
<1> QED BY <1>3, <1>4, <1>5, <1>6, <1>7 DEF pe, ex

\* The destructors of requests.
LEMMA DeleteRequestsCore ==
    ASSUME NEW s, Core(s), NEW R
    PROVE  Core(DeleteRequests(s, R)) /\ (Pfreq(s) => Pfreq(DeleteRequests(s, R)))
<1> DEFINE t == DeleteRequests(s, R)
<1>1. s \in Rec /\ Disk(s) /\ Req(s) /\ Quiet(s) /\ Iov(s)
  BY DEF Core
<1>2. /\ t \in Rec /\ SameCnx(s, t) /\ SameDisk(s, t)
      /\ t.pending = s.pending \ R /\ t.expired = s.expired \ R
      /\ t.wire = s.wire /\ s.zerotimer \subseteq t.zerotimer
  BY <1>1, DeleteRequestsFields
<1> HIDE DEF t
<1>3. /\ \A c : OpenIn(t, c) <=> OpenIn(s, c)
      /\ Quiet(t) /\ (Pfreq(s) => Pfreq(t)) /\ Disk(t)
  BY <1>1, <1>2, SameCnxFacts, SameDiskDisk
<1>4. \A r \in t.pending \cup t.expired : Live(t, r)
  BY <1>1, <1>2, <1>3 DEF Req, Live, SameCnx, SameDisk
<1>5. Req(t) /\ \A c : Requests(t, c) \subseteq Requests(s, c)
  BY <1>1, <1>2, <1>4, FewerRequests
<1>6. Iov(t)
  BY <1>1, <1>2, <1>5 DEF Iov
<1> QED BY <1>2, <1>3, <1>5, <1>6 DEF Core, t

LEMMA DeletePiecesFields ==
    ASSUME NEW s \in Rec, NEW P \in SUBSET Piece
    PROVE  LET t == DeletePieces(s, P)
               B == UNION {Blocks(p) : p \in P}
           IN  /\ t \in Rec /\ SameCnx(s, t)
               /\ t.needed = s.needed /\ t.local_pavail = s.local_pavail
               /\ t.dling = s.dling \ P /\ t.hashing = s.hashing \ P
               /\ t.block_db = s.block_db \ B /\ t.writing = s.writing \ B
               /\ t.written = s.written \ B /\ t.corrupt = s.corrupt \ B
               /\ t.pending = s.pending \ (Cnx \X B) /\ t.expired = s.expired \ (Cnx \X B)
               /\ t.wire = s.wire /\ s.zerotimer \subseteq t.zerotimer
<1> DEFINE B == UNION {Blocks(p) : p \in P}
           u == DeleteRequests(s, Cnx \X B)
           t == [u EXCEPT !.dling = @ \ P, !.hashing = @ \ P, !.block_db = @ \ B,
                          !.writing = @ \ B, !.written = @ \ B, !.corrupt = @ \ B]
<1>1. DeletePieces(s, P) = t
  BY DEF DeletePieces
<1> HIDE DEF B
<1>2. /\ u \in Rec /\ SameCnx(s, u) /\ SameDisk(s, u)
      /\ u.pending = s.pending \ (Cnx \X B) /\ u.expired = s.expired \ (Cnx \X B)
      /\ u.wire = s.wire /\ s.zerotimer \subseteq u.zerotimer
  BY DeleteRequestsFields
<1> HIDE DEF u
<1>3. t \in Rec
  BY <1>2 DEF Rec
<1>4. /\ t.dling = u.dling \ P /\ t.hashing = u.hashing \ P
      /\ t.block_db = u.block_db \ B /\ t.writing = u.writing \ B
      /\ t.written = u.written \ B /\ t.corrupt = u.corrupt \ B
      /\ t.needed = u.needed /\ t.local_pavail = u.local_pavail
      /\ t.pending = u.pending /\ t.expired = u.expired
      /\ t.wire = u.wire /\ t.zerotimer = u.zerotimer
      /\ SameCnx(u, t)
  BY <1>2 DEF Rec, SameCnx
<1> HIDE DEF t
<1>5. SameCnx(s, t)
  BY <1>2, <1>4 DEF SameCnx
<1> QED BY <1>1, <1>2, <1>3, <1>4, <1>5 DEF B, SameDisk

\* The destructors of pieces that are being downloaded.
LEMMA DeletePiecesCore ==
    ASSUME NEW s, Core(s), NEW P, P \subseteq s.dling
    PROVE  /\ Core(DeletePieces(s, P)) /\ (Pfreq(s) => Pfreq(DeletePieces(s, P)))
           /\ DeletePieces(s, P).dling = s.dling \ P
           /\ DeletePieces(s, P).needed = s.needed
           /\ DeletePieces(s, P).local_pavail = s.local_pavail
           /\ \A b \in s.written \ DeletePieces(s, P).written : PieceOf(b) \in P
<1> DEFINE t == DeletePieces(s, P)
           B == UNION {Blocks(p) : p \in P}
<1>1. s \in Rec /\ Disk(s) /\ Req(s) /\ Quiet(s) /\ Iov(s)
  BY DEF Core
<1>2. P \in SUBSET Piece
  BY <1>1 DEF Rec
<1>3. /\ t \in Rec /\ SameCnx(s, t)
      /\ t.needed = s.needed /\ t.local_pavail = s.local_pavail
      /\ t.dling = s.dling \ P /\ t.hashing = s.hashing \ P
      /\ t.block_db = s.block_db \ B /\ t.writing = s.writing \ B
      /\ t.written = s.written \ B /\ t.corrupt = s.corrupt \ B
      /\ t.pending = s.pending \ (Cnx \X B) /\ t.expired = s.expired \ (Cnx \X B)
      /\ t.wire = s.wire /\ s.zerotimer \subseteq t.zerotimer
  BY <1>1, <1>2, DeletePiecesFields
<1>4. \A b \in Block : b \in B <=> PieceOf(b) \in P
  BY <1>2, BlockFacts
<1> HIDE DEF t, B
<1>5. /\ s.block_db \subseteq Block /\ s.writing \subseteq Block /\ s.written \subseteq Block
      /\ s.corrupt \subseteq Block /\ s.dling \subseteq Piece /\ s.local_pavail \subseteq Piece
      /\ s.pending \subseteq Cnx \X Block /\ s.expired \subseteq Cnx \X Block
  BY <1>1 DEF Rec
<1>6. Disk(t)
  <2>1. \A p \in s.dling \ P : Blocks(p) \subseteq s.written \ B <=> Blocks(p) \subseteq s.written
    BY <1>4, <1>5, BlockFacts
  <2>2. \A p \in t.dling : p \in t.hashing <=> Blocks(p) \subseteq t.written
    BY <2>1, <1>1, <1>3 DEF Disk
  <2>3. \A p \in s.local_pavail : p \notin P
    BY <1>1 DEF Disk
  <2>4. \A p \in t.local_pavail : /\ Blocks(p) \subseteq t.written
                                  /\ DoPiecehash => Blocks(p) \cap t.corrupt = {}
    <3> SUFFICES ASSUME NEW p \in t.local_pavail
                 PROVE  /\ Blocks(p) \subseteq t.written
                        /\ DoPiecehash => Blocks(p) \cap t.corrupt = {}
      OBVIOUS
    <3>1. Blocks(p) \subseteq s.written /\ (DoPiecehash => Blocks(p) \cap s.corrupt = {})
      BY <1>1, <1>3 DEF Disk
    <3>2. Blocks(p) \cap B = {}
      BY <2>3, <1>3, <1>4, <1>5, BlockFacts
    <3> QED BY <3>1, <3>2, <1>3
  <2>5. \A b \in t.block_db \cup t.writing : PieceOf(b) \in t.dling
    BY <1>1, <1>3, <1>4, <1>5 DEF Disk
  <2>6. \A b \in t.written : PieceOf(b) \in t.dling \cup t.local_pavail
    BY <1>1, <1>3, <1>4, <1>5 DEF Disk
  <2> QED BY <1>1, <1>3, <2>2, <2>4, <2>5, <2>6 DEF Disk
<1>7. /\ \A c : OpenIn(t, c) <=> OpenIn(s, c)
      /\ Quiet(t) /\ (Pfreq(s) => Pfreq(t))
  BY <1>1, <1>3, SameCnxFacts
<1>8. \A r \in t.pending \cup t.expired : Live(t, r)
  <2> SUFFICES ASSUME NEW r \in t.pending \cup t.expired PROVE Live(t, r)
    OBVIOUS
  <2>1. Live(s, r) /\ r[2] \notin B
    BY <1>1, <1>3, <1>5 DEF Req
  <2> QED BY <2>1, <1>3, <1>7 DEF Live, SameCnx
<1>9. Req(t) /\ \A c : Requests(t, c) \subseteq Requests(s, c)
  BY <1>1, <1>3, <1>8, FewerRequests
<1>10. Iov(t)
  BY <1>1, <1>3, <1>9 DEF Iov
<1>11. \A b \in s.written \ t.written : PieceOf(b) \in P
  BY <1>3, <1>4, <1>5
<1> QED BY <1>3, <1>6, <1>7, <1>9, <1>10, <1>11 DEF Core, t

LEMMA CnxDtorFields ==
    ASSUME NEW s \in Rec, NEW c \in Cnx
    PROVE  LET t == CnxDtor(s, c)
           IN  /\ t \in Rec /\ SameDisk(s, t)
               /\ \A d : OpenIn(t, d) <=> OpenIn(s, d) /\ d # c
               /\ t.remote_pavail[c] = {} /\ ~t.other_doauth[c]
               /\ \A d \in Cnx \ {c} : /\ t.remote_pavail[d] = s.remote_pavail[d]
                                       /\ t.other_doauth[d] = s.other_doauth[d]
                                       /\ t.wire[d] = s.wire[d]
               /\ t.bfield_seen = s.bfield_seen \ {c} /\ t.remote_pfreq = s.remote_pfreq
               /\ t.pending = s.pending \ Requests(s, c) /\ t.expired = s.expired \ Requests(s, c)
               /\ \A d \in Ecnx \ {c} : <<"next", d>> \in s.zerotimer => <<"next", d>> \in t.zerotimer
<1> DEFINE u == DeleteRequests(s, Requests(s, c))
           fd == Without(u.full_db, c)
           ed == Without(u.ecnx_db, c)
           rp == [u.remote_pavail EXCEPT ![c] = {}]
           od == [u.other_doauth EXCEPT ![c] = FALSE]
           bs == u.bfield_seen \ {c}
           w == [u.wire EXCEPT ![c] = {}]
           z == {x \in u.zerotimer : x[2] # c}
           t == [u EXCEPT !.full_db = fd, !.ecnx_db = ed, !.remote_pavail = rp,
                          !.other_doauth = od, !.bfield_seen = bs, !.wire = w, !.zerotimer = z]
<1>1. /\ u \in Rec /\ SameCnx(s, u) /\ SameDisk(s, u)
      /\ u.pending = s.pending \ Requests(s, c) /\ u.expired = s.expired \ Requests(s, c)
      /\ u.wire = s.wire /\ s.zerotimer \subseteq u.zerotimer
  BY DeleteRequestsFields
<1>2. CnxDtor(s, c) = t
  <2> HIDE DEF u
  <2> QED BY <1>1 DEF CnxDtor, Rec, u
<1> HIDE DEF u
<1>3. /\ fd \in Seq(Full) /\ ed \in Seq(Ecnx)
      /\ \A d : Member(fd, d) <=> Member(u.full_db, d) /\ d # c
      /\ \A d : Member(ed, d) <=> Member(u.ecnx_db, d) /\ d # c
  <2>1. u.full_db \in Seq(Full) /\ u.ecnx_db \in Seq(Ecnx)
    BY <1>1 DEF Rec
  <2> QED BY <2>1, WithoutIs
<1>4. /\ rp \in [Cnx -> SUBSET Piece] /\ rp[c] = {}
      /\ \A d \in Cnx \ {c} : rp[d] = u.remote_pavail[d]
  BY <1>1 DEF Rec
<1>5. /\ od \in [Cnx -> BOOLEAN] /\ od[c] = FALSE
      /\ \A d \in Cnx \ {c} : od[d] = u.other_doauth[d]
  BY <1>1 DEF Rec
<1>6. bs \in SUBSET Full
  BY <1>1 DEF Rec
<1>7. w \in [Cnx -> SUBSET Block] /\ \A d \in Cnx \ {c} : w[d] = u.wire[d]
  BY <1>1 DEF Rec
<1>8. /\ z \in SUBSET ({"next", "kill"} \X Ecnx)
      /\ \A d \in Ecnx \ {c} : <<"next", d>> \in u.zerotimer => <<"next", d>> \in z
  BY <1>1 DEF Rec
<1> HIDE DEF fd, ed, rp, od, bs, w, z
<1>9. t \in Rec
  BY <1>1, <1>3, <1>4, <1>5, <1>6, <1>7, <1>8 DEF Rec
<1>10. /\ t.full_db = fd /\ t.ecnx_db = ed /\ t.remote_pavail = rp /\ t.other_doauth = od
       /\ t.bfield_seen = bs /\ t.wire = w /\ t.zerotimer = z /\ t.remote_pfreq = u.remote_pfreq
       /\ t.pending = u.pending /\ t.expired = u.expired
       /\ SameDisk(u, t)
  BY <1>1 DEF Rec, SameDisk
<1> HIDE DEF t
<1>11. \A d : OpenIn(t, d) <=> OpenIn(s, d) /\ d # c
  BY <1>1, <1>3, <1>10 DEF OpenIn, SameCnx
<1>12. SameDisk(s, t)
  BY <1>1, <1>10 DEF SameDisk
<1> QED BY <1>1, <1>2, <1>4, <1>5, <1>7, <1>8, <1>9, <1>10, <1>11, <1>12 DEF bs, SameCnx

\* The destructor of a connection.
LEMMA CnxDtorCore ==
    ASSUME NEW s, Core(s), NEW c \in Cnx
    PROVE  Core(CnxDtor(s, c))
<1> DEFINE t == CnxDtor(s, c)
<1>1. s \in Rec /\ Disk(s) /\ Req(s) /\ Quiet(s) /\ Iov(s)
  BY DEF Core
<1>2. /\ t \in Rec /\ SameDisk(s, t)
      /\ \A d : OpenIn(t, d) <=> OpenIn(s, d) /\ d # c
      /\ t.remote_pavail[c] = {} /\ ~t.other_doauth[c]
      /\ \A d \in Cnx \ {c} : /\ t.remote_pavail[d] = s.remote_pavail[d]
                              /\ t.other_doauth[d] = s.other_doauth[d]
                              /\ t.wire[d] = s.wire[d]
      /\ t.bfield_seen = s.bfield_seen \ {c} /\ t.remote_pfreq = s.remote_pfreq
      /\ t.pending = s.pending \ Requests(s, c) /\ t.expired = s.expired \ Requests(s, c)
      /\ \A d \in Ecnx \ {c} : <<"next", d>> \in s.zerotimer => <<"next", d>> \in t.zerotimer
  BY <1>1, CnxDtorFields
<1> HIDE DEF t
<1>3. s.pending \subseteq Cnx \X Block /\ s.expired \subseteq Cnx \X Block
  BY <1>1 DEF Rec
<1>4. \A r \in t.pending \cup t.expired : r[1] \in Cnx \ {c} /\ Live(s, r)
  BY <1>1, <1>2, <1>3 DEF Req, Requests
<1>5. \A r \in t.pending \cup t.expired : Live(t, r)
  BY <1>2, <1>4 DEF Live, SameDisk
<1>6. Req(t) /\ \A d : Requests(t, d) \subseteq Requests(s, d)
  BY <1>1, <1>2, <1>5, FewerRequests
<1>7. Requests(t, c) = {}
  BY <1>4 DEF Requests
<1>8. Iov(t)
  BY <1>1, <1>2, <1>6, <1>7, CnxFacts DEF Iov
<1>9. Quiet(t)
  BY <1>1, <1>2, CnxFacts DEF Quiet
<1>10. Disk(t)
  BY <1>1, <1>2, SameDiskDisk
<1> QED BY <1>2, <1>6, <1>8, <1>9, <1>10 DEF Core, t
-----------------------------------------------------------------------------
(* How many connections offer a piece *)

LEMMA OfferingFacts ==
    ASSUME NEW s \in Rec, NEW p
    PROVE  IsFiniteSet(Offering(s, p)) /\ Cardinality(Offering(s, p)) \in Nat
<1>1. Offering(s, p) \subseteq {c \in Cnx : OpenIn(s, c)}
  BY DEF Offering
<1> QED BY <1>1, OpenFinite, FS_Subset, FS_CardinalityType

\* Connection c does not offer the pieces P any more.
LEMMA OfferingLess ==
    ASSUME NEW s \in Rec, Pfreq(s), NEW t \in Rec, NEW c, NEW P,
           \A p \in Piece : Offering(t, p) = Offering(s, p) \ IF p \in P THEN {c} ELSE {},
           \A p \in Piece : p \in P => c \in Offering(s, p),
           \A p \in Piece : t.remote_pfreq[p] = s.remote_pfreq[p] - IF p \in P THEN 1 ELSE 0
    PROVE  Pfreq(t)
<1> SUFFICES ASSUME NEW p \in Piece
             PROVE  /\ Cardinality(Offering(t, p)) <= t.remote_pfreq[p]
                    /\ BfieldFirst => Cardinality(Offering(t, p)) = t.remote_pfreq[p]
  BY DEF Pfreq
<1>1. /\ IsFiniteSet(Offering(s, p)) /\ Cardinality(Offering(s, p)) \in Nat
      /\ Cardinality(Offering(t, p)) \in Nat
  BY OfferingFacts
<1>2. /\ Cardinality(Offering(s, p)) <= s.remote_pfreq[p]
      /\ BfieldFirst => Cardinality(Offering(s, p)) = s.remote_pfreq[p]
  BY DEF Pfreq
<1>3. s.remote_pfreq[p] \in Nat
  BY DEF Rec
<1>4. CASE p \in P
  <2>1. Offering(t, p) = Offering(s, p) \ {c} /\ c \in Offering(s, p)
    BY <1>4
  <2>2. Cardinality(Offering(t, p)) = Cardinality(Offering(s, p)) - 1
    BY <1>1, <2>1, FS_RemoveElement
  <2>3. t.remote_pfreq[p] = s.remote_pfreq[p] - 1
    BY <1>4
  <2> QED BY <1>1, <1>2, <1>3, <2>2, <2>3
<1>5. CASE p \notin P
  <2>1. Offering(t, p) = Offering(s, p)
    BY <1>5
  <2>2. t.remote_pfreq[p] = s.remote_pfreq[p]
    BY <1>3, <1>5
  <2> QED BY <1>2, <2>1, <2>2
<1> QED BY <1>4, <1>5

\* Connection c comes to offer the pieces P.
LEMMA OfferingMore ==
    ASSUME NEW s \in Rec, Pfreq(s), NEW t \in Rec, NEW c, NEW P,
           \A p \in Piece : Offering(t, p) \subseteq Offering(s, p) \cup IF p \in P THEN {c} ELSE {},
           BfieldFirst =>
               \A p \in Piece : /\ Offering(t, p) = Offering(s, p) \cup IF p \in P THEN {c} ELSE {}
                                /\ p \in P => c \notin Offering(s, p),
           \A p \in Piece : t.remote_pfreq[p] = s.remote_pfreq[p] + IF p \in P THEN 1 ELSE 0
    PROVE  Pfreq(t)
<1> SUFFICES ASSUME NEW p \in Piece
             PROVE  /\ Cardinality(Offering(t, p)) <= t.remote_pfreq[p]
                    /\ BfieldFirst => Cardinality(Offering(t, p)) = t.remote_pfreq[p]
  BY DEF Pfreq
<1>1. /\ IsFiniteSet(Offering(s, p)) /\ Cardinality(Offering(s, p)) \in Nat
      /\ Cardinality(Offering(t, p)) \in Nat
  BY OfferingFacts
<1>2. /\ Cardinality(Offering(s, p)) <= s.remote_pfreq[p]
      /\ BfieldFirst => Cardinality(Offering(s, p)) = s.remote_pfreq[p]
  BY DEF Pfreq
<1>3. s.remote_pfreq[p] \in Nat
  BY DEF Rec
<1>4. CASE p \in P
  <2> DEFINE A == Offering(s, p) \cup {c}
  <2>1. Offering(t, p) \subseteq A /\ (BfieldFirst => Offering(t, p) = A /\ c \notin Offering(s, p))
    BY <1>4
  <2>2. /\ IsFiniteSet(A)
        /\ Cardinality(A) = IF c \in Offering(s, p) THEN Cardinality(Offering(s, p)) ELSE Cardinality(Offering(s, p)) + 1
    BY <1>1, FS_AddElement
  <2> HIDE DEF A
  <2>3. Cardinality(Offering(t, p)) <= Cardinality(A)
    BY <2>1, <2>2, FS_Subset
  <2>4. t.remote_pfreq[p] = s.remote_pfreq[p] + 1
    BY <1>4
  <2>5. Cardinality(A) <= Cardinality(Offering(s, p)) + 1 /\ Cardinality(A) \in Nat
    BY <1>1, <2>2
  <2>6. Cardinality(Offering(t, p)) <= t.remote_pfreq[p]
    BY <1>1, <1>2, <1>3, <2>3, <2>4, <2>5
  <2>7. ASSUME BfieldFirst PROVE Cardinality(Offering(t, p)) = t.remote_pfreq[p]
    <3>1. Cardinality(Offering(t, p)) = Cardinality(Offering(s, p)) + 1
      BY <2>1, <2>2, <2>7
    <3> QED BY <3>1, <1>2, <2>4, <2>7
  <2> QED BY <2>6, <2>7
<1>5. CASE p \notin P
  <2>1. Offering(t, p) \subseteq Offering(s, p) /\ (BfieldFirst => Offering(t, p) = Offering(s, p))
    BY <1>5
  <2>2. t.remote_pfreq[p] = s.remote_pfreq[p]
    BY <1>3, <1>5
  <2>3. Cardinality(Offering(t, p)) <= Cardinality(Offering(s, p))
    BY <1>1, <2>1, FS_Subset
  <2>4. Cardinality(Offering(t, p)) <= t.remote_pfreq[p]
    BY <1>1, <1>2, <1>3, <2>2, <2>3
  <2> QED BY <1>2, <2>1, <2>2, <2>4
<1> QED BY <1>4, <1>5

\* Only the frequencies of the pieces differ.
SameButPfreq(s, t) ==
    /\ t.full_db = s.full_db /\ t.ecnx_db = s.ecnx_db
    /\ t.remote_pavail = s.remote_pavail /\ t.other_doauth = s.other_doauth
    /\ t.bfield_seen = s.bfield_seen /\ SameDisk(s, t)
    /\ t.pending = s.pending /\ t.expired = s.expired
    /\ t.wire = s.wire /\ t.zerotimer = s.zerotimer

LEMMA SameButPfreqCore ==
    ASSUME NEW s, Core(s), NEW t \in Rec, SameButPfreq(s, t)
    PROVE  Core(t)
<1>1. s \in Rec /\ Disk(s) /\ Req(s) /\ Quiet(s) /\ Iov(s)
  BY DEF Core
<1>2. \A c : OpenIn(t, c) <=> OpenIn(s, c)
  BY DEF OpenIn, SameButPfreq
<1>3. \A r \in t.pending \cup t.expired : Live(t, r)
  BY <1>1, <1>2 DEF Live, Req, SameButPfreq, SameDisk
<1>4. t.pending = s.pending /\ t.expired = s.expired
  BY DEF SameButPfreq
<1>5. Req(t) /\ \A c : Requests(t, c) \subseteq Requests(s, c)
  BY <1>1, <1>3, <1>4, FewerRequests
<1>6. Iov(t)
  BY <1>1, <1>5 DEF Iov, SameButPfreq
<1>7. Quiet(t)
  BY <1>1, <1>2 DEF Quiet, SameButPfreq
<1>8. Disk(t)
  BY <1>1, SameDiskDisk DEF SameButPfreq
<1> QED BY <1>5, <1>6, <1>7, <1>8 DEF Core

LEMMA PfreqSubFields ==
    ASSUME NEW s \in Rec, NEW P, \A p \in Piece : p \in P => s.remote_pfreq[p] # 0
    PROVE  /\ PfreqSub(s, P) \in Rec /\ SameButPfreq(s, PfreqSub(s, P))
           /\ \A p \in Piece : PfreqSub(s, P).remote_pfreq[p] = s.remote_pfreq[p] - IF p \in P THEN 1 ELSE 0
<1> DEFINE f == [p \in Piece |-> IF p \in P THEN s.remote_pfreq[p] - 1 ELSE s.remote_pfreq[p]]
           t == [s EXCEPT !.remote_pfreq = f]
<1>1. \A p \in Piece : s.remote_pfreq[p] \in Nat
  BY DEF Rec
<1>2. f \in [Piece -> Nat] /\ \A p \in Piece : f[p] = s.remote_pfreq[p] - IF p \in P THEN 1 ELSE 0
  BY <1>1
<1>3. PfreqSub(s, P) = t
  BY DEF PfreqSub
<1> HIDE DEF f
<1>4. t \in Rec /\ t.remote_pfreq = f
  BY <1>2 DEF Rec
<1>5. SameButPfreq(s, t)
  BY DEF Rec, SameButPfreq, SameDisk
<1> QED BY <1>2, <1>3, <1>4, <1>5

LEMMA PfreqAddFields ==
    ASSUME NEW s \in Rec, NEW P
    PROVE  /\ PfreqAdd(s, P) \in Rec /\ SameButPfreq(s, PfreqAdd(s, P))
           /\ \A p \in Piece : PfreqAdd(s, P).remote_pfreq[p] = s.remote_pfreq[p] + IF p \in P THEN 1 ELSE 0
<1> DEFINE f == [p \in Piece |-> IF p \in P THEN s.remote_pfreq[p] + 1 ELSE s.remote_pfreq[p]]
           t == [s EXCEPT !.remote_pfreq = f]
<1>1. \A p \in Piece : s.remote_pfreq[p] \in Nat
  BY DEF Rec
<1>2. f \in [Piece -> Nat] /\ \A p \in Piece : f[p] = s.remote_pfreq[p] + IF p \in P THEN 1 ELSE 0
  BY <1>1
<1>3. PfreqAdd(s, P) = t
  BY DEF PfreqAdd
<1> HIDE DEF f
<1>4. t \in Rec /\ t.remote_pfreq = f
  BY <1>2 DEF Rec
<1>5. SameButPfreq(s, t)
  BY DEF Rec, SameButPfreq, SameDisk
<1> QED BY <1>2, <1>3, <1>4, <1>5
-----------------------------------------------------------------------------
(* Connections that close *)

\* What no piece loses.
Kept(s, t) ==
    /\ t.written = s.written /\ t.local_pavail = s.local_pavail
    /\ t.needed = s.needed /\ t.dling \subseteq s.dling \cup s.needed

LEMMA OfferedBy ==
    ASSUME NEW s, Core(s), NEW c \in Cnx
    PROVE  \A p : c \in Offering(s, p) <=> p \in s.remote_pavail[c]
BY DEF Core, Quiet, Offering

LEMMA PfreqPositive ==
    ASSUME NEW s, Core(s), Pfreq(s), NEW c \in Cnx
    PROVE  \A p \in Piece : p \in s.remote_pavail[c] => s.remote_pfreq[p] # 0
<1> SUFFICES ASSUME NEW p \in Piece, p \in s.remote_pavail[c] PROVE s.remote_pfreq[p] # 0
  OBVIOUS
<1>1. s \in Rec
  BY DEF Core
<1>2. c \in Offering(s, p)
  BY OfferedBy
<1>3. IsFiniteSet(Offering(s, p)) /\ Cardinality(Offering(s, p)) \in Nat
  BY <1>1, OfferingFacts
<1>4. Cardinality(Offering(s, p)) # 0
  BY <1>2, <1>3, FS_EmptySet
<1>5. Cardinality(Offering(s, p)) <= s.remote_pfreq[p] /\ s.remote_pfreq[p] \in Nat
  BY <1>1 DEF Pfreq, Rec
<1> QED BY <1>3, <1>4, <1>5

\* remote_pfreq once the connection is gone, whatever was requested meanwhile.
LEMMA DtorPfreq ==
    ASSUME NEW s, Core(s), Pfreq(s), NEW c \in Cnx, NEW t \in Rec,
           t.full_db = s.full_db, t.ecnx_db = s.ecnx_db, t.remote_pavail = s.remote_pavail,
           \A p \in Piece : t.remote_pfreq[p]
                                = s.remote_pfreq[p] - IF p \in s.remote_pavail[c] THEN 1 ELSE 0
    PROVE  Pfreq(CnxDtor(t, c))
<1> DEFINE u == CnxDtor(t, c)
           P == s.remote_pavail[c]
<1>1. /\ u \in Rec
      /\ \A d : OpenIn(u, d) <=> OpenIn(t, d) /\ d # c
      /\ \A d \in Cnx \ {c} : u.remote_pavail[d] = t.remote_pavail[d]
      /\ u.remote_pfreq = t.remote_pfreq
  BY CnxDtorFields
<1> HIDE DEF u
<1>2. s \in Rec
  BY DEF Core
<1>3. \A d : OpenIn(t, d) <=> OpenIn(s, d)
  BY DEF OpenIn
<1>4. \A p : c \in Offering(s, p) <=> p \in P
  BY OfferedBy
<1>5. \A p : Offering(u, p) = Offering(s, p) \ {c}
  BY <1>1, <1>3 DEF Offering
<1>6. \A p \in Piece : Offering(u, p) = Offering(s, p) \ IF p \in P THEN {c} ELSE {}
  BY <1>4, <1>5
<1>7. \A p \in Piece : u.remote_pfreq[p] = s.remote_pfreq[p] - IF p \in P THEN 1 ELSE 0
  BY <1>1
<1> HIDE DEF P
<1>8. Pfreq(u)
  BY <1>1, <1>2, <1>4, <1>6, <1>7, OfferingLess
<1> QED BY <1>8 DEF u

\* ~bt_swarm_full_t
LEMMA CnxClosedFromOk ==
    ASSUME NEW s, Ok(s), NEW c \in Cnx, NEW t \in CnxClosedFrom(s, c)
    PROVE  Ok(t) /\ Kept(s, t)
<1> DEFINE v == PfreqSub(s, s.remote_pavail[c])
           u == DeleteRequests(v, Requests(s, c))
<1>1. Core(s) /\ s.dling \subseteq s.needed /\ Pfreq(s) /\ s \in Rec
  BY DEF Ok, Core
<1>2. /\ v \in Rec /\ SameButPfreq(s, v)
      /\ \A p \in Piece : v.remote_pfreq[p] = s.remote_pfreq[p] - IF p \in s.remote_pavail[c] THEN 1 ELSE 0
  BY <1>1, PfreqPositive, PfreqSubFields
<1>3. PICK x \in TrySendRequestOnIdleCnx(u) : t = CnxDtor(x, c)
  BY DEF CnxClosedFrom
<1> HIDE DEF v
<1>4. Core(v)
  BY <1>1, <1>2, SameButPfreqCore
<1>5. Core(u) /\ SameCnx(v, u) /\ SameDisk(v, u)
  BY <1>2, <1>4, DeleteRequestsCore, DeleteRequestsFields
<1> HIDE DEF u
<1>6. Core(x) /\ Frame(u, x)
  BY <1>3, <1>5, IdleCnxCore
<1>7. Core(t) /\ SameDisk(x, t)
  BY <1>3, <1>6, CnxDtorCore, CnxDtorFields DEF Core
<1>8. Pfreq(t)
  <2>1. /\ x \in Rec /\ x.full_db = s.full_db /\ x.ecnx_db = s.ecnx_db
        /\ x.remote_pavail = s.remote_pavail /\ x.remote_pfreq = v.remote_pfreq
    BY <1>2, <1>5, <1>6 DEF Frame, SameCnx, SameButPfreq, Core
  <2>2. \A p \in Piece : x.remote_pfreq[p] = s.remote_pfreq[p] - IF p \in s.remote_pavail[c] THEN 1 ELSE 0
    BY <1>2, <2>1
  <2> QED BY <1>1, <1>3, <2>1, <2>2, DtorPfreq
<1>9. Kept(s, t)
  BY <1>2, <1>5, <1>6, <1>7 DEF Kept, SameDisk, Frame, SameButPfreq
<1>10. t.dling \subseteq t.needed
  BY <1>1, <1>9 DEF Kept
<1> QED BY <1>7, <1>8, <1>9, <1>10 DEF Ok

LEMMA CloseBetweenSeedsOk ==
    ASSUME NEW s, Ok(s), NEW c \in Cnx, NEW t \in CloseBetweenSeeds(s, c)
    PROVE  Ok(t) /\ Kept(s, t)
BY CnxClosedFromOk DEF CloseBetweenSeeds, Kept

LEMMA EcnxClosedOk ==
    ASSUME NEW s, Ok(s), NEW c \in Cnx,
           NEW t \in TrySendRequestOnIdleCnx(CnxDtor(PfreqSub(s, s.remote_pavail[c]), c))
    PROVE  Ok(t) /\ Kept(s, t)
<1> DEFINE v == PfreqSub(s, s.remote_pavail[c])
           u == CnxDtor(v, c)
<1>1. Core(s) /\ s.dling \subseteq s.needed /\ Pfreq(s) /\ s \in Rec
  BY DEF Ok, Core
<1>2. /\ v \in Rec /\ SameButPfreq(s, v)
      /\ \A p \in Piece : v.remote_pfreq[p] = s.remote_pfreq[p] - IF p \in s.remote_pavail[c] THEN 1 ELSE 0
  BY <1>1, PfreqPositive, PfreqSubFields
<1>3. t \in TrySendRequestOnIdleCnx(u)
  OBVIOUS
<1> HIDE DEF v
<1>4. Core(v)
  BY <1>1, <1>2, SameButPfreqCore
<1>5. Core(u) /\ SameDisk(v, u)
  BY <1>2, <1>4, CnxDtorCore, CnxDtorFields
<1>6. Pfreq(u)
  BY <1>1, <1>2, DtorPfreq DEF SameButPfreq
<1> HIDE DEF u
<1>7. Ok(u) /\ Kept(s, u)
  BY <1>1, <1>2, <1>5, <1>6 DEF Ok, Kept, SameDisk, SameButPfreq
<1>8. Core(t) /\ Frame(u, t)
  BY <1>3, <1>5, IdleCnxCore
<1>9. Ok(t)
  BY <1>7, <1>8, FrameOk
<1>10. Kept(s, t)
  BY <1>7, <1>8 DEF Kept, Frame
<1> QED BY <1>9, <1>10

\* try_send_request at the end of a handler.
LEMMA TrySendOk ==
    ASSUME NEW s, Ok(s), NEW c \in Cnx, NEW t \in TrySendRequest(s, c)
    PROVE  Ok(t) /\ Kept(s, t)
<1>1. Core(t) /\ Frame(s, t)
  BY TrySendRequestCore DEF Ok
<1> QED BY <1>1, FrameOk DEF Frame, Kept

LEMMA IdleOk ==
    ASSUME NEW s, Ok(s), NEW t \in TrySendRequestOnIdleCnx(s)
    PROVE  Ok(t) /\ Kept(s, t)
<1>1. Core(t) /\ Frame(s, t)
  BY IdleCnxCore DEF Ok
<1> QED BY <1>1, FrameOk DEF Frame, Kept

LEMMA KeptTrans ==
    ASSUME NEW s, NEW t, NEW u, Kept(s, t), Kept(t, u)
    PROVE  Kept(s, u)
BY DEF Kept
-----------------------------------------------------------------------------
(* What the handlers do before they send requests *)

\* bt_swarm_full_t::start
LEMMA OpenedOk ==
    ASSUME NEW s, Ok(s), NEW c \in Full, ~Member(s.full_db, c)
    PROVE  Ok([s EXCEPT !.full_db = Append(@, c)]) /\ Kept(s, [s EXCEPT !.full_db = Append(@, c)])
<1> DEFINE fd == Append(s.full_db, c)
           t == [s EXCEPT !.full_db = fd]
<1>1. Core(s) /\ s.dling \subseteq s.needed /\ Pfreq(s)
  BY DEF Ok
<1>2. s \in Rec /\ Disk(s) /\ Req(s) /\ Quiet(s) /\ Iov(s)
  BY <1>1 DEF Core
<1>3. fd \in Seq(Full) /\ \A d : Member(fd, d) <=> Member(s.full_db, d) \/ d = c
  <2>1. s.full_db \in Seq(Full)
    BY <1>2 DEF Rec
  <2> QED BY <2>1, AppendHas
<1> HIDE DEF fd
<1>4. t \in Rec /\ t.full_db = fd
  BY <1>2, <1>3 DEF Rec
<1>5. /\ t.ecnx_db = s.ecnx_db /\ t.remote_pavail = s.remote_pavail /\ t.other_doauth = s.other_doauth
      /\ t.bfield_seen = s.bfield_seen /\ t.remote_pfreq = s.remote_pfreq /\ SameDisk(s, t)
      /\ t.pending = s.pending /\ t.expired = s.expired /\ t.wire = s.wire /\ t.zerotimer = s.zerotimer
  BY <1>2 DEF Rec, SameDisk
<1> HIDE DEF t
<1>6. \A d : OpenIn(t, d) <=> OpenIn(s, d) \/ d = c
  BY <1>3, <1>4, <1>5 DEF OpenIn
<1>7. ~OpenIn(s, c)
  <2>1. s.ecnx_db \in Seq(Ecnx)
    BY <1>2 DEF Rec
  <2>2. ~Member(s.ecnx_db, c)
    BY <2>1, CnxFacts DEF Member
  <2> QED BY <2>2 DEF OpenIn
<1>8. s.remote_pavail[c] = {}
  BY <1>2, <1>7, CnxFacts DEF Quiet
<1>9. \A r \in t.pending \cup t.expired : Live(t, r)
  BY <1>2, <1>5, <1>6 DEF Req, Live, SameDisk
<1>10. Req(t) /\ \A d : Requests(t, d) \subseteq Requests(s, d)
  BY <1>2, <1>4, <1>5, <1>9, FewerRequests
<1>11. Iov(t) /\ Disk(t)
  BY <1>2, <1>5, <1>10, SameDiskDisk DEF Iov
<1>12. Quiet(t)
  BY <1>2, <1>5, <1>6 DEF Quiet
<1>13. \A p : Offering(t, p) = Offering(s, p)
  BY <1>5, <1>6, <1>8 DEF Offering
<1>14. Pfreq(t)
  BY <1>1, <1>5, <1>13 DEF Pfreq
<1>15. Kept(s, t) /\ t.dling \subseteq t.needed
  BY <1>1, <1>5 DEF Kept, SameDisk
<1>16. Ok(t)
  BY <1>4, <1>10, <1>11, <1>12, <1>14, <1>15 DEF Ok, Core
<1> QED BY <1>15, <1>16 DEF t, fd

\* parse_unauth_req
LEMMA UnauthOk ==
    ASSUME NEW s, Ok(s), NEW c \in Full
    PROVE  LET t == DeleteRequests([s EXCEPT !.other_doauth[c] = FALSE, !.wire[c] = {}],
                                   Requests(s, c))
           IN  Ok(t) /\ Kept(s, t)
<1> DEFINE od == [s.other_doauth EXCEPT ![c] = FALSE]
           w == [s.wire EXCEPT ![c] = {}]
           u == [s EXCEPT !.other_doauth = od, !.wire = w]
           v == [s EXCEPT !.other_doauth[c] = FALSE, !.wire[c] = {}]
           t == DeleteRequests(u, Requests(s, c))
<1>1. Core(s) /\ s.dling \subseteq s.needed /\ Pfreq(s)
  BY DEF Ok
<1>2. s \in Rec /\ Disk(s) /\ Req(s) /\ Quiet(s) /\ Iov(s)
  BY <1>1 DEF Core
<1>3. u = v
  BY <1>2 DEF Rec
<1>4. /\ od \in [Cnx -> BOOLEAN] /\ od[c] = FALSE
      /\ \A d \in Cnx \ {c} : od[d] = s.other_doauth[d]
  BY <1>2, CnxFacts DEF Rec
<1>5. w \in [Cnx -> SUBSET Block] /\ \A d \in Cnx \ {c} : w[d] = s.wire[d]
  BY <1>2 DEF Rec
<1> HIDE DEF od, w
<1>6. u \in Rec /\ u.other_doauth = od /\ u.wire = w
  BY <1>2, <1>4, <1>5 DEF Rec
<1>7. /\ u.full_db = s.full_db /\ u.ecnx_db = s.ecnx_db /\ u.remote_pavail = s.remote_pavail
      /\ u.bfield_seen = s.bfield_seen /\ u.remote_pfreq = s.remote_pfreq /\ SameDisk(s, u)
      /\ u.pending = s.pending /\ u.expired = s.expired /\ u.zerotimer = s.zerotimer
  BY <1>2 DEF Rec, SameDisk
<1> HIDE DEF u
<1>8. /\ t \in Rec /\ SameCnx(u, t) /\ SameDisk(u, t)
      /\ t.pending = s.pending \ Requests(s, c) /\ t.expired = s.expired \ Requests(s, c)
      /\ t.wire = w /\ s.zerotimer \subseteq t.zerotimer
  BY <1>6, <1>7, DeleteRequestsFields
<1>9. /\ t.full_db = s.full_db /\ t.ecnx_db = s.ecnx_db /\ t.remote_pavail = s.remote_pavail
      /\ t.bfield_seen = s.bfield_seen /\ t.remote_pfreq = s.remote_pfreq /\ SameDisk(s, t)
      /\ t.other_doauth = od
  BY <1>6, <1>7, <1>8 DEF SameCnx, SameDisk
<1> HIDE DEF t
<1>10. \A d : OpenIn(t, d) <=> OpenIn(s, d)
  BY <1>9 DEF OpenIn
<1>11. s.pending \subseteq Cnx \X Block /\ s.expired \subseteq Cnx \X Block
  BY <1>2 DEF Rec
<1>12. \A r \in t.pending \cup t.expired : r[1] \in Cnx \ {c} /\ Live(s, r)
  BY <1>2, <1>8, <1>11 DEF Req, Requests
<1>13. \A r \in t.pending \cup t.expired : Live(t, r)
  BY <1>4, <1>9, <1>10, <1>12 DEF Live, SameDisk
<1>14. Req(t) /\ \A d : Requests(t, d) \subseteq Requests(s, d)
  BY <1>2, <1>8, <1>13, FewerRequests
<1>15. Iov(t)
  BY <1>2, <1>5, <1>8, <1>14, CnxFacts DEF Iov
<1>16. Disk(t)
  BY <1>2, <1>9, SameDiskDisk
<1>17. Quiet(t)
  BY <1>2, <1>4, <1>9, <1>10 DEF Quiet
<1>18. \A p : Offering(t, p) = Offering(s, p)
  BY <1>9, <1>10 DEF Offering
<1>19. Pfreq(t)
  BY <1>1, <1>9, <1>18 DEF Pfreq
<1>20. Kept(s, t) /\ t.dling \subseteq t.needed
  BY <1>1, <1>9 DEF Kept, SameDisk
<1>21. Ok(t)
  BY <1>8, <1>14, <1>15, <1>16, <1>17, <1>19, <1>20 DEF Ok, Core
<1> QED BY <1>3, <1>20, <1>21 DEF t

\* parse_doauth_req
LEMMA DoauthOk ==
    ASSUME NEW s, Ok(s), NEW c \in Full, OpenIn(s, c)
    PROVE  LET t == [s EXCEPT !.other_doauth[c] = TRUE]
           IN  Ok(t) /\ Kept(s, t)
<1> DEFINE od == [s.other_doauth EXCEPT ![c] = TRUE]
           t == [s EXCEPT !.other_doauth = od]
           v == [s EXCEPT !.other_doauth[c] = TRUE]
<1>1. Core(s) /\ s.dling \subseteq s.needed /\ Pfreq(s)
  BY DEF Ok
<1>2. s \in Rec /\ Disk(s) /\ Req(s) /\ Quiet(s) /\ Iov(s)
  BY <1>1 DEF Core
<1>3. t = v
  BY <1>2 DEF Rec
<1>4. /\ od \in [Cnx -> BOOLEAN] /\ od[c] = TRUE
      /\ \A d \in Cnx \ {c} : od[d] = s.other_doauth[d]
  BY <1>2, CnxFacts DEF Rec
<1> HIDE DEF od
<1>5. t \in Rec /\ t.other_doauth = od
  BY <1>2, <1>4 DEF Rec
<1>6. /\ t.full_db = s.full_db /\ t.ecnx_db = s.ecnx_db /\ t.remote_pavail = s.remote_pavail
      /\ t.bfield_seen = s.bfield_seen /\ t.remote_pfreq = s.remote_pfreq /\ SameDisk(s, t)
      /\ t.pending = s.pending /\ t.expired = s.expired /\ t.wire = s.wire /\ t.zerotimer = s.zerotimer
  BY <1>2 DEF Rec, SameDisk
<1> HIDE DEF t
<1>7. \A d : OpenIn(t, d) <=> OpenIn(s, d)
  BY <1>6 DEF OpenIn
<1>8. s.pending \subseteq Cnx \X Block /\ s.expired \subseteq Cnx \X Block
  BY <1>2 DEF Rec
<1>9. \A r \in t.pending \cup t.expired : r[1] \in Cnx /\ Live(s, r)
  BY <1>2, <1>6, <1>8 DEF Req
<1>10. \A r \in t.pending \cup t.expired : Live(t, r)
  BY <1>4, <1>5, <1>6, <1>7, <1>9 DEF Live, SameDisk
<1>11. Req(t) /\ \A d : Requests(t, d) \subseteq Requests(s, d)
  BY <1>2, <1>5, <1>6, <1>10, FewerRequests
<1>12. Iov(t) /\ Disk(t)
  BY <1>2, <1>6, <1>11, SameDiskDisk DEF Iov
<1>13. Quiet(t)
  BY <1>2, <1>4, <1>5, <1>6, <1>7 DEF Quiet
<1>14. \A p : Offering(t, p) = Offering(s, p)
  BY <1>6, <1>7 DEF Offering
<1>15. Pfreq(t)
  BY <1>1, <1>6, <1>14 DEF Pfreq
<1>16. Kept(s, t) /\ t.dling \subseteq t.needed
  BY <1>1, <1>6 DEF Kept, SameDisk
<1>17. Ok(t)
  BY <1>5, <1>11, <1>12, <1>13, <1>15, <1>16 DEF Ok, Core
<1> QED BY <1>3, <1>16, <1>17

\* Connection c comes to offer the pieces P: u is the state without the frequencies.
LEMMA OfferMoreOk ==
    ASSUME NEW s, Ok(s), NEW c \in Cnx, NEW P, NEW u \in Rec,
           \A d : OpenIn(u, d) <=> OpenIn(s, d) \/ d = c,
           \A d \in Cnx \ {c} : /\ u.remote_pavail[d] = s.remote_pavail[d]
                                /\ u.other_doauth[d] = s.other_doauth[d],
           s.other_doauth[c] => u.other_doauth[c],
           u.remote_pavail[c] \subseteq s.remote_pavail[c] \cup P,
           BfieldFirst => /\ u.remote_pavail[c] = s.remote_pavail[c] \cup P
                          /\ s.remote_pavail[c] \cap P = {}
                          /\ c \in Full => c \in u.bfield_seen,
           s.bfield_seen \subseteq u.bfield_seen, u.remote_pfreq = s.remote_pfreq,
           SameDisk(s, u), u.pending = s.pending, u.expired = s.expired,
           u.wire = s.wire, u.zerotimer = s.zerotimer
    PROVE  Ok(PfreqAdd(u, P)) /\ Kept(s, PfreqAdd(u, P))
<1> DEFINE t == PfreqAdd(u, P)
<1>1. Core(s) /\ s.dling \subseteq s.needed /\ Pfreq(s)
  BY DEF Ok
<1>2. s \in Rec /\ Disk(s) /\ Req(s) /\ Quiet(s) /\ Iov(s)
  BY <1>1 DEF Core
<1>3. s.pending \subseteq Cnx \X Block /\ s.expired \subseteq Cnx \X Block
  BY <1>2 DEF Rec
<1>4. \A r \in u.pending \cup u.expired : r[1] \in Cnx /\ Live(s, r)
  BY <1>2, <1>3 DEF Req
<1>5. \A r \in u.pending \cup u.expired : Live(u, r)
  <2> SUFFICES ASSUME NEW r \in u.pending \cup u.expired PROVE Live(u, r)
    OBVIOUS
  <2>1. r[1] \in Cnx /\ Live(s, r)
    BY <1>4
  <2>2. CASE r[1] = c
    BY <2>1, <2>2 DEF Live, SameDisk
  <2>3. CASE r[1] # c
    BY <2>1, <2>3 DEF Live, SameDisk
  <2> QED BY <2>2, <2>3
<1>6. Req(u) /\ \A d : Requests(u, d) \subseteq Requests(s, d)
  BY <1>2, <1>5, FewerRequests
<1>7. Iov(u) /\ Disk(u)
  BY <1>2, <1>6, SameDiskDisk DEF Iov
<1>8. Quiet(u)
  <2>1. ASSUME NEW d \in Cnx, ~OpenIn(u, d) PROVE u.remote_pavail[d] = {} /\ ~u.other_doauth[d]
    <3>1. d \in Cnx \ {c} /\ ~OpenIn(s, d)
      BY <2>1
    <3>2. s.remote_pavail[d] = {} /\ ~s.other_doauth[d]
      BY <3>1, <1>2 DEF Quiet
    <3> QED BY <3>1, <3>2
  <2>2. ASSUME BfieldFirst, NEW d \in Full \ u.bfield_seen PROVE u.remote_pavail[d] = {}
    <3>1. d \in Cnx \ {c} /\ d \in Full \ s.bfield_seen
      BY <2>2, CnxFacts
    <3>2. s.remote_pavail[d] = {}
      BY <3>1, <2>2, <1>2 DEF Quiet
    <3> QED BY <3>1, <3>2
  <2> QED BY <2>1, <2>2 DEF Quiet
<1>9. Core(u)
  BY <1>6, <1>7, <1>8 DEF Core
<1>10. /\ t \in Rec /\ SameButPfreq(u, t)
       /\ \A p \in Piece : t.remote_pfreq[p] = s.remote_pfreq[p] + IF p \in P THEN 1 ELSE 0
  BY PfreqAddFields
<1> HIDE DEF t
<1>11. Core(t)
  BY <1>9, <1>10, SameButPfreqCore
<1>12. \A p : c \in Offering(s, p) <=> p \in s.remote_pavail[c]
  BY <1>1, OfferedBy
<1>13. \A p : /\ \A d \in Cnx \ {c} : d \in Offering(t, p) <=> d \in Offering(s, p)
              /\ c \in Offering(t, p) <=> p \in u.remote_pavail[c]
              /\ Offering(t, p) \subseteq Cnx /\ Offering(s, p) \subseteq Cnx
  <2>1. \A d : OpenIn(t, d) <=> OpenIn(s, d) \/ d = c
    BY <1>10 DEF OpenIn, SameButPfreq
  <2>2. t.remote_pavail = u.remote_pavail
    BY <1>10 DEF SameButPfreq
  <2> QED BY <2>1, <2>2 DEF Offering
<1>14. \A p \in Piece : Offering(t, p) \subseteq Offering(s, p) \cup IF p \in P THEN {c} ELSE {}
  <2> SUFFICES ASSUME NEW p \in Piece, NEW d \in Offering(t, p), d \notin Offering(s, p)
               PROVE  p \in P /\ d = c
    OBVIOUS
  <2> QED BY <1>12, <1>13
<1>15. ASSUME BfieldFirst, NEW p \in Piece
       PROVE  /\ Offering(t, p) = Offering(s, p) \cup IF p \in P THEN {c} ELSE {}
              /\ p \in P => c \notin Offering(s, p)
  <2>1. u.remote_pavail[c] = s.remote_pavail[c] \cup P /\ s.remote_pavail[c] \cap P = {}
    BY <1>15
  <2>2. Offering(s, p) \subseteq Offering(t, p) /\ (p \in P => c \in Offering(t, p) /\ c \notin Offering(s, p))
    BY <2>1, <1>12, <1>13
  <2> QED BY <2>2, <1>14
<1>16. Pfreq(t)
  BY <1>1, <1>2, <1>10, <1>14, <1>15, OfferingMore
<1>17. Kept(s, t)
  BY <1>10 DEF Kept, SameButPfreq, SameDisk
<1>18. t.dling \subseteq t.needed
  BY <1>1, <1>10 DEF SameButPfreq, SameDisk
<1> QED BY <1>11, <1>16, <1>17, <1>18 DEF Ok, t

\* parse_piece_bfield_cmd
LEMMA BfieldOk ==
    ASSUME NEW s, Ok(s), NEW c \in Full, OpenIn(s, c),
           c \notin s.bfield_seen \/ ~BfieldFirst, NEW P \in SUBSET Piece
    PROVE  LET t == PfreqAdd([s EXCEPT !.remote_pavail[c] = P, !.bfield_seen = @ \cup {c}], P)
           IN  Ok(t) /\ Kept(s, t)
<1> DEFINE rp == [s.remote_pavail EXCEPT ![c] = P]
           bs == s.bfield_seen \cup {c}
           u == [s EXCEPT !.remote_pavail = rp, !.bfield_seen = bs]
           v == [s EXCEPT !.remote_pavail[c] = P, !.bfield_seen = @ \cup {c}]
<1>1. s \in Rec /\ Quiet(s) /\ c \in Cnx
  BY CnxFacts DEF Ok, Core
<1>2. u = v
  BY <1>1 DEF Rec
<1>3. /\ rp \in [Cnx -> SUBSET Piece] /\ rp[c] = P
      /\ \A d \in Cnx \ {c} : rp[d] = s.remote_pavail[d]
  BY <1>1 DEF Rec
<1>4. bs \in SUBSET Full /\ c \in bs /\ s.bfield_seen \subseteq bs
  BY <1>1 DEF Rec
<1> HIDE DEF rp, bs
<1>5. u \in Rec /\ u.remote_pavail = rp /\ u.bfield_seen = bs
  BY <1>1, <1>3, <1>4 DEF Rec
<1>6. /\ u.full_db = s.full_db /\ u.ecnx_db = s.ecnx_db /\ u.other_doauth = s.other_doauth
      /\ u.remote_pfreq = s.remote_pfreq /\ SameDisk(s, u)
      /\ u.pending = s.pending /\ u.expired = s.expired /\ u.wire = s.wire /\ u.zerotimer = s.zerotimer
  BY <1>1 DEF Rec, SameDisk
<1> HIDE DEF u
<1>7. \A d : OpenIn(u, d) <=> OpenIn(s, d) \/ d = c
  BY <1>6 DEF OpenIn
<1>8. BfieldFirst => s.remote_pavail[c] = {}
  BY <1>1 DEF Quiet
<1>9. /\ \A d \in Cnx \ {c} : /\ u.remote_pavail[d] = s.remote_pavail[d]
                              /\ u.other_doauth[d] = s.other_doauth[d]
      /\ s.other_doauth[c] => u.other_doauth[c]
      /\ u.remote_pavail[c] \subseteq s.remote_pavail[c] \cup P
      /\ BfieldFirst => /\ u.remote_pavail[c] = s.remote_pavail[c] \cup P
                        /\ s.remote_pavail[c] \cap P = {}
                        /\ c \in Full => c \in u.bfield_seen
      /\ s.bfield_seen \subseteq u.bfield_seen
  BY <1>3, <1>4, <1>5, <1>6, <1>8
<1>10. Ok(PfreqAdd(u, P)) /\ Kept(s, PfreqAdd(u, P))
  BY <1>1, <1>5, <1>6, <1>7, <1>9, OfferMoreOk
<1> QED BY <1>2, <1>10

\* parse_piece_isavail
LEMMA IsavailOk ==
    ASSUME NEW s, Ok(s), NEW c \in Full, OpenIn(s, c), NEW p \in Piece,
           p \notin s.remote_pavail[c], c \in s.bfield_seen \/ ~BfieldFirst
    PROVE  LET t == PfreqAdd([s EXCEPT !.remote_pavail[c] = @ \cup {p}], {p})
           IN  Ok(t) /\ Kept(s, t)
<1> DEFINE rp == [s.remote_pavail EXCEPT ![c] = @ \cup {p}]
           u == [s EXCEPT !.remote_pavail = rp]
           v == [s EXCEPT !.remote_pavail[c] = @ \cup {p}]
<1>1. s \in Rec /\ Quiet(s) /\ c \in Cnx
  BY CnxFacts DEF Ok, Core
<1>2. u = v
  BY <1>1 DEF Rec
<1>3. /\ rp \in [Cnx -> SUBSET Piece] /\ rp[c] = s.remote_pavail[c] \cup {p}
      /\ \A d \in Cnx \ {c} : rp[d] = s.remote_pavail[d]
  BY <1>1 DEF Rec
<1> HIDE DEF rp
<1>5. u \in Rec /\ u.remote_pavail = rp
  BY <1>1, <1>3 DEF Rec
<1>6. /\ u.full_db = s.full_db /\ u.ecnx_db = s.ecnx_db /\ u.other_doauth = s.other_doauth
      /\ u.bfield_seen = s.bfield_seen /\ u.remote_pfreq = s.remote_pfreq /\ SameDisk(s, u)
      /\ u.pending = s.pending /\ u.expired = s.expired /\ u.wire = s.wire /\ u.zerotimer = s.zerotimer
  BY <1>1 DEF Rec, SameDisk
<1> HIDE DEF u
<1>7. \A d : OpenIn(u, d) <=> OpenIn(s, d) \/ d = c
  BY <1>6 DEF OpenIn
<1>8. s.remote_pavail[c] \cap {p} = {}
  OBVIOUS
<1>9. /\ \A d \in Cnx \ {c} : /\ u.remote_pavail[d] = s.remote_pavail[d]
                              /\ u.other_doauth[d] = s.other_doauth[d]
      /\ s.other_doauth[c] => u.other_doauth[c]
      /\ u.remote_pavail[c] \subseteq s.remote_pavail[c] \cup {p}
      /\ BfieldFirst => /\ u.remote_pavail[c] = s.remote_pavail[c] \cup {p}
                        /\ s.remote_pavail[c] \cap {p} = {}
                        /\ c \in Full => c \in u.bfield_seen
      /\ s.bfield_seen \subseteq u.bfield_seen
  BY <1>3, <1>5, <1>6, <1>8
<1>10. Ok(PfreqAdd(u, {p})) /\ Kept(s, PfreqAdd(u, {p}))
  <2> DEFINE P == {p}
  <2>1. P = {p}
    OBVIOUS
  <2> HIDE DEF P
  <2>2. Ok(PfreqAdd(u, P)) /\ Kept(s, PfreqAdd(u, P))
    BY <2>1, <1>1, <1>5, <1>6, <1>7, <1>9, OfferMoreOk
  <2> QED BY <2>1, <2>2
<1> QED BY <1>2, <1>10

\* cnx_opened of bt_swarm_sched_ecnx_t
LEMMA EcnxOpenedOk ==
    ASSUME NEW s, Ok(s), NEW c \in Ecnx, ~Member(s.ecnx_db, c), NEW P \in SUBSET Piece
    PROVE  LET t == PfreqAdd([s EXCEPT !.ecnx_db = Append(@, c), !.remote_pavail[c] = P,
                                       !.other_doauth[c] = TRUE], P)
           IN  Ok(t) /\ Kept(s, t)
<1> DEFINE ed == Append(s.ecnx_db, c)
           rp == [s.remote_pavail EXCEPT ![c] = P]
           od == [s.other_doauth EXCEPT ![c] = TRUE]
           u == [s EXCEPT !.ecnx_db = ed, !.remote_pavail = rp, !.other_doauth = od]
           v == [s EXCEPT !.ecnx_db = Append(@, c), !.remote_pavail[c] = P, !.other_doauth[c] = TRUE]
<1>1. s \in Rec /\ Quiet(s) /\ c \in Cnx
  BY CnxFacts DEF Ok, Core
<1>2. u = v
  BY <1>1 DEF Rec
<1>3. /\ rp \in [Cnx -> SUBSET Piece] /\ rp[c] = P
      /\ \A d \in Cnx \ {c} : rp[d] = s.remote_pavail[d]
  BY <1>1 DEF Rec
<1>4. /\ od \in [Cnx -> BOOLEAN] /\ od[c] = TRUE
      /\ \A d \in Cnx \ {c} : od[d] = s.other_doauth[d]
  BY <1>1 DEF Rec
<1>a. ed \in Seq(Ecnx) /\ \A d : Member(ed, d) <=> Member(s.ecnx_db, d) \/ d = c
  <2>1. s.ecnx_db \in Seq(Ecnx)
    BY <1>1 DEF Rec
  <2> QED BY <2>1, AppendHas
<1> HIDE DEF rp, od, ed
<1>5. u \in Rec /\ u.remote_pavail = rp /\ u.ecnx_db = ed /\ u.other_doauth = od
  BY <1>1, <1>3, <1>4, <1>a DEF Rec
<1>6. /\ u.full_db = s.full_db /\ u.bfield_seen = s.bfield_seen
      /\ u.remote_pfreq = s.remote_pfreq /\ SameDisk(s, u)
      /\ u.pending = s.pending /\ u.expired = s.expired /\ u.wire = s.wire /\ u.zerotimer = s.zerotimer
  BY <1>1 DEF Rec, SameDisk
<1> HIDE DEF u
<1>7. \A d : OpenIn(u, d) <=> OpenIn(s, d) \/ d = c
  BY <1>5, <1>6, <1>a DEF OpenIn
<1>8. s.remote_pavail[c] = {} /\ c \notin Full
  <2>1. s.full_db \in Seq(Full)
    BY <1>1 DEF Rec
  <2>2. ~Member(s.full_db, c)
    BY <2>1, CnxFacts DEF Member
  <2>3. ~OpenIn(s, c)
    BY <2>2 DEF OpenIn
  <2> QED BY <2>3, <1>1, CnxFacts DEF Quiet
<1>9. /\ \A d \in Cnx \ {c} : /\ u.remote_pavail[d] = s.remote_pavail[d]
                              /\ u.other_doauth[d] = s.other_doauth[d]
      /\ s.other_doauth[c] => u.other_doauth[c]
      /\ u.remote_pavail[c] \subseteq s.remote_pavail[c] \cup P
      /\ BfieldFirst => /\ u.remote_pavail[c] = s.remote_pavail[c] \cup P
                        /\ s.remote_pavail[c] \cap P = {}
                        /\ c \in Full => c \in u.bfield_seen
      /\ s.bfield_seen \subseteq u.bfield_seen
  BY <1>3, <1>4, <1>5, <1>6, <1>8
<1>10. Ok(PfreqAdd(u, P)) /\ Kept(s, PfreqAdd(u, P))
  BY <1>1, <1>5, <1>6, <1>7, <1>9, OfferMoreOk
<1> QED BY <1>2, <1>10

\* notify_utmsg_punavail
LEMMA UnavailOk ==
    ASSUME NEW s, Ok(s), NEW c \in Full, NEW p \in Piece, p \in s.remote_pavail[c]
    PROVE  LET t == DeleteRequests(PfreqSub([s EXCEPT !.remote_pavail[c] = @ \ {p}], {p}), {c} \X Blocks(p))
           IN  Ok(t) /\ Kept(s, t)
<1> DEFINE rp == [s.remote_pavail EXCEPT ![c] = @ \ {p}]
           P == {p}
           R == {c} \X Blocks(p)
           u == [s EXCEPT !.remote_pavail = rp]
           v == [s EXCEPT !.remote_pavail[c] = @ \ {p}]
           x == PfreqSub(u, P)
           t == DeleteRequests(x, R)
<1>1. Core(s) /\ s.dling \subseteq s.needed /\ Pfreq(s) /\ c \in Cnx
  BY CnxFacts DEF Ok
<1>2. s \in Rec /\ Disk(s) /\ Req(s) /\ Quiet(s) /\ Iov(s)
  BY <1>1 DEF Core
<1>3. u = v
  BY <1>2 DEF Rec
<1>4. /\ rp \in [Cnx -> SUBSET Piece] /\ rp[c] = s.remote_pavail[c] \ {p}
      /\ \A d \in Cnx \ {c} : rp[d] = s.remote_pavail[d]
  BY <1>1, <1>2 DEF Rec
<1>5. \A q \in Piece : q \in P => q = p
  OBVIOUS
<1>6. P = {p} /\ R = {c} \X Blocks(p)
  OBVIOUS
<1> HIDE DEF rp, P, R
<1>7. u \in Rec /\ u.remote_pavail = rp
  BY <1>2, <1>4 DEF Rec
<1>8. /\ u.full_db = s.full_db /\ u.ecnx_db = s.ecnx_db /\ u.other_doauth = s.other_doauth
      /\ u.bfield_seen = s.bfield_seen /\ u.remote_pfreq = s.remote_pfreq /\ SameDisk(s, u)
      /\ u.pending = s.pending /\ u.expired = s.expired /\ u.wire = s.wire /\ u.zerotimer = s.zerotimer
  BY <1>2 DEF Rec, SameDisk
<1> HIDE DEF u
<1>9. \A q \in Piece : q \in P => u.remote_pfreq[q] # 0
  BY <1>1, <1>5, <1>8, PfreqPositive
<1>10. /\ x \in Rec /\ SameButPfreq(u, x)
       /\ \A q \in Piece : x.remote_pfreq[q] = s.remote_pfreq[q] - IF q \in P THEN 1 ELSE 0
  BY <1>7, <1>8, <1>9, PfreqSubFields
<1> HIDE DEF x
<1>11. /\ t \in Rec /\ SameCnx(x, t) /\ SameDisk(x, t)
       /\ t.pending = x.pending \ R /\ t.expired = x.expired \ R
       /\ t.wire = x.wire /\ x.zerotimer \subseteq t.zerotimer
  BY <1>10, DeleteRequestsFields
<1> HIDE DEF t
<1>12. /\ t.full_db = s.full_db /\ t.ecnx_db = s.ecnx_db /\ t.remote_pavail = rp
       /\ t.bfield_seen = s.bfield_seen /\ t.other_doauth = s.other_doauth /\ SameDisk(s, t)
       /\ t.pending = s.pending \ R /\ t.expired = s.expired \ R
       /\ t.wire = s.wire /\ s.zerotimer \subseteq t.zerotimer /\ t.remote_pfreq = x.remote_pfreq
  BY <1>7, <1>8, <1>10, <1>11 DEF SameCnx, SameDisk, SameButPfreq
<1>13. \A d : OpenIn(t, d) <=> OpenIn(s, d)
  BY <1>12 DEF OpenIn
<1>14. s.pending \subseteq Cnx \X Block /\ s.expired \subseteq Cnx \X Block
  BY <1>2 DEF Rec
<1>15. ASSUME NEW r \in t.pending \cup t.expired PROVE Live(t, r)
  <2>1. Live(s, r) /\ r \in Cnx \X Block /\ r \notin R
    BY <1>2, <1>12, <1>14 DEF Req
  <2>2. r = <<r[1], r[2]>> /\ r[1] \in Cnx /\ r[2] \in Block
    BY <2>1
  <2>3. CASE r[1] = c
    <3>1. PieceOf(r[2]) # p
      BY <2>1, <2>2, <2>3, <1>6, BlockFacts
    <3> QED BY <2>1, <2>3, <3>1, <1>4, <1>12, <1>13 DEF Live, SameDisk
  <2>4. CASE r[1] # c
    BY <2>1, <2>2, <2>4, <1>4, <1>12, <1>13 DEF Live, SameDisk
  <2> QED BY <2>3, <2>4
<1>16. Req(t) /\ \A d : Requests(t, d) \subseteq Requests(s, d)
  BY <1>2, <1>11, <1>12, <1>15, FewerRequests
<1>17. Iov(t) /\ Disk(t)
  BY <1>2, <1>12, <1>16, SameDiskDisk DEF Iov
<1>18. Quiet(t)
  <2>1. \A d \in Cnx : rp[d] \subseteq s.remote_pavail[d]
    BY <1>4
  <2> QED BY <2>1, <1>2, <1>12, <1>13, CnxFacts DEF Quiet
<1>19. \A q \in Piece : Offering(t, q) = Offering(s, q) \ IF q \in P THEN {c} ELSE {}
  <2> SUFFICES ASSUME NEW q \in Piece PROVE Offering(t, q) = Offering(s, q) \ IF q = p THEN {c} ELSE {}
    BY <1>6
  <2>1. \A d \in Cnx : d \in Offering(t, q) <=> OpenIn(s, d) /\ q \in rp[d]
    BY <1>12, <1>13 DEF Offering
  <2>2. \A d \in Cnx : d \in Offering(s, q) <=> OpenIn(s, d) /\ q \in s.remote_pavail[d]
    BY DEF Offering
  <2>3. Offering(t, q) \subseteq Cnx /\ Offering(s, q) \subseteq Cnx
    BY DEF Offering
  <2> QED BY <2>1, <2>2, <2>3, <1>4
<1>20. \A q \in Piece : q \in P => c \in Offering(s, q)
  BY <1>1, <1>5, OfferedBy
<1>21. \A q \in Piece : t.remote_pfreq[q] = s.remote_pfreq[q] - IF q \in P THEN 1 ELSE 0
  BY <1>10, <1>12
<1>22. Pfreq(t)
  BY <1>1, <1>2, <1>11, <1>19, <1>20, <1>21, OfferingLess
<1>23. Kept(s, t) /\ t.dling \subseteq t.needed
  BY <1>1, <1>12 DEF Kept, SameDisk
<1>24. Ok(t)
  BY <1>11, <1>16, <1>17, <1>18, <1>22, <1>23 DEF Ok, Core
<1> QED BY <1>3, <1>6, <1>23, <1>24 DEF t, x

\* The blocks R have come: their requests go, their writes start.
Complete(s, R, C) ==
    [DeleteRequests(s, Cnx \X R) EXCEPT !.block_db = @ \ R, !.writing = @ \cup R, !.corrupt = C]

LEMMA CompleteOk ==
    ASSUME NEW s, Ok(s), NEW R, R \subseteq s.block_db, NEW C,
           s.corrupt \subseteq C, C \subseteq s.corrupt \cup R
    PROVE  Ok(Complete(s, R, C)) /\ Kept(s, Complete(s, R, C)) /\ s.zerotimer \subseteq Complete(s, R, C).zerotimer
<1> DEFINE u == DeleteRequests(s, Cnx \X R)
           t == Complete(s, R, C)
<1>1. Core(s) /\ s.dling \subseteq s.needed /\ Pfreq(s)
  BY DEF Ok
<1>2. s \in Rec /\ Disk(s) /\ Req(s) /\ Quiet(s) /\ Iov(s)
  BY <1>1 DEF Core
<1>3. /\ u \in Rec /\ SameCnx(s, u) /\ SameDisk(s, u)
      /\ u.pending = s.pending \ (Cnx \X R) /\ u.expired = s.expired \ (Cnx \X R)
      /\ u.wire = s.wire /\ s.zerotimer \subseteq u.zerotimer
  BY <1>2, DeleteRequestsFields
<1>4. t = [u EXCEPT !.block_db = @ \ R, !.writing = @ \cup R, !.corrupt = C]
  BY DEF Complete
<1>5. s.block_db \subseteq Block /\ s.corrupt \subseteq Block
  BY <1>2 DEF Rec
<1> HIDE DEF u, t
<1>6. t \in Rec
  BY <1>3, <1>4, <1>5 DEF Rec
<1>7. /\ t.block_db = u.block_db \ R /\ t.writing = u.writing \cup R /\ t.corrupt = C
      /\ t.written = u.written /\ t.hashing = u.hashing /\ t.dling = u.dling
      /\ t.needed = u.needed /\ t.local_pavail = u.local_pavail
      /\ t.pending = u.pending /\ t.expired = u.expired
      /\ t.wire = u.wire /\ t.zerotimer = u.zerotimer
      /\ SameCnx(u, t)
  BY <1>3, <1>4 DEF Rec, SameCnx
<1>8. /\ t.block_db = s.block_db \ R /\ t.writing = s.writing \cup R /\ t.corrupt = C
      /\ t.written = s.written /\ t.hashing = s.hashing /\ t.dling = s.dling
      /\ t.needed = s.needed /\ t.local_pavail = s.local_pavail
      /\ t.pending = s.pending \ (Cnx \X R) /\ t.expired = s.expired \ (Cnx \X R)
      /\ t.wire = s.wire /\ s.zerotimer \subseteq t.zerotimer
      /\ SameCnx(s, t)
  BY <1>3, <1>7 DEF SameCnx, SameDisk
<1>9. /\ \A d : OpenIn(t, d) <=> OpenIn(s, d)
      /\ Quiet(t) /\ Pfreq(t)
  BY <1>1, <1>2, <1>8, SameCnxFacts
<1>10. Disk(t)
  <2>1. \A p \in s.local_pavail : Blocks(p) \cap R = {}
    <3> SUFFICES ASSUME NEW p \in s.local_pavail, NEW b \in Blocks(p), b \in R PROVE FALSE
      OBVIOUS
    <3>1. p \in Piece
      BY <1>2 DEF Rec
    <3>2. PieceOf(b) = p /\ PieceOf(b) \in s.dling
      BY <3>1, <1>2, BlockFacts DEF Disk
    <3> QED BY <3>2, <1>2 DEF Disk
  <2>2. \A p \in t.local_pavail : /\ Blocks(p) \subseteq t.written
                                  /\ DoPiecehash => Blocks(p) \cap t.corrupt = {}
    BY <2>1, <1>2, <1>8 DEF Disk
  <2>3. t.corrupt \subseteq t.writing \cup t.written
    BY <1>2, <1>8 DEF Disk
  <2> QED BY <2>2, <2>3, <1>2, <1>8 DEF Disk
<1>11. s.pending \subseteq Cnx \X Block /\ s.expired \subseteq Cnx \X Block
  BY <1>2 DEF Rec
<1>12. ASSUME NEW r \in t.pending \cup t.expired PROVE Live(t, r)
  <2>1. Live(s, r) /\ r[2] \notin R
    BY <1>2, <1>8, <1>11 DEF Req
  <2> QED BY <2>1, <1>8, <1>9 DEF Live, SameCnx
<1>13. Req(t) /\ \A d : Requests(t, d) \subseteq Requests(s, d)
  BY <1>2, <1>6, <1>8, <1>12, FewerRequests
<1>14. Iov(t)
  BY <1>2, <1>8, <1>13 DEF Iov
<1>15. Kept(s, t) /\ t.dling \subseteq t.needed
  BY <1>1, <1>8 DEF Kept
<1> QED BY <1>6, <1>8, <1>9, <1>10, <1>13, <1>14, <1>15 DEF Ok, Core, t

\* The requests, the answers under way and the zero-timers change.
LEMMA QueuesOk ==
    ASSUME NEW s, Ok(s), NEW t \in Rec, SameCnx(s, t), SameDisk(s, t),
           t.pending \subseteq s.pending, t.pending \cup t.expired \subseteq s.pending \cup s.expired,
           Iov(t)
    PROVE  Ok(t) /\ Kept(s, t)
<1>1. Core(s) /\ s.dling \subseteq s.needed /\ Pfreq(s)
  BY DEF Ok
<1>2. s \in Rec /\ Disk(s) /\ Req(s) /\ Quiet(s) /\ Iov(s)
  BY <1>1 DEF Core
<1>3. (\A d : OpenIn(t, d) <=> OpenIn(s, d)) /\ Quiet(t) /\ Pfreq(t) /\ Disk(t)
  BY <1>1, <1>2, SameCnxFacts, SameDiskDisk
<1>4. \A r \in t.pending \cup t.expired : Live(t, r)
  BY <1>2, <1>3 DEF Req, Live, SameCnx, SameDisk
<1>5. Req(t)
  BY <1>2, <1>4, FewerRequests
<1>6. Kept(s, t) /\ t.dling \subseteq t.needed
  BY <1>1 DEF Kept, SameDisk
<1> QED BY <1>3, <1>5, <1>6 DEF Ok, Core

\* The answer under way of c and the zero-timers change.
LEMMA WireOk ==
    ASSUME NEW s, Ok(s), NEW c \in Cnx, NEW W \in SUBSET Block,
           NEW Z \in SUBSET ({"next", "kill"} \X Ecnx),
           c \in Ecnx /\ Requests(s, c) # {} => W # {} \/ <<"next", c>> \in Z,
           \A d \in Ecnx \ {c} : <<"next", d>> \in s.zerotimer => <<"next", d>> \in Z
    PROVE  LET t == [s EXCEPT !.wire[c] = W, !.zerotimer = Z]
           IN  Ok(t) /\ Kept(s, t) /\ t.zerotimer = Z /\ t.pending = s.pending /\ t.expired = s.expired
<1> DEFINE w == [s.wire EXCEPT ![c] = W]
           t == [s EXCEPT !.wire = w, !.zerotimer = Z]
           v == [s EXCEPT !.wire[c] = W, !.zerotimer = Z]
<1>1. s \in Rec /\ Iov(s)
  BY DEF Ok, Core
<1>2. t = v
  BY <1>1 DEF Rec
<1>3. w \in [Cnx -> SUBSET Block] /\ w[c] = W /\ \A d \in Cnx \ {c} : w[d] = s.wire[d]
  BY <1>1 DEF Rec
<1> HIDE DEF w
<1>4. t \in Rec /\ t.wire = w /\ t.zerotimer = Z
  BY <1>1, <1>3 DEF Rec
<1>5. SameCnx(s, t) /\ SameDisk(s, t) /\ t.pending = s.pending /\ t.expired = s.expired
  BY <1>1 DEF Rec, SameCnx, SameDisk
<1> HIDE DEF t
<1>6. \A d : Requests(t, d) = Requests(s, d)
  BY <1>5 DEF Requests
<1>7. Iov(t)
  <2> SUFFICES ASSUME NEW d \in Ecnx, Requests(s, d) # {} PROVE w[d] # {} \/ <<"next", d>> \in Z
    BY <1>4, <1>6 DEF Iov
  <2>1. s.wire[d] # {} \/ <<"next", d>> \in s.zerotimer
    BY <1>1 DEF Iov
  <2>2. CASE d = c
    BY <2>2, <1>3
  <2>3. CASE d # c
    BY <2>1, <2>3, <1>3, CnxFacts
  <2> QED BY <2>2, <2>3
<1>8. Ok(t) /\ Kept(s, t)
  BY <1>4, <1>5, <1>7, QueuesOk
<1> QED BY <1>2, <1>4, <1>5, <1>8

\* neoip_timeout_expire_cb of a request
LEMMA TimeoutOk ==
    ASSUME NEW s, Ok(s), NEW r \in s.pending
    PROVE  LET t == [s EXCEPT !.pending = @ \ {r}, !.expired = @ \cup {r}]
           IN  Ok(t) /\ Kept(s, t)
<1> DEFINE pe == s.pending \ {r}
           ex == s.expired \cup {r}
           t == [s EXCEPT !.pending = pe, !.expired = ex]
<1>1. s \in Rec /\ Iov(s)
  BY DEF Ok, Core
<1>2. pe \in SUBSET (Cnx \X Block) /\ ex \in SUBSET (Cnx \X Block)
  BY <1>1 DEF Rec
<1>3. pe \subseteq s.pending /\ pe \cup ex = s.pending \cup s.expired
  OBVIOUS
<1> HIDE DEF pe, ex
<1>4. t \in Rec /\ t.pending = pe /\ t.expired = ex
  BY <1>1, <1>2 DEF Rec
<1>5. SameCnx(s, t) /\ SameDisk(s, t) /\ t.wire = s.wire /\ t.zerotimer = s.zerotimer
  BY <1>1 DEF Rec, SameCnx, SameDisk
<1> HIDE DEF t
<1>6. \A d : Requests(t, d) = Requests(s, d)
  BY <1>3, <1>4 DEF Requests
<1>7. Iov(t)
  BY <1>1, <1>5, <1>6 DEF Iov
<1>8. Ok(t) /\ Kept(s, t)
  BY <1>3, <1>4, <1>5, <1>7, QueuesOk
<1> QED BY <1>8 DEF t, pe, ex

\* What is on the disk stays, or goes with its piece.
Keeps(s, t) == \A b \in s.written \ t.written : PieceOf(b) \notin t.dling \cup t.local_pavail

\* The pieces and blocks change, the connections and requests do not.
LEMMA DiskOk ==
    ASSUME NEW s, Ok(s), NEW t \in Rec, SameCnx(s, t), Disk(t), t.block_db = s.block_db,
           t.dling \subseteq t.needed, t.pending = s.pending, t.expired = s.expired,
           t.wire = s.wire, t.zerotimer = s.zerotimer
    PROVE  Ok(t)
<1>1. Core(s) /\ s.dling \subseteq s.needed /\ Pfreq(s)
  BY DEF Ok
<1>2. s \in Rec /\ Disk(s) /\ Req(s) /\ Quiet(s) /\ Iov(s)
  BY <1>1 DEF Core
<1>3. (\A d : OpenIn(t, d) <=> OpenIn(s, d)) /\ Quiet(t) /\ Pfreq(t)
  BY <1>1, <1>2, SameCnxFacts
<1>4. \A r \in t.pending \cup t.expired : Live(t, r)
  BY <1>2, <1>3 DEF Req, Live, SameCnx
<1>5. Req(t) /\ \A d : Requests(t, d) \subseteq Requests(s, d)
  BY <1>2, <1>4, FewerRequests
<1>6. Iov(t)
  BY <1>2, <1>5 DEF Iov
<1> QED BY <1>3, <1>5, <1>6 DEF Ok, Core

\* neoip_bt_io_write_cb
LEMMA WrittenOk ==
    ASSUME NEW s, Ok(s), NEW b \in s.writing
    PROVE  LET u == [s EXCEPT !.writing = @ \ {b}, !.written = @ \cup {b}]
               t == [u EXCEPT !.hashing = IF Blocks(PieceOf(b)) \subseteq u.written
                                          THEN @ \cup {PieceOf(b)} ELSE @]
           IN  Ok(t) /\ Keeps(s, t)
<1> DEFINE p == PieceOf(b)
           wg == s.writing \ {b}
           wn == s.written \cup {b}
           h == IF Blocks(p) \subseteq wn THEN s.hashing \cup {p} ELSE s.hashing
           u == [s EXCEPT !.writing = @ \ {b}, !.written = @ \cup {b}]
           v == [u EXCEPT !.hashing = IF Blocks(p) \subseteq u.written THEN @ \cup {p} ELSE @]
           t == [s EXCEPT !.writing = wg, !.written = wn, !.hashing = h]
<1>1. s \in Rec /\ Disk(s) /\ s.dling \subseteq s.needed
  BY DEF Ok, Core
<1>2. /\ s.writing \subseteq Block /\ s.written \subseteq Block /\ s.dling \subseteq Piece
      /\ s.hashing \subseteq Piece /\ s.local_pavail \subseteq Piece
  BY <1>1 DEF Rec
<1>3. p \in s.dling /\ p \notin s.local_pavail /\ p \in Piece
  BY <1>1, <1>2 DEF Disk
<1>4. v = t
  BY <1>1 DEF Rec
<1>5. wg \in SUBSET Block /\ wn \in SUBSET Block /\ h \in SUBSET Piece
  BY <1>2, <1>3
<1>6. \A q \in s.dling : q \in h <=> Blocks(q) \subseteq wn
  <2> SUFFICES ASSUME NEW q \in s.dling PROVE q \in h <=> Blocks(q) \subseteq wn
    OBVIOUS
  <2>1. q \in s.hashing <=> Blocks(q) \subseteq s.written
    BY <1>1 DEF Disk
  <2>2. CASE q = p
    BY <2>1, <2>2
  <2>3. CASE q # p
    <3>1. b \notin Blocks(q)
      BY <2>3, <1>2, BlockFacts
    <3>2. q \in h <=> q \in s.hashing
      BY <2>3
    <3> QED BY <2>1, <3>1, <3>2
  <2> QED BY <2>2, <2>3
<1>7. h \subseteq s.dling
  BY <1>1, <1>3 DEF Disk
<1>8. /\ s.corrupt \subseteq wg \cup wn /\ s.block_db \cap wg = {} /\ s.block_db \cap wn = {} /\ wg \cap wn = {}
      /\ wg \subseteq s.writing
      /\ \A x \in wn : PieceOf(x) \in s.dling \cup s.local_pavail
      /\ s.written \subseteq wn
  BY <1>1, <1>3 DEF Disk
<1> HIDE DEF wg, wn, h
<1>9. t \in Rec /\ t.writing = wg /\ t.written = wn /\ t.hashing = h
  BY <1>1, <1>5 DEF Rec
<1>10. /\ SameCnx(s, t) /\ t.needed = s.needed /\ t.local_pavail = s.local_pavail
       /\ t.dling = s.dling /\ t.block_db = s.block_db /\ t.corrupt = s.corrupt
       /\ t.pending = s.pending /\ t.expired = s.expired /\ t.wire = s.wire /\ t.zerotimer = s.zerotimer
  BY <1>1 DEF Rec, SameCnx
<1> HIDE DEF t
<1>11. Disk(t)
  BY <1>1, <1>6, <1>7, <1>8, <1>9, <1>10 DEF Disk
<1>12. Ok(t)
  BY <1>1, <1>9, <1>10, <1>11, DiskOk
<1>13. Keeps(s, t)
  BY <1>8, <1>9 DEF Keeps
<1> QED BY <1>4, <1>12, <1>13

\* neoip_bt_piece_cpuhash_cb, when the content is right
LEMMA HashedOk ==
    ASSUME NEW s, Ok(s), NEW p \in s.hashing, DoPiecehash => Blocks(p) \cap s.corrupt = {}
    PROVE  LET t == [s EXCEPT !.hashing = @ \ {p}, !.dling = @ \ {p}, !.local_pavail = @ \cup {p}]
           IN  Ok(t) /\ Keeps(s, t)
<1> DEFINE t == [s EXCEPT !.hashing = @ \ {p}, !.dling = @ \ {p}, !.local_pavail = @ \cup {p}]
<1>1. s \in Rec /\ Disk(s) /\ s.dling \subseteq s.needed
  BY DEF Ok, Core
<1>2. s.block_db \subseteq Block /\ s.writing \subseteq Block /\ p \in Piece /\ p \in s.dling
  BY <1>1 DEF Rec, Disk
<1>3. t \in Rec /\ t.hashing = s.hashing \ {p} /\ t.dling = s.dling \ {p} /\ t.local_pavail = s.local_pavail \cup {p}
  BY <1>1, <1>2 DEF Rec
<1>4. /\ SameCnx(s, t) /\ t.needed = s.needed /\ t.written = s.written
      /\ t.writing = s.writing /\ t.block_db = s.block_db /\ t.corrupt = s.corrupt
      /\ t.pending = s.pending /\ t.expired = s.expired /\ t.wire = s.wire /\ t.zerotimer = s.zerotimer
  BY <1>1 DEF Rec, SameCnx
<1> HIDE DEF t
<1>5. Blocks(p) \subseteq s.written
  BY <1>1, <1>2 DEF Disk
<1>6. \A b \in s.block_db \cup s.writing : PieceOf(b) # p
  BY <1>1, <1>2, <1>5, BlockFacts DEF Disk
<1>7. Disk(t)
  <2>1. \A b \in t.block_db \cup t.writing : PieceOf(b) \in t.dling
    BY <1>1, <1>3, <1>4, <1>6 DEF Disk
  <2>2. \A b \in t.written : PieceOf(b) \in t.dling \cup t.local_pavail
    BY <1>1, <1>3, <1>4 DEF Disk
  <2>3. \A q \in t.local_pavail : /\ Blocks(q) \subseteq t.written
                                  /\ DoPiecehash => Blocks(q) \cap t.corrupt = {}
    BY <1>1, <1>3, <1>4, <1>5 DEF Disk
  <2>4. \A q \in t.dling : q \in t.hashing <=> Blocks(q) \subseteq t.written
    BY <1>1, <1>3, <1>4 DEF Disk
  <2> QED BY <1>1, <1>3, <1>4, <2>1, <2>2, <2>3, <2>4 DEF Disk
<1>8. Ok(t)
  BY <1>1, <1>3, <1>4, <1>7, DiskOk
<1>9. Keeps(s, t)
  BY <1>4 DEF Keeps
<1> QED BY <1>8, <1>9 DEF t

\* neoip_bt_piece_cpuhash_cb, when it is wrong
LEMMA HashFailedOk ==
    ASSUME NEW s, Ok(s), NEW p \in s.hashing
    PROVE  Ok(DeletePieces(s, {p})) /\ Keeps(s, DeletePieces(s, {p}))
<1> DEFINE P == {p}
           t == DeletePieces(s, P)
<1>1. Core(s) /\ s \in Rec /\ Disk(s) /\ s.dling \subseteq s.needed /\ Pfreq(s)
  BY DEF Ok, Core
<1>2. P \subseteq s.dling
  BY <1>1 DEF Disk
<1> HIDE DEF P
<1>3. /\ Core(t) /\ Pfreq(t) /\ t.dling = s.dling \ P /\ t.needed = s.needed
      /\ t.local_pavail = s.local_pavail
      /\ \A b \in s.written \ t.written : PieceOf(b) \in P
  BY <1>1, <1>2, DeletePiecesCore
<1> HIDE DEF t
<1>4. Ok(t)
  BY <1>1, <1>3 DEF Ok
<1>5. Keeps(s, t)
  BY <1>1, <1>2, <1>3 DEF Keeps, Disk
<1> QED BY <1>4, <1>5 DEF t, P

\* notify_pieceprec_change
LEMMA PrecChangeOk ==
    ASSUME NEW s, Ok(s), NEW N \in SUBSET Piece,
           NEW t \in TrySendRequestOnIdleCnx(DeletePieces([s EXCEPT !.needed = N], s.dling \ N))
    PROVE  Ok(t) /\ Keeps(s, t)
<1> DEFINE u == [s EXCEPT !.needed = N]
           P == s.dling \ N
           v == DeletePieces(u, P)
<1>1. Core(s) /\ Pfreq(s)
  BY DEF Ok
<1>2. s \in Rec /\ Disk(s) /\ Req(s) /\ Quiet(s) /\ Iov(s)
  BY <1>1 DEF Core
<1>3. u \in Rec /\ u.needed = N
  BY <1>2 DEF Rec
<1>4. /\ SameCnx(s, u) /\ u.local_pavail = s.local_pavail /\ u.dling = s.dling
      /\ u.hashing = s.hashing /\ u.block_db = s.block_db /\ u.writing = s.writing
      /\ u.written = s.written /\ u.corrupt = s.corrupt
      /\ u.pending = s.pending /\ u.expired = s.expired /\ u.wire = s.wire /\ u.zerotimer = s.zerotimer
  BY <1>2 DEF Rec, SameCnx
<1>5. t \in TrySendRequestOnIdleCnx(v)
  OBVIOUS
<1>6. P \subseteq s.dling /\ P \cap N = {} /\ s.dling \ P \subseteq N
  OBVIOUS
<1> HIDE DEF u, P
<1>7. (\A d : OpenIn(u, d) <=> OpenIn(s, d)) /\ Quiet(u) /\ Pfreq(u)
  BY <1>1, <1>2, <1>4, SameCnxFacts
<1>8. \A r \in u.pending \cup u.expired : Live(u, r)
  BY <1>2, <1>4, <1>7 DEF Req, Live, SameCnx
<1>9. Req(u) /\ \A d : Requests(u, d) \subseteq Requests(s, d)
  BY <1>2, <1>3, <1>4, <1>8, FewerRequests
<1>10. Iov(u) /\ Disk(u)
  BY <1>2, <1>4, <1>9 DEF Iov, Disk
<1>11. Core(u)
  BY <1>3, <1>7, <1>9, <1>10 DEF Core
<1>12. /\ Core(v) /\ Pfreq(v) /\ v.dling = u.dling \ P /\ v.needed = u.needed
       /\ v.local_pavail = u.local_pavail
       /\ \A b \in u.written \ v.written : PieceOf(b) \in P
  BY <1>4, <1>6, <1>7, <1>11, DeletePiecesCore
<1> HIDE DEF v
<1>13. Ok(v)
  BY <1>3, <1>4, <1>6, <1>12 DEF Ok
<1>14. Ok(t) /\ Kept(v, t)
  BY <1>5, <1>13, IdleOk
<1>15. Keeps(s, t)
  <2> SUFFICES ASSUME NEW b \in s.written \ t.written
               PROVE  PieceOf(b) \notin t.dling \cup t.local_pavail
    BY DEF Keeps
  <2>1. PieceOf(b) \in P
    BY <1>4, <1>12, <1>14 DEF Kept
  <2>2. PieceOf(b) \notin v.dling \cup v.needed /\ PieceOf(b) \notin v.local_pavail
    BY <2>1, <1>2, <1>3, <1>4, <1>6, <1>12 DEF Disk
  <2> QED BY <2>2, <1>14 DEF Kept
<1> QED BY <1>14, <1>15

\* declare_piece_nomore_avail, before the peers are disconnected
LEMMA NomoreOk ==
    ASSUME NEW s, Ok(s), NEW p \in s.local_pavail, p \notin s.needed
    PROVE  LET t == [s EXCEPT !.local_pavail = @ \ {p}, !.written = @ \ Blocks(p),
                              !.corrupt = @ \ Blocks(p)]
           IN  /\ Ok(t) /\ t.needed = s.needed /\ t.dling = s.dling
               /\ p \notin t.local_pavail
               /\ \A b \in s.written \ t.written : PieceOf(b) = p
<1> DEFINE B == Blocks(p)
           t == [s EXCEPT !.local_pavail = @ \ {p}, !.written = @ \ B, !.corrupt = @ \ B]
<1>1. s \in Rec /\ Disk(s) /\ s.dling \subseteq s.needed
  BY DEF Ok, Core
<1>2. /\ s.written \subseteq Block /\ s.corrupt \subseteq Block /\ s.writing \subseteq Block
      /\ s.dling \subseteq Piece /\ s.local_pavail \subseteq Piece /\ p \in Piece /\ p \notin s.dling
  BY <1>1 DEF Rec
<1>3. \A b \in Block : b \in B <=> PieceOf(b) = p
  BY <1>2, BlockFacts
<1>4. \A q \in Piece : q # p => Blocks(q) \cap B = {}
  BY <1>2, <1>3, BlockFacts
<1> HIDE DEF B
<1>5. /\ t \in Rec /\ t.local_pavail = s.local_pavail \ {p} /\ t.written = s.written \ B
      /\ t.corrupt = s.corrupt \ B
  BY <1>1 DEF Rec
<1>6. /\ SameCnx(s, t) /\ t.needed = s.needed /\ t.dling = s.dling /\ t.hashing = s.hashing
      /\ t.writing = s.writing /\ t.block_db = s.block_db
      /\ t.pending = s.pending /\ t.expired = s.expired /\ t.wire = s.wire /\ t.zerotimer = s.zerotimer
  BY <1>1 DEF Rec, SameCnx
<1> HIDE DEF t
<1>7. Disk(t)
  <2>1. \A b \in t.written : PieceOf(b) \in t.dling \cup t.local_pavail
    BY <1>1, <1>2, <1>3, <1>5, <1>6 DEF Disk
  <2>2. \A q \in t.dling : q \in t.hashing <=> Blocks(q) \subseteq t.written
    <3> SUFFICES ASSUME NEW q \in s.dling PROVE q \in s.hashing <=> Blocks(q) \subseteq s.written \ B
      BY <1>5, <1>6
    <3>1. Blocks(q) \cap B = {}
      BY <1>2, <1>4
    <3>2. q \in s.hashing <=> Blocks(q) \subseteq s.written
      BY <1>1 DEF Disk
    <3> QED BY <3>1, <3>2
  <2>3. \A q \in t.local_pavail : /\ Blocks(q) \subseteq t.written
                                  /\ DoPiecehash => Blocks(q) \cap t.corrupt = {}
    <3> SUFFICES ASSUME NEW q \in s.local_pavail, q # p
                 PROVE  /\ Blocks(q) \subseteq s.written \ B
                        /\ DoPiecehash => Blocks(q) \cap (s.corrupt \ B) = {}
      BY <1>5
    <3>1. Blocks(q) \cap B = {}
      BY <1>2, <1>4
    <3>2. Blocks(q) \subseteq s.written /\ (DoPiecehash => Blocks(q) \cap s.corrupt = {})
      BY <1>1 DEF Disk
    <3> QED BY <3>1, <3>2
  <2>4. t.corrupt \subseteq t.writing \cup t.written
    BY <1>1, <1>5, <1>6 DEF Disk
  <2> QED BY <1>1, <1>5, <1>6, <2>1, <2>2, <2>3, <2>4 DEF Disk
<1>8. Ok(t)
  BY <1>1, <1>5, <1>6, <1>7, DiskOk
<1>9. \A b \in s.written \ t.written : PieceOf(b) = p
  BY <1>2, <1>3, <1>5
<1> QED BY <1>5, <1>6, <1>8, <1>9 DEF t, B

\* The peers that wait for a block of it are disconnected, any of them.
Disconnected(s, db) ==
    LET walk[n \in 0 .. Len(db)] ==
            IF n = 0 THEN {s}
            ELSE UNION {IF "close" \in Adversity
                        THEN {t} \cup CnxClosedFrom(t, db[n]) ELSE {t} : t \in walk[n - 1]}
    IN walk[Len(db)]

LEMMA NomoreWalk ==
    ASSUME NEW s, Ok(s), NEW db \in Seq(Full), NEW t \in Disconnected(s, db)
    PROVE  Ok(t) /\ Kept(s, t)
<1> DEFINE N == Len(db)
           Step(u, d) == IF "close" \in Adversity THEN {u} \cup CnxClosedFrom(u, d) ELSE {u}
           P(g) == g = [n \in 0 .. N |->
                          IF n = 0 THEN {s} ELSE UNION {Step(u, db[n]) : u \in g[n - 1]}]
           walk == CHOOSE g : P(g)
           Good == {u \in Rec : Ok(u) /\ Kept(s, u)}
           X == [n \in 0 .. N |-> Good]
           G == [n \in 1 .. N |-> [u \in Rec |-> IF u \in Good THEN Step(u, db[n]) ELSE {}]]
<1>1. t \in walk[N]
  BY Zenon DEF Disconnected
<1>2. s \in Good
  BY DEF Ok, Core, Kept
<1>3. N \in Nat /\ \A n \in 1 .. N : db[n] \in Cnx
  BY CnxFacts
<1> HIDE DEF N
<1>4. ASSUME NEW n \in 1 .. N, NEW u \in Good PROVE Step(u, db[n]) \subseteq Good
  <2> SUFFICES ASSUME NEW v \in Step(u, db[n]) PROVE v \in Good
    OBVIOUS
  <2>1. u \in Rec /\ Ok(u) /\ Kept(s, u) /\ db[n] \in Cnx
    BY <1>3
  <2>2. CASE v = u
    BY <2>2
  <2>3. CASE v \in CnxClosedFrom(u, db[n])
    <3>1. Ok(v) /\ Kept(u, v)
      BY <2>1, <2>3, CnxClosedFromOk
    <3>2. Kept(s, v) /\ v \in Rec
      BY <2>1, <3>1, KeptTrans DEF Ok, Core
    <3> QED BY <3>1, <3>2
  <2> QED BY <2>2, <2>3
<1>5. Good \subseteq Rec
  OBVIOUS
<1> HIDE DEF Good, Step
<1>6. X \in [0 .. N -> SUBSET Rec] /\ s \in X[0] /\ \A n \in 0 .. N : X[n] = Good
  BY <1>2, <1>3, <1>5
<1>7. /\ G \in [1 .. N -> [Rec -> SUBSET Rec]]
      /\ \A n \in 1 .. N : \A u \in Good : u \in Rec /\ G[n][u] = Step(u, db[n])
  BY <1>4, <1>5
<1>8. \A n \in 1 .. N : X[n] = Good /\ X[n - 1] = Good
  BY <1>3, <1>6
<1> HIDE DEF X, G
<1>9. \A n \in 1 .. N : \A u \in X[n - 1] : G[n][u] \subseteq X[n]
  BY <1>4, <1>7, <1>8
<1>10. \E f : IsWalk(f, N, Rec, X, s, G)
  BY <1>3, <1>6, <1>7, <1>9, WalkExists, Zenon
<1>11. PICK f : IsWalk(f, N, Rec, X, s, G)
  BY <1>10
<1>12. ASSUME NEW n \in 1 .. N PROVE f[n] = UNION {Step(u, db[n]) : u \in f[n - 1]}
  <2>1. f[n - 1] \subseteq X[n - 1] /\ f[n] = UNION {G[n][u] : u \in f[n - 1]}
    BY <1>3, <1>11, WalkStep
  <2> QED BY <2>1, <1>7, <1>8
<1>13. P(f)
  BY <1>11, <1>12 DEF IsWalk
<1>14. P(walk)
  BY <1>13, Zenon
<1> HIDE DEF walk
<1>15. walk[0] = {s} /\ \A n \in 1 .. N : walk[n] = UNION {Step(u, db[n]) : u \in walk[n - 1]}
  <2>1. 0 \in 0 .. N /\ \A n \in 1 .. N : n \in 0 .. N /\ n # 0
    BY <1>3
  <2>2. \A n \in 0 .. N : walk[n] = IF n = 0 THEN {s} ELSE UNION {Step(u, db[n]) : u \in walk[n - 1]}
    BY <1>14, Zenon
  <2> QED BY <2>1, <2>2
<1> DEFINE S == {n \in 0 .. N : walk[n] \subseteq Good}
<1>16. 0 \in S
  BY <1>2, <1>3, <1>15
<1>17. ASSUME NEW n \in 1 .. N, n - 1 \in S PROVE n \in S
  BY <1>4, <1>15, <1>17
<1> HIDE DEF S
<1>18. \A n \in 0 .. N : n \in S
  BY <1>3, <1>16, <1>17, RangeInduction, Zenon
<1>19. t \in Good
  BY <1>1, <1>3, <1>18 DEF S
<1> QED BY <1>19 DEF Good

-----------------------------------------------------------------------------
(* The actions *)

LEMMA CurFields ==
    /\ Cur.full_db = full_db /\ Cur.ecnx_db = ecnx_db /\ Cur.remote_pavail = remote_pavail
    /\ Cur.other_doauth = other_doauth /\ Cur.bfield_seen = bfield_seen
    /\ Cur.remote_pfreq = remote_pfreq /\ Cur.needed = needed /\ Cur.local_pavail = local_pavail
    /\ Cur.dling = dling /\ Cur.hashing = hashing /\ Cur.block_db = block_db
    /\ Cur.writing = writing /\ Cur.written = written /\ Cur.corrupt = corrupt
    /\ Cur.pending = pending /\ Cur.expired = expired /\ Cur.wire = wire
    /\ Cur.zerotimer = zerotimer
BY DEF Cur

LEMMA KeptKeeps == ASSUME NEW s, NEW t, Kept(s, t) PROVE Keeps(s, t)
BY DEF Kept, Keeps

\* A handler that ends in a good record ends in a good state.
LEMMA BecomeOk ==
    \A t : Ok(t) /\ Keeps(Cur, t) /\ Become(t) => IndInv' /\ Keeps(Cur, Cur')
<1> SUFFICES ASSUME NEW t, Ok(t), Keeps(Cur, t), Become(t) PROVE IndInv' /\ Keeps(Cur, Cur')
  OBVIOUS
<1>1. t \in Rec
  BY DEF Ok, Core
<1>2. t = [full_db |-> t.full_db, ecnx_db |-> t.ecnx_db, remote_pavail |-> t.remote_pavail,
           other_doauth |-> t.other_doauth, bfield_seen |-> t.bfield_seen,
           remote_pfreq |-> t.remote_pfreq, needed |-> t.needed,
           local_pavail |-> t.local_pavail, dling |-> t.dling, hashing |-> t.hashing,
           block_db |-> t.block_db, writing |-> t.writing, written |-> t.written,
           corrupt |-> t.corrupt, pending |-> t.pending, expired |-> t.expired,
           wire |-> t.wire, zerotimer |-> t.zerotimer]
  BY <1>1 DEF Rec
<1>3. Cur' = t
  BY <1>2, Zenon DEF Cur, Become
<1>4. IndInv'
  BY <1>3 DEF IndInv
<1> QED BY <1>3, <1>4

\* The connections to peers.
LEMMA CnxOpenedInv ==
    ASSUME IndInv, NEW c \in Full, CnxOpened(c)
    PROVE  IndInv' /\ Keeps(Cur, Cur')
<1>1. Ok(Cur) /\ ~Member(Cur.full_db, c)
  BY CurFields DEF IndInv, CnxOpened, IsFullCnx
<1>2. PICK t : t = [Cur EXCEPT !.full_db = Append(@, c)]
  OBVIOUS
<1>3. Ok(t) /\ Keeps(Cur, t)
  BY <1>1, <1>2, OpenedOk, KeptKeeps
<1>4. Become(t)
  BY <1>2 DEF CnxOpened
<1> QED BY <1>3, <1>4, BecomeOk

LEMMA CnxClosedInv ==
    ASSUME IndInv, NEW c \in Full, CnxClosed(c)
    PROVE  IndInv' /\ Keeps(Cur, Cur')
<1>1. Ok(Cur) /\ c \in Cnx
  BY CnxFacts DEF IndInv
<1>2. PICK t \in CnxClosedFrom(Cur, c) : Become(t)
  BY DEF CnxClosed
<1>3. Ok(t) /\ Keeps(Cur, t)
  BY <1>1, CnxClosedFromOk, KeptKeeps
<1> QED BY <1>2, <1>3, BecomeOk

LEMMA UnauthReqInv ==
    ASSUME IndInv, NEW c \in Full, UnauthReq(c)
    PROVE  IndInv' /\ Keeps(Cur, Cur')
<1>1. Ok(Cur)
  BY DEF IndInv
<1>2. PICK u : u = DeleteRequests([Cur EXCEPT !.other_doauth[c] = FALSE, !.wire[c] = {}],
                                  Requests(Cur, c))
  OBVIOUS
<1>3. Ok(u) /\ Kept(Cur, u)
  BY <1>1, <1>2, UnauthOk
<1>4. PICK t \in TrySendRequestOnIdleCnx(u) : Become(t)
  BY <1>2 DEF UnauthReq
<1>5. Ok(t) /\ Keeps(Cur, t)
  BY <1>3, IdleOk, KeptTrans, KeptKeeps
<1> QED BY <1>4, <1>5, BecomeOk

LEMMA DoauthReqInv ==
    ASSUME IndInv, NEW c \in Full, DoauthReq(c)
    PROVE  IndInv' /\ Keeps(Cur, Cur')
<1>1. Ok(Cur) /\ OpenIn(Cur, c) /\ c \in Cnx
  BY CurFields, CnxFacts DEF IndInv, DoauthReq, IsFullCnx, OpenIn
<1>2. PICK u : u = [Cur EXCEPT !.other_doauth[c] = TRUE]
  OBVIOUS
<1>3. Ok(u) /\ Kept(Cur, u)
  BY <1>1, <1>2, DoauthOk
<1>4. PICK t \in TrySendRequest(u, c) : Become(t)
  BY <1>2 DEF DoauthReq
<1>5. Ok(t) /\ Keeps(Cur, t)
  BY <1>1, <1>3, TrySendOk, KeptTrans, KeptKeeps
<1> QED BY <1>4, <1>5, BecomeOk

\* What follows a change of the pieces a peer offers.
LEMMA TryThenCloseOk ==
    ASSUME NEW s, NEW u, Ok(u), Kept(s, u), NEW c \in Cnx, NEW t \in TrySendRequest(u, c),
           NEW v \in CloseBetweenSeeds(t, c)
    PROVE  Ok(v) /\ Keeps(s, v)
<1>1. Ok(t) /\ Kept(u, t)
  BY TrySendOk
<1>2. Ok(v) /\ Kept(t, v)
  BY <1>1, CloseBetweenSeedsOk
<1> QED BY <1>1, <1>2, KeptTrans, KeptKeeps

LEMMA PieceBfieldInv ==
    ASSUME IndInv, NEW c \in Full, NEW P \in SUBSET Piece, PieceBfield(c, P)
    PROVE  IndInv' /\ Keeps(Cur, Cur')
<1>1. Ok(Cur) /\ OpenIn(Cur, c) /\ c \in Cnx /\ (c \notin Cur.bfield_seen \/ ~BfieldFirst)
  BY CurFields, CnxFacts DEF IndInv, PieceBfield, IsFullCnx, OpenIn, BfieldFirst
<1>2. PICK u : u = PfreqAdd([Cur EXCEPT !.remote_pavail[c] = P, !.bfield_seen = @ \cup {c}], P)
  OBVIOUS
<1>3. Ok(u) /\ Kept(Cur, u)
  BY <1>1, <1>2, BfieldOk
<1>4. PICK t \in TrySendRequest(u, c) : \E v \in CloseBetweenSeeds(t, c) : Become(v)
  BY <1>2 DEF PieceBfield
<1>5. PICK v \in CloseBetweenSeeds(t, c) : Become(v)
  BY <1>4
<1>6. Ok(v) /\ Keeps(Cur, v)
  BY <1>1, <1>3, TryThenCloseOk
<1> QED BY <1>5, <1>6, BecomeOk

LEMMA PieceIsavailInv ==
    ASSUME IndInv, NEW c \in Full, NEW p \in Piece, PieceIsavail(c, p)
    PROVE  IndInv' /\ Keeps(Cur, Cur')
<1>1. Ok(Cur) /\ OpenIn(Cur, c) /\ c \in Cnx /\ p \notin Cur.remote_pavail[c]
  BY CurFields, CnxFacts DEF IndInv, PieceIsavail, IsFullCnx, OpenIn
<1>2. c \in Cur.bfield_seen \/ ~BfieldFirst
  BY CurFields DEF PieceIsavail, BfieldFirst
<1>3. PICK u : u = PfreqAdd([Cur EXCEPT !.remote_pavail[c] = @ \cup {p}], {p})
  OBVIOUS
<1>4. Ok(u) /\ Kept(Cur, u)
  BY <1>1, <1>2, <1>3, IsavailOk
<1>5. PICK t \in TrySendRequest(u, c) : \E v \in CloseBetweenSeeds(t, c) : Become(v)
  BY <1>3 DEF PieceIsavail
<1>6. PICK v \in CloseBetweenSeeds(t, c) : Become(v)
  BY <1>5
<1>7. Ok(v) /\ Keeps(Cur, v)
  BY <1>1, <1>4, TryThenCloseOk
<1> QED BY <1>6, <1>7, BecomeOk

LEMMA PieceUnavailInv ==
    ASSUME IndInv, NEW c \in Full, NEW p \in Piece, PieceUnavail(c, p)
    PROVE  IndInv' /\ Keeps(Cur, Cur')
<1>1. Ok(Cur) /\ c \in Cnx /\ p \in Cur.remote_pavail[c]
  BY CurFields, CnxFacts DEF IndInv, PieceUnavail
<1>2. PICK u : u = DeleteRequests(PfreqSub([Cur EXCEPT !.remote_pavail[c] = @ \ {p}], {p}),
                                  {c} \X Blocks(p))
  OBVIOUS
<1>3. Ok(u) /\ Kept(Cur, u)
  BY <1>1, <1>2, UnavailOk
<1>4. PICK t \in TrySendRequest(u, c) : Become(t)
  BY <1>2 DEF PieceUnavail
<1>5. Ok(t) /\ Keeps(Cur, t)
  BY <1>1, <1>3, TrySendOk, KeptTrans, KeptKeeps
<1> QED BY <1>4, <1>5, BecomeOk

\* A reply leaves the wire.
LEMMA WireShrinkOk ==
    ASSUME NEW s, Ok(s), NEW c \in Full, NEW b
    PROVE  LET t == [s EXCEPT !.wire[c] = @ \ {b}]
           IN  Ok(t) /\ Kept(s, t) /\ t.corrupt = s.corrupt
<1> DEFINE W == s.wire[c] \ {b}
           Z == s.zerotimer
           t == [s EXCEPT !.wire[c] = W, !.zerotimer = Z]
           v == [s EXCEPT !.wire[c] = @ \ {b}]
<1>1. s \in Rec /\ c \in Cnx /\ c \notin Ecnx
  BY CnxFacts DEF Ok, Core
<1>2. W \in SUBSET Block /\ Z \in SUBSET ({"next", "kill"} \X Ecnx)
  BY <1>1 DEF Rec
<1>3. t = v
  BY <1>1 DEF Rec
<1>4. v.corrupt = s.corrupt
  BY <1>1 DEF Rec
<1>5. \A d \in Ecnx \ {c} : <<"next", d>> \in s.zerotimer => <<"next", d>> \in Z
  OBVIOUS
<1> HIDE DEF W, Z, v
<1>6. Ok(t) /\ Kept(s, t)
  BY <1>1, <1>2, <1>5, WireOk
<1>7. Ok(v) /\ Kept(s, v)
  BY <1>3, <1>6
<1> QED BY <1>4, <1>7 DEF v

\* A block that is requested is still to come.
LEMMA ReqedIsToCome ==
    ASSUME NEW s, Ok(s), NEW c, NEW b, IsReqedBy(s, b, c)
    PROVE  b \in s.block_db
<1>1. Live(s, <<c, b>>)
  BY DEF Ok, Core, Req, IsReqedBy
<1> QED BY <1>1 DEF Live

LEMMA NotifyCompleteOk ==
    ASSUME NEW s, Ok(s), NEW c, NEW b, IsReqedBy(s, b, c), NEW ok
    PROVE  LET t == NotifyCompleteFrom(s, b, ok) IN Ok(t) /\ Kept(s, t)
<1> DEFINE R == {b}
           C == IF ok THEN s.corrupt ELSE s.corrupt \cup R
           u == DeleteRequests(s, Cnx \X R)
<1>1. s \in Rec /\ R \subseteq s.block_db
  BY ReqedIsToCome DEF Ok, Core
<1>2. s.corrupt \subseteq C /\ C \subseteq s.corrupt \cup R
  OBVIOUS
<1>3. u.corrupt = s.corrupt
  BY <1>1, DeleteRequestsFields DEF SameDisk
<1>4. NotifyCompleteFrom(s, b, ok) = Complete(s, R, C)
  BY <1>3 DEF NotifyCompleteFrom, Complete
<1> HIDE DEF R, C
<1>5. Ok(Complete(s, R, C)) /\ Kept(s, Complete(s, R, C))
  BY <1>1, <1>2, CompleteOk
<1> QED BY <1>4, <1>5

LEMMA BlockRepInv ==
    ASSUME IndInv, NEW c \in Full, NEW b, NEW ok, BlockRep(c, b, ok)
    PROVE  IndInv' /\ Keeps(Cur, Cur')
<1>1. Ok(Cur) /\ c \in Cnx
  BY CnxFacts DEF IndInv
<1>2. PICK s : s = [Cur EXCEPT !.wire[c] = @ \ {b}]
  OBVIOUS
<1>3. Ok(s) /\ Kept(Cur, s)
  BY <1>1, <1>2, WireShrinkOk
<1>4. IF ~IsReqedBy(s, b, c) THEN Become(s)
      ELSE \E t \in TrySendRequest(NotifyCompleteFrom(s, b, ok), c) : Become(t)
  BY <1>2 DEF BlockRep
<1>5. CASE ~IsReqedBy(s, b, c)
  BY <1>3, <1>4, <1>5, KeptKeeps, BecomeOk
<1>6. CASE IsReqedBy(s, b, c)
  <2>1. PICK u : u = NotifyCompleteFrom(s, b, ok)
    OBVIOUS
  <2>2. Ok(u) /\ Kept(s, u)
    BY <1>3, <1>6, <2>1, NotifyCompleteOk
  <2>3. PICK t \in TrySendRequest(u, c) : Become(t)
    BY <1>4, <1>6, <2>1
  <2>4. Ok(t) /\ Kept(u, t)
    BY <1>1, <2>2, TrySendOk
  <2>5. Keeps(Cur, t)
    BY <1>3, <2>2, <2>4, KeptTrans, KeptKeeps
  <2> QED BY <2>3, <2>4, <2>5, BecomeOk
<1> QED BY <1>5, <1>6

\* The connections to servers.
LEMMA EcnxOpenedInv ==
    ASSUME IndInv, NEW c \in Ecnx, NEW P \in SUBSET Piece, EcnxOpened(c, P)
    PROVE  IndInv' /\ Keeps(Cur, Cur')
<1>1. Ok(Cur) /\ c \in Cnx /\ ~Member(Cur.ecnx_db, c)
  BY CurFields, CnxFacts DEF IndInv, EcnxOpened, IsEcnx
<1>2. PICK u : u = PfreqAdd([Cur EXCEPT !.ecnx_db = Append(@, c), !.remote_pavail[c] = P,
                                        !.other_doauth[c] = TRUE], P)
  OBVIOUS
<1>3. Ok(u) /\ Kept(Cur, u)
  BY <1>1, <1>2, EcnxOpenedOk
<1>4. PICK t \in TrySendRequest(u, c) : Become(t)
  BY <1>2 DEF EcnxOpened
<1>5. Ok(t) /\ Keeps(Cur, t)
  BY <1>1, <1>3, TrySendOk, KeptTrans, KeptKeeps
<1> QED BY <1>4, <1>5, BecomeOk

LEMMA EcnxClosedInv ==
    ASSUME IndInv, NEW c \in Ecnx, EcnxClosed(c)
    PROVE  IndInv' /\ Keeps(Cur, Cur')
<1>1. Ok(Cur) /\ c \in Cnx /\ remote_pavail = Cur.remote_pavail
  BY CurFields, CnxFacts DEF IndInv
<1>2. PICK t \in TrySendRequestOnIdleCnx(CnxDtor(PfreqSub(Cur, Cur.remote_pavail[c]), c)) : Become(t)
  BY <1>1 DEF EcnxClosed
<1>3. Ok(t) /\ Keeps(Cur, t)
  BY <1>1, EcnxClosedOk, KeptKeeps
<1> QED BY <1>2, <1>3, BecomeOk

\* launch_next_iov asks for blocks there are requests of.
LEMMA NextIovOk ==
    ASSUME NEW s, Ok(s), NEW c \in Ecnx, NEW W, 
           \/ W = s.wire[c] /\ (Requests(s, c) = {} \/ s.wire[c] # {})
           \/ W \in GatheredIovs({r[2] : r \in Requests(s, c)})
    PROVE  LET t == [s EXCEPT !.wire[c] = W, !.zerotimer = @ \ {<<"next", c>>}]
           IN  Ok(t) /\ Kept(s, t)
<1> DEFINE Z == s.zerotimer \ {<<"next", c>>}
           t == [s EXCEPT !.wire[c] = W, !.zerotimer = Z]
<1>1. s \in Rec /\ c \in Cnx
  BY CnxFacts DEF Ok, Core
<1>2. \A r \in Requests(s, c) : r[2] \in Block
  BY <1>1, RequestsFacts
<1>3. W \in SUBSET Block /\ (Requests(s, c) # {} => W # {})
  BY <1>1, <1>2 DEF Rec, GatheredIovs
<1>4. Z \in SUBSET ({"next", "kill"} \X Ecnx)
  BY <1>1 DEF Rec
<1>5. \A d \in Ecnx \ {c} : <<"next", d>> \in s.zerotimer => <<"next", d>> \in Z
  OBVIOUS
<1> HIDE DEF Z
<1>6. Ok(t) /\ Kept(s, t)
  BY <1>1, <1>3, <1>4, <1>5, WireOk
<1> QED BY <1>6 DEF Z

LEMMA NextIovInv ==
    ASSUME IndInv, NEW c \in Ecnx, NextIov(c)
    PROVE  IndInv' /\ Keeps(Cur, Cur')
<1>1. Ok(Cur) /\ Cur \in Rec /\ wire = Cur.wire
  BY CurFields DEF IndInv, Ok, Core
<1>2. PICK s : s = [Cur EXCEPT !.zerotimer = @ \ {<<"next", c>>}]
  OBVIOUS
<1>3. /\ s = [Cur EXCEPT !.wire[c] = Cur.wire[c], !.zerotimer = @ \ {<<"next", c>>}]
      /\ \A W : [s EXCEPT !.wire[c] = W]
                    = [Cur EXCEPT !.wire[c] = W, !.zerotimer = @ \ {<<"next", c>>}]
      /\ s.pending = Cur.pending /\ s.expired = Cur.expired
  BY <1>1, <1>2 DEF Rec
<1>4. Requests(s, c) = Requests(Cur, c)
  BY <1>3 DEF Requests
<1>5. PICK R : R = {r[2] : r \in Requests(Cur, c)}
  OBVIOUS
<1>6. IF R = {} \/ Cur.wire[c] # {} THEN Become(s)
      ELSE \E G \in GatheredIovs(R) : Become([s EXCEPT !.wire[c] = G])
  BY <1>1, <1>2, <1>4, <1>5 DEF NextIov
<1>7. CASE R = {} \/ Cur.wire[c] # {}
  <2>1. Requests(Cur, c) = {} \/ Cur.wire[c] # {}
    BY <1>5, <1>7
  <2>2. PICK W : W = Cur.wire[c]
    OBVIOUS
  <2>3. Ok(s) /\ Keeps(Cur, s)
    BY <1>1, <1>3, <2>1, <2>2, NextIovOk, KeptKeeps
  <2> QED BY <1>6, <1>7, <2>3, BecomeOk
<1>8. CASE ~(R = {} \/ Cur.wire[c] # {})
  <2>1. PICK G \in GatheredIovs(R) : Become([s EXCEPT !.wire[c] = G])
    BY <1>6, <1>8
  <2>2. PICK t : t = [s EXCEPT !.wire[c] = G]
    OBVIOUS
  <2>3. t = [Cur EXCEPT !.wire[c] = G, !.zerotimer = @ \ {<<"next", c>>}]
    BY <1>3, <2>2
  <2>4. G \in GatheredIovs({r[2] : r \in Requests(Cur, c)})
    BY <1>5, <2>1
  <2>5. Ok(t) /\ Kept(Cur, t)
    BY <1>1, <2>3, <2>4, NextIovOk
  <2> QED BY <2>1, <2>2, <2>5, KeptKeeps, BecomeOk
<1> QED BY <1>7, <1>8

LEMMA KillIovOk ==
    ASSUME NEW s, Ok(s), NEW c \in Ecnx
    PROVE  LET t == [s EXCEPT !.zerotimer = @ \ {<<"kill", c>>},
                              !.wire[c] = IF Requests(s, c) = {} THEN {} ELSE @]
           IN  Ok(t) /\ Kept(s, t)
<1> DEFINE Z == s.zerotimer \ {<<"kill", c>>}
           W == IF Requests(s, c) = {} THEN {} ELSE s.wire[c]
           t == [s EXCEPT !.wire[c] = W, !.zerotimer = Z]
           v == [s EXCEPT !.zerotimer = @ \ {<<"kill", c>>},
                          !.wire[c] = IF Requests(s, c) = {} THEN {} ELSE @]
<1>1. s \in Rec /\ c \in Cnx /\ Iov(s)
  BY CnxFacts DEF Ok, Core
<1>2. v = t
  BY <1>1 DEF Rec
<1>3. W \in SUBSET Block /\ Z \in SUBSET ({"next", "kill"} \X Ecnx)
  BY <1>1 DEF Rec
<1>4. \A d : <<"next", d>> \in s.zerotimer => <<"next", d>> \in Z
  OBVIOUS
<1>5. Requests(s, c) # {} => W # {} \/ <<"next", c>> \in Z
  BY <1>1, <1>4 DEF Iov
<1> HIDE DEF Z, W, v
<1>6. Ok(t) /\ Kept(s, t)
  BY <1>1, <1>3, <1>4, <1>5, WireOk
<1>7. Ok(v) /\ Kept(s, v)
  BY <1>2, <1>6
<1> QED BY <1>7 DEF v

LEMMA KillIovInv ==
    ASSUME IndInv, NEW c \in Ecnx, KillIov(c)
    PROVE  IndInv' /\ Keeps(Cur, Cur')
<1>1. Ok(Cur)
  BY DEF IndInv
<1>2. PICK t : t = [Cur EXCEPT !.zerotimer = @ \ {<<"kill", c>>},
                               !.wire[c] = IF Requests(Cur, c) = {} THEN {} ELSE @]
  OBVIOUS
<1>3. Ok(t) /\ Keeps(Cur, t)
  BY <1>1, <1>2, KillIovOk, KeptKeeps
<1>4. Become(t)
  BY <1>2 DEF KillIov
<1> QED BY <1>3, <1>4, BecomeOk

\* process_iov_data
LEMMA ProcessIovDataOk ==
    ASSUME NEW s, Ok(s), NEW c, NEW G, NEW bad
    PROVE  LET t == ProcessIovData(s, c, G, bad)
           IN  Ok(t) /\ Kept(s, t) /\ s.zerotimer \subseteq t.zerotimer
<1> DEFINE R == {b \in G : IsReqedBy(s, b, c)}
           C == s.corrupt \cup (R \cap bad)
           u == DeleteRequests(s, Cnx \X R)
<1>1. s \in Rec /\ R \subseteq s.block_db
  BY ReqedIsToCome DEF Ok, Core
<1>2. s.corrupt \subseteq C /\ C \subseteq s.corrupt \cup R
  OBVIOUS
<1>3. u.corrupt = s.corrupt
  BY <1>1, DeleteRequestsFields DEF SameDisk
<1>4. ProcessIovData(s, c, G, bad) = Complete(s, R, C)
  BY <1>3 DEF ProcessIovData, Complete
<1> HIDE DEF R, C
<1>5. /\ Ok(Complete(s, R, C)) /\ Kept(s, Complete(s, R, C))
      /\ s.zerotimer \subseteq Complete(s, R, C).zerotimer
  BY <1>1, <1>2, CompleteOk
<1> QED BY <1>4, <1>5

LEMMA EcnxProgressInv ==
    ASSUME IndInv, NEW c \in Ecnx, NEW b, NEW bad, EcnxProgress(c, b, bad)
    PROVE  IndInv' /\ Keeps(Cur, Cur')
<1>1. Ok(Cur)
  BY DEF IndInv
<1>2. PICK G : G = UpTo(c, b)
  OBVIOUS
<1>3. PICK t : t = ProcessIovData(Cur, c, G, bad)
  OBVIOUS
<1>4. Ok(t) /\ Keeps(Cur, t)
  BY <1>1, <1>3, ProcessIovDataOk, KeptKeeps
<1>5. Become(t)
  BY <1>2, <1>3 DEF EcnxProgress
<1> QED BY <1>4, <1>5, BecomeOk

\* The zero-timer that asks for the next answer starts.
LEMMA NextTimerOk ==
    ASSUME NEW s, Ok(s), NEW c \in Ecnx
    PROVE  LET y == [s EXCEPT !.zerotimer = @ \cup {<<"next", c>>}]
           IN  Ok(y) /\ Kept(s, y) /\ <<"next", c>> \in y.zerotimer
<1> DEFINE Z == s.zerotimer \cup {<<"next", c>>}
           W == s.wire[c]
           a == [s EXCEPT !.wire[c] = W, !.zerotimer = Z]
           y == [s EXCEPT !.zerotimer = @ \cup {<<"next", c>>}]
<1>1. s \in Rec /\ c \in Cnx
  BY CnxFacts DEF Ok, Core
<1>2. y = a
  BY <1>1 DEF Rec
<1>3. W \in SUBSET Block /\ Z \in SUBSET ({"next", "kill"} \X Ecnx) /\ <<"next", c>> \in Z
  BY <1>1 DEF Rec
<1>4. \A d : <<"next", d>> \in s.zerotimer => <<"next", d>> \in Z
  OBVIOUS
<1>5. Requests(s, c) # {} => W # {} \/ <<"next", c>> \in Z
  BY <1>3
<1>6. <<"next", c>> \in y.zerotimer
  BY <1>1 DEF Rec
<1> HIDE DEF Z, W, y
<1>7. Ok(a) /\ Kept(s, a)
  BY <1>1, <1>3, <1>4, <1>5, WireOk
<1>8. Ok(y) /\ Kept(s, y) /\ <<"next", c>> \in y.zerotimer
  BY <1>2, <1>7, <1>6
<1> QED BY <1>8 DEF y

\* The whole answer has come: the zero-timer that asks for the next one outlives
\* the requests the empty BLOCK_REP sends.
LEMMA IovDoneOk ==
    ASSUME NEW s, Ok(s), NEW c \in Ecnx, NEW G, NEW bad, NEW u,
           u = ProcessIovData([s EXCEPT !.zerotimer = @ \cup {<<"next", c>>}], c, G, bad),
           NEW t \in TrySendRequest(u, c)
    PROVE  LET v == [t EXCEPT !.wire[c] = {}] IN Ok(v) /\ Kept(s, v)
<1>1. c \in Cnx
  BY CnxFacts
<1>2. PICK y : y = [s EXCEPT !.zerotimer = @ \cup {<<"next", c>>}]
  OBVIOUS
<1>3. Ok(y) /\ Kept(s, y) /\ <<"next", c>> \in y.zerotimer
  BY <1>2, NextTimerOk
<1>4. Ok(u) /\ Kept(y, u) /\ <<"next", c>> \in u.zerotimer
  BY <1>2, <1>3, ProcessIovDataOk
<1>5. Ok(t) /\ Kept(u, t)
  BY <1>1, <1>4, TrySendOk
<1>6. t \in Rec /\ <<"next", c>> \in t.zerotimer
  BY <1>1, <1>4, <1>5, TrySendRequestCore DEF Ok, Core, Frame
<1> DEFINE E == {}
           X == t.zerotimer
           q == [t EXCEPT !.wire[c] = E, !.zerotimer = X]
           v == [t EXCEPT !.wire[c] = {}]
<1>7. q = v
  BY <1>6 DEF Rec
<1>8. E \in SUBSET Block /\ X \in SUBSET ({"next", "kill"} \X Ecnx) /\ <<"next", c>> \in X
  BY <1>6 DEF Rec
<1>9. \A d : <<"next", d>> \in t.zerotimer => <<"next", d>> \in X
  OBVIOUS
<1> HIDE DEF E, X, v
<1>10. Ok(q) /\ Kept(t, q)
  BY <1>1, <1>5, <1>8, <1>9, WireOk
<1>11. Ok(v) /\ Kept(t, v)
  BY <1>7, <1>10
<1>12. Kept(s, v)
  BY <1>3, <1>4, <1>5, <1>11, KeptTrans
<1> QED BY <1>11, <1>12 DEF v

LEMMA EcnxIovDoneInv ==
    ASSUME IndInv, NEW c \in Ecnx, NEW bad, EcnxIovDone(c, bad)
    PROVE  IndInv' /\ Keeps(Cur, Cur')
<1>1. Ok(Cur)
  BY DEF IndInv
<1>2. PICK G : G = wire[c]
  OBVIOUS
<1>3. PICK u : u = ProcessIovData([Cur EXCEPT !.zerotimer = @ \cup {<<"next", c>>}], c, G, bad)
  OBVIOUS
<1>4. PICK t \in TrySendRequest(u, c) : Become([t EXCEPT !.wire[c] = {}])
  BY <1>2, <1>3 DEF EcnxIovDone
<1>5. PICK v : v = [t EXCEPT !.wire[c] = {}]
  OBVIOUS
<1>6. Ok(v) /\ Keeps(Cur, v)
  BY <1>1, <1>3, <1>5, IovDoneOk, KeptKeeps
<1> QED BY <1>4, <1>5, <1>6, BecomeOk

\* Requests, blocks and pieces.
LEMMA RequestTimeoutInv ==
    ASSUME IndInv, NEW c, NEW b, RequestTimeout(c, b)
    PROVE  IndInv' /\ Keeps(Cur, Cur')
<1>1. Ok(Cur)
  BY DEF IndInv
<1>2. PICK r : r = <<c, b>>
  OBVIOUS
<1>3. r \in Cur.pending
  BY <1>2, CurFields DEF RequestTimeout
<1>4. PICK t : t = [Cur EXCEPT !.pending = @ \ {r}, !.expired = @ \cup {r}]
  OBVIOUS
<1>5. Ok(t) /\ Keeps(Cur, t)
  BY <1>1, <1>3, <1>4, TimeoutOk, KeptKeeps
<1>6. Become(t)
  BY <1>2, <1>4 DEF RequestTimeout
<1> QED BY <1>5, <1>6, BecomeOk

LEMMA IoWriteDoneInv ==
    ASSUME IndInv, NEW b, IoWriteDone(b)
    PROVE  IndInv' /\ Keeps(Cur, Cur')
<1>1. Ok(Cur) /\ b \in Cur.writing
  BY CurFields DEF IndInv, IoWriteDone
<1>2. PICK u : u = [Cur EXCEPT !.writing = @ \ {b}, !.written = @ \cup {b}]
  OBVIOUS
<1>3. PICK t : t = [u EXCEPT !.hashing = IF Blocks(PieceOf(b)) \subseteq u.written
                                         THEN @ \cup {PieceOf(b)} ELSE @]
  OBVIOUS
<1>4. Ok(t) /\ Keeps(Cur, t)
  BY <1>1, <1>2, <1>3, WrittenOk
<1>5. Become(t)
  BY <1>2, <1>3 DEF IoWriteDone
<1> QED BY <1>4, <1>5, BecomeOk

LEMMA PieceHashedInv ==
    ASSUME IndInv, NEW p \in Piece, PieceHashed(p)
    PROVE  IndInv' /\ Keeps(Cur, Cur')
<1>1. Ok(Cur) /\ p \in Cur.hashing /\ corrupt = Cur.corrupt
  BY CurFields DEF IndInv, PieceHashed
<1>2. CASE DoPiecehash => Blocks(p) \cap Cur.corrupt = {}
  <2>1. PICK t : t = [Cur EXCEPT !.hashing = @ \ {p}, !.dling = @ \ {p}, !.local_pavail = @ \cup {p}]
    OBVIOUS
  <2>2. Ok(t) /\ Keeps(Cur, t)
    BY <1>1, <1>2, <2>1, HashedOk
  <2>3. Become(t)
    BY <1>1, <1>2, <2>1 DEF PieceHashed
  <2> QED BY <2>2, <2>3, BecomeOk
<1>3. CASE ~(DoPiecehash => Blocks(p) \cap Cur.corrupt = {})
  <2>1. PICK t : t = DeletePieces(Cur, {p})
    OBVIOUS
  <2>2. Ok(t) /\ Keeps(Cur, t)
    BY <1>1, <2>1, HashFailedOk
  <2>3. Become(t)
    BY <1>1, <1>3, <2>1 DEF PieceHashed
  <2> QED BY <2>2, <2>3, BecomeOk
<1> QED BY <1>2, <1>3

LEMMA PieceprecChangeInv ==
    ASSUME IndInv, NEW N \in Wanted, PieceprecChange(N)
    PROVE  IndInv' /\ Keeps(Cur, Cur')
<1>1. Ok(Cur) /\ N \in SUBSET Piece /\ dling = Cur.dling
  BY CurFields, SwarmSchedAssumption DEF IndInv
<1>2. PICK t \in TrySendRequestOnIdleCnx(DeletePieces([Cur EXCEPT !.needed = N], Cur.dling \ N)) : Become(t)
  BY <1>1 DEF PieceprecChange
<1>3. Ok(t) /\ Keeps(Cur, t)
  BY <1>1, PrecChangeOk
<1> QED BY <1>2, <1>3, BecomeOk

LEMMA PieceNomoreAvailInv ==
    ASSUME IndInv, NEW p \in Piece, PieceNomoreAvail(p)
    PROVE  IndInv' /\ Keeps(Cur, Cur')
<1>1. Ok(Cur) /\ p \in Cur.local_pavail /\ p \notin Cur.needed
  BY CurFields DEF IndInv, PieceNomoreAvail
<1>2. full_db \in Seq(Full)
  BY <1>1, CurFields DEF Ok, Core, Rec
<1>3. \E t \in Disconnected([Cur EXCEPT !.local_pavail = @ \ {p}, !.written = @ \ Blocks(p),
                                        !.corrupt = @ \ Blocks(p)], full_db) : Become(t)
  BY Zenon DEF PieceNomoreAvail, Disconnected
<1>4. PICK s : s = [Cur EXCEPT !.local_pavail = @ \ {p}, !.written = @ \ Blocks(p),
                               !.corrupt = @ \ Blocks(p)]
  OBVIOUS
<1>5. /\ Ok(s) /\ s.needed = Cur.needed /\ s.dling = Cur.dling
      /\ p \notin s.local_pavail
      /\ \A b \in Cur.written \ s.written : PieceOf(b) = p
  BY <1>1, <1>4, NomoreOk
<1>6. PICK t \in Disconnected(s, full_db) : Become(t)
  BY <1>3, <1>4
<1>7. Ok(t) /\ Kept(s, t)
  BY <1>2, <1>5, <1>6, NomoreWalk
<1>8. p \notin t.dling \cup t.local_pavail
  BY <1>1, <1>5, <1>7 DEF Ok, Kept
<1>9. Keeps(Cur, t)
  BY <1>5, <1>7, <1>8 DEF Keeps, Kept
<1> QED BY <1>6, <1>7, <1>9, BecomeOk

-----------------------------------------------------------------------------
(* The specification *)

\* A resumed session starts with what was on the disk, and checks what is complete.
LEMMA InitInv == ASSUME Init PROVE IndInv
<1>1. /\ Cur.full_db = <<>> /\ Cur.ecnx_db = <<>>
      /\ Cur.remote_pavail = [c \in Cnx |-> {}] /\ Cur.other_doauth = [c \in Cnx |-> FALSE]
      /\ Cur.bfield_seen = {} /\ Cur.remote_pfreq = [p \in Piece |-> 0]
      /\ Cur.needed = Piece /\ Cur.local_pavail = {}
      /\ Cur.pending = {} /\ Cur.expired = {} /\ Cur.wire = [c \in Cnx |-> {}]
      /\ Cur.zerotimer = {} /\ Cur.block_db = {} /\ Cur.writing = {}
  BY CurFields DEF Init
<1>2. Cur.written \subseteq Block /\ Cur.corrupt \subseteq Cur.written
  BY CurFields DEF Init
<1>3. /\ Cur.dling = {p \in Piece : Blocks(p) \cap Cur.written # {}}
      /\ Cur.hashing = {p \in Piece : Blocks(p) \subseteq Cur.written}
  BY CurFields DEF Init
<1>4. Cur \in Rec
  <2>1. /\ full_db \in Seq(Full) /\ ecnx_db \in Seq(Ecnx)
        /\ remote_pavail \in [Cnx -> SUBSET Piece] /\ other_doauth \in [Cnx -> BOOLEAN]
        /\ bfield_seen \in SUBSET Full /\ remote_pfreq \in [Piece -> Nat]
    BY DEF Init
  <2>2. /\ needed \in SUBSET Piece /\ local_pavail \in SUBSET Piece
        /\ dling \in SUBSET Piece /\ hashing \in SUBSET Piece
        /\ block_db \in SUBSET Block /\ writing \in SUBSET Block
        /\ written \in SUBSET Block /\ corrupt \in SUBSET Block
    BY DEF Init
  <2>3. /\ pending \in SUBSET (Cnx \X Block) /\ expired \in SUBSET (Cnx \X Block)
        /\ wire \in [Cnx -> SUBSET Block] /\ zerotimer \in SUBSET ({"next", "kill"} \X Ecnx)
    BY DEF Init
  <2> QED BY <2>1, <2>2, <2>3 DEF Rec, Cur
<1>5. PICK s : s = Cur
  OBVIOUS
<1>6. Disk(s)
  <2>1. \A p \in Piece : Blocks(p) # {}
    BY BlockFacts
  <2>2. s.hashing \subseteq s.dling
    BY <1>3, <1>5, <2>1
  <2>3. \A b \in s.written : PieceOf(b) \in s.dling
    BY <1>2, <1>3, <1>5, BlockFacts
  <2> QED BY <1>1, <1>2, <1>3, <1>5, <2>2, <2>3 DEF Disk
<1>7. \A c : ~OpenIn(s, c) /\ Requests(s, c) = {}
  BY <1>1, <1>5 DEF OpenIn, Member, Requests
<1>8. Req(s)
  <2>1. \A c \in Cnx : Cardinality(Requests(s, c)) = 0
    BY <1>7, FS_EmptySet
  <2>2. 0 <= ReqNbMax
    BY SwarmSchedAssumption
  <2>3. s.pending = {} /\ s.expired = {}
    BY <1>1, <1>5
  <2> QED BY <2>1, <2>2, <2>3 DEF Req
<1>9. Quiet(s)
  BY <1>1, <1>5, CnxFacts DEF Quiet
<1>10. Iov(s)
  BY <1>7 DEF Iov
<1>11. Pfreq(s)
  <2>1. \A p : Offering(s, p) = {}
    BY <1>7 DEF Offering
  <2> QED BY <1>1, <1>5, <2>1, FS_EmptySet DEF Pfreq
<1>12. s.dling \subseteq s.needed
  BY <1>1, <1>3, <1>5
<1> QED BY <1>4, <1>5, <1>6, <1>8, <1>9, <1>10, <1>11, <1>12 DEF IndInv, Ok, Core

\* Every handler keeps the invariant, and what is on the disk.
LEMMA NextInv == ASSUME IndInv, Next PROVE IndInv' /\ Keeps(Cur, Cur')
<1>1. ASSUME NEW c \in Full,
             \/ CnxOpened(c) \/ CnxClosed(c) \/ UnauthReq(c) \/ DoauthReq(c)
             \/ \E P \in SUBSET Piece : PieceBfield(c, P)
             \/ \E p \in Piece : PieceIsavail(c, p) \/ PieceUnavail(c, p)
             \/ \E b \in wire[c], ok \in Genuine : BlockRep(c, b, ok)
      PROVE  IndInv' /\ Keeps(Cur, Cur')
  BY <1>1, CnxOpenedInv, CnxClosedInv, UnauthReqInv, DoauthReqInv, PieceBfieldInv,
     PieceIsavailInv, PieceUnavailInv, BlockRepInv
<1>2. ASSUME NEW c \in Ecnx,
             \/ \E P \in SUBSET Piece : EcnxOpened(c, P)
             \/ EcnxClosed(c) \/ NextIov(c) \/ KillIov(c)
             \/ \E b \in wire[c] : \E bad \in CorruptSets(UpTo(c, b)) : EcnxProgress(c, b, bad)
             \/ \E bad \in CorruptSets(wire[c]) : EcnxIovDone(c, bad)
      PROVE  IndInv' /\ Keeps(Cur, Cur')
  BY <1>2, EcnxOpenedInv, EcnxClosedInv, NextIovInv, KillIovInv, EcnxProgressInv, EcnxIovDoneInv
<1>3. ASSUME NEW r \in pending, RequestTimeout(r[1], r[2]) PROVE IndInv' /\ Keeps(Cur, Cur')
  BY <1>3, RequestTimeoutInv
<1>4. ASSUME NEW b \in Block, IoWriteDone(b) PROVE IndInv' /\ Keeps(Cur, Cur')
  BY <1>4, IoWriteDoneInv
<1>5. ASSUME NEW p \in Piece, PieceHashed(p) \/ PieceNomoreAvail(p)
      PROVE  IndInv' /\ Keeps(Cur, Cur')
  BY <1>5, PieceHashedInv, PieceNomoreAvailInv
<1>6. ASSUME NEW N \in Wanted, PieceprecChange(N) PROVE IndInv' /\ Keeps(Cur, Cur')
  BY <1>6, PieceprecChangeInv
<1> QED BY <1>1, <1>2, <1>3, <1>4, <1>5, <1>6 DEF Next

LEMMA StutterInv == ASSUME IndInv, UNCHANGED vars PROVE IndInv' /\ Keeps(Cur, Cur')
<1>1. Cur' = Cur
  BY DEF vars, Cur
<1>2. IndInv'
  BY <1>1 DEF IndInv
<1> QED BY <1>1, <1>2 DEF Keeps

-----------------------------------------------------------------------------
(* Theorems *)

\* The inductive invariant: through every chain of handlers, the requests, the
\* blocks, the pieces, the offers of the connections and the zero-timers of the
\* servers agree (bt_swarm_sched_full_t, bt_swarm_sched_ecnx_t).
THEOREM Invariance == Spec => []IndInv
<1>1. Init => IndInv
  BY InitInv
<1>2. IndInv /\ [Next]_vars => IndInv'
  BY NextInv, StutterInv
<1> QED BY <1>1, <1>2, PTL DEF Spec

\* The fields of the scheduler keep their types, remote_pfreq never goes below
\* zero, and what a bt_piece_cpuhash_t checks is a piece that still exists.
THEOREM TypeCorrect == Spec => []TypeOK
<1>1. ASSUME IndInv PROVE TypeOK
  <2>1. Cur \in Rec /\ Disk(Cur)
    BY <1>1 DEF IndInv, Ok, Core
  <2> QED BY <2>1, CurFields DEF Rec, Disk, TypeOK
<1> QED BY <1>1, Invariance, PTL

\* While a peer announces its bitfield once and first, a request is on an open connection
\* that accepts it and offers its piece, for a block still to come, whatever closes,
\* is refused, completes elsewhere or is not needed any more.
THEOREM RequestsAreLive == "bfield_late" \notin Adversity => (Spec => []RequestsLive)
<1> SUFFICES ASSUME BfieldFirst PROVE Spec => []RequestsLive
  BY DEF BfieldFirst
<1>1. ASSUME IndInv PROVE RequestsLive
  <2> SUFFICES ASSUME NEW r \in pending \cup expired
               PROVE  /\ Open(r[1]) /\ other_doauth[r[1]]
                      /\ PieceOf(r[2]) \in remote_pavail[r[1]] \cap dling \cap needed
                      /\ r[2] \in block_db
    BY DEF RequestsLive
  <2>1. Live(Cur, r) /\ Disk(Cur) /\ Cur.dling \subseteq Cur.needed
    BY <1>1, CurFields DEF IndInv, Ok, Core, Req
  <2>2. Open(r[1]) /\ other_doauth[r[1]] /\ r[2] \in block_db
    BY <2>1, CurFields DEF Live, OpenIn, Open, IsFullCnx, IsEcnx
  <2>3. PieceOf(r[2]) \in remote_pavail[r[1]]
    BY <2>1, CurFields DEF Live
  <2>4. PieceOf(r[2]) \in dling /\ dling \subseteq needed
    BY <2>1, <2>2, CurFields DEF Disk
  <2> QED BY <2>2, <2>3, <2>4
<1> QED BY <1>1, Invariance, PTL

\* No two requests of a block are pending, and no connection has more requests than
\* its queue may hold, those that timed out included (state_cpu, try_send_request).
THEOREM LimitsKept == Spec => []RequestLimits
<1>1. ASSUME IndInv PROVE RequestLimits
  <2>1. Req(Cur)
    BY <1>1 DEF IndInv, Ok, Core
  <2>2. ASSUME NEW b \in Block PROVE Cardinality({c \in Cnx : <<c, b>> \in pending}) <= 1
    <3> DEFINE A == {c \in Cnx : <<c, b>> \in pending}
    <3>1. \A c, d \in A : c = d
      BY <2>1, CurFields DEF Req
    <3> HIDE DEF A
    <3>2. A = {} => Cardinality(A) = 0
      BY FS_EmptySet
    <3>3. ASSUME A # {} PROVE Cardinality(A) = 1
      <4>1. PICK c : A = {c}
        BY <3>1, <3>3
      <4> QED BY <4>1, FS_Singleton
    <3>4. Cardinality(A) <= 1
      BY <3>2, <3>3
    <3> QED BY <3>4 DEF A
  <2> QED BY <2>1, <2>2 DEF RequestLimits, Req
<1> QED BY <1>1, Invariance, PTL

\* A piece that is announced has all its content on the disk, the one its hash
\* stands for, whatever the connections sent (neoip_bt_piece_cpuhash_cb).
THEOREM AvailIsVerified == Spec => []AvailVerified
<1>1. ASSUME IndInv PROVE AvailVerified
  <2>1. Disk(Cur)
    BY <1>1 DEF IndInv, Ok, Core
  <2> QED BY <2>1, CurFields DEF Disk, AvailVerified
<1> QED BY <1>1, Invariance, PTL

\* A piece in progress is being checked exactly when all of it is on the disk, from
\* the resumed session on (notify_block_completion, partavail_piece_ctor).
THEOREM DownloadedChecked == Spec => []DownloadedIsChecked
<1>1. ASSUME IndInv PROVE DownloadedIsChecked
  <2>1. Disk(Cur)
    BY <1>1 DEF IndInv, Ok, Core
  <2> QED BY <2>1, CurFields DEF Disk, DownloadedIsChecked
<1> QED BY <1>1, Invariance, PTL

\* While a peer announces its bitfield once and first, remote_pfreq is the number of open
\* connections that offer a piece (piece_isavail_inc, piece_isavail_dec).
THEOREM PfreqIsExact == "bfield_late" \notin Adversity => (Spec => []PfreqExact)
<1> SUFFICES ASSUME BfieldFirst PROVE Spec => []PfreqExact
  BY DEF BfieldFirst
<1>1. ASSUME IndInv PROVE PfreqExact
  <2>1. \A p \in Piece : Cardinality(Offering(Cur, p)) = Cur.remote_pfreq[p]
    BY <1>1 DEF IndInv, Ok, Pfreq
  <2>2. \A p : Offering(Cur, p) = {c \in Cnx : Open(c) /\ p \in remote_pavail[c]}
    BY CurFields DEF Offering, OpenIn, Open, IsFullCnx, IsEcnx
  <2> QED BY <2>1, <2>2, CurFields DEF PfreqExact
<1> QED BY <1>1, Invariance, PTL

\* A server that has requests has an answer under way or the zero-timer that asks
\* for one (next_iov_zerotimer, kill_iov_zerotimer).
THEOREM IovIsScheduled == Spec => []IovScheduled
<1>1. ASSUME IndInv PROVE IovScheduled
  <2>1. Iov(Cur)
    BY <1>1 DEF IndInv, Ok, Core
  <2> QED BY <2>1, CurFields DEF Iov, IovScheduled
<1> QED BY <1>1, Invariance, PTL

\* What is on the disk is not written again by a late reply, and goes only with its
\* whole piece (parse_block_rep, ~bt_swarm_sched_piece_t).
THEOREM RewriteNever == Spec => NoRewrite
<1> DEFINE Stays == \A b \in written :
                        \/ b \in written' \ writing'
                        \/ (PieceOf(b) \notin dling' \cup local_pavail') /\ b \notin writing'
<1>1. ASSUME IndInv, [Next]_vars PROVE Stays
  <2>1. IndInv' /\ Keeps(Cur, Cur')
    BY <1>1, NextInv, StutterInv
  <2>2. PICK t : t = Cur'
    OBVIOUS
  <2>3. Disk(t) /\ Keeps(Cur, t)
    BY <2>1, <2>2 DEF IndInv, Ok, Core
  <2>4. /\ t.written = written' /\ t.writing = writing' /\ t.dling = dling'
        /\ t.local_pavail = local_pavail'
    BY <2>2 DEF Cur
  <2>5. Cur.written = written
    BY CurFields
  <2> SUFFICES ASSUME NEW b \in Cur.written
               PROVE  \/ b \in t.written \ t.writing
                      \/ (PieceOf(b) \notin t.dling \cup t.local_pavail) /\ b \notin t.writing
    BY <2>4, <2>5
  <2> QED BY <2>3 DEF Disk, Keeps
<1>2. IndInv /\ [Next]_vars => [Stays]_vars
  BY <1>1
<1>3. [][Stays]_vars => NoRewrite
  BY PTL DEF NoRewrite
<1> QED BY <1>2, <1>3, Invariance, PTL DEF Spec
=============================================================================
