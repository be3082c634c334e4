-------------------------- MODULE BtIoCacheProofs --------------------------
(***************************************************************************)
(* Proofs about BtIoCache for every value of its constants: the disk cache *)
(* is coherent, its pool is consistent, its requests are served, and what  *)
(* was written is on disk when the swarm has stopped.                      *)
(***************************************************************************)
EXTENDS BtIoCache, NatLemmas

\* What a block, an operation on disk and a request are made of.
BlockState == {"CLEAN", "DIRTY", "CLEANING"}
Data  == UNION {[S -> Int] : S \in SUBSET Cell}
Entry == [state : BlockState, datum : Data]
Db    == UNION {[S -> Entry] : S \in SUBSET Block}
OpRec == [op : {"blkrd", "blkwr"}, who : Slot \cup {NoSlot}, range : SUBSET Cell,
          left : SUBSET Cell, fd : {"open", "noent", "unlinked"}, datum : Data]
Cache == [db : Db, lru : Seq(Block), subio : Seq(OpRec), files : SUBSET Piece,
          err : BOOLEAN, twice : SUBSET Block]
Req   == [op : {"read", "write"}, slot : Slot, beg : Cell, end : Cell, pos : Nat,
          st : {"zero", "blkrd"}, val : Int]

\* A list that holds each of its elements once.
Injective(q) == \A i, j \in 1 .. Len(q) : q[i] = q[j] => i = j

\* A write under way for whole blocks, a read for one.
OpOk(o) ==
    /\ o.left # {} /\ o.left \subseteq o.range
    /\ \A c \in o.range : CellsOf(BlockOf(c)) \subseteq o.range
    /\ o.op = "blkwr" => o.who = NoSlot /\ o.datum \in [o.range -> Int]
    /\ o.op = "blkrd" => \E b \in Block : o.left = CellsOf(b)

\* block_db and block_lru hold the same blocks, and each block holds its own cells.
Struct(k) ==
    /\ k \in Cache
    /\ Injective(k.lru)
    /\ DOMAIN k.db = ToSet(k.lru)
    /\ \A b \in DOMAIN k.db : k.db[b].datum \in [CellsOf(b) -> Int]
    /\ \A i \in 1 .. Len(k.subio) : OpOk(k.subio[i])

\* The bt_io_cache_blkwr_t of the queue q that carry the block, and the
\* bt_io_cache_blkrd_t that read it from a file that was deleted.
Covers(o, b)    == o.op = "blkwr" /\ CellsOf(b) \subseteq o.range
CoveredIn(q, b) == {i \in 1 .. Len(q) : Covers(q[i], b)}
ReadsGone(o, b) == o.op = "blkrd" /\ o.left = CellsOf(b) /\ o.fd = "unlinked"
Void(t, b)      == \A c \in CellsOf(b) : t[c] = NoData
DatumOf(k, b)   == IF b \in DOMAIN k.db THEN k.db[b].datum ELSE <<>>

\* What a bt_io_cache_blkwr_t has brought to the disk, or will bring, is what was
\* written last.
Brings(o, c, t, d) ==
    IF c \in o.left
    THEN o.datum[c] = t[c] /\ (o.fd = "open" \/ PieceOf(c) # PieceOf(Min(o.left)))
    ELSE d[c] = t[c]

\* The content of a block, in the state st with the content dt, against what was
\* written last (t) and the disk (d).  At most one bt_io_cache_blkwr_t carries it,
\* and only for a block that is still there and not CLEAN, unless its piece was
\* removed.  What is in the cache is what was written last; so is what is on disk
\* when the block is CLEAN or gone, and what the bt_io_cache_blkwr_t brings when it
\* is CLEANING.  No read of a deleted file can bring the block back once it
\* was written anew: it stays until that read is through.
BSync(q, st, dt, t, d, b) ==
    /\ \A i, j \in CoveredIn(q, b) : i = j
    /\ CoveredIn(q, b) # {} => Void(t, b) \/ st \in {"DIRTY", "CLEANING"}
    /\ st # "NONE" => \A c \in CellsOf(b) : t[c] # NoData => dt[c] = t[c]
    /\ st \in {"NONE", "CLEAN"} => \A c \in CellsOf(b) : t[c] # NoData => d[c] = t[c]
    /\ st = "CLEANING" =>
          \A i \in CoveredIn(q, b) : \A c \in CellsOf(b) : t[c] # NoData => Brings(q[i], c, t, d)
    /\ \A i \in 1 .. Len(q) : ReadsGone(q[i], b) =>
          \/ Void(t, b)
          \/ st = "DIRTY"
          \/ st = "CLEANING" /\ \A j \in CoveredIn(q, b) : i < j

BlockSync(k, t, d, b) == BSync(k.subio, StateOf(k, b), DatumOf(k, b), t, d, b)

\* A CLEANING block has somebody to clean it.
Waited(k) == \A b \in Block : StateOf(k, b) = "CLEANING" => CoveredIn(k.subio, b) # {}

\* Nothing is promised after a delayed write has failed, nor about a block that two
\* bt_io_cache_blkwr_t carried at once.
Sync(k, t, d) ==
    k.err \/ (Waited(k) /\ \A b \in Block : b \in k.twice \/ BlockSync(k, t, d, b))

\* The pool is within its limit, or a write under way will shrink it.
PoolOk(k) == k.err \/ PoolCurlen(k, Len(k.lru)) <= PoolMaxlen \/ blkwr_db(k) # {}

\* A request goes on at the beginning of a block.
Aligned(p) == p % BlockLen = 0

ReqOk(r, s) ==
    /\ r \in Req /\ r.slot = s
    /\ r.beg <= r.pos /\ r.pos <= r.end
    /\ r.pos = r.beg \/ Aligned(r.pos)

\* Whom an operation on disk is for, and what the requests that wait wait for.
Served(k, q) ==
    /\ \A i, j \in 1 .. Len(k.subio) : k.subio[i].who = k.subio[j].who /\ k.subio[i].who # NoSlot => i = j
    /\ \A i \in 1 .. Len(k.subio) : k.subio[i].who # NoSlot =>
          /\ q[k.subio[i].who] # Idle /\ q[k.subio[i].who].st = "blkrd"
          /\ q[k.subio[i].who].pos \in k.subio[i].left
    /\ \A s \in Slot : q[s] # Idle /\ q[s].st = "blkrd" =>
          \E i \in 1 .. Len(k.subio) : k.subio[i].who = s

(***************************************************************************)
(* The inductive invariant.  Its last part is what bt_io_cache_stopping_t  *)
(* waited for: no request follows its success, so that the blocks stay     *)
(* CLEAN.                                                                  *)
(***************************************************************************)
IndInv ==
    /\ Struct(cache) /\ Sync(cache, truth, disk) /\ PoolOk(cache)
    /\ \A s \in Slot : req[s] = Idle \/ ReqOk(req[s], s)
    /\ DOMAIN req = Slot
    /\ Served(cache, req)
    /\ disk \in [Cell -> Int] /\ truth \in [Cell -> Int] /\ nwrite \in Nat
    /\ stopping = "ok" /\ failure = "none" =>
          ~cache.err /\ \A b \in DOMAIN cache.db : cache.db[b].state = "CLEAN"

-----------------------------------------------------------------------------
(* Cells, blocks and pieces.                                               *)

\* The least and the greatest of a set of numbers are in it.
LEMMA MinIs == ASSUME NEW S \in SUBSET Nat, S # {} PROVE Min(S) \in S /\ \A x \in S : Min(S) <= x
BY LeastNat, Zenon DEF Min

LEMMA MaxIs ==
    ASSUME NEW N \in Nat, NEW S \in SUBSET (0 .. N), S # {}
    PROVE  Max(S) \in S /\ \A x \in S : x <= Max(S)
BY GreatestNat, Zenon DEF Max

\* Division, as the provers use it.
LEMMA DivIs ==
    ASSUME NEW n \in Nat, NEW L \in Nat \ {0}
    PROVE  /\ n \div L \in Nat /\ n % L \in 0 .. L - 1
           /\ n = L * (n \div L) + (n % L)
OBVIOUS

LEMMA DivUnique ==
    ASSUME NEW L \in Nat \ {0}, NEW q \in Nat, NEW p \in Nat, NEW r \in 0 .. L - 1, NEW s \in 0 .. L - 1,
           L * q + r = L * p + s
    PROVE  q = p /\ r = s
<1>1. L * (q - p) = s - r
  BY Z3
<1>2. s - r < L /\ r - s < L
  OBVIOUS
<1>3. CASE q > p
  <2>1. q - p >= 1 /\ q - p \in Nat
    BY <1>3
  <2>2. L * (q - p) >= L
    BY <2>1, Z3
  <2> QED BY <1>1, <1>2, <2>2
<1>4. CASE q < p
  <2>1. p - q >= 1 /\ p - q \in Nat
    BY <1>4
  <2>2. L * (p - q) >= L
    BY <2>1, Z3
  <2>3. L * (p - q) = r - s
    BY <1>1, Z3
  <2> QED BY <1>2, <2>2, <2>3
<1>5. CASE q = p
  BY <1>5
<1> QED BY <1>3, <1>4, <1>5

\* A product is a multiple.
LEMMA MultMod ==
    ASSUME NEW L \in Nat \ {0}, NEW b \in Nat
    PROVE  L * b \in Nat /\ (L * b) % L = 0 /\ (L * b) \div L = b
<1>1. L * b \in Nat
  BY Z3
<1>2. L * b = L * ((L * b) \div L) + ((L * b) % L) /\ (L * b) % L \in 0 .. L - 1 /\ (L * b) \div L \in Nat
  BY <1>1, DivIs
<1>3. 0 \in 0 .. L - 1 /\ L * b = L * b + 0
  BY <1>1
<1> QED BY <1>1, <1>2, <1>3, DivUnique

\* What the lengths of the swarm, of a block and of a piece tell.
LEMMA Lens ==
    /\ TotLen \in Nat \ {0} /\ BlockLen \in Nat \ {0} /\ PieceLen \in Nat \ {0}
    /\ Cell \subseteq Nat /\ TotLen - 1 \in Cell
    /\ BlockOf(TotLen - 1) \in Nat /\ Block \subseteq Nat
<1>1. TotLen \in Nat \ {0} /\ BlockLen \in Nat \ {0} /\ PieceLen \in Nat \ {0}
  BY BtIoCacheAssumption
<1>2. Cell \subseteq Nat /\ TotLen - 1 \in Cell
  BY <1>1 DEF Cell
<1>3. BlockOf(TotLen - 1) \in Nat
  BY <1>1, <1>2, DivIs DEF BlockOf
<1> QED BY <1>1, <1>2, <1>3 DEF Block

\* A longer way is not less blocks.
LEMMA BlockMonotone ==
    ASSUME NEW c \in Nat, NEW d \in Nat, c <= d
    PROVE  BlockOf(c) <= BlockOf(d) /\ BlockOf(c) \in Nat /\ BlockOf(d) \in Nat
<1> DEFINE q == c \div BlockLen
           p == d \div BlockLen
<1>1. /\ q \in Nat /\ p \in Nat
      /\ c = BlockLen * q + (c % BlockLen) /\ c % BlockLen \in 0 .. BlockLen - 1
      /\ d = BlockLen * p + (d % BlockLen) /\ d % BlockLen \in 0 .. BlockLen - 1
  BY DivIs, Lens
<1> HIDE DEF q, p
<1>2. ASSUME q > p PROVE FALSE
  <2>1. q - p >= 1 /\ q - p \in Nat
    BY <1>1, <1>2
  <2>2. BlockLen * (q - p) >= BlockLen
    BY <2>1, Lens, Z3
  <2>3. BlockLen * q - BlockLen * p = BlockLen * (q - p) /\ BlockLen * q \in Nat /\ BlockLen * p \in Nat
    BY <1>1, Lens, Z3
  <2> HIDE DEF BlockOf
  <2>4. BlockLen \in Nat
    BY Lens
  <2> QED BY <1>1, <2>2, <2>3, <2>4
<1>3. q <= p
  BY <1>1, <1>2
<1> QED BY <1>1, <1>3 DEF q, p, BlockOf

\* A cell is in a block of the swarm.
LEMMA BlockOfCell == ASSUME NEW c \in Cell PROVE BlockOf(c) \in Block
<1>1. c \in Nat /\ TotLen - 1 \in Nat /\ c <= TotLen - 1
  BY Lens DEF Cell
<1> QED BY <1>1, BlockMonotone DEF Block

\* A block begins with a multiple of BlockLen, before the end of the swarm.
LEMMA BegOf == ASSUME NEW b \in Block
    PROVE /\ b * BlockLen \in Nat /\ (b * BlockLen) % BlockLen = 0 /\ BlockOf(b * BlockLen) = b
          /\ b * BlockLen <= TotLen - 1
<1>1. b \in Nat /\ b <= BlockOf(TotLen - 1) /\ BlockLen \in Nat \ {0}
  BY Lens DEF Block
<1>2. b * BlockLen = BlockLen * b
  BY <1>1, Z3
<1>3. b * BlockLen \in Nat /\ (b * BlockLen) % BlockLen = 0 /\ BlockOf(b * BlockLen) = b
  BY <1>1, <1>2, MultMod DEF BlockOf
<1> DEFINE T == TotLen - 1
           q == BlockOf(T)
<1>4. T \in Nat /\ T = BlockLen * q + (T % BlockLen) /\ T % BlockLen \in Nat /\ q \in Nat
  BY Lens, DivIs DEF BlockOf
<1> HIDE DEF T, q
<1>5. BlockLen * b <= BlockLen * q
  <2>1. q - b \in Nat
    BY <1>1, <1>4 DEF q, T
  <2>2. BlockLen * (q - b) >= 0
    BY <2>1, <1>1, Z3
  <2> QED BY <2>2, <1>1, <1>4, Z3
<1>6. b * BlockLen <= T
  BY <1>1, <1>2, <1>3, <1>4, <1>5, Z3
<1> QED BY <1>3, <1>6 DEF T

\* block_range_for gives the cells of the block.
LEMMA CellsAre == ASSUME NEW b \in Block PROVE CellsOf(b) = {c \in Cell : BlockOf(c) = b}
<1> DEFINE beg == b * BlockLen
           E == {beg + BlockLen - 1, TotLen - 1}
<1>1. beg \in Nat /\ beg % BlockLen = 0 /\ BlockOf(beg) = b /\ beg <= TotLen - 1
  BY BegOf
<1>2. beg = BlockLen * b
  <2>1. b \in Nat /\ BlockLen \in Nat
    BY Lens
  <2> QED BY <2>1, Z3
<1>3. BlockLen \in Nat \ {0} /\ TotLen \in Nat \ {0} /\ b \in Nat
  BY Lens
<1> HIDE DEF beg
<1>4. CellsOf(b) = beg .. Min(E)
  <2>1. beg - (beg % BlockLen) = beg
    BY <1>1
  <2> QED BY <2>1 DEF CellsOf, block_range_for, beg
<1>5. Min(E) \in E /\ \A x \in E : Min(E) <= x
  <2>1. E \in SUBSET Nat /\ E # {}
    BY <1>1, <1>3
  <2> QED BY <2>1, MinIs
<1>6. ASSUME NEW c \in Cell, BlockOf(c) = b PROVE c \in beg .. Min(E)
  <2>1. c \in Nat /\ c <= TotLen - 1
    BY Lens DEF Cell
  <2>2. c = BlockLen * b + (c % BlockLen) /\ c % BlockLen \in 0 .. BlockLen - 1
    BY <1>6, <1>3, <2>1, DivIs DEF BlockOf
  <2>3. beg <= c /\ c <= beg + BlockLen - 1
    BY <1>1, <1>2, <1>3, <2>1, <2>2
  <2>4. c <= Min(E) /\ Min(E) \in Nat
    BY <1>1, <1>3, <1>5, <2>1, <2>3
  <2> QED BY <2>1, <2>3, <2>4, <1>1
<1>7. ASSUME NEW c \in beg .. Min(E) PROVE c \in Cell /\ BlockOf(c) = b
  <2>1. c \in Nat /\ c <= TotLen - 1 /\ beg <= c /\ c <= beg + BlockLen - 1
    BY <1>1, <1>3, <1>5
  <2>2. c \in Cell
    BY <2>1 DEF Cell
  <2>3. c = BlockLen * BlockOf(c) + (c % BlockLen) /\ c % BlockLen \in 0 .. BlockLen - 1 /\ BlockOf(c) \in Nat
    BY <1>3, <2>1, DivIs DEF BlockOf
  <2>4. c = BlockLen * b + (c - beg) /\ c - beg \in 0 .. BlockLen - 1
    BY <1>1, <1>2, <1>3, <2>1
  <2>5. BlockOf(c) = b
    <3>1. BlockLen * BlockOf(c) + (c % BlockLen) = BlockLen * b + (c - beg)
      BY <2>3, <2>4
    <3>2. PICK s \in 0 .. BlockLen - 1 : s = c - beg
      BY <2>4
    <3>3. PICK r \in 0 .. BlockLen - 1 : r = c % BlockLen
      BY <2>3
    <3>4. BlockLen * BlockOf(c) + r = BlockLen * b + s
      BY <3>1, <3>2, <3>3
    <3> HIDE DEF beg
    <3> QED BY <3>4, <2>3, <1>3, DivUnique
  <2> QED BY <2>2, <2>5
<1> QED BY <1>4, <1>6, <1>7

\* The cells of a block, as an interval that begins with a multiple of BlockLen.
LEMMA Interval ==
    ASSUME NEW b \in Block
    PROVE  \E beg, last \in Cell :
              /\ CellsOf(b) = beg .. last /\ beg <= last /\ Aligned(beg)
              /\ last < beg + BlockLen
              /\ last + 1 \in Cell => Aligned(last + 1) /\ BlockOf(last + 1) = b + 1
<1> DEFINE beg == b * BlockLen
           E == {beg + BlockLen - 1, TotLen - 1}
<1>1. beg \in Nat /\ beg % BlockLen = 0 /\ BlockOf(beg) = b /\ beg <= TotLen - 1
  BY BegOf
<1>2. beg = BlockLen * b
  <2>1. b \in Nat /\ BlockLen \in Nat
    BY Lens
  <2> QED BY <2>1, Z3
<1>3. BlockLen \in Nat \ {0} /\ TotLen \in Nat \ {0} /\ b \in Nat
  BY Lens
<1> HIDE DEF beg
<1>4. CellsOf(b) = beg .. Min(E)
  <2>1. beg - (beg % BlockLen) = beg
    BY <1>1
  <2> QED BY <2>1 DEF CellsOf, block_range_for, beg
<1>5. Min(E) \in E /\ \A x \in E : Min(E) <= x
  <2>1. E \in SUBSET Nat /\ E # {}
    BY <1>1, <1>3
  <2> QED BY <2>1, MinIs
<1>6. Min(E) \in Nat /\ beg <= Min(E) /\ Min(E) < beg + BlockLen /\ Min(E) <= TotLen - 1
  BY <1>1, <1>3, <1>5
<1>7. beg \in Cell /\ Min(E) \in Cell
  BY <1>1, <1>3, <1>6 DEF Cell
<1>8. Min(E) + 1 \in Cell => Aligned(Min(E) + 1) /\ BlockOf(Min(E) + 1) = b + 1
  <2>1. SUFFICES ASSUME Min(E) + 1 \in Cell PROVE Aligned(Min(E) + 1) /\ BlockOf(Min(E) + 1) = b + 1
    OBVIOUS
  <2>2. Min(E) = beg + BlockLen - 1
    BY <2>1, <1>1, <1>3, <1>5, <1>6 DEF Cell
  <2>3. Min(E) + 1 = BlockLen * (b + 1)
    <3>1. BlockLen * (b + 1) = BlockLen * b + BlockLen
      BY <1>3, Z3
    <3>2. BlockLen * b \in Nat
      BY <1>1, <1>2
    <3> QED BY <3>1, <3>2, <2>2, <1>2, <1>3
  <2>4. b + 1 \in Nat
    BY <1>3
  <2> QED BY <2>3, <2>4, <1>3, MultMod DEF Aligned, BlockOf
<1>9. Aligned(beg)
  BY <1>1 DEF Aligned
<1> QED BY <1>4, <1>6, <1>7, <1>8, <1>9

\* The next cell is in the same block or in the next one.
LEMMA BlockNext == ASSUME NEW c \in Nat PROVE BlockOf(c + 1) <= BlockOf(c) + 1
<1> DEFINE q == c \div BlockLen
           p == (c + 1) \div BlockLen
<1>1. /\ q \in Nat /\ p \in Nat /\ BlockLen \in Nat \ {0}
      /\ c = BlockLen * q + (c % BlockLen) /\ c % BlockLen \in 0 .. BlockLen - 1
      /\ c + 1 = BlockLen * p + ((c + 1) % BlockLen) /\ (c + 1) % BlockLen \in 0 .. BlockLen - 1
  <2>1. c + 1 \in Nat /\ BlockLen \in Nat \ {0}
    BY Lens
  <2> HIDE DEF q, p
  <2>2. q \in Nat /\ c = BlockLen * q + (c % BlockLen) /\ c % BlockLen \in 0 .. BlockLen - 1
    BY <2>1, DivIs DEF q
  <2> DEFINE e == c + 1
  <2>3. e \in Nat
    BY <2>1
  <2> HIDE DEF e
  <2>4. e \div BlockLen \in Nat /\ e = BlockLen * (e \div BlockLen) + (e % BlockLen) /\ e % BlockLen \in 0 .. BlockLen - 1
    BY <2>1, <2>3, DivIs
  <2> QED BY <2>1, <2>2, <2>4 DEF e, p
<1> HIDE DEF q, p
<1>2. ASSUME p > q + 1 PROVE FALSE
  <2>1. p - (q + 1) >= 1 /\ p - (q + 1) \in Nat
    BY <1>1, <1>2
  <2>2. BlockLen * (p - (q + 1)) >= BlockLen
    BY <2>1, <1>1, Z3
  <2>3. BlockLen * p = BlockLen * q + BlockLen + BlockLen * (p - (q + 1)) /\ BlockLen * q \in Nat /\ BlockLen * p \in Nat
    BY <1>1, Z3
  <2> QED BY <1>1, <2>2, <2>3
<1>3. p <= q + 1
  BY <1>1, <1>2
<1> QED BY <1>3 DEF q, p, BlockOf

\* A block lies in one piece, as a piece is a whole number of blocks.
LEMMA PieceIsOfBlock ==
    ASSUME NEW c \in Cell
    PROVE  PieceOf(c) = BlockOf(c) \div (PieceLen \div BlockLen) /\ PieceOf(c) \in Nat
<1> DEFINE m == PieceLen \div BlockLen
           b == BlockOf(c)
           r == c % BlockLen
           p == b \div m
           s == b % m
<1>1. BlockLen \in Nat \ {0} /\ PieceLen \in Nat \ {0} /\ c \in Nat
  BY Lens
<1>2. PieceLen = BlockLen * m /\ m \in Nat
  <2>1. PieceLen % BlockLen = 0
    BY BtIoCacheAssumption
  <2>2. PieceLen = BlockLen * (PieceLen \div BlockLen) + (PieceLen % BlockLen) /\ PieceLen \div BlockLen \in Nat
    BY <1>1, DivIs
  <2>3. m \in Nat /\ PieceLen = BlockLen * m + 0
    BY <2>1, <2>2
  <2> HIDE DEF m
  <2>4. BlockLen * m \in Nat
    BY <2>3, <1>1, Z3
  <2> QED BY <2>3, <2>4
<1>3. m # 0
  BY <1>1, <1>2
<1>4. c = BlockLen * b + r /\ b \in Nat /\ r \in 0 .. BlockLen - 1
  BY <1>1, DivIs DEF BlockOf
<1> HIDE DEF m, b, r
<1>5. b = m * p + s /\ p \in Nat /\ s \in 0 .. m - 1
  BY <1>2, <1>3, <1>4, DivIs
<1> HIDE DEF p, s
<1> DEFINE t == BlockLen * s + r
<1>6. c = PieceLen * p + t
  <2>1. BlockLen * b = BlockLen * (m * p) + BlockLen * s
    BY <1>1, <1>2, <1>5, Z3
  <2>2. BlockLen * (m * p) = PieceLen * p
    BY <1>1, <1>2, <1>5, Z3
  <2>3. PieceLen * p \in Nat /\ BlockLen * s \in Nat
    BY <1>1, <1>2, <1>5, Z3
  <2> QED BY <2>1, <2>2, <2>3, <1>4
<1>7. t \in 0 .. PieceLen - 1
  <2>1. s + 1 <= m /\ m - (s + 1) \in Nat /\ s \in Nat
    BY <1>2, <1>5
  <2>2. BlockLen * (m - (s + 1)) >= 0
    BY <2>1, <1>1, Z3
  <2>3. BlockLen * (m - (s + 1)) = BlockLen * m - BlockLen * s - BlockLen
    BY <2>1, <1>1, <1>2, Z3
  <2>4. BlockLen * s \in Nat
    BY <2>1, <1>1, Z3
  <2> QED BY <2>2, <2>3, <2>4, <1>1, <1>2, <1>4
<1> HIDE DEF t
<1>8. c = PieceLen * PieceOf(c) + (c % PieceLen) /\ PieceOf(c) \in Nat /\ c % PieceLen \in 0 .. PieceLen - 1
  BY <1>1, DivIs DEF PieceOf
<1>9. PICK u \in 0 .. PieceLen - 1 : u = c % PieceLen
  BY <1>8
<1>10. PieceLen * PieceOf(c) + u = PieceLen * p + t
  BY <1>6, <1>8, <1>9
<1>11. PieceOf(c) = p
  BY <1>1, <1>5, <1>7, <1>8, <1>10, DivUnique
<1> QED BY <1>8, <1>11 DEF p, m, b

\* Two cells of a block are of one piece.
LEMMA SamePiece == ASSUME NEW c \in Cell, NEW d \in Cell, BlockOf(c) = BlockOf(d) PROVE PieceOf(c) = PieceOf(d)
BY PieceIsOfBlock

\* A cell is of a piece of the swarm.
LEMMA PieceOfCell == ASSUME NEW c \in Cell PROVE PieceOf(c) \in Piece
<1> DEFINE q == c \div PieceLen
           T == TotLen - 1
           p == T \div PieceLen
<1>1. c \in Nat /\ T \in Nat /\ c <= T /\ PieceLen \in Nat \ {0}
  BY Lens DEF Cell
<1>2. /\ q \in Nat /\ p \in Nat
      /\ c = PieceLen * q + (c % PieceLen) /\ c % PieceLen \in 0 .. PieceLen - 1
      /\ T = PieceLen * p + (T % PieceLen) /\ T % PieceLen \in 0 .. PieceLen - 1
  BY DivIs, <1>1
<1> HIDE DEF q, p, T
<1>3. ASSUME q > p PROVE FALSE
  <2>1. q - p >= 1 /\ q - p \in Nat
    BY <1>2, <1>3
  <2>2. PieceLen * (q - p) >= PieceLen
    BY <2>1, <1>1, Z3
  <2>3. PieceLen * q - PieceLen * p = PieceLen * (q - p) /\ PieceLen * q \in Nat /\ PieceLen * p \in Nat
    BY <1>1, <1>2, Z3
  <2> QED BY <1>1, <1>2, <2>2, <2>3
<1>4. q \in 0 .. p
  BY <1>2, <1>3
<1> QED BY <1>4 DEF q, p, T, PieceOf, Piece

\* The blocks partition the cells.
LEMMA BlockCells ==
    /\ \A b \in Block : CellsOf(b) \subseteq Cell /\ CellsOf(b) # {}
    /\ \A b \in Block : \A c \in CellsOf(b) : BlockOf(c) = b
    /\ \A c \in Cell : BlockOf(c) \in Block /\ c \in CellsOf(BlockOf(c))
    /\ \A b, x \in Block : CellsOf(b) = CellsOf(x) => b = x
<1>1. ASSUME NEW b \in Block PROVE CellsOf(b) \subseteq Cell /\ CellsOf(b) # {} /\ \A c \in CellsOf(b) : BlockOf(c) = b
  <2>1. CellsOf(b) \subseteq Cell /\ \A c \in CellsOf(b) : BlockOf(c) = b
    BY CellsAre
  <2>2. PICK beg, last \in Cell : CellsOf(b) = beg .. last /\ beg <= last
    BY Interval
  <2>3. beg \in beg .. last
    BY <2>2, Lens
  <2> QED BY <2>1, <2>2, <2>3
<1>2. ASSUME NEW c \in Cell PROVE BlockOf(c) \in Block /\ c \in CellsOf(BlockOf(c))
  BY BlockOfCell, CellsAre
<1> QED BY <1>1, <1>2

\* There are finitely many cells.
LEMMA CellFinite == IsFiniteSet(Cell) /\ \A S \in SUBSET Cell : IsFiniteSet(S)
<1>1. IsFiniteSet(0 .. TotLen - 1)
  BY Lens, FS_Interval
<1> QED BY <1>1, FS_Subset DEF Cell

LEMMA CellsMin ==
    ASSUME NEW S \in SUBSET Cell, S # {}
    PROVE  Min(S) \in S /\ \A x \in S : Min(S) <= x
BY MinIs, Lens

\* How long a block is.
LEMMA BlockSize == ASSUME NEW b \in Block PROVE Cardinality(CellsOf(b)) \in Nat /\ Cardinality(CellsOf(b)) <= BlockLen
<1>1. PICK beg, last \in Cell : CellsOf(b) = beg .. last /\ beg <= last /\ last < beg + BlockLen
  BY Interval
<1>2. beg \in Int /\ last \in Int /\ BlockLen \in Nat
  BY Lens
<1>3. Cardinality(beg .. last) = last - beg + 1
  BY <1>1, <1>2, FS_Interval
<1> QED BY <1>1, <1>2, <1>3

-----------------------------------------------------------------------------
(* The length of the pool is the sum of the lengths of its blocks, in any    *)
(* order.                                                                    *)

\* The lengths of the blocks of a set, their sum, and the first n blocks of a list.
Sizes(S) == [b \in S |-> Cardinality(CellsOf(b))]
Held(S)  == Total(Sizes(S), S)
FirstOf(q, n) == {q[i] : i \in 1 .. n}

\* Every set of blocks is finite, and each block has a length.
LEMMA BlockFinite == \A S \in SUBSET Block : IsFiniteSet(S) /\ Sizes(S) \in [S -> Nat]
<1>1. IsFiniteSet(Block)
  BY Lens, FS_Interval DEF Block
<1> QED BY <1>1, BlockSize, FS_Subset DEF Sizes

\* What a set of blocks takes, one block after the other.
LEMMA HeldIs ==
    /\ \A S \in SUBSET Block : Held(S) \in Nat
    /\ Held({}) = 0
    /\ \A S \in SUBSET Block : \A x \in S : Held(S) = Cardinality(CellsOf(x)) + Held(S \ {x})
<1>1. Held({}) = 0
  <2>1. Sizes({}) \in [{} -> Nat]
    BY BlockFinite
  <2> QED BY <2>1, TotalEmpty DEF Held
<1>2. ASSUME NEW S \in SUBSET Block, NEW x \in S
      PROVE  Held(S) = Cardinality(CellsOf(x)) + Held(S \ {x}) /\ Held(S) \in Nat
  <2>1. IsFiniteSet(S) /\ Sizes(S) \in [S -> Nat] /\ Sizes(S \ {x}) \in [S \ {x} -> Nat]
    <3>1. S \ {x} \in SUBSET Block
      OBVIOUS
    <3> QED BY <3>1, BlockFinite
  <2>2. /\ \A y \in S \ {x} : Sizes(S \ {x})[y] = Sizes(S)[y]
        /\ Sizes(S)[x] = Cardinality(CellsOf(x))
    BY DEF Sizes
  <2>3. Total(Sizes(S), S) = Sizes(S)[x] + Total(Sizes(S \ {x}), S \ {x}) /\ Total(Sizes(S), S) \in Nat
    <3> DEFINE w == Sizes(S)
               v == Sizes(S \ {x})
    <3>1. w \in [S -> Nat] /\ v \in [S \ {x} -> Nat] /\ \A y \in S \ {x} : v[y] = w[y]
      BY <2>1, <2>2
    <3> HIDE DEF w, v
    <3>2. Total(w, S) = w[x] + Total(v, S \ {x}) /\ Total(w, S) \in Nat
      BY <2>1, <3>1, TotalRemove
    <3> QED BY <3>2 DEF w, v
  <2> QED BY <2>2, <2>3 DEF Held
<1>3. ASSUME NEW S \in SUBSET Block PROVE Held(S) \in Nat
  <2>1. CASE S = {}
    <3>1. Held(S) = 0
      BY <2>1, <1>1, Zenon
    <3> QED BY <3>1
  <2>2. CASE S # {}
    BY <2>2, <1>2
  <2> QED BY <2>1, <2>2
<1> QED BY <1>1, <1>2, <1>3

\* More blocks do not take less.
LEMMA HeldLess == ASSUME NEW B \in SUBSET Block, NEW A \in SUBSET B PROVE Held(A) <= Held(B)
<1> DEFINE X == {s \in SUBSET Block : \A a \in SUBSET s : Held(a) <= Held(s)}
<1>1. {} \in X
  BY HeldIs
<1>2. ASSUME NEW s \in SUBSET Block, s # {}, \A x \in s : s \ {x} \in X PROVE s \in X
  <2>1. SUFFICES ASSUME NEW a \in SUBSET s PROVE Held(a) <= Held(s)
    OBVIOUS
  <2>2. Held(a) \in Nat /\ Held(s) \in Nat
    BY HeldIs
  <2>3. CASE a = s
    BY <2>2, <2>3
  <2>4. CASE a # s
    <3>1. PICK x \in s : x \notin a
      BY <2>4
    <3>2. a \in SUBSET (s \ {x}) /\ s \ {x} \in X
      BY <3>1, <1>2
    <3>3. Held(a) <= Held(s \ {x})
      BY <3>2
    <3>4. Held(s) = Cardinality(CellsOf(x)) + Held(s \ {x}) /\ Cardinality(CellsOf(x)) \in Nat /\ Held(s \ {x}) \in Nat
      BY HeldIs, BlockSize
    <3> QED BY <2>2, <3>3, <3>4
  <2> QED BY <2>3, <2>4
<1> HIDE DEF X
<1>3. \A s \in SUBSET Block : s \in X
  BY <1>1, <1>2, BlockFinite, SubsetInduction
<1> QED BY <1>3 DEF X

\* The first n blocks of block_lru take what they take as a set.
LEMMA PoolCurlenIs ==
    ASSUME NEW k, k.lru \in Seq(Block), Injective(k.lru), NEW n \in 0 .. Len(k.lru)
    PROVE  PoolCurlen(k, n) = Held(FirstOf(k.lru, n))
<1> DEFINE q == k.lru
           L(i) == Cardinality(CellsOf(q[i]))
           P(g) == g = [m \in 0 .. n |-> IF m = 0 THEN 0 ELSE g[m - 1] + L(m)]
           cur == CHOOSE g : P(g)
           G == [m \in 1 .. n |-> [x \in Nat |-> x + L(m)]]
<1>1. n \in Nat /\ \A i \in 1 .. n : q[i] \in Block
  OBVIOUS
<1>2. \A i \in 1 .. n : L(i) \in Nat
  BY <1>1, BlockSize
<1>3. PoolCurlen(k, n) = cur[n]
  BY Zenon DEF PoolCurlen
<1>4. \A i, j \in 1 .. n : q[i] = q[j] => i = j
  BY DEF Injective
<1> HIDE DEF q, L
<1>5. G \in [1 .. n -> [Nat -> Nat]] /\ \A m \in 1 .. n : \A x \in Nat : G[m][x] = x + L(m)
  BY <1>2
<1> HIDE DEF G
<1>6. \E f : IsRecursion(f, n, Nat, 0, G)
  BY <1>1, <1>5, RecursionExists
<1>7. PICK f \in [0 .. n -> Nat] : f[0] = 0 /\ \A m \in 1 .. n : f[m] = G[m][f[m - 1]]
  BY <1>6, Zenon DEF IsRecursion
<1>8. ASSUME NEW m \in 1 .. n PROVE f[m - 1] \in Nat /\ f[m] = f[m - 1] + L(m)
  <2>1. m - 1 \in 0 .. n
    BY <1>1
  <2>2. f[m - 1] \in Nat
    BY <2>1
  <2> QED BY <2>2, <1>5, <1>7
<1>9. P(f)
  BY <1>7, <1>8
<1>10. P(cur)
  BY <1>9, Zenon
<1> HIDE DEF cur
<1>11. cur[0] = 0 /\ \A m \in 1 .. n : cur[m] = cur[m - 1] + L(m)
  BY <1>1, <1>10
<1> DEFINE S == {m \in 0 .. n : cur[m] = Held(FirstOf(q, m))}
<1>12. 0 \in S
  <2>1. FirstOf(q, 0) = {}
    BY DEF FirstOf
  <2>2. Held(FirstOf(q, 0)) = 0
    BY <2>1, HeldIs, Zenon
  <2> QED BY <2>2, <1>1, <1>11
<1>13. ASSUME NEW m \in 1 .. n, m - 1 \in S PROVE m \in S
  <2>1. cur[m - 1] = Held(FirstOf(q, m - 1))
    BY <1>13
  <2>2. FirstOf(q, m) \in SUBSET Block /\ q[m] \in FirstOf(q, m)
    BY <1>1 DEF FirstOf
  <2>3. FirstOf(q, m) \ {q[m]} = FirstOf(q, m - 1)
    <3>1. \A i \in 1 .. m - 1 : q[i] # q[m]
      BY <1>4
    <3>2. \A i \in 1 .. m : i \in 1 .. m - 1 \/ i = m
      OBVIOUS
    <3> QED BY <3>1, <3>2 DEF FirstOf
  <2>4. FirstOf(q, m - 1) \in SUBSET Block
    BY <2>2, <2>3
  <2>5. Held(FirstOf(q, m)) = L(m) + Held(FirstOf(q, m - 1))
    BY <2>2, <2>3, HeldIs DEF L
  <2>6. Held(FirstOf(q, m - 1)) \in Nat /\ L(m) \in Nat
    BY <2>4, HeldIs, <1>2
  <2> QED BY <2>1, <2>5, <2>6, <1>11
<1> HIDE DEF S
<1>14. \A m \in 0 .. n : m \in S
  BY <1>1, <1>12, <1>13, RangeInduction, Zenon
<1>15. n \in S
  BY <1>1, <1>14
<1> QED BY <1>3, <1>15 DEF S, q

\* The pool is as long as the blocks of block_db.
LEMMA PoolLen ==
    ASSUME NEW k, k.lru \in Seq(Block), Injective(k.lru)
    PROVE  /\ PoolCurlen(k, Len(k.lru)) = Held(ToSet(k.lru))
           /\ PoolCurlen(k, Len(k.lru)) \in Nat
           /\ ToSet(k.lru) = FirstOf(k.lru, Len(k.lru)) /\ ToSet(k.lru) \subseteq Block
<1>1. Len(k.lru) \in 0 .. Len(k.lru) /\ DOMAIN k.lru = 1 .. Len(k.lru)
  OBVIOUS
<1>2. ToSet(k.lru) = FirstOf(k.lru, Len(k.lru))
  BY <1>1 DEF ToSet, FirstOf
<1>3. FirstOf(k.lru, Len(k.lru)) \in SUBSET Block
  BY DEF FirstOf
<1> QED BY <1>1, <1>2, <1>3, PoolCurlenIs, HeldIs

-----------------------------------------------------------------------------
(* Sequences.                                                                *)

\* w is what is left of the first n elements of q without those of X, in their order.
LeftOf(w, q, n, X) ==
    /\ \A i \in 1 .. Len(w) : w[i] \notin X /\ \E j \in 1 .. n : q[j] = w[i]
    /\ \A j \in 1 .. n : q[j] \notin X => \E i \in 1 .. Len(w) : w[i] = q[j]
    /\ \A i1, i2 \in 1 .. Len(w) : i1 < i2 =>
          \E j1, j2 \in 1 .. n : j1 < j2 /\ q[j1] = w[i1] /\ q[j2] = w[i2]

\* One element more of q, which is dropped or kept.
LEMMA LeftOfSkip ==
    ASSUME NEW w, NEW q, NEW n \in Nat \ {0}, NEW X, LeftOf(w, q, n - 1, X), q[n] \in X
    PROVE  LeftOf(w, q, n, X)
<1>1. \A j \in 1 .. n - 1 : j \in 1 .. n
  OBVIOUS
<1>2. \A j \in 1 .. n : j \in 1 .. n - 1 \/ j = n
  OBVIOUS
<1>3. \A i \in 1 .. Len(w) : w[i] \notin X /\ \E j \in 1 .. n : q[j] = w[i]
  BY <1>1 DEF LeftOf
<1>4. \A j \in 1 .. n : q[j] \notin X => \E i \in 1 .. Len(w) : w[i] = q[j]
  BY <1>2 DEF LeftOf
<1>5. ASSUME NEW i1 \in 1 .. Len(w), NEW i2 \in 1 .. Len(w), i1 < i2
      PROVE  \E j1, j2 \in 1 .. n : j1 < j2 /\ q[j1] = w[i1] /\ q[j2] = w[i2]
  <2>1. PICK j1 \in 1 .. n - 1, j2 \in 1 .. n - 1 : j1 < j2 /\ q[j1] = w[i1] /\ q[j2] = w[i2]
    BY <1>5 DEF LeftOf
  <2> QED BY <2>1, <1>1
<1> QED BY <1>3, <1>4, <1>5 DEF LeftOf

LEMMA LeftOfKeep ==
    ASSUME NEW T, NEW w \in Seq(T), NEW q, NEW n \in Nat \ {0}, NEW X, LeftOf(w, q, n - 1, X), q[n] \notin X,
           q[n] \in T
    PROVE  LeftOf(Append(w, q[n]), q, n, X) /\ Append(w, q[n]) \in Seq(T)
<1> DEFINE v == Append(w, q[n])
<1>1. /\ v \in Seq(T) /\ Len(v) = Len(w) + 1 /\ v[Len(v)] = q[n] /\ Len(w) \in Nat
      /\ \A i \in 1 .. Len(w) : v[i] = w[i]
  OBVIOUS
<1> HIDE DEF v
<1>2. \A j \in 1 .. n - 1 : j \in 1 .. n
  OBVIOUS
<1>3. \A j \in 1 .. n : j \in 1 .. n - 1 \/ j = n
  OBVIOUS
<1>4. \A i \in 1 .. Len(v) : i \in 1 .. Len(w) \/ i = Len(v)
  BY <1>1
<1>5. Len(v) \in 1 .. Len(v) /\ n \in 1 .. n /\ \A i \in 1 .. Len(w) : i \in 1 .. Len(v)
  BY <1>1
<1>6. ASSUME NEW i \in 1 .. Len(v) PROVE v[i] \notin X /\ \E j \in 1 .. n : q[j] = v[i]
  <2>1. CASE i \in 1 .. Len(w)
    <3>1. v[i] = w[i] /\ w[i] \notin X
      BY <2>1, <1>1 DEF LeftOf
    <3>2. PICK j \in 1 .. n - 1 : q[j] = w[i]
      BY <2>1 DEF LeftOf
    <3> QED BY <3>1, <3>2, <1>2
  <2>2. CASE i = Len(v)
    BY <2>2, <1>1, <1>5
  <2> QED BY <2>1, <2>2, <1>4
<1>7. \A j \in 1 .. n : q[j] \notin X => \E i \in 1 .. Len(v) : v[i] = q[j]
  BY <1>1, <1>3, <1>5 DEF LeftOf
<1>8. ASSUME NEW i1 \in 1 .. Len(v), NEW i2 \in 1 .. Len(v), i1 < i2
      PROVE  \E j1, j2 \in 1 .. n : j1 < j2 /\ q[j1] = v[i1] /\ q[j2] = v[i2]
  <2>1. i1 \in 1 .. Len(w)
    BY <1>1, <1>8
  <2>2. CASE i2 \in 1 .. Len(w)
    <3>1. PICK j1, j2 \in 1 .. n - 1 : j1 < j2 /\ q[j1] = w[i1] /\ q[j2] = w[i2]
      BY <2>1, <2>2, <1>8 DEF LeftOf
    <3>2. j1 \in 1 .. n /\ j2 \in 1 .. n /\ v[i1] = w[i1] /\ v[i2] = w[i2]
      BY <1>1, <1>2, <2>1, <2>2
    <3> QED BY <3>1, <3>2
  <2>3. CASE i2 = Len(v)
    <3>1. PICK j \in 1 .. n - 1 : q[j] = w[i1]
      BY <2>1 DEF LeftOf
    <3>2. j < n /\ j \in 1 .. n /\ q[j] = v[i1] /\ q[n] = v[i2]
      BY <3>1, <2>1, <2>3, <1>1
    <3> QED BY <3>2, <1>5
  <2> QED BY <2>2, <2>3, <1>4
<1> QED BY <1>1, <1>6, <1>7, <1>8 DEF LeftOf, v

\* Without computes what is left.
LEMMA WithoutIs ==
    ASSUME NEW T, NEW q \in Seq(T), NEW X
    PROVE  Without(q, X) \in Seq(T) /\ LeftOf(Without(q, X), q, Len(q), X)
<1> DEFINE Step(k, d) == IF d \in X THEN k ELSE Append(k, d)
           P(g) == g = [n \in 0 .. Len(q) |->
                          IF n = 0 THEN <<>>
                          ELSE Step(g[n - 1], q[n])]
           keep == CHOOSE g : P(g)
           D == Seq(T)
           G == [n \in 1 .. Len(q) |-> [k \in D |-> Step(k, q[n])]]
<1>1. \A k \in D : \A d \in T : Step(k, d) \in D
  OBVIOUS
<1>2. <<>> \in D /\ Len(q) \in Nat /\ \A n \in 1 .. Len(q) : q[n] \in T
  OBVIOUS
<1> HIDE DEF D
<1>3. G \in [1 .. Len(q) -> [D -> D]] /\ \A n \in 1 .. Len(q) : \A k \in D : G[n][k] = Step(k, q[n])
  BY <1>1, <1>2
<1> HIDE DEF G
<1>a. \E f : IsRecursion(f, Len(q), D, <<>>, G)
  BY <1>2, <1>3, RecursionExists, Zenon
<1>4. PICK f \in [0 .. Len(q) -> D] : f[0] = <<>> /\ \A n \in 1 .. Len(q) : f[n] = G[n][f[n - 1]]
  BY <1>a, Zenon DEF IsRecursion
<1>5. ASSUME NEW n \in 1 .. Len(q) PROVE f[n] = Step(f[n - 1], q[n])
  <2>1. f[n - 1] \in D
    BY <1>2
  <2> QED BY <2>1, <1>3, <1>4
<1>6. Without(q, X) = keep[Len(q)]
  BY Zenon DEF Without
<1> HIDE DEF Step
<1>7. P(f)
  BY <1>4, <1>5
<1>8. P(keep)
  BY <1>7, Zenon
<1> HIDE DEF keep
<1>9. keep[0] = <<>> /\ \A n \in 1 .. Len(q) : keep[n] = Step(keep[n - 1], q[n])
  BY <1>8
<1>b. ASSUME NEW k, NEW d PROVE Step(k, d) = IF d \in X THEN k ELSE Append(k, d)
  BY DEF Step
<1> DEFINE S == {n \in 0 .. Len(q) : keep[n] \in D /\ LeftOf(keep[n], q, n, X)}
<1>10. 0 \in S
  BY <1>9, <1>2 DEF LeftOf
<1>11. ASSUME NEW n \in 1 .. Len(q), n - 1 \in S PROVE n \in S
  <2>1. /\ keep[n - 1] \in Seq(T) /\ q[n] \in T /\ n \in Nat \ {0}
        /\ LeftOf(keep[n - 1], q, n - 1, X)
    BY <1>11, <1>2 DEF D
  <2>2. CASE q[n] \in X
    <3>1. keep[n] = keep[n - 1]
      BY <2>2, <1>9, <1>b
    <3> QED BY <2>1, <2>2, <3>1, LeftOfSkip DEF D
  <2>3. CASE q[n] \notin X
    <3>1. keep[n] = Append(keep[n - 1], q[n])
      BY <2>3, <1>9, <1>b
    <3> DEFINE w == keep[n - 1]
    <3>2. w \in Seq(T) /\ LeftOf(w, q, n - 1, X) /\ keep[n] = Append(w, q[n])
      BY <2>1, <3>1
    <3> HIDE DEF w
    <3>3. LeftOf(Append(w, q[n]), q, n, X) /\ Append(w, q[n]) \in Seq(T)
      BY <2>1, <2>3, <3>2, LeftOfKeep
    <3>4. keep[n] \in D /\ LeftOf(keep[n], q, n, X)
      BY <3>2, <3>3, Zenon DEF D
    <3> QED BY <3>4, <1>2
  <2> QED BY <2>2, <2>3
<1> HIDE DEF S
<1>12. \A n \in 0 .. Len(q) : n \in S
  BY <1>2, <1>10, <1>11, RangeInduction, Zenon
<1>13. Len(q) \in S
  BY <1>2, <1>12
<1> QED BY <1>6, <1>13 DEF S, D

\* The list of blocks without some of them.
LEMMA WithoutBlocks ==
    ASSUME NEW q \in Seq(Block), Injective(q), NEW X
    PROVE  /\ Without(q, X) \in Seq(Block) /\ Injective(Without(q, X))
           /\ ToSet(Without(q, X)) = ToSet(q) \ X
<1> DEFINE w == Without(q, X)
<1>1. w \in Seq(Block) /\ LeftOf(w, q, Len(q), X)
  BY WithoutIs
<1> HIDE DEF w
<1>2. DOMAIN w = 1 .. Len(w) /\ DOMAIN q = 1 .. Len(q) /\ Len(w) \in Nat /\ Len(q) \in Nat
  BY <1>1
<1>3. ToSet(w) = ToSet(q) \ X
  <2>1. ASSUME NEW x \in ToSet(w) PROVE x \in ToSet(q) \ X
    <3>1. PICK i \in 1 .. Len(w) : x = w[i]
      BY <1>2 DEF ToSet
    <3>2. w[i] \notin X /\ \E j \in 1 .. Len(q) : q[j] = w[i]
      BY <1>1 DEF LeftOf
    <3> QED BY <3>1, <3>2, <1>2 DEF ToSet
  <2>2. ASSUME NEW x \in ToSet(q) \ X PROVE x \in ToSet(w)
    <3>1. PICK j \in 1 .. Len(q) : x = q[j]
      BY <1>2 DEF ToSet
    <3>2. \E i \in 1 .. Len(w) : w[i] = q[j]
      BY <3>1, <1>1 DEF LeftOf
    <3> QED BY <3>1, <3>2, <1>2 DEF ToSet
  <2> QED BY <2>1, <2>2
<1>4. ASSUME NEW i \in 1 .. Len(w), NEW j \in 1 .. Len(w), w[i] = w[j], i < j PROVE FALSE
  <2>1. PICK j1, j2 \in 1 .. Len(q) : j1 < j2 /\ q[j1] = w[i] /\ q[j2] = w[j]
    BY <1>1, <1>4 DEF LeftOf
  <2> QED BY <2>1, <1>2, <1>4 DEF Injective
<1>5. Injective(w)
  <2>1. \A i, j \in 1 .. Len(w) : i < j \/ j < i \/ i = j
    BY <1>2
  <2> QED BY <2>1, <1>4 DEF Injective
<1> QED BY <1>1, <1>3, <1>5 DEF w

\* A block put first.
LEMMA ConsBlock ==
    ASSUME NEW q \in Seq(Block), Injective(q), NEW b \in Block, b \notin ToSet(q)
    PROVE  /\ <<b>> \o q \in Seq(Block) /\ Injective(<<b>> \o q)
           /\ ToSet(<<b>> \o q) = ToSet(q) \cup {b}
           /\ Len(<<b>> \o q) = Len(q) + 1 /\ (<<b>> \o q)[1] = b
<1> DEFINE w == <<b>> \o q
<1>1. /\ w \in Seq(Block) /\ Len(w) = Len(q) + 1 /\ w[1] = b /\ Len(q) \in Nat
      /\ DOMAIN w = 1 .. Len(w) /\ DOMAIN q = 1 .. Len(q)
      /\ \A i \in 1 .. Len(q) : w[i + 1] = q[i]
      /\ \A i \in 1 .. Len(w) : i # 1 => w[i] = q[i - 1]
  OBVIOUS
<1> HIDE DEF w
<1>2. \A i \in 1 .. Len(q) : q[i] # b /\ q[i] \in ToSet(q)
  BY <1>1 DEF ToSet
<1>3. ToSet(w) = ToSet(q) \cup {b}
  <2>1. \A i \in 1 .. Len(w) : w[i] \in ToSet(q) \cup {b}
    <3>1. \A i \in 1 .. Len(w) : i # 1 => i - 1 \in 1 .. Len(q)
      BY <1>1
    <3> QED BY <3>1, <1>1, <1>2
  <2>2. \A i \in 1 .. Len(q) : i + 1 \in 1 .. Len(w)
    BY <1>1
  <2>3. 1 \in 1 .. Len(w)
    BY <1>1
  <2>4. b \in ToSet(w)
    BY <2>3, <1>1 DEF ToSet
  <2>5. \A i \in 1 .. Len(q) : q[i] \in ToSet(w)
    BY <2>2, <1>1 DEF ToSet
  <2>6. \A x \in ToSet(q) : x \in ToSet(w)
    BY <2>5, <1>1 DEF ToSet
  <2>7. \A x \in ToSet(w) : x \in ToSet(q) \cup {b}
    BY <2>1, <1>1 DEF ToSet
  <2> QED BY <2>4, <2>6, <2>7
<1>4. ASSUME NEW i \in 1 .. Len(w), NEW j \in 1 .. Len(w), w[i] = w[j], i < j PROVE FALSE
  <2>1. j # 1 /\ j - 1 \in 1 .. Len(q) /\ w[j] = q[j - 1]
    BY <1>1, <1>4
  <2>2. CASE i = 1
    BY <2>1, <2>2, <1>1, <1>2, <1>4
  <2>3. CASE i # 1
    <3>1. i - 1 \in 1 .. Len(q) /\ w[i] = q[i - 1]
      BY <2>3, <1>1
    <3>2. q[i - 1] = q[j - 1]
      BY <3>1, <2>1, <1>4
    <3>3. i - 1 = j - 1
      BY <3>1, <3>2, <2>1 DEF Injective
    <3> QED BY <3>3, <1>1, <1>4
  <2> QED BY <2>2, <2>3
<1>5. Injective(w)
  <2>1. \A i, j \in 1 .. Len(w) : i < j \/ j < i \/ i = j
    BY <1>1
  <2> QED BY <2>1, <1>4 DEF Injective
<1> QED BY <1>1, <1>3, <1>5 DEF w

\* The most recent ones.
LEMMA FirstBlocks ==
    ASSUME NEW q \in Seq(Block), Injective(q), NEW n \in 0 .. Len(q)
    PROVE  /\ SubSeq(q, 1, n) \in Seq(Block) /\ Injective(SubSeq(q, 1, n))
           /\ Len(SubSeq(q, 1, n)) = n /\ \A i \in 1 .. n : SubSeq(q, 1, n)[i] = q[i]
           /\ ToSet(SubSeq(q, 1, n)) = FirstOf(q, n) /\ FirstOf(q, n) \subseteq ToSet(q)
<1> DEFINE w == SubSeq(q, 1, n)
<1>1. /\ w \in Seq(Block) /\ Len(w) = n /\ DOMAIN w = 1 .. n /\ DOMAIN q = 1 .. Len(q) /\ Len(q) \in Nat
      /\ \A i \in 1 .. n : w[i] = q[i] /\ i \in 1 .. Len(q)
  OBVIOUS
<1> HIDE DEF w
<1>2. Injective(w)
  BY <1>1 DEF Injective
<1>3. ToSet(w) = FirstOf(q, n) /\ FirstOf(q, n) \subseteq ToSet(q)
  BY <1>1 DEF ToSet, FirstOf
<1> QED BY <1>1, <1>2, <1>3 DEF w

-----------------------------------------------------------------------------
(* The content of one block, when something happens to the queue, to the     *)
(* block, to what was written or to the disk.                                *)

\* The queue with one more operation.
LEMMA AppendOp ==
    ASSUME NEW q \in Seq(OpRec), NEW p \in OpRec
    PROVE  /\ Append(q, p) \in Seq(OpRec) /\ Len(q) \in Nat /\ Len(Append(q, p)) = Len(q) + 1
           /\ \A i \in 1 .. Len(q) : Append(q, p)[i] = q[i]
           /\ Append(q, p)[Len(q) + 1] = p
           /\ \A i \in 1 .. Len(Append(q, p)) : i \in 1 .. Len(q) \/ i = Len(q) + 1
           /\ \A i \in 1 .. Len(q) : i \in 1 .. Len(Append(q, p))
           /\ Len(q) + 1 \in 1 .. Len(Append(q, p))
OBVIOUS

\* A new operation carries the block or does not.
LEMMA CoveredAppend ==
    ASSUME NEW q \in Seq(OpRec), NEW p \in OpRec, NEW b
    PROVE  CoveredIn(Append(q, p), b) = CoveredIn(q, b) \cup (IF Covers(p, b) THEN {Len(q) + 1} ELSE {})
<1> DEFINE w == Append(q, p)
<1>1. /\ Len(q) \in Nat /\ Len(w) = Len(q) + 1
      /\ \A i \in 1 .. Len(q) : w[i] = q[i]
      /\ w[Len(q) + 1] = p
      /\ \A i \in 1 .. Len(w) : i \in 1 .. Len(q) \/ i = Len(q) + 1
      /\ \A i \in 1 .. Len(q) : i \in 1 .. Len(w)
      /\ Len(q) + 1 \in 1 .. Len(w)
  BY AppendOp
<1> HIDE DEF w
<1>2. CoveredIn(w, b) = CoveredIn(q, b) \cup (IF Covers(p, b) THEN {Len(q) + 1} ELSE {})
  BY <1>1 DEF CoveredIn
<1> QED BY <1>2 DEF w

\* An operation on another block is nothing to this one.
LEMMA BsAppendOther ==
    ASSUME NEW q \in Seq(OpRec), NEW p \in OpRec, NEW st, NEW dt, NEW t, NEW d, NEW b,
           BSync(q, st, dt, t, d, b), ~Covers(p, b), ~ReadsGone(p, b)
    PROVE  BSync(Append(q, p), st, dt, t, d, b)
<1> DEFINE w == Append(q, p)
<1>1. CoveredIn(w, b) = CoveredIn(q, b)
  BY CoveredAppend
<1>2. /\ \A i \in 1 .. Len(q) : w[i] = q[i]
      /\ w[Len(q) + 1] = p
      /\ \A i \in 1 .. Len(w) : i \in 1 .. Len(q) \/ i = Len(q) + 1
  BY AppendOp
<1> HIDE DEF w
<1>3. \A i \in CoveredIn(q, b) : w[i] = q[i]
  BY <1>2 DEF CoveredIn
<1>4. \A i \in 1 .. Len(w) : ReadsGone(w[i], b) => i \in 1 .. Len(q) /\ w[i] = q[i]
  BY <1>2
<1>5. BSync(w, st, dt, t, d, b)
  BY <1>1, <1>3, <1>4 DEF BSync
<1> QED BY <1>5 DEF w

\* A DIRTY block that no operation carries is given to a new one.
LEMMA BsAppendRun ==
    ASSUME NEW q \in Seq(OpRec), NEW p \in OpRec, NEW dt, NEW t, NEW d, NEW b,
           BSync(q, "DIRTY", dt, t, d, b), CoveredIn(q, b) = {}, Covers(p, b),
           p.left = p.range, p.fd = "open", \A c \in CellsOf(b) : p.datum[c] = dt[c]
    PROVE  BSync(Append(q, p), "CLEANING", dt, t, d, b)
<1> DEFINE w == Append(q, p)
<1>1. CoveredIn(w, b) = {Len(q) + 1}
  BY CoveredAppend
<1>2. /\ \A i \in 1 .. Len(q) : w[i] = q[i]
      /\ w[Len(q) + 1] = p /\ Len(q) \in Nat
      /\ \A i \in 1 .. Len(w) : i \in 1 .. Len(q) \/ i = Len(q) + 1
  BY AppendOp
<1> HIDE DEF w
<1>3. ~ReadsGone(p, b)
  BY DEF ReadsGone, Covers
<1>4. \A i \in 1 .. Len(w) : ReadsGone(w[i], b) => \A j \in CoveredIn(w, b) : i < j
  BY <1>1, <1>2, <1>3
<1>5. \A c \in CellsOf(b) : t[c] # NoData => dt[c] = t[c]
  BY DEF BSync
<1>6. \A c \in CellsOf(b) : t[c] # NoData => Brings(p, c, t, d)
  BY <1>5 DEF Brings, Covers
<1>7. BSync(w, "CLEANING", dt, t, d, b)
  BY <1>1, <1>2, <1>4, <1>5, <1>6 DEF BSync
<1> QED BY <1>7 DEF w

\* A CLEAN block leaves the cache.
LEMMA BsEvict ==
    ASSUME NEW q, NEW dt, NEW dt2, NEW t, NEW d, NEW b, BSync(q, "CLEAN", dt, t, d, b)
    PROVE  BSync(q, "NONE", dt2, t, d, b)
BY DEF BSync

\* A block enters the cache, with what is on disk or with cells nothing is known of.
LEMMA BsLoad ==
    ASSUME NEW q, NEW dt, NEW dt2, NEW t, NEW d, NEW b, BSync(q, "NONE", dt2, t, d, b),
           \A c \in CellsOf(b) : t[c] # NoData => dt[c] = d[c]
    PROVE  BSync(q, "CLEAN", dt, t, d, b)
BY DEF BSync

\* A block is written.
LEMMA BsWrite ==
    ASSUME NEW q, NEW st, NEW dt, NEW dt2, NEW t, NEW t2, NEW d, NEW b, BSync(q, st, dt, t, d, b),
           \A c \in CellsOf(b) : t2[c] # NoData => dt2[c] = t2[c]
    PROVE  BSync(q, "DIRTY", dt2, t2, d, b)
BY DEF BSync

\* Cells are removed, or not known of.
LEMMA BsForget ==
    ASSUME NEW q, NEW st, NEW dt, NEW t, NEW t2, NEW d, NEW b, BSync(q, st, dt, t, d, b),
           \A c \in CellsOf(b) : t2[c] = t[c] \/ t2[c] = NoData
    PROVE  BSync(q, st, dt, t2, d, b)
<1>1. Void(t, b) => Void(t2, b)
  BY DEF Void
<1>2. \A c \in CellsOf(b) : t2[c] # NoData => t2[c] = t[c] /\ t[c] # NoData
  OBVIOUS
<1>3. \A i \in CoveredIn(q, b) : \A c \in CellsOf(b) :
         t2[c] # NoData /\ Brings(q[i], c, t, d) => Brings(q[i], c, t2, d)
  BY <1>2 DEF Brings
<1> QED BY <1>1, <1>2, <1>3 DEF BSync

\* Something else is written on disk; a file that grows is filled where nothing was.
LEMMA BsDisk ==
    ASSUME NEW q, NEW st, NEW dt, NEW t, NEW d, NEW d2, NEW b, BSync(q, st, dt, t, d, b),
           \A c \in CellsOf(b) : d2[c] = d[c] \/ d[c] = NoData
    PROVE  BSync(q, st, dt, t, d2, b)
<1>1. \A c \in CellsOf(b) : t[c] # NoData /\ d[c] = t[c] => d2[c] = t[c]
  OBVIOUS
<1>2. \A i \in CoveredIn(q, b) : \A c \in CellsOf(b) :
         t[c] # NoData /\ Brings(q[i], c, t, d) => Brings(q[i], c, t, d2)
  BY <1>1 DEF Brings
<1> QED BY <1>1, <1>2 DEF BSync

\* Nothing is known of the cells of a block that is not there.
LEMMA BsVoid ==
    ASSUME NEW q, NEW st, NEW dt, NEW dt2, NEW t, NEW t2, NEW d, NEW d2, NEW b, BSync(q, st, dt, t, d, b), Void(t2, b)
    PROVE  BSync(q, "NONE", dt2, t2, d2, b)
BY DEF BSync, Void

\* The queue without its first operation.
LEMMA TailOp ==
    ASSUME NEW q \in Seq(OpRec), q # <<>>
    PROVE  /\ Tail(q) \in Seq(OpRec) /\ Len(q) \in Nat /\ Len(Tail(q)) = Len(q) - 1
           /\ \A i \in 1 .. Len(Tail(q)) : Tail(q)[i] = q[i + 1] /\ i + 1 \in 1 .. Len(q) /\ i \in Nat
           /\ \A i \in 1 .. Len(q) : i = 1 \/ (i - 1 \in 1 .. Len(Tail(q)) /\ Tail(q)[i - 1] = q[i])
           /\ Head(q) = q[1] /\ 1 \in 1 .. Len(q)
OBVIOUS

\* The writes that carry a block, once the first operation has left.
LEMMA CoveredTail ==
    ASSUME NEW q \in Seq(OpRec), q # <<>>, NEW b
    PROVE  /\ \A i : i \in CoveredIn(Tail(q), b) => i + 1 \in CoveredIn(q, b) /\ i \in Nat \ {0}
           /\ \A i \in CoveredIn(q, b) : i = 1 \/ i - 1 \in CoveredIn(Tail(q), b)
<1> DEFINE w == Tail(q)
<1>1. /\ \A i \in 1 .. Len(w) : w[i] = q[i + 1] /\ i + 1 \in 1 .. Len(q) /\ i \in Nat
      /\ \A i \in 1 .. Len(q) : i = 1 \/ (i - 1 \in 1 .. Len(w) /\ w[i - 1] = q[i])
      /\ Len(w) \in Nat
  BY TailOp
<1> HIDE DEF w
<1>2. /\ \A i : i \in CoveredIn(w, b) => i + 1 \in CoveredIn(q, b) /\ i \in Nat \ {0}
      /\ \A i \in CoveredIn(q, b) : i = 1 \/ i - 1 \in CoveredIn(w, b)
  BY <1>1 DEF CoveredIn
<1> QED BY <1>2 DEF w

\* An operation that does not carry the block leaves the queue.
LEMMA BsTail ==
    ASSUME NEW q \in Seq(OpRec), q # <<>>, NEW st, NEW dt, NEW t, NEW d, NEW b,
           BSync(q, st, dt, t, d, b), ~Covers(q[1], b)
    PROVE  BSync(Tail(q), st, dt, t, d, b)
<1> DEFINE w == Tail(q)
<1>1. /\ \A i : i \in CoveredIn(w, b) => i + 1 \in CoveredIn(q, b) /\ i \in Nat \ {0}
      /\ \A i \in CoveredIn(q, b) : i = 1 \/ i - 1 \in CoveredIn(w, b)
  BY CoveredTail
<1>2. /\ \A i \in 1 .. Len(w) : w[i] = q[i + 1] /\ i + 1 \in 1 .. Len(q) /\ i \in Nat
  BY TailOp
<1> HIDE DEF w
<1>3. \A i, j \in CoveredIn(w, b) : i = j
  <2>1. ASSUME NEW i \in CoveredIn(w, b), NEW j \in CoveredIn(w, b) PROVE i = j
    <3>1. i + 1 = j + 1 /\ i \in Nat /\ j \in Nat
      BY <1>1 DEF BSync
    <3> QED BY <3>1
  <2> QED BY <2>1
<1>4. CoveredIn(w, b) # {} => CoveredIn(q, b) # {}
  BY <1>1
<1>5. \A i \in CoveredIn(w, b) : w[i] = q[i + 1] /\ i + 1 \in CoveredIn(q, b)
  <2>1. \A i \in CoveredIn(w, b) : i \in 1 .. Len(w)
    BY DEF CoveredIn
  <2> QED BY <2>1, <1>1, <1>2
<1>6. ASSUME NEW i \in 1 .. Len(w), ReadsGone(w[i], b)
      PROVE  \/ Void(t, b)
             \/ st = "DIRTY"
             \/ st = "CLEANING" /\ \A j \in CoveredIn(w, b) : i < j
  <2>1. ReadsGone(q[i + 1], b) /\ i + 1 \in 1 .. Len(q) /\ i \in Nat
    BY <1>2, <1>6
  <2>2. ASSUME NEW j \in CoveredIn(w, b), i + 1 < j + 1 PROVE i < j
    BY <2>1, <2>2, <1>1
  <2> QED BY <2>1, <2>2, <1>5 DEF BSync
<1>7. BSync(w, st, dt, t, d, b)
  BY <1>3, <1>4, <1>5, <1>6 DEF BSync
<1> QED BY <1>7 DEF w

\* The first operation, which carries the block, is the only one.
LEMMA CoveredOnce ==
    ASSUME NEW q \in Seq(OpRec), q # <<>>, NEW st, NEW dt, NEW t, NEW d, NEW b,
           BSync(q, st, dt, t, d, b), Covers(q[1], b)
    PROVE  CoveredIn(Tail(q), b) = {} /\ CoveredIn(q, b) = {1}
<1>1. 1 \in CoveredIn(q, b)
  BY TailOp DEF CoveredIn
<1>2. CoveredIn(q, b) = {1}
  BY <1>1 DEF BSync
<1>3. \A i : i \in CoveredIn(Tail(q), b) => i + 1 \in {1} /\ i \in Nat \ {0}
  BY CoveredTail, <1>2
<1> QED BY <1>2, <1>3

\* What the step of the disk leaves of the cells of a block that o carries; now are
\* the cells of the piece it writes.
Stored(o, now, d, d2, b) ==
    \A c \in CellsOf(b) :
        IF c \in now THEN o.fd = "open" => d2[c] = o.datum[c]
        ELSE d2[c] = d[c] \/ d[c] = NoData

\* The last piece of a write: the block is CLEAN unless it was written meanwhile.
LEMMA BsDone ==
    ASSUME NEW q \in Seq(OpRec), q # <<>>, NEW st, NEW dt, NEW t, NEW d, NEW d2, NEW b,
           BSync(q, st, dt, t, d, b), Covers(q[1], b), st # "CLEAN",
           \A c \in q[1].left : PieceOf(c) = PieceOf(Min(q[1].left)),
           Stored(q[1], q[1].left, d, d2, b)
    PROVE  BSync(Tail(q), IF st = "CLEANING" THEN "CLEAN" ELSE st, dt, t, d2, b)
<1> DEFINE w == Tail(q)
           st2 == IF st = "CLEANING" THEN "CLEAN" ELSE st
<1>1. CoveredIn(w, b) = {} /\ CoveredIn(q, b) = {1}
  BY CoveredOnce
<1>2. /\ \A i \in 1 .. Len(w) : w[i] = q[i + 1] /\ i + 1 \in 1 .. Len(q) /\ i \in Nat
  BY TailOp
<1> HIDE DEF w
<1>3. ASSUME st = "CLEANING", NEW c \in CellsOf(b), t[c] # NoData PROVE d2[c] = t[c]
  <2>1. Brings(q[1], c, t, d)
    BY <1>1, <1>3 DEF BSync
  <2> QED BY <2>1, <1>3 DEF Brings, Stored
<1>4. st = "CLEANING" \/ st = "DIRTY" \/ Void(t, b)
  BY <1>1 DEF BSync
<1>5. ASSUME NEW i \in 1 .. Len(w), ReadsGone(w[i], b) PROVE Void(t, b) \/ st = "DIRTY"
  <2>1. ReadsGone(q[i + 1], b) /\ i + 1 \in 1 .. Len(q) /\ i \in Nat /\ ~(i + 1 < 1)
    BY <1>2, <1>5
  <2>2. \/ Void(t, b) \/ st = "DIRTY" \/ \A j \in CoveredIn(q, b) : i + 1 < j
    BY <2>1 DEF BSync
  <2> QED BY <2>1, <2>2, <1>1
<1>6. \A c \in CellsOf(b) : t[c] # NoData /\ st # "NONE" => dt[c] = t[c]
  BY DEF BSync
<1>7. CASE st = "CLEANING"
  <2>1. BSync(w, "CLEAN", dt, t, d2, b)
    BY <1>1, <1>3, <1>5, <1>6, <1>7 DEF BSync
  <2> QED BY <2>1, <1>7 DEF w
<1>8. CASE st = "DIRTY"
  <2>1. BSync(w, "DIRTY", dt, t, d2, b)
    BY <1>1, <1>5, <1>6, <1>8 DEF BSync
  <2> QED BY <2>1, <1>8 DEF w
<1>9. CASE st # "CLEANING" /\ Void(t, b)
  <2>1. BSync(w, st, dt, t, d2, b)
    BY <1>1, <1>9 DEF BSync, Void
  <2> QED BY <2>1, <1>9 DEF w
<1> QED BY <1>4, <1>7, <1>8, <1>9

\* One piece of a write with another to come.
LEMMA BsNext ==
    ASSUME NEW q \in Seq(OpRec), q # <<>>, NEW st, NEW dt, NEW t, NEW d, NEW d2, NEW b, NEW p \in OpRec, NEW now,
           BSync(q, st, dt, t, d, b), Covers(q[1], b),
           \A c \in now : c \in q[1].left /\ PieceOf(c) = PieceOf(Min(q[1].left)),
           p.op = "blkwr", p.range = q[1].range, p.left = q[1].left \ now, p.datum = q[1].datum, p.fd = "open",
           Stored(q[1], now, d, d2, b)
    PROVE  BSync(Append(Tail(q), p), st, dt, t, d2, b)
<1> DEFINE v == Tail(q)
           w == Append(v, p)
<1>1. CoveredIn(v, b) = {} /\ CoveredIn(q, b) = {1}
  BY CoveredOnce
<1>2. /\ \A i \in 1 .. Len(v) : v[i] = q[i + 1] /\ i + 1 \in 1 .. Len(q) /\ i \in Nat
      /\ v \in Seq(OpRec)
  BY TailOp
<1> HIDE DEF v
<1>3. Covers(p, b) /\ ~ReadsGone(p, b)
  BY DEF Covers, ReadsGone
<1>4. CoveredIn(w, b) = {Len(v) + 1}
  BY <1>1, <1>2, <1>3, CoveredAppend
<1>5. /\ \A i \in 1 .. Len(v) : w[i] = v[i]
      /\ w[Len(v) + 1] = p /\ Len(v) \in Nat
      /\ \A i \in 1 .. Len(w) : i \in 1 .. Len(v) \/ i = Len(v) + 1
  BY <1>2, AppendOp
<1> HIDE DEF w
<1>6. ASSUME st = "CLEANING", NEW c \in CellsOf(b), t[c] # NoData PROVE Brings(p, c, t, d2)
  <2>1. Brings(q[1], c, t, d)
    BY <1>1, <1>6 DEF BSync
  <2>2. CASE c \in now
    <3>1. c \notin p.left /\ d2[c] = q[1].datum[c] /\ q[1].datum[c] = t[c]
      BY <2>1, <2>2 DEF Brings, Stored
    <3> QED BY <3>1 DEF Brings
  <2>3. CASE c \notin now
    BY <2>1, <2>3, <1>6 DEF Brings, Stored
  <2> QED BY <2>2, <2>3
<1>7. st = "CLEANING" \/ st = "DIRTY" \/ Void(t, b)
  BY <1>1 DEF BSync
<1>8. ASSUME NEW i \in 1 .. Len(w), ReadsGone(w[i], b) PROVE \A j \in CoveredIn(w, b) : i < j
  <2>1. i \in 1 .. Len(v)
    BY <1>3, <1>5, <1>8
  <2> QED BY <2>1, <1>4, <1>5
<1>9. \A c \in CellsOf(b) : t[c] # NoData /\ st # "NONE" => dt[c] = t[c]
  BY DEF BSync
<1>10. CASE st = "CLEANING"
  <2>1. BSync(w, st, dt, t, d2, b)
    BY <1>4, <1>5, <1>6, <1>8, <1>9, <1>10 DEF BSync
  <2> QED BY <2>1 DEF w, v
<1>11. CASE st = "DIRTY"
  <2>1. BSync(w, st, dt, t, d2, b)
    BY <1>4, <1>9, <1>11 DEF BSync
  <2> QED BY <2>1 DEF w, v
<1>12. CASE st # "CLEANING" /\ Void(t, b)
  <2>1. BSync(w, st, dt, t, d2, b)
    BY <1>4, <1>12 DEF BSync, Void
  <2> QED BY <2>1 DEF w, v
<1> QED BY <1>7, <1>10, <1>11, <1>12

\* The operations are the same but for whom they are for, and for the files that were
\* deleted, which are not those of the block.
LEMMA BsSame ==
    ASSUME NEW q, NEW w, NEW st, NEW dt, NEW t, NEW d, NEW b,
           BSync(q, st, dt, t, d, b), Len(w) = Len(q),
           \A i \in 1 .. Len(q) :
              /\ w[i].op = q[i].op /\ w[i].range = q[i].range /\ w[i].left = q[i].left /\ w[i].datum = q[i].datum
              /\ ReadsGone(w[i], b) => ReadsGone(q[i], b)
              /\ w[i].fd = q[i].fd \/ \A c \in CellsOf(b) : PieceOf(c) # PieceOf(Min(q[i].left))
    PROVE  BSync(w, st, dt, t, d, b)
<1>1. CoveredIn(w, b) = CoveredIn(q, b)
  BY DEF CoveredIn, Covers
<1>2. ASSUME NEW i \in 1 .. Len(q), NEW c \in CellsOf(b), Brings(q[i], c, t, d) PROVE Brings(w[i], c, t, d)
  BY <1>2 DEF Brings
<1>3. \A i \in CoveredIn(q, b) : i \in 1 .. Len(q)
  BY DEF CoveredIn
<1> QED BY <1>1, <1>2, <1>3 DEF BSync

\* To give up reads takes no write away.
LEMMA CoveredWithout ==
    ASSUME NEW q \in Seq(OpRec), NEW X, NEW w \in Seq(OpRec), NEW b,
           LeftOf(w, q, Len(q), X), \A o \in X : o.op = "blkrd"
    PROVE  CoveredIn(q, b) # {} => CoveredIn(w, b) # {}
<1>1. ASSUME NEW i \in CoveredIn(q, b) PROVE CoveredIn(w, b) # {}
  <2>1. i \in 1 .. Len(q) /\ q[i] \notin X
    BY DEF CoveredIn, Covers
  <2> QED BY <2>1 DEF CoveredIn, LeftOf
<1> QED BY <1>1

\* Reads of the disk are given up.
LEMMA BsWithout ==
    ASSUME NEW q \in Seq(OpRec), NEW X, NEW w \in Seq(OpRec), NEW st, NEW dt, NEW t, NEW d, NEW b,
           BSync(q, st, dt, t, d, b), LeftOf(w, q, Len(q), X), \A o \in X : o.op = "blkrd"
    PROVE  BSync(w, st, dt, t, d, b)
<1>1. ASSUME NEW i \in CoveredIn(w, b) PROVE i \in 1 .. Len(w) /\ i \in Nat /\ \E j \in CoveredIn(q, b) : q[j] = w[i]
  BY DEF CoveredIn, LeftOf
<1>2. ASSUME NEW i \in CoveredIn(w, b), NEW j \in CoveredIn(w, b), i < j PROVE FALSE
  <2>1. PICK j1, j2 \in 1 .. Len(q) : j1 < j2 /\ q[j1] = w[i] /\ q[j2] = w[j]
    <3>1. i \in 1 .. Len(w) /\ j \in 1 .. Len(w)
      BY <1>1
    <3> QED BY <3>1, <1>2 DEF LeftOf
  <2>2. j1 \in CoveredIn(q, b) /\ j2 \in CoveredIn(q, b)
    BY <2>1 DEF CoveredIn
  <2>3. j1 = j2
    BY <2>2 DEF BSync
  <2> QED BY <2>1, <2>3
<1>3. \A i, j \in CoveredIn(w, b) : i = j
  <2>1. \A i, j \in CoveredIn(w, b) : i \in Nat /\ j \in Nat /\ ~(i < j) /\ ~(j < i)
    BY <1>1, <1>2
  <2> QED BY <2>1
<1>4. CoveredIn(w, b) # {} => CoveredIn(q, b) # {}
  BY <1>1
<1>5. ASSUME NEW i \in 1 .. Len(w), ReadsGone(w[i], b), NEW j \in CoveredIn(w, b),
             \A a \in 1 .. Len(q) : ReadsGone(q[a], b) => \A e \in CoveredIn(q, b) : a < e
      PROVE  i < j
  <2>1. j \in 1 .. Len(w) /\ i \in Nat /\ j \in Nat /\ Covers(w[j], b)
    BY <1>1 DEF CoveredIn
  <2>2. i # j
    BY <2>1, <1>5 DEF Covers, ReadsGone
  <2>3. CASE j < i
    <3>1. PICK j1, j2 \in 1 .. Len(q) : j1 < j2 /\ q[j1] = w[j] /\ q[j2] = w[i]
      BY <2>1, <2>3 DEF LeftOf
    <3>2. j1 \in CoveredIn(q, b) /\ ReadsGone(q[j2], b)
      BY <3>1, <2>1, <1>5 DEF CoveredIn
    <3>3. j2 < j1
      BY <3>2, <1>5
    <3> QED BY <3>1, <3>3
  <2> QED BY <2>1, <2>2, <2>3
<1>6. \A i \in 1 .. Len(w) : ReadsGone(w[i], b) => \E j \in 1 .. Len(q) : ReadsGone(q[j], b)
  BY DEF LeftOf
<1>7. \A i \in 1 .. Len(w) : ReadsGone(w[i], b) =>
          \/ Void(t, b)
          \/ st = "DIRTY"
          \/ st = "CLEANING" /\ \A j \in CoveredIn(w, b) : i < j
  BY <1>5, <1>6 DEF BSync
<1> QED BY <1>1, <1>3, <1>4, <1>7 DEF BSync

-----------------------------------------------------------------------------
(* The operations on the cache.                                              *)

\* What the fields of a cache are.
LEMMA DataType == ASSUME NEW S \in SUBSET Cell, NEW f \in [S -> Int] PROVE f \in Data
BY DEF Data

LEMMA DbType == ASSUME NEW S \in SUBSET Block, NEW f \in [S -> Entry] PROVE f \in Db /\ DOMAIN f = S
BY DEF Db

LEMMA DbIs == ASSUME NEW f \in Db PROVE DOMAIN f \subseteq Block /\ \A b \in DOMAIN f : f[b] \in Entry
BY DEF Db

\* A cache with the same blocks, and one more operation.
Joins(k, t, o) ==
    /\ t \in Cache
    /\ t.db = k.db /\ t.lru = k.lru /\ t.err = k.err /\ t.twice = k.twice
    /\ t.subio = Append(k.subio, o)

\* The same operation but for its file.
Reopened(o, p) ==
    /\ p \in OpRec
    /\ p.op = o.op /\ p.who = o.who /\ p.range = o.range /\ p.left = o.left /\ p.datum = o.datum
    /\ p.fd \in {"open", "noent"}
    /\ p.op = "blkwr" => p.fd = "open"

\* SubioCtor appends the operation, with the file as it finds it.
LEMMA SubioCtorIs ==
    ASSUME NEW k \in Cache, NEW o \in OpRec, o.left # {}
    PROVE  \E p : Reopened(o, p) /\ Joins(k, SubioCtor(k, o), p)
<1> DEFINE pc == PieceOf(Min(o.left))
           f == IF o.op = "blkrd" /\ pc \notin k.files THEN "noent" ELSE "open"
           p == [o EXCEPT !.fd = f]
           t == SubioCtor(k, o)
<1>1. pc \in Piece
  <2>1. o.left \in SUBSET Cell
    BY DEF OpRec
  <2> QED BY <2>1, CellsMin, PieceOfCell
<1>2. t = [k EXCEPT !.subio = Append(@, p), !.files = IF o.op = "blkwr" THEN @ \cup {pc} ELSE @]
  BY DEF SubioCtor
<1> HIDE DEF t, pc
<1>3. f \in {"open", "noent"} /\ (o.op = "blkwr" => f = "open")
  OBVIOUS
<1> HIDE DEF f
<1>4. Reopened(o, p)
  BY <1>3 DEF Reopened, OpRec
<1> HIDE DEF p
<1>5. Append(k.subio, p) \in Seq(OpRec)
  BY <1>4 DEF Cache, Reopened
<1>6. (IF o.op = "blkwr" THEN k.files \cup {pc} ELSE k.files) \in SUBSET Piece
  BY <1>1 DEF Cache
<1>7. Joins(k, t, p)
  BY <1>2, <1>5, <1>6 DEF Joins, Cache
<1> QED BY <1>4, <1>7 DEF t

\* A cache with one operation more is well formed.
LEMMA JoinsStruct ==
    ASSUME NEW k, Struct(k), NEW t, NEW p \in OpRec, OpOk(p), Joins(k, t, p)
    PROVE  Struct(t)
<1>1. k.subio \in Seq(OpRec)
  BY DEF Struct, Cache
<1>2. \A i \in 1 .. Len(t.subio) : OpOk(t.subio[i])
  BY <1>1, AppendOp DEF Joins, Struct
<1> QED BY <1>2 DEF Joins, Struct

\* A read of the disk begins.
LEMMA BlkrdSync ==
    ASSUME NEW k, Struct(k), NEW t, NEW d, Sync(k, t, d), NEW p \in OpRec, p.op = "blkrd", p.fd # "unlinked",
           NEW k2, Joins(k, k2, p)
    PROVE  Sync(k2, t, d)
<1>1. k.subio \in Seq(OpRec)
  BY DEF Struct, Cache
<1>2. \A b : ~Covers(p, b) /\ ~ReadsGone(p, b)
  BY DEF Covers, ReadsGone
<1>3. \A b : StateOf(k2, b) = StateOf(k, b) /\ DatumOf(k2, b) = DatumOf(k, b)
  BY DEF StateOf, DatumOf, Joins
<1>4. k2.err = k.err /\ k2.twice = k.twice /\ k2.subio = Append(k.subio, p)
  BY DEF Joins
<1>5. \A b : CoveredIn(k2.subio, b) = CoveredIn(k.subio, b)
  BY <1>1, <1>2, <1>4, CoveredAppend
<1>6. Waited(k) => Waited(k2)
  BY <1>3, <1>5 DEF Waited
<1>7. ASSUME NEW b \in Block, BlockSync(k, t, d, b) PROVE BlockSync(k2, t, d, b)
  BY <1>1, <1>2, <1>3, <1>4, <1>7, BsAppendOther DEF BlockSync
<1> QED BY <1>4, <1>6, <1>7 DEF Sync

\* The pool when nothing but the queue has changed, and no write has left it.
LEMMA SamePool ==
    ASSUME NEW k, Struct(k), NEW k2, Struct(k2), PoolOk(k), k.err => k2.err,
           DOMAIN k2.db \subseteq DOMAIN k.db, blkwr_db(k) # {} => blkwr_db(k2) # {}
    PROVE  PoolOk(k2)
<1>1. /\ PoolCurlen(k, Len(k.lru)) = Held(ToSet(k.lru)) /\ PoolCurlen(k, Len(k.lru)) \in Nat
      /\ ToSet(k.lru) \subseteq Block
  BY PoolLen DEF Struct, Cache
<1>2. PoolCurlen(k2, Len(k2.lru)) = Held(ToSet(k2.lru)) /\ PoolCurlen(k2, Len(k2.lru)) \in Nat
  BY PoolLen DEF Struct, Cache
<1>3. ToSet(k2.lru) \subseteq ToSet(k.lru)
  BY DEF Struct
<1>4. Held(ToSet(k2.lru)) <= Held(ToSet(k.lru))
  BY <1>1, <1>3, HeldLess
<1>5. PoolMaxlen \in Nat
  BY BtIoCacheAssumption
<1> QED BY <1>1, <1>2, <1>4, <1>5 DEF PoolOk

\* A new operation leaves the pool within its limit or a write under way.
LEMMA JoinsPool ==
    ASSUME NEW k, Struct(k), PoolOk(k), NEW p \in OpRec, NEW k2, Struct(k2), Joins(k, k2, p)
    PROVE  PoolOk(k2)
<1>1. k.subio \in Seq(OpRec) /\ k2.subio = Append(k.subio, p)
  BY DEF Struct, Cache, Joins
<1>2. blkwr_db(k) # {} => blkwr_db(k2) # {}
  <2>1. DOMAIN k.subio = 1 .. Len(k.subio) /\ DOMAIN k2.subio = 1 .. Len(k2.subio)
    BY <1>1
  <2> QED BY <2>1, <1>1, AppendOp DEF blkwr_db
<1> QED BY <1>2, SamePool DEF Joins

-----------------------------------------------------------------------------
(* bt_io_cache_blkwr_t::start.                                               *)

\* A run of DIRTY blocks is CLEANING, and the operation p carries it.
Started(k, t, run, p) ==
    /\ run \subseteq DOMAIN k.db /\ \A x \in run : k.db[x].state = "DIRTY"
    /\ t \in Cache /\ t.lru = k.lru /\ t.err = k.err
    /\ p \in OpRec /\ OpOk(p) /\ t.subio = Append(k.subio, p)
    /\ p.op = "blkwr" /\ p.fd = "open" /\ p.left = p.range /\ p.who = NoSlot
    /\ \A x \in Block : Covers(p, x) <=> x \in run
    /\ DOMAIN t.db = DOMAIN k.db
    /\ \A x \in DOMAIN k.db :
          /\ t.db[x].datum = k.db[x].datum
          /\ t.db[x].state = IF x \in run THEN "CLEANING" ELSE k.db[x].state
    /\ \A x \in run : \A c \in CellsOf(x) : p.datum[c] = k.db[x].datum[c]
    /\ \A x \in Block : x \in t.twice <=> x \in k.twice \/ (x \in run /\ CoveredIn(k.subio, x) # {})

\* The run of blocks around a DIRTY one is of DIRTY blocks.
LEMMA DirtyRun ==
    ASSUME NEW k, Struct(k), NEW b \in Block, StateOf(k, b) = "DIRTY"
    PROVE  /\ b \in DirtyContiguous(k, b) /\ DirtyContiguous(k, b) \subseteq DOMAIN k.db
           /\ DirtyContiguous(k, b) \subseteq Block
           /\ \A x \in DirtyContiguous(k, b) : k.db[x].state = "DIRTY"
<1>1. ASSUME NEW x \in Block
      PROVE  LET m == Min({x, b}) n == Max({x, b})
             IN  m \in Nat /\ n \in Nat /\ m <= x /\ x <= n /\ m \in {x, b} /\ n \in {x, b}
  <2>1. x \in Nat /\ b \in Nat
    BY Lens
  <2>2. {x, b} \in SUBSET Nat /\ {x, b} # {} /\ {x, b} \in SUBSET (0 .. x + b) /\ x + b \in Nat
    BY <2>1
  <2>3. Min({x, b}) \in {x, b} /\ \A y \in {x, b} : Min({x, b}) <= y
    BY <2>2, MinIs
  <2>4. Max({x, b}) \in {x, b} /\ \A y \in {x, b} : y <= Max({x, b})
    BY <2>2, MaxIs
  <2> QED BY <2>1, <2>3, <2>4
<1>2. ASSUME NEW x \in DirtyContiguous(k, b) PROVE StateOf(k, x) = "DIRTY" /\ x \in Block
  <2>1. x \in Block /\ \A y \in Min({x, b}) .. Max({x, b}) : StateOf(k, y) = "DIRTY"
    BY DEF DirtyContiguous
  <2>2. x \in Min({x, b}) .. Max({x, b})
    <3>1. x \in Nat
      BY <2>1, Lens
    <3> QED BY <2>1, <3>1, <1>1
  <2> QED BY <2>1, <2>2
<1>3. b \in DirtyContiguous(k, b)
  <2>1. Min({b, b}) = b /\ Max({b, b}) = b /\ b \in Nat
    BY <1>1, Lens
  <2>2. \A y \in Min({b, b}) .. Max({b, b}) : y = b
    BY <2>1
  <2> QED BY <2>2 DEF DirtyContiguous
<1> QED BY <1>2, <1>3 DEF StateOf

\* start_blkwr carries the run around the block.
LEMMA StartIs ==
    ASSUME NEW k, Struct(k), NEW b \in Block, StateOf(k, b) = "DIRTY"
    PROVE  \E p : Started(k, start_blkwr(k, b), DirtyContiguous(k, b), p)
<1> DEFINE run == DirtyContiguous(k, b)
           cells == UNION {CellsOf(x) : x \in run}
           db2 == [x \in DOMAIN k.db |-> IF x \in run THEN [k.db[x] EXCEPT !.state = "CLEANING"] ELSE k.db[x]]
           more == {x \in run : \E i \in blkwr_db(k) : CellsOf(x) \subseteq k.subio[i].range}
           dat == [c \in cells |-> k.db[BlockOf(c)].datum[c]]
           o == [op |-> "blkwr", who |-> NoSlot, range |-> cells, left |-> cells, fd |-> "open", datum |-> dat]
           k1 == [k EXCEPT !.db = db2, !.twice = @ \cup more]
<1>1. b \in run /\ run \subseteq DOMAIN k.db /\ run \subseteq Block /\ \A x \in run : k.db[x].state = "DIRTY"
  BY DirtyRun
<1>2. start_blkwr(k, b) = SubioCtor(k1, o)
  BY DEF start_blkwr
<1> HIDE DEF run
<1>3. cells \subseteq Cell /\ cells # {}
  BY <1>1, BlockCells
<1>4. \A c \in cells : BlockOf(c) \in run /\ c \in CellsOf(BlockOf(c)) /\ CellsOf(BlockOf(c)) \subseteq cells
  BY <1>1, BlockCells
<1>5. \A x \in Block : CellsOf(x) \subseteq cells <=> x \in run
  <2>1. ASSUME NEW x \in Block, CellsOf(x) \subseteq cells PROVE x \in run
    <3>1. PICK c : c \in CellsOf(x)
      BY BlockCells
    <3>2. BlockOf(c) = x /\ c \in cells
      BY <3>1, <2>1, BlockCells
    <3> QED BY <3>2, <1>4
  <2> QED BY <2>1
<1>6. dat \in [cells -> Int] /\ \A x \in run : \A c \in CellsOf(x) : dat[c] = k.db[x].datum[c]
  <2>1. \A c \in cells : k.db[BlockOf(c)].datum[c] \in Int
    BY <1>1, <1>4 DEF Struct
  <2>2. \A x \in run : \A c \in CellsOf(x) : c \in cells /\ BlockOf(c) = x
    BY <1>1, BlockCells
  <2> HIDE DEF cells
  <2> QED BY <2>1, <2>2
<1> HIDE DEF cells, dat
<1>7. o \in OpRec
  <2>1. dat \in Data
    BY <1>3, <1>6, DataType
  <2> QED BY <2>1, <1>3 DEF OpRec
<1>8. db2 \in Db /\ DOMAIN db2 = DOMAIN k.db
  <2>1. DOMAIN k.db \subseteq Block /\ \A x \in DOMAIN k.db : k.db[x] \in Entry
    BY DbIs DEF Struct, Cache
  <2>2. \A x \in DOMAIN k.db : [k.db[x] EXCEPT !.state = "CLEANING"] \in Entry
    BY <2>1 DEF Entry, BlockState
  <2>3. db2 \in [DOMAIN k.db -> Entry]
    BY <2>1, <2>2
  <2> HIDE DEF db2
  <2> QED BY <2>1, <2>3, DbType
<1>9. \A x \in DOMAIN k.db :
         /\ db2[x].datum = k.db[x].datum
         /\ db2[x].state = IF x \in run THEN "CLEANING" ELSE k.db[x].state
  <2>1. \A x \in DOMAIN k.db : k.db[x] \in Entry
    BY DbIs DEF Struct, Cache
  <2> QED BY <2>1 DEF Entry
<1> HIDE DEF db2
<1>10. more \subseteq Block /\ \A x \in Block : x \in more <=> x \in run /\ CoveredIn(k.subio, x) # {}
  <2>1. DOMAIN k.subio = 1 .. Len(k.subio)
    BY DEF Struct, Cache
  <2>2. \A x \in Block : CoveredIn(k.subio, x) # {} <=> \E i \in blkwr_db(k) : CellsOf(x) \subseteq k.subio[i].range
    BY <2>1 DEF CoveredIn, Covers, blkwr_db
  <2> QED BY <2>2, <1>1
<1> HIDE DEF more
<1>11. /\ k1 \in Cache /\ k1.db = db2 /\ k1.lru = k.lru /\ k1.subio = k.subio /\ k1.err = k.err
       /\ k1.twice = k.twice \cup more
  BY <1>8, <1>10 DEF Struct, Cache
<1> HIDE DEF k1
<1>12. /\ o.op = "blkwr" /\ o.who = NoSlot /\ o.range = cells /\ o.left = cells /\ o.datum = dat /\ o.left # {}
  BY <1>3
<1> HIDE DEF o
<1>13. PICK p : Reopened(o, p) /\ Joins(k1, SubioCtor(k1, o), p)
  BY <1>7, <1>11, <1>12, SubioCtorIs
<1>14. /\ p \in OpRec /\ p.op = "blkwr" /\ p.fd = "open" /\ p.left = cells /\ p.range = cells /\ p.datum = dat
       /\ p.who = NoSlot
  BY <1>12, <1>13 DEF Reopened
<1>15. OpOk(p)
  BY <1>3, <1>4, <1>6, <1>14 DEF OpOk
<1>16. \A x \in Block : Covers(p, x) <=> x \in run
  BY <1>5, <1>14 DEF Covers
<1> DEFINE t == SubioCtor(k1, o)
<1>17. /\ t \in Cache /\ t.db = db2 /\ t.lru = k.lru /\ t.err = k.err /\ t.subio = Append(k.subio, p)
       /\ t.twice = k.twice \cup more
  BY <1>11, <1>13 DEF Joins
<1> HIDE DEF t
<1>18. Started(k, t, run, p)
  BY <1>1, <1>6, <1>8, <1>9, <1>10, <1>14, <1>15, <1>16, <1>17 DEF Started
<1> QED BY <1>2, <1>18 DEF t, run

\* A write that begins keeps the cache coherent: what it carries is what was written
\* last, as the blocks were DIRTY.
LEMMA StartedOk ==
    ASSUME NEW k, Struct(k), NEW t, NEW d, Sync(k, t, d), NEW k2, NEW run, NEW p, Started(k, k2, run, p)
    PROVE  Struct(k2) /\ Sync(k2, t, d) /\ blkwr_db(k2) # {}
<1>1. k.subio \in Seq(OpRec) /\ p \in OpRec /\ k2.subio = Append(k.subio, p)
  BY DEF Struct, Cache, Started
<1>2. Struct(k2)
  <2>1. \A i \in 1 .. Len(k2.subio) : OpOk(k2.subio[i])
    BY <1>1, AppendOp DEF Started, Struct
  <2>2. \A b \in DOMAIN k2.db : k2.db[b].datum \in [CellsOf(b) -> Int]
    BY DEF Started, Struct
  <2> QED BY <2>1, <2>2 DEF Started, Struct
<1>3. \A x \in Block : /\ StateOf(k2, x) = IF x \in run THEN "CLEANING" ELSE StateOf(k, x)
                       /\ DatumOf(k2, x) = DatumOf(k, x)
                       /\ x \in run => StateOf(k, x) = "DIRTY"
  BY DEF Started, StateOf, DatumOf
<1>4. \A x \in Block : CoveredIn(k2.subio, x) = CoveredIn(k.subio, x) \cup (IF x \in run THEN {Len(k.subio) + 1} ELSE {})
  BY <1>1, CoveredAppend DEF Started
<1>5. Waited(k) => Waited(k2)
  BY <1>3, <1>4 DEF Waited
<1>6. ASSUME NEW x \in Block, x \notin k2.twice, x \in k.twice \/ BlockSync(k, t, d, x) PROVE BlockSync(k2, t, d, x)
  <2>1. x \notin k.twice /\ BSync(k.subio, StateOf(k, x), DatumOf(k, x), t, d, x)
    BY <1>6 DEF Started, BlockSync
  <2>2. CASE x \notin run
    <3>1. ~Covers(p, x) /\ ~ReadsGone(p, x)
      BY <2>2 DEF Started, ReadsGone
    <3>2. BSync(k2.subio, StateOf(k, x), DatumOf(k, x), t, d, x)
      BY <2>1, <3>1, <1>1, BsAppendOther
    <3> QED BY <3>2, <2>2, <1>3 DEF BlockSync
  <2>3. CASE x \in run
    <3>1. CoveredIn(k.subio, x) = {} /\ Covers(p, x) /\ p.left = p.range /\ p.fd = "open"
      BY <2>3, <1>6 DEF Started
    <3>2. \A c \in CellsOf(x) : p.datum[c] = DatumOf(k, x)[c]
      BY <2>3 DEF Started, DatumOf
    <3>3. BSync(k.subio, "DIRTY", DatumOf(k, x), t, d, x)
      BY <2>1, <2>3, <1>3
    <3>4. BSync(k2.subio, "CLEANING", DatumOf(k, x), t, d, x)
      BY <3>1, <3>2, <3>3, <1>1, BsAppendRun
    <3> QED BY <3>4, <2>3, <1>3 DEF BlockSync
  <2> QED BY <2>2, <2>3
<1>7. Sync(k2, t, d)
  BY <1>5, <1>6 DEF Sync, Started
<1>8. blkwr_db(k2) # {}
  <2>1. Len(k.subio) + 1 \in DOMAIN k2.subio /\ k2.subio[Len(k.subio) + 1] = p
    BY <1>1
  <2> QED BY <2>1 DEF blkwr_db, Started
<1> QED BY <1>2, <1>7, <1>8

-----------------------------------------------------------------------------
(* shrink_if_needed.                                                         *)

\* The queue has got nothing but writes.
SameReads(k, k2) ==
    /\ Len(k.subio) <= Len(k2.subio)
    /\ \A i \in 1 .. Len(k.subio) : k2.subio[i] = k.subio[i]
    /\ \A i \in 1 .. Len(k2.subio) : i \in 1 .. Len(k.subio) \/ k2.subio[i].who = NoSlot

\* The blocks of the first n stay, and those that leave are CLEAN.
Shrunk(k, k2, n) ==
    /\ k2 \in Cache /\ k2.subio = k.subio /\ k2.err = k.err /\ k2.twice = k.twice
    /\ n \in 0 .. Len(k.lru) /\ k2.lru = SubSeq(k.lru, 1, n)
    /\ DOMAIN k2.db = FirstOf(k.lru, n)
    /\ \A b \in DOMAIN k2.db : b \in DOMAIN k.db /\ k2.db[b] = k.db[b]
    /\ \A b \in DOMAIN k.db : b \in DOMAIN k2.db \/ k.db[b].state = "CLEAN"

\* A block of the cache has a state.
LEMMA StateIs ==
    ASSUME NEW k, Struct(k), NEW b \in DOMAIN k.db
    PROVE  StateOf(k, b) = k.db[b].state /\ k.db[b].state \in BlockState /\ b \in Block
<1>1. k.db[b] \in Entry /\ b \in Block
  BY DbIs DEF Struct, Cache
<1> QED BY <1>1 DEF Entry, StateOf

\* To evict CLEAN blocks keeps the cache coherent.
LEMMA ShrunkOk ==
    ASSUME NEW k, Struct(k), NEW t, NEW d, Sync(k, t, d), NEW k2, NEW n, Shrunk(k, k2, n)
    PROVE  Struct(k2) /\ Sync(k2, t, d)
<1>1. Struct(k2)
  <2>1. k.lru \in Seq(Block) /\ Injective(k.lru)
    BY DEF Struct, Cache
  <2>2. Injective(k2.lru) /\ DOMAIN k2.db = ToSet(k2.lru)
    BY <2>1, FirstBlocks DEF Shrunk
  <2>3. \A b \in DOMAIN k2.db : k2.db[b].datum \in [CellsOf(b) -> Int]
    BY DEF Shrunk, Struct
  <2>4. \A i \in 1 .. Len(k2.subio) : OpOk(k2.subio[i])
    BY DEF Shrunk, Struct
  <2> QED BY <2>2, <2>3, <2>4 DEF Struct, Shrunk
<1>2. ASSUME NEW b \in Block
      PROVE  \/ StateOf(k2, b) = StateOf(k, b) /\ DatumOf(k2, b) = DatumOf(k, b)
             \/ StateOf(k, b) = "CLEAN" /\ StateOf(k2, b) = "NONE"
  BY DEF Shrunk, StateOf, DatumOf
<1>3. Waited(k) => Waited(k2)
  <2>1. k2.subio = k.subio
    BY DEF Shrunk
  <2> QED BY <2>1, <1>2 DEF Waited
<1>4. ASSUME NEW b \in Block, BlockSync(k, t, d, b) PROVE BlockSync(k2, t, d, b)
  <2>1. BSync(k.subio, StateOf(k, b), DatumOf(k, b), t, d, b) /\ k2.subio = k.subio
    BY <1>4 DEF BlockSync, Shrunk
  <2>2. CASE StateOf(k2, b) = StateOf(k, b) /\ DatumOf(k2, b) = DatumOf(k, b)
    BY <2>1, <2>2 DEF BlockSync
  <2>3. CASE StateOf(k, b) = "CLEAN" /\ StateOf(k2, b) = "NONE"
    <3>1. BSync(k.subio, "CLEAN", DatumOf(k, b), t, d, b)
      BY <2>1, <2>3
    <3>2. BSync(k.subio, "NONE", DatumOf(k2, b), t, d, b)
      BY <3>1, BsEvict
    <3> QED BY <3>2, <2>1, <2>3 DEF BlockSync
  <2> QED BY <2>2, <2>3, <1>2
<1> QED BY <1>1, <1>3, <1>4 DEF Sync, Shrunk

\* The first block is never too long for the pool.
LEMMA FirstFits ==
    ASSUME NEW k, Struct(k), Len(k.lru) >= 1
    PROVE  ~(PoolCurlen(k, 1) > PoolMaxlen)
<1>1. k.lru \in Seq(Block) /\ Injective(k.lru) /\ 1 \in 0 .. Len(k.lru) /\ k.lru[1] \in Block
  BY DEF Struct, Cache
<1> DEFINE b == k.lru[1]
<1>2. FirstOf(k.lru, 1) = {b}
  BY DEF FirstOf
<1>3. PoolCurlen(k, 1) = Held({b})
  BY <1>1, <1>2, PoolCurlenIs
<1> HIDE DEF b
<1>4. b \in Block
  BY <1>1 DEF b
<1>5. Held({b}) = Cardinality(CellsOf(b)) + Held({b} \ {b})
  BY <1>4, HeldIs
<1>6. {b} \ {b} = {}
  OBVIOUS
<1>7. Held({b}) = Cardinality(CellsOf(b)) + 0
  BY <1>5, <1>6, HeldIs
<1>8. Cardinality(CellsOf(b)) \in Nat /\ Cardinality(CellsOf(b)) <= BlockLen /\ BlockLen \in Nat
  BY <1>4, BlockSize, Lens
<1>9. PoolMaxlen \in Nat /\ BlockLen <= PoolMaxlen
  BY BtIoCacheAssumption, Lens
<1> QED BY <1>3, <1>7, <1>8, <1>9

\* shrink_if_needed evicts CLEAN blocks, from the least recent on, and stops when the
\* pool fits or at a block that is DIRTY, whose write it starts, or CLEANING.
LEMMA ShrinkIs ==
    ASSUME NEW k, Struct(k)
    PROVE  \E k1, n :
              /\ Shrunk(k, k1, n)
              /\ Len(k.lru) >= 1 => n >= 1
              /\ \/ /\ n > 0 /\ k.lru[n] \in Block /\ StateOf(k, k.lru[n]) = "DIRTY"
                    /\ shrink_if_needed(k) = start_blkwr(k1, k.lru[n])
                 \/ /\ shrink_if_needed(k) = k1
                    /\ \/ n = 0
                       \/ ~(PoolCurlen(k, n) > PoolMaxlen)
                       \/ StateOf(k, k.lru[n]) = "CLEANING" /\ k.lru[n] \in Block
<1> DEFINE over(m) == PoolCurlen(k, m) > PoolMaxlen
           M == {m \in 0 .. Len(k.lru) : m = 0 \/ ~over(m) \/ StateOf(k, k.lru[m]) # "CLEAN"}
           n == Max(M)
           kept == SubSeq(k.lru, 1, n)
           k1 == [k EXCEPT !.lru = kept, !.db = Restrict(@, ToSet(kept))]
<1>1. k.lru \in Seq(Block) /\ Injective(k.lru) /\ Len(k.lru) \in Nat /\ k \in Cache
  BY DEF Struct, Cache
<1>2. shrink_if_needed(k) = IF n > 0 /\ over(n) /\ StateOf(k, k.lru[n]) = "DIRTY"
                            THEN start_blkwr(k1, k.lru[n]) ELSE k1
  BY Zenon DEF shrink_if_needed
<1>3. n \in M /\ \A m \in M : m <= n
  <2>1. M \in SUBSET (0 .. Len(k.lru)) /\ 0 \in M
    BY <1>1
  <2> HIDE DEF M
  <2> QED BY <2>1, <1>1, MaxIs
<1>4. n \in 0 .. Len(k.lru) /\ (n = 0 \/ ~over(n) \/ StateOf(k, k.lru[n]) # "CLEAN")
  BY <1>3
<1>5. \A m \in 0 .. Len(k.lru) : m > n => StateOf(k, k.lru[m]) = "CLEAN"
  BY <1>3, <1>4
<1>6. Len(k.lru) >= 1 => n >= 1
  <2>1. SUFFICES ASSUME Len(k.lru) >= 1 PROVE 1 \in M
    BY <1>3
  <2> QED BY <2>1, <1>1, FirstFits
<1> HIDE DEF M, n
<1>7. kept \in Seq(Block) /\ ToSet(kept) = FirstOf(k.lru, n) /\ FirstOf(k.lru, n) \subseteq ToSet(k.lru)
  BY <1>1, <1>4, FirstBlocks
<1> HIDE DEF kept
<1> DEFINE F == ToSet(kept)
           r == Restrict(k.db, F)
<1>8. DOMAIN k.db = ToSet(k.lru) /\ F \subseteq DOMAIN k.db /\ F = FirstOf(k.lru, n)
  BY <1>7 DEF Struct
<1>9. r \in Db /\ DOMAIN r = F /\ \A b \in F : r[b] = k.db[b]
  <2>1. DOMAIN k.db \subseteq Block /\ \A b \in DOMAIN k.db : k.db[b] \in Entry
    BY DbIs, <1>1 DEF Cache
  <2> HIDE DEF F
  <2>2. r \in [F -> Entry] /\ \A b \in F : r[b] = k.db[b]
    BY <2>1, <1>8 DEF Restrict
  <2>3. F \in SUBSET Block
    BY <2>1, <1>8
  <2> HIDE DEF r
  <2> QED BY <2>2, <2>3, DbType
<1> HIDE DEF F, r
<1>10. /\ k1 \in Cache /\ k1.db = r /\ k1.lru = kept /\ k1.subio = k.subio /\ k1.err = k.err /\ k1.twice = k.twice
  BY <1>1, <1>7, <1>9 DEF Cache, F, r
<1> HIDE DEF k1
<1>11. \A b \in DOMAIN k.db : b \in F \/ k.db[b].state = "CLEAN"
  <2>1. ASSUME NEW b \in DOMAIN k.db, b \notin F PROVE k.db[b].state = "CLEAN"
    <3>1. DOMAIN k.lru = 1 .. Len(k.lru)
      BY <1>1
    <3>2. PICK m \in 1 .. Len(k.lru) : b = k.lru[m]
      BY <3>1, <1>8 DEF ToSet
    <3>3. ~(m \in 1 .. n)
      BY <2>1, <3>2, <1>8 DEF FirstOf
    <3>4. m > n /\ m \in 0 .. Len(k.lru)
      BY <3>2, <3>3, <1>1, <1>4
    <3> QED BY <3>2, <3>4, <1>5, StateIs
  <2> QED BY <2>1
<1>12. Shrunk(k, k1, n)
  BY <1>4, <1>8, <1>9, <1>10, <1>11 DEF Shrunk, kept
<1>13. ASSUME n # 0, over(n), StateOf(k, k.lru[n]) # "DIRTY" PROVE StateOf(k, k.lru[n]) = "CLEANING" /\ k.lru[n] \in Block
  <2>1. k.lru[n] \in DOMAIN k.db
    BY <1>13, <1>1, <1>4, <1>8 DEF ToSet
  <2>2. StateOf(k, k.lru[n]) \in BlockState /\ k.lru[n] \in Block
    BY <2>1, StateIs
  <2> QED BY <2>2, <1>4, <1>13 DEF BlockState
<1>14. n > 0 => k.lru[n] \in Block
  BY <1>1, <1>4
<1>15. CASE n > 0 /\ over(n) /\ StateOf(k, k.lru[n]) = "DIRTY"
  BY <1>2, <1>6, <1>12, <1>14, <1>15
<1>16. CASE ~(n > 0 /\ over(n) /\ StateOf(k, k.lru[n]) = "DIRTY")
  <2>1. shrink_if_needed(k) = k1
    BY <1>2, <1>16
  <2>2. n = 0 \/ ~over(n) \/ (StateOf(k, k.lru[n]) = "CLEANING" /\ k.lru[n] \in Block)
    BY <1>4, <1>13, <1>16
  <2> QED BY <2>1, <2>2, <1>6, <1>12
<1> QED BY <1>15, <1>16

\* What the pool and the cache are once the pool has shrunk.
AfterShrink(k, k2, t, d) ==
    /\ Struct(k2) /\ Sync(k2, t, d) /\ PoolOk(k2) /\ SameReads(k, k2)
    /\ k2.err = k.err
    /\ DOMAIN k2.db \subseteq DOMAIN k.db
    /\ \A b \in DOMAIN k2.db : k.db[b].state = "CLEAN" => k2.db[b] = k.db[b]
    /\ Len(k.lru) >= 1 => k.lru[1] \in DOMAIN k2.db

\* shrink_if_needed keeps the invariant, and the block that was just used.
LEMMA ShrinkOk ==
    ASSUME NEW k, Struct(k), NEW t, NEW d, Sync(k, t, d)
    PROVE  AfterShrink(k, shrink_if_needed(k), t, d)
<1>1. PICK k1, n :
              /\ Shrunk(k, k1, n)
              /\ Len(k.lru) >= 1 => n >= 1
              /\ \/ /\ n > 0 /\ k.lru[n] \in Block /\ StateOf(k, k.lru[n]) = "DIRTY"
                    /\ shrink_if_needed(k) = start_blkwr(k1, k.lru[n])
                 \/ /\ shrink_if_needed(k) = k1
                    /\ \/ n = 0
                       \/ ~(PoolCurlen(k, n) > PoolMaxlen)
                       \/ StateOf(k, k.lru[n]) = "CLEANING" /\ k.lru[n] \in Block
  BY ShrinkIs
<1>2. Struct(k1) /\ Sync(k1, t, d)
  BY <1>1, ShrunkOk
<1>3. /\ k1.err = k.err /\ k1.subio = k.subio /\ DOMAIN k1.db \subseteq DOMAIN k.db
      /\ \A b \in DOMAIN k1.db : k1.db[b] = k.db[b]
  BY <1>1 DEF Shrunk
<1>4. Len(k.lru) >= 1 => k.lru[1] \in DOMAIN k1.db
  <2>1. SUFFICES ASSUME Len(k.lru) >= 1 PROVE k.lru[1] \in DOMAIN k1.db
    OBVIOUS
  <2>2. n \in 0 .. Len(k.lru) /\ n >= 1 /\ Len(k.lru) \in Nat
    BY <2>1, <1>1 DEF Shrunk, Struct, Cache
  <2>3. 1 \in 1 .. n
    BY <2>2
  <2>4. DOMAIN k1.db = FirstOf(k.lru, n)
    BY <1>1 DEF Shrunk
  <2> QED BY <2>3, <2>4 DEF FirstOf
<1>5. k.subio \in Seq(OpRec) /\ Len(k.subio) \in Nat
  BY DEF Struct, Cache
<1>6. CASE n > 0 /\ k.lru[n] \in Block /\ StateOf(k, k.lru[n]) = "DIRTY" /\ shrink_if_needed(k) = start_blkwr(k1, k.lru[n])
  <2>1. StateOf(k1, k.lru[n]) = "DIRTY"
    <3>1. n \in 1 .. n
      BY <1>1, <1>6 DEF Shrunk
    <3>2. k.lru[n] \in DOMAIN k1.db
      BY <3>1, <1>1 DEF Shrunk, FirstOf
    <3> QED BY <3>2, <1>6, <1>3 DEF StateOf
  <2>2. PICK p : Started(k1, start_blkwr(k1, k.lru[n]), DirtyContiguous(k1, k.lru[n]), p)
    BY <2>1, <1>2, <1>6, StartIs
  <2> DEFINE k2 == start_blkwr(k1, k.lru[n])
             run == DirtyContiguous(k1, k.lru[n])
  <2>3. Started(k1, k2, run, p)
    BY <2>2
  <2> HIDE DEF k2, run
  <2>4. Struct(k2) /\ Sync(k2, t, d) /\ blkwr_db(k2) # {}
    BY <2>3, <1>2, StartedOk
  <2>5. SameReads(k, k2)
    <3>1. k2.subio = Append(k.subio, p) /\ p \in OpRec /\ p.who = NoSlot
      BY <2>3, <1>3 DEF Started
    <3>2. /\ Len(k2.subio) = Len(k.subio) + 1
          /\ \A i \in 1 .. Len(k.subio) : k2.subio[i] = k.subio[i]
          /\ k2.subio[Len(k.subio) + 1] = p
          /\ \A i \in 1 .. Len(k2.subio) : i \in 1 .. Len(k.subio) \/ i = Len(k.subio) + 1
      BY <3>1, <1>5, AppendOp
    <3> QED BY <3>1, <3>2, <1>5 DEF SameReads
  <2>6. /\ DOMAIN k2.db \subseteq DOMAIN k.db /\ k2.err = k.err
        /\ Len(k.lru) >= 1 => k.lru[1] \in DOMAIN k2.db
    BY <2>3, <1>3, <1>4 DEF Started
  <2>7. ASSUME NEW b \in DOMAIN k2.db, k.db[b].state = "CLEAN" PROVE k2.db[b] = k.db[b]
    <3>1. b \in DOMAIN k1.db /\ k1.db[b] = k.db[b] /\ b \notin run
      BY <2>3, <2>7, <1>3 DEF Started
    <3>2. k2.db[b].datum = k1.db[b].datum /\ k2.db[b].state = k1.db[b].state
      BY <3>1, <2>3 DEF Started
    <3>3. k2.db[b] \in Entry /\ k1.db[b] \in Entry
      BY <3>1, <2>4, <1>2, DbIs DEF Struct, Cache
    <3> QED BY <3>1, <3>2, <3>3 DEF Entry
  <2>8. PoolOk(k2)
    BY <2>4 DEF PoolOk
  <2>9. AfterShrink(k, k2, t, d)
    BY <2>4, <2>5, <2>6, <2>7, <2>8 DEF AfterShrink
  <2> QED BY <2>9, <1>6 DEF k2
<1>7. CASE /\ shrink_if_needed(k) = k1
           /\ \/ n = 0
              \/ ~(PoolCurlen(k, n) > PoolMaxlen)
              \/ StateOf(k, k.lru[n]) = "CLEANING" /\ k.lru[n] \in Block
  <2>1. SameReads(k, k1)
    BY <1>3, <1>5 DEF SameReads
  <2>2. n \in 0 .. Len(k.lru) /\ k1.lru = SubSeq(k.lru, 1, n) /\ k.lru \in Seq(Block) /\ Injective(k.lru)
    BY <1>1 DEF Shrunk, Struct, Cache
  <2>3. Len(k1.lru) = n /\ ToSet(k1.lru) = FirstOf(k.lru, n)
    BY <2>2, FirstBlocks
  <2>4. PoolCurlen(k1, Len(k1.lru)) = Held(ToSet(k1.lru)) /\ PoolCurlen(k1, Len(k1.lru)) \in Nat
    BY <1>2, PoolLen DEF Struct, Cache
  <2>5. PoolCurlen(k, n) = Held(FirstOf(k.lru, n))
    BY <2>2, PoolCurlenIs
  <2>6. PoolMaxlen \in Nat
    BY BtIoCacheAssumption
  <2>7. CASE n = 0
    <3>1. FirstOf(k.lru, n) = {}
      BY <2>7 DEF FirstOf
    <3>2. Held(ToSet(k1.lru)) = 0
      BY <2>3, <3>1, HeldIs, Zenon
    <3> QED BY <1>2, <1>3, <1>4, <1>7, <2>1, <2>4, <2>6, <3>2 DEF AfterShrink, PoolOk
  <2>8. CASE ~(PoolCurlen(k, n) > PoolMaxlen)
    <3>1. PoolCurlen(k1, Len(k1.lru)) = PoolCurlen(k, n)
      BY <2>3, <2>4, <2>5, Zenon
    <3>2. PoolCurlen(k1, Len(k1.lru)) <= PoolMaxlen
      BY <3>1, <2>4, <2>6, <2>8
    <3> QED BY <1>2, <1>3, <1>4, <1>7, <2>1, <3>2 DEF AfterShrink, PoolOk
  <2>9. CASE StateOf(k, k.lru[n]) = "CLEANING" /\ k.lru[n] \in Block
    <3>1. k.err \/ CoveredIn(k.subio, k.lru[n]) # {}
      BY <2>9 DEF Sync, Waited
    <3>2. DOMAIN k1.subio = 1 .. Len(k.subio) /\ k1.subio = k.subio
      BY <1>3, <1>5
    <3>3. k1.err \/ blkwr_db(k1) # {}
      BY <3>1, <3>2, <1>3 DEF CoveredIn, Covers, blkwr_db
    <3> QED BY <1>2, <1>3, <1>4, <1>7, <2>1, <3>3 DEF AfterShrink, PoolOk
  <2> QED BY <1>7, <2>7, <2>8, <2>9
<1> QED BY <1>1, <1>6, <1>7

-----------------------------------------------------------------------------
(* A block enters the cache.                                                 *)

\* The cache with the block b, made of dt.
Entered(k, k1, b, dt) ==
    /\ k1 \in Cache /\ k1.subio = k.subio /\ k1.err = k.err /\ k1.twice = k.twice
    /\ k1.lru = <<b>> \o k.lru
    /\ DOMAIN k1.db = DOMAIN k.db \cup {b}
    /\ k1.db[b] = [state |-> "CLEAN", datum |-> dt]
    /\ \A x \in DOMAIN k.db : x # b => k1.db[x] = k.db[x]

\* BlockCtor puts the block first, CLEAN, and shrinks the pool.
LEMMA BlockCtorIs ==
    ASSUME NEW k, Struct(k), NEW b \in Block, b \notin DOMAIN k.db, NEW dt \in [CellsOf(b) -> Int]
    PROVE  \E k1 : Entered(k, k1, b, dt) /\ BlockCtor(k, b, dt) = shrink_if_needed(k1)
<1> DEFINE db2 == [x \in DOMAIN k.db \cup {b} |-> IF x = b THEN [state |-> "CLEAN", datum |-> dt] ELSE k.db[x]]
           lru2 == <<b>> \o k.lru
           k1 == [k EXCEPT !.db = db2, !.lru = lru2]
<1>1. BlockCtor(k, b, dt) = shrink_if_needed(k1)
  BY DEF BlockCtor
<1>2. k \in Cache /\ k.lru \in Seq(Block) /\ k.db \in Db
  BY DEF Struct, Cache
<1>3. DOMAIN k.db \subseteq Block /\ \A x \in DOMAIN k.db : k.db[x] \in Entry
  BY <1>2, DbIs
<1>4. [state |-> "CLEAN", datum |-> dt] \in Entry
  <2>1. dt \in Data
    BY BlockCells, DataType
  <2> QED BY <2>1 DEF Entry, BlockState
<1>5. /\ db2 \in [DOMAIN k.db \cup {b} -> Entry]
      /\ db2[b] = [state |-> "CLEAN", datum |-> dt] /\ \A x \in DOMAIN k.db : x # b => db2[x] = k.db[x]
  BY <1>3, <1>4
<1>6. DOMAIN k.db \cup {b} \in SUBSET Block
  BY <1>3
<1> HIDE DEF db2
<1>7. db2 \in Db /\ DOMAIN db2 = DOMAIN k.db \cup {b}
  BY <1>5, <1>6, DbType
<1>8. lru2 \in Seq(Block)
  BY <1>2
<1> HIDE DEF lru2
<1>9. /\ k1 \in Cache /\ k1.db = db2 /\ k1.lru = lru2 /\ k1.subio = k.subio /\ k1.err = k.err /\ k1.twice = k.twice
  BY <1>2, <1>7, <1>8 DEF Cache
<1> HIDE DEF k1
<1>10. Entered(k, k1, b, dt)
  BY <1>5, <1>7, <1>9 DEF Entered, lru2
<1> QED BY <1>1, <1>10

\* A block that enters with what is on disk keeps the cache coherent.
LEMMA EnteredOk ==
    ASSUME NEW k, Struct(k), NEW t, NEW d, Sync(k, t, d), NEW b \in Block, b \notin DOMAIN k.db,
           NEW dt \in [CellsOf(b) -> Int],
           k.err \/ b \in k.twice \/ \A c \in CellsOf(b) : t[c] # NoData => dt[c] = d[c],
           NEW k1, Entered(k, k1, b, dt)
    PROVE  Struct(k1) /\ Sync(k1, t, d) /\ Len(k1.lru) >= 1 /\ k1.lru[1] = b /\ k1.db[b].datum = dt /\ k1.db[b].state = "CLEAN"
<1>1. k.lru \in Seq(Block) /\ Injective(k.lru) /\ DOMAIN k.db = ToSet(k.lru) /\ Len(k.lru) \in Nat
  BY DEF Struct, Cache
<1>2. /\ Injective(k1.lru) /\ DOMAIN k1.db = ToSet(k1.lru)
      /\ Len(k1.lru) = Len(k.lru) + 1 /\ k1.lru[1] = b
  BY <1>1, ConsBlock DEF Entered
<1>3. k1.db[b].datum = dt /\ k1.db[b].state = "CLEAN"
  BY DEF Entered
<1>4. \A x \in DOMAIN k1.db : k1.db[x].datum \in [CellsOf(x) -> Int]
  BY <1>3 DEF Entered, Struct
<1>5. Struct(k1)
  BY <1>2, <1>4 DEF Struct, Entered
<1>6. \A x \in Block : x # b => StateOf(k1, x) = StateOf(k, x) /\ DatumOf(k1, x) = DatumOf(k, x)
  BY DEF Entered, StateOf, DatumOf
<1>7. StateOf(k, b) = "NONE" /\ StateOf(k1, b) = "CLEAN" /\ DatumOf(k1, b) = dt
  BY <1>3 DEF Entered, StateOf, DatumOf
<1>8. k1.subio = k.subio /\ k1.err = k.err /\ k1.twice = k.twice
  BY DEF Entered
<1>9. Waited(k) => Waited(k1)
  BY <1>6, <1>7, <1>8 DEF Waited
<1>10. ASSUME NEW x \in Block, ~k.err, x \notin k.twice, BlockSync(k, t, d, x) PROVE BlockSync(k1, t, d, x)
  <2>1. CASE x # b
    BY <2>1, <1>6, <1>8, <1>10 DEF BlockSync
  <2>2. CASE x = b
    <3>1. BSync(k.subio, "NONE", DatumOf(k, b), t, d, b)
      BY <2>2, <1>7, <1>10 DEF BlockSync
    <3>2. BSync(k.subio, "CLEAN", dt, t, d, b)
      BY <3>1, <1>10, <2>2, BsLoad
    <3> QED BY <2>2, <3>2, <1>7, <1>8 DEF BlockSync
  <2> QED BY <2>1, <2>2
<1>11. Sync(k1, t, d)
  BY <1>8, <1>9, <1>10 DEF Sync
<1> QED BY <1>1, <1>2, <1>3, <1>5, <1>11

\* What the cache is once a block was made.
Made(k, k2, t, d, b, dt) ==
    /\ Struct(k2) /\ Sync(k2, t, d) /\ PoolOk(k2) /\ SameReads(k, k2) /\ k2.err = k.err
    /\ b \in DOMAIN k2.db /\ k2.db[b].datum = dt

\* BlockCtor keeps the invariant and leaves the new block in the cache.
LEMMA BlockCtorOk ==
    ASSUME NEW k, Struct(k), NEW t, NEW d, Sync(k, t, d), NEW b \in Block, b \notin DOMAIN k.db,
           NEW dt \in [CellsOf(b) -> Int],
           k.err \/ b \in k.twice \/ \A c \in CellsOf(b) : t[c] # NoData => dt[c] = d[c]
    PROVE  Made(k, BlockCtor(k, b, dt), t, d, b, dt)
<1>1. PICK k1 : Entered(k, k1, b, dt) /\ BlockCtor(k, b, dt) = shrink_if_needed(k1)
  BY BlockCtorIs
<1> DEFINE k2 == shrink_if_needed(k1)
<1>2. Struct(k1) /\ Sync(k1, t, d) /\ Len(k1.lru) >= 1 /\ k1.lru[1] = b /\ k1.db[b].datum = dt /\ k1.db[b].state = "CLEAN"
  BY <1>1, EnteredOk
<1>3. AfterShrink(k1, k2, t, d)
  BY <1>2, ShrinkOk
<1> HIDE DEF k2
<1>4. SameReads(k, k2)
  BY <1>1, <1>3 DEF AfterShrink, SameReads, Entered
<1>5. b \in DOMAIN k2.db /\ k2.db[b] = k1.db[b]
  BY <1>2, <1>3 DEF AfterShrink
<1>6. Made(k, k2, t, d, b, dt)
  BY <1>1, <1>2, <1>3, <1>4, <1>5 DEF Made, AfterShrink, Entered
<1> QED BY <1>1, <1>6 DEF k2

-----------------------------------------------------------------------------
(* chunk_post_process.                                                       *)

\* What was written, when nothing is known of some cells, or when v was written to them.
Forget(t, X) == [c \in Cell |-> IF c \in X THEN NoData ELSE t[c]]
Put(t, X, v) == [c \in Cell |-> IF c \in X THEN v ELSE t[c]]

\* To know less of what was written keeps the cache coherent.
LEMMA SyncForget ==
    ASSUME NEW k, NEW t, NEW d, Sync(k, t, d), NEW X
    PROVE  Sync(k, Forget(t, X), d)
<1> DEFINE t2 == Forget(t, X)
<1>1. \A b \in Block : \A c \in CellsOf(b) : t2[c] = t[c] \/ t2[c] = NoData
  BY BlockCells DEF Forget
<1> HIDE DEF t2
<1>2. ASSUME NEW b \in Block, BlockSync(k, t, d, b) PROVE BlockSync(k, t2, d, b)
  BY <1>1, <1>2, BsForget DEF BlockSync
<1>3. Sync(k, t2, d)
  BY <1>2 DEF Sync
<1> QED BY <1>3 DEF t2

\* The same blocks, in another order.
Used(k, k2) ==
    /\ Struct(k2) /\ k2.db = k.db /\ k2.subio = k.subio /\ k2.err = k.err /\ k2.twice = k.twice

\* block_lru_update moves the block, and nothing else.
LEMMA UpdateIs ==
    ASSUME NEW k, Struct(k), NEW b \in DOMAIN k.db
    PROVE  Used(k, block_lru_update(k, b))
<1> DEFINE w == Without(k.lru, {b})
           lru2 == <<b>> \o w
           k2 == [k EXCEPT !.lru = lru2]
<1>1. block_lru_update(k, b) = k2
  BY DEF block_lru_update
<1>2. k \in Cache /\ k.lru \in Seq(Block) /\ Injective(k.lru) /\ DOMAIN k.db = ToSet(k.lru) /\ b \in Block
  BY StateIs DEF Struct, Cache
<1>3. w \in Seq(Block) /\ Injective(w) /\ ToSet(w) = ToSet(k.lru) \ {b}
  BY <1>2, WithoutBlocks
<1> HIDE DEF w
<1>4. lru2 \in Seq(Block) /\ Injective(lru2) /\ ToSet(lru2) = ToSet(w) \cup {b}
  BY <1>2, <1>3, ConsBlock
<1> HIDE DEF lru2
<1>5. k2 \in Cache /\ k2.lru = lru2 /\ k2.db = k.db /\ k2.subio = k.subio /\ k2.err = k.err /\ k2.twice = k.twice
  BY <1>2, <1>4 DEF Cache
<1> HIDE DEF k2
<1>6. DOMAIN k2.db = ToSet(k2.lru)
  BY <1>2, <1>3, <1>4, <1>5
<1>7. Used(k, k2)
  BY <1>4, <1>5, <1>6 DEF Used, Struct
<1> QED BY <1>1, <1>7

\* The pool and the queue of a cache with the same blocks.
LEMMA SameQueue ==
    ASSUME NEW k, Struct(k), PoolOk(k), NEW k2, Struct(k2), DOMAIN k2.db = DOMAIN k.db, k2.subio = k.subio,
           k2.err = k.err, NEW k0, SameReads(k0, k)
    PROVE  PoolOk(k2) /\ SameReads(k0, k2)
<1>1. blkwr_db(k2) = blkwr_db(k)
  BY DEF blkwr_db
<1> QED BY <1>1, SamePool DEF SameReads

\* The order of the blocks is nothing to their content.
LEMMA UsedSync ==
    ASSUME NEW k, NEW k2, Used(k, k2), NEW t, NEW d, Sync(k, t, d)
    PROVE  Sync(k2, t, d)
<1>1. \A b : StateOf(k2, b) = StateOf(k, b) /\ DatumOf(k2, b) = DatumOf(k, b)
  BY DEF Used, StateOf, DatumOf
<1>2. Waited(k) => Waited(k2)
  BY <1>1 DEF Waited, Used
<1>3. \A b \in Block : BlockSync(k, t, d, b) => BlockSync(k2, t, d, b)
  BY <1>1 DEF BlockSync, Used
<1> QED BY <1>2, <1>3 DEF Sync, Used

\* The block b, written.
Rewritten(k, k2, b, X, v) ==
    /\ Struct(k2) /\ k2.subio = k.subio /\ k2.err = k.err /\ k2.twice = k.twice
    /\ DOMAIN k2.db = DOMAIN k.db
    /\ \A x \in DOMAIN k.db : x # b => k2.db[x] = k.db[x]
    /\ k2.db[b].state = "DIRTY"
    /\ \A c \in CellsOf(b) : k2.db[b].datum[c] = IF c \in X THEN v ELSE k.db[b].datum[c]

\* A write to the block makes it DIRTY, with what was written.
LEMMA RewrittenIs ==
    ASSUME NEW k, Struct(k), NEW b \in DOMAIN k.db, NEW X, NEW v \in Int
    PROVE  Rewritten(k, [k EXCEPT !.db[b] = [state |-> "DIRTY",
                                             datum |-> [c \in CellsOf(b) |-> IF c \in X THEN v ELSE @.datum[c]]]],
                     b, X, v)
<1> DEFINE dt2 == [c \in CellsOf(b) |-> IF c \in X THEN v ELSE k.db[b].datum[c]]
           e == [state |-> "DIRTY", datum |-> dt2]
           db2 == [k.db EXCEPT ![b] = e]
           k2 == [k EXCEPT !.db = db2]
<1>1. [k EXCEPT !.db[b] = [state |-> "DIRTY",
                           datum |-> [c \in CellsOf(b) |-> IF c \in X THEN v ELSE @.datum[c]]]] = k2
  OBVIOUS
<1>2. k \in Cache /\ k.db \in Db /\ b \in Block
  BY StateIs DEF Struct, Cache
<1>3. DOMAIN k.db \subseteq Block /\ (\A x \in DOMAIN k.db : k.db[x] \in Entry) /\ k.db \in [DOMAIN k.db -> Entry]
  BY <1>2, DbIs DEF Db
<1>4. dt2 \in [CellsOf(b) -> Int] /\ \A c \in CellsOf(b) : dt2[c] = IF c \in X THEN v ELSE k.db[b].datum[c]
  <2>1. k.db[b].datum \in [CellsOf(b) -> Int]
    BY DEF Struct
  <2> QED BY <2>1
<1> HIDE DEF dt2
<1>5. e \in Entry /\ e.state = "DIRTY" /\ e.datum = dt2
  <2>1. dt2 \in Data
    BY <1>2, <1>4, BlockCells, DataType
  <2> QED BY <2>1 DEF Entry, BlockState
<1> HIDE DEF e
<1>6. db2 \in [DOMAIN k.db -> Entry] /\ db2[b] = e /\ \A x \in DOMAIN k.db : x # b => db2[x] = k.db[x]
  BY <1>3, <1>5
<1> HIDE DEF db2
<1>7. db2 \in Db /\ DOMAIN db2 = DOMAIN k.db
  BY <1>3, <1>6, DbType
<1>8. /\ k2 \in Cache /\ k2.db = db2 /\ k2.lru = k.lru /\ k2.subio = k.subio /\ k2.err = k.err /\ k2.twice = k.twice
  BY <1>2, <1>7 DEF Cache
<1> HIDE DEF k2
<1>9. \A x \in DOMAIN k2.db : k2.db[x].datum \in [CellsOf(x) -> Int]
  BY <1>4, <1>5, <1>6, <1>7, <1>8 DEF Struct
<1>10. Struct(k2)
  BY <1>7, <1>8, <1>9 DEF Struct
<1>11. Rewritten(k, k2, b, X, v)
  BY <1>4, <1>5, <1>6, <1>7, <1>8, <1>10 DEF Rewritten
<1> QED BY <1>1, <1>11, Zenon

\* A write to a block of the cache keeps it coherent, whatever was known of the cells
\* before.
LEMMA RewrittenSync ==
    ASSUME NEW k, Struct(k), NEW b \in DOMAIN k.db, NEW X, X \subseteq CellsOf(b), NEW v, NEW t, NEW d,
           Sync(k, Forget(t, X), d), NEW k2, Rewritten(k, k2, b, X, v)
    PROVE  Sync(k2, Put(t, X, v), d)
<1> DEFINE t0 == Forget(t, X)
           t2 == Put(t, X, v)
<1>1. b \in Block /\ StateOf(k, b) # "NONE" /\ DatumOf(k, b) = k.db[b].datum
  BY StateIs DEF BlockState, DatumOf
<1>2. \A c \in CellsOf(b) : /\ c \in X => t2[c] = v
                            /\ c \notin X => t2[c] = t[c] /\ t0[c] = t[c]
  BY <1>1, BlockCells DEF Put, Forget
<1>3. \A x \in Block : x # b => \A c \in CellsOf(x) : t2[c] = t0[c]
  BY <1>1, BlockCells DEF Put, Forget
<1> HIDE DEF t0, t2
<1>4. \A x \in Block : x # b => StateOf(k2, x) = StateOf(k, x) /\ DatumOf(k2, x) = DatumOf(k, x)
  BY DEF Rewritten, StateOf, DatumOf
<1>5. StateOf(k2, b) = "DIRTY" /\ DatumOf(k2, b) = k2.db[b].datum
  BY DEF Rewritten, StateOf, DatumOf
<1>6. k2.subio = k.subio /\ k2.err = k.err /\ k2.twice = k.twice
  BY DEF Rewritten
<1>7. Waited(k) => Waited(k2)
  BY <1>4, <1>5, <1>6 DEF Waited
<1>8. ASSUME NEW x \in Block, BlockSync(k, t0, d, x) PROVE BlockSync(k2, t2, d, x)
  <2>1. BSync(k.subio, StateOf(k, x), DatumOf(k, x), t0, d, x)
    BY <1>8 DEF BlockSync
  <2>2. CASE x # b
    <3>1. BSync(k.subio, StateOf(k, x), DatumOf(k, x), t2, d, x)
      BY <2>1, <2>2, <1>3, BsForget
    <3> QED BY <3>1, <2>2, <1>4, <1>6 DEF BlockSync
  <2>3. CASE x = b
    <3>1. \A c \in CellsOf(b) : t0[c] # NoData => k.db[b].datum[c] = t0[c]
      BY <2>1, <2>3, <1>1 DEF BSync
    <3>2. \A c \in CellsOf(b) : t2[c] # NoData => k2.db[b].datum[c] = t2[c]
      BY <3>1, <1>2 DEF Rewritten
    <3>3. BSync(k.subio, "DIRTY", k2.db[b].datum, t2, d, b)
      BY <2>1, <2>3, <3>2, BsWrite
    <3> QED BY <3>3, <2>3, <1>5, <1>6 DEF BlockSync
  <2> QED BY <2>2, <2>3
<1>9. Sync(k, t0, d)
  BY DEF t0
<1>10. Sync(k2, t2, d)
  BY <1>6, <1>7, <1>8, <1>9 DEF Sync
<1> QED BY <1>10 DEF t2

\* The cells that a request and a block have in common, and where it goes on.
LEMMA CommonIs ==
    ASSUME NEW b \in Block, NEW pos \in CellsOf(b), NEW end \in Cell, pos <= end
    PROVE  LET X == CellsOf(b) \cap (pos .. end)
           IN  /\ X \subseteq CellsOf(b) /\ Max(X) + 1 \in Nat
               /\ pos <= Max(X) + 1 /\ Max(X) + 1 <= end + 1
               /\ end \notin CellsOf(b) => /\ Max(X) + 1 <= end /\ Aligned(Max(X) + 1)
                                           /\ BlockOf(Max(X) + 1) = b + 1
<1> DEFINE X == CellsOf(b) \cap (pos .. end)
<1>1. PICK beg, last \in Cell :
              /\ CellsOf(b) = beg .. last /\ beg <= last /\ Aligned(beg)
              /\ last < beg + BlockLen
              /\ last + 1 \in Cell => Aligned(last + 1) /\ BlockOf(last + 1) = b + 1
  BY Interval
<1>2. pos \in Nat /\ end \in Nat /\ beg \in Nat /\ last \in Nat
  BY <1>1, Lens, BlockCells
<1>3. X \in SUBSET (0 .. end) /\ pos \in X
  BY <1>1, <1>2
<1>4. \A c \in X : c \in beg .. last /\ c <= end
  BY <1>1, <1>2
<1>5. end \notin CellsOf(b) => last < end /\ last \in X
  BY <1>1, <1>2
<1> HIDE DEF X
<1>6. Max(X) \in X /\ \A c \in X : c <= Max(X)
  BY <1>2, <1>3, MaxIs
<1>7. Max(X) \in Nat /\ pos <= Max(X) /\ Max(X) <= end /\ Max(X) <= last
  <2> DEFINE m == Max(X)
  <2>1. m \in X /\ pos <= m
    BY <1>3, <1>6
  <2> HIDE DEF m
  <2>2. m \in beg .. last /\ m <= end
    BY <2>1, <1>4
  <2>3. m \in Nat /\ m <= last
    BY <2>2, <1>2
  <2> QED BY <2>1, <2>2, <2>3 DEF m
<1>8. ASSUME end \notin CellsOf(b) PROVE Max(X) + 1 <= end /\ Aligned(Max(X) + 1) /\ BlockOf(Max(X) + 1) = b + 1
  <2>1. Max(X) = last
    BY <1>2, <1>5, <1>6, <1>7, <1>8
  <2>2. last + 1 \in Cell
    <3>1. last < end /\ TotLen \in Nat /\ end \in 0 .. TotLen - 1
      BY <1>5, <1>8, Lens DEF Cell
    <3> QED BY <3>1, <1>2 DEF Cell
  <2> QED BY <1>1, <1>2, <1>5, <1>8, <2>1, <2>2
<1> QED BY <1>2, <1>7, <1>8 DEF X

\* A request that covers a block comes to it at its first cell.
LEMMA FullCover ==
    ASSUME NEW b \in Block, NEW pos \in CellsOf(b), NEW beg \in Cell, NEW end \in Cell, CellsOf(b) \subseteq beg .. end,
           pos = beg \/ Aligned(pos)
    PROVE  CellsOf(b) \cap (pos .. end) = CellsOf(b)
<1>1. PICK first, last \in Cell :
              /\ CellsOf(b) = first .. last /\ first <= last /\ Aligned(first)
  BY Interval
<1>2. pos \in Nat /\ end \in Nat /\ beg \in Nat /\ last \in Nat /\ first \in Nat /\ pos \in Cell
  BY <1>1, Lens, BlockCells
<1>3. first \in CellsOf(b) /\ last \in CellsOf(b)
  BY <1>1, <1>2
<1>4. first <= pos /\ pos <= last /\ beg <= first /\ last <= end
  BY <1>1, <1>2, <1>3
<1>5. pos = first
  <2>1. CASE pos = beg
    BY <2>1, <1>2, <1>4
  <2>2. CASE Aligned(pos)
    <3>1. BlockOf(pos) = b /\ BlockOf(first) = b
      BY <1>3, BlockCells
    <3>2. pos = BlockLen * (pos \div BlockLen) + (pos % BlockLen) /\ first = BlockLen * (first \div BlockLen) + (first % BlockLen)
      BY <1>2, Lens, DivIs
    <3> QED BY <3>1, <3>2, <2>2, <1>1 DEF Aligned, BlockOf
  <2> QED BY <2>1, <2>2
<1> QED BY <1>1, <1>2, <1>4, <1>5

-----------------------------------------------------------------------------
(* A request at work.                                                        *)

\* What launch_chunk works on.
Acc == [k : Cache, r : Req, truth : [Cell -> Int], out : {"next", "blkrd", "done"}]

\* One operation more than k0 but for writes: the read of the disk that s waits for.
OneRead(k0, k, s, pos) ==
    \E k1, p : /\ SameReads(k0, k1) /\ k1.subio \in Seq(OpRec) /\ p \in OpRec
               /\ k.subio = Append(k1.subio, p) /\ p.who = s /\ pos \in p.left

\* The cache and the request of s, which began with the cache k0.
AccOk(a, d, k0, s) ==
    /\ a \in Acc /\ Struct(a.k) /\ Sync(a.k, a.truth, d) /\ PoolOk(a.k)
    /\ a.r.slot = s /\ a.r.beg <= a.r.pos /\ a.r.pos <= a.r.end + 1
    /\ a.out # "done" => a.r.pos <= a.r.end /\ (a.r.pos = a.r.beg \/ Aligned(a.r.pos))
    /\ a.out = "next" => a.r.st = "zero"
    /\ a.out = "blkrd" => a.r.st = "blkrd" /\ OneRead(k0, a.k, s, a.r.pos)
    /\ a.out # "blkrd" => SameReads(k0, a.k)

\* The cells of the block that the request has before it.
Common(a, b) == CellsOf(b) \cap (a.r.pos .. a.r.end)

\* The block where the request is at is in the cache.  A write may have made it
\* without its content.
Ready(a, b, d, k0, s) ==
    /\ a \in Acc /\ Struct(a.k) /\ PoolOk(a.k) /\ SameReads(k0, a.k)
    /\ a.r.slot = s /\ a.r.beg <= a.r.pos /\ a.r.pos <= a.r.end
    /\ a.out = "next" /\ a.r.st = "zero"
    /\ a.r.pos = a.r.beg \/ Aligned(a.r.pos)
    /\ b \in DOMAIN a.k.db /\ a.r.pos \in CellsOf(b)
    /\ IF a.r.op = "write" /\ ~a.k.err THEN Sync(a.k, Forget(a.truth, Common(a, b)), d)
       ELSE Sync(a.k, a.truth, d)

\* chunk_post_process keeps the invariant and goes on at the next block, or ends.
LEMMA ChunkOk ==
    ASSUME NEW a, NEW b, NEW d, NEW k0, NEW s, Ready(a, b, d, k0, s)
    PROVE  /\ AccOk(chunk_post_process(a, b), d, k0, s)
           /\ chunk_post_process(a, b).out = "next" => BlockOf(chunk_post_process(a, b).r.pos) = b + 1
<1> DEFINE X == Common(a, b)
           used == block_lru_update(a.k, b)
           pos2 == Max(X) + 1
           out2 == IF a.r.end \in CellsOf(b) THEN "done" ELSE "next"
           a2 == chunk_post_process(a, b)
<1>1. /\ a \in Acc /\ Struct(a.k) /\ PoolOk(a.k) /\ SameReads(k0, a.k) /\ b \in DOMAIN a.k.db
      /\ a.r.pos \in CellsOf(b) /\ a.r.pos <= a.r.end /\ a.r.beg <= a.r.pos /\ a.r.slot = s
      /\ a.r.st = "zero" /\ a.out = "next" /\ (a.r.pos = a.r.beg \/ Aligned(a.r.pos))
  BY DEF Ready
<1>2. /\ a.r.end \in Cell /\ a.r.beg \in Cell /\ a.r.pos \in Nat /\ a.r.val \in Int /\ b \in Block
      /\ a.truth \in [Cell -> Int] /\ a.r.op \in {"read", "write"}
  BY <1>1, StateIs DEF Acc, Req
<1>3. /\ X \subseteq CellsOf(b) /\ pos2 \in Nat
      /\ a.r.pos <= pos2 /\ pos2 <= a.r.end + 1
      /\ a.r.end \notin CellsOf(b) => pos2 <= a.r.end /\ Aligned(pos2) /\ BlockOf(pos2) = b + 1
  BY <1>1, <1>2, CommonIs DEF Common
<1>4. Used(a.k, used)
  BY <1>1, UpdateIs
<1>5. /\ a.r.pos \in Nat /\ a.r.beg \in Nat /\ a.r.end \in Nat
  BY <1>2, Lens
<1> HIDE DEF X, used, pos2
<1>6. out2 \in {"next", "done"}
  OBVIOUS
<1> HIDE DEF out2
<1>7. ASSUME NEW k2, NEW t2 \in [Cell -> Int], a2 = [a EXCEPT !.k = k2, !.truth = t2, !.r.pos = pos2, !.out = out2],
             Struct(k2), Sync(k2, t2, d), DOMAIN k2.db = DOMAIN a.k.db, k2.subio = a.k.subio, k2.err = a.k.err
      PROVE  AccOk(a2, d, k0, s) /\ (a2.out = "next" => BlockOf(a2.r.pos) = b + 1)
  <2>1. k2 \in Cache
    BY <1>7 DEF Struct
  <2>2. PoolOk(k2) /\ SameReads(k0, k2)
    BY <1>1, <1>7, SameQueue
  <2>3. /\ a2 \in Acc /\ a2.k = k2 /\ a2.truth = t2
        /\ a2.r.slot = a.r.slot /\ a2.r.beg = a.r.beg /\ a2.r.end = a.r.end
        /\ a2.r.st = a.r.st /\ a2.r.pos = pos2 /\ a2.out = out2
    <3> HIDE DEF a2
    <3>1. a \in Acc /\ k2 \in Cache /\ t2 \in [Cell -> Int] /\ pos2 \in Nat /\ out2 \in {"next", "done"}
      BY <2>1, <1>1, <1>3, <1>6
    <3>2. a2 = [a EXCEPT !.k = k2, !.truth = t2, !.r.pos = pos2, !.out = out2]
      BY <1>7
    <3> DEFINE r2 == [a.r EXCEPT !.pos = pos2]
    <3>3. a.r \in Req
      BY <3>1 DEF Acc
    <3>4. /\ r2 \in Req /\ r2.slot = a.r.slot /\ r2.beg = a.r.beg /\ r2.end = a.r.end
          /\ r2.st = a.r.st /\ r2.pos = pos2
      BY <3>1, <3>3 DEF Req
    <3>5. a2 = [a EXCEPT !.k = k2, !.truth = t2, !.r = r2, !.out = out2]
      BY <3>1, <3>2 DEF Acc
    <3> HIDE DEF r2
    <3>6. a2 \in Acc /\ a2.k = k2 /\ a2.truth = t2 /\ a2.r = r2 /\ a2.out = out2
      BY <3>1, <3>4, <3>5 DEF Acc
    <3> QED BY <3>4, <3>6
  <2> HIDE DEF a2
  <2>4. a2.r.beg <= pos2
    BY <2>3, <1>1, <1>3, <1>5
  <2>5. out2 # "done" => pos2 <= a.r.end /\ Aligned(pos2) /\ BlockOf(pos2) = b + 1
    BY <1>3 DEF out2
  <2>6. out2 # "blkrd"
    BY <1>6
  <2> QED BY <2>2, <2>3, <2>4, <2>5, <2>6, <1>1, <1>3, <1>7 DEF AccOk
<1>8. CASE a.r.op = "write" /\ a.k.err
  <2>1. a2 = [a EXCEPT !.out = "done"]
    BY <1>8 DEF chunk_post_process
  <2>2. a2 \in Acc /\ a2.k = a.k /\ a2.r = a.r /\ a2.truth = a.truth /\ a2.out = "done"
    BY <2>1, <1>1 DEF Acc
  <2>3. Sync(a.k, a.truth, d)
    BY <1>8 DEF Ready
  <2> HIDE DEF a2
  <2>4. a.r.pos <= a.r.end + 1
    BY <1>1, <1>5
  <2>5. AccOk(a2, d, k0, s) /\ a2.out # "next"
    BY <2>2, <2>3, <2>4, <1>1 DEF AccOk
  <2> QED BY <2>5 DEF a2
<1>9. CASE a.r.op = "read"
  <2> DEFINE t2 == [c \in Cell |-> a.truth[c]]
  <2>1. a2 = [a EXCEPT !.k = used, !.truth = t2, !.r.pos = pos2, !.out = out2]
    BY <1>9 DEF chunk_post_process, Acc, used, pos2, out2, X, Common
  <2>2. t2 = a.truth
    BY <1>2
  <2>3. Sync(used, a.truth, d)
    BY <1>4, <1>9, UsedSync DEF Ready
  <2> HIDE DEF t2, a2
  <2>4. /\ t2 \in [Cell -> Int] /\ Struct(used) /\ Sync(used, t2, d) /\ DOMAIN used.db = DOMAIN a.k.db
        /\ used.subio = a.k.subio /\ used.err = a.k.err
    BY <2>2, <2>3, <1>2, <1>4 DEF Used
  <2>5. AccOk(a2, d, k0, s) /\ (a2.out = "next" => BlockOf(a2.r.pos) = b + 1)
    BY <2>1, <2>4, <1>7
  <2> QED BY <2>5 DEF a2
<1>10. CASE a.r.op = "write" /\ ~a.k.err
  <2> DEFINE t2 == Put(a.truth, X, a.r.val)
             k2 == [used EXCEPT !.db[b] = [state |-> "DIRTY",
                                           datum |-> [c \in CellsOf(b) |-> IF c \in X THEN a.r.val ELSE @.datum[c]]]]
  <2>1. a2 = [a EXCEPT !.k = k2, !.truth = t2, !.r.pos = pos2, !.out = out2]
    BY <1>10 DEF chunk_post_process, used, pos2, out2, X, Common, Put
  <2>2. t2 \in [Cell -> Int]
    BY <1>2 DEF Put
  <2>3. Struct(used) /\ b \in DOMAIN used.db /\ used.db = a.k.db /\ used.subio = a.k.subio /\ used.err = a.k.err
    BY <1>1, <1>4 DEF Used
  <2>4. Rewritten(used, k2, b, X, a.r.val)
    BY <1>2, <2>3, RewrittenIs
  <2>5. Sync(used, Forget(a.truth, X), d)
    BY <1>4, <1>10, UsedSync DEF Ready, X
  <2> HIDE DEF k2
  <2>6. Sync(k2, t2, d)
    BY <2>3, <2>4, <2>5, <1>3, RewrittenSync
  <2> HIDE DEF t2, a2
  <2>7. Struct(k2) /\ DOMAIN k2.db = DOMAIN a.k.db /\ k2.subio = a.k.subio /\ k2.err = a.k.err
    BY <2>3, <2>4 DEF Rewritten
  <2>8. AccOk(a2, d, k0, s) /\ (a2.out = "next" => BlockOf(a2.r.pos) = b + 1)
    BY <2>1, <2>2, <2>6, <2>7, <1>7
  <2> QED BY <2>8 DEF a2
<1> QED BY <1>2, <1>8, <1>9, <1>10

-----------------------------------------------------------------------------
(* launch_next_chunk.                                                        *)

\* What has got nothing but writes twice has got nothing but writes.
LEMMA SameReadsTrans ==
    ASSUME NEW k0, NEW k1, NEW k2, SameReads(k0, k1), SameReads(k1, k2),
           k0.subio \in Seq(OpRec), k1.subio \in Seq(OpRec), k2.subio \in Seq(OpRec)
    PROVE  SameReads(k0, k2)
<1>1. Len(k0.subio) \in Nat /\ Len(k1.subio) \in Nat /\ Len(k2.subio) \in Nat
  OBVIOUS
<1>2. Len(k0.subio) <= Len(k1.subio) /\ Len(k1.subio) <= Len(k2.subio)
  BY DEF SameReads
<1>3. \A i \in 1 .. Len(k0.subio) : i \in 1 .. Len(k1.subio)
  BY <1>1, <1>2
<1>4. Len(k0.subio) <= Len(k2.subio)
  BY <1>1, <1>2
<1>5. \A i \in 1 .. Len(k2.subio) : i \in 1 .. Len(k0.subio) \/ k2.subio[i].who = NoSlot
  BY DEF SameReads
<1>6. \A i \in 1 .. Len(k0.subio) : k2.subio[i] = k0.subio[i]
  BY <1>3 DEF SameReads
<1> QED BY <1>4, <1>5, <1>6 DEF SameReads

\* A block of which every cell is going to be written.
LEMMA GarbageOk ==
    ASSUME NEW k, Struct(k), NEW t, NEW d, Sync(k, t, d), NEW b \in Block, b \notin DOMAIN k.db
    PROVE  LET dt == [c \in CellsOf(b) |-> Garbage]
           IN  Made(k, BlockCtor(k, b, dt), Forget(t, CellsOf(b)), d, b, dt)
<1> DEFINE dt == [c \in CellsOf(b) |-> Garbage]
           t0 == Forget(t, CellsOf(b))
<1>1. dt \in [CellsOf(b) -> Int]
  BY DEF Garbage
<1>2. Sync(k, t0, d)
  BY SyncForget
<1>3. \A c \in CellsOf(b) : t0[c] = NoData
  BY BlockCells DEF Forget
<1> HIDE DEF dt, t0
<1>4. Made(k, BlockCtor(k, b, dt), t0, d, b, dt)
  BY <1>1, <1>2, <1>3, BlockCtorOk
<1> QED BY <1>4 DEF dt, t0

\* launch_chunk keeps the invariant: the block is there, or is made without being read as
\* all of it is going to be written, or the request waits for a read of it.
LEMMA LaunchOk ==
    ASSUME NEW a, NEW b, NEW d, NEW k0, NEW s, AccOk(a, d, k0, s), k0.subio \in Seq(OpRec),
           a.out = "next" => BlockOf(a.r.pos) = b
    PROVE  /\ AccOk(launch_chunk(a, b), d, k0, s)
           /\ launch_chunk(a, b).out = "next" => BlockOf(launch_chunk(a, b).r.pos) = b + 1
<1>1. CASE a.out # "next"
  BY <1>1 DEF launch_chunk
<1>2. CASE a.out = "next"
  <2>1. /\ a \in Acc /\ Struct(a.k) /\ Sync(a.k, a.truth, d) /\ PoolOk(a.k) /\ SameReads(k0, a.k)
        /\ a.r.slot = s /\ a.r.beg <= a.r.pos /\ a.r.pos <= a.r.end /\ a.r.st = "zero"
        /\ a.r.pos = a.r.beg \/ Aligned(a.r.pos)
    BY <1>2 DEF AccOk
  <2>2. a.r.beg \in Cell /\ a.r.end \in Cell /\ a.r.pos \in Nat /\ a.r.slot \in Slot /\ a.r \in Req
    BY <2>1 DEF Acc, Req
  <2>3. a.r.pos \in Cell
    <3>1. TotLen \in Nat
      BY Lens
    <3> QED BY <2>1, <2>2, <3>1 DEF Cell
  <2>4. b \in Block /\ a.r.pos \in CellsOf(b)
    BY <2>3, <1>2, BlockCells
  <2>5. CASE b \in DOMAIN a.k.db
    <3>1. Sync(a.k, Forget(a.truth, Common(a, b)), d)
      BY <2>1, SyncForget
    <3>2. Ready(a, b, d, k0, s)
      BY <2>1, <2>4, <2>5, <3>1, <1>2 DEF Ready
    <3>3. launch_chunk(a, b) = chunk_post_process(a, b)
      BY <1>2, <2>5 DEF launch_chunk
    <3> QED BY <3>2, <3>3, ChunkOk
  <2>6. CASE b \notin DOMAIN a.k.db /\ a.r.op = "write" /\ CellsOf(b) \subseteq a.r.beg .. a.r.end
    <3> DEFINE dt == [c \in CellsOf(b) |-> Garbage]
               k2 == BlockCtor(a.k, b, dt)
               a1 == [a EXCEPT !.k = k2]
    <3>1. launch_chunk(a, b) = chunk_post_process(a1, b)
      BY <1>2, <2>6 DEF launch_chunk
    <3>2. Made(a.k, k2, Forget(a.truth, CellsOf(b)), d, b, dt)
      BY <2>1, <2>4, <2>6, GarbageOk
    <3> HIDE DEF dt, k2
    <3>3. k2 \in Cache /\ k2.err = a.k.err /\ b \in DOMAIN k2.db /\ Struct(k2) /\ PoolOk(k2) /\ SameReads(a.k, k2)
      BY <3>2 DEF Made, Struct
    <3>4. a1 \in Acc /\ a1.k = k2 /\ a1.r = a.r /\ a1.truth = a.truth /\ a1.out = "next"
      BY <2>1, <3>3, <1>2 DEF Acc
    <3> HIDE DEF a1
    <3>5. Common(a1, b) = CellsOf(b)
      BY <3>4, <2>1, <2>2, <2>4, <2>6, FullCover DEF Common
    <3>6. IF a1.r.op = "write" /\ ~a1.k.err THEN Sync(a1.k, Forget(a1.truth, Common(a1, b)), d) ELSE Sync(a1.k, a1.truth, d)
      <4>1. Sync(k2, Forget(a.truth, CellsOf(b)), d)
        BY <3>2 DEF Made
      <4>2. CASE k2.err
        BY <4>2, <3>4 DEF Sync
      <4>3. CASE ~k2.err
        <5>1. Sync(a1.k, Forget(a1.truth, Common(a1, b)), d)
          BY <4>1, <3>4, <3>5
        <5> QED BY <5>1, <4>3, <3>4, <2>6
      <4> QED BY <4>2, <4>3
    <3>7. SameReads(k0, k2)
      BY <2>1, <3>3, SameReadsTrans DEF Struct, Cache
    <3>8. Ready(a1, b, d, k0, s)
      BY <2>1, <2>4, <3>3, <3>4, <3>6, <3>7 DEF Ready
    <3> QED BY <3>1, <3>8, ChunkOk
  <2>7. CASE b \notin DOMAIN a.k.db /\ ~(a.r.op = "write" /\ CellsOf(b) \subseteq a.r.beg .. a.r.end)
    <3> DEFINE o == [op |-> "blkrd", who |-> a.r.slot, range |-> CellsOf(b),
                     left |-> CellsOf(b), fd |-> "open", datum |-> <<>>]
               k2 == SubioCtor(a.k, o)
               r2 == [a.r EXCEPT !.st = "blkrd"]
               a2 == [a EXCEPT !.k = k2, !.r = r2, !.out = "blkrd"]
    <3>1. launch_chunk(a, b) = a2
      BY <1>2, <2>1, <2>7 DEF launch_chunk, Acc
    <3>2. CellsOf(b) \subseteq Cell /\ CellsOf(b) # {} /\ \A c \in CellsOf(b) : BlockOf(c) = b
      BY <2>4, BlockCells
    <3>3. o \in OpRec /\ o.left # {}
      <4>1. <<>> \in [{} -> Int]
        OBVIOUS
      <4>2. <<>> \in Data
        BY <4>1, DataType
      <4> QED BY <4>2, <3>2, <2>2 DEF OpRec
    <3>4. o.op = "blkrd" /\ o.who = s /\ o.range = CellsOf(b) /\ o.left = CellsOf(b)
      BY <2>1
    <3> HIDE DEF o
    <3>5. PICK p : Reopened(o, p) /\ Joins(a.k, k2, p)
      BY <3>3, <2>1, SubioCtorIs DEF Acc
    <3> HIDE DEF k2
    <3>6. /\ p \in OpRec /\ p.op = "blkrd" /\ p.who = s /\ p.range = CellsOf(b) /\ p.left = CellsOf(b)
          /\ p.fd # "unlinked"
      BY <3>4, <3>5 DEF Reopened
    <3>7. OpOk(p)
      BY <3>2, <3>6, <2>4 DEF OpOk
    <3>8. Struct(k2) /\ Sync(k2, a.truth, d) /\ PoolOk(k2)
      BY <3>5, <3>6, <3>7, <2>1, JoinsStruct, BlkrdSync, JoinsPool
    <3>9. OneRead(k0, k2, s, a.r.pos)
      <4>1. k2.subio = Append(a.k.subio, p)
        BY <3>5 DEF Joins
      <4>2. a.k.subio \in Seq(OpRec)
        BY <2>1 DEF Struct, Cache
      <4>3. p \in OpRec /\ p.who = s /\ a.r.pos \in p.left /\ SameReads(k0, a.k)
        BY <3>6, <2>1, <2>4
      <4> QED BY <4>1, <4>2, <4>3 DEF OneRead
    <3>10. /\ r2 \in Req /\ r2.slot = s /\ r2.beg = a.r.beg /\ r2.end = a.r.end /\ r2.pos = a.r.pos /\ r2.st = "blkrd"
      BY <2>1, <2>2 DEF Req
    <3> HIDE DEF r2
    <3>11. a2 \in Acc /\ a2.k = k2 /\ a2.r = r2 /\ a2.truth = a.truth /\ a2.out = "blkrd"
      BY <3>8, <3>10, <2>1 DEF Acc, Struct
    <3> HIDE DEF a2
    <3>12. a.r.pos <= a.r.end + 1
      <4>1. a.r.end \in Nat
        BY <2>2, Lens
      <4> QED BY <4>1, <2>1, <2>2
    <3>13. AccOk(a2, d, k0, s) /\ a2.out # "next"
      BY <3>8, <3>9, <3>10, <3>11, <3>12, <2>1 DEF AccOk
    <3> QED BY <3>1, <3>13
  <2> QED BY <2>5, <2>6, <2>7
<1> QED BY <1>1, <1>2

\* launch_next_chunk keeps the invariant, block after block.
LEMMA LaunchNextOk ==
    ASSUME NEW a, NEW d, NEW k0, NEW s, AccOk(a, d, k0, s), k0.subio \in Seq(OpRec)
    PROVE  AccOk(launch_next_chunk(a), d, k0, s)
<1> DEFINE first == BlockOf(a.r.pos)
           N == BlockOf(a.r.end) - first + 1
           P(g) == g = [n \in 0 .. N |-> IF n = 0 THEN a ELSE launch_chunk(g[n - 1], first + n - 1)]
           walk == CHOOSE g : P(g)
           R(m, f) == f[0] = a /\ \A n \in 1 .. m : f[n] = launch_chunk(f[n - 1], first + n - 1)
           S == {m \in 0 .. N : \E f : R(m, f)}
           I == {m \in 0 .. N : /\ AccOk(walk[m], d, k0, s)
                                /\ walk[m].out = "next" => BlockOf(walk[m].r.pos) = first + m}
<1>1. launch_next_chunk(a) = walk[N]
  BY Zenon DEF launch_next_chunk
<1>2. first \in Nat /\ N \in Nat
  <2>1. a.r.pos \in Nat /\ a.r.end \in Nat /\ a.r.pos <= a.r.end + 1
    BY Lens DEF AccOk, Acc, Req
  <2>2. BlockOf(a.r.pos) \in Nat /\ BlockOf(a.r.end) \in Nat /\ BlockOf(a.r.end + 1) \in Nat
        /\ BlockOf(a.r.pos) <= BlockOf(a.r.end + 1)
    <3>1. a.r.end + 1 \in Nat /\ a.r.end <= a.r.end + 1
      BY <2>1
    <3> QED BY <2>1, <3>1, BlockMonotone
  <2>3. BlockOf(a.r.end + 1) <= BlockOf(a.r.end) + 1
    BY <2>1, BlockNext
  <2> QED BY <2>2, <2>3
<1> HIDE DEF first, N
<1>3. 0 \in S
  <2> DEFINE f == [n \in {0} |-> a]
  <2>1. R(0, f)
    BY <1>2
  <2> HIDE DEF R
  <2> QED BY <2>1, <1>2
<1>4. ASSUME NEW m \in 1 .. N, m - 1 \in S PROVE m \in S
  <2>1. PICK f : R(m - 1, f)
    BY <1>4
  <2> DEFINE e == launch_chunk(f[m - 1], first + m - 1)
             g == [n \in 0 .. m |-> IF n = m THEN e ELSE f[n]]
  <2> HIDE DEF e
  <2>2. m \in Nat \ {0}
    BY <1>2
  <2>3. g[0] = a /\ g[m] = e /\ g[m - 1] = f[m - 1]
    BY <2>1, <2>2
  <2>4. ASSUME NEW n \in 1 .. m PROVE g[n] = launch_chunk(g[n - 1], first + n - 1)
    <3>1. CASE n = m
      BY <3>1, <2>3 DEF e
    <3>2. CASE n # m
      <4>1. n \in 1 .. m - 1 /\ n - 1 \in 0 .. m /\ n - 1 # m /\ n \in 0 .. m
        BY <3>2, <2>2
      <4>2. f[n] = launch_chunk(f[n - 1], first + n - 1)
        BY <4>1, <2>1
      <4>3. g[n] = f[n] /\ g[n - 1] = f[n - 1]
        BY <4>1, <3>2
      <4> HIDE DEF g
      <4> QED BY <4>2, <4>3
    <3> QED BY <3>1, <3>2
  <2> HIDE DEF g
  <2>5. R(m, g)
    BY <2>3, <2>4
  <2>6. m \in 0 .. N
    BY <1>2
  <2> HIDE DEF R
  <2> QED BY <2>5, <2>6
<1> HIDE DEF S
<1>5. \A n \in 0 .. N : n \in S
  BY <1>2, <1>3, <1>4, RangeInduction, Zenon
<1>n. N \in S
  BY <1>2, <1>5
<1>6. PICK f : R(N, f)
  BY <1>n DEF S
<1> DEFINE g == [n \in 0 .. N |-> f[n]]
<1>7. P(g)
  <2>1. g[0] = a
    BY <1>2, <1>6
  <2>2. ASSUME NEW n \in 1 .. N PROVE g[n] = launch_chunk(g[n - 1], first + n - 1)
    <3>1. n \in 0 .. N /\ n - 1 \in 0 .. N
      BY <1>2
    <3>2. f[n] = launch_chunk(f[n - 1], first + n - 1)
      BY <1>6
    <3>3. g[n] = f[n] /\ g[n - 1] = f[n - 1]
      BY <3>1
    <3> HIDE DEF g
    <3> QED BY <3>2, <3>3
  <2>3. DOMAIN g = 0 .. N /\ g = [n \in 0 .. N |-> g[n]]
    OBVIOUS
  <2> HIDE DEF g
  <2>4. \A n \in 0 .. N : n = 0 \/ n \in 1 .. N
    BY <1>2
  <2> QED BY <2>1, <2>2, <2>3, <2>4
<1> HIDE DEF g
<1>8. P(walk)
  BY <1>7, Zenon
<1> HIDE DEF walk
<1>9. walk[0] = a /\ \A n \in 1 .. N : walk[n] = launch_chunk(walk[n - 1], first + n - 1)
  <2>1. 0 \in 0 .. N
    BY <1>2
  <2>2. \A n \in 1 .. N : n \in 0 .. N /\ n # 0
    BY <1>2
  <2> QED BY <1>8, <2>1, <2>2
<1>10. 0 \in I
  <2>1. 0 \in 0 .. N /\ BlockOf(a.r.pos) = first + 0
    BY <1>2 DEF first
  <2> QED BY <2>1, <1>9
<1>11. ASSUME NEW m \in 1 .. N, m - 1 \in I PROVE m \in I
  <2> DEFINE w == walk[m - 1]
             b == first + m - 1
  <2>1. AccOk(w, d, k0, s) /\ (w.out = "next" => BlockOf(w.r.pos) = b) /\ walk[m] = launch_chunk(w, b)
    <3>1. first + (m - 1) = b
      BY <1>2
    <3> QED BY <3>1, <1>9, <1>11
  <2>2. b + 1 = first + m /\ m \in 0 .. N
    BY <1>2
  <2> HIDE DEF w, b
  <2>3. AccOk(launch_chunk(w, b), d, k0, s) /\ (launch_chunk(w, b).out = "next" => BlockOf(launch_chunk(w, b).r.pos) = b + 1)
    BY <2>1, LaunchOk
  <2> QED BY <2>1, <2>2, <2>3
<1> HIDE DEF I
<1>12. \A n \in 0 .. N : n \in I
  BY <1>2, <1>10, <1>11, RangeInduction, Zenon
<1>13. N \in I
  BY <1>2, <1>12
<1> QED BY <1>1, <1>13 DEF I

-----------------------------------------------------------------------------
(* The cleaning timer.                                                       *)

\* What the cache is after some writes have begun.
Flushed(k0, k, t, d) ==
    /\ Struct(k) /\ Sync(k, t, d) /\ PoolOk(k) /\ SameReads(k0, k)

\* The write of one more DIRTY block.
LEMMA StartOk ==
    ASSUME NEW k0, NEW k, NEW t, NEW d, Flushed(k0, k, t, d), k0.subio \in Seq(OpRec), NEW b \in Block,
           StateOf(k, b) = "DIRTY"
    PROVE  Flushed(k0, start_blkwr(k, b), t, d)
<1> DEFINE k2 == start_blkwr(k, b)
           run == DirtyContiguous(k, b)
<1>1. Struct(k) /\ Sync(k, t, d) /\ SameReads(k0, k)
  BY DEF Flushed
<1>2. PICK p : Started(k, k2, run, p)
  BY <1>1, StartIs
<1> HIDE DEF k2, run
<1>3. Struct(k2) /\ Sync(k2, t, d) /\ blkwr_db(k2) # {}
  BY <1>1, <1>2, StartedOk
<1>4. k.subio \in Seq(OpRec) /\ Len(k.subio) \in Nat /\ k2.subio \in Seq(OpRec)
  BY <1>1, <1>3 DEF Struct, Cache
<1>5. SameReads(k, k2)
  <2>1. k2.subio = Append(k.subio, p) /\ p \in OpRec /\ p.who = NoSlot
    BY <1>2 DEF Started
  <2>2. /\ Len(k2.subio) = Len(k.subio) + 1
        /\ \A i \in 1 .. Len(k.subio) : k2.subio[i] = k.subio[i]
        /\ k2.subio[Len(k.subio) + 1] = p
        /\ \A i \in 1 .. Len(k2.subio) : i \in 1 .. Len(k.subio) \/ i = Len(k.subio) + 1
    BY <2>1, <1>4, AppendOp
  <2> QED BY <2>1, <2>2, <1>4 DEF SameReads
<1>6. SameReads(k0, k2)
  BY <1>1, <1>4, <1>5, SameReadsTrans
<1>7. Flushed(k0, k2, t, d)
  BY <1>3, <1>6 DEF Flushed, PoolOk
<1> QED BY <1>7 DEF k2

\* start_blkwr_all keeps the invariant.
LEMMA StartAllOk ==
    ASSUME NEW k, NEW t, NEW d, Flushed(k, k, t, d)
    PROVE  Flushed(k, start_blkwr_all(k), t, d)
<1> DEFINE N == BlockOf(TotLen - 1) + 1
           Step(c, n) == IF StateOf(c, n - 1) = "DIRTY" THEN start_blkwr(c, n - 1) ELSE c
           P(g) == g = [n \in 0 .. N |-> IF n = 0 THEN k ELSE Step(g[n - 1], n)]
           walk == CHOOSE g : P(g)
           R(m, f) == f[0] = k /\ \A n \in 1 .. m : f[n] = Step(f[n - 1], n)
           S == {m \in 0 .. N : \E f : R(m, f)}
           I == {m \in 0 .. N : Flushed(k, walk[m], t, d)}
<1>1. start_blkwr_all(k) = walk[N]
  BY Zenon DEF start_blkwr_all
<1>2. N \in Nat /\ k.subio \in Seq(OpRec)
  BY Lens DEF Flushed, Struct, Cache
<1>a. ASSUME NEW c, NEW n \in 1 .. N, Flushed(k, c, t, d) PROVE Flushed(k, Step(c, n), t, d)
  <2>1. n - 1 \in Block
    BY Lens DEF Block
  <2>2. CASE StateOf(c, n - 1) = "DIRTY"
    BY <2>1, <2>2, <1>2, <1>a, StartOk
  <2>3. CASE StateOf(c, n - 1) # "DIRTY"
    BY <2>3, <1>a
  <2> QED BY <2>2, <2>3
<1> HIDE DEF N, Step
<1>3. 0 \in S
  <2> DEFINE f == [n \in {0} |-> k]
  <2>1. R(0, f)
    BY <1>2
  <2> HIDE DEF R
  <2> QED BY <2>1, <1>2
<1>4. ASSUME NEW m \in 1 .. N, m - 1 \in S PROVE m \in S
  <2>1. PICK f : R(m - 1, f)
    BY <1>4
  <2> DEFINE e == Step(f[m - 1], m)
             g == [n \in 0 .. m |-> IF n = m THEN e ELSE f[n]]
  <2> HIDE DEF e
  <2>2. m \in Nat \ {0}
    BY <1>2
  <2>3. g[0] = k /\ g[m] = e /\ g[m - 1] = f[m - 1]
    BY <2>1, <2>2
  <2>4. ASSUME NEW n \in 1 .. m PROVE g[n] = Step(g[n - 1], n)
    <3>1. CASE n = m
      BY <3>1, <2>3 DEF e
    <3>2. CASE n # m
      <4>1. n \in 1 .. m - 1 /\ n - 1 \in 0 .. m /\ n - 1 # m /\ n \in 0 .. m
        BY <3>2, <2>2
      <4>2. f[n] = Step(f[n - 1], n)
        BY <4>1, <2>1
      <4>3. g[n] = f[n] /\ g[n - 1] = f[n - 1]
        BY <4>1, <3>2
      <4> HIDE DEF g
      <4> QED BY <4>2, <4>3
    <3> QED BY <3>1, <3>2
  <2> HIDE DEF g
  <2>5. R(m, g)
    BY <2>3, <2>4
  <2>6. m \in 0 .. N
    BY <1>2
  <2> HIDE DEF R
  <2> QED BY <2>5, <2>6
<1> HIDE DEF S
<1>5. \A n \in 0 .. N : n \in S
  BY <1>2, <1>3, <1>4, RangeInduction, Zenon
<1>n. N \in S
  BY <1>2, <1>5
<1>6. PICK f : R(N, f)
  BY <1>n DEF S
<1> DEFINE g == [n \in 0 .. N |-> f[n]]
<1>7. P(g)
  <2>1. g[0] = k
    BY <1>2, <1>6
  <2>2. ASSUME NEW n \in 1 .. N PROVE g[n] = Step(g[n - 1], n)
    <3>1. n \in 0 .. N /\ n - 1 \in 0 .. N
      BY <1>2
    <3>2. f[n] = Step(f[n - 1], n)
      BY <1>6
    <3>3. g[n] = f[n] /\ g[n - 1] = f[n - 1]
      BY <3>1
    <3> HIDE DEF g
    <3> QED BY <3>2, <3>3
  <2>3. DOMAIN g = 0 .. N /\ g = [n \in 0 .. N |-> g[n]]
    OBVIOUS
  <2> HIDE DEF g
  <2>4. \A n \in 0 .. N : n = 0 \/ n \in 1 .. N
    BY <1>2
  <2> QED BY <2>1, <2>2, <2>3, <2>4
<1> HIDE DEF g
<1>8. P(walk)
  BY <1>7, Zenon
<1> HIDE DEF walk
<1>9. walk[0] = k /\ \A n \in 1 .. N : walk[n] = Step(walk[n - 1], n)
  <2>1. 0 \in 0 .. N
    BY <1>2
  <2>2. \A n \in 1 .. N : n \in 0 .. N /\ n # 0
    BY <1>2
  <2> QED BY <1>8, <2>1, <2>2
<1>10. 0 \in I
  BY <1>2, <1>9
<1>11. ASSUME NEW m \in 1 .. N, m - 1 \in I PROVE m \in I
  <2>1. Flushed(k, Step(walk[m - 1], m), t, d)
    BY <1>11, <1>a
  <2>2. m \in 0 .. N
    BY <1>2
  <2> QED BY <2>1, <2>2, <1>9
<1> HIDE DEF I
<1>12. \A n \in 0 .. N : n \in I
  BY <1>2, <1>10, <1>11, RangeInduction, Zenon
<1>13. N \in I
  BY <1>2, <1>12
<1> QED BY <1>1, <1>13 DEF I
-----------------------------------------------------------------------------
(* Whom the operations are for.                                              *)

\* Served, but for s, which no operation is for.
ServedBut(k, q, s) ==
    /\ \A i, j \in 1 .. Len(k.subio) : k.subio[i].who = k.subio[j].who /\ k.subio[i].who # NoSlot => i = j
    /\ \A i \in 1 .. Len(k.subio) : k.subio[i].who # NoSlot =>
          /\ k.subio[i].who # s
          /\ q[k.subio[i].who] # Idle /\ q[k.subio[i].who].st = "blkrd"
          /\ q[k.subio[i].who].pos \in k.subio[i].left
    /\ \A x \in Slot : x # s /\ q[x] # Idle /\ q[x].st = "blkrd" =>
          \E i \in 1 .. Len(k.subio) : k.subio[i].who = x

\* The two tables differ for s only.
Elsewhere(q, q2, s) == \A x \in Slot : x # s => q2[x] = q[x]

\* Nothing was for s.
LEMMA ServedQuiet ==
    ASSUME NEW k, NEW q, Served(k, q), NEW s \in Slot, q[s] = Idle \/ q[s].st # "blkrd"
    PROVE  ServedBut(k, q, s)
BY DEF Served, ServedBut

\* The first operation leaves the queue, and it was for s.
LEMMA ServedTail ==
    ASSUME NEW k, NEW q, Served(k, q), k.subio \in Seq(OpRec), k.subio # <<>>, NEW s \in Slot, k.subio[1].who = s,
           NEW k2, k2.subio = Tail(k.subio)
    PROVE  ServedBut(k2, q, s)
<1> DEFINE v == k.subio
           w == Tail(v)
<1>1. /\ \A i \in 1 .. Len(w) : w[i] = v[i + 1] /\ i + 1 \in 1 .. Len(v) /\ i \in Nat /\ i # 0
      /\ \A i \in 1 .. Len(v) : i = 1 \/ (i - 1 \in 1 .. Len(w) /\ w[i - 1] = v[i])
      /\ 1 \in 1 .. Len(v)
  BY TailOp
<1>2. NoSlot # s
  BY BtIoCacheAssumption
<1> HIDE DEF w
<1>3. k2.subio = w
  BY DEF w
<1>4. ASSUME NEW i \in 1 .. Len(w), NEW j \in 1 .. Len(w), w[i].who = w[j].who, w[i].who # NoSlot PROVE i = j
  <2>1. w[i] = v[i + 1] /\ i + 1 \in 1 .. Len(v) /\ w[j] = v[j + 1] /\ j + 1 \in 1 .. Len(v) /\ i \in Nat /\ j \in Nat
    BY <1>1
  <2>2. i + 1 = j + 1
    BY <2>1, <1>4 DEF Served
  <2> QED BY <2>1, <2>2
<1>5. ASSUME NEW i \in 1 .. Len(w), w[i].who # NoSlot
      PROVE  w[i].who # s /\ q[w[i].who] # Idle /\ q[w[i].who].st = "blkrd" /\ q[w[i].who].pos \in w[i].left
  <2>1. w[i] = v[i + 1] /\ i + 1 \in 1 .. Len(v) /\ i + 1 # 1
    BY <1>1
  <2>2. v[i + 1].who # s
    BY <2>1, <1>1, <1>2 DEF Served
  <2> QED BY <2>1, <2>2, <1>5 DEF Served
<1>6. ASSUME NEW x \in Slot, x # s, q[x] # Idle, q[x].st = "blkrd" PROVE \E i \in 1 .. Len(w) : w[i].who = x
  <2>1. PICK i \in 1 .. Len(v) : v[i].who = x
    BY <1>6 DEF Served
  <2>2. i # 1
    BY <2>1, <1>6
  <2> QED BY <2>1, <2>2, <1>1
<1> QED BY <1>3, <1>4, <1>5, <1>6 DEF ServedBut

\* The request of s does not wait.
LEMMA ServedGoesOn ==
    ASSUME NEW k, NEW q, NEW s \in Slot, ServedBut(k, q, s), NEW k2, SameReads(k, k2), NEW q2, Elsewhere(q, q2, s),
           q2[s] = Idle \/ q2[s].st # "blkrd", k.subio \in Seq(OpRec), k2.subio \in Seq(OpRec)
    PROVE  Served(k2, q2)
<1>1. Len(k.subio) \in Nat /\ Len(k2.subio) \in Nat /\ Len(k.subio) <= Len(k2.subio)
  BY DEF SameReads
<1>2. \A i \in 1 .. Len(k.subio) : i \in 1 .. Len(k2.subio) /\ k2.subio[i] = k.subio[i]
  BY <1>1 DEF SameReads
<1>3. \A i \in 1 .. Len(k2.subio) : k2.subio[i].who # NoSlot => i \in 1 .. Len(k.subio) /\ k2.subio[i] = k.subio[i]
  BY <1>2 DEF SameReads
<1>4. \A i \in 1 .. Len(k.subio) : k.subio[i].who # NoSlot => q2[k.subio[i].who] = q[k.subio[i].who]
  <2>1. \A i \in 1 .. Len(k.subio) : k.subio[i] \in OpRec
    OBVIOUS
  <2>2. \A i \in 1 .. Len(k.subio) : k.subio[i].who # NoSlot => k.subio[i].who \in Slot /\ k.subio[i].who # s
    BY <2>1 DEF OpRec, ServedBut
  <2> QED BY <2>2 DEF Elsewhere
<1>5. \A i, j \in 1 .. Len(k2.subio) : k2.subio[i].who = k2.subio[j].who /\ k2.subio[i].who # NoSlot => i = j
  BY <1>3 DEF ServedBut
<1>6. \A i \in 1 .. Len(k2.subio) : k2.subio[i].who # NoSlot =>
          /\ q2[k2.subio[i].who] # Idle /\ q2[k2.subio[i].who].st = "blkrd"
          /\ q2[k2.subio[i].who].pos \in k2.subio[i].left
  BY <1>3, <1>4 DEF ServedBut
<1>7. \A x \in Slot : q2[x] # Idle /\ q2[x].st = "blkrd" => \E i \in 1 .. Len(k2.subio) : k2.subio[i].who = x
  BY <1>2 DEF ServedBut, Elsewhere
<1> QED BY <1>5, <1>6, <1>7 DEF Served

\* The request of s waits for a read that has just begun.
LEMMA ServedWaits ==
    ASSUME NEW k, NEW q, NEW s \in Slot, ServedBut(k, q, s), NEW k2, NEW pos, OneRead(k, k2, s, pos),
           NEW q2, Elsewhere(q, q2, s),
           q2[s] # Idle, q2[s].st = "blkrd", q2[s].pos = pos, k.subio \in Seq(OpRec)
    PROVE  Served(k2, q2)
<1>1. PICK k1, p : /\ SameReads(k, k1) /\ k1.subio \in Seq(OpRec) /\ p \in OpRec
                   /\ k2.subio = Append(k1.subio, p) /\ p.who = s /\ pos \in p.left
  BY DEF OneRead
<1> DEFINE v == k1.subio
           w == k2.subio
<1>2. /\ Len(v) \in Nat /\ Len(w) = Len(v) + 1
      /\ \A i \in 1 .. Len(v) : w[i] = v[i]
      /\ w[Len(v) + 1] = p
      /\ \A i \in 1 .. Len(w) : i \in 1 .. Len(v) \/ i = Len(v) + 1
      /\ \A i \in 1 .. Len(v) : i \in 1 .. Len(w)
      /\ Len(v) + 1 \in 1 .. Len(w)
  BY <1>1, AppendOp
<1>3. Len(k.subio) \in Nat /\ Len(v) \in Nat /\ Len(k.subio) <= Len(v)
  BY <1>1 DEF SameReads
<1>4. \A i \in 1 .. Len(k.subio) : i \in 1 .. Len(w) /\ w[i] = k.subio[i]
  <2>1. \A i \in 1 .. Len(k.subio) : i \in 1 .. Len(v)
    BY <1>3
  <2> QED BY <2>1, <1>1, <1>2 DEF SameReads
<1>5. \A i \in 1 .. Len(w) : w[i].who # NoSlot =>
         (i \in 1 .. Len(k.subio) /\ w[i] = k.subio[i]) \/ (i = Len(v) + 1 /\ w[i] = p)
  BY <1>1, <1>2, <1>4 DEF SameReads
<1>6. \A i \in 1 .. Len(k.subio) : k.subio[i].who # NoSlot =>
         q2[k.subio[i].who] = q[k.subio[i].who] /\ k.subio[i].who # s
  <2>1. \A i \in 1 .. Len(k.subio) : k.subio[i] \in OpRec
    OBVIOUS
  <2>2. \A i \in 1 .. Len(k.subio) : k.subio[i].who # NoSlot => k.subio[i].who \in Slot /\ k.subio[i].who # s
    BY <2>1 DEF OpRec, ServedBut
  <2> QED BY <2>2 DEF Elsewhere
<1> HIDE DEF v, w
<1>7. \A i, j \in 1 .. Len(w) : w[i].who = w[j].who /\ w[i].who # NoSlot => i = j
  BY <1>1, <1>5, <1>6 DEF ServedBut
<1>8. \A i \in 1 .. Len(w) : w[i].who # NoSlot =>
          q2[w[i].who] # Idle /\ q2[w[i].who].st = "blkrd" /\ q2[w[i].who].pos \in w[i].left
  BY <1>1, <1>5, <1>6 DEF ServedBut
<1>9. \A x \in Slot : q2[x] # Idle /\ q2[x].st = "blkrd" => \E i \in 1 .. Len(w) : w[i].who = x
  <2>1. ASSUME NEW x \in Slot, x # s, q2[x] # Idle, q2[x].st = "blkrd" PROVE \E i \in 1 .. Len(w) : w[i].who = x
    BY <2>1, <1>4 DEF ServedBut, Elsewhere
  <2>2. \E i \in 1 .. Len(w) : w[i].who = s
    BY <1>1, <1>2
  <2> QED BY <2>1, <2>2
<1> QED BY <1>7, <1>8, <1>9 DEF Served, w

\* A queue that did not change has got nothing but writes.
LEMMA SameReadsRefl == ASSUME NEW k, k.subio \in Seq(OpRec) PROVE SameReads(k, k)
BY DEF SameReads

\* The queue has got nothing but writes, and no request has changed.
LEMMA ServedMore ==
    ASSUME NEW k, NEW q, Served(k, q), NEW k2, SameReads(k, k2), k.subio \in Seq(OpRec), k2.subio \in Seq(OpRec)
    PROVE  Served(k2, q)
<1>1. Len(k.subio) \in Nat /\ Len(k2.subio) \in Nat /\ Len(k.subio) <= Len(k2.subio)
  BY DEF SameReads
<1>2. \A i \in 1 .. Len(k.subio) : i \in 1 .. Len(k2.subio) /\ k2.subio[i] = k.subio[i]
  BY <1>1 DEF SameReads
<1>3. \A i \in 1 .. Len(k2.subio) : k2.subio[i].who # NoSlot => i \in 1 .. Len(k.subio) /\ k2.subio[i] = k.subio[i]
  BY <1>2 DEF SameReads
<1>4. \A i, j \in 1 .. Len(k2.subio) : k2.subio[i].who = k2.subio[j].who /\ k2.subio[i].who # NoSlot => i = j
  BY <1>3 DEF Served
<1>5. \A i \in 1 .. Len(k2.subio) : k2.subio[i].who # NoSlot =>
          /\ q[k2.subio[i].who] # Idle /\ q[k2.subio[i].who].st = "blkrd"
          /\ q[k2.subio[i].who].pos \in k2.subio[i].left
  BY <1>3 DEF Served
<1>6. \A x \in Slot : q[x] # Idle /\ q[x].st = "blkrd" => \E i \in 1 .. Len(k2.subio) : k2.subio[i].who = x
  BY <1>2 DEF Served
<1> QED BY <1>4, <1>5, <1>6 DEF Served

\* The first operation leaves the queue, and nobody waited for it.
LEMMA ServedDrop ==
    ASSUME NEW k, NEW q, Served(k, q), k.subio \in Seq(OpRec), k.subio # <<>>, k.subio[1].who = NoSlot,
           NEW k2, k2.subio = Tail(k.subio)
    PROVE  Served(k2, q)
<1> DEFINE v == k.subio
           w == Tail(v)
<1>1. /\ \A i \in 1 .. Len(w) : w[i] = v[i + 1] /\ i + 1 \in 1 .. Len(v) /\ i \in Nat /\ i # 0
      /\ \A i \in 1 .. Len(v) : i = 1 \/ (i - 1 \in 1 .. Len(w) /\ w[i - 1] = v[i])
      /\ 1 \in 1 .. Len(v)
  BY TailOp
<1>2. \A x \in Slot : x # NoSlot
  BY BtIoCacheAssumption
<1> HIDE DEF w
<1>3. k2.subio = w
  BY DEF w
<1>4. ASSUME NEW i \in 1 .. Len(w), NEW j \in 1 .. Len(w), w[i].who = w[j].who, w[i].who # NoSlot PROVE i = j
  <2>1. w[i] = v[i + 1] /\ i + 1 \in 1 .. Len(v) /\ w[j] = v[j + 1] /\ j + 1 \in 1 .. Len(v) /\ i \in Nat /\ j \in Nat
    BY <1>1
  <2>2. i + 1 = j + 1
    BY <2>1, <1>4 DEF Served
  <2> QED BY <2>1, <2>2
<1>5. ASSUME NEW i \in 1 .. Len(w), w[i].who # NoSlot
      PROVE  q[w[i].who] # Idle /\ q[w[i].who].st = "blkrd" /\ q[w[i].who].pos \in w[i].left
  <2>1. w[i] = v[i + 1] /\ i + 1 \in 1 .. Len(v)
    BY <1>1
  <2> QED BY <2>1, <1>5 DEF Served
<1>6. ASSUME NEW x \in Slot, q[x] # Idle, q[x].st = "blkrd" PROVE \E i \in 1 .. Len(w) : w[i].who = x
  <2>1. PICK i \in 1 .. Len(v) : v[i].who = x
    BY <1>6 DEF Served
  <2>2. i # 1
    BY <2>1, <1>2
  <2> QED BY <2>1, <2>2, <1>1
<1> QED BY <1>3, <1>4, <1>5, <1>6 DEF Served

\* The operations are for the same requests.
LEMMA ServedAlike ==
    ASSUME NEW k, NEW q, Served(k, q), NEW k2, Len(k2.subio) = Len(k.subio),
           \A i \in 1 .. Len(k.subio) : k2.subio[i].who = k.subio[i].who /\ k2.subio[i].left = k.subio[i].left
    PROVE  Served(k2, q)
BY DEF Served
-----------------------------------------------------------------------------
(* The requests.                                                             *)

\* The type of the state.
LEMMA Types ==
    ASSUME IndInv
    PROVE  /\ cache \in Cache /\ cache.subio \in Seq(OpRec) /\ DOMAIN req = Slot
           /\ disk \in [Cell -> Int] /\ truth \in [Cell -> Int]
           /\ \A s \in Slot : req[s] = Idle \/ ReqOk(req[s], s)
BY DEF IndInv, Struct, Cache

\* A request is not an idle slot.
LEMMA NotIdle == ASSUME NEW r \in Req PROVE r # Idle
BY DEF Req, Idle

\* The table of requests when only that of s changes.
LEMMA Table ==
    ASSUME IndInv, NEW s \in Slot, NEW x, req' = [req EXCEPT ![s] = x], x = Idle \/ ReqOk(x, s)
    PROVE  /\ \A y \in Slot : req'[y] = Idle \/ ReqOk(req'[y], y)
           /\ DOMAIN req' = Slot /\ Elsewhere(req, req', s) /\ req'[s] = x
<1>1. DOMAIN req' = Slot /\ req'[s] = x /\ \A y \in Slot : y # s => req'[y] = req[y]
  BY Types
<1> QED BY <1>1, Types DEF Elsewhere

\* A request goes on until it waits or ends.
LEMMA YieldsOk ==
    ASSUME IndInv, NEW s \in Slot, NEW k0, k0.subio \in Seq(OpRec), ServedBut(k0, req, s), NEW a, AccOk(a, disk, k0, s),
           Yields(s, a), UNCHANGED <<disk, nwrite>>, stopping' # "ok"
    PROVE  IndInv'
<1> DEFINE x == IF a.out = "done" THEN Idle ELSE a.r
<1>1. cache' = a.k /\ truth' = a.truth /\ req' = [req EXCEPT ![s] = x]
  BY DEF Yields
<1>2. /\ a \in Acc /\ Struct(a.k) /\ Sync(a.k, a.truth, disk) /\ PoolOk(a.k)
  BY DEF AccOk
<1>3. a.r \in Req /\ a.truth \in [Cell -> Int] /\ a.out \in {"next", "blkrd", "done"} /\ a.r # Idle
  BY <1>2, NotIdle DEF Acc
<1>4. x = Idle \/ ReqOk(x, s)
  BY <1>3 DEF AccOk, ReqOk
<1> HIDE DEF x
<1>5. /\ \A y \in Slot : req'[y] = Idle \/ ReqOk(req'[y], y)
      /\ DOMAIN req' = Slot /\ Elsewhere(req, req', s) /\ req'[s] = x
  BY <1>1, <1>4, Table
<1>6. a.k.subio \in Seq(OpRec)
  BY <1>2 DEF Struct, Cache
<1>7. Served(a.k, req')
  <2>1. CASE a.out = "blkrd"
    <3>1. OneRead(k0, a.k, s, a.r.pos) /\ x = a.r /\ a.r.st = "blkrd"
      BY <2>1 DEF AccOk, x
    <3> QED BY <3>1, <1>3, <1>5, ServedWaits
  <2>2. CASE a.out # "blkrd"
    <3>1. SameReads(k0, a.k) /\ (x = Idle \/ x.st # "blkrd")
      BY <2>2, <1>3 DEF AccOk, x
    <3> QED BY <3>1, <1>5, <1>6, ServedGoesOn
  <2> QED BY <2>1, <2>2
<1>8. disk' = disk /\ nwrite' = nwrite /\ disk \in [Cell -> Int] /\ nwrite \in Nat
  BY DEF IndInv
<1> QED BY <1>1, <1>2, <1>3, <1>5, <1>7, <1>8 DEF IndInv

\* One step after the other keeps the invariant.
LEMMA ZerotimerExpireOk == ASSUME IndInv, NEW s \in Slot, ZerotimerExpire(s) PROVE IndInv'
<1> DEFINE a == At(s)
<1>1. /\ Alive /\ req[s] # Idle /\ req[s].st = "zero" /\ Yields(s, launch_next_chunk(a))
      /\ UNCHANGED <<disk, nwrite>> /\ stopping' = stopping
  BY DEF ZerotimerExpire
<1>2. ReqOk(req[s], s) /\ cache.subio \in Seq(OpRec) /\ truth \in [Cell -> Int] /\ cache \in Cache
  BY <1>1, Types
<1>3. a.k = cache /\ a.r = req[s] /\ a.truth = truth /\ a.out = "next" /\ a \in Acc
  BY <1>2 DEF At, Acc, ReqOk
<1> HIDE DEF a
<1>4. AccOk(a, disk, cache, s)
  <2>1. Struct(cache) /\ Sync(cache, truth, disk) /\ PoolOk(cache)
    BY DEF IndInv
  <2>2. SameReads(cache, cache)
    BY <1>2, SameReadsRefl
  <2>3. req[s].pos <= req[s].end + 1 /\ req[s].slot = s /\ req[s].beg <= req[s].pos /\ req[s].pos <= req[s].end
        /\ (req[s].pos = req[s].beg \/ Aligned(req[s].pos))
    <3>1. req[s].pos \in Nat /\ req[s].end \in Nat
      BY <1>2, Lens DEF ReqOk, Req
    <3> QED BY <3>1, <1>2 DEF ReqOk
  <2> QED BY <1>1, <1>3, <2>1, <2>2, <2>3 DEF AccOk
<1>5. AccOk(launch_next_chunk(a), disk, cache, s)
  BY <1>2, <1>4, LaunchNextOk
<1>6. ServedBut(cache, req, s)
  BY <1>1, ServedQuiet DEF IndInv
<1>7. stopping' # "ok"
  BY <1>1 DEF Alive
<1> QED BY <1>1, <1>2, <1>5, <1>6, <1>7, YieldsOk

\* A request is made.
LEMMA AskedOk ==
    ASSUME IndInv, NEW s \in Slot, NEW r \in Ranges, NEW op \in {"read", "write"}, nwrite' \in Nat, Asked(s, op, r)
    PROVE  IndInv'
<1> DEFINE x == [op |-> op, slot |-> s, beg |-> r[1], end |-> r[2], pos |-> r[1], st |-> "zero", val |-> nwrite']
<1>1. /\ stopping = "none" /\ req[s] = Idle /\ req' = [req EXCEPT ![s] = x]
      /\ cache' = cache /\ disk' = disk /\ truth' = truth /\ stopping' = stopping
  BY DEF Asked
<1>2. r[1] \in Cell /\ r[2] \in Cell /\ r[1] <= r[2] /\ r[1] \in Nat
  BY BtIoCacheAssumption, Lens
<1>3. nwrite' \in Int
  OBVIOUS
<1>4. ReqOk(x, s) /\ x.st = "zero"
  BY <1>2, <1>3 DEF ReqOk, Req
<1> HIDE DEF x
<1>5. /\ \A y \in Slot : req'[y] = Idle \/ ReqOk(req'[y], y)
      /\ DOMAIN req' = Slot /\ Elsewhere(req, req', s) /\ req'[s] = x
  BY <1>1, <1>4, Table
<1>6. ServedBut(cache, req, s)
  BY <1>1, ServedQuiet DEF IndInv
<1>7. Served(cache, req')
  BY <1>4, <1>5, <1>6, Types, SameReadsRefl, ServedGoesOn
<1> QED BY <1>1, <1>5, <1>7 DEF IndInv

\* Both kinds of requests.
LEMMA CtorOk ==
    ASSUME IndInv, NEW s \in Slot, NEW r \in Ranges, ReadCtor(s, r) \/ WriteCtor(s, r)
    PROVE  IndInv'
<1>1. nwrite \in Nat
  BY DEF IndInv
<1>2. CASE ReadCtor(s, r)
  BY <1>1, <1>2, AskedOk DEF ReadCtor
<1>3. CASE WriteCtor(s, r)
  BY <1>1, <1>3, AskedOk DEF WriteCtor
<1> QED BY <1>2, <1>3

\* What a queue with the same writes keeps of the cache.
LEMMA SameWrites ==
    ASSUME NEW k, Struct(k), NEW t, NEW d, Sync(k, t, d), PoolOk(k), NEW w \in Seq(OpRec), NEW k2,
           k2 \in Cache, k2.db = k.db, k2.lru = k.lru, k2.subio = w, k2.err = k.err, k2.twice = k.twice,
           \A i \in 1 .. Len(w) : OpOk(w[i]),
           \A b \in Block : CoveredIn(k.subio, b) # {} => CoveredIn(w, b) # {},
           \A b \in Block : \A st, dt : BSync(k.subio, st, dt, t, d, b) => BSync(w, st, dt, t, d, b),
           (\E i \in 1 .. Len(k.subio) : k.subio[i].op = "blkwr") => \E i \in 1 .. Len(w) : w[i].op = "blkwr"
    PROVE  Struct(k2) /\ Sync(k2, t, d) /\ PoolOk(k2)
<1>1. k.subio \in Seq(OpRec)
  BY DEF Struct, Cache
<1>2. /\ k2 \in Cache /\ k2.db = k.db /\ k2.lru = k.lru /\ k2.subio = w /\ k2.err = k.err /\ k2.twice = k.twice
  OBVIOUS
<1>3. Struct(k2)
  BY <1>2 DEF Struct
<1>4. \A b : StateOf(k2, b) = StateOf(k, b) /\ DatumOf(k2, b) = DatumOf(k, b)
  BY <1>2 DEF StateOf, DatumOf
<1>5. Waited(k) => Waited(k2)
  BY <1>2, <1>4 DEF Waited
<1>6. \A b \in Block : BlockSync(k, t, d, b) => BlockSync(k2, t, d, b)
  BY <1>2, <1>4 DEF BlockSync
<1>7. Sync(k2, t, d)
  BY <1>2, <1>5, <1>6 DEF Sync
<1>8. blkwr_db(k) # {} => blkwr_db(k2) # {}
  <2>1. DOMAIN k.subio = 1 .. Len(k.subio) /\ DOMAIN k2.subio = 1 .. Len(w)
    BY <1>1, <1>2
  <2> QED BY <2>1, <1>2 DEF blkwr_db
<1>9. PoolOk(k2)
  BY <1>2, <1>3, <1>8, SamePool
<1> QED BY <1>2, <1>3, <1>7, <1>9

\* A request is destroyed: with the read it waits for, or with none.
LEMMA ReadGivenUp ==
    ASSUME IndInv, NEW s \in Slot, req[s] # Idle, req[s].op = "read", RequestDtor(s)
    PROVE  IndInv'
<1> DEFINE q == cache.subio
           X == {o \in ToSet(q) : o.who = s}
           w == Without(q, X)
<1>1. /\ req' = [req EXCEPT ![s] = Idle] /\ cache' = [cache EXCEPT !.subio = w]
      /\ disk' = disk /\ truth' = truth /\ nwrite' = nwrite /\ stopping' = stopping /\ Alive
  BY DEF RequestDtor
<1>2. q \in Seq(OpRec) /\ Struct(cache) /\ Sync(cache, truth, disk) /\ PoolOk(cache) /\ Served(cache, req) /\ s # NoSlot
  BY Types, BtIoCacheAssumption DEF IndInv
<1>3. w \in Seq(OpRec) /\ LeftOf(w, q, Len(q), X)
  BY <1>2, WithoutIs
<1>4. DOMAIN q = 1 .. Len(q) /\ \A i \in 1 .. Len(q) : q[i] \in OpRec /\ OpOk(q[i])
  BY <1>2 DEF Struct
<1>5. \A i \in 1 .. Len(q) : q[i] \in X <=> q[i].who = s
  BY <1>4 DEF ToSet
<1>6. \A o \in X : o.op = "blkrd"
  BY <1>2, <1>4 DEF ToSet, OpOk, OpRec
<1> HIDE DEF X, w
<1>7. /\ \A i \in 1 .. Len(w) : OpOk(w[i])
      /\ (\E i \in 1 .. Len(q) : q[i].op = "blkwr") => \E i \in 1 .. Len(w) : w[i].op = "blkwr"
  BY <1>3, <1>4, <1>6 DEF LeftOf
<1>8. Struct(cache') /\ Sync(cache', truth, disk) /\ PoolOk(cache') /\ cache'.subio = w
  <2>1. /\ cache' \in Cache /\ cache'.db = cache.db /\ cache'.lru = cache.lru /\ cache'.subio = w
        /\ cache'.err = cache.err /\ cache'.twice = cache.twice
    BY <1>1, <1>3, Types DEF Cache
  <2>2. /\ \A b \in Block : CoveredIn(q, b) # {} => CoveredIn(w, b) # {}
        /\ \A b \in Block : \A st, dt : BSync(q, st, dt, truth, disk, b) => BSync(w, st, dt, truth, disk, b)
    BY <1>2, <1>3, <1>6, BsWithout, CoveredWithout
  <2> DEFINE k2 == cache'
  <2> HIDE DEF k2
  <2>3. Struct(k2) /\ Sync(k2, truth, disk) /\ PoolOk(k2)
    BY <2>1, <2>2, <1>2, <1>3, <1>7, SameWrites DEF k2
  <2> QED BY <2>1, <2>3 DEF k2
<1>9. /\ \A y \in Slot : req'[y] = Idle \/ ReqOk(req'[y], y)
      /\ DOMAIN req' = Slot /\ Elsewhere(req, req', s) /\ req'[s] = Idle
  BY <1>1, Table
<1>10. Served(cache', req')
  <2>1. ASSUME NEW i \in 1 .. Len(w) PROVE \E j \in 1 .. Len(q) : q[j] = w[i] /\ w[i].who # s
    <3>1. PICK j \in 1 .. Len(q) : q[j] = w[i]
      BY <1>3 DEF LeftOf
    <3>2. w[i] \notin X
      BY <1>3 DEF LeftOf
    <3>3. q[j].who # s
      BY <3>1, <3>2, <1>5
    <3> QED BY <3>1, <3>3
  <2>2. ASSUME NEW i \in 1 .. Len(w), NEW j \in 1 .. Len(w), w[i].who = w[j].who, w[i].who # NoSlot, i < j PROVE FALSE
    <3>1. PICK j1, j2 \in 1 .. Len(q) : j1 < j2 /\ q[j1] = w[i] /\ q[j2] = w[j]
      BY <2>2, <1>3 DEF LeftOf
    <3>2. j1 = j2
      BY <3>1, <2>2, <1>2 DEF Served
    <3> QED BY <3>1, <3>2
  <2>3. \A i, j \in 1 .. Len(w) : w[i].who = w[j].who /\ w[i].who # NoSlot => i = j
    <3>1. ASSUME NEW i \in 1 .. Len(w), NEW j \in 1 .. Len(w), w[i].who = w[j].who, w[i].who # NoSlot PROVE i = j
      <4>1. i \in Nat /\ j \in Nat
        OBVIOUS
      <4>2. ~(i < j) /\ ~(j < i)
        BY <3>1, <2>2
      <4> QED BY <4>1, <4>2
    <3> QED BY <3>1
  <2>4. ASSUME NEW i \in 1 .. Len(w), w[i].who # NoSlot
        PROVE  req'[w[i].who] # Idle /\ req'[w[i].who].st = "blkrd" /\ req'[w[i].who].pos \in w[i].left
    <3>1. PICK j \in 1 .. Len(q) : q[j] = w[i] /\ w[i].who # s
      BY <2>1
    <3>2. w[i].who \in Slot
      BY <3>1, <2>4, <1>4 DEF OpRec
    <3>3. req'[w[i].who] = req[w[i].who]
      BY <3>1, <3>2, <1>9 DEF Elsewhere
    <3> QED BY <3>1, <3>3, <2>4, <1>2 DEF Served
  <2>5. ASSUME NEW x \in Slot, req'[x] # Idle, req'[x].st = "blkrd" PROVE \E i \in 1 .. Len(w) : w[i].who = x
    <3>1. x # s /\ req'[x] = req[x]
      BY <2>5, <1>9 DEF Elsewhere
    <3>2. PICK j \in 1 .. Len(q) : q[j].who = x
      BY <3>1, <2>5, <1>2 DEF Served
    <3>3. q[j] \notin X
      BY <3>1, <3>2, <1>5
    <3> QED BY <3>2, <3>3, <1>3 DEF LeftOf
  <2> QED BY <2>3, <2>4, <2>5, <1>8 DEF Served
<1> QED BY <1>1, <1>8, <1>9, <1>10 DEF IndInv, Alive

\* A write is destroyed on its way: nothing is known of the cells it was for.
LEMMA WriteGivenUp ==
    ASSUME IndInv, NEW s \in Slot, req[s] # Idle, req[s].op # "read", RequestDtor(s)
    PROVE  IndInv'
<1> DEFINE q == cache.subio
           w == [i \in DOMAIN q |-> IF q[i].who = s THEN [q[i] EXCEPT !.who = NoSlot] ELSE q[i]]
<1>1. /\ req' = [req EXCEPT ![s] = Idle] /\ cache' = [cache EXCEPT !.subio = w]
      /\ disk' = disk /\ truth' = truth /\ nwrite' = nwrite /\ stopping' = stopping /\ Alive
  BY DEF RequestDtor
<1>2. q \in Seq(OpRec) /\ Struct(cache) /\ Sync(cache, truth, disk) /\ PoolOk(cache) /\ Served(cache, req) /\ s # NoSlot
  BY Types, BtIoCacheAssumption DEF IndInv
<1>3. DOMAIN q = 1 .. Len(q) /\ Len(q) \in Nat /\ \A i \in 1 .. Len(q) : q[i] \in OpRec /\ OpOk(q[i])
  BY <1>2 DEF Struct
<1>4. ASSUME NEW i \in 1 .. Len(q)
      PROVE  /\ w[i] \in OpRec /\ w[i].op = q[i].op /\ w[i].range = q[i].range /\ w[i].left = q[i].left
             /\ w[i].datum = q[i].datum /\ w[i].fd = q[i].fd
             /\ w[i].who = IF q[i].who = s THEN NoSlot ELSE q[i].who
  BY <1>3 DEF OpRec
<1>5. w \in Seq(OpRec) /\ Len(w) = Len(q)
  <2>1. w \in [1 .. Len(q) -> OpRec]
    BY <1>3, <1>4
  <2> HIDE DEF w
  <2> QED BY <2>1, <1>3
<1> HIDE DEF w
<1>6. \A i \in 1 .. Len(w) : OpOk(w[i])
  <2>1. ASSUME NEW i \in 1 .. Len(q) PROVE OpOk(w[i])
    <3>1. OpOk(q[i])
      BY <1>3
    <3> QED BY <3>1, <1>4 DEF OpOk
  <2> QED BY <2>1, <1>5
<1>7. \A b \in Block : CoveredIn(w, b) = CoveredIn(q, b)
  BY <1>4, <1>5 DEF CoveredIn, Covers
<1>8. \A b \in Block : \A st, dt : BSync(q, st, dt, truth, disk, b) => BSync(w, st, dt, truth, disk, b)
  <2>1. ASSUME NEW b \in Block, NEW st, NEW dt, BSync(q, st, dt, truth, disk, b) PROVE BSync(w, st, dt, truth, disk, b)
    <3>1. \A i \in 1 .. Len(q) : ReadsGone(w[i], b) => ReadsGone(q[i], b)
      BY <1>4 DEF ReadsGone
    <3> QED BY <2>1, <3>1, <1>4, <1>5, BsSame
  <2> QED BY <2>1
<1>9. (\E i \in 1 .. Len(q) : q[i].op = "blkwr") => \E i \in 1 .. Len(w) : w[i].op = "blkwr"
  BY <1>4, <1>5
<1>10. Struct(cache') /\ Sync(cache', truth, disk) /\ PoolOk(cache') /\ cache'.subio = w
  <2>1. /\ cache' \in Cache /\ cache'.db = cache.db /\ cache'.lru = cache.lru /\ cache'.subio = w
        /\ cache'.err = cache.err /\ cache'.twice = cache.twice
    BY <1>1, <1>5, Types DEF Cache
  <2> DEFINE k2 == cache'
  <2> HIDE DEF k2
  <2>2. Struct(k2) /\ Sync(k2, truth, disk) /\ PoolOk(k2)
    BY <2>1, <1>2, <1>5, <1>6, <1>7, <1>8, <1>9, SameWrites DEF k2
  <2> QED BY <2>1, <2>2 DEF k2
<1>11. /\ \A y \in Slot : req'[y] = Idle \/ ReqOk(req'[y], y)
       /\ DOMAIN req' = Slot /\ Elsewhere(req, req', s) /\ req'[s] = Idle
  BY <1>1, Table
<1>12. Served(cache', req')
  <2>1. \A i \in 1 .. Len(q) : w[i].who # NoSlot => w[i].who = q[i].who /\ q[i].who # s /\ q[i].who \in Slot
    <3>1. \A i \in 1 .. Len(q) : q[i].who \in Slot \cup {NoSlot}
      BY <1>3 DEF OpRec
    <3> QED BY <3>1, <1>4
  <2>2. \A i, j \in 1 .. Len(w) : w[i].who = w[j].who /\ w[i].who # NoSlot => i = j
    BY <2>1, <1>2, <1>5 DEF Served
  <2>3. \A i \in 1 .. Len(w) : w[i].who # NoSlot =>
           req'[w[i].who] # Idle /\ req'[w[i].who].st = "blkrd" /\ req'[w[i].who].pos \in w[i].left
    BY <2>1, <1>2, <1>4, <1>5, <1>11 DEF Served, Elsewhere
  <2>4. ASSUME NEW x \in Slot, req'[x] # Idle, req'[x].st = "blkrd" PROVE \E i \in 1 .. Len(w) : w[i].who = x
    <3>1. x # s /\ req'[x] = req[x]
      BY <2>4, <1>11 DEF Elsewhere
    <3>2. PICK j \in 1 .. Len(q) : q[j].who = x
      BY <3>1, <2>4, <1>2 DEF Served
    <3>3. w[j].who = x
      BY <3>1, <3>2, <1>4
    <3> QED BY <3>2, <3>3, <1>5
  <2> QED BY <2>2, <2>3, <2>4, <1>10 DEF Served
<1> QED BY <1>1, <1>10, <1>11, <1>12 DEF IndInv, Alive

LEMMA RequestDtorOk == ASSUME IndInv, NEW s \in Slot, RequestDtor(s) PROVE IndInv'
<1>1. req[s] # Idle
  BY DEF RequestDtor
<1> QED BY <1>1, ReadGivenUp, WriteGivenUp

-----------------------------------------------------------------------------
(* The operations of the disk.                                               *)

\* The first operation, and the cache without it.
LEMMA DoneIs ==
    ASSUME IndInv, cache.subio # <<>>
    PROVE  /\ Op = cache.subio[1] /\ Op \in OpRec /\ OpOk(Op) /\ Op.left \subseteq Cell /\ Op.range \subseteq Cell
           /\ Done \in Cache /\ Done.db = cache.db /\ Done.lru = cache.lru /\ Done.subio = Tail(cache.subio)
           /\ Done.err = cache.err /\ Done.twice = cache.twice
           /\ Struct(Done)
           /\ Min(Op.left) \in Op.left /\ Now \subseteq Op.left /\ Min(Op.left) \in Now
           /\ 1 \in 1 .. Len(cache.subio) /\ Tail(cache.subio) \in Seq(OpRec)
<1> DEFINE q == cache.subio
<1>1. q \in Seq(OpRec) /\ cache \in Cache /\ Struct(cache)
  BY Types DEF IndInv
<1>2. /\ Tail(q) \in Seq(OpRec) /\ Head(q) = q[1] /\ 1 \in 1 .. Len(q)
      /\ \A i \in 1 .. Len(Tail(q)) : Tail(q)[i] = q[i + 1] /\ i + 1 \in 1 .. Len(q)
  BY <1>1, TailOp
<1>3. Op = q[1] /\ Op \in OpRec /\ OpOk(Op)
  BY <1>1, <1>2 DEF Op, Struct
<1>4. Op.left \subseteq Cell /\ Op.range \subseteq Cell /\ Op.left # {}
  BY <1>3 DEF OpRec, OpOk
<1> DEFINE w == Tail(q)
<1> HIDE DEF w
<1>5. w \in Seq(OpRec) /\ Done = [cache EXCEPT !.subio = w]
  BY <1>2 DEF Done, w
<1>6. /\ Done \in Cache /\ Done.db = cache.db /\ Done.lru = cache.lru /\ Done.subio = w
      /\ Done.err = cache.err /\ Done.twice = cache.twice
  BY <1>1, <1>5 DEF Cache
<1>7. Struct(Done)
  <2>1. \A i \in 1 .. Len(w) : OpOk(w[i])
    BY <1>1, <1>2 DEF Struct, w
  <2> QED BY <2>1, <1>1, <1>6 DEF Struct
<1>8. Min(Op.left) \in Op.left
  BY <1>4, CellsMin
<1>9. Now \subseteq Op.left /\ Min(Op.left) \in Now
  BY <1>8 DEF Now
<1> QED BY <1>2, <1>3, <1>4, <1>6, <1>7, <1>8, <1>9 DEF w

\* A read leaves the queue.
LEMMA ReadLeaves ==
    ASSUME IndInv, cache.subio # <<>>, Op.op = "blkrd"
    PROVE  Sync(Done, truth, disk) /\ PoolOk(Done)
<1> DEFINE q == cache.subio
<1>1. /\ q \in Seq(OpRec) /\ Struct(cache) /\ Sync(cache, truth, disk) /\ PoolOk(cache)
  BY Types DEF IndInv
<1>2. /\ q[1].op = "blkrd" /\ Done.db = cache.db /\ Done.subio = Tail(q) /\ Struct(Done)
      /\ Done.err = cache.err /\ Done.twice = cache.twice
  BY DoneIs
<1>3. \A b : ~Covers(q[1], b)
  BY <1>2 DEF Covers
<1>4. \A b : StateOf(Done, b) = StateOf(cache, b) /\ DatumOf(Done, b) = DatumOf(cache, b)
  BY <1>2 DEF StateOf, DatumOf
<1>5. \A b : CoveredIn(q, b) # {} => CoveredIn(Tail(q), b) # {}
  <2>1. ASSUME NEW b, NEW i \in CoveredIn(q, b) PROVE CoveredIn(Tail(q), b) # {}
    <3>1. i # 1
      BY <1>3 DEF CoveredIn
    <3> QED BY <3>1, <1>1, CoveredTail
  <2> QED BY <2>1
<1>6. Waited(cache) => Waited(Done)
  BY <1>2, <1>4, <1>5 DEF Waited
<1>7. \A b \in Block : BlockSync(cache, truth, disk, b) => BlockSync(Done, truth, disk, b)
  BY <1>1, <1>2, <1>3, <1>4, BsTail DEF BlockSync
<1>8. Sync(Done, truth, disk)
  BY <1>1, <1>2, <1>6, <1>7 DEF Sync
<1>9. blkwr_db(cache) # {} => blkwr_db(Done) # {}
  <2>1. DOMAIN q = 1 .. Len(q) /\ DOMAIN Done.subio = 1 .. Len(Tail(q))
    BY <1>1, <1>2, TailOp
  <2>2. \A i \in 1 .. Len(q) : i = 1 \/ (i - 1 \in 1 .. Len(Tail(q)) /\ Tail(q)[i - 1] = q[i])
    BY <1>1, TailOp
  <2>3. ASSUME NEW i \in blkwr_db(cache) PROVE blkwr_db(Done) # {}
    <3>1. i \in 1 .. Len(q) /\ q[i].op = "blkwr"
      BY <2>1 DEF blkwr_db
    <3>2. i - 1 \in DOMAIN Done.subio /\ Done.subio[i - 1] = q[i]
      BY <3>1, <2>1, <2>2, <1>2
    <3> QED BY <3>1, <3>2 DEF blkwr_db
  <2> QED BY <2>3
<1>10. PoolOk(Done)
  BY <1>1, <1>2, <1>9, SamePool
<1> QED BY <1>8, <1>10

\* An assertion ends the program.
LEMMA FailsOk == ASSUME IndInv, Alive, NEW why, Fails(why) PROVE IndInv'
<1>1. /\ cache' = cache /\ req' = req /\ disk' = disk /\ nwrite' = nwrite /\ truth' = truth /\ stopping' = stopping
      /\ stopping # "ok"
  BY DEF Fails, Alive
<1> QED BY <1>1 DEF IndInv

\* A read fails, and with it its request.
LEMMA BlkrdFailedOk == ASSUME IndInv, Alive, cache.subio # <<>>, BlkrdFailed PROVE IndInv'
<1>1. Op.op = "blkrd"
  BY DEF BlkrdFailed
<1>2. CASE Op.who = NoSlot \/ req[Op.who].op = "write"
  BY <1>2, FailsOk DEF BlkrdFailed
<1>3. CASE ~(Op.who = NoSlot \/ req[Op.who].op = "write")
  <2> DEFINE s == Op.who
  <2>1. /\ cache' = Done /\ req' = [req EXCEPT ![s] = Idle] /\ disk' = disk /\ nwrite' = nwrite /\ truth' = truth
        /\ stopping' = stopping /\ stopping # "ok"
    BY <1>3 DEF BlkrdFailed, Alive
  <2>2. s \in Slot /\ cache.subio[1].who = s
    BY <1>3, DoneIs DEF OpRec
  <2>3. /\ \A y \in Slot : req'[y] = Idle \/ ReqOk(req'[y], y)
        /\ DOMAIN req' = Slot /\ Elsewhere(req, req', s) /\ req'[s] = Idle
    BY <2>1, <2>2, Table
  <2>4. Struct(Done) /\ Done.subio = Tail(cache.subio) /\ Done.subio \in Seq(OpRec)
    BY DoneIs
  <2>5. Sync(Done, truth, disk) /\ PoolOk(Done)
    BY <1>1, ReadLeaves
  <2>6. ServedBut(Done, req, s)
    BY <2>2, <2>4, Types, ServedTail DEF IndInv
  <2>7. Served(Done, req')
    BY <2>2, <2>3, <2>4, <2>6, SameReadsRefl, ServedGoesOn
  <2> QED BY <2>1, <2>3, <2>4, <2>5, <2>7 DEF IndInv
<1> QED BY <1>2, <1>3

\* A read is through: the block enters the cache, and its request goes on.
LEMMA BlkrdDoneOk == ASSUME IndInv, Alive, cache.subio # <<>>, BlkrdDone PROVE IndInv'
<1> DEFINE s == Op.who
           b == BlockOf(Min(Op.left))
           datum == [c \in Op.left |-> IF Op.fd = "open" THEN disk[c] ELSE Garbage]
           k2 == BlockCtor(Done, b, datum)
           a0 == [At(s) EXCEPT !.k = k2, !.r.st = "zero"]
           a == launch_next_chunk(chunk_post_process(a0, b))
<1>1. /\ Op.op = "blkrd"
      /\ Op.fd = "unlinked" \/ Op.fd = "open"
      /\ IF s = NoSlot THEN Fails("use after delete")
         ELSE IF b \in DOMAIN cache.db THEN Fails("block_dolink")
         ELSE IF a.r.op = "write" /\ a.out = "blkrd" THEN Fails("tokeep")
         ELSE Yields(s, a) /\ UNCHANGED <<disk, nwrite, stopping, failure>>
  BY DEF BlkrdDone
<1> HIDE DEF a
<1>2. CASE s = NoSlot \/ b \in DOMAIN cache.db \/ (a.r.op = "write" /\ a.out = "blkrd")
  BY <1>1, <1>2, FailsOk
<1>3. CASE ~(s = NoSlot \/ b \in DOMAIN cache.db \/ (a.r.op = "write" /\ a.out = "blkrd"))
  <2>1. Yields(s, a) /\ UNCHANGED <<disk, nwrite>> /\ stopping' = stopping /\ stopping # "ok" /\ b \notin DOMAIN cache.db
    BY <1>1, <1>3 DEF Alive
  <2>2. /\ Op = cache.subio[1] /\ Op \in OpRec /\ OpOk(Op) /\ 1 \in 1 .. Len(cache.subio)
        /\ Done.db = cache.db /\ Done.subio = Tail(cache.subio) /\ Struct(Done) /\ Done.subio \in Seq(OpRec)
        /\ Done.err = cache.err /\ Done.twice = cache.twice /\ Min(Op.left) \in Op.left
    BY DoneIs
  <2>3. s \in Slot
    BY <1>3, <2>2 DEF OpRec
  <2>4. PICK x \in Block : Op.left = CellsOf(x)
    BY <1>1, <2>2 DEF OpOk
  <2>5. b \in Block /\ Op.left = CellsOf(b)
    <3>1. b = x
      BY <2>2, <2>4, BlockCells
    <3> QED BY <2>4, <3>1
  <2>6. Sync(Done, truth, disk) /\ PoolOk(Done)
    BY <1>1, ReadLeaves
  <2>7. disk \in [Cell -> Int] /\ truth \in [Cell -> Int] /\ Struct(cache) /\ Sync(cache, truth, disk) /\ Served(cache, req)
        /\ cache.subio \in Seq(OpRec)
    BY Types DEF IndInv
  <2>8. /\ datum \in [CellsOf(b) -> Int]
        /\ Op.fd = "open" => \A c \in CellsOf(b) : datum[c] = disk[c]
    <3>1. CellsOf(b) \subseteq Cell
      BY <2>5, BlockCells
    <3> HIDE DEF b
    <3> QED BY <3>1, <2>5, <2>7 DEF Garbage
  <2>9. Done.err \/ b \in Done.twice \/ \A c \in CellsOf(b) : truth[c] # NoData => datum[c] = disk[c]
    <3>1. CASE Op.fd = "open"
      BY <3>1, <2>8
    <3>2. CASE Op.fd = "unlinked" /\ ~cache.err /\ b \notin cache.twice
      <4>1. ReadsGone(cache.subio[1], b)
        BY <3>2, <1>1, <2>2, <2>5 DEF ReadsGone
      <4>2. BSync(cache.subio, StateOf(cache, b), DatumOf(cache, b), truth, disk, b)
        BY <3>2, <2>5, <2>7 DEF Sync, BlockSync
      <4>3. StateOf(cache, b) = "NONE"
        BY <2>1 DEF StateOf
      <4>4. Void(truth, b)
        BY <4>1, <4>2, <4>3, <2>2 DEF BSync
      <4> QED BY <4>4 DEF Void
    <3> QED BY <3>1, <3>2, <1>1, <2>2
  <2> HIDE DEF datum
  <2>10. Made(Done, k2, truth, disk, b, datum)
    BY <2>1, <2>2, <2>5, <2>6, <2>8, <2>9, BlockCtorOk
  <2> HIDE DEF k2
  <2>11. req[s] # Idle /\ req[s].st = "blkrd" /\ req[s].pos \in CellsOf(b)
    <3>1. cache.subio[1].who # NoSlot /\ cache.subio[1].who = s
      BY <1>3, <2>2
    <3> QED BY <3>1, <2>2, <2>5, <2>7 DEF Served
  <2>12. ReqOk(req[s], s) /\ req[s] \in Req
    BY <2>3, <2>11, Types DEF ReqOk
  <2> DEFINE r0 == [req[s] EXCEPT !.st = "zero"]
  <2>13. /\ r0 \in Req /\ r0.slot = s /\ r0.beg = req[s].beg /\ r0.end = req[s].end /\ r0.pos = req[s].pos
         /\ r0.st = "zero" /\ r0.op = req[s].op
    BY <2>12 DEF Req, ReqOk
  <2>a. At(s) \in Acc /\ At(s).r = req[s] /\ At(s).truth = truth /\ At(s).out = "next"
    BY <2>7, <2>12, Types DEF At, Acc
  <2>14. a0 = [At(s) EXCEPT !.k = k2, !.r = r0]
    BY <2>a DEF Acc
  <2> HIDE DEF r0
  <2>15. k2 \in Cache /\ Struct(k2) /\ PoolOk(k2) /\ SameReads(Done, k2) /\ Sync(k2, truth, disk) /\ b \in DOMAIN k2.db
    BY <2>10 DEF Made, Struct
  <2>16. a0 \in Acc /\ a0.k = k2 /\ a0.r = r0 /\ a0.truth = truth /\ a0.out = "next"
    BY <2>a, <2>13, <2>14, <2>15 DEF Acc
  <2> HIDE DEF a0
  <2>17. Sync(k2, Forget(truth, Common(a0, b)), disk)
    BY <2>15, SyncForget
  <2>18. Ready(a0, b, disk, Done, s)
    BY <2>11, <2>12, <2>13, <2>15, <2>16, <2>17 DEF Ready, ReqOk
  <2>19. AccOk(chunk_post_process(a0, b), disk, Done, s)
    BY <2>18, ChunkOk
  <2>20. AccOk(a, disk, Done, s)
    BY <2>2, <2>19, LaunchNextOk DEF a
  <2>21. ServedBut(Done, req, s)
    BY <2>2, <2>3, <2>7, ServedTail
  <2> HIDE DEF s
  <2> QED BY <2>1, <2>2, <2>3, <2>20, <2>21, YieldsOk
<1> QED BY <1>2, <1>3

\* The step of the disk for one piece: what was on disk stays, but for the cells of the
\* piece that are written; a file that grows is filled where nothing was.
LEMMA WrittenIs ==
    ASSUME IndInv, cache.subio # <<>>, Op.op = "blkwr", DiskWritten
    PROVE  /\ disk' \in [Cell -> Int]
           /\ \A c \in Cell : IF c \in Now THEN Op.fd = "open" => disk'[c] = Op.datum[c]
                             ELSE disk'[c] = disk[c] \/ disk[c] = NoData
           /\ \A b \in Block : Stored(Op, Now, disk, disk', b)
           /\ \A b \in Block : ~Covers(Op, b) => \A c \in CellsOf(b) : disk'[c] = disk[c] \/ disk[c] = NoData
<1>1. disk \in [Cell -> Int] /\ Op \in OpRec /\ OpOk(Op) /\ Now \subseteq Op.left /\ Op.range \subseteq Cell
  BY Types, DoneIs
<1>2. Op.left \subseteq Op.range /\ Op.datum \in [Op.range -> Int] /\ \A c \in Op.range : CellsOf(BlockOf(c)) \subseteq Op.range
  BY <1>1 DEF OpOk
<1>3. \A c \in Now : Op.datum[c] \in Int
  BY <1>1, <1>2
<1>4. CASE Op.fd = "open"
  <2>1. disk' = Written
    BY <1>4 DEF DiskWritten
  <2>2. \A c \in Cell : Written[c] \in Int
    BY <1>1, <1>3 DEF Written
  <2>3. Written \in [Cell -> Int]
    BY <2>2 DEF Written
  <2>4. \A c \in Cell : IF c \in Now THEN Written[c] = Op.datum[c] ELSE Written[c] = disk[c] \/ disk[c] = NoData
    BY DEF Written
  <2>5. \A c \in Cell : IF c \in Now THEN Op.fd = "open" => disk'[c] = Op.datum[c]
                        ELSE disk'[c] = disk[c] \/ disk[c] = NoData
    BY <2>1, <2>4
  <2>6. \A b \in Block : ~Covers(Op, b) => \A c \in CellsOf(b) : c \notin Now /\ c \in Cell
    BY <1>1, <1>2, BlockCells DEF Covers
  <2> QED BY <2>1, <2>3, <2>5, <2>6, BlockCells DEF Stored
<1>5. CASE Op.fd # "open"
  <2>1. disk' = disk
    BY <1>5 DEF DiskWritten
  <2> QED BY <2>1, <1>1, <1>5 DEF Stored
<1> QED BY <1>4, <1>5

\* A write has another piece to come.
LEMMA BlkwrNextOk == ASSUME IndInv, Alive, cache.subio # <<>>, BlkwrNext PROVE IndInv'
<1> DEFINE q == cache.subio
           o == [Op EXCEPT !.left = Op.left \ Now]
           k2 == SubioCtor(Done, o)
<1>1. /\ Op.op = "blkwr" /\ Now # Op.left /\ DiskWritten /\ cache' = k2 /\ req' = req /\ nwrite' = nwrite
      /\ truth' = truth /\ stopping' = stopping /\ stopping # "ok"
  BY DEF BlkwrNext, Alive
<1>2. /\ Op = q[1] /\ Op \in OpRec /\ OpOk(Op) /\ Op.left \subseteq Cell /\ Now \subseteq Op.left
      /\ Done \in Cache /\ Done.db = cache.db /\ Done.subio = Tail(q) /\ Tail(q) \in Seq(OpRec)
      /\ Done.err = cache.err /\ Done.twice = cache.twice /\ Struct(Done)
  BY DoneIs
<1>3. /\ o \in OpRec /\ o.left = Op.left \ Now /\ o.left # {} /\ o.op = "blkwr" /\ o.range = Op.range
      /\ o.datum = Op.datum /\ o.who = NoSlot
  <2>1. Op.left \ Now # {} /\ Op.left \ Now \in SUBSET Cell /\ Op.who = NoSlot
    BY <1>1, <1>2 DEF OpOk
  <2> DEFINE l == Op.left \ Now
  <2>2. o = [Op EXCEPT !.left = l] /\ l \in SUBSET Cell /\ l # {}
    BY <2>1
  <2> HIDE DEF l, o
  <2>3. /\ o \in OpRec /\ o.left = l /\ o.op = Op.op /\ o.range = Op.range /\ o.datum = Op.datum /\ o.who = Op.who
    BY <2>2, <1>2 DEF OpRec
  <2> QED BY <2>1, <2>2, <2>3, <1>1 DEF l
<1> HIDE DEF o
<1>4. PICK p : Reopened(o, p) /\ Joins(Done, k2, p)
  BY <1>2, <1>3, SubioCtorIs
<1> HIDE DEF k2
<1>5. /\ p \in OpRec /\ p.op = "blkwr" /\ p.fd = "open" /\ p.left = Op.left \ Now /\ p.range = Op.range
      /\ p.datum = Op.datum /\ p.who = NoSlot
  BY <1>3, <1>4 DEF Reopened
<1>6. OpOk(p)
  BY <1>1, <1>2, <1>3, <1>5 DEF OpOk
<1>7. Struct(k2)
  BY <1>2, <1>4, <1>5, <1>6, JoinsStruct
<1>8. /\ k2.db = cache.db /\ k2.err = cache.err /\ k2.twice = cache.twice /\ k2.subio = Append(Tail(q), p)
  BY <1>2, <1>4 DEF Joins
<1>9. \A b : StateOf(k2, b) = StateOf(cache, b) /\ DatumOf(k2, b) = DatumOf(cache, b)
  BY <1>8 DEF StateOf, DatumOf
<1>10. q \in Seq(OpRec) /\ Sync(cache, truth, disk) /\ Served(cache, req)
  BY Types DEF IndInv
<1>11. \A b : Covers(p, b) <=> Covers(q[1], b)
  BY <1>1, <1>2, <1>5 DEF Covers
<1>12. ASSUME NEW b, CoveredIn(q, b) # {} PROVE CoveredIn(k2.subio, b) # {}
  <2>1. CoveredIn(k2.subio, b) = CoveredIn(Tail(q), b) \cup (IF Covers(p, b) THEN {Len(Tail(q)) + 1} ELSE {})
    BY <1>2, <1>5, <1>8, CoveredAppend
  <2>2. PICK i : i \in CoveredIn(q, b)
    BY <1>12
  <2>3. i = 1 \/ i - 1 \in CoveredIn(Tail(q), b)
    BY <2>2, <1>10, CoveredTail
  <2>4. i = 1 => Covers(p, b)
    BY <2>2, <1>11 DEF CoveredIn
  <2> QED BY <2>1, <2>3, <2>4
<1>13. Waited(cache) => Waited(k2)
  BY <1>9, <1>12 DEF Waited
<1>14. /\ disk' \in [Cell -> Int]
       /\ \A b \in Block : Stored(Op, Now, disk, disk', b)
       /\ \A b \in Block : ~Covers(Op, b) => \A c \in CellsOf(b) : disk'[c] = disk[c] \/ disk[c] = NoData
  BY <1>1, WrittenIs
<1> DEFINE d2 == disk'
<1> HIDE DEF d2
<1>15. ASSUME NEW b \in Block, BlockSync(cache, truth, disk, b) PROVE BlockSync(k2, truth, d2, b)
  <2> DEFINE st == StateOf(cache, b)
             dt == DatumOf(cache, b)
  <2>1. BSync(q, st, dt, truth, disk, b)
    BY <1>15 DEF BlockSync
  <2> HIDE DEF st, dt
  <2>2. CASE Covers(q[1], b)
    <3>1. \A c \in Now : c \in q[1].left /\ PieceOf(c) = PieceOf(Min(q[1].left))
      BY <1>2 DEF Now
    <3>2. Stored(q[1], Now, disk, d2, b)
      BY <1>2, <1>14 DEF d2
    <3>3. p.range = q[1].range /\ p.left = q[1].left \ Now /\ p.datum = q[1].datum
      BY <1>2, <1>5
    <3> DEFINE now == Now
    <3> HIDE DEF now
    <3>4. BSync(Append(Tail(q), p), st, dt, truth, d2, b)
      BY <2>1, <2>2, <3>1, <3>2, <3>3, <1>5, <1>10, BsNext
    <3> QED BY <3>4, <1>8, <1>9 DEF BlockSync, st, dt
  <2>3. CASE ~Covers(q[1], b)
    <3>1. BSync(Tail(q), st, dt, truth, disk, b)
      BY <2>1, <2>3, <1>10, BsTail
    <3>2. ~Covers(p, b) /\ ~ReadsGone(p, b)
      BY <2>3, <1>5, <1>11 DEF ReadsGone
    <3>3. BSync(Append(Tail(q), p), st, dt, truth, disk, b)
      BY <3>1, <3>2, <1>2, <1>5, BsAppendOther
    <3>4. \A c \in CellsOf(b) : d2[c] = disk[c] \/ disk[c] = NoData
      BY <2>3, <1>2, <1>14 DEF d2
    <3>5. BSync(Append(Tail(q), p), st, dt, truth, d2, b)
      BY <3>3, <3>4, BsDisk
    <3> QED BY <3>5, <1>8, <1>9 DEF BlockSync, st, dt
  <2> QED BY <2>2, <2>3
<1>16. Sync(k2, truth, d2)
  BY <1>8, <1>10, <1>13, <1>15 DEF Sync
<1>17. PoolOk(k2)
  <2>1. Len(Tail(q)) + 1 \in DOMAIN k2.subio /\ k2.subio[Len(Tail(q)) + 1] = p
    BY <1>2, <1>5, <1>8
  <2> QED BY <2>1, <1>5 DEF PoolOk, blkwr_db
<1>18. Served(k2, req)
  <2>1. Served(Done, req)
    BY <1>1, <1>2, <1>10, ServedDrop DEF OpOk
  <2>2. SameReads(Done, k2)
    <3> DEFINE v == Tail(q)
    <3>1. /\ Len(v) \in Nat /\ Len(k2.subio) = Len(v) + 1
          /\ \A i \in 1 .. Len(v) : k2.subio[i] = v[i]
          /\ k2.subio[Len(v) + 1] = p
          /\ \A i \in 1 .. Len(k2.subio) : i \in 1 .. Len(v) \/ i = Len(v) + 1
      BY <1>2, <1>5, <1>8, AppendOp
    <3>2. Done.subio = v
      BY <1>2
    <3> HIDE DEF v
    <3> QED BY <3>1, <3>2, <1>5 DEF SameReads
  <2> QED BY <2>1, <2>2, <1>2, <1>7, ServedMore DEF Struct, Cache
<1> QED BY <1>1, <1>7, <1>14, <1>16, <1>17, <1>18 DEF IndInv, d2

\* The completion of a write, whatever it was.
LEMMA CompletionOk ==
    ASSUME IndInv, Alive, cache.subio # <<>>, Op.op = "blkwr", NEW k, Struct(k), Sync(k, truth, disk'),
           k.subio = Tail(cache.subio), disk' \in [Cell -> Int], BlkwrCompletion(k)
    PROVE  IndInv'
<1> DEFINE k1 == shrink_if_needed(k)
           last == stopping = "running" /\ blkwr_db(k1) = {}
           clean == \A b \in DOMAIN k1.db : k1.db[b].state = "CLEAN"
<1>1. /\ cache' = k1
      /\ stopping' = IF ~last THEN stopping ELSE IF k1.err THEN "err" ELSE "ok"
      /\ failure' = IF last /\ ~k1.err /\ ~clean THEN "stopping clean" ELSE "none"
      /\ req' = req /\ nwrite' = nwrite /\ truth' = truth
  BY DEF BlkwrCompletion
<1>2. AfterShrink(k, k1, truth, disk')
  BY ShrinkOk
<1> HIDE DEF k1
<1>3. Struct(k1) /\ Sync(k1, truth, disk') /\ PoolOk(k1) /\ SameReads(k, k1)
  BY <1>2 DEF AfterShrink
<1>4. Served(k1, req)
  <2>1. Op = cache.subio[1] /\ OpOk(Op) /\ Tail(cache.subio) \in Seq(OpRec)
    BY DoneIs
  <2>2. Served(k, req)
    BY <2>1, Types, ServedDrop DEF OpOk, IndInv
  <2> QED BY <2>1, <2>2, <1>3, ServedMore DEF Struct, Cache
<1>5. stopping # "ok"
  BY DEF Alive
<1>6. stopping' = "ok" => last /\ ~k1.err
  BY <1>1, <1>5
<1>7. stopping' = "ok" /\ failure' = "none" => ~k1.err /\ clean
  BY <1>1, <1>6
<1> HIDE DEF last
<1> QED BY <1>1, <1>3, <1>4, <1>7 DEF IndInv

\* A write fails, after which no other is accepted.
LEMMA BlkwrFailedOk == ASSUME IndInv, Alive, cache.subio # <<>>, BlkwrFailed PROVE IndInv'
<1> DEFINE k == [Done EXCEPT !.err = TRUE]
<1>1. Op.op = "blkwr" /\ disk' = disk /\ BlkwrCompletion(k)
  BY DEF BlkwrFailed
<1>2. Done \in Cache /\ Struct(Done) /\ Done.subio = Tail(cache.subio)
  BY DoneIs
<1>3. /\ k \in Cache /\ k.db = Done.db /\ k.lru = Done.lru /\ k.subio = Done.subio /\ k.err
  BY <1>2 DEF Cache
<1> HIDE DEF k
<1>4. Struct(k) /\ Sync(k, truth, disk')
  BY <1>2, <1>3 DEF Struct, Sync
<1> QED BY <1>1, <1>2, <1>3, <1>4, CompletionOk, Types

\* A write is through: its blocks are CLEAN unless they were written meanwhile.
LEMMA BlkwrDoneOk == ASSUME IndInv, Alive, cache.subio # <<>>, BlkwrDone PROVE IndInv'
<1> DEFINE q == cache.subio
           included == {b \in DOMAIN cache.db : CellsOf(b) \subseteq Op.range}
           db2 == [b \in DOMAIN Done.db |-> IF b \in included /\ Done.db[b].state = "CLEANING"
                                            THEN [Done.db[b] EXCEPT !.state = "CLEAN"] ELSE Done.db[b]]
           k == [Done EXCEPT !.db = db2]
<1>1. /\ Op.op = "blkwr" /\ Now = Op.left
      /\ IF \E b \in included : cache.db[b].state = "CLEAN" THEN Fails("is_dirty")
         ELSE DiskWritten /\ BlkwrCompletion(k)
  BY DEF BlkwrDone
<1>2. CASE \E b \in included : cache.db[b].state = "CLEAN"
  BY <1>1, <1>2, FailsOk
<1>3. CASE ~\E b \in included : cache.db[b].state = "CLEAN"
  <2>1. DiskWritten /\ BlkwrCompletion(k)
    BY <1>1, <1>3
  <2>2. /\ Op = q[1] /\ Op \in OpRec /\ OpOk(Op)
        /\ Done \in Cache /\ Done.db = cache.db /\ Done.lru = cache.lru /\ Done.subio = Tail(q)
        /\ Tail(q) \in Seq(OpRec)
        /\ Done.err = cache.err /\ Done.twice = cache.twice /\ Struct(Done)
    BY DoneIs
  <2>3. DOMAIN cache.db \subseteq Block /\ \A b \in DOMAIN cache.db : cache.db[b] \in Entry
    BY <2>2, DbIs DEF Cache
  <2>4. /\ db2 \in [DOMAIN cache.db -> Entry]
        /\ \A b \in DOMAIN cache.db :
              /\ db2[b].datum = cache.db[b].datum
              /\ db2[b].state = IF b \in included /\ cache.db[b].state = "CLEANING" THEN "CLEAN" ELSE cache.db[b].state
    <3>1. \A b \in DOMAIN cache.db : /\ [cache.db[b] EXCEPT !.state = "CLEAN"] \in Entry
                                     /\ [cache.db[b] EXCEPT !.state = "CLEAN"].state = "CLEAN"
                                     /\ [cache.db[b] EXCEPT !.state = "CLEAN"].datum = cache.db[b].datum
      BY <2>3 DEF Entry, BlockState
    <3> HIDE DEF included
    <3> QED BY <2>2, <2>3, <3>1
  <2> HIDE DEF db2
  <2>5. db2 \in Db /\ DOMAIN db2 = DOMAIN cache.db
    BY <2>3, <2>4, DbType
  <2>6. /\ k \in Cache /\ k.db = db2 /\ k.lru = cache.lru /\ k.subio = Tail(q) /\ k.err = cache.err /\ k.twice = cache.twice
    BY <2>2, <2>5 DEF Cache
  <2> HIDE DEF k
  <2>7. Struct(k)
    BY <2>2, <2>4, <2>5, <2>6 DEF Struct
  <2>8. /\ q \in Seq(OpRec) /\ Sync(cache, truth, disk) /\ Struct(cache)
    BY Types DEF IndInv
  <2>9. \A b \in Block : Covers(q[1], b) <=> CellsOf(b) \subseteq Op.range
    BY <1>1, <2>2 DEF Covers
  <2>10. \A b \in Block :
           /\ DatumOf(k, b) = DatumOf(cache, b)
           /\ StateOf(k, b) = IF Covers(q[1], b) /\ StateOf(cache, b) = "CLEANING" THEN "CLEAN" ELSE StateOf(cache, b)
    BY <2>4, <2>5, <2>6, <2>9 DEF StateOf, DatumOf
  <2>11. \A b \in Block : Covers(q[1], b) => StateOf(cache, b) # "CLEAN"
    BY <1>3, <2>9 DEF StateOf
  <2>12. ASSUME Waited(cache) PROVE Waited(k)
    <3>1. ASSUME NEW b \in Block, StateOf(k, b) = "CLEANING" PROVE CoveredIn(Tail(q), b) # {}
      <4>1. StateOf(cache, b) = "CLEANING" /\ ~Covers(q[1], b)
        BY <3>1, <2>10
      <4>2. PICK i : i \in CoveredIn(q, b)
        BY <4>1, <2>12 DEF Waited
      <4>3. i # 1
        BY <4>1, <4>2 DEF CoveredIn
      <4> QED BY <4>2, <4>3, <2>8, CoveredTail
    <3> QED BY <3>1, <2>6 DEF Waited
  <2>13. /\ disk' \in [Cell -> Int]
         /\ \A b \in Block : Stored(Op, Now, disk, disk', b)
         /\ \A b \in Block : ~Covers(Op, b) => \A c \in CellsOf(b) : disk'[c] = disk[c] \/ disk[c] = NoData
    BY <1>1, <2>1, WrittenIs
  <2> DEFINE d2 == disk'
  <2> HIDE DEF d2
  <2>14. ASSUME NEW b \in Block, BlockSync(cache, truth, disk, b) PROVE BlockSync(k, truth, d2, b)
    <3> DEFINE st == StateOf(cache, b)
               dt == DatumOf(cache, b)
    <3>1. BSync(q, st, dt, truth, disk, b)
      BY <2>14 DEF BlockSync
    <3>2. CASE Covers(q[1], b)
      <4>1. \A c \in q[1].left : PieceOf(c) = PieceOf(Min(q[1].left))
        BY <1>1, <2>2 DEF Now
      <4>2. Stored(q[1], q[1].left, disk, d2, b)
        BY <1>1, <2>2, <2>13 DEF d2
      <4>3. st # "CLEAN"
        BY <3>2, <2>11
      <4> HIDE DEF st, dt
      <4>4. BSync(Tail(q), IF st = "CLEANING" THEN "CLEAN" ELSE st, dt, truth, d2, b)
        BY <3>1, <3>2, <4>1, <4>2, <4>3, <2>8, BsDone
      <4>5. StateOf(k, b) = (IF st = "CLEANING" THEN "CLEAN" ELSE st) /\ DatumOf(k, b) = dt
        BY <3>2, <2>10 DEF st, dt
      <4> QED BY <4>4, <4>5, <2>6 DEF BlockSync
    <3>3. CASE ~Covers(q[1], b)
      <4> HIDE DEF st, dt
      <4>1. BSync(Tail(q), st, dt, truth, disk, b)
        BY <3>1, <3>3, <2>8, BsTail
      <4>2. \A c \in CellsOf(b) : d2[c] = disk[c] \/ disk[c] = NoData
        BY <3>3, <2>2, <2>13 DEF d2
      <4>3. BSync(Tail(q), st, dt, truth, d2, b)
        BY <4>1, <4>2, BsDisk
      <4>4. StateOf(k, b) = st /\ DatumOf(k, b) = dt
        BY <3>3, <2>10 DEF st, dt
      <4> QED BY <4>3, <4>4, <2>6 DEF BlockSync
    <3> QED BY <3>2, <3>3
  <2>15. Sync(k, truth, disk')
    <3>1. Sync(k, truth, d2)
      BY <2>6, <2>8, <2>12, <2>14 DEF Sync
    <3> QED BY <3>1 DEF d2
  <2> QED BY <1>1, <2>1, <2>6, <2>7, <2>13, <2>15, CompletionOk
<1> QED BY <1>2, <1>3

\* A step of the disk keeps the invariant.
LEMMA SubioStepOk == ASSUME IndInv, SubioStep PROVE IndInv'
<1>1. Alive /\ cache.subio # <<>> /\ (BlkrdFailed \/ BlkrdDone \/ BlkwrNext \/ BlkwrDone \/ BlkwrFailed)
  BY DEF SubioStep
<1> QED BY <1>1, BlkrdFailedOk, BlkrdDoneOk, BlkwrNextOk, BlkwrDoneOk, BlkwrFailedOk
-----------------------------------------------------------------------------
(* The cleaning timer, the removal of a piece, and the end.                  *)

\* All DIRTY blocks are on their way to the disk.
LEMMA CleaningTimeoutOk == ASSUME IndInv, CleaningTimeout PROVE IndInv'
<1> DEFINE k2 == start_blkwr_all(cache)
<1>1. /\ cache' = k2 /\ req' = req /\ disk' = disk /\ nwrite' = nwrite /\ truth' = truth /\ stopping' = stopping
      /\ stopping # "ok"
  BY DEF CleaningTimeout, Alive
<1>2. Flushed(cache, cache, truth, disk)
  BY Types, SameReadsRefl DEF Flushed, IndInv
<1>3. Flushed(cache, k2, truth, disk)
  BY <1>2, StartAllOk
<1> HIDE DEF k2
<1>4. Served(k2, req)
  BY <1>3, Types, ServedMore DEF Flushed, Struct, Cache, IndInv
<1> QED BY <1>1, <1>3, <1>4 DEF Flushed, IndInv

\* A piece is removed: its blocks leave the cache, and operations under way have a file
\* that is gone.
LEMMA RemovePieceOk == ASSUME IndInv, NEW p \in Piece, RemovePiece(p) PROVE IndInv'
<1> DEFINE q == cache.subio
           cells == {c \in Cell : PieceOf(c) = p}
           gone == {b \in Block : CellsOf(b) \subseteq cells}
           w == [i \in DOMAIN q |-> IF PieceOf(Min(q[i].left)) = p /\ q[i].fd = "open"
                                    THEN [q[i] EXCEPT !.fd = "unlinked"] ELSE q[i]]
           lru2 == Without(cache.lru, gone)
           db2 == Restrict(cache.db, DOMAIN cache.db \ gone)
           f2 == cache.files \ {p}
           k2 == [cache EXCEPT !.lru = lru2, !.db = db2, !.files = f2, !.subio = w]
<1>1. /\ Struct(cache) /\ Sync(cache, truth, disk) /\ PoolOk(cache) /\ Served(cache, req)
      /\ cache \in Cache /\ q \in Seq(OpRec) /\ disk \in [Cell -> Int] /\ truth \in [Cell -> Int]
  BY Types DEF IndInv
<1>2. /\ cache' = k2 /\ req' = req /\ nwrite' = nwrite /\ stopping' = stopping /\ stopping # "ok"
      /\ disk' = [c \in Cell |-> IF c \in cells THEN NoData ELSE disk[c]]
      /\ truth' = [c \in Cell |-> IF c \in cells THEN NoData ELSE truth[c]]
  BY <1>1 DEF RemovePiece, BlockRemove, Alive, Cache
<1> DEFINE d2 == [c \in Cell |-> IF c \in cells THEN NoData ELSE disk[c]]
           t2 == [c \in Cell |-> IF c \in cells THEN NoData ELSE truth[c]]
<1>3. d2 \in [Cell -> Int] /\ t2 \in [Cell -> Int]
  BY <1>1 DEF NoData
<1>4. \A b \in Block : /\ b \in gone => \A c \in CellsOf(b) : t2[c] = NoData
                       /\ b \notin gone => \A c \in CellsOf(b) : PieceOf(c) # p /\ t2[c] = truth[c] /\ d2[c] = disk[c]
  <2>1. ASSUME NEW b \in Block, b \notin gone, NEW c \in CellsOf(b), PieceOf(c) = p PROVE FALSE
    <3>1. CellsOf(b) \subseteq Cell /\ \A e \in CellsOf(b) : BlockOf(e) = b
      BY BlockCells
    <3>2. \A e \in CellsOf(b) : PieceOf(e) = p
      BY <3>1, <2>1, SamePiece
    <3> QED BY <3>1, <3>2, <2>1
  <2>2. \A b \in Block : \A c \in CellsOf(b) : c \in Cell
    BY BlockCells
  <2> QED BY <2>1, <2>2
<1> HIDE DEF d2, t2, gone
<1>5. DOMAIN q = 1 .. Len(q) /\ Len(q) \in Nat /\ \A i \in 1 .. Len(q) : q[i] \in OpRec /\ OpOk(q[i])
  BY <1>1 DEF Struct
<1>6. ASSUME NEW i \in 1 .. Len(q)
      PROVE  /\ w[i] \in OpRec /\ w[i].op = q[i].op /\ w[i].range = q[i].range /\ w[i].left = q[i].left
             /\ w[i].datum = q[i].datum /\ w[i].who = q[i].who
             /\ w[i].fd = q[i].fd \/ PieceOf(Min(q[i].left)) = p
  BY <1>5 DEF OpRec
<1>7. w \in Seq(OpRec) /\ Len(w) = Len(q)
  <2>1. w \in [1 .. Len(q) -> OpRec]
    BY <1>5, <1>6
  <2> HIDE DEF w
  <2> QED BY <2>1, <1>5
<1> HIDE DEF w
<1>8. \A i \in 1 .. Len(w) : OpOk(w[i])
  <2>1. ASSUME NEW i \in 1 .. Len(q) PROVE OpOk(w[i])
    <3>1. OpOk(q[i])
      BY <1>5
    <3> QED BY <3>1, <1>6 DEF OpOk
  <2> QED BY <2>1, <1>7
<1>9. \A b \in Block : CoveredIn(w, b) = CoveredIn(q, b)
  BY <1>6, <1>7 DEF CoveredIn, Covers
<1>10. cache.lru \in Seq(Block) /\ Injective(cache.lru) /\ DOMAIN cache.db = ToSet(cache.lru)
  BY <1>1 DEF Struct, Cache
<1>11. lru2 \in Seq(Block) /\ Injective(lru2) /\ ToSet(lru2) = ToSet(cache.lru) \ gone
  BY <1>10, WithoutBlocks
<1> HIDE DEF lru2
<1>12. db2 \in Db /\ DOMAIN db2 = DOMAIN cache.db \ gone /\ \A b \in DOMAIN db2 : db2[b] = cache.db[b]
  <2> DEFINE F == DOMAIN cache.db \ gone
  <2>1. DOMAIN cache.db \subseteq Block /\ \A b \in DOMAIN cache.db : cache.db[b] \in Entry
    BY DbIs, <1>1 DEF Cache
  <2>2. F \in SUBSET Block /\ F \subseteq DOMAIN cache.db
    BY <2>1
  <2> HIDE DEF F
  <2>3. db2 = Restrict(cache.db, F)
    BY DEF F
  <2> HIDE DEF db2
  <2>4. db2 \in [F -> Entry] /\ \A b \in F : db2[b] = cache.db[b]
    BY <2>1, <2>2, <2>3 DEF Restrict
  <2> QED BY <2>2, <2>4, DbType DEF F
<1> HIDE DEF db2
<1>13. f2 \in SUBSET Piece
  BY <1>1 DEF Cache
<1> HIDE DEF f2
<1>14. /\ k2 \in Cache /\ k2.db = db2 /\ k2.lru = lru2 /\ k2.subio = w /\ k2.err = cache.err /\ k2.twice = cache.twice
  BY <1>1, <1>7, <1>11, <1>12, <1>13 DEF Cache
<1> HIDE DEF k2
<1>15. Struct(k2)
  <2>1. \A b \in DOMAIN k2.db : k2.db[b].datum \in [CellsOf(b) -> Int]
    BY <1>1, <1>12, <1>14 DEF Struct
  <2> QED BY <2>1, <1>8, <1>10, <1>11, <1>12, <1>14 DEF Struct
<1>16. \A b \in Block :
          IF b \in gone THEN StateOf(k2, b) = "NONE"
          ELSE StateOf(k2, b) = StateOf(cache, b) /\ DatumOf(k2, b) = DatumOf(cache, b)
  BY <1>12, <1>14 DEF StateOf, DatumOf
<1>17. Waited(cache) => Waited(k2)
  BY <1>9, <1>14, <1>16 DEF Waited
<1>18. ASSUME NEW b \in Block, BlockSync(cache, truth, disk, b) PROVE BlockSync(k2, t2, d2, b)
  <2>1. BSync(q, StateOf(cache, b), DatumOf(cache, b), truth, disk, b)
    BY <1>18 DEF BlockSync
  <2>2. CASE b \in gone
    <3>1. Void(t2, b)
      BY <2>2, <1>4 DEF Void
    <3>2. \A i, j \in CoveredIn(w, b) : i = j
      BY <2>1, <1>9 DEF BSync
    <3>3. BSync(w, "NONE", DatumOf(k2, b), t2, d2, b)
      BY <3>1, <3>2 DEF BSync, Void
    <3> QED BY <3>3, <2>2, <1>14, <1>16 DEF BlockSync
  <2>3. CASE b \notin gone
    <3> DEFINE st == StateOf(cache, b)
               dt == DatumOf(cache, b)
    <3> HIDE DEF st, dt
    <3>1. \A c \in CellsOf(b) : PieceOf(c) # p /\ t2[c] = truth[c] /\ d2[c] = disk[c]
      BY <2>3, <1>4
    <3>2. BSync(q, st, dt, t2, disk, b)
      BY <2>1, <3>1, BsForget DEF st, dt
    <3>3. BSync(q, st, dt, t2, d2, b)
      BY <3>2, <3>1, BsDisk
    <3>4. ASSUME NEW i \in 1 .. Len(q), ReadsGone(w[i], b) PROVE ReadsGone(q[i], b)
      <4>1. q[i].left = CellsOf(b) /\ q[i].op = "blkrd"
        BY <3>4, <1>6 DEF ReadsGone
      <4>2. Min(CellsOf(b)) \in CellsOf(b)
        BY BlockCells, CellsMin
      <4>3. w[i].fd = q[i].fd
        BY <4>1, <4>2, <3>1, <1>6
      <4> QED BY <4>1, <4>3, <3>4 DEF ReadsGone
    <3>5. \A i \in 1 .. Len(q) : w[i].fd = q[i].fd \/ \A c \in CellsOf(b) : PieceOf(c) # PieceOf(Min(q[i].left))
      BY <3>1, <1>6
    <3>6. BSync(w, st, dt, t2, d2, b)
      BY <3>3, <3>4, <3>5, <1>6, <1>7, BsSame
    <3> QED BY <3>6, <2>3, <1>14, <1>16 DEF BlockSync, st, dt
  <2> QED BY <2>2, <2>3
<1>19. Sync(k2, t2, d2)
  BY <1>1, <1>14, <1>17, <1>18 DEF Sync
<1>20. PoolOk(k2)
  <2>1. blkwr_db(cache) # {} => blkwr_db(k2) # {}
    <3>1. DOMAIN k2.subio = 1 .. Len(q)
      BY <1>7, <1>14
    <3> QED BY <3>1, <1>5, <1>6, <1>14 DEF blkwr_db
  <2> QED BY <2>1, <1>1, <1>12, <1>14, <1>15, SamePool
<1>21. Served(k2, req)
  BY <1>1, <1>6, <1>7, <1>14, ServedAlike
<1>22. disk' = d2 /\ truth' = t2
  BY <1>2 DEF d2, t2
<1> QED BY <1>2, <1>3, <1>15, <1>19, <1>20, <1>21, <1>22 DEF IndInv

\* The end of the swarm.
LEMMA StoppingCtorOk == ASSUME IndInv, StoppingCtor PROVE IndInv'
<1>1. /\ cache' = cache /\ req' = req /\ disk' = disk /\ nwrite' = nwrite /\ truth' = truth /\ stopping' # "ok"
  BY DEF StoppingCtor
<1> QED BY <1>1 DEF IndInv

\* Initially.
LEMMA InitOk == Init => IndInv
<1> SUFFICES ASSUME Init PROVE IndInv
  OBVIOUS
<1>1. /\ cache = [db |-> <<>>, lru |-> <<>>, subio |-> <<>>, files |-> {}, err |-> FALSE, twice |-> {}]
      /\ req = [s \in Slot |-> Idle] /\ disk = [c \in Cell |-> NoData] /\ truth = [c \in Cell |-> NoData]
      /\ nwrite = 0 /\ stopping = "none"
  BY DEF Init
<1>2. cache.db = <<>> /\ cache.lru = <<>> /\ cache.subio = <<>> /\ cache.files = {} /\ cache.err = FALSE /\ cache.twice = {}
  BY <1>1
<1>3. <<>> \in Db /\ DOMAIN <<>> = {}
  <2>1. <<>> \in [{} -> Entry]
    OBVIOUS
  <2> QED BY <2>1, DbType
<1>4. cache \in Cache
  BY <1>1, <1>3 DEF Cache
<1>5. ToSet(<<>>) = {} /\ Injective(<<>>)
  BY DEF ToSet, Injective
<1>6. Struct(cache)
  BY <1>2, <1>3, <1>4, <1>5 DEF Struct
<1>7. \A b \in Block : StateOf(cache, b) = "NONE" /\ CoveredIn(cache.subio, b) = {} /\ \A c \in CellsOf(b) : truth[c] = NoData
  BY <1>1, <1>2, <1>3, BlockCells DEF StateOf, CoveredIn
<1>8. Sync(cache, truth, disk)
  <2>1. Len(cache.subio) = 0
    BY <1>2
  <2>2. \A b \in Block : BlockSync(cache, truth, disk, b)
    BY <2>1, <1>7 DEF BlockSync, BSync
  <2> QED BY <2>2, <1>7 DEF Sync, Waited
<1>9. PoolOk(cache)
  <2>1. PoolCurlen(cache, Len(cache.lru)) = Held(ToSet(cache.lru))
    BY <1>6, PoolLen DEF Struct, Cache
  <2>2. ToSet(cache.lru) = {}
    BY <1>2, <1>5
  <2>3. PoolCurlen(cache, Len(cache.lru)) = 0
    BY <2>1, <2>2, HeldIs, Zenon
  <2>4. PoolMaxlen \in Nat
    BY BtIoCacheAssumption
  <2> QED BY <2>3, <2>4 DEF PoolOk
<1>10. Served(cache, req)
  BY <1>1, <1>2 DEF Served
<1> QED BY <1>1, <1>6, <1>8, <1>9, <1>10 DEF IndInv, NoData

\* Every step keeps the invariant.
LEMMA NextOk == ASSUME IndInv, [Next]_vars PROVE IndInv'
<1>1. CASE UNCHANGED vars
  BY <1>1 DEF vars, IndInv
<1>2. ASSUME NEW s \in Slot, NEW r \in Ranges, ReadCtor(s, r) \/ WriteCtor(s, r) PROVE IndInv'
  BY <1>2, CtorOk
<1>3. ASSUME NEW s \in Slot, ZerotimerExpire(s) PROVE IndInv'
  BY <1>3, ZerotimerExpireOk
<1>4. ASSUME NEW s \in Slot, RequestDtor(s) PROVE IndInv'
  BY <1>4, RequestDtorOk
<1>5. CASE SubioStep
  BY <1>5, SubioStepOk
<1>6. CASE CleaningTimeout
  BY <1>6, CleaningTimeoutOk
<1>7. ASSUME NEW p \in Piece, RemovePiece(p) PROVE IndInv'
  BY <1>7, RemovePieceOk
<1>8. CASE StoppingCtor
  BY <1>8, StoppingCtorOk
<1> QED BY <1>1, <1>2, <1>3, <1>4, <1>5, <1>6, <1>7, <1>8 DEF Next

-----------------------------------------------------------------------------
(* The results.                                                              *)

\* The inductive invariant of the disk cache, for every length of the swarm, of its
\* blocks and pieces, every size of the pool and number of requests.
THEOREM Invariance == Spec => []IndInv
<1>1. Init => IndInv
  BY InitOk
<1>2. IndInv /\ [Next]_vars => IndInv'
  BY NextOk
<1> QED BY <1>1, <1>2, PTL DEF Spec

\* WaitIsServed for every value of the constants: a request that waits for a block has
\* exactly one bt_io_cache_blkrd_t under way, for the block it is at, and no read comes
\* back for a request that does not wait (bt_io_cache_t::neoip_bt_io_cache_blkrd_cb).
THEOREM WaitIsServedHolds == Spec => []WaitIsServed
<1>1. IndInv => WaitIsServed
  <2>1. SUFFICES ASSUME IndInv, NEW s \in Slot
                 PROVE  LET mine == {i \in DOMAIN cache.subio : cache.subio[i].who = s}
                        IN  IF req[s] # Idle /\ req[s].st = "blkrd"
                            THEN \E i \in mine : mine = {i} /\ req[s].pos \in cache.subio[i].left
                            ELSE mine = {}
    BY DEF WaitIsServed
  <2>2. DOMAIN cache.subio = 1 .. Len(cache.subio) /\ Served(cache, req) /\ s # NoSlot
    <3>1. cache.subio \in Seq(OpRec) /\ Served(cache, req)
      BY <2>1, Types DEF IndInv
    <3> QED BY <3>1, BtIoCacheAssumption
  <2> DEFINE mine == {i \in DOMAIN cache.subio : cache.subio[i].who = s}
  <2>3. \A i, j \in mine : i = j
    BY <2>2 DEF Served
  <2>4. \A i \in mine : req[s] # Idle /\ req[s].st = "blkrd" /\ req[s].pos \in cache.subio[i].left
    BY <2>2 DEF Served
  <2>5. req[s] # Idle /\ req[s].st = "blkrd" => mine # {}
    BY <2>2 DEF Served
  <2> HIDE DEF mine
  <2>6. IF req[s] # Idle /\ req[s].st = "blkrd"
        THEN \E i \in mine : mine = {i} /\ req[s].pos \in cache.subio[i].left ELSE mine = {}
    BY <2>3, <2>4, <2>5
  <2> QED BY <2>6 DEF mine
<1> QED BY <1>1, Invariance, PTL

\* PoolConsistent for every value of the constants: block_db and block_lru hold the same
\* blocks, and a pool over its limit has a write under way whose end shrinks it
\* (bt_io_cache_pool_t::shrink_if_needed).
THEOREM PoolConsistentHolds == Spec => []PoolConsistent
<1>1. IndInv => PoolConsistent
  <2> SUFFICES ASSUME IndInv PROVE PoolConsistent
    OBVIOUS
  <2> DEFINE q == cache.lru
  <2>1. q \in Seq(Block) /\ Injective(q) /\ DOMAIN cache.db = ToSet(q) /\ PoolOk(cache) /\ Len(q) \in Nat
    BY DEF IndInv, Struct, Cache
  <2>2. Len(q) = Cardinality(ToSet(q))
    <3>1. IsFiniteSet(1 .. Len(q)) /\ Cardinality(1 .. Len(q)) = Len(q)
      <4> DEFINE n == Len(q)
      <4>1. n \in Nat /\ n \in Int /\ 1 \in Int
        BY <2>1
      <4> HIDE DEF n
      <4>2. IsFiniteSet(1 .. n) /\ Cardinality(1 .. n) = IF 1 > n THEN 0 ELSE n - 1 + 1
        BY <4>1, FS_Interval
      <4>3. Cardinality(1 .. n) = n
        BY <4>1, <4>2
      <4> QED BY <4>2, <4>3 DEF n
    <3>2. DOMAIN q = 1 .. Len(q) /\ q \in [1 .. Len(q) -> ToSet(q)]
      BY <2>1 DEF ToSet
    <3>3. q \in Bijection(1 .. Len(q), ToSet(q))
      BY <2>1, <3>2 DEF Bijection, Injection, Surjection, IsInjective, Injective, ToSet
    <3>4. ExistsBijection(1 .. Len(q), ToSet(q))
      BY <3>3 DEF ExistsBijection
    <3> QED BY <3>1, <3>4, FS_Bijection
  <2>3. PoolCurlen(cache, Len(q)) \in Nat /\ PoolMaxlen \in Nat
    BY <2>1, PoolLen, BtIoCacheAssumption
  <2>4. failure = "none" /\ ~cache.err /\ PoolCurlen(cache, Len(cache.lru)) > PoolMaxlen => blkwr_db(cache) # {}
    BY <2>1, <2>3 DEF PoolOk
  <2> QED BY <2>1, <2>2, <2>4 DEF PoolConsistent
<1> QED BY <1>1, Invariance, PTL

\* StoppedIsDurable for every value of the constants: when the bt_io_cache_stopping_t of
\* the swarm reports success, what was written last is on disk.
THEOREM StoppedIsDurableHolds == Spec => []StoppedIsDurable
<1>1. IndInv => StoppedIsDurable
  <2>1. SUFFICES ASSUME IndInv, failure = "none", stopping = "ok", NEW c \in Cell, truth[c] # NoData,
                        BlockOf(c) \notin cache.twice
                 PROVE  disk[c] = truth[c]
    BY DEF StoppedIsDurable
  <2> DEFINE b == BlockOf(c)
  <2>2. b \in Block /\ c \in CellsOf(b)
    BY BlockCells
  <2>3. ~cache.err /\ (\A x \in DOMAIN cache.db : cache.db[x].state = "CLEAN") /\ Sync(cache, truth, disk)
    BY <2>1 DEF IndInv
  <2>4. StateOf(cache, b) \in {"NONE", "CLEAN"}
    BY <2>3 DEF StateOf
  <2>5. BSync(cache.subio, StateOf(cache, b), DatumOf(cache, b), truth, disk, b)
    BY <2>1, <2>2, <2>3 DEF Sync, BlockSync
  <2> QED BY <2>1, <2>2, <2>4, <2>5 DEF BSync
<1> QED BY <1>1, Invariance, PTL

\* Coherent for every value of the constants: through rewriting during a write, eviction,
\* reading back and removal of pieces, what a read would return is what was written last,
\* until a delayed write fails, but for the blocks two writes carried at once.
THEOREM CoherentHolds == Spec => []Coherent
<1>1. IndInv => Coherent
  <2>1. SUFFICES ASSUME IndInv, ~cache.err, NEW c \in Cell, truth[c] # NoData, BlockOf(c) \notin cache.twice
                 PROVE  Content(c) = truth[c]
    BY DEF Coherent
  <2> DEFINE b == BlockOf(c)
             q == cache.subio
  <2>2. b \in Block /\ c \in CellsOf(b)
    BY BlockCells
  <2>3. /\ BSync(q, StateOf(cache, b), DatumOf(cache, b), truth, disk, b)
        /\ Struct(cache) /\ DOMAIN q = 1 .. Len(q)
    BY <2>1, <2>2, Types DEF IndInv, Sync, BlockSync
  <2>4. CASE b \in DOMAIN cache.db
    <3>1. StateOf(cache, b) # "NONE" /\ DatumOf(cache, b) = cache.db[b].datum
      BY <2>3, <2>4, StateIs DEF BlockState, DatumOf
    <3>2. cache.db[b].datum[c] = truth[c]
      BY <3>1, <2>1, <2>2, <2>3 DEF BSync
    <3> QED BY <3>2, <2>4 DEF Content
  <2>5. CASE b \notin DOMAIN cache.db
    <3>1. StateOf(cache, b) = "NONE" /\ ~Void(truth, b)
      BY <2>1, <2>2, <2>5 DEF StateOf, Void
    <3>2. CoveredIn(q, b) = {} /\ disk[c] = truth[c]
      BY <3>1, <2>1, <2>2, <2>3 DEF BSync
    <3>3. Pending(c) = {}
      <4>1. ASSUME NEW i \in Pending(c) PROVE FALSE
        <5>1. i \in 1 .. Len(q) /\ q[i].op = "blkwr" /\ c \in q[i].left
          BY <2>3 DEF Pending, blkwr_db
        <5>2. OpOk(q[i])
          BY <5>1, <2>3 DEF Struct
        <5>3. CellsOf(b) \subseteq q[i].range
          BY <5>1, <5>2 DEF OpOk
        <5> QED BY <5>1, <5>3, <3>2 DEF CoveredIn, Covers
      <4> QED BY <4>1
    <3> QED BY <3>2, <3>3, <2>5 DEF Content
  <2> QED BY <2>4, <2>5
<1> QED BY <1>1, Invariance, PTL
=============================================================================
