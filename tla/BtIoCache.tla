------------------------------ MODULE BtIoCache ------------------------------
(***************************************************************************)
(* The disk cache of a swarm in delayed-write mode, bt_io_cache_t with its *)
(* pool (neoip_bt_plugin/io/impl/cache), over the files by piece of        *)
(* bt_io_pfile_t.  The file is cut in cells; a cache block is BlockLen     *)
(* cells and a piece, which is a file of its own, PieceLen cells.  A       *)
(* request covers a range of cells and is served block by block: from the  *)
(* block in the cache, or after a read of the block from disk              *)
(* (bt_io_cache_blkrd_t).  Dirty blocks are written back in contiguous     *)
(* runs (bt_io_cache_blkwr_t) by the pool, which is too long, or by the    *)
(* cleaning timer.  The build is the default one, with assertions: one     *)
(* that fails ends the program.                                            *)
(***************************************************************************)
EXTENDS Integers, Sequences, FiniteSets, SequencesExt, FiniteSetsExt

CONSTANTS
    TotLen,       \* totfile_size, in cells
    BlockLen,     \* block_align_size and block_maxlen
    PieceLen,     \* length of a piece
    PoolMaxlen,   \* pool_maxlen
    Ranges,       \* the ranges <<beg, end>> that are asked for
    Slot,         \* the callers, each with one request at a time
    NoSlot,
    MaxWrite,     \* bound: requests to write
    Cleaning,     \* the profile has a finite cleaning_max_delay
    DiskFull      \* a write to disk may fail

Cell  == 0 .. TotLen - 1
BlockOf(c) == c \div BlockLen
PieceOf(c) == c \div PieceLen
Block == 0 .. BlockOf(TotLen - 1)
Piece == 0 .. PieceOf(TotLen - 1)

ASSUME BtIoCacheAssumption ==
    /\ TotLen \in Nat \ {0} /\ BlockLen \in Nat \ {0} /\ PieceLen \in Nat \ {0}
    /\ PieceLen % BlockLen = 0        \* a block lies in one piece
    /\ PoolMaxlen \in Nat /\ PoolMaxlen >= BlockLen
    /\ Ranges \subseteq {r \in Cell \X Cell : r[1] <= r[2]}
    /\ NoSlot \notin Slot
    /\ MaxWrite \in Nat /\ Cleaning \in BOOLEAN /\ DiskFull \in BOOLEAN

NoData  == -1    \* beyond the end of the file of a piece
Garbage == -2    \* memory nobody has set, or a file that is gone
Value   == 0 .. MaxWrite
Idle    == [op |-> "idle"]

VARIABLES
    cache,     \* [db: block_db, lru: block_lru, subio: operations on disk, in the
               \*  order of their zero-timers, files: the files that exist, err: delayed_write_err,
               \*  twice: history, blocks written by a bt_io_cache_blkwr_t before an
               \*  earlier one was through with them]
    req,       \* what each caller has under way
    disk,      \* content of the files
    nwrite,    \* requests to write so far
    truth,     \* history: what was last written to each cell, NoData if nothing is there
    stopping,  \* bt_io_cache_stopping_t: "none", "running", "ok" or "err"
    failure    \* the assertion that failed, or the use of a deleted object

vars == <<cache, req, disk, nwrite, truth, stopping, failure>>

\* block_range_for: aligned below, clamped by the end of the file.
block_range_for(c) ==
    LET beg == c - (c % BlockLen) IN beg .. Min({beg + BlockLen - 1, TotLen - 1})
CellsOf(b) == block_range_for(b * BlockLen)

Init ==
    /\ cache = [db |-> <<>>, lru |-> <<>>, subio |-> <<>>, files |-> {}, err |-> FALSE,
                twice |-> {}]
    /\ req = [s \in Slot |-> Idle]
    /\ disk = [c \in Cell |-> NoData]
    /\ nwrite = 0
    /\ truth = [c \in Cell |-> NoData]
    /\ stopping = "none"
    /\ failure = "none"
-----------------------------------------------------------------------------
(* The cache as a value k, and what its operations make of it.              *)

\* SelectSeq with the set of the elements that go: block_lru_unlink, or the deletion of
\* the operations of a request.
Without(seq, X) ==
    LET keep[n \in 0 .. Len(seq)] ==
            IF n = 0 THEN <<>>
            ELSE IF seq[n] \in X THEN keep[n - 1] ELSE Append(keep[n - 1], seq[n])
    IN  keep[Len(seq)]

StateOf(k, b) == IF b \in DOMAIN k.db THEN k.db[b].state ELSE "NONE"

blkwr_db(k) == {i \in DOMAIN k.subio : k.subio[i].op = "blkwr"}

\* The operation joins the queue; its first piece is opened, and created by a write.
SubioCtor(k, o) ==
    LET p == PieceOf(Min(o.left))
    IN  [k EXCEPT
           !.subio = Append(@, [o EXCEPT !.fd =
                        IF o.op = "blkrd" /\ p \notin k.files THEN "noent" ELSE "open"]),
           !.files = IF o.op = "blkwr" THEN @ \cup {p} ELSE @]

\* block_dirty_contiguous
DirtyContiguous(k, b) ==
    {x \in Block : \A y \in Min({x, b}) .. Max({x, b}) : StateOf(k, y) = "DIRTY"}

\* bt_io_cache_blkwr_t::start: the run is copied, then its blocks are CLEANING.
start_blkwr(k, b) ==
    LET run   == DirtyContiguous(k, b)
        cells == UNION {CellsOf(x) : x \in run}
    IN  SubioCtor([k EXCEPT !.db = [x \in DOMAIN @ |->
                               IF x \in run THEN [@[x] EXCEPT !.state = "CLEANING"] ELSE @[x]],
                            !.twice = @ \cup {x \in run : \E i \in blkwr_db(k) :
                                                 CellsOf(x) \subseteq k.subio[i].range}],
                  [op |-> "blkwr", who |-> NoSlot, range |-> cells, left |-> cells, fd |-> "open",
                   datum |-> [c \in cells |-> k.db[BlockOf(c)].datum[c]]])

start_blkwr_all(k) ==
    LET walk[n \in 0 .. BlockOf(TotLen - 1) + 1] ==
            IF n = 0 THEN k
            ELSE LET a == walk[n - 1]
                 IN  IF StateOf(a, n - 1) = "DIRTY" THEN start_blkwr(a, n - 1) ELSE a
    IN  walk[BlockOf(TotLen - 1) + 1]

\* The length of the n most recent blocks.
PoolCurlen(k, n) ==
    LET curlen[m \in 0 .. n] ==
            IF m = 0 THEN 0 ELSE curlen[m - 1] + Cardinality(CellsOf(k.lru[m]))
    IN  curlen[n]

\* shrink_if_needed: the least recent blocks go as long as they are CLEAN and the pool is
\* too long; the first DIRTY one is written, the first CLEANING one waited for.
shrink_if_needed(k) ==
    LET over(n) == PoolCurlen(k, n) > PoolMaxlen
        n == Max({m \in 0 .. Len(k.lru) :
                    m = 0 \/ ~over(m) \/ StateOf(k, k.lru[m]) # "CLEAN"})
        kept == SubSeq(k.lru, 1, n)
        shrunk == [k EXCEPT !.lru = kept, !.db = Restrict(@, ToSet(kept))]
    IN  IF n > 0 /\ over(n) /\ StateOf(k, k.lru[n]) = "DIRTY"
        THEN start_blkwr(shrunk, k.lru[n]) ELSE shrunk

\* bt_io_cache_block_t::ctor_postprocess: a new block is CLEAN, most recent, and may
\* push others out.
BlockCtor(k, b, datum) ==
    shrink_if_needed([k EXCEPT
        !.db  = [x \in DOMAIN @ \cup {b} |->
                    IF x = b THEN [state |-> "CLEAN", datum |-> datum] ELSE @[x]],
        !.lru = <<b>> \o @])

\* block_lru_update, by notify_read and notify_write
block_lru_update(k, b) == [k EXCEPT !.lru = <<b>> \o Without(@, {b})]

\* block_remove_included_in
BlockRemove(k, cells) ==
    LET gone == {b \in Block : CellsOf(b) \subseteq cells}
    IN  [k EXCEPT !.lru = Without(@, gone),
                  !.db  = Restrict(@, DOMAIN @ \ gone)]
-----------------------------------------------------------------------------
(* A request at work.  a is [k: the cache, r: the request, out: "next", "blkrd", "done"].   *)

\* chunk_post_process: what the request and the block have in common is read, or
\* written unless an earlier delayed write has failed.
chunk_post_process(a, b) ==
    LET common == CellsOf(b) \cap (a.r.pos .. a.r.end)
        last   == a.r.end \in CellsOf(b)
        used   == block_lru_update(a.k, b)
    IN  IF a.r.op = "write" /\ a.k.err
        THEN [a EXCEPT !.out = "done"]
        ELSE [a EXCEPT
                !.k = IF a.r.op = "read" THEN used
                      ELSE [used EXCEPT !.db[b] =
                              [state |-> "DIRTY",
                               datum |-> [c \in CellsOf(b) |->
                                            IF c \in common THEN a.r.val ELSE @.datum[c]]]],
                !.truth = [c \in Cell |-> IF a.r.op = "write" /\ c \in common
                                          THEN a.r.val ELSE @[c]],
                !.r.pos = Max(common) + 1,
                !.out = IF last THEN "done" ELSE "next"]

\* launch_next_chunk, for the block b
launch_chunk(a, b) ==
    IF a.out # "next" THEN a
    ELSE IF b \in DOMAIN a.k.db THEN chunk_post_process(a, b)
    ELSE IF a.r.op = "write" /\ CellsOf(b) \subseteq a.r.beg .. a.r.end
    THEN chunk_post_process(
            [a EXCEPT !.k = BlockCtor(@, b, [c \in CellsOf(b) |-> Garbage])], b)
    ELSE [a EXCEPT
            !.k = SubioCtor(@, [op |-> "blkrd", who |-> a.r.slot, range |-> CellsOf(b),
                                left |-> CellsOf(b), fd |-> "open", datum |-> <<>>]),
            !.r.st = "blkrd",
            !.out = "blkrd"]

launch_next_chunk(a) ==
    LET first == BlockOf(a.r.pos)
        walk[n \in 0 .. BlockOf(a.r.end) - first + 1] ==
            IF n = 0 THEN a ELSE launch_chunk(walk[n - 1], first + n - 1)
    IN  walk[BlockOf(a.r.end) - first + 1]

At(s) == [k |-> cache, r |-> req[s], truth |-> truth, out |-> "next"]

\* The caller deletes a request that is done.
Yields(s, a) ==
    /\ cache' = a.k
    /\ truth' = a.truth
    /\ req' = [req EXCEPT ![s] = IF a.out = "done" THEN Idle ELSE a.r]

Alive == failure = "none" /\ stopping \in {"none", "running"}

Busy(cells, ops) ==
    \E s \in Slot : req[s].op \in ops /\ (req[s].beg .. req[s].end) \cap cells # {}

Asked(s, op, r) ==
    /\ Alive /\ stopping = "none"
    /\ req[s] = Idle
    /\ req' = [req EXCEPT ![s] =
          [op |-> op, slot |-> s, beg |-> r[1], end |-> r[2], pos |-> r[1], st |-> "zero",
           val |-> nwrite']]
    /\ UNCHANGED <<cache, disk, truth, stopping, failure>>

\* read_ctor: callers read pieces that were downloaded, not blocks being written.
ReadCtor(s, r) ==
    /\ \A c \in r[1] .. r[2] : truth[c] # NoData
    /\ ~Busy(r[1] .. r[2], {"write"})
    /\ UNCHANGED nwrite
    /\ Asked(s, "read", r)

\* write_ctor: callers write a block once at a time.
WriteCtor(s, r) ==
    /\ nwrite < MaxWrite
    /\ ~Busy(r[1] .. r[2], {"read", "write"})
    /\ nwrite' = nwrite + 1
    /\ Asked(s, "write", r)

\* init_zerotimer of bt_io_cache_read_t and bt_io_cache_write_t
ZerotimerExpire(s) ==
    /\ Alive
    /\ req[s] # Idle /\ req[s].st = "zero"
    /\ Yields(s, launch_next_chunk(At(s)))
    /\ UNCHANGED <<disk, nwrite, stopping, failure>>

\* Mutant: ~bt_io_cache_read_t does not delete the bt_io_cache_blkrd_t either.
RequestDtorKeepsBlkrd(s) ==
    /\ Alive
    /\ req[s] # Idle
    /\ req' = [req EXCEPT ![s] = Idle]
    /\ UNCHANGED <<cache, disk, nwrite, truth, stopping, failure>>

\* A caller gives its request up.  ~bt_io_cache_read_t deletes the bt_io_cache_blkrd_t,
\* ~bt_io_cache_write_t leaves it behind.
RequestDtor(s) ==
    /\ Alive
    /\ req[s] # Idle
    /\ req' = [req EXCEPT ![s] = Idle]
    /\ cache' = [cache EXCEPT !.subio =
          IF req[s].op = "read" THEN Without(@, {o \in ToSet(@) : o.who = s})
          ELSE [i \in DOMAIN @ |->
                  IF @[i].who = s THEN [@[i] EXCEPT !.who = NoSlot] ELSE @[i]]]
    /\ UNCHANGED <<disk, nwrite, truth, stopping, failure>>
-----------------------------------------------------------------------------
(* The disk does one piece of the first operation of the queue.             *)

Op   == Head(cache.subio)
Now  == {c \in Op.left : PieceOf(c) = PieceOf(Min(Op.left))}
Done == [cache EXCEPT !.subio = Tail(@)]

Fails(why) ==
    /\ failure' = why
    /\ UNCHANGED <<cache, req, disk, nwrite, truth, stopping>>

\* bt_io_cache_blkrd_t::neoip_bt_io_read_cb after an error.  The read of a caller ends;
\* a write ends too, but leaves the bt_io_cache_blkrd_t it says it has deleted.
BlkrdFailed ==
    /\ Op.op = "blkrd"
    /\ \/ Op.fd \in {"noent", "unlinked"}
       \/ Op.fd = "open" /\ \E c \in Now : disk[c] = NoData
    /\ IF Op.who = NoSlot THEN Fails("use after delete")
       ELSE IF req[Op.who].op = "write" THEN Fails("tokeep")
       ELSE /\ cache' = Done
            /\ req' = [req EXCEPT ![Op.who] = Idle]
            /\ UNCHANGED <<disk, nwrite, truth, stopping, failure>>

\* The same after a success: the block is made, and the request goes on with it.  A write
\* that starts another read of the disk returns tokeep for the one it has deleted.
BlkrdDone ==
    LET b == BlockOf(Min(Op.left))
        datum == [c \in Op.left |-> IF Op.fd = "open" THEN disk[c] ELSE Garbage]
        a == launch_next_chunk(chunk_post_process(
                [At(Op.who) EXCEPT !.k = BlockCtor(Done, b, datum), !.r.st = "zero"], b))
    IN  /\ Op.op = "blkrd"
        /\ \/ Op.fd = "unlinked"
           \/ Op.fd = "open" /\ \A c \in Now : disk[c] # NoData
        /\ IF Op.who = NoSlot THEN Fails("use after delete")
           ELSE IF b \in DOMAIN cache.db THEN Fails("block_dolink")
           ELSE IF a.r.op = "write" /\ a.out = "blkrd" THEN Fails("tokeep")
           ELSE /\ Yields(Op.who, a)
                /\ UNCHANGED <<disk, nwrite, stopping, failure>>

\* What the cells of the piece become: a file that grows is filled with zeros.
Written ==
    [c \in Cell |->
        IF c \in Now THEN Op.datum[c]
        ELSE IF PieceOf(c) = PieceOf(Min(Now)) /\ c < Min(Now) /\ disk[c] = NoData THEN 0
        ELSE disk[c]]

DiskWritten == disk' = IF Op.fd = "open" THEN Written ELSE disk

\* bt_io_pfile_write_t::neoip_file_awrite_cb, with another piece to come
BlkwrNext ==
    /\ Op.op = "blkwr" /\ Now # Op.left
    /\ DiskWritten
    /\ cache' = SubioCtor(Done, [Op EXCEPT !.left = Op.left \ Now])
    /\ UNCHANGED <<req, nwrite, truth, stopping, failure>>

\* Mutant: the pool does not hear of the completion.
BlkwrCompletionNoShrink(k) ==
    /\ cache' = k
    /\ stopping' = IF stopping # "running" \/ blkwr_db(k) # {} THEN stopping
                   ELSE IF k.err THEN "err" ELSE "ok"
    /\ UNCHANGED <<req, nwrite, truth, failure>>

\* bt_io_cache_t::neoip_bt_io_cache_blkwr_cb: the pool shrinks, then the
\* bt_io_cache_stopping_t looks whether that was the last write.
BlkwrCompletion(k) ==
    LET k1 == shrink_if_needed(k)
        last == stopping = "running" /\ blkwr_db(k1) = {}
        clean == \A b \in DOMAIN k1.db : k1.db[b].state = "CLEAN"
    IN  /\ cache' = k1
        /\ stopping' = IF ~last THEN stopping ELSE IF k1.err THEN "err" ELSE "ok"
        /\ failure' = IF last /\ ~k1.err /\ ~clean THEN "stopping clean" ELSE "none"
        /\ UNCHANGED <<req, nwrite, truth>>

\* Mutant: a block that was written meanwhile is CLEAN too.
BlkwrDoneAll ==
    /\ Op.op = "blkwr" /\ Now = Op.left
    /\ DiskWritten
    /\ BlkwrCompletion([Done EXCEPT !.db = [b \in DOMAIN @ |->
          IF CellsOf(b) \subseteq Op.range THEN [@[b] EXCEPT !.state = "CLEAN"] ELSE @[b]]])

\* bt_io_cache_blkwr_t::neoip_bt_io_write_cb: CLEANING blocks of the range are CLEAN;
\* one that was written meanwhile is DIRTY and stays so, and there is no third case.
BlkwrDone ==
    LET included == {b \in DOMAIN cache.db : CellsOf(b) \subseteq Op.range}
    IN  /\ Op.op = "blkwr" /\ Now = Op.left
        /\ IF \E b \in included : cache.db[b].state = "CLEAN"
           THEN Fails("is_dirty")
           ELSE /\ DiskWritten
                /\ BlkwrCompletion([Done EXCEPT !.db = [b \in DOMAIN @ |->
                      IF b \in included /\ @[b].state = "CLEANING"
                      THEN [@[b] EXCEPT !.state = "CLEAN"] ELSE @[b]]])

\* The same after an error, which leaves the blocks in CLEANING.
BlkwrFailed ==
    /\ DiskFull
    /\ Op.op = "blkwr"
    /\ UNCHANGED disk
    /\ BlkwrCompletion([Done EXCEPT !.err = TRUE])

SubioStep ==
    /\ Alive
    /\ cache.subio # <<>>
    /\ BlkrdFailed \/ BlkrdDone \/ BlkwrNext \/ BlkwrDone \/ BlkwrFailed
-----------------------------------------------------------------------------

\* bt_io_cache_t::neoip_timeout_expire_cb
CleaningTimeout ==
    /\ Alive /\ Cleaning
    /\ \E b \in DOMAIN cache.db : cache.db[b].state = "DIRTY"
    /\ cache' = start_blkwr_all(cache)
    /\ UNCHANGED <<req, disk, nwrite, truth, stopping, failure>>

\* remove, of a piece that is not being written; bt_io_pfile_t deletes its file, which
\* the operations that have it open keep.
RemovePiece(p) ==
    LET cells == {c \in Cell : PieceOf(c) = p}
    IN  /\ Alive /\ stopping = "none"
        /\ \E c \in cells : truth[c] # NoData
        /\ ~Busy(cells, {"write"})
        /\ cache' = [BlockRemove(cache, cells) EXCEPT
                       !.files = @ \ {p},
                       !.subio = [i \in DOMAIN @ |->
                          IF PieceOf(Min(@[i].left)) = p /\ @[i].fd = "open"
                          THEN [@[i] EXCEPT !.fd = "unlinked"] ELSE @[i]]]
        /\ disk' = [c \in Cell |-> IF c \in cells THEN NoData ELSE disk[c]]
        /\ truth' = [c \in Cell |-> IF c \in cells THEN NoData ELSE truth[c]]
        /\ UNCHANGED <<req, nwrite, stopping, failure>>

\* stopping_ctor, when the swarm and with it the requests are gone
\* (bt_io_cache_stopping_t::start).
StoppingCtor ==
    /\ Alive /\ stopping = "none"
    /\ \A s \in Slot : req[s] = Idle
    /\ stopping' = "running"
    /\ UNCHANGED <<cache, req, disk, nwrite, truth, failure>>

Next ==
    \/ \E s \in Slot :
        \/ \E r \in Ranges : ReadCtor(s, r) \/ WriteCtor(s, r)
        \/ ZerotimerExpire(s)
        \/ RequestDtor(s)
    \/ SubioStep
    \/ CleaningTimeout
    \/ \E p \in Piece : RemovePiece(p)
    \/ StoppingCtor

Spec == Init /\ [][Next]_vars

\* Zero-timers expire.  The cleaning timer is not fair: by default its delay is infinite.
FairSpec == Spec /\ WF_vars(SubioStep) /\ \A s \in Slot : WF_vars(ZerotimerExpire(s))
-----------------------------------------------------------------------------
\* What a read of the cell would find: the block in the cache, or what the file holds
\* once the writes under way are through.
Pending(c) ==
    {i \in blkwr_db(cache) :
        /\ c \in cache.subio[i].left
        /\ cache.subio[i].fd = "open" \/ PieceOf(c) # PieceOf(Min(cache.subio[i].left))}
Content(c) ==
    IF BlockOf(c) \in DOMAIN cache.db THEN cache.db[BlockOf(c)].datum[c]
    ELSE IF Pending(c) # {} THEN cache.subio[Max(Pending(c))].datum[c]
    ELSE disk[c]

\* What was written last is neither lost nor hidden by an older version, whatever the
\* blocks that are rewritten while a bt_io_cache_blkwr_t carries their old content, the
\* shrinking of the pool and the pieces that are removed (until an assertion ends the
\* program, the disk is full, or a second bt_io_cache_blkwr_t takes the same block).
Coherent ==
    failure = "none" /\ ~cache.err =>
        \A c \in Cell :
            truth[c] # NoData /\ BlockOf(c) \notin cache.twice => Content(c) = truth[c]

\* block_lru lists each block of block_db once, which block_lru_dolink, block_lru_unlink and
\* block_lru_update assert; and "it is possible that the bt_io_cache_pool_t pool_curlen is
\* actually higher than pool_maxlen() but only while waiting for block to be written on
\* disk" (neoip_bt_io_cache_pool.cpp:21): then a bt_io_cache_blkwr_t is under way, whose
\* completion will shrink the pool.
PoolConsistent ==
    /\ ToSet(cache.lru) = DOMAIN cache.db
    /\ Len(cache.lru) = Cardinality(DOMAIN cache.db)
    /\ failure = "none" /\ ~cache.err /\ PoolCurlen(cache, Len(cache.lru)) > PoolMaxlen =>
          blkwr_db(cache) # {}

\* "the disk is in sync with the cache after this bt_io_cache_stopping_t"
\* (neoip_bt_io_cache_stopping.cpp:6): success means that the files hold what was written.
StoppedIsDurable ==
    failure = "none" /\ stopping = "ok" =>
        \A c \in Cell :
            truth[c] # NoData /\ BlockOf(c) \notin cache.twice => disk[c] = truth[c]

\* A request that waits for the disk has exactly one bt_io_cache_blkrd_t under way, for the
\* block where it stopped, whatever happened to the other requests, the pool and the files
\* meanwhile: its caller will be notified.
WaitIsServed ==
    failure = "none" =>
        \A s \in Slot :
            LET mine == {i \in DOMAIN cache.subio : cache.subio[i].who = s}
            IN  IF req[s] # Idle /\ req[s].st = "blkrd"
                THEN \E i \in mine : mine = {i} /\ req[s].pos \in cache.subio[i].left
                ELSE mine = {}

\* "It writes all the dirty blocks to disk and notify the caller only after that"
\* (neoip_bt_io_cache_stopping.cpp:5): a bt_io_cache_stopping_t
\* that finds dirty blocks ends.
StoppingCompletes ==
    (stopping = "running" /\ \E b \in DOMAIN cache.db : cache.db[b].state = "DIRTY")
        ~> (stopping \in {"ok", "err"} \/ failure # "none")
=============================================================================
