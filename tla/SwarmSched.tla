------------------------------ MODULE SwarmSched ------------------------------
(***************************************************************************)
(* The download scheduler of a BitTorrent swarm (neoip_bt_core/swarm):     *)
(* which blocks of which pieces are requested from which connection, what  *)
(* is done with the replies, and when a piece is declared available.       *)
(*                                                                         *)
(* A connection is a bt_swarm_full_t (a BitTorrent peer) or a              *)
(* bt_ecnx_vapi_t (an HTTP server).  Handlers call one another             *)
(* synchronously, so an action is written as a chain of functions on a     *)
(* record s, the part of the state the scheduler works on (Cur).           *)
(*                                                                         *)
(* The preference between pieces of the same kind (precedence levels, wish *)
(* counts, the index hint) is a free choice; the delays of the request     *)
(* timeouts are left out: a pending request may expire at any time.        *)
(***************************************************************************)
EXTENDS Naturals, FiniteSets, Sequences

CONSTANTS
    Full, Ecnx,   \* connections to peers, connections to servers
    NbBlock,      \* sequence: the number of blocks of each piece
    ReqNbMax,     \* the largest req_queue_maxlen() / xmit_req_maxlen()
    Wanted,       \* the sets of pieces the user may come to need (bound)
    DoPiecehash,  \* bt_mfile_t::do_piecehash
    Adversity     \* what the environment does beyond serving requests

Cnx == Full \cup Ecnx
Piece == 1 .. Len(NbBlock)
Blocks(p) == {p} \X (1 .. NbBlock[p])
Block == UNION {Blocks(p) : p \in Piece}

ASSUME SwarmSchedAssumption ==
    /\ Full \cap Ecnx = {}
    /\ NbBlock \in Seq(Nat \ {0})
    /\ ReqNbMax \in Nat \ {0}
    /\ Wanted \subseteq SUBSET Piece
    /\ DoPiecehash \in BOOLEAN
    /\ Adversity \subseteq {"unauth", "unavail", "corrupt", "timeout", "close",
                            "bfield_late", "resume"}

VARIABLES
    full_db, ecnx_db,  \* open connections, in order
    remote_pavail,     \* pieces each connection offers
    other_doauth,      \* the connection accepts requests
    bfield_seen,       \* PIECE_BFIELD was received
    remote_pfreq,      \* bt_pselect_vapi_t: how many connections offer a piece
    needed,            \* pieces whose precedence is not NOTNEEDED
    local_pavail,      \* pieces declared available
    dling,             \* pieces that have a bt_swarm_sched_piece_t
    hashing,           \* those whose content is being checked
    block_db,          \* blocks that have a bt_swarm_sched_block_t and no write
    writing,           \* blocks with a bt_io_write_t
    written,           \* blocks on the disk (not in isunavail_inval)
    corrupt,           \* external: those of the last two whose content is wrong
    pending, expired,  \* requests <<connection, block>>, by expire_timeout
    wire,              \* external: blocks the other end may still send; for a
                       \* server, the range of m_ecnx_iov ({} when it is NULL)
    zerotimer          \* next_iov_zerotimer and kill_iov_zerotimer of the servers

vars == <<full_db, ecnx_db, remote_pavail, other_doauth, bfield_seen, remote_pfreq,
          needed, local_pavail, dling, hashing, block_db, writing, written, corrupt,
          pending, expired, wire, zerotimer>>

PieceOf(b) == b[1]

Init ==
    /\ full_db = <<>> /\ ecnx_db = <<>>
    /\ remote_pavail = [c \in Cnx |-> {}]
    /\ other_doauth = [c \in Cnx |-> FALSE]
    /\ bfield_seen = {}
    /\ remote_pfreq = [p \in Piece |-> 0]
    /\ needed = Piece
    /\ local_pavail = {}
    /\ pending = {} /\ expired = {}
    /\ wire = [c \in Cnx |-> {}]
    /\ zerotimer = {}
    \* partavail_piece_ctor: what the resumed session had already written
    /\ written \in IF "resume" \in Adversity THEN SUBSET Block ELSE {{}}
    /\ corrupt \in SUBSET written
    /\ block_db = {} /\ writing = {}
    /\ dling = {p \in Piece : Blocks(p) \cap written # {}}
    /\ hashing = {p \in Piece : Blocks(p) \subseteq written}

-----------------------------------------------------------------------------
(* What the scheduler works on *)

Cur == [full_db |-> full_db, ecnx_db |-> ecnx_db, remote_pavail |-> remote_pavail,
        other_doauth |-> other_doauth, bfield_seen |-> bfield_seen, remote_pfreq |-> remote_pfreq,
        needed |-> needed, local_pavail |-> local_pavail, dling |-> dling,
        hashing |-> hashing, block_db |-> block_db, writing |-> writing,
        written |-> written, corrupt |-> corrupt, pending |-> pending, expired |-> expired, wire |-> wire,
        zerotimer |-> zerotimer]

Become(s) ==
    /\ full_db' = s.full_db
    /\ ecnx_db' = s.ecnx_db
    /\ remote_pavail' = s.remote_pavail
    /\ other_doauth' = s.other_doauth
    /\ bfield_seen' = s.bfield_seen
    /\ remote_pfreq' = s.remote_pfreq
    /\ needed' = s.needed
    /\ local_pavail' = s.local_pavail
    /\ dling' = s.dling
    /\ hashing' = s.hashing
    /\ block_db' = s.block_db
    /\ writing' = s.writing
    /\ written' = s.written
    /\ corrupt' = s.corrupt
    /\ pending' = s.pending
    /\ expired' = s.expired
    /\ wire' = s.wire
    /\ zerotimer' = s.zerotimer

Requests(s, c) == {r \in s.pending \cup s.expired : r[1] = c}

\* bt_swarm_sched_block_t::is_reqed_by
IsReqedBy(s, b, c) == <<c, b>> \in s.pending \cup s.expired

NbRequest(s, b) == Cardinality({c \in Cnx : IsReqedBy(s, b, c)})

\* In nevereq_inval.
NeverReq(s) == Block \ (s.block_db \cup s.writing \cup s.written)

\* Mutant: a block is requested again although a request is pending.
BlockDoNeedreqAlways(s, b) == b \in s.block_db

\* bt_swarm_sched_block_t::state_cpu
BlockDoNeedreq(s, b) == b \in s.block_db /\ \A c \in Cnx : <<c, b>> \notin s.pending

\* bt_swarm_sched_piece_t::state_cpu
PieceDoNeedreq(s, p) ==
    /\ p \in s.dling
    /\ \E b \in Blocks(p) : BlockDoNeedreq(s, b) \/ b \in NeverReq(s)

\* bt_swarm_sched_piece_t::may_request_block_thru
MayRequestBlockThru(s, p, c) ==
    \E b \in Blocks(p) : \/ BlockDoNeedreq(s, b) /\ ~IsReqedBy(s, b, c)
                         \/ b \in NeverReq(s)

\* get_block_to_request: the least requested of those that need a request, else
\* the first never requested.
BlockToRequest(s, p, c) ==
    LET cand == {b \in Blocks(p) : BlockDoNeedreq(s, b) /\ ~IsReqedBy(s, b, c)}
        least == {b \in cand : \A d \in cand : NbRequest(s, b) <= NbRequest(s, d)}
        pool == IF cand # {} THEN least
                             ELSE {b \in Blocks(p) : b \in NeverReq(s)}
    IN CHOOSE b \in pool : \A d \in pool : b[2] <= d[2]

\* select_piece_to_request: a piece in progress before a new one.
SelectPieceToRequest(s, c) ==
    LET active == {p \in s.dling \cap s.remote_pavail[c] :
                      PieceDoNeedreq(s, p) /\ MayRequestBlockThru(s, p, c)}
        selectable == s.needed \ (s.dling \cup s.local_pavail)
    IN IF active # {} THEN active ELSE selectable \cap s.remote_pavail[c]

\* The constructor of bt_swarm_sched_request_t, with those of the block and of
\* the piece when they are new; sched_req_dolink_start sends a BLOCK_REQ to a
\* peer and starts a zero-timer for a server.
RequestCtor(s, b, c) ==
    [s EXCEPT !.dling = @ \cup {PieceOf(b)},
              !.block_db = @ \cup {b},
              !.pending = @ \cup {<<c, b>>},
              !.wire[c] = IF c \in Full THEN @ \cup {b} ELSE @,
              !.zerotimer = IF c \in Ecnx THEN @ \cup {<<"next", c>>} ELSE @]

\* One turn of the loops of try_send_request.
RequestOne(s, c) ==
    LET sel == SelectPieceToRequest(s, c)
    IN IF sel = {} THEN {s}
       ELSE {RequestCtor(s, BlockToRequest(s, p, c), c) : p \in sel}

\* try_send_request, for a queue of nbMax requests.
FillQueue(s, c, nbMax) ==
    LET room == IF Cardinality(Requests(s, c)) < nbMax
                THEN nbMax - Cardinality(Requests(s, c)) ELSE 0
        turn[n \in 0 .. room] ==
            IF n = 0 THEN {s} ELSE UNION {RequestOne(t, c) : t \in turn[n - 1]}
    IN turn[room]

\* req_queue_maxlen follows the rate of the connection within its two limits.
TrySendRequest(s, c) ==
    IF ~s.other_doauth[c] THEN {s}
    ELSE UNION {FillQueue(s, c, n) : n \in 1 .. ReqNbMax}

\* try_send_request_on_idle_cnx: the servers, then the peers.
TrySendRequestOnIdleCnx(s) ==
    LET db == s.ecnx_db \o s.full_db
        walk[n \in 0 .. Len(db)] ==
            IF n = 0 THEN {s}
            ELSE UNION {IF Requests(t, db[n]) # {} THEN {t}
                        ELSE TrySendRequest(t, db[n]) : t \in walk[n - 1]}
    IN walk[Len(db)]

\* The destructors of the requests R; a server left without any (sched_req_unlink)
\* starts a zero-timer.
DeleteRequests(s, R) ==
    LET idle == {c \in Ecnx : Requests(s, c) # {} /\ Requests(s, c) \subseteq R}
    IN [s EXCEPT !.pending = @ \ R, !.expired = @ \ R,
                 !.zerotimer = @ \cup {<<"kill", c>> : c \in idle}]

\* Mutant: the check of the content survives the piece.
DeletePiecesKeepHash(s, P) ==
    LET B == UNION {Blocks(p) : p \in P}
    IN [DeleteRequests(s, Cnx \X B) EXCEPT
            !.dling = @ \ P, !.block_db = @ \ B,
            !.writing = @ \ B, !.written = @ \ B, !.corrupt = @ \ B]

\* The destructors of the pieces P, their blocks, requests, writes and checks.
DeletePieces(s, P) ==
    LET B == UNION {Blocks(p) : p \in P}
    IN [DeleteRequests(s, Cnx \X B) EXCEPT
            !.dling = @ \ P, !.hashing = @ \ P, !.block_db = @ \ B,
            !.writing = @ \ B, !.written = @ \ B, !.corrupt = @ \ B]

Member(db, c) == \E n \in DOMAIN db : db[n] = c
Without(db, c) ==
    LET keep[n \in 0 .. Len(db)] ==
            IF n = 0 THEN <<>>
            ELSE IF db[n] = c THEN keep[n - 1] ELSE Append(keep[n - 1], db[n])
    IN keep[Len(db)]

PfreqAdd(s, P) == [s EXCEPT !.remote_pfreq =
                       [p \in Piece |-> IF p \in P THEN s.remote_pfreq[p] + 1
                                             ELSE s.remote_pfreq[p]]]
PfreqSub(s, P) == [s EXCEPT !.remote_pfreq =
                       [p \in Piece |-> IF p \in P THEN s.remote_pfreq[p] - 1
                                             ELSE s.remote_pfreq[p]]]

\* What is left of connection c when its object is gone.
CnxDtor(s, c) ==
    [DeleteRequests(s, Requests(s, c)) EXCEPT
        !.full_db = Without(@, c), !.ecnx_db = Without(@, c),
        !.remote_pavail[c] = {}, !.other_doauth[c] = FALSE,
        !.bfield_seen = @ \ {c}, !.wire[c] = {},
        !.zerotimer = {z \in @ : z[2] # c}]

-----------------------------------------------------------------------------
(* bt_swarm_sched_full_t: events of the connections to peers *)

IsFullCnx(c) == Member(full_db, c)

\* bt_swarm_full_t::start, then cnx_opened
CnxOpened(c) ==
    /\ c \in Full /\ ~IsFullCnx(c)
    /\ Become([Cur EXCEPT !.full_db = Append(@, c)])

\* Mutant: the pieces of a closed connection are still counted.
CnxClosedFromNoDec(s, c) ==
    {CnxDtor(t, c) : t \in TrySendRequestOnIdleCnx(DeleteRequests(s, Requests(s, c)))}

\* ~bt_swarm_full_t: parse_cnx_closed runs while c is still in full_db.
CnxClosedFrom(s, c) ==
    LET u == DeleteRequests(PfreqSub(s, s.remote_pavail[c]), Requests(s, c))
    IN {CnxDtor(t, c) : t \in TrySendRequestOnIdleCnx(u)}

CnxClosed(c) ==
    /\ "close" \in Adversity
    /\ IsFullCnx(c)
    /\ \E s \in CnxClosedFrom(Cur, c) : Become(s)

\* Two seeds have nothing to exchange: the connection deletes itself.
CloseBetweenSeeds(s, c) ==
    IF s.local_pavail = Piece /\ s.remote_pavail[c] = Piece
    THEN CnxClosedFrom(s, c) ELSE {s}

\* Mutant: the requests stay on a connection that does not serve them any more.
UnauthReqKeeps(c) ==
    /\ "unauth" \in Adversity
    /\ IsFullCnx(c) /\ other_doauth[c]
    /\ \E t \in TrySendRequestOnIdleCnx([Cur EXCEPT !.other_doauth[c] = FALSE, !.wire[c] = {}]) :
           Become(t)

\* Mutant: nobody takes over the requests of the connection.
UnauthReqNoRetry(c) ==
    /\ "unauth" \in Adversity
    /\ IsFullCnx(c) /\ other_doauth[c]
    /\ Become(DeleteRequests([Cur EXCEPT !.other_doauth[c] = FALSE, !.wire[c] = {}],
                             Requests(Cur, c)))

\* parse_unauth_req: the other end has dropped what it had not sent yet.
UnauthReq(c) ==
    /\ "unauth" \in Adversity
    /\ IsFullCnx(c) /\ other_doauth[c]
    /\ LET s == DeleteRequests([Cur EXCEPT !.other_doauth[c] = FALSE, !.wire[c] = {}],
                               Requests(Cur, c))
       IN \E t \in TrySendRequestOnIdleCnx(s) : Become(t)

\* set_doauth_req of the other end sends the command when its answer changes.
DoauthReq(c) ==
    /\ IsFullCnx(c) /\ ~other_doauth[c]
    /\ \E s \in TrySendRequest([Cur EXCEPT !.other_doauth[c] = TRUE], c) : Become(s)

\* parse_piece_bfield_cmd.  A peer of this program sends it once and first, but the
\* code accepts it at any time: with "bfield_late" it may follow a PIECE_ISAVAIL or
\* another PIECE_BFIELD.
PieceBfield(c, P) ==
    /\ IsFullCnx(c)
    /\ c \notin bfield_seen \/ "bfield_late" \in Adversity
    /\ LET s == PfreqAdd([Cur EXCEPT !.remote_pavail[c] = P, !.bfield_seen = @ \cup {c}], P)
       IN \E t \in TrySendRequest(s, c) : \E u \in CloseBetweenSeeds(t, c) : Become(u)

PieceIsavail(c, p) ==
    /\ IsFullCnx(c) /\ p \notin remote_pavail[c]
    /\ c \in bfield_seen \/ "bfield_late" \in Adversity
    /\ LET s == PfreqAdd([Cur EXCEPT !.remote_pavail[c] = @ \cup {p}], {p})
       IN \E t \in TrySendRequest(s, c) : \E u \in CloseBetweenSeeds(t, c) : Become(u)

\* notify_utmsg_punavail
PieceUnavail(c, p) ==
    /\ "unavail" \in Adversity
    /\ IsFullCnx(c) /\ p \in remote_pavail[c]
    /\ LET s == PfreqSub([Cur EXCEPT !.remote_pavail[c] = @ \ {p}], {p})
       IN \E t \in TrySendRequest(DeleteRequests(s, {c} \X Blocks(p)), c) : Become(t)

\* notify_complete_from: every request of the block goes, the write starts.
NotifyCompleteFrom(s, b, ok) ==
    [DeleteRequests(s, Cnx \X {b}) EXCEPT
        !.block_db = @ \ {b}, !.writing = @ \cup {b},
        !.corrupt = IF ok THEN @ ELSE @ \cup {b}]

\* Whether what a connection sends is the content of the file.
Genuine == IF "corrupt" \in Adversity THEN BOOLEAN ELSE {TRUE}
CorruptSets(G) == IF "corrupt" \in Adversity THEN SUBSET G ELSE {{}}

\* Mutant: a reply for a piece in progress is taken without looking for its request.
BlockRepUnchecked(c, b, ok) ==
    /\ IsFullCnx(c) /\ b \in wire[c]
    /\ LET s == [Cur EXCEPT !.wire[c] = @ \ {b}]
       IN IF PieceOf(b) \notin dling THEN Become(s)
          ELSE \E t \in TrySendRequest(NotifyCompleteFrom(s, b, ok), c) : Become(t)

\* parse_block_rep: a reply no request matches is discarded.
BlockRep(c, b, ok) ==
    /\ IsFullCnx(c) /\ b \in wire[c]
    /\ LET s == [Cur EXCEPT !.wire[c] = @ \ {b}]
       IN IF ~IsReqedBy(s, b, c) THEN Become(s)
          ELSE \E t \in TrySendRequest(NotifyCompleteFrom(s, b, ok), c) : Become(t)

-----------------------------------------------------------------------------
(* bt_swarm_sched_ecnx_t: events of the connections to servers *)

IsEcnx(c) == Member(ecnx_db, c)

EcnxOpened(c, P) ==
    /\ c \in Ecnx /\ ~IsEcnx(c)
    /\ LET s == PfreqAdd([Cur EXCEPT !.ecnx_db = Append(@, c), !.remote_pavail[c] = P,
                                     !.other_doauth[c] = TRUE], P)
       IN \E t \in TrySendRequest(s, c) : Become(t)

\* ~bt_http_ecnx_cnx_t: the requests go first, then parse_cnx_closed unlinks c.
EcnxClosed(c) ==
    /\ "close" \in Adversity
    /\ IsEcnx(c)
    /\ \E t \in TrySendRequestOnIdleCnx(CnxDtor(PfreqSub(Cur, remote_pavail[c]), c)) :
           Become(t)

\* build_gathered_iov: requested blocks that follow one another in the file; which
\* one is first in the fifo, and the limit on the length, are left open.
Before(x, y) == x[1] < y[1] \/ (x[1] = y[1] /\ x[2] < y[2])
GatheredIovs(R) ==
    {G \in SUBSET R : /\ G # {}
                      /\ \A x, y \in G, z \in Block : Before(x, z) /\ Before(z, y) => z \in G}

\* next_iov_zerotimer_expire_cb, launch_next_iov
NextIov(c) ==
    /\ <<"next", c>> \in zerotimer
    /\ LET s == [Cur EXCEPT !.zerotimer = @ \ {<<"next", c>>}]
           R == {r[2] : r \in Requests(s, c)}
       IN IF R = {} \/ wire[c] # {} THEN Become(s)
          ELSE \E G \in GatheredIovs(R) : Become([s EXCEPT !.wire[c] = G])

\* kill_iov_zerotimer_expire_cb
KillIov(c) ==
    /\ <<"kill", c>> \in zerotimer
    /\ Become([Cur EXCEPT !.zerotimer = @ \ {<<"kill", c>>},
                          !.wire[c] = IF Requests(Cur, c) = {} THEN {} ELSE @])

\* process_iov_data for the blocks of G, of which those in bad are wrong.
ProcessIovData(s, c, G, bad) ==
    LET R == {b \in G : IsReqedBy(s, b, c)}
    IN [DeleteRequests(s, Cnx \X R) EXCEPT
            !.block_db = @ \ R, !.writing = @ \cup R, !.corrupt = @ \cup (R \cap bad)]

\* What has come of the answer when block b is there.
UpTo(c, b) == {x \in wire[c] : ~Before(b, x)}

\* neoip_bt_http_ecnx_iov_progress_chunk_cb: the beginning of an answer; the last
\* part comes with the end of it, the server announcing the length.
EcnxProgress(c, b, bad) ==
    /\ b \in wire[c] /\ UpTo(c, b) # wire[c]
    /\ Become(ProcessIovData(Cur, c, UpTo(c, b), bad))

\* Mutant: the end of an answer does not start the next one.
EcnxIovDoneNoTimer(c, bad) ==
    /\ wire[c] # {}
    /\ LET s == ProcessIovData(Cur, c, wire[c], bad)
       IN \E t \in TrySendRequest(s, c) : Become([t EXCEPT !.wire[c] = {}])

\* neoip_bt_http_ecnx_iov_cb, handle_iov_recved_data: the whole answer, then the
\* empty BLOCK_REP, which sends new requests, before m_ecnx_iov is deleted.
EcnxIovDone(c, bad) ==
    /\ wire[c] # {}
    /\ LET s == ProcessIovData([Cur EXCEPT !.zerotimer = @ \cup {<<"next", c>>}], c, wire[c], bad)
       IN \E t \in TrySendRequest(s, c) : Become([t EXCEPT !.wire[c] = {}])

-----------------------------------------------------------------------------
(* Requests, blocks and pieces *)

\* bt_swarm_sched_request_t::neoip_timeout_expire_cb
RequestTimeout(c, b) ==
    /\ "timeout" \in Adversity
    /\ <<c, b>> \in pending
    /\ Become([Cur EXCEPT !.pending = @ \ {<<c, b>>}, !.expired = @ \cup {<<c, b>>}])

\* Mutant: the check starts when every block of the piece has come.
IoWriteDoneEarly(b) ==
    /\ b \in writing
    /\ LET s == [Cur EXCEPT !.writing = @ \ {b}, !.written = @ \cup {b}]
           p == PieceOf(b)
       IN Become([s EXCEPT !.hashing = IF Blocks(p) \subseteq s.written \cup s.writing
                                       THEN @ \cup {p} ELSE @])

\* neoip_bt_io_write_cb, notify_block_completion: the last block of a piece
\* starts the check.
IoWriteDone(b) ==
    /\ b \in writing
    /\ LET s == [Cur EXCEPT !.writing = @ \ {b}, !.written = @ \cup {b}]
           p == PieceOf(b)
       IN Become([s EXCEPT !.hashing = IF Blocks(p) \subseteq s.written THEN @ \cup {p} ELSE @])

\* Mutant: the piece is declared available whatever its hash.
PieceHashedUnchecked(p) ==
    /\ p \in hashing
    /\ Become([Cur EXCEPT !.hashing = @ \ {p}, !.dling = @ \ {p},
                          !.local_pavail = @ \cup {p}])

\* neoip_bt_piece_cpuhash_cb, or the zero-timer when there is no hash to check.
PieceHashed(p) ==
    /\ p \in hashing
    /\ LET ok == DoPiecehash => Blocks(p) \cap corrupt = {}
       IN Become(IF ok THEN [Cur EXCEPT !.hashing = @ \ {p}, !.dling = @ \ {p},
                                        !.local_pavail = @ \cup {p}]
                 ELSE DeletePieces(Cur, {p}))

\* The precedences change; notify_pieceprec_change deletes the pieces that are
\* not needed any more and tries the idle connections.
PieceprecChange(N) ==
    /\ N # needed
    /\ LET s == DeletePieces([Cur EXCEPT !.needed = N], dling \ N)
       IN \E t \in TrySendRequestOnIdleCnx(s) : Become(t)

\* bt_swarm_t::declare_piece_nomore_avail, for a piece that is not needed; a peer
\* that waits for a block of it is disconnected.
PieceNomoreAvail(p) ==
    /\ p \in local_pavail \ needed
    /\ LET s == [Cur EXCEPT !.local_pavail = @ \ {p}, !.written = @ \ Blocks(p),
                            !.corrupt = @ \ Blocks(p)]
           walk[n \in 0 .. Len(full_db)] ==
               IF n = 0 THEN {s}
               ELSE UNION {IF "close" \in Adversity
                           THEN {t} \cup CnxClosedFrom(t, full_db[n]) ELSE {t} : t \in walk[n - 1]}
       IN \E t \in walk[Len(full_db)] : Become(t)

-----------------------------------------------------------------------------
Next ==
    \/ \E c \in Full : \/ CnxOpened(c)
                       \/ CnxClosed(c)
                       \/ UnauthReq(c)
                       \/ DoauthReq(c)
                       \/ \E P \in SUBSET Piece : PieceBfield(c, P)
                       \/ \E p \in Piece : PieceIsavail(c, p) \/ PieceUnavail(c, p)
                       \/ \E b \in wire[c], ok \in Genuine : BlockRep(c, b, ok)
    \/ \E c \in Ecnx : \/ \E P \in SUBSET Piece : EcnxOpened(c, P)
                       \/ EcnxClosed(c)
                       \/ NextIov(c)
                       \/ KillIov(c)
                       \/ \E b \in wire[c] : \E bad \in CorruptSets(UpTo(c, b)) : EcnxProgress(c, b, bad)
                       \/ \E bad \in CorruptSets(wire[c]) : EcnxIovDone(c, bad)
    \/ \E r \in pending : RequestTimeout(r[1], r[2])
    \/ \E b \in Block : IoWriteDone(b)
    \/ \E p \in Piece : PieceHashed(p) \/ PieceNomoreAvail(p)
    \/ \E N \in Wanted : PieceprecChange(N)

Spec == Init /\ [][Next]_vars

\* The disk and the hash finish, and the other end answers what it lets one ask.
\* Nothing is assumed of its coming, going, authorizing and announcing.
Fairness ==
    /\ \A c \in Full, b \in Block : WF_vars(BlockRep(c, b, TRUE))
    /\ \A c \in Ecnx : WF_vars(NextIov(c)) /\ WF_vars(EcnxIovDone(c, {}))
    /\ \A b \in Block : WF_vars(IoWriteDone(b))
    /\ \A p \in Piece : WF_vars(PieceHashed(p))

FairSpec == Spec /\ Fairness

-----------------------------------------------------------------------------
(* Properties *)

\* Types; what a bt_piece_cpuhash_t checks is a piece that still exists.
TypeOK ==
    /\ remote_pavail \in [Cnx -> SUBSET Piece]
    /\ other_doauth \in [Cnx -> BOOLEAN]
    /\ bfield_seen \subseteq Full
    /\ remote_pfreq \in [Piece -> Nat]
    /\ needed \subseteq Piece
    /\ local_pavail \subseteq Piece
    /\ hashing \subseteq dling /\ dling \subseteq Piece
    /\ block_db \subseteq Block /\ writing \subseteq Block /\ written \subseteq Block
    /\ corrupt \subseteq writing \cup written
    /\ pending \subseteq Cnx \X Block /\ expired \subseteq Cnx \X Block
    /\ wire \in [Cnx -> SUBSET Block]
    /\ zerotimer \subseteq {"next", "kill"} \X Ecnx

Open(c) == IsFullCnx(c) \/ IsEcnx(c)

\* Whatever closes, is refused, completes elsewhere or is not needed any more, a
\* request is on an open connection that accepts it and offers its piece, for a
\* block that is still to come (unless a late PIECE_BFIELD takes back what a peer
\* offered, "bfield_late").
RequestsLive ==
    \A r \in pending \cup expired :
        /\ Open(r[1]) /\ other_doauth[r[1]]
        /\ PieceOf(r[2]) \in remote_pavail[r[1]] \cap dling \cap needed
        /\ r[2] \in block_db

\* A request that timed out stays on its connection while its block is asked of
\* another one: even so, no two requests of a block are pending, and a connection
\* never has more requests than its queue may hold, those that timed out included
\* (bt_swarm_sched_block_t::state_cpu, try_send_request).
RequestLimits ==
    /\ \A b \in Block : Cardinality({c \in Cnx : <<c, b>> \in pending}) <= 1
    /\ \A c \in Cnx : Cardinality(Requests(Cur, c)) <= ReqNbMax

\* A piece that is announced to the peers has all its content on the disk, the one
\* the hash stands for, whatever the connections sent (neoip_bt_piece_cpuhash_cb).
AvailVerified ==
    DoPiecehash => \A p \in local_pavail : Blocks(p) \subseteq written \ corrupt

\* A piece is checked when, and only when, its last block is on the disk, and never
\* stays complete without a check under way (notify_block_completion).
DownloadedIsChecked ==
    /\ local_pavail \cap dling = {}
    /\ \A p \in dling : p \in hashing <=> Blocks(p) \subseteq written

\* remote_pfreq is the number of open connections that offer a piece, through every
\* opening, announcement, withdrawal and closing, as long as each peer sends its
\* PIECE_BFIELD once and before any PIECE_ISAVAIL: a bitfield is counted as a whole,
\* what was counted before included ("bfield_late" makes it fail).
PfreqExact ==
    \A p \in Piece :
        remote_pfreq[p] = Cardinality({c \in Cnx : Open(c) /\ p \in remote_pavail[c]})

\* A server with requests has an answer under way or the zero-timer that asks for
\* one (next_iov_zerotimer, against kill_iov_zerotimer).
IovScheduled ==
    \A c \in Ecnx : Requests(Cur, c) # {} => wire[c] # {} \/ <<"next", c>> \in zerotimer

\* What is on the disk is not written again by a late reply, and goes only with its
\* whole piece (parse_block_rep, ~bt_swarm_sched_piece_t).
NoRewrite ==
    [][\A b \in written : \/ b \in written' \ writing'
                          \/ (PieceOf(b) \notin dling' \cup local_pavail') /\ b \notin writing']_vars

\* A needed piece that some connection offers, and accepts requests for, from some
\* moment on, is downloaded, although the other connections withdraw their
\* authorization with requests pending (parse_unauth_req, try_send_request_on_idle_cnx).
Progress ==
    \A p \in Piece, c \in Cnx :
        <>[](Open(c) /\ other_doauth[c] /\ p \in remote_pavail[c] \cap needed)
            => <>(p \in local_pavail)
=============================================================================
