------------------------------- MODULE SwarmCnx -------------------------------
(***************************************************************************)
(* One direction of a connection between two bt_swarm_full_t: an uploader  *)
(* that authorizes requests, queues its commands in a bt_swarm_full_sendq_t*)
(* and reads the blocks it answers with from the disk, and a downloader    *)
(* that requests and cancels blocks.  The TCP connection between them does *)
(* not lose or reorder; the socket of the uploader has a limited xmitbuf.  *)
(*                                                                         *)
(* The scheduler at each end is the environment: which block is requested, *)
(* cancelled or dropped and when the authorization changes is free.        *)
(***************************************************************************)
EXTENDS Naturals, Sequences, FiniteSets

CONSTANTS
    Block,            \* the blocks the uploader has
    NoBlock,          \* not a block: the argument of other commands, no read
    RepLen,           \* length of a BLOCK_REP, the other commands counting 1
    XmitbufMaxlen,    \* xmitbuf_maxlen() of the socket
    MaxCmd            \* bound: commands under way in both directions

ASSUME SwarmCnxAssumption ==
    /\ NoBlock \notin Block
    /\ RepLen \in Nat \ {0} /\ XmitbufMaxlen \in Nat /\ RepLen <= XmitbufMaxlen
    /\ MaxCmd \in Nat

VARIABLES
    local_doauth,     \* uploader: m_local_doauth_req
    cmd_queue,        \* uploader: commands not given to the socket yet
    bt_io_read,       \* uploader: the block being read, or NoBlock
    usedlen, tshold,  \* uploader's socket: xmitbuf_usedlen, maysend_tshold
    down,             \* external: commands given to the socket, not received
    other_doauth,     \* downloader: m_other_doauth_req
    requests,         \* downloader: request_db of its bt_swarm_full_sched_t
    up                \* external: commands on the way to the uploader

vars == <<local_doauth, cmd_queue, bt_io_read, usedlen, tshold, down,
          other_doauth, requests, up>>
downloader == <<other_doauth, requests>>

CmdType == {"block_rep", "doauth_req", "unauth_req", "other"}
Cmd == {[type |-> t, block |-> NoBlock] : t \in CmdType \ {"block_rep"}}
           \cup [type : {"block_rep"}, block : Block]
UpCmd == [type : {"block_req", "block_del"}, block : Block]

Rep(b) == [type |-> "block_rep", block |-> b]
Plain(t) == [type |-> t, block |-> NoBlock]
CmdLen(cmd) == IF cmd.type = "block_rep" THEN RepLen ELSE 1

TotalLen(q) ==
    LET sum[n \in 0 .. Len(q)] == IF n = 0 THEN 0 ELSE sum[n - 1] + CmdLen(q[n])
    IN sum[Len(q)]

\* The schedulers add a command only below the bound.
BelowBound == Len(cmd_queue) + Len(down) + Len(up) < MaxCmd

Init ==
    /\ local_doauth = FALSE /\ other_doauth = FALSE
    /\ cmd_queue = <<>> /\ bt_io_read = NoBlock
    /\ usedlen = 0 /\ tshold = 0
    /\ down = <<>> /\ up = <<>>
    /\ requests = {}

-----------------------------------------------------------------------------
(* bt_swarm_full_sendq_t *)

sendq == <<cmd_queue, bt_io_read, usedlen, tshold, down>>

\* Mutant: commands are sent without looking at the room.
FillSocketXmitbufNoRoom(q, rd, used, d) ==
    LET reps == {n \in DOMAIN q : q[n].type = "block_rep"}
        n == IF reps = {} THEN Len(q) ELSE (CHOOSE m \in reps : \A k \in reps : m <= k) - 1
        rest == SubSeq(q, n + 1, Len(q))
    IN /\ cmd_queue' = rest
       /\ down' = d \o SubSeq(q, 1, n)
       /\ usedlen' = used + n
       /\ tshold' = tshold
       /\ bt_io_read' = IF rest # <<>> /\ rd = NoBlock THEN rest[1].block ELSE rd

\* fill_socket_xmitbuf and send_front_cmd, for the queue q with rd being read, when
\* the socket holds used bytes and has been given d.  It sends up to the first
\* BLOCK_REP what fits; what stops it is the room, and maysend_tshold is set, or a
\* BLOCK_REP, whose read is launched.
FillSocketXmitbuf(q, rd, used, d) ==
    LET fits == {n \in 0 .. Len(q) : /\ used + n <= XmitbufMaxlen
                                     /\ \A k \in 1 .. n : q[k].type # "block_rep"}
        n == CHOOSE m \in fits : \A k \in fits : k <= m
        rest == SubSeq(q, n + 1, Len(q))
        noroom == rest # <<>> /\ XmitbufMaxlen - (used + n) < CmdLen(rest[1])
    IN /\ cmd_queue' = rest
       /\ down' = d \o SubSeq(q, 1, n)
       /\ usedlen' = used + n
       /\ tshold' = IF noroom THEN CmdLen(rest[1]) ELSE tshold
       /\ bt_io_read' = IF rest # <<>> /\ ~noroom /\ rd = NoBlock THEN rest[1].block ELSE rd

\* queue_cmd
QueueCmd(cmd) == FillSocketXmitbuf(Append(cmd_queue, cmd), bt_io_read, usedlen, down)

\* Place of the first BLOCK_REP for b in the queue, 0 if there is none.
FirstRep(b) ==
    LET at == {n \in DOMAIN cmd_queue : cmd_queue[n] = Rep(b)}
    IN IF at = {} THEN 0 ELSE CHOOSE n \in at : \A m \in at : n <= m

Erase(n) == SubSeq(cmd_queue, 1, n - 1) \o SubSeq(cmd_queue, n + 1, Len(cmd_queue))

\* Mutant: the read goes on although its command is deleted.
RemoveOneBlockRepKeepsRead(b) ==
    IF FirstRep(b) = 0 THEN UNCHANGED sendq
    ELSE FillSocketXmitbuf(Erase(FirstRep(b)), bt_io_read, usedlen, down)

\* remove_all_block_rep: what it leaves of the queue.
WithoutBlockRep(q) ==
    LET keep[n \in 0 .. Len(q)] ==
            IF n = 0 THEN <<>>
            ELSE IF q[n].type = "block_rep" THEN keep[n - 1] ELSE Append(keep[n - 1], q[n])
    IN keep[Len(q)]

\* Mutant: a BLOCK_DEL removes every BLOCK_REP.
RemoveOneBlockRepAll(b) ==
    FillSocketXmitbuf(WithoutBlockRep(cmd_queue), NoBlock, usedlen, down)

\* remove_one_block_rep: the first one for b, with its read.
RemoveOneBlockRep(b) ==
    IF FirstRep(b) = 0 THEN UNCHANGED sendq
    ELSE FillSocketXmitbuf(Erase(FirstRep(b)), IF FirstRep(b) = 1 THEN NoBlock ELSE bt_io_read,
                           usedlen, down)

\* Mutant: a BLOCK_REP lets the commands behind it pass first.
IoReadDoneYields ==
    /\ bt_io_read # NoBlock
    /\ IF Len(cmd_queue) > 1
       THEN FillSocketXmitbuf(Append(Tail(cmd_queue), Head(cmd_queue)), NoBlock, usedlen, down)
       ELSE FillSocketXmitbuf(<<>>, NoBlock, usedlen + RepLen, Append(down, Head(cmd_queue)))
    /\ UNCHANGED <<local_doauth, downloader, up>>

\* neoip_bt_io_read_cb: the command in front leaves with the data that was read.
IoReadDone ==
    /\ bt_io_read # NoBlock
    /\ FillSocketXmitbuf(Tail(cmd_queue), NoBlock, usedlen + CmdLen(Head(cmd_queue)),
                         Append(down, Head(cmd_queue)))
    /\ UNCHANGED <<local_doauth, downloader, up>>

\* Mutant: MAYSEND_ON is not notified.
TransmitNoMaysend(n) ==
    /\ n <= usedlen
    /\ usedlen' = usedlen - n
    /\ UNCHANGED <<cmd_queue, bt_io_read, tshold, down, local_doauth, downloader, up>>

\* tcp_full_t: the system takes n bytes; MAYSEND_ON is notified (notify_maysend)
\* when the free length crosses the threshold.
Transmit(n) ==
    /\ n <= usedlen
    /\ IF XmitbufMaxlen - usedlen < tshold /\ tshold <= XmitbufMaxlen - (usedlen - n)
       THEN FillSocketXmitbuf(cmd_queue, bt_io_read, usedlen - n, down)
       ELSE usedlen' = usedlen - n /\ UNCHANGED <<cmd_queue, bt_io_read, tshold, down>>
    /\ UNCHANGED <<local_doauth, downloader, up>>

-----------------------------------------------------------------------------
(* The uploader *)

\* set_doauth_req(false): the UNAUTH_REQ is queued, then remove_all_block_rep.
\* What queue_cmd sends before the removal is what fill_socket_xmitbuf would send
\* after it, unless a BLOCK_REP is in front; a read it launches is deleted at once.
SetUnauthReq ==
    /\ local_doauth
    /\ BelowBound
    /\ local_doauth' = FALSE
    /\ FillSocketXmitbuf(Append(WithoutBlockRep(cmd_queue), Plain("unauth_req")), NoBlock,
                         usedlen, down)
    /\ UNCHANGED <<downloader, up>>

\* set_doauth_req(true)
SetDoauthReq ==
    /\ ~local_doauth
    /\ BelowBound
    /\ local_doauth' = TRUE
    /\ QueueCmd(Plain("doauth_req"))
    /\ UNCHANGED <<downloader, up>>

\* A command without effect on requests: KEEPALIVE (neoip_timeout_expire_cb of the
\* queue), PIECE_ISAVAIL (declare_piece_newly_avail).
SendOther ==
    /\ BelowBound
    /\ QueueCmd(Plain("other"))
    /\ UNCHANGED <<local_doauth, downloader, up>>

\* Mutant: requests are answered whatever the authorization.
ParseBlockReqUnauth ==
    /\ up # <<>> /\ Head(up).type = "block_req"
    /\ up' = Tail(up)
    /\ QueueCmd(Rep(Head(up).block))
    /\ UNCHANGED <<local_doauth, downloader>>

\* parse_block_req
ParseBlockReq ==
    /\ up # <<>> /\ Head(up).type = "block_req"
    /\ up' = Tail(up)
    /\ IF local_doauth THEN QueueCmd(Rep(Head(up).block)) ELSE UNCHANGED sendq
    /\ UNCHANGED <<local_doauth, downloader>>

\* parse_block_del
ParseBlockDel ==
    /\ up # <<>> /\ Head(up).type = "block_del"
    /\ up' = Tail(up)
    /\ RemoveOneBlockRep(Head(up).block)
    /\ UNCHANGED <<local_doauth, downloader>>

-----------------------------------------------------------------------------
(* The downloader *)

uploader == <<local_doauth, cmd_queue, bt_io_read, usedlen, tshold>>

\* sched_req_dolink_start, from try_send_request
RequestBlock(b) ==
    /\ other_doauth /\ b \notin requests
    /\ BelowBound
    /\ requests' = requests \cup {b}
    /\ up' = Append(up, [type |-> "block_req", block |-> b])
    /\ UNCHANGED <<uploader, down, other_doauth>>

\* sched_req_cancel: another connection gave the block.
CancelRequest(b) ==
    /\ b \in requests
    /\ BelowBound
    /\ requests' = requests \ {b}
    /\ up' = Append(up, [type |-> "block_del", block |-> b])
    /\ UNCHANGED <<uploader, down, other_doauth>>

\* The request is deleted with its piece, without a BLOCK_DEL.
DropRequest(b) ==
    /\ b \in requests
    /\ requests' = requests \ {b}
    /\ UNCHANGED <<uploader, down, other_doauth, up>>

\* parse_recved_data: the next command is there once all its bytes are.
Arrived(t) ==
    /\ down # <<>> /\ Head(down).type = t
    /\ usedlen <= TotalLen(Tail(down))
    /\ down' = Tail(down)

\* parse_block_rep: without a matching request it is discarded.
ParseBlockRep ==
    /\ Arrived("block_rep")
    /\ requests' = requests \ {Head(down).block}
    /\ UNCHANGED <<uploader, other_doauth, up>>

ParseDoauthReq ==
    /\ Arrived("doauth_req")
    /\ other_doauth' = TRUE
    /\ UNCHANGED <<uploader, requests, up>>

\* parse_unauth_req_cmd, with parse_unauth_req of the scheduler
ParseUnauthReq ==
    /\ Arrived("unauth_req")
    /\ other_doauth' = FALSE
    /\ requests' = {}
    /\ UNCHANGED <<uploader, up>>

ParseOther ==
    /\ Arrived("other")
    /\ UNCHANGED <<uploader, requests, other_doauth, up>>

-----------------------------------------------------------------------------
Next ==
    \/ SetDoauthReq \/ SetUnauthReq \/ SendOther
    \/ ParseBlockReq \/ ParseBlockDel
    \/ IoReadDone
    \/ \E n \in 1 .. XmitbufMaxlen : Transmit(n)
    \/ \E b \in Block : RequestBlock(b) \/ CancelRequest(b) \/ DropRequest(b)
    \/ ParseBlockRep \/ ParseDoauthReq \/ ParseUnauthReq \/ ParseOther

Spec == Init /\ [][Next]_vars

\* The event loops of both ends, the disk and TCP go on; nothing is assumed of the
\* schedulers.
Fairness ==
    /\ WF_vars(ParseBlockReq) /\ WF_vars(ParseBlockDel)
    /\ WF_vars(IoReadDone)
    /\ WF_vars(Transmit(1))
    /\ WF_vars(ParseBlockRep) /\ WF_vars(ParseDoauthReq)
    /\ WF_vars(ParseUnauthReq) /\ WF_vars(ParseOther)

FairSpec == Spec /\ Fairness

-----------------------------------------------------------------------------
(* Properties *)

\* Types; the socket never holds more than its limit, and the bytes it holds
\* are of commands that have not been received.
TypeOK ==
    /\ local_doauth \in BOOLEAN /\ other_doauth \in BOOLEAN
    /\ cmd_queue \in Seq(Cmd) /\ down \in Seq(Cmd) /\ up \in Seq(UpCmd)
    /\ bt_io_read \in Block \cup {NoBlock}
    /\ usedlen \in 0 .. XmitbufMaxlen /\ tshold \in 0 .. XmitbufMaxlen
    /\ usedlen <= TotalLen(down)
    /\ requests \subseteq Block

\* Whatever is queued, cancelled or removed during a read, the block that is read is
\* that of the command in front, and the socket keeps the room for it: what
\* neoip_bt_io_read_cb asserts, and what makes a BLOCK_REP atomic.
ReadIsFront ==
    bt_io_read # NoBlock =>
        /\ cmd_queue # <<>> /\ Head(cmd_queue) = Rep(bt_io_read)
        /\ usedlen + RepLen <= XmitbufMaxlen

\* A queue that is not empty is waiting for a read, or for a threshold the free
\* length has yet to cross: it is never left without an event to come.
QueueIsDriven ==
    cmd_queue # <<>> =>
        bt_io_read # NoBlock \/ XmitbufMaxlen - usedlen < tshold

Stream == down \o cmd_queue
IsIn(s, cmd) == \E n \in DOMAIN s : s[n] = cmd

\* A request the downloader waits for has not been lost: it is on its way, or its
\* answer is, or the UNAUTH_REQ that deletes it is.
NoLostRequest ==
    \A b \in requests :
        \/ IsIn(up, [type |-> "block_req", block |-> b])
        \/ IsIn(Stream, Rep(b))
        \/ IsIn(Stream, Plain("unauth_req"))

\* An UNAUTH_REQ is final: no BLOCK_REP follows before a DOAUTH_REQ, so that the
\* downloader may forget its requests when it receives it; and once the last of
\* these commands has come, the two ends agree on the authorization.
UnauthIsFinal ==
    /\ \A i, j \in DOMAIN Stream :
          i < j /\ Stream[i].type = "unauth_req" /\ Stream[j].type = "block_rep"
              => \E k \in i .. j : Stream[k].type = "doauth_req"
    /\ (\A n \in DOMAIN Stream : Stream[n].type \notin {"doauth_req", "unauth_req"})
          => other_doauth = local_doauth

\* Every request is answered, or withdrawn by one of the two ends, however often the
\* authorization changes and whatever else is queued.
EventuallyAnswered == \A b \in Block : b \in requests ~> b \notin requests
=============================================================================
