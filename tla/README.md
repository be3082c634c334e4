# A TLA+ model of neoip

neoip is a C++ network library: an event loop, a socket layer that runs the same
API over several transports, a stack of small protocol *bricks* (`nlay`) that
adds reliability, order, closure, reachability and fragmentation to datagrams,
and, above them, NAT traversal, Kademlia, BitTorrent and live casting. This
directory models the part everything else stands on, a datagram connection from
its sequence numbers to its last packet, and the part most of the rest is for: how
a BitTorrent swarm downloads, from the choice of a block to the checked piece, how
a connection between two peers serves it, and how the cache in front of the disk
keeps what was written.

Everything in neoip is single threaded. Objects talk by synchronous callbacks
from one event loop, so concurrency comes from three places: packets (lost,
duplicated, reordered), timers, and *zero-timers*, by which an object defers the
rest of its work to the next round of the loop; and, above, from disk reads, disk
writes and hashes that finish later. In the models one action is one
callback of the loop or one call of the user, with everything it calls.

## 1. Inventory

| part | state | operations | interacts with |
|---|---|---|---|
| `wai_t` (`neoip_netutils/wai`) | one unsigned number | `<`, `>`, `++` by signed difference | every sequence number |
| `rdgram_t` (`neoip_proto/rdgram`) | send buffer by seqnb, its byte count and limit, MAYSEND threshold, list of acks to send, two zero-timers | send, retransmit, receive data or ack, ack zero-timer, MAYSEND zero-timer, set limit or threshold, stop | asks the layer above whether to accept a packet |
| `ordgram_t` (`neoip_proto/ordgram`) | an `rdgram_t`, receive buffer by seqnb, its byte count, next seqnb to deliver, zero-timer | accept, buffer, deliver through the filter, deliver by the zero-timer | `rdgram_t` below, brick above |
| `reachpeer_t` (`neoip_proto/reachpeer`) | probing timer and its policy, reply zero-timer | start, stop, proof, probe or verdict, echo request, echo reply | every packet of the stack is a proof |
| `nlay_closure_t` (`neoip_nlay_brick/closure`) | NONE / ITOR / RESP / COMPLETED, retransmission timer, queue of packets to parse, two zero-timers | start_closure, four packets, timer, last words on destruction | the peer's closure, the socket |
| `nlay_full_t` (`neoip_nlay/full`) | list of bricks, packet-type registry | filter up and down, forward events, start closure, destroy | bricks, socket |
| `socket_full_udp_t`, `socket_full_close_udp_t` (`neoip_socket/udp/full`) | owner (user or close object), fatal event reported, linger timer | events of the stack and of the udp socket, glue destruction, linger, closure, autodelete | user, stack, layer |
| `nlay_idletimeout_t` | timer | rearm, expire, stop | stack |
| `pktfrag_t` (`neoip_proto/pktfrag`) | next seqnb, MTU, pending datagrams by seqnb with their fragments | cut, set MTU, add fragment, complete, refuse, expire | brick `nlay_pktfrag_t` |
| `nlay_nego/itor/resp` | negotiation state, timers | request, reply, refuse, time out | socket itor/resp |
| `bt_swarm_sched_t`, `_full_t`, `_ecnx_t`, `_piece_t`, `_block_t`, `_request_t` (`neoip_bt_core/swarm/sched`) | pieces being downloaded, their blocks, requests pending or expired, precedences, piece frequencies | connection opened, closed, (un)authorized, pieces offered and withdrawn, reply, timeout, write done, hash done, precedence change, resume | connections, disk, piece selection |
| `bt_http_ecnx_cnx_t` (`neoip_bt_plugin/ecnx`) | the GET under way, two zero-timers | gather, launch, progress, done, kill | scheduler |
| `bt_swarm_full_t`, `bt_swarm_full_sendq_t` (`neoip_bt_core/swarm/full`) | command queue, disk read under way, authorizations, requests | queue, fill the socket, read done, remove replies, parse commands | socket, disk, the other peer |
| `bt_io_cache_t` and its pool, block, blkrd, blkwr, read, write, stopping (`neoip_bt_plugin/io/impl/cache`) | blocks by position with NONE / CLEAN / DIRTY / CLEANING, their order of use, disk reads and writes under way, the error of a delayed write | read, write, give a request up, clean, evict, remove a piece, stop | swarm above, files by piece (`bt_io_pfile_t`) below |
| ntudp, kad, router, http, upnp, rtmp, ... | | | listed in `PROJECT.json` |

What is hard here, and what correct means:

* **Reliability.** The network loses, duplicates and reorders. A packet must
  leave the send buffer only when it is safe at the other end, the user must see
  the packets in order and once, the sequence numbers must survive their
  wrap-around, and byte counters kept incrementally must stay exact.
* **Deferred work.** What a zero-timer is to do is decided when it is started
  and done when it runs; packets arrive in between. Nothing may be forgotten in
  a buffer, and a notification must be true when it is made.
* **Time.** The answer to a probe races the verdict. A living peer must not be
  called dead, a dead one must be found out in time.
* **Closure.** Two ends may close at once, an end may vanish, the objects that
  run the handshake are deleted from inside their own callbacks, and an event
  meant for one owner of a socket may reach the next one.
* **Reassembly.** Fragments of several datagrams, cuts and copies are under way at
  once, and numbers are used again. What comes out must be what went in.
* **Downloading.** A block is asked of one connection and may come from another,
  late, twice, or wrong; connections close, refuse and withdraw with requests
  pending, and the user stops needing what is being fetched. Nothing may be
  announced that was not checked, asked twice at a time, or forgotten while a
  connection could serve it.
* **Serving.** A reply is read from the disk while its request is cancelled or its
  authorization withdrawn, and the socket takes what it has room for. The queue
  must not stall and no request may get lost between two changes of mind.
* **Caching.** A block is rewritten while its old content is on its way to disk,
  evicted, read back, removed with its file, and the caller was told of success long
  before. What was written last must be what is read and what is on disk at the end.

The hazards, each at its line, are in `PROJECT.json` with the properties that
watch them.

## 2. Modules

Instances for TLC are the `MC*.cfg` files; each run names its module and its cfg.

| module | models | role |
|---|---|---|
| `Wai` | `neoip_wai.hpp` | arithmetic, the width is the constant `SeqMod` |
| `Rdgram` | `neoip_rdgram.cpp` | sender, ack scheduling, network; extended by the next three |
| `NlayRdgram` | `rdgram_t` + `nlay_rdgram_t` | a connection of type RDM |
| `Ordgram` | `ordgram_t` on `rdgram_t` | a reliable ordered connection |
| `OrdChannel` | | what such a connection promises: an abstract FIFO channel |
| `NlayOrdgram` | `ordgram_t` + `nlay_ordgram_t` + `nlay_full_t` + socket | a connection of type SEQPACKET, both delivery paths |
| `Reachpeer` | `reachpeer_t` + `timer_probing_t` + `nlay_reachpeer_t` | reachability, in discrete time |
| `SocketUdpClose` | `nlay_closure_t` + `socket_full_udp_t` + `socket_full_close_udp_t` | how a socket ends, both peers |
| `Pktfrag` | `pktfrag_t` + `nlay_pktfrag_t` | fragmentation, network, reassembly |
| `DgramChannel` | | what it promises: an abstract unreliable datagram service |
| `SwarmSched` | `bt_swarm_sched_t` and its parts, `bt_pselect_fixed_t`, `bt_http_ecnx_cnx_t` | the download scheduler with its peers and servers |
| `MCSwarmSched` | | two pieces, of one and of two blocks |
| `SwarmCnx` | `bt_swarm_full_t`, `bt_swarm_full_sendq_t`, the send side of `tcp_full_t` | serving: one direction of a connection between peers, both ends |
| `BtIoCache` | `bt_io_cache_t` in delayed-write mode over `bt_io_pfile_t` | the disk cache of a swarm |
| `MCBtIoCache` | | a file of three blocks in two pieces; the callers are symmetric |
| `RdgramProofs` | | theorems about `Ordgram`, `NlayOrdgram` and `NlayRdgram` |
| `ReachpeerProofs`, `SocketUdpCloseProofs`, `PktfragProofs`, `SwarmSchedProofs`, `SwarmCnxProofs`, `BtIoCacheProofs` | | theorems about the module of that name |
| `NatLemmas` | | what several proofs need: induction, recursion over `0 .. N`, sums over finite sets, arithmetic modulo a number |

Variables keep the names of the members they stand for. History variables
(`sent`, `delivered`, `recved`, `copies`, `maysend_fresh`, `silence`, `lost`,
`truth`, the fields `end`, `id` and `twice`) record what happened and no guard of the code's actions reads them,
except that `Rdgram` and `Pktfrag` use `Len(sent)` for the bound on the number of
packets, `Rdgram` for the window explained below, and `BtIoCache` reads `truth` where
a caller asks only for pieces that were downloaded.

**Rdgram / Ordgram.** A payload is its rank among the packets sent and its
length: the code looks at nothing else. A datagram stays in `net` until it is
lost, so it can be received any number of times and in any order. Retransmission
delays are abstracted: a packet of the send buffer may be retransmitted at any
time. `SENDBUF_FULL` and a refused packet change nothing, so they are disabled
actions. `ZerotimerDeliver` finds the number of packets the delivery loop takes
with an existential instead of a loop.

`wai_t` "ASSUMES the difference between 2 numbers is lower than 2^31", and
nothing in `rdgram_t` enforces that. The model says who is responsible: a
packet is sent only while everything left of older packets (copies in the
network, acks, buffers) is less than `SeqWindow < SeqMod / 2` packets old. This
is a condition on the environment (2^31 packets do not overtake a copy of an old
one), stated in `RdgramWindowOpen` and `RecvbufWindowOpen`.

**NlayOrdgram** adds how a delivered packet leaves the stack: through the packet
filter when it was next in order, as an event of the stack otherwise.

**Reachpeer.** `due` is what the timer has left, and a timer that is due expires
before the clock moves. A packet that is not lost arrives within `NetDelay`.
The set of ages of packets in flight stands for the packets: two probes of the
same age are the same to the code. Time stops being interesting, and stops, when
the test is stopped or has given its verdict.

**SocketUdpClose.** A callback runs through closure, stack, socket and owner in
one go, so a peer is one record and each function of the code is an operator
from record to record; the actions at the end are the callbacks. `phase` says
who owns the socket. The send buffer is empty or not (`pending`), as the linger
sees it. Assumptions about what is around the code:

* a user who is told of a fatal event deletes its socket from the callback, as
  the users in the repository do (`bt_swarm_full_t`, for one, answers every fatal
  event with `autodelete()`, `neoip_bt_swarm_full.cpp:358`);
* the queue of packets to parse is handled one packet at a time: parsing the
  rest later is the same as having received it later, and packets received in
  between are covered;
* `Builds` are the builds considered: in the default one a failed `DBG_ASSERT`
  aborts the process; without assertions the code goes on;
* reachpeer gives up on the other end only when it is gone or a packet was lost,
  which is what the theorems of `Reachpeer` establish for a sound profile;
* memory that is never initialised (the `state` of a close object in autodelete
  mode) holds any value;
* a deleted object whose caller goes on is phase `failed`: what the program does
  after that is undefined.

**Pktfrag.** A packet is the interval of a datagram it carries; `id`, the datagram,
is known to the properties only. A packet that fits the MTU passes the brick as it
is. `net` counts the copies of each packet, so that the properties can say how often
a datagram may arrive. The loop of `is_complete` is the existence of the set of
offsets it visits. `pool_cur_size` is 0 for ever: nothing updates it. A sequence
number is used again only when nothing of its last datagram is left (`SeqnbFree`):
in the code 2^32 datagrams against an expiry of seconds.

**SwarmSched.** The handlers call one another synchronously and every one may end in
another try at every idle connection, so an action is a chain of functions on a
record of the whole state (`Cur`, `Become`); the choice of the next piece returns a
set where the code's preference (precedence level, wishes, index hint) is left open.
The indices the code keeps of its state (NEEDREQ lists, intervals of blocks never
requested) are computed from it. A peer's `wire` is what it may still send, which
outlives the request; a server's is the range of its GET. `Adversity` switches what
the environment may do, so that a run can ask what it takes to break a property.
Disk errors, which end the swarm, and the endgame's shorter timeout are left out.

**SwarmCnx.** The commands of both directions are sequences, since TCP keeps them in
order; lengths are counted, since `fill_socket_xmitbuf` and MAYSEND are about
lengths. The schedulers of the two ends may do anything at any time.

**BtIoCache.** The file is cut in cells, the unit of a request; a block is some cells,
a piece, which is a file of its own, some blocks. The content of a cell is the number
of the request that wrote it. The chain from `launch_next_chunk` through the block to
the pool is synchronous, so a request works on a value of the cache and one action is
one callback. A disk operation is a queue of zero-timer steps in the order in which
they were started; a step does one piece and an operation with another piece to do goes
to the end of the queue. (In the code a step does at most 512 KB, `AWRITE_ITERLEN`: a
large piece takes several.) A file that is removed keeps serving the operations that
have it open. Assumptions about what is around the code:

* callers read only what was downloaded, and do not overlap a write of a block with
  another request for it (`Busy`): a piece is read after its blocks are written, and a
  block is written once at a time;
* the build is the default one: an assertion that fails, or the use of a deleted
  object, is a `failure` that ends the program;
* one cache uses the pool, and the pool holds at least a block (the profile only checks
  that its size is positive); write-thru, which nothing configures, is left out;
* `twice` records the blocks a second `bt_io_cache_blkwr_t` took while the first was
  under way: the code promises nothing for them (section 5).

## 3. Runs

The runs of the datagram protocols say `CHECK_DEADLOCK FALSE`: a connection whose
packets are all delivered, or whose ends are both gone, has nothing left to do. So do
the runs of the disk cache: a cache that is stopped does nothing more. The runs of the
swarm check for deadlock, where they pass.

| run | checks | instance |
|---|---|---|
| `seqpacket` | `DeliveredInOrder`, `AckedIsKept`, `RecvbufBounded`, `EventuallyDelivered`, refinement of `OrdChannel` | `NlayOrdgram`: 3 packets of lengths 1 and 2, receive buffer 3, fairness |
| `seqpacket_user` | violates `UserInOrder` | `NlayOrdgram`: 3 packets of length 1 |
| `nlay_rdgram` | `AckedIsDelivered`, `SendbufAccounting`, `MaysendAccurate` | `NlayRdgram`: limits 0, 4, 5; thresholds 0, 2, 3 |
| `reachpeer` | `NoFalseAlarm`, `DetectionBound`, `VerdictOnTime` | silent 2, unreach 9, period 3, trip 1 |
| `close` | `TypeOK`, `RxmitOnlyInExchange`, `DestroyedOnlyToCloser`, `AckedIsMutual`, `CloseTerminates`, `BothSidesClose` | two peers, linger, threshold, loss, quits, both builds, fairness |
| `pktfrag` | `TypeOK`, `AtMostCopies`, refinement of `DgramChannel` | `Pktfrag`: 2 datagrams of lengths 4 and 5, MTU 3 and 4, one sequence number, 2 copies of up to 3 packets |
| `sched` | `TypeOK`, `RequestsLive`, `RequestLimits`, `AvailVerified`, `DownloadedIsChecked`, `PfreqExact`, `IovScheduled`, `NoRewrite` | `SwarmSched`: a peer and a server, pieces of 1 and 2 blocks, queue 2, every adversity but `bfield_late` |
| `sched_live` | `Progress` | two peers, authorizations come and go, fairness |
| `sched_close` | violates `Progress` | two peers, connections close, fairness |
| `swarm_cnx` | `TypeOK`, `ReadIsFront`, `QueueIsDriven`, `NoLostRequest`, `UnauthIsFinal`, `EventuallyAnswered` | `SwarmCnx`: 2 blocks, a socket with room for a reply and a short command, up to 5 commands under way, fairness |
| `io_cache` | `Coherent`, `PoolConsistent`, `StoppedIsDurable`, `WaitIsServed` | `BtIoCache`: 3 blocks of 2 cells, the last one short, 2 pieces, a pool of 2 blocks, 2 callers, 3 writes, cleaning timer, disk full |
| `io_cache_stop` | violates `StoppingCompletes` | one block, one caller, one write, no cleaning timer, fairness |

*Bounds.* Three packets are what it takes for one to be delivered, one buffered
and one refused at the same time, and two lengths for the byte counters to go
wrong by less than a packet. The numbers do not wrap there: the wrap-around is the
subject of the theorems, which hold for every modulus. The receive buffer of 3
can be too full for the next packet, which `EventuallyDelivered` names (`Stalled`), and
is not in most behaviours. In the closing runs the delays are small multiples of
the probe period, so that the initiator sends three requests and the responder
two replies before they give up. One queued packet is enough: packets are parsed
one by one, a copy of each stays in the network, and the queue is filled again
while a zero-timer is pending. In `reachpeer` the period leaves room for a
round trip and the delay for two probes after the silent delay.

In `pktfrag` the lengths and MTUs give cuts of two and of three fragments and packets
that pass whole (length 4, MTU 4), and a pool of 2 refuses the larger fragments of
the larger MTU. `SeqMod` is 1: every datagram has the number of the one before,
the worst case of a wrap-around. Two copies of three packets are a datagram that
comes twice. In `sched` two connections are what it takes for a block to be asked of
one, expire, and be asked of the other; a piece of two blocks can be half written,
half corrupt and half resumed; a queue of 2 can be full of expired requests. The
user may come to need both pieces or the first one (`Wanted`). The runs about
`Progress` need two connections that can replace each other, hence two peers. In
`swarm_cnx` a reply fills the socket but for one short command, so every queue can be
stopped by the room and by a read; five commands under way allow two requests, a
cancellation and both authorization commands to cross. In `io_cache` a request is for
a block, for a part of it (which must be read first) or for blocks of both pieces; three
writes are what it takes for a block to be written, cleaned, rewritten while it is
CLEANING and pushed out by another; a pool of two of three blocks evicts.

*Fairness.* Weak for every timer and zero-timer: the event loop runs what is due
and a zero-timer that is pending is run in the next round. In `NlayOrdgram` the
reception of a packet is strongly fair: a network that loses every copy of what is
retransmitted for ever is no network to promise anything about. Acks need no fairness:
a packet that is received and never acknowledged is only sent again.
In `SocketUdpClose` what the network keeps is received, a living peer
acknowledges, and the linger timeout is one of the timers. In `SwarmSched` the disk, the hash and the server's
zero-timer finish, and a peer answers the requests it accepts; nothing is assumed of
its coming, going, authorizing and announcing. In `SwarmCnx` both event loops, the
disk and TCP go on. In `BtIoCache` the zero-timers of requests and disk operations
expire; the cleaning timer is not fair, because its default delay is infinite. That a
request is answered is stated there as an invariant, `WaitIsServed`. No fairness is assumed of users, errors, losses, timeouts,
schedulers or the death of a peer.

## 4. Theorems

tlapm checks the `*Proofs` modules and `NatLemmas` for every value of the constants
that satisfies the named assumptions of the modules (`SeqModAssumption`,
`RdgramAssumption`, `OrdgramAssumption`, `ReachpeerAssumption`, `CloseAssumption`,
`PktfragAssumption`, `SwarmSchedAssumption`, `SwarmCnxAssumption`,
`BtIoCacheAssumption`): any number of connections, pieces, blocks, packets and requests,
any delay, length and limit.

**Ordgram.** `Inductive`: `Spec => []IndInv`. Order alone is not inductive: that a
packet with the number `next_seqnb_to_deliver` is the right one depends on what
every number in the system stands for. `IndInv` says so: the two counters are
the lengths of `sent` and `delivered` modulo `SeqMod`; each packet, ack and
buffer entry carries the number of its payload and agrees with what was sent; all
are within the window; an ack is in flight only for a payload received. The
lemmas on `Wai` turn this around: two numbers within half the modulus compare as
the ranks they stand for, and equal numbers within the modulus have equal ranks.
The proof has one lemma per action. From it: `Types`, `InOrder`,
`AckLosesNothing`, `NoForgottenPacket`, and `Refinement`
(`Spec => ImplementsChannel`): a packet accepted is a `Send`, a delivery through
the filter is a `Deliver` of one, a delivery by the zero-timer a `Deliver` of
as many as are in order, everything else a stutter. `BufferBounded` adds the byte
counter: `recvbuf_used_len` is at least the sum of what the buffer holds and at most
the limit. An obsolete packet stays charged, so the two are not equal, and
`ZerotimerDeliver` takes several packets away at once: the proof splits the sum
(`LenSumSplit`).

**NlayOrdgram.** Each of its steps is a step of `Ordgram` or leaves its variables
alone, so `NInductive` gives its invariant to a whole SEQPACKET connection.
It is about what `ordgram_t` delivers. What the user of the socket receives is less
(section 5), so there is no theorem about that.

**NlayRdgram.** `RdmInductive`: `RdmSpec => [](BufferInv /\ AccountInv)`. `BufferInv` is the
counterpart of `Ordgram`'s invariant without an order: every number in the send buffer,
in a packet or in an ack stands for the payload it was given to, all of them within the
window, and an ack is only of a payload received. `AccountInv` says that the counter is
the sum of the lengths in the buffer and that the last MAYSEND event is true between two
runs of its zero-timer. The sum is a fold over a set. `NatLemmas` shows, once and by
induction over the subsets of a finite set, that such a fold does not depend on the
order and what a record adds to it (`LenSumAdd`, `LenSumRemove`). From it:
`AckedDelivered`, `AccountingExact`, `MaysendTrue`.

**SocketUdpClose.** `Invariance`: between two callbacks each peer is `Sound` (timers run
and the closure has begun for a close object only, nothing is left of a dead peer), a
packet in the network or in a queue shows that its sender is not open any more, and a
CLOSE_NOW that it died without having been acked. The callbacks are chains of functions
on a record, so the lemmas say what each function returns for every sound record, and
an action is the composition of a few. From it: `TypeCorrect`, `RxmitInExchange`,
`DestroyedToCloser`, `AckedMutual`, for every delay, length of the queue and both
builds.

**Reachpeer.** `ReachpeerInductive`: the total of the policy is the silence plus
what the timer has left (`PolicyClock`), and while nothing is lost a timer set by
a probe has the probe, the reply about to be sent, or a reply in flight, each
young enough to arrive in time (`ProbeUnderway`). From it: `FalseAlarmFree`,
`DetectsInTime`, `VerdictNotEarly`. The condition `SoundProfile` is in the
statement because `reachpeer_profile_t::check()` accepts any profile.

**Pktfrag.** `PktfragInductive`: `Spec => []IndInv`. That a reassembly is intact
follows from four facts that only hold together: every packet of the network is one
the cut of its datagram makes (`PktsAgree`); the fragments alive under one number,
in the network or held, are of one datagram (`OneDgramPerSeqnb`); a pending datagram
keeps each fragment at its offset and knows its length once it holds the last one
(`PendingAgrees`); and it is never complete (`PendingIsPartial`). `CopiesConserved`
counts: copies in the network, held and used are no more than there were. The heart
is `CompleteIsAll`: when the walk of `is_complete` reaches the end, *every* offset of
the cut is there, for any length and MTU. The walk is a loop, and induction over it is
out of the prover's reach; the lemma takes the least offset that is missing
(`LeastNat`, from the well-foundedness of the naturals) and shows that the fragment
before it leads to it. From it: `PktfragTypes`, `ReassemblyIntact`,
`NothingCompleteWaits`, `DeliveredPerCopy`, and `PktfragRefinement`
(`Spec => ImplementsDgram`). The mapping takes the copies of a datagram to be the
least number of copies of any of its packets (`CopiesOf`): a duplicate of a packet is
a duplicate of the datagram when it was the last one missing for that, else a
stutter; a completed reassembly or a whole packet is a `Deliver`.

**SwarmSched.** `Invariance`: `Spec => []IndInv` with `IndInv == Ok(Cur)`, a predicate on
the record the handlers work on. `Ok` has four parts that are only inductive together.
`Disk`: a block is asked for, being written or written, never two of these; what is on
the disk belongs to a piece in progress or available; a piece in progress is being
checked exactly when all of it is written. `Req`: each request is on an open connection
that accepts it, for a block still to come; one is pending per block; no queue is too
long. `Quiet` and `Pfreq`: what a closed connection offers (nothing), and how many offer
a piece. `Iov`: a server with requests has work or a timer. A handler ends in another
try at a set of connections, so the same facts are proved of each function from record
to record (`RequestCtor`, `DeleteRequests`, `DeletePieces`, `CnxDtor`, ...), then of the
loops over queues and connections (`FillQueueCore`, `IdleCnxCore`), then of the actions.
`Core` is what the tries at idle connections need and keep. It leaves out two things
that do not hold in the middle of a handler: that what is in progress is needed, while
the precedences change, and the count of offers, which `~bt_swarm_full_t` takes down
before it tries the others and unlinks the connection.
From it: `TypeCorrect`, `LimitsKept`, `AvailIsVerified`, `DownloadedChecked`,
`IovIsScheduled`, `RewriteNever` (an action property: each handler keeps what is on the
disk or drops its piece, `Keeps`), and `RequestsAreLive` and `PfreqIsExact`. The last two
carry the condition that `"bfield_late"` is not in `Adversity`: they are what a
PIECE_BFIELD that is late or repeated breaks (section 5); the others hold with it too.

**SwarmCnx.** `Invariance`: the commands on their way to the downloader, from the queue of
the uploader to the end of the wire, are one stream, and `StreamInv` says what it must
hold: the last authorization command in it is the uploader's present answer, no
BLOCK_REP follows an UNAUTH_REQ without a DOAUTH_REQ in between, and each request of the
downloader still has its BLOCK_REQ on the way up, its BLOCK_REP on the way down, or an
UNAUTH_REQ before it. `CancelPrecedes` is the part no single end knows: a BLOCK_DEL on the
way up is of an earlier request than the one the downloader waits for. The queue is
filled by a loop; the lemmas about `TotalLen` and about sequences with an element
removed carry the invariant through it. From it: `TypeCorrect`, `ReadMatchesFront`,
`NoStall`, `RequestsKept`, `UnauthFinal`.

**BtIoCache.** `Invariance`: `Spec => []IndInv`. That the cache is coherent is not
inductive: an eviction is harmless only if the disk has what the block has, and a
completion only if the write brought what was written last. `IndInv` compares, for each
block, what was written last with everything that may hold an older version (`BSync`):

* at most one `bt_io_cache_blkwr_t` carries the block, and the block is still there and
  not CLEAN, unless its piece was removed;
* what is in the cache is what was written last; if the block is CLEAN or gone, so is
  what is on disk; if it is CLEANING, each of its cells is either on disk or still to
  be written by the one write that carries it, into a file that still exists;
* a read of a file that was deleted cannot bring old content back: it is for a block
  that nothing was written to since, that is DIRTY, or that is CLEANING by a write
  behind that read in the queue, which is in the cache when the read comes through.

The case behind the last one: a piece is removed while one of its blocks is read, and
downloaded again. `Waited` says that a CLEANING block has a write
under way; `Struct` what a cache is, whole blocks in every operation included. `PoolOk`
is the limit of the pool, `ReqOk` where a request stands (at its beginning or at a block
border), `Served` the matching of requests and reads. After a delayed
write has failed nothing is promised of content and pool, nor ever of a block that two
writes carried at once.

A callback is a chain from the request through the block to the pool and the disk, so
there are three layers of lemmas. On one block and one queue: what `BSync` becomes when an
operation joins (`BsAppendRun`), ends (`BsDone`), goes on with its next piece (`BsNext`) or
is given up (`BsWithout`), and when the block is loaded, written or evicted. On the
cache: `StartIs`, `ShrinkIs` and `BlockCtorIs` say what each function returns,
`StartedOk`, `ShrinkOk` and `BlockCtorOk` that it keeps the invariant; `ShrinkOk` also
that the block that was just used stays, for which the pool must hold one block. On a
request: `LaunchNextOk` walks its blocks. A write that makes a block without reading it
passes through a state in which the block holds memory nobody has set: the lemmas take
what is known of its cells away first (`Forget`) and put it back when they are written
(`Put`). Arithmetic shows once that blocks cut the file and lie each in one piece
(`CellsAre`, `PieceIsOfBlock`), and that the length of the pool does not depend on the
order of its list (`PoolCurlenIs`). From it: `CoherentHolds`, `PoolConsistentHolds`,
`StoppedIsDurableHolds`, `WaitIsServedHolds`.

**Only model-checked.** Liveness (`EventuallyDelivered`, `CloseTerminates`,
`BothSidesClose`, `Progress`, `EventuallyAnswered`), which is out of the prover's reach.
Every invariant and every action property that a run checks is a theorem too. Each inductive invariant was model-checked on
the way to its proof; no run repeats what is proved of it.

Recursive functions are proved about through their defining equation: `RecursionExists`
gives a function that satisfies it, and `RangeInduction`, whose property is a set, what
holds of all its values. What the prover cannot do is induction over an operator.

## 5. Disagreements between the code and its comments

Three are runs of their own that TLC finds violated, with the trace as evidence;
`PROJECT.json` quotes the lines.

1. `seqpacket_user`: a packet that came early is acknowledged, kept, and delivered by the
   zero-timer of `ordgram_t` to `nlay_full_t::notify_pkt_to_upper`, which is to "process
   the packet thru the upper layers" and ends with a PKT_TO_LOWER event
   (`neoip_nlay_full.cpp:196`): the socket sends the packet to the other end. No code
   builds the PKT_TO_UPPER event the socket waits for. The user of a SEQPACKET socket,
   an "ordered reliable message" (`neoip_nlay_type.hpp:20`), receives what follows the
   packet and never the packet. `DeliveredInOrder` and the refinement hold one layer
   below, of what `ordgram_t` hands to its callback. What the other end makes of an
   unframed payload is not modelled.
2. `sched_close`: when a connection closes with requests pending, the scheduler
   looks for idle connections "in case they could replace" the requests, while the
   closing one is still in the list: idle and authorized, it is given them again and
   takes them with it. The connections to servers are unlinked first.
3. `io_cache_stop`: `bt_io_cache_stopping_t` "writes all the dirty blocks to disk and
   notify the caller only after that", but starts no write, and only the completion of
   a write ends it. With dirty blocks, no write under way and the default cleaning
   delay, the swarm waits for ever. It is asked for even when nothing is dirty, since
   `need_stopping()` is always true.

What the models do that a reader of the comments would not expect, without a run of
its own:

* a receive buffer full of early packets refuses the one packet that would empty it
  (`neoip_ordgram.cpp:145`): the connection stalls (`Stalled` in `NlayOrdgram`; without
  that exception TLC finds `EventuallyDelivered` violated);
* an obsolete packet is erased from the receive buffer of `ordgram_t` and its bytes
  stay charged (`neoip_ordgram.cpp:179`): room is lost for the life of the connection;
* a fatal event handled by a close object deletes the socket, and the caller is told
  to keep it (`neoip_socket_full_udp.cpp:221`), failure `tokeep`; that includes the
  idle timeout of a socket that is closing: `start_closure` stops the timer and a data
  packet of the other end starts it again (`neoip_nlay_idletimeout.cpp:63`);
* a CLOSE_REQUEST parsed after a CLOSE_NOW meets an assertion
  (`neoip_nlay_closure.cpp:375`), failure `close_request`;
* the linger threshold is set from a getter whose condition is inverted
  (`neoip_socket_full_udp.cpp:412`), so a linger lasts until its timeout;
* MAYSEND_OFF has no case in the socket (`neoip_socket_full_udp.cpp:326`),
  MAYSEND_ON may reach a close object that is not lingering
  (`neoip_socket_full_close_udp.cpp:231`), and a linger timeout starts the closure
  with data left (`neoip_socket_full_close_udp.cpp:92`): failed assertions;
* `sched_close` has relatives: after a timeout, a withdrawn piece, a wrong hash or a
  killed GET no idle connection is asked either. With `"timeout"`, `"unavail"` or
  `"corrupt"` in `Adversity` TLC finds `Progress` violated, but no comment promises
  otherwise;
* a PIECE_BFIELD replaces what a peer offers and is counted as a whole. After a
  PIECE_ISAVAIL or another PIECE_BFIELD (`"bfield_late"` in `Adversity`), which the code
  accepts, `remote_pfreq` counts a piece twice, and requests stay on a connection that
  does not offer their piece any more: TLC finds `PfreqExact` and `RequestsLive`
  violated;
* after a wrong hash a piece logs with its own members although it has deleted itself
  (`neoip_bt_swarm_sched_piece.cpp:470`); the model leaves logs out;
* a block rewritten while it is CLEANING is DIRTY and may be taken by a second
  `bt_io_cache_blkwr_t`, which the comments at `neoip_bt_io_cache.cpp:316-320` and
  `neoip_bt_io_cache_blkwr.cpp:14-16` exclude: the first completion marks it CLEAN, the
  second meets an assertion (`is_dirty`), and without the exception for `twice` TLC
  finds `Coherent` and `StoppedIsDurable` violated: a block is evicted and read back
  old, or the older of two writes over a border between pieces lands last;
* two requests that read one absent block from disk each make it: failure
  `block_dolink` (`neoip_bt_io_cache.cpp:337`);
* a failed delayed write leaves its blocks CLEANING for ever
  (`neoip_bt_io_cache_blkwr.cpp:140`), and a write that is refused because of it may
  leave a new block, whose memory nobody has set, CLEAN in the cache;
* `~bt_io_cache_write_t` does not delete the disk read it waits for, whose callback then
  goes to a deleted object (failure `use after delete`); and a write that gets an error
  from that read, or starts another one, breaks the rule its return value is checked
  against (failure `tokeep`).

Passing runs include these behaviours: in `close` a peer whose assertion fails,
or that goes on with a deleted object, is dead from then on, and the properties
hold of everything the other peer does.

## 6. Plan

Done: the datagram protocols, closure, fragmentation, the download scheduler, the
connection between peers and the disk cache, with a proof of every safety property.
Left, in this order:

1. `NlayNego`: itor and resp, retries, timeouts and refusals; both ends agree on
   the parameters or neither is connected.
2. `Zerotimer`: the callback list of `zerotimer_t` with callbacks that append,
   remove and delete, as the abstract "pending flag" of the other modules refined.
3. The authorization policy (`bt_swarm_full_prec`, `peer_select_update`), which is
   the free environment of `SwarmCnx`.
4. `SwarmSched` over `BtIoCache`: the order of disk writes and hashes, which the
   scheduler takes as free; several swarms on one pool.
5. Candidates after that: the ntlay socket domain, Kademlia queries, ntudp.

## 7. Not modelled, and why

System-call wrappers (inet, file, netif, eloop), parsers and builders (http, xml,
rtmp, flv, bencode), cryptography (scnx, crypto, slay), applications and vendored
code have no protocol state of the kind a model checker helps with, or are judged
by the outside world. MTU discovery, rate limiting and compression are left out
of the stack: the modelled bricks do not depend on them. `sendbuf_set_max_len`
does not evaluate the MAYSEND threshold again; `MaysendAccurate` is stated for a
limit that was not moved since. For SEQPACKET the stack hands out a null
reliability brick (`neoip_nlay_full_stack.cpp:144`), so the ordered connection is
modelled without send-buffer limits. The form of `pktfrag_t::pkt_from_upper` that is
given a sequence number has no caller but the other form: sending a datagram again
under its number, with another MTU, is not modelled. `set_outter_mtu` accepts an MTU
that leaves no room behind the header (`neoip_pktfrag.cpp:141`); `PktfragAssumption`
states what the callers must keep. So do two other assumptions that no code enforces:
`SwarmCnxAssumption` asks for a transmit buffer that holds a reply, which the default,
an unlimited one (`neoip_socket_full_profile.cpp:17`, `neoip_tcp_full_profile.cpp:16`),
does, while with a smaller one the reply would wait for ever; `BtIoCacheAssumption` asks
for pieces that are whole numbers of blocks of the cache, where the torrent only has to
have a piece length (`neoip_bt_mfile.cpp:78`), and for a pool that holds a block. The command queue of a connection between peers has
no limit in the code (`neoip_bt_swarm_full_sendq.cpp:101`); the bound `MaxCmd` is the
model's. Of the swarm, the handshake, the
wish extension (`utmsg`), rates, the choice of peers to authorize and disk errors are
left out; the scheduler takes what they decide as input. Of the disk cache, write-thru,
a pool shared by several caches and the other file layout (`bt_io_sfile_t`) are left
out.

Most of the repository's lines are vendored (`libxml2`), generated, or adapters of the
kinds above; the models cover the protocol and scheduling logic named in section 2 and
no fixed share of the whole. `PROJECT.json` lists every part.
