----------------------------- MODULE Reachpeer ------------------------------
(***************************************************************************)
(* The reachability test reachpeer_t (neoip_proto/reachpeer) with its      *)
(* timer_probing_t, under the brick nlay_reachpeer_t: this end probes a    *)
(* silent connection and calls the other end unreachable when no proof     *)
(* comes in time.  Time is discrete.  A timer that is due expires before   *)
(* the clock advances, and a packet that is not lost arrives within        *)
(* NetDelay.                                                               *)
(***************************************************************************)
EXTENDS Integers, FiniteSets

CONSTANTS SilentDelay, UnreachDelay, ProbePeriod,  \* reachpeer_profile_t
          NetDelay,      \* the longest one-way trip of a packet
          Lossy          \* packets may be lost

ASSUME ReachpeerAssumption ==
    /\ SilentDelay \in Nat /\ UnreachDelay \in Nat /\ NetDelay \in Nat
    /\ ProbePeriod \in Nat \ {0}
    /\ Lossy \in BOOLEAN

VARIABLES reliable,   \* reliable_outter_cnx
          due,        \* ticks until rxmit_timeout expires, or Off, or Never
          total,      \* delay_total of rxmit_timer_policy
          unreach,    \* PEER_UNREACH has been notified
          requests,   \* ages of the ECHO_REQUESTs in flight
          zt_reply,   \* the other end is about to reply
          replies,    \* ages of the ECHO_REPLYs in flight
          up,         \* the other end is there
          silence,    \* history: ticks since start() or the last proof
          lost        \* history: a probe or a reply has been lost

vars == <<reliable, due, total, unreach, requests, zt_reply, replies, up, silence, lost>>

Off   == -1      \* stop()
Never == -2      \* delay_t::NEVER: running, and not going to expire

Init ==
    /\ reliable \in BOOLEAN
    /\ due = 0 /\ total = 0
    /\ unreach = FALSE
    /\ requests = {} /\ zt_reply = FALSE /\ replies = {}
    /\ up = TRUE
    /\ silence = 0
    /\ lost = FALSE

is_running     == due # Off
is_finished(t) == t > UnreachDelay
TotalNext(t)   == IF is_finished(t) THEN t ELSE t + ProbePeriod

\* Mutant: the policy is finished one probe too early.
RxmitTimeoutEarly ==
    LET t == total + ProbePeriod
    IN  /\ due = 0
        /\ total' = t
        /\ due' = ProbePeriod
        /\ unreach' = (t + ProbePeriod > UnreachDelay)
        /\ requests' = IF up /\ ~unreach' THEN requests \cup {0} ELSE requests
        /\ UNCHANGED <<reliable, zt_reply, replies, up, silence, lost>>

\* Mutant: the total is forgotten at every probe.
RxmitTimeoutForgets ==
    /\ due = 0
    /\ due' = ProbePeriod
    /\ requests' = IF up THEN requests \cup {0} ELSE requests
    /\ UNCHANGED <<reliable, total, unreach, zt_reply, replies, up, silence, lost>>

\* neoip_timeout_expire_cb: over a reliable connection one probe and no more;
\* otherwise the next delay, and a probe or the verdict.
RxmitTimeout ==
    LET t == IF reliable THEN total ELSE TotalNext(total)
    IN  /\ due = 0
        /\ total' = t
        /\ due' = IF reliable THEN Off
                  ELSE IF is_finished(t) THEN Never ELSE ProbePeriod
        /\ unreach' = is_finished(t)
        /\ requests' = IF up /\ ~is_finished(t) THEN requests \cup {0} ELSE requests
        /\ UNCHANGED <<reliable, zt_reply, replies, up, silence, lost>>

\* Mutant: a proof restarts the timeout and not its policy.
RecvProofKeepsPolicy ==
    /\ due' = IF is_running THEN SilentDelay ELSE due
    /\ total' = total
    /\ silence' = 0

\* recv_proof: back to the silent delay, unless stopped.
RecvProof ==
    /\ due' = IF is_running THEN SilentDelay ELSE due
    /\ total' = IF is_running THEN SilentDelay ELSE total
    /\ silence' = 0

\* recv_echo_request at the other end: no proof of anything, only a reply.
RecvEchoRequest(a) ==
    /\ up
    /\ requests' = requests \ {a}
    /\ zt_reply' = TRUE
    /\ UNCHANGED <<reliable, due, total, unreach, replies, up, silence, lost>>

ZtReply ==
    /\ zt_reply
    /\ zt_reply' = FALSE
    /\ replies' = replies \cup {0}
    /\ UNCHANGED <<reliable, due, total, unreach, requests, up, silence, lost>>

RecvEchoReply(a) ==
    /\ ~unreach
    /\ replies' = replies \ {a}
    /\ RecvProof
    /\ UNCHANGED <<reliable, unreach, requests, zt_reply, up, lost>>

\* nlay_reachpeer_t::pkt_from_lower: any other packet is a proof.
RecvForeign ==
    /\ up /\ ~unreach
    /\ RecvProof
    /\ UNCHANGED <<reliable, unreach, requests, zt_reply, replies, up, lost>>

\* nlay_reachpeer_t::start_closure.
Stop ==
    /\ is_running
    /\ due' = Off
    /\ UNCHANGED <<reliable, total, unreach, requests, zt_reply, replies, up, silence, lost>>
-----------------------------------------------------------------------------
(* The network, the other end's life, and time.                             *)

LoseRequest(a) ==
    /\ Lossy
    /\ requests' = requests \ {a}
    /\ lost' = TRUE
    /\ UNCHANGED <<reliable, due, total, unreach, zt_reply, replies, up, silence>>

LoseReply(a) ==
    /\ Lossy
    /\ replies' = replies \ {a}
    /\ lost' = TRUE
    /\ UNCHANGED <<reliable, due, total, unreach, requests, zt_reply, up, silence>>

Die ==
    /\ up
    /\ up' = FALSE
    /\ zt_reply' = FALSE
    /\ requests' = {}
    /\ lost' = TRUE
    /\ UNCHANGED <<reliable, due, total, unreach, replies, silence>>

\* Nobody is interested any more once the timer is off or the verdict is out.
Tick ==
    /\ due > 0
    /\ ~zt_reply
    /\ \A a \in requests \cup replies : a < NetDelay
    /\ due' = due - 1
    /\ silence' = silence + 1
    /\ requests' = {a + 1 : a \in requests}
    /\ replies' = {a + 1 : a \in replies}
    /\ UNCHANGED <<reliable, total, unreach, zt_reply, up, lost>>

Next ==
    \/ RxmitTimeout \/ ZtReply \/ RecvForeign \/ Stop \/ Die \/ Tick
    \/ \E a \in requests : RecvEchoRequest(a) \/ LoseRequest(a)
    \/ \E a \in replies : RecvEchoReply(a) \/ LoseReply(a)

Spec == Init /\ [][Next]_vars
-----------------------------------------------------------------------------
TypeOK ==
    /\ reliable \in BOOLEAN
    /\ due \in {Off, Never} \cup Nat
    /\ total \in 0 .. SilentDelay + UnreachDelay + ProbePeriod
    /\ unreach \in BOOLEAN /\ zt_reply \in BOOLEAN
    /\ up \in BOOLEAN /\ lost \in BOOLEAN
    /\ requests \subseteq 0 .. NetDelay /\ replies \subseteq 0 .. NetDelay
    /\ silence \in Nat

\* A profile that leaves time for a probe and its answer before the verdict;
\* reachpeer_profile_t::check() accepts any profile.
SoundProfile == /\ SilentDelay + ProbePeriod <= UnreachDelay
                /\ 2 * NetDelay < ProbePeriod

\* neoip_timeout_expire_cb: a living peer whose answers all arrive is never
\* called unreachable.
NoFalseAlarm == SoundProfile /\ unreach => lost

\* neoip_timeout_expire_cb, recv_proof: a connection that is watched is never
\* silent for longer than unreach_delay.
DetectionBound ==
    SilentDelay <= UnreachDelay /\ is_running /\ ~reliable =>
        silence <= UnreachDelay

\* timer_probing_t::next: the verdict falls within the last probe period
\* before unreach_delay, not earlier.
VerdictOnTime == unreach => silence + ProbePeriod > UnreachDelay

(***************************************************************************)
(* Why.  The clock of the policy runs ahead of the silence by exactly what *)
(* the timer has left; and as long as nothing is lost, a timer that was    *)
(* set by a probe has that probe, or its answer, under way.                *)
(***************************************************************************)
PolicyClock == due >= 0 => /\ silence + due = total
                           /\ SilentDelay <= UnreachDelay => total <= UnreachDelay

Elapsed      == ProbePeriod - due     \* since the probe that set the timer
AnswerOnItsWay ==
    \/ Elapsed \in requests
    \/ zt_reply /\ Elapsed <= NetDelay
    \/ \E b \in replies : Elapsed - b <= NetDelay

ProbeUnderway ==
    ~lost /\ due >= 0 => total <= SilentDelay \/ AnswerOnItsWay

\* The inductive invariant behind the three properties.
IndInv ==
    /\ TypeOK
    /\ PolicyClock
    /\ ProbeUnderway
    /\ lost \/ up
    /\ due = Never => unreach
    /\ unreach => /\ due \in {Never, Off}
                  /\ silence + ProbePeriod > UnreachDelay
                  /\ SilentDelay <= UnreachDelay => silence <= UnreachDelay
                  /\ SoundProfile => lost
=============================================================================
