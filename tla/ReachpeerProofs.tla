-------------------------- MODULE ReachpeerProofs ---------------------------
(***************************************************************************)
(* The timing properties of Reachpeer, for every profile and every bound   *)
(* on the trip of a packet.                                                *)
(***************************************************************************)
EXTENDS Reachpeer, TLAPS

\* Initially the timer is due and nothing is under way.
LEMMA InitInv == Init => IndInv
<1> SUFFICES ASSUME Init PROVE IndInv
  OBVIOUS
<1>1. TypeOK
  <2>1. due \in Nat /\ silence \in Nat
    BY DEF Init
  <2>2. total \in 0 .. SilentDelay + UnreachDelay + ProbePeriod
    BY ReachpeerAssumption DEF Init
  <2>3. requests = {} /\ replies = {}
    BY DEF Init
  <2>4. /\ reliable \in BOOLEAN /\ unreach \in BOOLEAN /\ zt_reply \in BOOLEAN
        /\ up \in BOOLEAN /\ lost \in BOOLEAN
    BY Zenon DEF Init
  <2> QED BY <2>1, <2>2, <2>3, <2>4, Zenon DEF TypeOK
<1>2. PolicyClock /\ ProbeUnderway
  BY ReachpeerAssumption DEF Init, PolicyClock, ProbeUnderway
<1>3. up /\ ~unreach /\ due # Never
  BY DEF Init, Never
<1> QED
  BY <1>1, <1>2, <1>3 DEF IndInv

\* A proof puts the policy back to its first delay, whatever was under way.
LEMMA ProofInv ==
    ASSUME IndInv, ~unreach, RecvProof,
           UNCHANGED <<reliable, unreach, up, lost>>,
           requests' \subseteq requests, replies' \subseteq replies,
           zt_reply' = zt_reply
    PROVE  IndInv'
  BY ReachpeerAssumption
     DEF IndInv, TypeOK, PolicyClock, ProbeUnderway, AnswerOnItsWay, Elapsed,
         Off, Never, SoundProfile, RecvProof, is_running

\* The answer to the last probe cannot be on its way when the timer of that
\* probe expires: two trips are shorter than a period.
LEMMA NoAnswerWhenDue ==
    ASSUME TypeOK, SoundProfile, due = 0
    PROVE  ~AnswerOnItsWay
  BY ReachpeerAssumption
     DEF TypeOK, SoundProfile, AnswerOnItsWay, Elapsed

\* The expiration of the timer: a probe, or the verdict.
LEMMA TimeoutInv == ASSUME IndInv, RxmitTimeout PROVE IndInv'
<1> USE DEF Off, Never
<1>1. TypeOK' /\ PolicyClock' /\ (lost \/ up)'
  BY ReachpeerAssumption
     DEF IndInv, TypeOK, PolicyClock, RxmitTimeout, TotalNext, is_finished,
         Off, Never
<1>2. SoundProfile /\ ~lost => total <= SilentDelay
  BY NoAnswerWhenDue DEF IndInv, ProbeUnderway, RxmitTimeout
<1>3. ProbeUnderway'
  BY ReachpeerAssumption
     DEF IndInv, TypeOK, ProbeUnderway, AnswerOnItsWay, Elapsed, RxmitTimeout,
         TotalNext, is_finished, Off, Never
<1>4. (due = Never => unreach)'
  <2>1. CASE reliable BY <2>1 DEF RxmitTimeout
  <2>2. CASE ~reliable /\ ~is_finished(TotalNext(total))
    BY <2>2, ReachpeerAssumption DEF RxmitTimeout
  <2>3. CASE ~reliable /\ is_finished(TotalNext(total))
    BY <2>3 DEF RxmitTimeout
  <2> QED BY <2>1, <2>2, <2>3
<1>5. ASSUME unreach'
      PROVE  /\ due' \in {Never, Off}
             /\ silence' + ProbePeriod > UnreachDelay
             /\ SilentDelay <= UnreachDelay => silence' <= UnreachDelay
             /\ SoundProfile => lost'
  BY <1>2, <1>5, ReachpeerAssumption
     DEF IndInv, TypeOK, PolicyClock, RxmitTimeout, TotalNext, is_finished,
         SoundProfile, Off, Never
<1> QED
  BY <1>1, <1>3, <1>4, <1>5 DEF IndInv, SoundProfile

\* The clock: every age grows with the time since the probe.
LEMMA TickInv == ASSUME IndInv, Tick PROVE IndInv'
<1> USE DEF Off, Never, SoundProfile
<1>1. TypeOK' /\ PolicyClock' /\ (lost \/ up)' /\ (due = Never => unreach)'
  BY ReachpeerAssumption DEF IndInv, TypeOK, PolicyClock, Tick, Off, Never
<1>2. ProbeUnderway'
  <2>1. ASSUME AnswerOnItsWay PROVE AnswerOnItsWay'
    <3>1. CASE Elapsed \in requests
      BY <3>1, ReachpeerAssumption
         DEF IndInv, TypeOK, AnswerOnItsWay, Elapsed, Tick
    <3>2. ASSUME NEW b \in replies, Elapsed - b <= NetDelay PROVE AnswerOnItsWay'
      <4>1. b + 1 \in replies' BY DEF Tick
      <4>2. Elapsed' - (b + 1) <= NetDelay
        BY <3>2, ReachpeerAssumption DEF IndInv, TypeOK, Elapsed, Tick
      <4> QED BY <4>1, <4>2 DEF AnswerOnItsWay
    <3> QED BY <2>1, <3>1, <3>2 DEF AnswerOnItsWay, Tick
  <2> QED BY <2>1 DEF IndInv, ProbeUnderway, TypeOK, Tick
<1>3. ~unreach BY DEF IndInv, Tick, Off, Never
<1> QED BY <1>1, <1>2, <1>3 DEF IndInv, Tick

\* Every step keeps the invariant.
LEMMA StepInv == IndInv /\ [Next]_vars => IndInv'
<1> SUFFICES ASSUME IndInv, [Next]_vars PROVE IndInv'
  OBVIOUS
<1> USE ReachpeerAssumption DEF Off, Never, SoundProfile
<1>1. CASE RxmitTimeout BY <1>1, TimeoutInv
<1>2. CASE Tick BY <1>2, TickInv
<1>3. CASE RecvForeign BY <1>3, ProofInv DEF RecvForeign
<1>4. ASSUME NEW a \in replies, RecvEchoReply(a) PROVE IndInv'
  BY <1>4, ProofInv DEF RecvEchoReply
<1>5. ASSUME NEW a \in requests, RecvEchoRequest(a) PROVE IndInv'
  <2>1. a \in 0 .. NetDelay BY DEF IndInv, TypeOK
  <2>2. TypeOK' /\ PolicyClock'
    BY <1>5 DEF IndInv, TypeOK, PolicyClock, RecvEchoRequest
  <2>3. ProbeUnderway'
    BY <1>5, <2>1 DEF IndInv, ProbeUnderway, AnswerOnItsWay, Elapsed,
                      RecvEchoRequest
  <2> QED BY <1>5, <2>2, <2>3 DEF IndInv, RecvEchoRequest
<1>6. CASE ZtReply
  <2>1. replies' \subseteq 0 .. NetDelay BY <1>6 DEF IndInv, TypeOK, ZtReply
  <2>3. TypeOK' /\ PolicyClock'
    BY <1>6, <2>1 DEF IndInv, TypeOK, PolicyClock, ZtReply
  <2>2. ProbeUnderway'
    BY <1>6 DEF IndInv, TypeOK, ProbeUnderway, AnswerOnItsWay, Elapsed, ZtReply
  <2> QED BY <1>6, <2>3, <2>2 DEF IndInv, ZtReply
<1>7. CASE Stop
  BY <1>7 DEF IndInv, TypeOK, PolicyClock, ProbeUnderway, Stop, is_running,
              SoundProfile, Off, Never
<1>8. CASE Die
  BY <1>8 DEF IndInv, TypeOK, PolicyClock, ProbeUnderway, Die
<1>9. ASSUME NEW a \in requests, LoseRequest(a) PROVE IndInv'
  BY <1>9 DEF IndInv, TypeOK, PolicyClock, ProbeUnderway, LoseRequest
<1>10. ASSUME NEW a \in replies, LoseReply(a) PROVE IndInv'
  BY <1>10 DEF IndInv, TypeOK, PolicyClock, ProbeUnderway, LoseReply
<1>11. CASE UNCHANGED vars
  BY <1>11 DEF IndInv, TypeOK, PolicyClock, ProbeUnderway, AnswerOnItsWay,
               Elapsed, vars
<1> QED
  BY <1>1, <1>2, <1>3, <1>4, <1>5, <1>6, <1>7, <1>8, <1>9, <1>10, <1>11
  DEF Next

\* The invariant holds in every state of every behaviour.
THEOREM ReachpeerInductive == Spec => []IndInv
  BY InitInv, StepInv, PTL DEF Spec

\* neoip_timeout_expire_cb calls no living peer unreachable whose answers all
\* arrive, whatever the profile that leaves time for one probe.
THEOREM FalseAlarmFree == Spec => []NoFalseAlarm
<1>1. IndInv => NoFalseAlarm BY DEF IndInv, NoFalseAlarm
<1> QED BY <1>1, ReachpeerInductive, PTL

\* A watched connection is never silent for longer than unreach_delay.
THEOREM DetectsInTime == Spec => []DetectionBound
<1>1. IndInv => DetectionBound
  BY ReachpeerAssumption
     DEF IndInv, TypeOK, PolicyClock, DetectionBound, is_running, Off, Never
<1> QED BY <1>1, ReachpeerInductive, PTL

\* timer_probing_t gives the verdict less than a period before unreach_delay.
THEOREM VerdictNotEarly == Spec => []VerdictOnTime
<1>1. IndInv => VerdictOnTime BY DEF IndInv, VerdictOnTime
<1> QED BY <1>1, ReachpeerInductive, PTL
=============================================================================
