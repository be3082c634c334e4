---------------------------- MODULE DgramChannel ----------------------------
(***************************************************************************)
(* What an unreliable datagram service promises: a datagram comes out as   *)
(* it went in or not at all, in any order, and at most as many times as    *)
(* there are copies of it in the network.                                  *)
(***************************************************************************)
EXTENDS Naturals, Sequences

CONSTANTS Lens, MaxSend

VARIABLES sent,        \* lengths of the datagrams sent
          copies,      \* how many copies of each the network was given or made
          delivered,   \* the datagrams that came out
          recved       \* how many times each came out

vars == <<sent, copies, delivered, recved>>

Init == sent = <<>> /\ copies = <<>> /\ delivered = {} /\ recved = <<>>

Send(len) ==
    /\ Len(sent) < MaxSend
    /\ sent' = Append(sent, len)
    /\ copies' = Append(copies, 1)
    /\ recved' = Append(recved, 0)
    /\ UNCHANGED delivered

Duplicate(i) ==
    /\ copies' = [copies EXCEPT ![i] = @ + 1]
    /\ UNCHANGED <<sent, delivered, recved>>

Deliver(i) ==
    /\ recved[i] < copies[i]
    /\ delivered' = delivered \cup {[id |-> i, len |-> sent[i]]}
    /\ recved' = [recved EXCEPT ![i] = @ + 1]
    /\ UNCHANGED <<sent, copies>>

Next ==
    \/ \E len \in Lens : Send(len)
    \/ \E i \in 1 .. Len(sent) : Duplicate(i) \/ Deliver(i)

Spec == Init /\ [][Next]_vars
=============================================================================
