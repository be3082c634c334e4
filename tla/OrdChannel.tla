----------------------------- MODULE OrdChannel -----------------------------
(***************************************************************************)
(* What a reliable ordered datagram connection promises its two users: the *)
(* payloads come out as they went in, in the same order, none twice.       *)
(***************************************************************************)
EXTENDS Naturals, Sequences

CONSTANTS Lens, MaxSend

VARIABLES sent,        \* lengths of the payloads accepted from the sender
          delivered    \* payloads handed to the receiver

Init == sent = <<>> /\ delivered = <<>>

Send ==
    /\ Len(sent) < MaxSend
    /\ \E len \in Lens : sent' = Append(sent, len)
    /\ UNCHANGED delivered

\* The next n payloads are delivered, n >= 1.
Deliver ==
    \E n \in 1 .. MaxSend :
        /\ Len(delivered) + n <= Len(sent)
        /\ delivered' = [i \in 1 .. Len(delivered) + n |->
                            IF i <= Len(delivered) THEN delivered[i]
                            ELSE [id |-> i, len |-> sent[i]]]
        /\ UNCHANGED sent

Next == Send \/ Deliver

Spec == Init /\ [][Next]_<<sent, delivered>>
=============================================================================
