-------------------------------- MODULE Wai --------------------------------
(***************************************************************************)
(* Wrap-around integers: the sequence-number arithmetic of wai_t<Ts,Tu>    *)
(* (neoip_netutils/wai/neoip_wai.hpp).  A number is an unsigned Tu; two of *)
(* them are compared by the sign of their difference read as a signed Ts.  *)
(* The modulus is 2^32 for wai32_t; it is a parameter so that TLC can wrap.*)
(***************************************************************************)
EXTENDS Integers

CONSTANT SeqMod   \* 2 ^ (width of Tu)

ASSUME SeqModAssumption == SeqMod \in Nat /\ SeqMod > 1 /\ SeqMod % 2 = 0

WaiHalf == SeqMod \div 2
WaiNum  == 0 .. (SeqMod - 1)

\* (Ts)(value - other.value)
WaiCmp(a, b) ==
    LET d == (a - b) % SeqMod
    IN  IF d < WaiHalf THEN d ELSE d - SeqMod

WaiLt(a, b)  == WaiCmp(a, b) < 0
WaiGt(a, b)  == WaiCmp(a, b) > 0

WaiAdd(a, n) == (a + n) % SeqMod
=============================================================================
