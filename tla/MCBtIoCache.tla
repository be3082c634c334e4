---------------------------- MODULE MCBtIoCache ----------------------------
(***************************************************************************)
(* BtIoCache for TLC: a file of three blocks of two cells, the last one    *)
(* short, in two pieces.                                                   *)
(***************************************************************************)
EXTENDS BtIoCache

\* A whole block, part of it, and a run of blocks over both pieces.
MCRanges == {<<0, 1>>, <<1, 1>>, <<2, 4>>}

\* A file of one block.
MCRanges1 == {<<0, 1>>}

MCSymmetry == Permutations(Slot)
=============================================================================
