---------------------------- MODULE BlockNumber ----------------------------
(***************************************************************************)
(* Tftp::Packets::BlockNumber: the 16 bit block number of DATA and ACK     *)
(* packets (src/lib/tftp/packets/BlockNumber.cpp).  The largest value is a *)
(* parameter: 65535 in the program, small in the instances TLC explores.   *)
(***************************************************************************)
EXTENDS Naturals

CONSTANT MaxBlock   \* std::numeric_limits<uint16_t>::max()

ASSUME MaxBlockAssumption == MaxBlock \in Nat /\ MaxBlock >= 2

BlockNumbers == 0 .. MaxBlock

(* Mutants: successors that roll over to 0, as plain uint16_t arithmetic would, *)
(* and that do not roll over.                                                   *)
NextBlockThroughZero(block) == (block + 1) % (MaxBlock + 1)
NextBlockUnbounded(block) == block + 1

(* BlockNumber::next(): the successor of the largest number is 1, not 0. *)
NextBlock(block) == IF block = MaxBlock THEN 1 ELSE block + 1

(***************************************************************************)
(* The block number a transfer gives to its chunk i (chunk 0 stands for    *)
(* "nothing yet"): the function that iterating NextBlock from 0 computes.  *)
(***************************************************************************)
BlockOf(chunk) == IF chunk = 0 THEN 0 ELSE ((chunk - 1) % MaxBlock) + 1

=============================================================================
