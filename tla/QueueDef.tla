------------------------------- MODULE QueueDef -------------------------------
(***************************************************************************)
(* The size helpers of src/queuedef.c over size_t of WordBits bits, as     *)
(* operators: is_power_2, queue_size_is_valid (which mpmc_ring_queue_new   *)
(* calls before it allocates) and the shift loop of size_to_power_of_2.   *)
(* queue_size_is_valid is compared with a reference definition on every  *)
(* word.  size_to_power_of_2 has no caller in src/ outside its unit test;  *)
(* its header and that test disagree on sizes below 2 (see README.md).     *)
(***************************************************************************)
EXTENDS Integers, Bitwise

CONSTANT WordBits

ASSUME WordBits \in Nat \ {0}

Word == 2 ^ WordBits          \* size_t values are 0..Word-1

(* is_power_2: ((n - 1) & n) == 0, with n - 1 wrapping at 0.              *)
IsPower2(n) == (((n - 1) % Word) & n) = 0

(* Mutant: q_size < 1 instead of q_size <= 1.                              *)
QueueSizeIsValidOffByOne(q) ==
  IF q < 1 \/ ~IsPower2(q) THEN "QERR_BADSIZE" ELSE "QERR_OK"

(* queue_size_is_valid                                                     *)
QueueSizeIsValid(q) ==
  IF q <= 1 \/ ~IsPower2(q) THEN "QERR_BADSIZE" ELSE "QERR_OK"

(* while(q_size >>= 1) v <<= 1; return v: one turn per nonzero shift.      *)
RECURSIVE Shift(_, _)
Shift(q, v) ==
  IF q \div 2 = 0 THEN v ELSE Shift(q \div 2, (2 * v) % Word)

(* size_to_power_of_2: size_t v = 1, then the loop.                        *)
SizeToPowerOf2(q) == Shift(q, 1)

(***************************************************************************)
(* Reference definitions and properties                                    *)
(***************************************************************************)

Powers == {2 ^ k : k \in 0..WordBits - 1}

(* queue_size_is_valid accepts exactly the powers of two above 1, with     *)
(* is_power_2's wrap at 0 included (4.4 of the specification).             *)
ValidSizesArePowersAbove1 ==
  \A in \in 0..Word - 1 :
    (QueueSizeIsValid(in) = "QERR_OK") <=> (in \in Powers \ {1})

=============================================================================
