--------------------------- MODULE MessageHeader ---------------------------
(***************************************************************************)
(* The size of the extra part of a message (message.h): what the sender    *)
(* puts into the header and what both sides compute from it.  A size is    *)
(* sent as a number of blocks and a remainder, of 32 bits each; the        *)
(* encrypted extra part is rounded up to blocks and ends in the tag of the *)
(* cipher, which takes one block.                                          *)
(***************************************************************************)
EXTENDS Integers

CONSTANT Word     \* the number of values of a uint32_t

ASSUME WordAssumption == Word \in Nat /\ Word > 16

block_size == 16

size_bytes(size_in_blocks) == size_in_blocks * block_size

uint32(n) == n % Word

(* Mutant: the remainder is given no block of its own. *)
RoundsDown(size) ==
  [extra |-> uint32(size % block_size),
   extra_blocks |-> uint32(size \div block_size)]

set_extra_size(size) ==
  LET extra == uint32(size % block_size)
  IN  [extra |-> extra,
       extra_blocks |-> uint32((size \div block_size)
                                 + (IF extra # 0 THEN 1 ELSE 0))]

(* extra_blocks - 1 is computed in 32 bits. *)
get_extra_size(h) ==
  size_bytes(uint32(h.extra_blocks - (IF h.extra # 0 THEN 1 ELSE 0))) + h.extra

(* Mutant: no block for the tag. *)
NoTagBlock(h) == size_bytes(h.extra_blocks)

(* 0 if there is no extra part. *)
encypted_extra_size(h) ==
  IF h.extra_blocks # 0 THEN size_bytes(h.extra_blocks) + block_size ELSE 0

(* The sizes whose number of blocks fits into 32 bits. *)
FittingSize == 0 .. block_size * (Word - 1)
=============================================================================
