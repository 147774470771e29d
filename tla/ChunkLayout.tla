---------------------------- MODULE ChunkLayout ----------------------------
(***************************************************************************)
(* Where the chunks of a file lie, in bytes: what the read cache of the    *)
(* server (file_read_cache.cpp) and the writer of the client               *)
(* (file_recombinator.cpp) both compute, each with its own numbers.  The   *)
(* other modules count offsets in chunks; this one justifies it.           *)
(***************************************************************************)
EXTENDS Integers

CONSTANT UInt64   \* the number of values of a uint64_t

ASSUME UInt64Assumption == UInt64 \in Nat /\ UInt64 > 1

uint64(n) == n % UInt64

(* Mutant: rounded up in one division, which wraps for a large chunk. *)
RoundedUp(file_size, chunk_size) ==
  uint64(file_size + chunk_size - 1) \div chunk_size

number_of_chunks(file_size, chunk_size) ==
  (file_size \div chunk_size) + (IF file_size % chunk_size # 0 THEN 1 ELSE 0)

get_offset(id, chunk_size) == uint64(id * chunk_size)

(* What preload reads at an offset, or as much of it as there is. *)
size_to_read(file_size, offset, chunk_size) ==
  LET rest == uint64(file_size - offset)
  IN  IF rest < chunk_size THEN rest ELSE chunk_size

(* Where the next chunk is to begin. *)
end_of_chunk(file_size, id, chunk_size) ==
  LET offset == get_offset(id, chunk_size)
  IN  offset + size_to_read(file_size, offset, chunk_size)
=============================================================================
