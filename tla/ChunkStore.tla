----------------------------- MODULE ChunkStore -----------------------------
(***************************************************************************)
(* What a file that is put together out of chunks promises to the threads  *)
(* that deliver them: a delivery that is acknowledged is on stable         *)
(* storage, and what is on stable storage stays there.  It says nothing of *)
(* when a chunk is stored, or in which order; a power failure is, to those *)
(* it made promises to, nothing at all.                                    *)
(***************************************************************************)
CONSTANT ChunkId

VARIABLES
  durable,        \* the chunks that are right on stable storage
  promised        \* the chunks somebody was told are

vars == <<durable, promised>>

(* The file may be there already, with some of its chunks right. *)
Init ==
  /\ durable \subseteq ChunkId
  /\ promised = {}

Store(C) ==
  /\ durable' = durable \cup C
  /\ UNCHANGED promised

(* The chunks of one delivery, or of several. *)
Promise(C) ==
  /\ C \subseteq durable
  /\ promised' = promised \cup C
  /\ UNCHANGED durable

Next ==
  \E C \in SUBSET ChunkId : Store(C) \/ Promise(C)

Spec == Init /\ [][Next]_vars
=============================================================================
