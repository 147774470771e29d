----------------------- MODULE FileRecombinatorProofs -----------------------
(***************************************************************************)
(* Proofs about FileRecombinator.                                          *)
(*                                                                         *)
(* DeliveryInv follows a delivery through m_request, the batch and the     *)
(* file.  DurableInv adds what is known of stable storage, as far as what  *)
(* failed leaves anything to be known.  Both are inductive whatever fails. *)
(***************************************************************************)
EXTENDS FileRecombinator, FiniteSetTheorems, TLAPS

CleaningUp == wpc \in {"clean_request", "close", "ended"}

OwnerInv ==
  /\ owner = "new" <=> wpc = "none"
  /\ owner = "open" <=> m_is_running = TRUE
  /\ owner \in {"new", "joining", "closed"} => \A w \in Write : pc[w] # "posted"
  /\ owner = "closed" => wpc = "ended"

(* A delivery and the thread that made it; no two are for the same chunk. *)
CallInv ==
  /\ \A w \in Write : pc[w] = "idle" <=> m_id[w] = -1
  /\ \A v, w \in Write : m_id[v] = m_id[w] /\ m_id[v] # -1 => v = w
  /\ \A w \in m_is_done : pc[w] # "idle"

(* What m_request and the batch hold is there under its id, in one of them *)
(* only, and not done before the worker has come to it.                    *)
HandInv ==
  /\ \A c \in ChunkId :
       /\ m_request[c] # NoWrite => m_id[m_request[c]] = c /\ m_request[c] # to_handle[c]
       /\ to_handle[c] # NoWrite => m_id[to_handle[c]] = c
       /\ ~CleaningUp /\ m_request[c] # NoWrite => m_request[c] \notin m_is_done
       /\ ~CleaningUp /\ c \in ItemsLeft => to_handle[c] \notin m_is_done
  /\ wpc \in {"none", "open", "loop", "take", "wait"} => to_handle = NoWrites

(* Where the loop over the batch is. *)
ItemInv ==
  /\ wpc \in {"flush", "done", "count"} =>
       item \in ChunkId /\ to_handle[item] \in Write /\ file[item] = item
  /\ wpc \in {"flush", "done"} => to_handle[item] \notin m_is_done
  /\ wpc = "count" => to_handle[item] \in m_is_done

DeliveryInv ==
  TypeOK /\ OwnerInv /\ CallInv /\ HandInv /\ ItemInv /\ NoLostWrite /\ DoneIsWritten

Counted == {c \in Durable : \E w \in m_is_done : m_id[w] = c}

(* What is right on stable storage is right in the file. *)
DiskInv == \A c \in ChunkId : disk[c] = c => file[c] = c

(* While no sync failed a delivery is durable before it is done, unless    *)
(* the worker cleans up; and while nothing at all failed it does that only *)
(* when nobody waits.                                                      *)
SyncedInv ==
  /\ "sync" \notin failed =>
       /\ wpc = "done" => item \in Durable
       /\ ~CleaningUp => \A w \in m_is_done : m_id[w] \in Durable
  /\ failed = {} /\ (wpc = "clean_up" \/ CleaningUp) => owner \in {"joining", "closed"}
  /\ promised \subseteq Durable

CountInv ==
  "sync" \notin failed =>
    IF wpc = "count" THEN m_complited_chunks + 1 <= Cardinality(Counted)
                     ELSE m_complited_chunks <= Cardinality(Counted)

DurableInv == DiskInv /\ SyncedInv /\ CountInv

-----------------------------------------------------------------------------
USE FileRecombinatorAssumption
USE DEF api_vars, object_vars, signal_vars, batch_vars, disk_vars

LEMMA StartStep ==
  ASSUME DeliveryInv, Start
  PROVE  DeliveryInv'
  <1>1. TypeOK'
    BY DEF Start, DeliveryInv, TypeOK, ApiTypeOK, WorkerTypeOK
  <1>2. OwnerInv' /\ CallInv'
    BY DEF Start, DeliveryInv, TypeOK, ApiTypeOK, WorkerTypeOK, OwnerInv, CallInv,
           HandInv, ChunkId
  <1>3. HandInv'
    BY DEF Start, DeliveryInv, TypeOK, ApiTypeOK, WorkerTypeOK, OwnerInv, CallInv,
           HandInv, ItemInv, ItemsLeft, CleaningUp, NoWrites, ChunkId
  <1>4. ItemInv'
    BY DEF Start, DeliveryInv, TypeOK, ApiTypeOK, WorkerTypeOK, HandInv, ItemInv,
           ItemsLeft, CleaningUp, ChunkId
  <1>5. NoLostWrite'
    BY DEF Start, DeliveryInv, TypeOK, ApiTypeOK, WorkerTypeOK, OwnerInv, CallInv,
           HandInv, ItemInv, NoLostWrite, ItemsLeft, ChunkId
  <1>6. DoneIsWritten'
    BY DEF Start, DeliveryInv, OwnerInv, DoneIsWritten
  <1> QED BY <1>1, <1>2, <1>3, <1>4, <1>5, <1>6 DEF DeliveryInv

LEMMA StopStep ==
  ASSUME DeliveryInv, Stop
  PROVE  DeliveryInv'
  <1>1. TypeOK'
    BY DEF Stop, DeliveryInv, TypeOK, ApiTypeOK, WorkerTypeOK
  <1>2. OwnerInv' /\ CallInv'
    BY DEF Stop, DeliveryInv, TypeOK, ApiTypeOK, WorkerTypeOK, OwnerInv, CallInv,
           HandInv, ChunkId
  <1>3. HandInv'
    BY DEF Stop, DeliveryInv, TypeOK, ApiTypeOK, WorkerTypeOK, OwnerInv, CallInv,
           HandInv, ItemInv, ItemsLeft, CleaningUp, NoWrites, ChunkId
  <1>4. ItemInv'
    BY DEF Stop, DeliveryInv, TypeOK, ApiTypeOK, WorkerTypeOK, HandInv, ItemInv,
           ItemsLeft, CleaningUp, ChunkId
  <1>5. NoLostWrite'
    BY DEF Stop, DeliveryInv, TypeOK, ApiTypeOK, WorkerTypeOK, OwnerInv, CallInv,
           HandInv, ItemInv, NoLostWrite, ItemsLeft, ChunkId
  <1>6. DoneIsWritten'
    BY DEF Stop, DeliveryInv, TypeOK, ApiTypeOK, WorkerTypeOK, CallInv, ItemInv,
           DoneIsWritten, ChunkId
  <1> QED BY <1>1, <1>2, <1>3, <1>4, <1>5, <1>6 DEF DeliveryInv

LEMMA JoinStep ==
  ASSUME DeliveryInv, Join
  PROVE  DeliveryInv'
  <1>1. TypeOK'
    BY DEF Join, DeliveryInv, TypeOK, ApiTypeOK, WorkerTypeOK
  <1>2. OwnerInv' /\ CallInv'
    BY DEF Join, DeliveryInv, TypeOK, ApiTypeOK, WorkerTypeOK, OwnerInv, CallInv,
           HandInv, ChunkId
  <1>3. HandInv'
    BY DEF Join, DeliveryInv, TypeOK, ApiTypeOK, WorkerTypeOK, OwnerInv, CallInv,
           HandInv, ItemInv, ItemsLeft, CleaningUp, NoWrites, ChunkId
  <1>4. ItemInv'
    BY DEF Join, DeliveryInv, TypeOK, ApiTypeOK, WorkerTypeOK, HandInv, ItemInv,
           ItemsLeft, CleaningUp, ChunkId
  <1>5. NoLostWrite'
    BY DEF Join, DeliveryInv, TypeOK, ApiTypeOK, WorkerTypeOK, OwnerInv, CallInv,
           HandInv, ItemInv, NoLostWrite, ItemsLeft, ChunkId
  <1>6. DoneIsWritten'
    BY DEF Join, DeliveryInv, TypeOK, ApiTypeOK, WorkerTypeOK, CallInv, ItemInv,
           DoneIsWritten, ChunkId
  <1> QED BY <1>1, <1>2, <1>3, <1>4, <1>5, <1>6 DEF DeliveryInv

LEMMA WriteChunkStep ==
  ASSUME DeliveryInv, NEW w \in Write, NEW c \in ChunkId, WriteChunk(w, c)
  PROVE  DeliveryInv'
  <1>1. TypeOK'
    BY DEF WriteChunk, DeliveryInv, TypeOK, ApiTypeOK, WorkerTypeOK
  <1>2. OwnerInv' /\ CallInv'
    <2>1. OwnerInv'
      BY DEF WriteChunk, DeliveryInv, OwnerInv, TypeOK, ApiTypeOK
    <2>2. CallInv'
      BY DEF WriteChunk, DeliveryInv, CallInv, TypeOK, ApiTypeOK, ChunkId
    <2> QED BY <2>1, <2>2
  <1>3. HandInv'
    <2>1. m_id[w] = -1 /\ w \notin m_is_done /\ m_id'[w] = c
      BY DEF WriteChunk, DeliveryInv, CallInv, TypeOK, ApiTypeOK
    <2>2. \A d \in ChunkId : to_handle[d] # w /\ m_request[d] # w
      BY <2>1 DEF DeliveryInv, HandInv, ChunkId
    <2>3. \A v \in Write \ {w} : m_id'[v] = m_id[v]
      BY DEF WriteChunk, DeliveryInv, TypeOK, ApiTypeOK
    <2>4. m_request'[c] = w /\ \A d \in ChunkId \ {c} : m_request'[d] = m_request[d]
      BY DEF WriteChunk, DeliveryInv, TypeOK, ApiTypeOK
    <2>5. \A d \in ChunkId : /\ m_request[d] \in Write \cup {NoWrite}
                             /\ to_handle[d] \in Write \cup {NoWrite}
      BY DEF DeliveryInv, TypeOK, ApiTypeOK, WorkerTypeOK
    <2>6. UNCHANGED <<to_handle, wpc, m_is_done, ItemsLeft>>
      BY DEF WriteChunk, ItemsLeft
    <2>7. \A d \in ChunkId : to_handle[d] # NoWrite => m_id'[to_handle[d]] = d
      BY <2>2, <2>3, <2>5 DEF DeliveryInv, HandInv
    <2>8. \A d \in ChunkId : m_request'[d] # NoWrite =>
            m_id'[m_request'[d]] = d /\ m_request'[d] # to_handle[d]
      BY <2>1, <2>2, <2>3, <2>4, <2>5 DEF DeliveryInv, HandInv
    <2>9. ~CleaningUp => \A d \in ChunkId : m_request'[d] # NoWrite =>
            m_request'[d] \notin m_is_done
      BY <2>1, <2>4 DEF DeliveryInv, HandInv
    <2> QED BY <2>6, <2>7, <2>8, <2>9 DEF DeliveryInv, HandInv, CleaningUp
  <1>4. ItemInv'
    BY DEF WriteChunk, DeliveryInv, TypeOK, ApiTypeOK, WorkerTypeOK, HandInv, ItemInv,
           ItemsLeft, CleaningUp, ChunkId
  <1>5. NoLostWrite'
    <2>1. m_id'[w] = c /\ m_request'[c] = w
      BY DEF WriteChunk, DeliveryInv, TypeOK, ApiTypeOK
    <2>2. \A v \in Write \ {w} : m_id'[v] = m_id[v] /\ pc'[v] = pc[v] /\ m_id[v] # c
      BY DEF WriteChunk, DeliveryInv, TypeOK, ApiTypeOK
    <2>3. \A v \in Write : pc[v] = "posted" => m_id[v] \in ChunkId
      BY DEF DeliveryInv, CallInv, TypeOK, ApiTypeOK
    <2>4. \A d \in ChunkId \ {c} : m_request'[d] = m_request[d]
      BY DEF WriteChunk, DeliveryInv, TypeOK, ApiTypeOK
    <2> QED
      BY <2>1, <2>2, <2>3, <2>4 DEF WriteChunk, DeliveryInv, NoLostWrite
  <1>6. DoneIsWritten'
    BY DEF WriteChunk, DeliveryInv, TypeOK, ApiTypeOK, WorkerTypeOK, CallInv, ItemInv,
           DoneIsWritten, ChunkId
  <1> QED BY <1>1, <1>2, <1>3, <1>4, <1>5, <1>6 DEF DeliveryInv

LEMMA WaitStep ==
  ASSUME DeliveryInv, NEW w \in Write, Wait(w)
  PROVE  DeliveryInv'
  <1>1. TypeOK'
    <2>1. m_id[w] \in ChunkId
      BY DEF Wait, DeliveryInv, CallInv, TypeOK, ApiTypeOK
    <2> QED BY <2>1 DEF Wait, DeliveryInv, TypeOK, ApiTypeOK, WorkerTypeOK
  <1>2. OwnerInv' /\ CallInv'
    <2>1. \A v \in Write : v # w => pc'[v] = pc[v]
      BY DEF Wait, DeliveryInv, TypeOK, ApiTypeOK
    <2>2. pc[w] = "posted" /\ pc'[w] \notin {"idle", "posted"}
      BY DEF Wait, DeliveryInv, TypeOK, ApiTypeOK
    <2>3. UNCHANGED <<owner, m_id, m_is_done, m_is_running, wpc>>
      BY DEF Wait
    <2>4. m_is_done \subseteq Write
      BY DEF DeliveryInv, TypeOK, ApiTypeOK
    <2>5. OwnerInv'
      BY <2>1, <2>2, <2>3 DEF DeliveryInv, OwnerInv
    <2>6. CallInv'
      BY <2>1, <2>2, <2>3, <2>4 DEF DeliveryInv, CallInv
    <2> QED BY <2>5, <2>6
  <1>3. HandInv'
    BY DEF Wait, DeliveryInv, TypeOK, ApiTypeOK, WorkerTypeOK, OwnerInv, CallInv,
           HandInv, ItemInv, ItemsLeft, CleaningUp, NoWrites, ChunkId
  <1>4. ItemInv'
    BY DEF Wait, DeliveryInv, TypeOK, ApiTypeOK, WorkerTypeOK, HandInv, ItemInv,
           ItemsLeft, CleaningUp, ChunkId
  <1>5. NoLostWrite'
    <2>1. \A v \in Write : pc'[v] = "posted" => pc[v] = "posted"
      BY DEF Wait, DeliveryInv, TypeOK, ApiTypeOK
    <2> QED BY <2>1 DEF Wait, DeliveryInv, NoLostWrite
  <1>6. DoneIsWritten'
    BY DEF Wait, DeliveryInv, TypeOK, ApiTypeOK, WorkerTypeOK, CallInv, ItemInv,
           DoneIsWritten, ChunkId
  <1> QED BY <1>1, <1>2, <1>3, <1>4, <1>5, <1>6 DEF DeliveryInv

LEMMA GiveUpStep ==
  ASSUME DeliveryInv, NEW w \in Write, GiveUp(w)
  PROVE  DeliveryInv'
  <1>1. TypeOK'
    BY DEF GiveUp, DeliveryInv, TypeOK, ApiTypeOK, WorkerTypeOK
  <1>2. OwnerInv' /\ CallInv'
    <2>1. \A v \in Write : v # w => pc'[v] = pc[v]
      BY DEF GiveUp, DeliveryInv, TypeOK, ApiTypeOK
    <2>2. pc[w] = "posted" /\ pc'[w] \notin {"idle", "posted"}
      BY DEF GiveUp, DeliveryInv, TypeOK, ApiTypeOK
    <2>3. UNCHANGED <<owner, m_id, m_is_done, m_is_running, wpc>>
      BY DEF GiveUp
    <2>4. m_is_done \subseteq Write
      BY DEF DeliveryInv, TypeOK, ApiTypeOK
    <2>5. OwnerInv'
      BY <2>1, <2>2, <2>3 DEF DeliveryInv, OwnerInv
    <2>6. CallInv'
      BY <2>1, <2>2, <2>3, <2>4 DEF DeliveryInv, CallInv
    <2> QED BY <2>5, <2>6
  <1>3. HandInv'
    BY DEF GiveUp, DeliveryInv, TypeOK, ApiTypeOK, WorkerTypeOK, OwnerInv, CallInv,
           HandInv, ItemInv, ItemsLeft, CleaningUp, NoWrites, ChunkId
  <1>4. ItemInv'
    BY DEF GiveUp, DeliveryInv, TypeOK, ApiTypeOK, WorkerTypeOK, HandInv, ItemInv,
           ItemsLeft, CleaningUp, ChunkId
  <1>5. NoLostWrite'
    <2>1. \A v \in Write : pc'[v] = "posted" => pc[v] = "posted"
      BY DEF GiveUp, DeliveryInv, TypeOK, ApiTypeOK
    <2> QED BY <2>1 DEF GiveUp, DeliveryInv, NoLostWrite
  <1>6. DoneIsWritten'
    BY DEF GiveUp, DeliveryInv, TypeOK, ApiTypeOK, WorkerTypeOK, CallInv, ItemInv,
           DoneIsWritten, ChunkId
  <1> QED BY <1>1, <1>2, <1>3, <1>4, <1>5, <1>6 DEF DeliveryInv

LEMMA WorkerOpenStep ==
  ASSUME DeliveryInv, WorkerOpen
  PROVE  DeliveryInv'
  <1>1. TypeOK'
    BY DEF WorkerOpen, Failed, DeliveryInv, TypeOK, ApiTypeOK, WorkerTypeOK
  <1>2. OwnerInv' /\ CallInv'
    BY DEF WorkerOpen, Failed, DeliveryInv, TypeOK, ApiTypeOK, WorkerTypeOK, OwnerInv,
           CallInv, HandInv, ChunkId
  <1>3. HandInv'
    BY DEF WorkerOpen, Failed, DeliveryInv, TypeOK, ApiTypeOK, WorkerTypeOK, OwnerInv,
           CallInv, HandInv, ItemInv, ItemsLeft, CleaningUp, NoWrites, ChunkId
  <1>4. ItemInv'
    BY DEF WorkerOpen, Failed, DeliveryInv, TypeOK, ApiTypeOK, WorkerTypeOK, HandInv,
           ItemInv, ItemsLeft, CleaningUp, ChunkId
  <1>5. NoLostWrite'
    BY DEF WorkerOpen, Failed, DeliveryInv, TypeOK, ApiTypeOK, WorkerTypeOK, OwnerInv,
           CallInv, HandInv, ItemInv, NoLostWrite, ItemsLeft, ChunkId
  <1>6. DoneIsWritten'
    BY DEF WorkerOpen, Failed, DeliveryInv, TypeOK, ApiTypeOK, WorkerTypeOK, CallInv,
           ItemInv, DoneIsWritten, ChunkId
  <1> QED BY <1>1, <1>2, <1>3, <1>4, <1>5, <1>6 DEF DeliveryInv

LEMMA WorkerLoopStep ==
  ASSUME DeliveryInv, WorkerLoop
  PROVE  DeliveryInv'
  <1>1. TypeOK'
    BY DEF WorkerLoop, DeliveryInv, TypeOK, ApiTypeOK, WorkerTypeOK
  <1>2. OwnerInv' /\ CallInv'
    BY DEF WorkerLoop, DeliveryInv, TypeOK, ApiTypeOK, WorkerTypeOK, OwnerInv,
           CallInv, HandInv, ChunkId
  <1>3. HandInv'
    BY DEF WorkerLoop, DeliveryInv, TypeOK, ApiTypeOK, WorkerTypeOK, OwnerInv,
           CallInv, HandInv, ItemInv, ItemsLeft, CleaningUp, NoWrites, ChunkId
  <1>4. ItemInv'
    BY DEF WorkerLoop, DeliveryInv, TypeOK, ApiTypeOK, WorkerTypeOK, HandInv, ItemInv,
           ItemsLeft, CleaningUp, ChunkId
  <1>5. NoLostWrite'
    BY DEF WorkerLoop, DeliveryInv, TypeOK, ApiTypeOK, WorkerTypeOK, OwnerInv,
           CallInv, HandInv, ItemInv, NoLostWrite, ItemsLeft, ChunkId
  <1>6. DoneIsWritten'
    BY DEF WorkerLoop, DeliveryInv, TypeOK, ApiTypeOK, WorkerTypeOK, CallInv, ItemInv,
           DoneIsWritten, ChunkId
  <1> QED BY <1>1, <1>2, <1>3, <1>4, <1>5, <1>6 DEF DeliveryInv

LEMMA WorkerWaitStep ==
  ASSUME DeliveryInv, WorkerWait
  PROVE  DeliveryInv'
  <1>1. TypeOK'
    BY DEF WorkerWait, DeliveryInv, TypeOK, ApiTypeOK, WorkerTypeOK
  <1>2. OwnerInv' /\ CallInv'
    BY DEF WorkerWait, DeliveryInv, TypeOK, ApiTypeOK, WorkerTypeOK, OwnerInv,
           CallInv, HandInv, ChunkId
  <1>3. HandInv'
    BY DEF WorkerWait, DeliveryInv, TypeOK, ApiTypeOK, WorkerTypeOK, OwnerInv,
           CallInv, HandInv, ItemInv, ItemsLeft, CleaningUp, NoWrites, ChunkId
  <1>4. ItemInv'
    BY DEF WorkerWait, DeliveryInv, TypeOK, ApiTypeOK, WorkerTypeOK, HandInv, ItemInv,
           ItemsLeft, CleaningUp, ChunkId
  <1>5. NoLostWrite'
    BY DEF WorkerWait, DeliveryInv, TypeOK, ApiTypeOK, WorkerTypeOK, OwnerInv,
           CallInv, HandInv, ItemInv, NoLostWrite, ItemsLeft, ChunkId
  <1>6. DoneIsWritten'
    BY DEF WorkerWait, DeliveryInv, TypeOK, ApiTypeOK, WorkerTypeOK, CallInv, ItemInv,
           DoneIsWritten, ChunkId
  <1> QED BY <1>1, <1>2, <1>3, <1>4, <1>5, <1>6 DEF DeliveryInv

LEMMA WorkerTakeStep ==
  ASSUME DeliveryInv, WorkerTake
  PROVE  DeliveryInv'
  <1>1. TypeOK'
    BY DEF WorkerTake, MayTake, NoWrites, DeliveryInv, TypeOK, ApiTypeOK, WorkerTypeOK
  <1>2. OwnerInv' /\ CallInv'
    BY DEF WorkerTake, MayTake, NoWrites, DeliveryInv, TypeOK, ApiTypeOK,
           WorkerTypeOK, OwnerInv, CallInv, HandInv, ChunkId
  <1>3. HandInv'
    BY DEF WorkerTake, MayTake, NoWrites, DeliveryInv, TypeOK, ApiTypeOK,
           WorkerTypeOK, OwnerInv, CallInv, HandInv, ItemInv, ItemsLeft, CleaningUp,
           ChunkId
  <1>4. ItemInv'
    BY DEF WorkerTake, MayTake, NoWrites, DeliveryInv, TypeOK, ApiTypeOK,
           WorkerTypeOK, HandInv, ItemInv, ItemsLeft, CleaningUp, ChunkId
  <1>5. NoLostWrite'
    <2>1. \A w \in Write : pc[w] = "posted" => m_id[w] \in ChunkId
      BY DEF DeliveryInv, CallInv, TypeOK, ApiTypeOK
    <2>2. \A c \in ChunkId : to_handle[c] = NoWrite
      BY DEF WorkerTake, MayTake, NoWrites, DeliveryInv, HandInv
    <2>3. \A c \in ChunkId : c > -1
      BY DEF ChunkId
    <2>4. \A w \in Write : pc[w] = "posted" /\ w \notin m_is_done => m_request[m_id[w]] = w
      BY <2>1, <2>2 DEF DeliveryInv, NoLostWrite
    <2> QED BY <2>1, <2>3, <2>4 DEF WorkerTake, NoLostWrite
  <1>6. DoneIsWritten'
    BY DEF WorkerTake, MayTake, NoWrites, DeliveryInv, TypeOK, ApiTypeOK,
           WorkerTypeOK, CallInv, ItemInv, DoneIsWritten, ChunkId
  <1> QED BY <1>1, <1>2, <1>3, <1>4, <1>5, <1>6 DEF DeliveryInv

LEMMA WriteItemStep ==
  ASSUME DeliveryInv, NEW c \in ChunkId, WriteItem(c)
  PROVE  DeliveryInv'
  <1>1. TypeOK'
    <2>1. c \in Position /\ c \in Bytes /\ Torn \in Bytes
      BY DEF Position, Bytes
    <2>2. file' \in [Position -> Bytes]
      BY <2>1 DEF WriteItem, get_offset, ShortWrite, CutOff, DeliveryInv, TypeOK, WorkerTypeOK
    <2> QED
      BY <2>2
      DEF WriteItem, ShortWrite, CutOff, Failed, DeliveryInv, TypeOK, ApiTypeOK, WorkerTypeOK
  <1>2. OwnerInv' /\ CallInv'
    BY DEF WriteItem, ItemsLeft, get_offset, ShortWrite, CutOff, Failed, DeliveryInv, TypeOK,
           ApiTypeOK, WorkerTypeOK, OwnerInv, CallInv, HandInv, ChunkId
  <1>3. HandInv'
    <2>1. ItemsLeft' \subseteq ItemsLeft
      BY DEF WriteItem, ItemsLeft, DeliveryInv, TypeOK, WorkerTypeOK, ChunkId
    <2>2. ~CleaningUp /\ wpc' \in {"flush", "clean_up"}
      BY DEF WriteItem, ShortWrite, CutOff, Failed, CleaningUp
    <2> QED BY <2>1, <2>2 DEF WriteItem, DeliveryInv, HandInv
  <1>4. ItemInv'
    <2>1. to_handle[c] \in Write /\ to_handle[c] \notin m_is_done
      BY DEF WriteItem, ItemsLeft, DeliveryInv, HandInv, CleaningUp, TypeOK,
             WorkerTypeOK
    <2>2. wpc' = "flush" => file' = [file EXCEPT ![c] = c]
      BY DEF WriteItem, ShortWrite, CutOff, Failed, get_offset
    <2>3. c \in Position
      BY DEF Position
    <2>4. wpc' = "flush" => file'[c] = c
      BY <2>2, <2>3 DEF DeliveryInv, TypeOK, WorkerTypeOK
    <2> QED BY <2>1, <2>4 DEF WriteItem, ShortWrite, CutOff, Failed, ItemInv
  <1>5. NoLostWrite'
    <2>1. \A d \in ChunkId : to_handle[d] # NoWrite /\ d > item => c <= d
      BY DEF WriteItem, ItemsLeft
    <2>2. \A w \in Write : pc[w] = "posted" => m_id[w] \in ChunkId
      BY DEF DeliveryInv, CallInv, TypeOK, ApiTypeOK
    <2>3. wpc = "item" /\ wpc' # "item" /\ item' = c
      BY DEF WriteItem, ShortWrite, CutOff, Failed
    <2> QED BY <2>1, <2>2, <2>3 DEF WriteItem, DeliveryInv, NoLostWrite, ChunkId
  <1>6. DoneIsWritten'
    <2>1. to_handle[c] \in Write /\ to_handle[c] \notin m_is_done /\ m_id[to_handle[c]] = c
      BY DEF WriteItem, ItemsLeft, DeliveryInv, HandInv, CleaningUp, TypeOK,
             WorkerTypeOK
    <2>2. \A w \in m_is_done : m_id[w] # c
      BY <2>1 DEF DeliveryInv, CallInv, TypeOK, ApiTypeOK, ChunkId
    <2>3. \A p \in Position \ {c} : file'[p] = file[p]
      BY DEF WriteItem, ShortWrite, CutOff, get_offset, DeliveryInv, TypeOK, WorkerTypeOK
    <2>4. \A w \in m_is_done : m_id[w] \in Position
      BY DEF DeliveryInv, CallInv, TypeOK, ApiTypeOK, Position
    <2> QED BY <2>2, <2>3, <2>4 DEF WriteItem, DeliveryInv, DoneIsWritten
  <1> QED BY <1>1, <1>2, <1>3, <1>4, <1>5, <1>6 DEF DeliveryInv

LEMMA FlushStep ==
  ASSUME DeliveryInv, Flush
  PROVE  DeliveryInv'
  <1>1. TypeOK'
    BY DEF Flush, Sync, Failed, DeliveryInv, TypeOK, ApiTypeOK, WorkerTypeOK
  <1>2. OwnerInv' /\ CallInv'
    BY DEF Flush, Sync, Failed, DeliveryInv, TypeOK, ApiTypeOK, WorkerTypeOK, OwnerInv,
           CallInv, HandInv, ChunkId
  <1>3. HandInv'
    BY DEF Flush, Sync, Failed, DeliveryInv, TypeOK, ApiTypeOK, WorkerTypeOK, OwnerInv,
           CallInv, HandInv, ItemInv, ItemsLeft, CleaningUp, NoWrites, ChunkId
  <1>4. ItemInv'
    BY DEF Flush, Sync, Failed, DeliveryInv, TypeOK, ApiTypeOK, WorkerTypeOK, HandInv,
           ItemInv, ItemsLeft, CleaningUp, ChunkId
  <1>5. NoLostWrite'
    BY DEF Flush, Sync, Failed, DeliveryInv, TypeOK, ApiTypeOK, WorkerTypeOK, OwnerInv,
           CallInv, HandInv, ItemInv, NoLostWrite, ItemsLeft, ChunkId
  <1>6. DoneIsWritten'
    BY DEF Flush, Sync, Failed, DeliveryInv, TypeOK, ApiTypeOK, WorkerTypeOK, CallInv,
           ItemInv, DoneIsWritten, ChunkId
  <1> QED BY <1>1, <1>2, <1>3, <1>4, <1>5, <1>6 DEF DeliveryInv

LEMMA DoneStep ==
  ASSUME DeliveryInv, Done
  PROVE  DeliveryInv'
  <1>1. TypeOK'
    <2>1. to_handle[item] \in Write
      BY DEF Done, DeliveryInv, ItemInv
    <2> QED BY <2>1 DEF Done, DeliveryInv, TypeOK, ApiTypeOK, WorkerTypeOK
  <1>2. OwnerInv' /\ CallInv'
    <2>1. item \in ChunkId /\ to_handle[item] \in Write /\ m_id[to_handle[item]] = item
      BY DEF Done, DeliveryInv, ItemInv, HandInv
    <2>2. pc[to_handle[item]] # "idle"
      BY <2>1 DEF DeliveryInv, CallInv, ChunkId
    <2> QED BY <2>1, <2>2 DEF Done, DeliveryInv, OwnerInv, CallInv
  <1>3. HandInv'
    <2>1. item \in ChunkId /\ to_handle[item] \in Write /\ m_id[to_handle[item]] = item
      BY DEF Done, DeliveryInv, ItemInv, HandInv
    <2>a. to_handle[item] # NoWrite
      BY <2>1
    <2>b. \A c \in ChunkId : to_handle[c] # NoWrite => m_id[to_handle[c]] = c
      BY DEF DeliveryInv, HandInv
    <2>c. \A c \in ChunkId :
            m_request[c] # NoWrite => m_id[m_request[c]] = c /\ m_request[c] # to_handle[c]
      BY DEF DeliveryInv, HandInv
    <2>2. \A c \in ChunkId : to_handle[c] = to_handle[item] => c = item
      BY <2>1, <2>a, <2>b, Zenon
    <2>3. \A c \in ChunkId : m_request[c] # to_handle[item]
      BY <2>1, <2>a, <2>c, Zenon
    <2>4. item \notin ItemsLeft /\ ItemsLeft' = ItemsLeft
      BY <2>1 DEF Done, ItemsLeft, ChunkId
    <2>5. \A c \in ItemsLeft : to_handle[c] \notin m_is_done'
      BY <2>2, <2>4 DEF Done, DeliveryInv, HandInv, CleaningUp, ItemsLeft
    <2>6. \A c \in ChunkId : m_request[c] # NoWrite => m_request[c] \notin m_is_done'
      BY <2>3 DEF Done, DeliveryInv, HandInv, CleaningUp
    <2> QED BY <2>4, <2>5, <2>6 DEF Done, DeliveryInv, HandInv
  <1>4. ItemInv'
    BY DEF Done, DeliveryInv, TypeOK, ApiTypeOK, WorkerTypeOK, HandInv, ItemInv,
           ItemsLeft, CleaningUp, ChunkId
  <1>5. NoLostWrite'
    BY DEF Done, DeliveryInv, TypeOK, ApiTypeOK, WorkerTypeOK, OwnerInv, CallInv,
           HandInv, ItemInv, NoLostWrite, ItemsLeft, ChunkId
  <1>6. DoneIsWritten'
    <2>1. to_handle[item] \in Write /\ m_id[to_handle[item]] = item /\ file[item] = item
      BY DEF Done, DeliveryInv, ItemInv, HandInv
    <2> QED BY <2>1 DEF Done, DeliveryInv, DoneIsWritten
  <1> QED BY <1>1, <1>2, <1>3, <1>4, <1>5, <1>6 DEF DeliveryInv

LEMMA CountStep ==
  ASSUME DeliveryInv, Count
  PROVE  DeliveryInv'
  <1>1. TypeOK'
    <2>1. m_complited_chunks' \in Nat
      BY DEF Count, DeliveryInv, TypeOK, WorkerTypeOK
    <2> QED BY <2>1 DEF Count, DeliveryInv, TypeOK, ApiTypeOK, WorkerTypeOK
  <1>2. OwnerInv' /\ CallInv'
    BY DEF Count, DeliveryInv, TypeOK, ApiTypeOK, WorkerTypeOK, OwnerInv, CallInv,
           HandInv, ChunkId
  <1>3. HandInv'
    BY DEF Count, DeliveryInv, TypeOK, ApiTypeOK, WorkerTypeOK, OwnerInv, CallInv,
           HandInv, ItemInv, ItemsLeft, CleaningUp, NoWrites, ChunkId
  <1>4. ItemInv'
    BY DEF Count, DeliveryInv, TypeOK, ApiTypeOK, WorkerTypeOK, HandInv, ItemInv,
           ItemsLeft, CleaningUp, ChunkId
  <1>5. NoLostWrite'
    <2>1. to_handle[item] \in m_is_done /\ item \in ChunkId
      BY DEF Count, DeliveryInv, ItemInv
    <2> QED BY <2>1 DEF Count, DeliveryInv, NoLostWrite
  <1>6. DoneIsWritten'
    BY DEF Count, DeliveryInv, TypeOK, ApiTypeOK, WorkerTypeOK, CallInv, ItemInv,
           DoneIsWritten, ChunkId
  <1> QED BY <1>1, <1>2, <1>3, <1>4, <1>5, <1>6 DEF DeliveryInv

LEMMA WorkerBatchEndStep ==
  ASSUME DeliveryInv, WorkerBatchEnd
  PROVE  DeliveryInv'
  <1>1. TypeOK'
    BY DEF WorkerBatchEnd, NoWrites, ItemsLeft, DeliveryInv, TypeOK, ApiTypeOK,
           WorkerTypeOK
  <1>2. OwnerInv' /\ CallInv'
    BY DEF WorkerBatchEnd, NoWrites, ItemsLeft, DeliveryInv, TypeOK, ApiTypeOK,
           WorkerTypeOK, OwnerInv, CallInv, HandInv, ChunkId
  <1>3. HandInv'
    BY DEF WorkerBatchEnd, NoWrites, ItemsLeft, DeliveryInv, TypeOK, ApiTypeOK,
           WorkerTypeOK, OwnerInv, CallInv, HandInv, ItemInv, CleaningUp, ChunkId
  <1>4. ItemInv'
    BY DEF WorkerBatchEnd, NoWrites, ItemsLeft, DeliveryInv, TypeOK, ApiTypeOK,
           WorkerTypeOK, HandInv, ItemInv, CleaningUp, ChunkId
  <1>5. NoLostWrite'
    <2>1. \A w \in Write : pc[w] = "posted" => m_id[w] \in ChunkId
      BY DEF DeliveryInv, CallInv, TypeOK, ApiTypeOK
    <2>2. \A c \in ChunkId : c > item => to_handle[c] = NoWrite
      BY DEF WorkerBatchEnd, ItemsLeft
    <2>3. \A w \in Write : pc[w] = "posted" /\ w \notin m_is_done => m_request[m_id[w]] = w
      BY <2>1, <2>2 DEF WorkerBatchEnd, DeliveryInv, NoLostWrite
    <2> QED BY <2>3 DEF WorkerBatchEnd, NoLostWrite
  <1>6. DoneIsWritten'
    BY DEF WorkerBatchEnd, NoWrites, ItemsLeft, DeliveryInv, TypeOK, ApiTypeOK,
           WorkerTypeOK, CallInv, ItemInv, DoneIsWritten, ChunkId
  <1> QED BY <1>1, <1>2, <1>3, <1>4, <1>5, <1>6 DEF DeliveryInv

LEMMA CleanUpBatchStep ==
  ASSUME DeliveryInv, CleanUpBatch
  PROVE  DeliveryInv'
  <1>1. TypeOK'
    <2>a. \A c \in ChunkId : to_handle[c] \in Write \cup {NoWrite}
      BY DEF DeliveryInv, TypeOK, WorkerTypeOK
    <2>1. Deliveries(to_handle) \subseteq Write
      BY <2>a DEF Deliveries
    <2> QED BY <2>1 DEF CleanUpBatch, DeliveryInv, TypeOK, ApiTypeOK, WorkerTypeOK
  <1>2. OwnerInv' /\ CallInv'
    <2>1. \A w \in Deliveries(to_handle) : w \in Write /\ pc[w] # "idle"
      BY DEF Deliveries, DeliveryInv, CallInv, HandInv, TypeOK, WorkerTypeOK, ChunkId
    <2> QED BY <2>1 DEF CleanUpBatch, DeliveryInv, OwnerInv, CallInv
  <1>3. HandInv'
    BY DEF CleanUpBatch, Deliveries, DeliveryInv, TypeOK, ApiTypeOK, WorkerTypeOK,
           OwnerInv, CallInv, HandInv, ItemInv, ItemsLeft, CleaningUp, NoWrites,
           ChunkId
  <1>4. ItemInv'
    BY DEF CleanUpBatch, Deliveries, DeliveryInv, TypeOK, ApiTypeOK, WorkerTypeOK,
           HandInv, ItemInv, ItemsLeft, CleaningUp, ChunkId
  <1>5. NoLostWrite'
    BY DEF CleanUpBatch, Deliveries, DeliveryInv, TypeOK, ApiTypeOK, WorkerTypeOK,
           OwnerInv, CallInv, HandInv, ItemInv, NoLostWrite, ItemsLeft, ChunkId
  <1>6. DoneIsWritten'
    BY DEF CleanUpBatch, Deliveries, DeliveryInv, TypeOK, ApiTypeOK, WorkerTypeOK,
           CallInv, ItemInv, DoneIsWritten, ChunkId
  <1> QED BY <1>1, <1>2, <1>3, <1>4, <1>5, <1>6 DEF DeliveryInv

LEMMA CleanUpRequestStep ==
  ASSUME DeliveryInv, CleanUpRequest
  PROVE  DeliveryInv'
  <1>1. TypeOK'
    <2>a. \A c \in ChunkId : m_request[c] \in Write \cup {NoWrite}
      BY DEF DeliveryInv, TypeOK, ApiTypeOK
    <2>1. Deliveries(m_request) \subseteq Write
      BY <2>a DEF Deliveries
    <2> QED BY <2>1 DEF CleanUpRequest, DeliveryInv, TypeOK, ApiTypeOK, WorkerTypeOK
  <1>2. OwnerInv' /\ CallInv'
    <2>a. \A c \in ChunkId : m_request[c] # NoWrite => m_request[c] \in Write
      BY DEF DeliveryInv, TypeOK, ApiTypeOK
    <2>1. \A c \in ChunkId : m_request[c] # NoWrite =>
            m_request[c] \in Write /\ m_id[m_request[c]] = c
      BY <2>a DEF DeliveryInv, HandInv
    <2>2. \A w \in Deliveries(m_request) : w \in Write /\ m_id[w] # -1
      BY <2>1 DEF Deliveries, ChunkId
    <2>3. \A w \in Deliveries(m_request) : pc[w] # "idle"
      BY <2>2 DEF DeliveryInv, CallInv
    <2> QED BY <2>2, <2>3 DEF CleanUpRequest, DeliveryInv, OwnerInv, CallInv
  <1>3. HandInv'
    BY DEF CleanUpRequest, Deliveries, DeliveryInv, TypeOK, ApiTypeOK, WorkerTypeOK,
           OwnerInv, CallInv, HandInv, ItemInv, ItemsLeft, CleaningUp, NoWrites,
           ChunkId
  <1>4. ItemInv'
    BY DEF CleanUpRequest, Deliveries, DeliveryInv, TypeOK, ApiTypeOK, WorkerTypeOK,
           HandInv, ItemInv, ItemsLeft, CleaningUp, ChunkId
  <1>5. NoLostWrite'
    BY DEF CleanUpRequest, Deliveries, DeliveryInv, TypeOK, ApiTypeOK, WorkerTypeOK,
           OwnerInv, CallInv, HandInv, ItemInv, NoLostWrite, ItemsLeft, ChunkId
  <1>6. DoneIsWritten'
    BY DEF CleanUpRequest, Deliveries, DeliveryInv, TypeOK, ApiTypeOK, WorkerTypeOK,
           CallInv, ItemInv, DoneIsWritten, ChunkId
  <1> QED BY <1>1, <1>2, <1>3, <1>4, <1>5, <1>6 DEF DeliveryInv

LEMMA WorkerEndStep ==
  ASSUME DeliveryInv, WorkerEnd
  PROVE  DeliveryInv'
  <1>1. TypeOK'
    BY DEF WorkerEnd, Sync, Failed, DeliveryInv, TypeOK, ApiTypeOK, WorkerTypeOK
  <1>2. OwnerInv' /\ CallInv'
    BY DEF WorkerEnd, Sync, Failed, DeliveryInv, TypeOK, ApiTypeOK, WorkerTypeOK, OwnerInv,
           CallInv, HandInv, ChunkId
  <1>3. HandInv'
    BY DEF WorkerEnd, Sync, Failed, DeliveryInv, TypeOK, ApiTypeOK, WorkerTypeOK, OwnerInv,
           CallInv, HandInv, ItemInv, ItemsLeft, CleaningUp, NoWrites, ChunkId
  <1>4. ItemInv'
    BY DEF WorkerEnd, Sync, Failed, DeliveryInv, TypeOK, ApiTypeOK, WorkerTypeOK, HandInv,
           ItemInv, ItemsLeft, CleaningUp, ChunkId
  <1>5. NoLostWrite'
    BY DEF WorkerEnd, Sync, Failed, DeliveryInv, TypeOK, ApiTypeOK, WorkerTypeOK, OwnerInv,
           CallInv, HandInv, ItemInv, NoLostWrite, ItemsLeft, ChunkId
  <1>6. DoneIsWritten'
    BY DEF WorkerEnd, Sync, Failed, DeliveryInv, TypeOK, ApiTypeOK, WorkerTypeOK, CallInv,
           ItemInv, DoneIsWritten, ChunkId
  <1> QED BY <1>1, <1>2, <1>3, <1>4, <1>5, <1>6 DEF DeliveryInv

LEMMA SyncAgainStep ==
  ASSUME DeliveryInv, SyncAgain
  PROVE  DeliveryInv'
  <1>1. TypeOK'
    <2>1. restarts' \in Nat
      BY DEF SyncAgain, Restart, DeliveryInv, TypeOK, WorkerTypeOK
    <2>2. ApiTypeOK'
      BY DEF SyncAgain, Restart, NoWrites, DeliveryInv, TypeOK, ApiTypeOK
    <2> QED
      BY <2>1, <2>2
      DEF SyncAgain, Restart, NoWrites, DeliveryInv, TypeOK, WorkerTypeOK
  <1>2. OwnerInv' /\ CallInv'
    BY DEF SyncAgain, Restart, NoWrites, DeliveryInv, TypeOK, ApiTypeOK, WorkerTypeOK,
           OwnerInv, CallInv, HandInv, ChunkId
  <1>3. HandInv'
    BY DEF SyncAgain, Restart, NoWrites, DeliveryInv, TypeOK, ApiTypeOK, WorkerTypeOK,
           OwnerInv, CallInv, HandInv, ItemInv, ItemsLeft, CleaningUp, ChunkId
  <1>4. ItemInv'
    BY DEF SyncAgain, Restart, NoWrites, DeliveryInv, TypeOK, ApiTypeOK, WorkerTypeOK,
           HandInv, ItemInv, ItemsLeft, CleaningUp, ChunkId
  <1>5. NoLostWrite'
    BY DEF SyncAgain, Restart, NoWrites, DeliveryInv, TypeOK, ApiTypeOK, WorkerTypeOK,
           OwnerInv, CallInv, HandInv, ItemInv, NoLostWrite, ItemsLeft, ChunkId
  <1>6. DoneIsWritten'
    BY DEF SyncAgain, Restart, NoWrites, DeliveryInv, TypeOK, ApiTypeOK, WorkerTypeOK,
           CallInv, ItemInv, DoneIsWritten, ChunkId
  <1> QED BY <1>1, <1>2, <1>3, <1>4, <1>5, <1>6 DEF DeliveryInv

LEMMA CrashStep ==
  ASSUME DeliveryInv, Crash
  PROVE  DeliveryInv'
  <1>1. TypeOK'
    <2>1. Torn \in Bytes
      BY DEF Bytes
    <2>2. disk' \in [Position -> Bytes]
      BY <2>1 DEF Crash, DeliveryInv, TypeOK, WorkerTypeOK
    <2>3. restarts' \in Nat
      BY DEF Crash, Restart, DeliveryInv, TypeOK, WorkerTypeOK
    <2>4. ApiTypeOK'
      BY DEF Crash, Restart, NoWrites, DeliveryInv, TypeOK, ApiTypeOK
    <2> QED
      BY <2>2, <2>3, <2>4 DEF Crash, Restart, NoWrites, TypeOK, WorkerTypeOK
  <1>2. OwnerInv' /\ CallInv'
    BY DEF Crash, Restart, NoWrites, DeliveryInv, TypeOK, ApiTypeOK, WorkerTypeOK,
           OwnerInv, CallInv, HandInv, ChunkId
  <1>3. HandInv'
    BY DEF Crash, Restart, NoWrites, DeliveryInv, TypeOK, ApiTypeOK, WorkerTypeOK,
           OwnerInv, CallInv, HandInv, ItemInv, ItemsLeft, CleaningUp, ChunkId
  <1>4. ItemInv'
    BY DEF Crash, Restart, NoWrites, DeliveryInv, TypeOK, ApiTypeOK, WorkerTypeOK,
           HandInv, ItemInv, ItemsLeft, CleaningUp, ChunkId
  <1>5. NoLostWrite'
    BY DEF Crash, Restart, NoWrites, DeliveryInv, TypeOK, ApiTypeOK, WorkerTypeOK,
           OwnerInv, CallInv, HandInv, ItemInv, NoLostWrite, ItemsLeft, ChunkId
  <1>6. DoneIsWritten'
    BY DEF Crash, Restart, NoWrites, DeliveryInv, TypeOK, ApiTypeOK, WorkerTypeOK,
           CallInv, ItemInv, DoneIsWritten, ChunkId
  <1> QED BY <1>1, <1>2, <1>3, <1>4, <1>5, <1>6 DEF DeliveryInv

LEMMA DeliveryInit == Init => DeliveryInv
  <1> SUFFICES ASSUME Init PROVE DeliveryInv
    OBVIOUS
  <1>1. disk \in [Position -> Bytes] /\ file = disk
    BY DEF Init, Bytes
  <1>2. TypeOK
    BY <1>1 DEF Init, TypeOK, ApiTypeOK, WorkerTypeOK, NoWrites
  <1>3. OwnerInv /\ CallInv
    BY DEF Init, OwnerInv, CallInv
  <1>4. HandInv /\ ItemInv
    BY DEF Init, HandInv, ItemInv, NoWrites, ItemsLeft
  <1>5. NoLostWrite /\ DoneIsWritten
    BY DEF Init, NoLostWrite, DoneIsWritten
  <1> QED BY <1>2, <1>3, <1>4, <1>5 DEF DeliveryInv

LEMMA DeliveryNext == DeliveryInv /\ [Next]_vars => DeliveryInv'
  <1> SUFFICES ASSUME DeliveryInv, [Next]_vars PROVE DeliveryInv'
    OBVIOUS
  <1>0. CASE UNCHANGED vars
    <2>1. TypeOK' /\ OwnerInv' /\ CallInv'
      BY <1>0
      DEF vars, DeliveryInv, TypeOK, ApiTypeOK, WorkerTypeOK, OwnerInv, CallInv
    <2>2. HandInv' /\ ItemInv'
      BY <1>0 DEF vars, DeliveryInv, HandInv, ItemInv, ItemsLeft, CleaningUp
    <2>3. NoLostWrite' /\ DoneIsWritten'
      BY <1>0 DEF vars, DeliveryInv, NoLostWrite, DoneIsWritten
    <2> QED BY <2>1, <2>2, <2>3 DEF DeliveryInv
  <1>1. CASE Start
    BY <1>1, StartStep
  <1>2. CASE Stop
    BY <1>2, StopStep
  <1>3. CASE Join
    BY <1>3, JoinStep
  <1>4. CASE \E w \in Write, c \in ChunkId : WriteChunk(w, c)
    BY <1>4, WriteChunkStep
  <1>5. CASE \E w \in Write : Wait(w)
    BY <1>5, WaitStep
  <1>6. CASE \E w \in Write : GiveUp(w)
    BY <1>6, GiveUpStep
  <1>7. CASE WorkerOpen
    BY <1>7, WorkerOpenStep
  <1>8. CASE WorkerLoop
    BY <1>8, WorkerLoopStep
  <1>9. CASE WorkerWait
    BY <1>9, WorkerWaitStep
  <1>10. CASE WorkerTake
    BY <1>10, WorkerTakeStep
  <1>11. CASE \E c \in ChunkId : WriteItem(c)
    BY <1>11, WriteItemStep
  <1>12. CASE Flush
    BY <1>12, FlushStep
  <1>13. CASE Done
    BY <1>13, DoneStep
  <1>14. CASE Count
    BY <1>14, CountStep
  <1>15. CASE WorkerBatchEnd
    BY <1>15, WorkerBatchEndStep
  <1>16. CASE CleanUpBatch
    BY <1>16, CleanUpBatchStep
  <1>17. CASE CleanUpRequest
    BY <1>17, CleanUpRequestStep
  <1>18. CASE WorkerEnd
    BY <1>18, WorkerEndStep
  <1>19. CASE SyncAgain
    BY <1>19, SyncAgainStep
  <1>20. CASE Crash
    BY <1>20, CrashStep
  <1> QED
    BY <1>0, <1>1, <1>2, <1>3, <1>4, <1>5, <1>6, <1>7, <1>8, <1>9, <1>10, <1>11,
       <1>12, <1>13, <1>14, <1>15, <1>16, <1>17, <1>18, <1>19, <1>20
    DEF Next, Worker

LEMMA Delivery == Spec => []DeliveryInv
  BY DeliveryInit, DeliveryNext, PTL DEF Spec

(* Every variable keeps its type, whatever fails. *)
THEOREM TypeCorrect == Spec => []TypeOK
  <1>1. DeliveryInv => TypeOK
    BY DEF DeliveryInv
  <1> QED BY <1>1, Delivery, PTL

(* While a loader waits, its delivery is in m_request or in the batch the  *)
(* worker is at (write_chunk 119-126, worker_thread 195-205).              *)
THEOREM NoLostWriteCorrect == Spec => []NoLostWrite
  <1>1. DeliveryInv => NoLostWrite
    BY DEF DeliveryInv
  <1> QED BY <1>1, Delivery, PTL

(* A delivery that is done (225) is in the file, except for those that the *)
(* clean-up (235-242) declares done.                                       *)
THEOREM DoneIsWrittenCorrect == Spec => []DoneIsWritten
  <1>1. DeliveryInv => DoneIsWritten
    BY DEF DeliveryInv
  <1> QED BY <1>1, Delivery, PTL

-----------------------------------------------------------------------------
(* Nobody waits for a worker that sleeps.                                  *)

SomebodyWaits == owner = "joining" \/ \E w \in Write : pc[w] = "posted"

(* The event is signalled by the first delivery and by stop, and by        *)
(* nothing else; the worker waits for it only before.                      *)
SignalInv == m_signaled \/ (owner \in {"new", "open"} /\ \A w \in Write : pc[w] = "idle")

WorkerIsAwake == SomebodyWaits => wpc # "none" /\ (wpc = "wait" => MayTake)

LEMMA SignalNext == DeliveryInv /\ SignalInv /\ [Next]_vars => SignalInv'
  <1> SUFFICES ASSUME DeliveryInv, SignalInv, [Next]_vars PROVE SignalInv'
    OBVIOUS
  <1>1. CASE Start
    BY <1>1 DEF Start, SignalInv
  <1>2. CASE Stop
    BY <1>2 DEF Stop, SignalInv
  <1>3. CASE Join
    BY <1>3 DEF Join, SignalInv
  <1>4. CASE \E w \in Write, c \in ChunkId : WriteChunk(w, c)
    BY <1>4 DEF WriteChunk, SignalInv
  <1>5. CASE \E w \in Write : Wait(w) \/ GiveUp(w)
    <2>1. (\E w \in Write : pc[w] = "posted") /\ m_signaled' = m_signaled
      BY <1>5 DEF Wait, GiveUp, object_vars, signal_vars
    <2> QED BY <2>1 DEF SignalInv
  <1>6. CASE SyncAgain \/ Crash
    BY <1>6 DEF SyncAgain, Crash, Restart, SignalInv
  <1>7. CASE Worker \/ UNCHANGED vars
    <2>1. UNCHANGED <<owner, pc, m_signaled>>
      BY <1>7
      DEF Worker, vars, WorkerOpen, WorkerLoop, WorkerWait, WorkerTake, WriteItem,
          Flush, Done, Count, WorkerBatchEnd, CleanUpBatch, CleanUpRequest, WorkerEnd
    <2> QED BY <2>1 DEF SignalInv
  <1> QED BY <1>1, <1>2, <1>3, <1>4, <1>5, <1>6, <1>7 DEF Next

(* While a loader waits for its write_result or stop for the thread, the   *)
(* worker is not waiting in its turn (195-204): no signal is ever lost.    *)
THEOREM WorkerIsAwakeCorrect == Spec => []WorkerIsAwake
  <1>1. Init => SignalInv
    BY DEF Init, SignalInv
  <1>2. DeliveryInv /\ SignalInv => WorkerIsAwake
    <2> SUFFICES ASSUME DeliveryInv, SignalInv, SomebodyWaits PROVE WorkerIsAwake
      BY DEF WorkerIsAwake
    <2>1. m_signaled
      BY DEF SomebodyWaits, SignalInv
    <2>2. owner # "new"
      BY DEF SomebodyWaits, DeliveryInv, OwnerInv
    <2> QED BY <2>1, <2>2 DEF WorkerIsAwake, MayTake, DeliveryInv, OwnerInv
  <1> QED BY <1>1, <1>2, SignalNext, Delivery, PTL DEF Spec

-----------------------------------------------------------------------------
(* The worker's rounds.  That a loader that waits is woken, and that stop  *)
(* returns, is liveness (WaitReturns, StopReturns).  It rests on facts     *)
(* about steps and states: WorkerIsAwake; every round ends, in the next    *)
(* look at m_request or in the clean-up; and it leaves nobody of its       *)
(* batch.                                                                  *)

RoundStage ==
  CASE wpc = "none" -> 0
    [] wpc = "open" -> 1
    [] wpc \in {"item", "flush", "done", "count"} -> 2
    [] wpc = "loop" -> 3
    [] wpc = "take" -> 4
    [] wpc = "wait" -> 5
    [] wpc = "clean_up" -> 6
    [] wpc = "clean_request" -> 7
    [] wpc = "close" -> 8
    [] OTHER -> 9

(* Where the worker is with an item. *)
ItemStage ==
  CASE wpc = "flush" -> 0
    [] wpc = "done"  -> 1
    [] wpc = "count" -> 2
    [] OTHER         -> 3

GoesOn ==
  \/ RoundStage < RoundStage'
  \/ RoundStage = RoundStage' /\ item < item'
  \/ RoundStage = RoundStage' /\ item = item' /\ ItemStage < ItemStage'

RoundsEnd ==
  [][\/ WorkerTake
     \/ GoesOn
     \/ SyncAgain \/ Crash
     \/ ~Worker /\ UNCHANGED <<RoundStage, item, ItemStage>>]_vars

StagesAreBounded ==
  /\ RoundStage \in 0 .. 9
  /\ item \in -1 .. NumberOfChunks - 1
  /\ ItemStage \in 0 .. 3

RoundsLeaveNobody ==
  wpc \in {"open", "loop", "take", "wait"} =>
    \A w \in Write : pc[w] = "posted" /\ w \notin m_is_done => m_request[m_id[w]] = w

(* The definitions as a table, in this state and in the next. *)
RoundTable ==
  /\ wpc = "none" => RoundStage = 0
  /\ wpc = "open" => RoundStage = 1
  /\ wpc \in {"item", "flush", "done", "count"} => RoundStage = 2
  /\ wpc = "loop" => RoundStage = 3
  /\ wpc = "take" => RoundStage = 4
  /\ wpc = "wait" => RoundStage = 5
  /\ wpc = "clean_up" => RoundStage = 6
  /\ wpc = "clean_request" => RoundStage = 7
  /\ wpc = "close" => RoundStage = 8
  /\ wpc = "ended" => RoundStage = 9

ItemTable ==
  /\ wpc = "flush" => ItemStage = 0
  /\ wpc = "done" => ItemStage = 1
  /\ wpc = "count" => ItemStage = 2
  /\ wpc = "item" => ItemStage = 3

LEMMA RoundIs == RoundTable
  <1>1. /\ wpc = "none" => RoundStage = 0
        /\ wpc = "open" => RoundStage = 1
        /\ wpc = "loop" => RoundStage = 3
        /\ wpc = "take" => RoundStage = 4
        /\ wpc = "wait" => RoundStage = 5
    BY DEF RoundStage
  <1>2. wpc \in {"item", "flush", "done", "count"} => RoundStage = 2
    BY DEF RoundStage
  <1>3. /\ wpc = "clean_up" => RoundStage = 6
        /\ wpc = "clean_request" => RoundStage = 7
    BY DEF RoundStage
  <1>4. /\ wpc = "close" => RoundStage = 8
        /\ wpc = "ended" => RoundStage = 9
    BY DEF RoundStage
  <1> QED BY <1>1, <1>2, <1>3, <1>4 DEF RoundTable

LEMMA RoundIsNext == RoundTable'
  BY RoundIs, PTL

LEMMA ItemIs == ItemTable
  BY DEF ItemTable, ItemStage

LEMMA ItemIsNext == ItemTable'
  BY ItemIs, PTL

LEMMA WorkerGoesOn ==
  ASSUME DeliveryInv, DeliveryInv', Worker
  PROVE  WorkerTake \/ GoesOn
  <1>1. CASE WorkerOpen
    <2>1. RoundStage = 1
      BY <1>1, RoundIs DEF RoundTable, WorkerOpen
    <2>2. RoundStage' \in {3, 6}
      BY <1>1, RoundIsNext DEF RoundTable, WorkerOpen
    <2> QED BY <2>1, <2>2 DEF GoesOn
  <1>2. CASE WorkerLoop
    <2>0. wpc = "loop" /\ wpc' \in {"take", "clean_up"}
      BY <1>2 DEF WorkerLoop
    <2>1. RoundStage = 3
      BY <2>0, RoundIs DEF RoundTable
    <2>2. RoundStage' \in {4, 6}
      BY <2>0, RoundIsNext DEF RoundTable
    <2> QED BY <2>1, <2>2 DEF GoesOn
  <1>3. CASE WorkerWait
    <2>1. RoundStage = 4
      BY <1>3, RoundIs DEF RoundTable, WorkerWait
    <2>2. RoundStage' = 5
      BY <1>3, RoundIsNext DEF RoundTable, WorkerWait
    <2> QED BY <2>1, <2>2 DEF GoesOn
  <1>4. CASE \E c \in ChunkId : WriteItem(c)
    <2>1. PICK c \in ChunkId : WriteItem(c)
      BY <1>4
    <2>2. /\ item < item' /\ wpc = "item" /\ wpc' \in {"flush", "clean_up"}
      BY <2>1 DEF WriteItem, ShortWrite, ItemsLeft
    <2>3. RoundStage = 2
      BY <2>2, RoundIs DEF RoundTable
    <2>4. wpc' = "flush" => RoundStage' = 2
      BY RoundIsNext DEF RoundTable
    <2>5. wpc' = "clean_up" => RoundStage' = 6
      BY RoundIsNext DEF RoundTable
    <2> QED BY <2>2, <2>3, <2>4, <2>5 DEF GoesOn
  <1>5. CASE Flush \/ Done \/ Count
    <2>1. /\ wpc \in {"flush", "done", "count"} /\ wpc' \in {"item", "flush", "done", "count"}
          /\ item' = item
      BY <1>5 DEF Flush, Done, Count, batch_vars
    <2>2. RoundStage = 2
      BY <2>1, RoundIs DEF RoundTable
    <2>3. RoundStage' = 2
      BY <2>1, RoundIsNext DEF RoundTable
    <2>4. ItemStage < ItemStage'
      <3>1. CASE Flush
        BY <3>1, ItemIs, ItemIsNext DEF ItemTable, Flush
      <3>2. CASE Done
        BY <3>2, ItemIs, ItemIsNext DEF ItemTable, Done
      <3>3. CASE Count
        BY <3>3, ItemIs, ItemIsNext DEF ItemTable, Count
      <3> QED BY <1>5, <3>1, <3>2, <3>3
    <2> QED BY <2>1, <2>2, <2>3, <2>4 DEF GoesOn
  <1>6. CASE WorkerBatchEnd
    <2>1. RoundStage = 2
      BY <1>6, RoundIs DEF RoundTable, WorkerBatchEnd
    <2>2. RoundStage' = 3
      BY <1>6, RoundIsNext DEF RoundTable, WorkerBatchEnd
    <2> QED BY <2>1, <2>2 DEF GoesOn
  <1>7. CASE CleanUpBatch
    <2>1. RoundStage = 6
      BY <1>7, RoundIs DEF RoundTable, CleanUpBatch
    <2>2. RoundStage' = 7
      BY <1>7, RoundIsNext DEF RoundTable, CleanUpBatch
    <2> QED BY <2>1, <2>2 DEF GoesOn
  <1>8. CASE CleanUpRequest
    <2>1. RoundStage = 7
      BY <1>8, RoundIs DEF RoundTable, CleanUpRequest
    <2>2. RoundStage' = 8
      BY <1>8, RoundIsNext DEF RoundTable, CleanUpRequest
    <2> QED BY <2>1, <2>2 DEF GoesOn
  <1>9. CASE WorkerEnd
    <2>1. RoundStage = 8
      BY <1>9, RoundIs DEF RoundTable, WorkerEnd
    <2>2. RoundStage' = 9
      BY <1>9, RoundIsNext DEF RoundTable, WorkerEnd
    <2> QED BY <2>1, <2>2 DEF GoesOn
  <1> QED BY <1>1, <1>2, <1>3, <1>4, <1>5, <1>6, <1>7, <1>8, <1>9 DEF Worker

(* Within a session, whatever fails and whoever delivers meanwhile, the    *)
(* worker only goes forward between two looks at m_request: through its    *)
(* items in their order, each written, synced, acknowledged and counted,   *)
(* and back to m_request, or through the clean-up to its end.              *)
THEOREM RoundsEndCorrect == Spec => RoundsEnd
  <1>1. ASSUME DeliveryInv, [Next]_vars, ~UNCHANGED vars
        PROVE  \/ WorkerTake
               \/ GoesOn
               \/ SyncAgain \/ Crash
               \/ ~Worker /\ UNCHANGED <<RoundStage, item, ItemStage>>
    <2>0. DeliveryInv' /\ Next
      BY <1>1, DeliveryNext
    <2>1. CASE Worker
      BY <1>1, <2>0, <2>1, WorkerGoesOn
    <2>2. CASE ~Worker /\ Start
      <3>1. RoundStage = 0
        BY <1>1, <2>2, RoundIs DEF RoundTable, Start, DeliveryInv, OwnerInv
      <3>2. RoundStage' = 1
        BY <2>2, RoundIsNext DEF RoundTable, Start
      <3> QED BY <3>1, <3>2 DEF GoesOn
    <2>3. CASE ~Worker /\ ~Start /\ ~SyncAgain /\ ~Crash
      <3>1. UNCHANGED <<wpc, item>>
        BY <2>0, <2>3
        DEF Next, Stop, Join, Wait, GiveUp, WriteChunk, object_vars, batch_vars
      <3> QED BY <2>3, <3>1 DEF RoundStage, ItemStage
    <2> QED BY <2>1, <2>2, <2>3
  <1>2. DeliveryInv /\ [Next]_vars =>
          [\/ WorkerTake
           \/ GoesOn
           \/ SyncAgain \/ Crash
           \/ ~Worker /\ UNCHANGED <<RoundStage, item, ItemStage>>]_vars
    BY <1>1
  <1> QED BY <1>2, Delivery, PTL DEF Spec, RoundsEnd

(* There is only so far to go: with RoundsEnd, every round ends, after a   *)
(* number of steps that the size of the file bounds.                       *)
THEOREM StagesAreBoundedCorrect == Spec => []StagesAreBounded
  <1>1. DeliveryInv => StagesAreBounded
    <2> SUFFICES ASSUME DeliveryInv PROVE StagesAreBounded
      OBVIOUS
    <2>1. RoundStage \in 0 .. 9
      <3>1. wpc \in {"none", "open", "loop", "take", "wait", "item", "flush", "done", "count",
                     "clean_up", "clean_request", "close", "ended"}
        BY DEF DeliveryInv, TypeOK, WorkerTypeOK
      <3>2. RoundStage \in {0, 1, 2, 3, 4, 5, 6, 7, 8, 9}
        BY <3>1, RoundIs DEF RoundTable
      <3> QED BY <3>2
    <2>2. item \in -1 .. NumberOfChunks - 1
      BY DEF DeliveryInv, TypeOK, WorkerTypeOK, ChunkId
    <2>3. ItemStage \in 0 .. 3
      BY DEF ItemStage
    <2> QED BY <2>1, <2>2, <2>3 DEF StagesAreBounded
  <1> QED BY <1>1, Delivery, PTL

(* A delivery somebody waits for between two rounds is in m_request, all   *)
(* of which the next round takes: a loader waits for two rounds at most.   *)
THEOREM RoundsLeaveNobodyCorrect == Spec => []RoundsLeaveNobody
  <1>1. DeliveryInv => RoundsLeaveNobody
    <2> SUFFICES ASSUME DeliveryInv, wpc \in {"open", "loop", "take", "wait"},
                        NEW w \in Write, pc[w] = "posted", w \notin m_is_done
                 PROVE  m_request[m_id[w]] = w
      BY DEF RoundsLeaveNobody
    <2>1. m_id[w] \in ChunkId
      BY DEF DeliveryInv, CallInv, TypeOK, ApiTypeOK
    <2>2. to_handle[m_id[w]] = NoWrite
      BY <2>1 DEF DeliveryInv, HandInv, NoWrites
    <2>3. NoWrite \notin Write
      BY FileRecombinatorAssumption
    <2> QED BY <2>2, <2>3 DEF DeliveryInv, NoLostWrite
  <1> QED BY <1>1, Delivery, PTL

-----------------------------------------------------------------------------
(* Stable storage.                                                         *)

LEMMA CountedIsFinite ==
  ASSUME NEW S \in SUBSET ChunkId
  PROVE  IsFiniteSet(S) /\ Cardinality(S) \in Nat
  <1>1. IsFiniteSet(ChunkId)
    BY FS_Interval DEF ChunkId
  <1> QED BY <1>1, FS_Subset, FS_CardinalityType

LEMMA CountKept ==
  ASSUME TypeOK, CountInv, Counted \subseteq Counted', failed \subseteq failed',
         m_complited_chunks' = m_complited_chunks, wpc' # "count"
  PROVE  CountInv'
  <1> SUFFICES ASSUME "sync" \notin failed' PROVE CountInv'
    BY DEF CountInv
  <1>1. Counted' \subseteq ChunkId /\ Counted \subseteq ChunkId
    BY DEF Counted, Durable
  <1>2. Cardinality(Counted) <= Cardinality(Counted')
    BY <1>1, CountedIsFinite, FS_Subset
  <1>3. Cardinality(Counted) \in Nat /\ Cardinality(Counted') \in Nat
    BY <1>1, CountedIsFinite
  <1>4. m_complited_chunks <= Cardinality(Counted) /\ m_complited_chunks \in Nat
    <2>1. "sync" \notin failed
      OBVIOUS
    <2> QED BY <1>3, <2>1 DEF CountInv, TypeOK, WorkerTypeOK
  <1> QED BY <1>2, <1>3, <1>4 DEF CountInv

(* The steps that leave the file, and what is done, alone. *)
LEMMA DurableFrame ==
  ASSUME DeliveryInv, DurableInv, wpc # "count",
         UNCHANGED <<m_id, m_is_done, m_complited_chunks, file, disk, promised>>,
         failed \subseteq failed',
         wpc' \notin {"done", "count"},
         ~CleaningUp \/ CleaningUp',
         failed' = {} /\ (wpc' = "clean_up" \/ CleaningUp') =>
           owner' \in {"joining", "closed"}
  PROVE  DurableInv' /\ Durable' = Durable
  <1>1. Durable' = Durable /\ Counted' = Counted
    BY DEF Durable, Counted
  <1>2. CountInv'
    BY <1>1, CountKept DEF DeliveryInv, DurableInv
  <1> QED BY <1>1, <1>2 DEF DurableInv, DiskInv, SyncedInv, CleaningUp

LEMMA CountAtRestart ==
  ASSUME Restart
  PROVE  CountInv'
  <1>1. Counted' \subseteq ChunkId
    BY DEF Counted, Durable
  <1>2. Cardinality(Counted') \in Nat
    BY <1>1, CountedIsFinite
  <1> QED BY <1>2 DEF Restart, CountInv

(* A sync takes nothing from stable storage, whether or not it fails. *)
LEMMA SyncKeeps ==
  ASSUME DiskInv, Sync, UNCHANGED file
  PROVE  Durable \subseteq Durable' /\ DiskInv'
  <1>1. disk' = file \/ disk' = disk
    BY DEF Sync
  <1> QED BY <1>1 DEF DiskInv, Durable

(* What a loader is told before anything failed is true: it still waits,   *)
(* so that the worker is not cleaning up.                                  *)
LEMMA PromiseIsKept ==
  ASSUME DeliveryInv, DurableInv, NEW w \in Write, Wait(w), failed = {}
  PROVE  m_id[w] \in Durable
  <1>1. owner \notin {"new", "joining", "closed"}
    BY DEF Wait, DeliveryInv, OwnerInv
  <1>2. ~CleaningUp
    BY <1>1 DEF DurableInv, SyncedInv
  <1>3. "sync" \notin failed
    OBVIOUS
  <1> QED BY <1>2, <1>3 DEF Wait, DurableInv, SyncedInv

(* What is stored stays stored. *)
LEMMA DurableNext ==
  ASSUME DeliveryInv, DeliveryInv', DurableInv, [Next]_vars
  PROVE  DurableInv' /\ Durable \subseteq Durable'
  <1> USE DEF CleaningUp
  <1>0. CASE UNCHANGED vars
    <2>1. Durable' = Durable /\ Counted' = Counted
      BY <1>0 DEF vars, Durable, Counted
    <2> QED BY <1>0, <2>1 DEF vars, DurableInv, DiskInv, SyncedInv, CountInv
  <1>1. CASE Start
    BY <1>1, DurableFrame DEF Start, DeliveryInv, OwnerInv
  <1>2. CASE Join
    BY <1>2, DurableFrame DEF Join, DurableInv, SyncedInv
  <1>3. CASE WorkerOpen
    BY <1>3, DurableFrame DEF WorkerOpen, Failed, DeliveryInv, OwnerInv
  <1>4. CASE WorkerLoop
    BY <1>4, DurableFrame DEF WorkerLoop, DeliveryInv, OwnerInv, TypeOK, ApiTypeOK
  <1>5. CASE WorkerWait
    BY <1>5, DurableFrame DEF WorkerWait
  <1>6. CASE WorkerTake
    BY <1>6, DurableFrame DEF WorkerTake, MayTake
  <1>7. CASE WorkerBatchEnd
    BY <1>7, DurableFrame DEF WorkerBatchEnd
  <1>8. CASE Stop
    <2>1. Durable' = Durable /\ Counted' = Counted /\ wpc' = wpc
      BY <1>8 DEF Stop, Durable, Counted
    <2> QED
      BY <1>8, <2>1 DEF Stop, DurableInv, DiskInv, SyncedInv, CountInv
  <1>9. CASE \E w \in Write : GiveUp(w)
    <2>1. Durable' = Durable /\ Counted' = Counted /\ wpc' = wpc
      BY <1>9 DEF GiveUp, Durable, Counted
    <2> QED
      BY <1>9, <2>1 DEF GiveUp, DurableInv, DiskInv, SyncedInv, CountInv
  <1>10. CASE \E w \in Write : Wait(w)
    <2> PICK w \in Write : Wait(w)
      BY <1>10
    <2>1. Durable' = Durable /\ Counted' = Counted /\ wpc' = wpc
      BY DEF Wait, Durable, Counted
    <2>2. failed = {} => m_id[w] \in Durable
      BY PromiseIsKept
    <2>3. promised' \subseteq Durable
      BY <2>2 DEF Wait, DurableInv, SyncedInv
    <2> QED BY <2>1, <2>3 DEF Wait, DurableInv, DiskInv, SyncedInv, CountInv
  <1>11. CASE \E w \in Write, c \in ChunkId : WriteChunk(w, c)
    <2> PICK w \in Write, c \in ChunkId : WriteChunk(w, c)
      BY <1>11
    <2>1. \A v \in m_is_done : m_id'[v] = m_id[v]
      BY DEF WriteChunk, DeliveryInv, TypeOK, ApiTypeOK, CallInv
    <2>2. Durable' = Durable /\ Counted' = Counted /\ wpc' = wpc
      BY <2>1 DEF WriteChunk, Durable, Counted
    <2> QED
      BY <2>1, <2>2 DEF WriteChunk, DurableInv, DiskInv, SyncedInv, CountInv
  <1>12. CASE \E c \in ChunkId : WriteItem(c)
    <2> PICK c \in ChunkId : WriteItem(c)
      BY <1>12
    <2>1. /\ wpc = "item" /\ wpc' \in {"flush", "clean_up"}
          /\ wpc' = "clean_up" => failed' # {}
          /\ failed \subseteq failed'
          /\ UNCHANGED <<owner, m_id, m_is_done, m_complited_chunks, disk, promised>>
      BY DEF WriteItem, ShortWrite, Failed
    <2>a. \/ UNCHANGED file
          \/ file' = [file EXCEPT ![c] = c]
          \/ file' = [file EXCEPT ![c] = IF @ = c THEN c ELSE Torn]
      BY DEF WriteItem, ShortWrite, CutOff, get_offset
    <2>2. \A d \in ChunkId : file[d] = d => file'[d] = d
      BY <2>a DEF DeliveryInv, TypeOK, WorkerTypeOK, Position
    <2>3. Durable' = Durable /\ Counted' = Counted
      BY <2>1 DEF Durable, Counted
    <2>4. CountInv'
      BY <2>1, <2>3, CountKept DEF DeliveryInv, DurableInv
    <2>5. SyncedInv'
      BY <2>1, <2>3 DEF DurableInv, SyncedInv
    <2> QED BY <2>1, <2>2, <2>3, <2>4, <2>5 DEF DurableInv, DiskInv
  <1>13. CASE Flush
    <2>1. /\ wpc = "flush" /\ wpc' = "done" /\ file[item] = item /\ item \in ChunkId
          /\ UNCHANGED <<owner, m_id, m_is_done, m_complited_chunks, item, file, promised>>
      BY <1>13 DEF Flush, DeliveryInv, ItemInv
    <2>a. failed \subseteq failed' /\ ("sync" \in failed' \/ disk' = file)
      BY <1>13 DEF Flush, Sync, Failed
    <2>2. Durable \subseteq Durable' /\ DiskInv'
      BY <1>13, SyncKeeps DEF Flush, DurableInv
    <2>3. Counted \subseteq Counted'
      BY <2>1, <2>2 DEF Counted
    <2>4. CountInv'
      BY <2>1, <2>a, <2>3, CountKept DEF DeliveryInv, DurableInv
    <2>5. "sync" \notin failed' => item' \in Durable'
      BY <2>1, <2>a DEF Durable
    <2>6. SyncedInv'
      BY <2>1, <2>a, <2>2, <2>5 DEF DurableInv, SyncedInv
    <2> QED BY <2>2, <2>4, <2>6 DEF DurableInv
  <1>14. CASE Done
    <2> DEFINE w == to_handle[item]
    <2>1. w \in Write /\ w \notin m_is_done /\ m_id[w] = item /\ item \in ChunkId
      BY <1>14 DEF Done, DeliveryInv, ItemInv, HandInv
    <2>2. Durable' = Durable /\ ("sync" \notin failed => item \in Durable)
      BY <1>14 DEF Done, DurableInv, SyncedInv, Durable
    <2>a. m_is_done \subseteq Write /\ item # -1
      <3>1. item # -1
        BY <2>1 DEF ChunkId
      <3> QED BY <3>1 DEF DeliveryInv, TypeOK, ApiTypeOK
    <2>b. \A v, u \in Write : m_id[v] = m_id[u] /\ m_id[v] # -1 => v = u
      BY DEF DeliveryInv, CallInv
    <2> HIDE DEF w
    <2>3. item \notin Counted
      BY <2>1, <2>a, <2>b DEF Counted
    <2> USE DEF w
    <2>4. "sync" \notin failed => Counted' = Counted \cup {item}
      BY <1>14, <2>1, <2>2 DEF Done, Counted, Durable
    <2>5. Counted \subseteq ChunkId
      BY DEF Counted, Durable
    <2>6. "sync" \notin failed =>
            /\ Cardinality(Counted') = Cardinality(Counted) + 1
            /\ Cardinality(Counted) \in Nat
      BY <2>3, <2>4, <2>5, CountedIsFinite, FS_AddElement
    <2>7. CountInv'
      BY <1>14, <2>6 DEF Done, CountInv, DurableInv, DeliveryInv, TypeOK, WorkerTypeOK
    <2> QED BY <1>14, <2>1, <2>2, <2>7 DEF Done, DurableInv, DiskInv, SyncedInv
  <1>15. CASE Count
    <2>1. Durable' = Durable /\ Counted' = Counted
      BY <1>15 DEF Count, Durable, Counted
    <2> QED BY <1>15, <2>1 DEF Count, DurableInv, DiskInv, SyncedInv, CountInv
  <1>16. CASE CleanUpBatch
    <2>1. Durable' = Durable /\ Counted \subseteq Counted'
      BY <1>16 DEF CleanUpBatch, Durable, Counted
    <2>2. CountInv'
      BY <1>16, <2>1, CountKept DEF CleanUpBatch, DeliveryInv, DurableInv
    <2> QED BY <1>16, <2>1, <2>2 DEF CleanUpBatch, DurableInv, DiskInv, SyncedInv
  <1>17. CASE CleanUpRequest
    <2>1. Durable' = Durable /\ Counted \subseteq Counted'
      BY <1>17 DEF CleanUpRequest, Durable, Counted
    <2>2. CountInv'
      BY <1>17, <2>1, CountKept DEF CleanUpRequest, DeliveryInv, DurableInv
    <2> QED BY <1>17, <2>1, <2>2 DEF CleanUpRequest, DurableInv, DiskInv, SyncedInv
  <1>18. CASE WorkerEnd
    <2>1. /\ wpc = "close" /\ wpc' = "ended" /\ failed \subseteq failed'
          /\ UNCHANGED <<owner, m_id, m_is_done, m_complited_chunks, promised>>
      BY <1>18 DEF WorkerEnd, Sync, Failed
    <2>2. Durable \subseteq Durable' /\ DiskInv'
      BY <1>18, SyncKeeps DEF WorkerEnd, DurableInv
    <2>3. Counted \subseteq Counted'
      BY <2>1, <2>2 DEF Counted
    <2>4. CountInv'
      BY <2>1, <2>3, CountKept DEF DeliveryInv, DurableInv
    <2>5. SyncedInv'
      BY <2>1, <2>2 DEF DurableInv, SyncedInv
    <2> QED BY <2>2, <2>4, <2>5 DEF DurableInv
  <1>19. CASE SyncAgain
    <2>1. Durable' = Durable
      BY <1>19 DEF SyncAgain, Durable
    <2>2. CountInv'
      BY <1>19, CountAtRestart DEF SyncAgain
    <2> QED
      BY <1>19, <2>1, <2>2 DEF SyncAgain, Restart, DurableInv, DiskInv, SyncedInv
  <1>20. CASE Crash
    <2>1. \A c \in ChunkId : disk[c] = c => disk'[c] = c
      BY <1>20 DEF Crash, DurableInv, DiskInv, Position
    <2>2. Durable \subseteq Durable'
      BY <2>1 DEF Durable
    <2>3. CountInv'
      BY <1>20, CountAtRestart DEF Crash
    <2>4. file' = disk'
      BY <1>20 DEF Crash
    <2> QED
      BY <1>20, <2>2, <2>3, <2>4 DEF Crash, Restart, DurableInv, DiskInv, SyncedInv
  <1> QED
    BY <1>0, <1>1, <1>2, <1>3, <1>4, <1>5, <1>6, <1>7, <1>8, <1>9, <1>10, <1>11,
       <1>12, <1>13, <1>14, <1>15, <1>16, <1>17, <1>18, <1>19, <1>20
    DEF Next, Worker

LEMMA DurableInit == Init => DurableInv
  <1> SUFFICES ASSUME Init PROVE DurableInv
    OBVIOUS
  <1>1. Counted \subseteq ChunkId
    BY DEF Counted, Durable
  <1>2. Cardinality(Counted) \in Nat
    BY <1>1, CountedIsFinite
  <1> QED BY <1>2 DEF Init, DurableInv, DiskInv, SyncedInv, CountInv, CleaningUp

LEMMA IsDurable == Spec => []DurableInv
  <1>1. DeliveryInv /\ DeliveryInv' /\ DurableInv /\ [Next]_vars => DurableInv'
    BY DurableNext
  <1> QED BY <1>1, DurableInit, Delivery, PTL DEF Spec

(* Progress is never reported (226) for a chunk that is not on stable      *)
(* storage and acknowledged, as long as no sync has failed.                *)
THEOREM CompletedIsDurableCorrect == Spec => []CompletedIsDurable
  <1>1. DeliveryInv /\ DurableInv => CompletedIsDurable
    <2> SUFFICES ASSUME DeliveryInv, DurableInv, "sync" \notin failed
                 PROVE  CompletedIsDurable
      BY DEF CompletedIsDurable
    <2>1. Counted \subseteq ChunkId
      BY DEF Counted, Durable
    <2>2. Cardinality(Counted) \in Nat
      BY <2>1, CountedIsFinite
    <2>3. m_complited_chunks <= Cardinality(Counted)
      BY <2>2 DEF DurableInv, CountInv, DeliveryInv, TypeOK, WorkerTypeOK
    <2> QED BY <2>3 DEF CompletedIsDurable, Counted
  <1> QED BY <1>1, Delivery, IsDurable, PTL

(* Every step of the writer, a crash or a failed call included, is a step  *)
(* of the abstract store: a chunk acknowledged before anything failed is   *)
(* on stable storage (217 before 225), and it stays there.                 *)
THEOREM ImplementsChunkStoreCorrect == Spec => ImplementsChunkStore
  <1>1. Init => Store!Init
    BY DEF Init, Store!Init, Durable
  <1>2. DeliveryInv /\ DeliveryInv' /\ DurableInv /\ DurableInv' /\ [Next]_vars
          => [Store!Next]_(Store!vars)
    <2> SUFFICES ASSUME DeliveryInv, DeliveryInv', DurableInv, DurableInv', [Next]_vars
                 PROVE  [Store!Next]_(Store!vars)
      OBVIOUS
    <2>1. Durable \subseteq Durable'
      BY DurableNext
    <2>2. CASE UNCHANGED promised
      <3>1. Durable' \in SUBSET ChunkId /\ Durable' = Durable \cup Durable'
        BY <2>1 DEF Durable
      <3>2. Store!Store(Durable')
        BY <2>2, <3>1 DEF Store!Store
      <3> QED BY <3>1, <3>2 DEF Store!Next
    <2>3. CASE \E w \in Write : Wait(w)
      <3> PICK w \in Write : Wait(w)
        BY <2>3
      <3>1. CASE failed = {}
        <4>1. promised' = promised \cup {m_id[w]} /\ Durable' = Durable
          BY <3>1 DEF Wait, Durable
        <4>2. m_id[w] \in Durable
          BY <3>1, PromiseIsKept
        <4>3. Store!Promise({m_id[w]}) /\ {m_id[w]} \in SUBSET ChunkId
          BY <4>1, <4>2 DEF Store!Promise, Durable
        <4> QED BY <4>3 DEF Store!Next
      <3>2. CASE failed # {}
        BY <2>2, <3>2 DEF Wait
      <3> QED BY <3>1, <3>2
    <2>4. UNCHANGED promised \/ \E w \in Write : Wait(w)
      BY DEF Next, vars, Worker, Start, Stop, Join, WriteChunk, GiveUp, WorkerOpen,
             WorkerLoop, WorkerWait, WorkerTake, WriteItem, Flush, Done, Count,
             WorkerBatchEnd, CleanUpBatch, CleanUpRequest, WorkerEnd, SyncAgain,
             Crash, Restart
    <2> QED BY <2>2, <2>3, <2>4
  <1> QED
    BY <1>1, <1>2, Delivery, IsDurable, PTL DEF Spec, ImplementsChunkStore, Store!Spec
=============================================================================
