-------------------------- MODULE FileRecombinator --------------------------
(***************************************************************************)
(* The client's writer, class file_recombinator                            *)
(* (libs/engine/private/src/file_recombinator.cpp, psx_file.cpp).          *)
(*                                                                         *)
(* Loader threads call write_chunk and later wait for the write_result;    *)
(* one worker thread takes what was delivered in batches, writes every     *)
(* chunk at its offset, syncs the file, and wakes the waiter.  The file is *)
(* modelled twice: as the process sees it (file) and as it is on stable    *)
(* storage (disk).  The process can be killed, or the power fail, at any   *)
(* point; a new process then starts on the file it finds.                  *)
(*                                                                         *)
(* A position of the file is an offset counted in chunks.  What it holds   *)
(* is the id of the chunk whose bytes were written there, Old bytes that   *)
(* were in the file before, Torn bytes of a write that was cut off, or     *)
(* Nothing (a hole, or beyond the end).                                    *)
(*                                                                         *)
(* The ".tmp" file beside the output has no effect and is left out: the    *)
(* first read (line 60) leaves its stream failed or at its end, so that no *)
(* offset is ever written to it (228), the offset read is always 0, and    *)
(* get_resume_point is the constant 0.                                     *)
(***************************************************************************)
EXTENDS Integers, FiniteSets

CONSTANTS
  Write,           \* the calls of write_chunk, one write_result each
  NoWrite,         \* null write_result_ptr
  NumberOfChunks,  \* m_number_of_chunks
  BatchSize,       \* m_batch_size
  OldLength,       \* the longest file there may be at the start, in chunks
  Nothing, Old, Torn,
  MayFail,         \* may opening, seeking, writing and syncing fail?
  MaxRestarts      \* bound: how many sessions follow the first one

ASSUME FileRecombinatorAssumption ==
  /\ NumberOfChunks \in Nat /\ BatchSize \in Nat
  /\ OldLength \in Nat /\ MaxRestarts \in Nat
  /\ MayFail \in BOOLEAN
  /\ NoWrite \notin Write
  /\ Nothing \notin Int /\ Old \notin Int /\ Torn \notin Int

ChunkId  == 0 .. NumberOfChunks - 1
Position == ChunkId \cup 0 .. OldLength - 1
Bytes    == ChunkId \cup {Nothing, Old, Torn}

VARIABLES
  owner,                  \* client::sync: "new", "open", "joining" or "closed"
  pc,                     \* pc[w]: where the caller of delivery w is
  m_id,                   \* write_result::m_id, -1 before the call
  m_is_done,              \* the deliveries whose write_result is done
  m_is_running,
  m_signaled,             \* the latch of m_cache_event; nothing ever resets it
  m_request,              \* what is delivered and not yet taken, by chunk
  wpc, to_handle, item,   \* the worker: where it is, its batch, its place there
  m_complited_chunks,
  file, disk,             \* the file as seen by the process; on stable storage
  failed,                 \* history: the calls that failed in this session
  promised,               \* history: the chunks that were acknowledged in a
                          \* session in which nothing had failed by then
  restarts

api_vars    == <<owner, pc, m_id, promised>>
signal_vars == <<m_is_running, m_signaled>>
batch_vars  == <<to_handle, item>>
object_vars == <<m_is_done, signal_vars, m_request, wpc, batch_vars,
                 m_complited_chunks>>
disk_vars   == <<disk, failed>>
vars == <<api_vars, object_vars, file, disk_vars, restarts>>

NoWrites == [c \in ChunkId |-> NoWrite]

Init ==
  /\ owner = "new"
  /\ pc   = [w \in Write |-> "idle"]
  /\ m_id = [w \in Write |-> -1]
  /\ m_is_done = {}
  /\ m_is_running = FALSE
  /\ m_signaled = FALSE
  /\ m_request = NoWrites
  /\ wpc = "none"
  /\ to_handle = NoWrites
  /\ item = -1
  /\ m_complited_chunks = 0
  /\ \E n \in 0 .. OldLength :
       disk = [p \in Position |-> IF p < n THEN Old ELSE Nothing]
  /\ file = disk
  /\ failed = {}
  /\ promised = {}
  /\ restarts = 0

-----------------------------------------------------------------------------
(* client::sync, the owner of the object.                                  *)

(* start: the file is created if it is not there, and neither truncated    *)
(* nor looked at; the worker is started and has signalled m_start_event.   *)
Start ==
  /\ owner = "new"
  /\ ~m_is_running
  /\ owner' = "open"
  /\ m_is_running' = TRUE
  /\ wpc' = "open"
  /\ UNCHANGED <<pc, m_id, promised, m_is_done, m_signaled, m_request, batch_vars,
                 m_complited_chunks, file, disk_vars, restarts>>

StopSilently ==
  /\ owner = "open"
  /\ \A w \in Write : pc[w] # "posted"
  /\ owner' = "joining"
  /\ m_is_running' = FALSE
  /\ UNCHANGED <<pc, m_id, promised, m_is_done, m_signaled, m_request, wpc,
                 batch_vars, m_complited_chunks, file, disk_vars, restarts>>

(* stop, up to the join: sync calls it when it has joined its loaders. *)
Stop ==
  /\ owner = "open"
  /\ \A w \in Write : pc[w] # "posted"
  /\ owner' = "joining"
  /\ m_is_running' = FALSE
  /\ m_signaled' = TRUE
  /\ UNCHANGED <<pc, m_id, promised, m_is_done, m_request, wpc, batch_vars,
                 m_complited_chunks, file, disk_vars, restarts>>

(* m_worker_thread.join() returns. *)
Join ==
  /\ owner = "joining"
  /\ wpc = "ended"
  /\ owner' = "closed"
  /\ UNCHANGED <<pc, m_id, promised, object_vars, file, disk_vars, restarts>>

-----------------------------------------------------------------------------
(* A loader thread (client_impl::worker_thread) and one of its chunks.     *)

(* write_chunk: the delivery is put under its id, whatever is there.  Of   *)
(* the loaders no two deliver the same chunk.                              *)
WriteChunk(w, c) ==
  /\ owner = "open"
  /\ pc[w] = "idle"
  /\ \A v \in Write : m_id[v] # c
  /\ pc' = [pc EXCEPT ![w] = "posted"]
  /\ m_id' = [m_id EXCEPT ![w] = c]
  /\ m_request' = [m_request EXCEPT ![c] = w]
  /\ m_signaled' = TRUE
  /\ UNCHANGED <<owner, promised, m_is_done, m_is_running, wpc, batch_vars,
                 m_complited_chunks, file, disk_vars, restarts>>

(* write_result::wait returns, and says true: this chunk is written. *)
Wait(w) ==
  /\ pc[w] = "posted"
  /\ w \in m_is_done
  /\ pc' = [pc EXCEPT ![w] = "returned"]
  /\ promised' = IF failed = {} THEN promised \cup {m_id[w]} ELSE promised
  /\ UNCHANGED <<owner, m_id, object_vars, file, disk_vars, restarts>>

(* The loader's connection fails later on: it ends without waiting. *)
GiveUp(w) ==
  /\ pc[w] = "posted"
  /\ pc' = [pc EXCEPT ![w] = "given up"]
  /\ UNCHANGED <<owner, m_id, promised, object_vars, file, disk_vars, restarts>>

-----------------------------------------------------------------------------
(* The worker thread.                                                      *)

Failed(call) ==
  /\ MayFail
  /\ failed' = failed \cup {call}

(* psx_file fh(m_cfg.file) *)
WorkerOpen ==
  /\ wpc = "open"
  /\ \/ wpc' = "loop" /\ UNCHANGED failed
     \/ wpc' = "clean_up" /\ Failed("open")
  /\ UNCHANGED <<api_vars, m_is_done, signal_vars, m_request, batch_vars,
                 m_complited_chunks, file, disk, restarts>>

(* while (m_is_running) *)
WorkerLoop ==
  /\ wpc = "loop"
  /\ wpc' = IF m_is_running THEN "take" ELSE "clean_up"
  /\ UNCHANGED <<api_vars, m_is_done, signal_vars, m_request, batch_vars,
                 m_complited_chunks, file, disk_vars, restarts>>

(* A batch is full, or holds all that is still to come. *)
BatchIsFull ==
  LET size == Cardinality({c \in ChunkId : m_request[c] # NoWrite})
  IN  size >= BatchSize \/ size = NumberOfChunks - m_complited_chunks

(* The worker waits for a full batch, but only until the event is          *)
(* signalled for the first time, which the first delivery does.            *)
WorkerWait ==
  /\ wpc = "take"
  /\ ~BatchIsFull
  /\ ~m_signaled
  /\ wpc' = "wait"
  /\ UNCHANGED <<api_vars, m_is_done, signal_vars, m_request, batch_vars,
                 m_complited_chunks, file, disk_vars, restarts>>

MayTakeWhenFull ==
  wpc \in {"take", "wait"} /\ (BatchIsFull \/ ~m_is_running)
MayTake ==
  \/ wpc = "take" /\ BatchIsFull
  \/ wpc \in {"take", "wait"} /\ m_signaled

(* It swaps out whatever has been delivered. *)
WorkerTake ==
  /\ MayTake
  /\ to_handle' = m_request
  /\ m_request' = NoWrites
  /\ item' = -1
  /\ wpc' = "item"
  /\ UNCHANGED <<api_vars, m_is_done, signal_vars, m_complited_chunks, file, disk_vars,
                 restarts>>

ItemsLeftButOne == {c \in ChunkId : c > item + 1 /\ to_handle[c] # NoWrite}
ItemsLeft == {c \in ChunkId : c > item /\ to_handle[c] # NoWrite}

OffsetIgnored(c) == 0
get_offset(c) == c

(* The bytes of a write that stops short are the chunk's own as far as     *)
(* they go, so what was right already stays right.                         *)
CutOff(c) ==
  file' = [file EXCEPT ![get_offset(c)] = IF @ = c THEN c ELSE Torn]

ShortWriteIgnored(c) ==
  /\ wpc' = "flush"
  /\ Failed("write")
  /\ CutOff(c)
ShortWrite(c) ==
  /\ wpc' = "clean_up"
  /\ Failed("write")
  /\ CutOff(c)

(* The next item: its chunk is taken out of the result and written at its  *)
(* offset.  Seeking may fail, or the write may stop short of the end.      *)
WriteItem(c) ==
  /\ wpc = "item"
  /\ c \in ItemsLeft
  /\ \A d \in ItemsLeft : c <= d
  /\ item' = c
  /\ \/ /\ wpc' = "flush"
        /\ file' = [file EXCEPT ![get_offset(c)] = c]
        /\ UNCHANGED failed
     \/ /\ wpc' = "clean_up"
        /\ Failed("seek")
        /\ UNCHANGED file
     \/ ShortWrite(c)
  /\ UNCHANGED <<api_vars, m_is_done, signal_vars, m_request, to_handle,
                 m_complited_chunks, disk, restarts>>

NoSync == UNCHANGED disk_vars
(* fsync writes all that is not yet on stable storage, or it fails: nobody *)
(* looks at the result.                                                    *)
Sync ==
  \/ disk' = file /\ UNCHANGED failed
  \/ Failed("sync") /\ UNCHANGED disk

Flush ==
  /\ wpc = "flush"
  /\ Sync
  /\ wpc' = "done"
  /\ UNCHANGED <<api_vars, m_is_done, signal_vars, m_request, batch_vars,
                 m_complited_chunks, file, restarts>>

(* item.second->done() *)
Done ==
  /\ wpc = "done"
  /\ m_is_done' = m_is_done \cup {to_handle[item]}
  /\ wpc' = "count"
  /\ UNCHANGED <<api_vars, signal_vars, m_request, batch_vars, m_complited_chunks,
                 file, disk_vars, restarts>>

(* m_complited_chunks++ *)
Count ==
  /\ wpc = "count"
  /\ m_complited_chunks' = m_complited_chunks + 1
  /\ wpc' = "item"
  /\ UNCHANGED <<api_vars, m_is_done, signal_vars, m_request, batch_vars, file,
                 disk_vars, restarts>>

(* The loop over the batch is over. *)
WorkerBatchEnd ==
  /\ wpc = "item"
  /\ ItemsLeft = {}
  /\ to_handle' = NoWrites
  /\ item' = -1
  /\ wpc' = "loop"
  /\ UNCHANGED <<api_vars, m_is_done, signal_vars, m_request, m_complited_chunks,
                 file, disk_vars, restarts>>

DeliveriesAndNulls(q) == {q[c] : c \in ChunkId}
Deliveries(q) == {q[c] : c \in ChunkId} \ {NoWrite}

(* clean_up: whatever is in hand or delivered is declared done, written or *)
(* not.  The second loop reads m_request without the lock; a delivery that *)
(* comes in meanwhile is seen by it or not, which is to come before it or  *)
(* after it.                                                               *)
CleanUpBatch ==
  /\ wpc = "clean_up"
  /\ m_is_done' = m_is_done \cup Deliveries(to_handle)
  /\ wpc' = "clean_request"
  /\ UNCHANGED <<api_vars, signal_vars, m_request, batch_vars, m_complited_chunks,
                 file, disk_vars, restarts>>

CleanUpRequest ==
  /\ wpc = "clean_request"
  /\ m_is_done' = m_is_done \cup Deliveries(m_request)
  /\ wpc' = "close"
  /\ UNCHANGED <<api_vars, signal_vars, m_request, batch_vars, m_complited_chunks,
                 file, disk_vars, restarts>>

(* ~psx_file syncs the file once more; the thread ends. *)
WorkerEnd ==
  /\ wpc = "close"
  /\ Sync
  /\ wpc' = "ended"
  /\ UNCHANGED <<api_vars, m_is_done, signal_vars, m_request, batch_vars,
                 m_complited_chunks, file, restarts>>

-----------------------------------------------------------------------------
(* A new session on the same file, with a new object and new loaders.      *)
Restart ==
  /\ restarts < MaxRestarts
  /\ restarts' = restarts + 1
  /\ owner' = "new"
  /\ pc' = [w \in Write |-> "idle"]
  /\ m_id' = [w \in Write |-> -1]
  /\ m_is_done' = {}
  /\ m_is_running' = FALSE
  /\ m_signaled' = FALSE
  /\ m_request' = NoWrites
  /\ wpc' = "none"
  /\ to_handle' = NoWrites
  /\ item' = -1
  /\ m_complited_chunks' = 0
  /\ failed' = {}
  /\ UNCHANGED promised

(* The session before it came to its end. *)
SyncAgain ==
  /\ owner = "closed"
  /\ Restart
  /\ UNCHANGED <<file, disk>>

(* Or it was cut off.  If the machine went down with it, what was not yet  *)
(* on stable storage is there or not, or in part; if only the process      *)
(* died, all of it still gets there, which is one of these outcomes.       *)
Crash ==
  /\ owner \in {"open", "joining"}
  /\ Restart
  /\ \E stored, torn \in SUBSET {p \in Position : file[p] # disk[p]} :
       disk' = [p \in Position |-> IF p \in torn THEN Torn
                                  ELSE IF p \in stored THEN file[p] ELSE disk[p]]
  /\ file' = disk'

-----------------------------------------------------------------------------
Worker ==
  \/ WorkerOpen \/ WorkerLoop \/ WorkerWait \/ WorkerTake
  \/ \E c \in ChunkId : WriteItem(c)
  \/ Flush \/ Done \/ Count \/ WorkerBatchEnd
  \/ CleanUpBatch \/ CleanUpRequest \/ WorkerEnd

Next ==
  \/ Start \/ Stop \/ Join
  \/ \E w \in Write : Wait(w) \/ GiveUp(w) \/ \E c \in ChunkId : WriteChunk(w, c)
  \/ Worker
  \/ SyncAgain \/ Crash

Spec == Init /\ [][Next]_vars

(* A thread that has a step to take gets to take it.  Nobody is obliged to *)
(* deliver a chunk, to give up or to stop.                                 *)
FairSpec ==
  Spec /\ WF_vars(Worker) /\ WF_vars(Join) /\ \A w \in Write : WF_vars(Wait(w))

-----------------------------------------------------------------------------
ApiTypeOK ==
  /\ owner \in {"new", "open", "joining", "closed"}
  /\ pc \in [Write -> {"idle", "posted", "returned", "given up"}]
  /\ m_id \in [Write -> ChunkId \cup {-1}]
  /\ promised \subseteq ChunkId
  /\ m_is_done \subseteq Write
  /\ m_is_running \in BOOLEAN
  /\ m_signaled \in BOOLEAN
  /\ m_request \in [ChunkId -> Write \cup {NoWrite}]

WorkerTypeOK ==
  /\ wpc \in {"none", "open", "loop", "take", "wait", "item", "flush", "done", "count",
              "clean_up", "clean_request", "close", "ended"}
  /\ to_handle \in [ChunkId -> Write \cup {NoWrite}]
  /\ item \in ChunkId \cup {-1}
  /\ m_complited_chunks \in Nat
  /\ file \in [Position -> Bytes]
  /\ disk \in [Position -> Bytes]
  /\ failed \subseteq {"open", "seek", "write", "sync"}
  /\ restarts \in Nat

TypeOK == ApiTypeOK /\ WorkerTypeOK

Durable == {c \in ChunkId : disk[c] = c}

(* While the worker is at work, a delivery that is done is in the file,    *)
(* whatever else failed; only the clean-up (235-242) says done of what is  *)
(* not.                                                                    *)
DoneIsWritten ==
  wpc \notin {"clean_request", "close", "ended"} =>
    \A w \in m_is_done : file[m_id[w]] = m_id[w]

(* The progress that get_completed_chunks reports never runs ahead of what *)
(* this session has on stable storage and has acknowledged (217 to 226),   *)
(* until a sync fails; nothing else that fails makes it wrong.             *)
CompletedIsDurable ==
  "sync" \notin failed =>
    m_complited_chunks <=
      Cardinality({c \in Durable : \E w \in m_is_done : m_id[w] = c})

(* A delivery somebody waits for is in the hands of the worker, or in      *)
(* m_request, in the same session.                                         *)
NoLostWrite ==
  \A w \in Write :
    pc[w] = "posted" /\ w \notin m_is_done =>
      \/ m_request[m_id[w]] = w
      \/ /\ to_handle[m_id[w]] = w
         /\ m_id[w] > item \/ (m_id[w] = item /\ wpc # "item")

(* A loader that waits is woken, unless it comes when the worker has given *)
(* up: nobody takes that delivery.                                         *)
WaitReturns ==
  \A w \in Write :
    pc[w] = "posted" /\ wpc \notin {"close", "ended"} ~> pc[w] # "posted"

(* stop returns, whether or not anything was delivered. *)
StopReturns == owner = "joining" ~> owner # "joining"

(* When every chunk was acknowledged and the writer has stopped, the file  *)
(* is the server's, and nothing besides.                                   *)
FileIsTheServers ==
  owner = "closed" /\ promised = ChunkId =>
    file = [p \in Position |-> IF p \in ChunkId THEN p ELSE Nothing]

(* A chunk that is acknowledged before anything failed is durable from     *)
(* then on, through crashes and whatever fails later.                      *)
Store == INSTANCE ChunkStore WITH durable <- Durable
ImplementsChunkStore == Store!Spec
=============================================================================
