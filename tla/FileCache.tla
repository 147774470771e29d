------------------------------ MODULE FileCache ------------------------------
(***************************************************************************)
(* The server's read cache, class file_cache                               *)
(* (libs/engine/private/src/file_read_cache.cpp).                          *)
(*                                                                         *)
(* Threads of the io_context call read_chunk and then block in             *)
(* request_result::read_data; one worker thread takes the queued requests  *)
(* in batches, reads the file with a window of read_in_advance chunks and  *)
(* hands the chunks out.  Every action below is one critical section of    *)
(* m_cache_event's mutex, or a step that touches one request_result under  *)
(* that request's own mutex, or a read of the atomic m_is_running.         *)
(*                                                                         *)
(* A chunk's bytes are represented by the index of the chunk of the file   *)
(* they were read from, so "chunk c holds the right bytes" is "= c".  File *)
(* offsets are counted in chunks: every offset the worker computes is a    *)
(* multiple of the chunk size, and only the last chunk is shorter.         *)
(***************************************************************************)
EXTENDS Integers, Sequences

CONSTANTS
  Request,         \* the calls of read_chunk, one request_result each
  NoRequest,       \* null read_request_ptr
  NumberOfChunks,  \* m_number_of_chunks
  ReadInAdvance,   \* m_read_in_advance
  NoChunk,         \* null data_chunk_ptr
  RepeatReads      \* may a chunk be asked for again after it was asked for?

ASSUME FileCacheAssumption ==
  /\ NumberOfChunks \in Nat
  /\ ReadInAdvance \in Nat
  /\ RepeatReads \in BOOLEAN
  /\ NoRequest \notin Request
  /\ NoChunk \notin Nat

ChunkId == 0 .. NumberOfChunks - 1

VARIABLES
  \* the owner of the cache and the threads that call it
  owner,                  \* "new", "open", "joining" (in stop) or "closed"
  pc,                     \* pc[r]: where call r is
  dcp,                    \* dcp[r]: the chunk call r returned
  \* request_result
  m_id, m_state, m_chunk,
  m_send,                 \* the requests whose flag m_send is set
  \* file_cache
  m_is_running,
  m_signaled,             \* the latch of m_cache_event; nothing ever resets it
  m_cache,                \* the cached chunks, NoChunk where there is none
  m_active_cache,         \* ids in the order they were cached; never popped
  m_requests_to_handle,
  \* where the worker is, and the locals of worker_thread and preload
  wpc, to_handle, to_read,
  item,                   \* id of the item of to_read the loop is at, or -1
  last_preload,           \* also preload's argument "to"
  from, offset

request_vars == <<m_id, m_state, m_chunk, m_send>>
cache_vars   == <<m_cache, m_active_cache>>
batch_vars   == <<to_handle, to_read>>
window_vars  == <<item, last_preload, from, offset>>
caller_vars  == <<owner, pc, dcp, m_id, m_is_running>>
vars == <<caller_vars, m_state, m_chunk, m_send, m_signaled, cache_vars,
          m_requests_to_handle, wpc, batch_vars, window_vars>>

Init ==
  /\ owner = "new"
  /\ pc      = [r \in Request |-> "idle"]
  /\ dcp     = [r \in Request |-> NoChunk]
  /\ m_id    = [r \in Request |-> NoChunk]
  /\ m_state = [r \in Request |-> "active"]
  /\ m_chunk = [r \in Request |-> NoChunk]
  /\ m_send  = {}
  /\ m_is_running = FALSE
  /\ m_signaled = FALSE
  /\ m_cache = [c \in ChunkId |-> NoChunk]
  /\ m_active_cache = <<>>
  /\ m_requests_to_handle = <<>>
  /\ wpc = "none"
  /\ to_handle = <<>>
  /\ to_read = [c \in ChunkId |-> NoRequest]
  /\ item = -1
  /\ last_preload = -1
  /\ from = 0
  /\ offset = 0

-----------------------------------------------------------------------------
(* request_result::set_data, for a set of requests that are given data at  *)
(* once: chunk[r] is moved into request r and its waiter is woken.         *)

SetData(R, chunk) ==
  /\ m_send'  = m_send \cup R
  /\ m_chunk' = [r \in Request |-> IF r \in R THEN chunk[r] ELSE m_chunk[r]]
  /\ m_state' = [r \in Request |-> IF r \in R THEN "available" ELSE m_state[r]]

Cached(c) == m_cache[c] # NoChunk

NotFound(c) == FALSE
(* to_read.find(c) finds a request of the batch for chunk c. *)
Found(c) == to_read[c] # NoRequest

(* read_from_cache(rr), for a set of requests for different chunks that    *)
(* are all cached: each takes its chunk out of the cache.                  *)
TakeFromCache(R) ==
  /\ SetData(R, [r \in R |-> m_cache[m_id[r]]])
  /\ m_cache' = [c \in ChunkId |->
                   IF \E r \in R : m_id[r] = c THEN NoChunk ELSE m_cache[c]]
  /\ UNCHANGED m_active_cache

AddToCacheEvicting(c, bytes) ==
  /\ m_cache' = [m_cache EXCEPT ![Head(Append(m_active_cache, c))] = NoChunk,
                                ![c] = bytes]
  /\ m_active_cache' = Append(m_active_cache, c)

(* add_to_cache: m_cached_size is not looked at, nothing is evicted. *)
AddToCache(c, bytes) ==
  /\ m_cache' = [m_cache EXCEPT ![c] = bytes]
  /\ m_active_cache' = Append(m_active_cache, c)

-----------------------------------------------------------------------------
(* The owner.                                                              *)

(* start: the file is opened, the worker is started and has signalled      *)
(* m_start_event.  A file that cannot be opened leaves the cache "new".    *)
Start ==
  /\ owner = "new"
  /\ ~m_is_running
  /\ owner' = "open"
  /\ m_is_running' = TRUE
  /\ wpc' = "loop"
  /\ UNCHANGED <<pc, dcp, request_vars, m_signaled, cache_vars,
                 m_requests_to_handle, batch_vars, window_vars>>

(* stop, up to the join.  The destructor runs it when no call is in        *)
(* progress: a connection_session keeps its server_impl, and with it the   *)
(* cache, alive while it handles a message.                                *)
Stop ==
  /\ owner = "open"
  /\ \A r \in Request : pc[r] \in {"idle", "done"}
  /\ owner' = "joining"
  /\ m_is_running' = FALSE
  /\ UNCHANGED <<pc, dcp, request_vars, m_signaled, cache_vars,
                 m_requests_to_handle, wpc, batch_vars, window_vars>>

(* m_worker_thread.join() returns. *)
Join ==
  /\ owner = "joining"
  /\ wpc = "ended"
  /\ owner' = "closed"
  /\ UNCHANGED <<pc, dcp, request_vars, m_is_running, m_signaled, cache_vars,
                 m_requests_to_handle, wpc, batch_vars, window_vars>>

-----------------------------------------------------------------------------
(* A thread that serves a chunk_request.                                   *)

(* read_chunk(c): the request object is made. *)
Call(r, c) ==
  /\ owner = "open"
  /\ pc[r] = "idle"
  /\ RepeatReads \/ \A q \in Request : m_id[q] # c
  /\ pc' = [pc EXCEPT ![r] = "lookup"]
  /\ m_id' = [m_id EXCEPT ![r] = c]
  /\ UNCHANGED <<owner, dcp, m_is_running, m_state, m_chunk, m_send, m_signaled,
                 cache_vars, m_requests_to_handle, wpc, batch_vars, window_vars>>

(* The first critical section of read_chunk: a hit answers the request. *)
Lookup(r) ==
  /\ pc[r] = "lookup"
  /\ \/ /\ Cached(m_id[r])
        /\ TakeFromCache({r})
        /\ pc' = [pc EXCEPT ![r] = "read"]
     \/ /\ ~Cached(m_id[r])
        /\ pc' = [pc EXCEPT ![r] = "enqueue"]
        /\ UNCHANGED <<m_state, m_chunk, m_send, cache_vars>>
  /\ UNCHANGED <<owner, dcp, m_id, m_is_running, m_signaled,
                 m_requests_to_handle, wpc, batch_vars, window_vars>>

EnqueueSilently(r) ==
  /\ pc[r] = "enqueue"
  /\ m_requests_to_handle' = Append(m_requests_to_handle, r)
  /\ pc' = [pc EXCEPT ![r] = "read"]
  /\ UNCHANGED <<owner, dcp, request_vars, m_is_running, m_signaled, cache_vars,
                 wpc, batch_vars, window_vars>>

(* The second critical section: the request is queued, the worker woken. *)
Enqueue(r) ==
  /\ pc[r] = "enqueue"
  /\ m_requests_to_handle' = Append(m_requests_to_handle, r)
  /\ m_signaled' = TRUE
  /\ pc' = [pc EXCEPT ![r] = "read"]
  /\ UNCHANGED <<owner, dcp, request_vars, m_is_running, cache_vars, wpc,
                 batch_vars, window_vars>>

(* read_data: blocks while the request is active, then moves the chunk out. *)
ReadData(r) ==
  /\ pc[r] = "read"
  /\ m_state[r] = "available"
  /\ dcp' = [dcp EXCEPT ![r] = m_chunk[r]]
  /\ m_chunk' = [m_chunk EXCEPT ![r] = NoChunk]
  /\ m_state' = [m_state EXCEPT ![r] = "empty"]
  /\ pc' = [pc EXCEPT ![r] = "done"]
  /\ UNCHANGED <<owner, m_id, m_send, m_is_running, m_signaled, cache_vars,
                 m_requests_to_handle, wpc, batch_vars, window_vars>>

-----------------------------------------------------------------------------
(* The worker thread.                                                      *)

WorkerLoopForever ==
  /\ wpc = "loop"
  /\ wpc' = "take"
  /\ UNCHANGED <<caller_vars, m_state, m_chunk, m_send, m_signaled, cache_vars,
                 m_requests_to_handle, batch_vars, window_vars>>

(* while (m_is_running) *)
WorkerLoop ==
  /\ wpc = "loop"
  /\ wpc' = IF m_is_running THEN "take" ELSE "ended"
  /\ UNCHANGED <<caller_vars, m_state, m_chunk, m_send, m_signaled, cache_vars,
                 m_requests_to_handle, batch_vars, window_vars>>

(* The worker waits on m_cache_event only if nothing is queued, and only   *)
(* until the event is signalled for the first time.                        *)
WorkerWait ==
  /\ wpc = "take"
  /\ m_requests_to_handle = <<>>
  /\ ~m_signaled
  /\ wpc' = "wait"
  /\ UNCHANGED <<caller_vars, m_state, m_chunk, m_send, m_signaled, cache_vars,
                 m_requests_to_handle, batch_vars, window_vars>>

(* It swaps out whatever is queued, and goes round again if that is        *)
(* nothing.                                                                *)
WorkerTake ==
  /\ \/ wpc = "take" /\ m_requests_to_handle # <<>>
     \/ wpc \in {"take", "wait"} /\ m_signaled
  /\ to_handle' = m_requests_to_handle
  /\ m_requests_to_handle' = <<>>
  /\ wpc' = IF m_requests_to_handle = <<>> THEN "loop" ELSE "hit"
  /\ UNCHANGED <<caller_vars, m_state, m_chunk, m_send, m_signaled, cache_vars,
                 to_read, window_vars>>

(* The batch's requests that find their chunk cached: for a chunk asked    *)
(* for twice only the first does, since it takes the chunk away.           *)
Hits ==
  {i \in DOMAIN to_handle :
     /\ Cached(m_id[to_handle[i]])
     /\ \A j \in 1 .. i - 1 : m_id[to_handle[j]] # m_id[to_handle[i]]}

(* The others are entered in to_read; of two for one chunk the later one   *)
(* replaces the earlier one.                                               *)
MissesOf(c) == {i \in DOMAIN to_handle \ Hits : m_id[to_handle[i]] = c}

WorkerHit ==
  /\ wpc = "hit"
  /\ TakeFromCache({to_handle[i] : i \in Hits})
  /\ to_read' = [c \in ChunkId |->
                   IF MissesOf(c) = {} THEN NoRequest
                   ELSE to_handle[CHOOSE i \in MissesOf(c) :
                                    \A j \in MissesOf(c) : j <= i]]
  /\ to_handle' = <<>>
  /\ item' = -1
  /\ last_preload' = -1
  /\ wpc' = "next"
  /\ UNCHANGED <<caller_vars, m_signaled, m_requests_to_handle, from, offset>>

ItemsLeftButOne == {c \in ChunkId : c > item + 1 /\ to_read[c] # NoRequest}
ItemsLeft == {c \in ChunkId : c > item /\ to_read[c] # NoRequest}

NotMinOf(a, b) == a
MinOf(a, b) == IF a <= b THEN a ELSE b

(* The loop over to_read, in the order of the ids, reaches item c: a       *)
(* request already answered is passed over, and one that lies beyond the   *)
(* last window starts a window of its own.                                 *)
WorkerItem(c) ==
  /\ wpc = "next"
  /\ c \in ItemsLeft
  /\ \A d \in ItemsLeft : c <= d
  /\ item' = c
  /\ \/ /\ to_read[c] \in m_send
        /\ UNCHANGED <<wpc, last_preload, from, offset>>
     \/ /\ to_read[c] \notin m_send
        /\ IF last_preload = -1 \/ last_preload < c
           THEN /\ last_preload' = MinOf(c + ReadInAdvance, NumberOfChunks - 1)
                /\ from' = c
                /\ offset' = c
                /\ wpc' = "preload"
           ELSE /\ wpc' = "serve"
                /\ UNCHANGED <<last_preload, from, offset>>
  /\ UNCHANGED <<caller_vars, m_state, m_chunk, m_send, m_signaled, cache_vars,
                 m_requests_to_handle, batch_vars>>

(* The loop over to_read is over; the locals of this round die. *)
WorkerBatchEnd ==
  /\ wpc = "next"
  /\ ItemsLeft = {}
  /\ wpc' = "loop"
  /\ to_read' = [c \in ChunkId |-> NoRequest]
  /\ item' = -1
  /\ last_preload' = -1
  /\ from' = 0
  /\ offset' = 0
  /\ UNCHANGED <<caller_vars, m_state, m_chunk, m_send, m_signaled, cache_vars,
                 m_requests_to_handle, to_handle>>

(* preload: a chunk that is cached is skipped.  The loop goes on to the    *)
(* next id, but neither the offset nor the position in the file moves.     *)
PreloadSkip ==
  /\ wpc = "preload"
  /\ from <= last_preload
  /\ Cached(from)
  /\ from' = from + 1
  /\ UNCHANGED <<caller_vars, m_state, m_chunk, m_send, m_signaled, cache_vars,
                 m_requests_to_handle, wpc, batch_vars, item, last_preload, offset>>

(* A chunk that is not cached is going to be read. *)
PreloadMiss ==
  /\ wpc = "preload"
  /\ from <= last_preload
  /\ ~Cached(from)
  /\ wpc' = "read"
  /\ UNCHANGED <<caller_vars, m_state, m_chunk, m_send, m_signaled, cache_vars,
                 m_requests_to_handle, batch_vars, window_vars>>

(* The bytes at the current offset are read, and cached under the id of    *)
(* the loop if this batch has no request for it (add_to_cache).            *)
ReadToCache ==
  /\ wpc = "read"
  /\ ~Found(from)
  /\ AddToCache(from, offset)
  /\ offset' = offset + 1
  /\ from' = from + 1
  /\ wpc' = "preload"
  /\ UNCHANGED <<caller_vars, m_state, m_chunk, m_send, m_signaled,
                 m_requests_to_handle, batch_vars, item, last_preload>>

(* Or they are given to the batch's request, unless it has an answer. *)
ReadToRequest ==
  /\ wpc = "read"
  /\ Found(from)
  /\ SetData({to_read[from]} \ m_send, [r \in {to_read[from]} |-> offset])
  /\ offset' = offset + 1
  /\ from' = from + 1
  /\ wpc' = "preload"
  /\ UNCHANGED <<caller_vars, m_signaled, cache_vars, m_requests_to_handle,
                 batch_vars, item, last_preload>>

(* The window is read: preload returns. *)
PreloadEnd ==
  /\ wpc = "preload"
  /\ from > last_preload
  /\ wpc' = "serve"
  /\ UNCHANGED <<caller_vars, m_state, m_chunk, m_send, m_signaled, cache_vars,
                 m_requests_to_handle, batch_vars, window_vars>>

(* After the window the item is looked up in the cache once more. *)
WorkerServe ==
  /\ wpc = "serve"
  /\ TakeFromCache({r \in {to_read[item]} : Cached(m_id[r])})
  /\ wpc' = "next"
  /\ UNCHANGED <<caller_vars, m_signaled, m_requests_to_handle, batch_vars,
                 window_vars>>

-----------------------------------------------------------------------------
Caller(r) == Lookup(r) \/ Enqueue(r) \/ ReadData(r)

Worker ==
  \/ WorkerLoop \/ WorkerWait \/ WorkerTake \/ WorkerHit
  \/ \E c \in ChunkId : WorkerItem(c)
  \/ WorkerBatchEnd
  \/ PreloadSkip \/ PreloadMiss \/ ReadToCache \/ ReadToRequest \/ PreloadEnd
  \/ WorkerServe

Next ==
  \/ Start \/ Stop \/ Join
  \/ \E r \in Request : Caller(r) \/ \E c \in ChunkId : Call(r, c)
  \/ Worker

Spec == Init /\ [][Next]_vars

(* A thread that has a step to take gets to take it.  Nobody is obliged to *)
(* start or stop the cache or to ask for a chunk.                          *)
Fairness ==
  /\ WF_vars(Worker)
  /\ WF_vars(Join)
  /\ \A r \in Request : WF_vars(Caller(r))

FairSpec == Spec /\ Fairness

-----------------------------------------------------------------------------
RequestsTypeOK ==
  /\ pc \in [Request -> {"idle", "lookup", "enqueue", "read", "done"}]
  /\ dcp \in [Request -> ChunkId \cup {NoChunk}]
  /\ m_id \in [Request -> ChunkId \cup {NoChunk}]
  /\ m_state \in [Request -> {"active", "available", "empty"}]
  /\ m_chunk \in [Request -> ChunkId \cup {NoChunk}]
  /\ m_send \subseteq Request

CacheTypeOK ==
  /\ owner \in {"new", "open", "joining", "closed"}
  /\ m_is_running \in BOOLEAN
  /\ m_signaled \in BOOLEAN
  /\ m_cache \in [ChunkId -> ChunkId \cup {NoChunk}]
  /\ m_active_cache \in Seq(ChunkId)
  /\ m_requests_to_handle \in Seq(Request)

WorkerTypeOK ==
  /\ wpc \in {"none", "loop", "take", "wait", "hit", "next", "preload", "read", "serve",
              "ended"}
  /\ to_handle \in Seq(Request)
  /\ to_read \in [ChunkId -> Request \cup {NoRequest}]
  /\ item \in ChunkId \cup {-1}
  /\ last_preload \in ChunkId \cup {-1}
  /\ from \in 0 .. NumberOfChunks
  /\ offset \in 0 .. from

TypeOK == RequestsTypeOK /\ CacheTypeOK /\ WorkerTypeOK

(* A call never returns the bytes of another chunk, nor holds them for     *)
(* pickup: file_read_cache.cpp:211 and 271 hand out what 198 stored under  *)
(* an id, which is what the file had at the offset 249 was at.             *)
ReadsAreRight ==
  \A r \in Request :
    /\ dcp[r] # NoChunk => dcp[r] = m_id[r]
    /\ m_chunk[r] # NoChunk => m_chunk[r] = m_id[r]

(* No request falls between the hands it passes through (queue, batch,     *)
(* to_read): while a caller is blocked in read_data, its request is where  *)
(* the worker is still going to find it.                                   *)
NoLostRequest ==
  \A r \in Request :
    pc[r] = "read" /\ r \notin m_send =>
      \/ \E i \in DOMAIN m_requests_to_handle : m_requests_to_handle[i] = r
      \/ \E i \in DOMAIN to_handle : to_handle[i] = r
      \/ /\ to_read[m_id[r]] = r
         /\ \/ m_id[r] > item
            \/ wpc \in {"preload", "read"} /\ m_id[r] >= from

(* When the worker is done with an item's window the item is answered, so  *)
(* the lookup after it (line 183) never finds anything; and no request is  *)
(* left to a window that has passed it (line 175).                         *)
WindowAnswersItsItems ==
  wpc \in {"next", "serve"} =>
    \A c \in ChunkId :
      to_read[c] # NoRequest /\ c <= last_preload => to_read[c] \in m_send /\ ~Cached(c)

(* stop returns, if the cache was ever asked for a chunk. *)
StopReturns == owner = "joining" /\ m_signaled ~> owner = "closed"

(* The cache implements the abstract service, liveness included. *)
Service == INSTANCE ChunkService WITH asked <- m_id, answer <- dcp
ImplementsChunkService == Service!Spec
=============================================================================
