-------------------------- MODULE FileCacheProofs --------------------------
(***************************************************************************)
(* Proofs about FileCache.                                                 *)
(*                                                                         *)
(* HandOverInv says where the worker keeps a request while it is not       *)
(* answered, and that it never answers one twice.  It is inductive for     *)
(* every use of the cache.  ContentInv adds why the bytes are right; it is *)
(* inductive when no chunk is asked for twice.                             *)
(***************************************************************************)
EXTENDS FileCache, WellFoundedInduction, TLAPS

InQueue(r) == \E i \in DOMAIN m_requests_to_handle : m_requests_to_handle[i] = r
InBatch(r) == \E i \in DOMAIN to_handle : to_handle[i] = r
Wanted(c)  == to_read[c] # NoRequest

InWindow == wpc \in {"preload", "read"}
InLoop   == wpc \in {"next", "preload", "read", "serve"}

(* A request and the thread that made it. *)
CallerInv ==
  /\ owner = "new" => wpc = "none"
  /\ \A r \in Request :
       /\ pc[r] = "idle" <=> m_id[r] = NoChunk
       /\ pc[r] \in {"idle", "lookup", "enqueue"} => r \notin m_send
       /\ pc[r] # "done" => dcp[r] = NoChunk
       /\ m_state[r] = "active" <=> r \notin m_send
       /\ m_state[r] = "available" <=> m_chunk[r] # NoChunk

(* The queue, the batch and to_read hold different requests; the first two *)
(* none that is answered.                                                  *)
Different(s) == \A i, j \in DOMAIN s : s[i] = s[j] => i = j

QueueInv ==
  /\ Different(m_requests_to_handle)
  /\ \A r \in Request :
       InQueue(r) => /\ pc[r] = "read"
                     /\ r \notin m_send
                     /\ ~InBatch(r)
                     /\ \A c \in ChunkId : to_read[c] # r

BatchInv ==
  /\ Different(to_handle)
  /\ \A r \in Request : InBatch(r) => pc[r] = "read" /\ r \notin m_send
  /\ wpc # "hit" => to_handle = <<>>

WantedInv ==
  /\ \A c \in ChunkId : Wanted(c) => /\ m_id[to_read[c]] = c
                                     /\ pc[to_read[c]] \in {"read", "done"}
                                     /\ ~Cached(c)
  /\ ~InLoop => \A c \in ChunkId : ~Wanted(c)

(* The loop over to_read has answered what it has passed, and nothing that *)
(* lies beyond its last window.                                            *)
LoopInv ==
  /\ InLoop => \A c \in ChunkId :
                 Wanted(c) /\ to_read[c] \in m_send => c <= last_preload
  /\ InLoop => item <= last_preload
  /\ InLoop /\ wpc # "next" => item \in ChunkId /\ Wanted(item) /\ last_preload \in ChunkId
  /\ wpc \in {"next", "serve"} =>
       \A c \in ChunkId : Wanted(c) /\ c <= last_preload => to_read[c] \in m_send
  /\ InWindow => \A c \in ChunkId : Wanted(c) /\ c < from => to_read[c] \in m_send
  /\ wpc = "read" => from <= last_preload /\ ~Cached(from)

HandOverInv ==
  TypeOK /\ CallerInv /\ QueueInv /\ BatchInv /\ WantedInv /\ LoopInv


-----------------------------------------------------------------------------
USE FileCacheAssumption
USE DEF request_vars, cache_vars, batch_vars, window_vars, caller_vars

(* What TakeFromCache does, request by request and chunk by chunk. *)
LEMMA TakeFromCacheEffect ==
  ASSUME TypeOK, NEW R \in SUBSET Request, \A r \in R : m_id[r] \in ChunkId,
         TakeFromCache(R)
  PROVE  /\ m_send' = m_send \cup R
         /\ m_chunk' \in [Request -> ChunkId \cup {NoChunk}]
         /\ m_state' \in [Request -> {"active", "available", "empty"}]
         /\ m_cache' \in [ChunkId -> ChunkId \cup {NoChunk}]
         /\ \A r \in R : m_chunk'[r] = m_cache[m_id[r]] /\ m_state'[r] = "available"
         /\ \A r \in Request \ R : m_chunk'[r] = m_chunk[r] /\ m_state'[r] = m_state[r]
         /\ \A c \in ChunkId :
              m_cache'[c] = IF \E r \in R : m_id[r] = c THEN NoChunk ELSE m_cache[c]
  <1> USE DEF TakeFromCache, SetData, TypeOK, RequestsTypeOK, CacheTypeOK
  <1>1. m_chunk' \in [Request -> ChunkId \cup {NoChunk}]
    OBVIOUS
  <1>2. m_state' \in [Request -> {"active", "available", "empty"}]
    OBVIOUS
  <1>3. m_cache' \in [ChunkId -> ChunkId \cup {NoChunk}]
    OBVIOUS
  <1> QED BY <1>1, <1>2, <1>3

LEMMA LeastNat ==
  ASSUME NEW J, J \subseteq Nat, J # {}
  PROVE  \E m \in J : \A k \in J : m <= k
  <1> DEFINE Less == {ss \in Nat \X Nat : ss[1] < ss[2]}
  <1>1. Less = OpToRel(<, Nat)
    BY DEF OpToRel
  <1>2. IsWellFoundedOn(Less, Nat)
    BY <1>1, NatLessThanWellFounded, Zenon
  <1> HIDE DEF Less
  <1>3. \E m \in J : \A k \in J : ~(<<k, m>> \in Less)
    BY <1>2, WFMin, Zenon
  <1>4. \A k, m \in Nat : ~(<<k, m>> \in Less) => m <= k
    BY DEF Less
  <1> HIDE DEF Less
  <1> QED BY <1>3, <1>4

(* Of the requests of the batch for a chunk that miss there is a last one. *)
LEMMA MissesHaveALast ==
  ASSUME NEW c, to_handle \in Seq(Request), MissesOf(c) # {}
  PROVE  \E i \in MissesOf(c) : \A j \in MissesOf(c) : j <= i
  <1> DEFINE J == {Len(to_handle) - i : i \in MissesOf(c)}
  <1>1. MissesOf(c) \subseteq 1 .. Len(to_handle)
    BY DEF MissesOf
  <1>2. J \subseteq Nat /\ J # {}
    BY <1>1
  <1>3. PICK m \in J : \A k \in J : m <= k
    BY <1>2, LeastNat
  <1>4. PICK i \in MissesOf(c) : m = Len(to_handle) - i
    OBVIOUS
  <1>5. \A j \in MissesOf(c) : m <= Len(to_handle) - j
    BY <1>3
  <1> QED BY <1>1, <1>4, <1>5

(* The first request of the batch for a cached chunk gets it. *)
LEMMA FirstIsHit ==
  ASSUME NEW c, to_handle \in Seq(Request), Cached(c),
         \E i \in DOMAIN to_handle : m_id[to_handle[i]] = c
  PROVE  \E i \in Hits : m_id[to_handle[i]] = c
  <1> DEFINE J == {i \in 1 .. Len(to_handle) : m_id[to_handle[i]] = c}
  <1>1. J \subseteq Nat /\ J # {}
    OBVIOUS
  <1>2. PICK i \in J : \A k \in J : i <= k
    BY <1>1, LeastNat
  <1> QED BY <1>2 DEF Hits

-----------------------------------------------------------------------------
(* HandOverInv holds at the start, and every step keeps it. *)

LEMMA HandOverInit == Init => HandOverInv
  <1> SUFFICES ASSUME Init PROVE HandOverInv
    OBVIOUS
  <1>1. RequestsTypeOK
    BY DEF Init, RequestsTypeOK
  <1>2. CacheTypeOK
    <2>1. m_active_cache \in Seq(ChunkId) /\ m_requests_to_handle \in Seq(Request)
      BY DEF Init
    <2>2. m_cache \in [ChunkId -> ChunkId \cup {NoChunk}]
      BY DEF Init
    <2> QED BY <2>1, <2>2 DEF Init, CacheTypeOK
  <1>3. WorkerTypeOK
    BY DEF Init, WorkerTypeOK, ChunkId
  <1>4. CallerInv
    BY DEF Init, CallerInv
  <1>5. QueueInv /\ BatchInv
    BY DEF Init, QueueInv, BatchInv, InQueue, InBatch, Different
  <1>6. WantedInv
    BY DEF Init, WantedInv, Wanted, InLoop
  <1>7. LoopInv
    BY DEF Init, LoopInv, Wanted, InLoop, InWindow
  <1> QED BY <1>1, <1>2, <1>3, <1>4, <1>5, <1>6, <1>7 DEF HandOverInv, TypeOK

LEMMA StartStep ==
  ASSUME HandOverInv, Start
  PROVE  HandOverInv'
  <1>1. TypeOK'
    BY DEF Start, HandOverInv, TypeOK, RequestsTypeOK, CacheTypeOK, WorkerTypeOK
  <1>2. CallerInv' /\ QueueInv' /\ BatchInv'
    BY DEF Start, HandOverInv, CallerInv, QueueInv, BatchInv, InQueue, InBatch
  <1>3. WantedInv' /\ LoopInv'
    BY DEF Start, HandOverInv, WantedInv, LoopInv, InLoop, InWindow, Wanted, Cached,
           CallerInv
  <1> QED BY <1>1, <1>2, <1>3 DEF HandOverInv

LEMMA StopStep ==
  ASSUME HandOverInv, Stop
  PROVE  HandOverInv'
  <1>1. TypeOK'
    BY DEF Stop, HandOverInv, TypeOK, RequestsTypeOK, CacheTypeOK, WorkerTypeOK
  <1>2. CallerInv' /\ QueueInv' /\ BatchInv'
    BY DEF Stop, HandOverInv, CallerInv, QueueInv, BatchInv, InQueue, InBatch
  <1>3. WantedInv' /\ LoopInv'
    BY DEF Stop, HandOverInv, WantedInv, LoopInv, InLoop, InWindow, Wanted, Cached
  <1> QED BY <1>1, <1>2, <1>3 DEF HandOverInv

LEMMA JoinStep ==
  ASSUME HandOverInv, Join
  PROVE  HandOverInv'
  <1>1. TypeOK'
    BY DEF Join, HandOverInv, TypeOK, RequestsTypeOK, CacheTypeOK, WorkerTypeOK
  <1>2. CallerInv' /\ QueueInv' /\ BatchInv'
    BY DEF Join, HandOverInv, CallerInv, QueueInv, BatchInv, InQueue, InBatch
  <1>3. WantedInv' /\ LoopInv'
    BY DEF Join, HandOverInv, WantedInv, LoopInv, InLoop, InWindow, Wanted, Cached
  <1> QED BY <1>1, <1>2, <1>3 DEF HandOverInv

LEMMA CallStep ==
  ASSUME HandOverInv, NEW r \in Request, NEW c \in ChunkId, Call(r, c)
  PROVE  HandOverInv'
  <1>1. TypeOK'
    BY DEF Call, HandOverInv, TypeOK, RequestsTypeOK, CacheTypeOK, WorkerTypeOK
  <1>2. CallerInv' /\ QueueInv' /\ BatchInv'
    BY DEF Call, HandOverInv, CallerInv, QueueInv, BatchInv, InQueue, InBatch, TypeOK,
           RequestsTypeOK, CacheTypeOK, ChunkId
  <1>3. WantedInv' /\ LoopInv'
    BY DEF Call, HandOverInv, WantedInv, LoopInv, InLoop, InWindow, Wanted, Cached,
           TypeOK, RequestsTypeOK, CacheTypeOK, WorkerTypeOK, CallerInv
  <1> QED BY <1>1, <1>2, <1>3 DEF HandOverInv

LEMMA LookupStep ==
  ASSUME HandOverInv, NEW r \in Request, Lookup(r)
  PROVE  HandOverInv'
  <1>1. m_id[r] \in ChunkId /\ r \notin m_send
    BY DEF Lookup, HandOverInv, TypeOK, RequestsTypeOK, CallerInv
  <1>2. ~InQueue(r) /\ ~InBatch(r)
    BY DEF Lookup, HandOverInv, QueueInv, BatchInv
  <1>3. CASE Cached(m_id[r])
    <2>1. TakeFromCache({r}) /\ pc' = [pc EXCEPT ![r] = "read"]
      BY <1>3 DEF Lookup
    <2>2. UNCHANGED <<owner, dcp, m_id, m_is_running, m_signaled, m_active_cache,
                      m_requests_to_handle, wpc, to_handle, to_read, item, last_preload,
                      from, offset>>
      BY <2>1 DEF Lookup, TakeFromCache
    <2>3. /\ m_send' = m_send \cup {r}
          /\ m_chunk' \in [Request -> ChunkId \cup {NoChunk}]
          /\ m_state' \in [Request -> {"active", "available", "empty"}]
          /\ m_cache' \in [ChunkId -> ChunkId \cup {NoChunk}]
          /\ m_chunk'[r] = m_cache[m_id[r]] /\ m_state'[r] = "available"
          /\ \A q \in Request \ {r} : m_chunk'[q] = m_chunk[q] /\ m_state'[q] = m_state[q]
          /\ \A c \in ChunkId :
               m_cache'[c] = IF c = m_id[r] THEN NoChunk ELSE m_cache[c]
      BY <1>1, <2>1, TakeFromCacheEffect DEF HandOverInv
    <2>4. RequestsTypeOK'
      BY <2>1, <2>2, <2>3 DEF HandOverInv, TypeOK, RequestsTypeOK
    <2>5. CacheTypeOK' /\ WorkerTypeOK'
      BY <2>2, <2>3 DEF HandOverInv, TypeOK, CacheTypeOK, WorkerTypeOK
    <2>6. CallerInv'
      <3>1. m_chunk'[r] # NoChunk /\ pc[r] = "lookup" /\ pc'[r] = "read"
        BY <1>3, <2>1, <2>3 DEF Lookup, Cached, HandOverInv, TypeOK, RequestsTypeOK
      <3>2. \A q \in Request \ {r} : pc'[q] = pc[q]
        BY <2>1 DEF HandOverInv, TypeOK, RequestsTypeOK
      <3> QED BY <2>2, <2>3, <3>1, <3>2 DEF HandOverInv, CallerInv
    <2>7. QueueInv'
      BY <1>2, <2>1, <2>2, <2>3
      DEF HandOverInv, TypeOK, RequestsTypeOK, QueueInv, InQueue, InBatch
    <2>8. BatchInv'
      BY <1>2, <2>1, <2>2, <2>3
      DEF HandOverInv, TypeOK, RequestsTypeOK, BatchInv, InBatch
    <2>9. WantedInv'
      BY <2>1, <2>2, <2>3
      DEF HandOverInv, TypeOK, RequestsTypeOK, WorkerTypeOK, WantedInv, Wanted,
          Cached, InLoop
    <2>10. LoopInv'
      <3>1. \A c \in ChunkId : Wanted(c) => to_read[c] # r
        BY DEF Lookup, HandOverInv, WantedInv
      <3>2. \A c \in ChunkId : Wanted(c) => (to_read[c] \in m_send' <=> to_read[c] \in m_send)
        BY <2>3, <3>1
      <3>3. from \in ChunkId /\ ~Cached(from) => ~Cached(from)'
        BY <2>2, <2>3 DEF Cached
      <3>4. wpc = "read" => from \in ChunkId
        BY DEF HandOverInv, LoopInv, InLoop, TypeOK, WorkerTypeOK, ChunkId
      <3> QED
        BY <2>2, <3>2, <3>3, <3>4 DEF HandOverInv, LoopInv, Wanted, InLoop, InWindow
    <2> QED BY <2>4, <2>5, <2>6, <2>7, <2>8, <2>9, <2>10 DEF HandOverInv, TypeOK
  <1>4. CASE ~Cached(m_id[r])
    <2>1. /\ pc' = [pc EXCEPT ![r] = "enqueue"]
          /\ UNCHANGED <<owner, dcp, m_id, m_state, m_chunk, m_send, m_is_running, m_signaled,
                         m_cache, m_active_cache, m_requests_to_handle, wpc, to_handle,
                         to_read, item, last_preload, from, offset>>
      BY <1>4 DEF Lookup
    <2>2. TypeOK'
      BY <2>1 DEF HandOverInv, TypeOK, RequestsTypeOK, CacheTypeOK, WorkerTypeOK
    <2>3. CallerInv'
      BY <1>1, <2>1 DEF Lookup, HandOverInv, TypeOK, RequestsTypeOK, CallerInv
    <2>4. QueueInv' /\ BatchInv'
      BY <1>2, <2>1
      DEF HandOverInv, TypeOK, RequestsTypeOK, QueueInv, BatchInv, InQueue, InBatch
    <2>5. WantedInv'
      BY <2>1
      DEF Lookup, HandOverInv, TypeOK, RequestsTypeOK, WorkerTypeOK, WantedInv,
          Wanted, Cached, InLoop
    <2>6. LoopInv'
      BY <2>1 DEF HandOverInv, LoopInv, Wanted, Cached, InLoop, InWindow
    <2> QED BY <2>2, <2>3, <2>4, <2>5, <2>6 DEF HandOverInv
  <1> QED BY <1>3, <1>4

LEMMA EnqueueStep ==
  ASSUME HandOverInv, NEW r \in Request, Enqueue(r)
  PROVE  HandOverInv'
  <1>1. RequestsTypeOK'
    BY DEF Enqueue, HandOverInv, TypeOK, RequestsTypeOK, CacheTypeOK, WorkerTypeOK,
           CallerInv, BatchInv, WantedInv, ChunkId, Cached, Different
  <1>2. CacheTypeOK'
    BY DEF Enqueue, HandOverInv, TypeOK, RequestsTypeOK, CacheTypeOK, WorkerTypeOK,
           WantedInv, LoopInv, InWindow, ChunkId, Cached, Different
  <1>3. WorkerTypeOK'
    BY DEF Enqueue, HandOverInv, TypeOK, RequestsTypeOK, CacheTypeOK, WorkerTypeOK,
           LoopInv, InWindow, InLoop, ChunkId, Cached, Different
  <1>4. CallerInv'
    BY DEF Enqueue, HandOverInv, TypeOK, RequestsTypeOK, CacheTypeOK, WorkerTypeOK,
           CallerInv, BatchInv, WantedInv, InBatch, Wanted, LoopInv, ChunkId, Cached,
           Different
  <1>5. QueueInv'
    <2>1. \A q \in Request : InQueue(q)' => InQueue(q) \/ q = r
      BY DEF Enqueue, HandOverInv, TypeOK, CacheTypeOK, InQueue
    <2>2. ~InQueue(r) /\ ~InBatch(r) /\ r \notin m_send /\ \A c \in ChunkId : to_read[c] # r
      BY DEF Enqueue, HandOverInv, CallerInv, QueueInv, BatchInv, WantedInv, InBatch,
             Wanted
    <2>3. /\ pc'[r] = "read"
          /\ \A q \in Request : pc[q] = "read" => pc'[q] = "read"
      BY DEF Enqueue, HandOverInv, TypeOK, RequestsTypeOK
    <2>4. Different(m_requests_to_handle)'
      BY <2>2
      DEF Enqueue, HandOverInv, TypeOK, CacheTypeOK, QueueInv, Different, InQueue
    <2> QED
      BY <2>1, <2>2, <2>3, <2>4 DEF Enqueue, HandOverInv, QueueInv, InBatch
  <1>6. BatchInv'
    BY DEF Enqueue, HandOverInv, TypeOK, RequestsTypeOK, CacheTypeOK, WorkerTypeOK,
           BatchInv, QueueInv, InBatch, InQueue, WantedInv, CallerInv, ChunkId,
           Cached, Different
  <1>7. WantedInv'
    BY DEF Enqueue, HandOverInv, TypeOK, RequestsTypeOK, CacheTypeOK, WorkerTypeOK,
           WantedInv, CallerInv, InLoop, Wanted, LoopInv, QueueInv, ChunkId, Cached,
           Different
  <1>8. LoopInv'
    BY DEF Enqueue, HandOverInv, TypeOK, RequestsTypeOK, CacheTypeOK, WorkerTypeOK,
           LoopInv, WantedInv, CallerInv, InLoop, InWindow, Wanted, ChunkId, Cached,
           Different
  <1> QED BY <1>1, <1>2, <1>3, <1>4, <1>5, <1>6, <1>7, <1>8 DEF HandOverInv, TypeOK

LEMMA ReadDataStep ==
  ASSUME HandOverInv, NEW r \in Request, ReadData(r)
  PROVE  HandOverInv'
  <1>1. TypeOK'
    BY DEF ReadData, HandOverInv, TypeOK, RequestsTypeOK, CacheTypeOK, WorkerTypeOK,
           CallerInv
  <1>2. CallerInv' /\ QueueInv' /\ BatchInv'
    BY DEF ReadData, HandOverInv, CallerInv, QueueInv, BatchInv, InQueue, InBatch,
           TypeOK, RequestsTypeOK, CacheTypeOK
  <1>3. WantedInv' /\ LoopInv'
    BY DEF ReadData, HandOverInv, WantedInv, LoopInv, InLoop, InWindow, Wanted,
           Cached, TypeOK, RequestsTypeOK, CacheTypeOK, WorkerTypeOK, CallerInv
  <1> QED BY <1>1, <1>2, <1>3 DEF HandOverInv

LEMMA WorkerLoopStep ==
  ASSUME HandOverInv, WorkerLoop
  PROVE  HandOverInv'
  <1>1. TypeOK'
    BY DEF WorkerLoop, HandOverInv, TypeOK, RequestsTypeOK, CacheTypeOK, WorkerTypeOK
  <1>2. CallerInv' /\ QueueInv' /\ BatchInv'
    BY DEF WorkerLoop, HandOverInv, CallerInv, QueueInv, BatchInv, InQueue, InBatch
  <1>3. WantedInv' /\ LoopInv'
    BY DEF WorkerLoop, HandOverInv, WantedInv, LoopInv, InLoop, InWindow, Wanted,
           Cached
  <1> QED BY <1>1, <1>2, <1>3 DEF HandOverInv

LEMMA WorkerWaitStep ==
  ASSUME HandOverInv, WorkerWait
  PROVE  HandOverInv'
  <1>1. TypeOK'
    BY DEF WorkerWait, HandOverInv, TypeOK, RequestsTypeOK, CacheTypeOK, WorkerTypeOK
  <1>2. CallerInv' /\ QueueInv' /\ BatchInv'
    BY DEF WorkerWait, HandOverInv, CallerInv, QueueInv, BatchInv, InQueue, InBatch
  <1>3. WantedInv' /\ LoopInv'
    BY DEF WorkerWait, HandOverInv, WantedInv, LoopInv, InLoop, InWindow, Wanted,
           Cached
  <1> QED BY <1>1, <1>2, <1>3 DEF HandOverInv

LEMMA WorkerTakeStep ==
  ASSUME HandOverInv, WorkerTake
  PROVE  HandOverInv'
  <1>1. TypeOK'
    BY DEF WorkerTake, HandOverInv, TypeOK, RequestsTypeOK, CacheTypeOK, WorkerTypeOK
  <1>2. CallerInv' /\ QueueInv' /\ BatchInv'
    BY DEF WorkerTake, HandOverInv, CallerInv, QueueInv, BatchInv, InQueue, InBatch,
           TypeOK, RequestsTypeOK, CacheTypeOK
  <1>3. WantedInv' /\ LoopInv'
    BY DEF WorkerTake, HandOverInv, WantedInv, LoopInv, InLoop, InWindow, Wanted,
           Cached
  <1> QED BY <1>1, <1>2, <1>3 DEF HandOverInv

LEMMA WorkerHitStep ==
  ASSUME HandOverInv, WorkerHit
  PROVE  HandOverInv'
  <1> DEFINE R == {to_handle[i] : i \in Hits}
  <1>1. \A i \in DOMAIN to_handle : /\ to_handle[i] \in Request \ m_send
                                    /\ m_id[to_handle[i]] \in ChunkId
                                    /\ pc[to_handle[i]] = "read"
    BY DEF HandOverInv, TypeOK, RequestsTypeOK, WorkerTypeOK, CallerInv, BatchInv,
           InBatch
  <1>2. R \subseteq Request /\ \A r \in R : m_id[r] \in ChunkId /\ InBatch(r)
    BY <1>1 DEF Hits, InBatch
  <1>3. TakeFromCache(R)
    BY DEF WorkerHit
  <1>4. UNCHANGED <<owner, pc, dcp, m_id, m_is_running, m_signaled, m_active_cache,
                    m_requests_to_handle, from, offset>>
    BY DEF WorkerHit, TakeFromCache
  <1>5. to_handle' = <<>> /\ item' = -1 /\ last_preload' = -1 /\ wpc = "hit" /\ wpc' = "next"
    BY DEF WorkerHit
  <1>6. /\ m_send' = m_send \cup R
        /\ m_chunk' \in [Request -> ChunkId \cup {NoChunk}]
        /\ m_state' \in [Request -> {"active", "available", "empty"}]
        /\ m_cache' \in [ChunkId -> ChunkId \cup {NoChunk}]
        /\ \A r \in R : m_chunk'[r] = m_cache[m_id[r]] /\ m_state'[r] = "available"
        /\ \A r \in Request \ R : m_chunk'[r] = m_chunk[r] /\ m_state'[r] = m_state[r]
        /\ \A c \in ChunkId :
             m_cache'[c] = IF \E r \in R : m_id[r] = c THEN NoChunk ELSE m_cache[c]
    BY <1>2, <1>3, TakeFromCacheEffect DEF HandOverInv
  <1>7. \A c \in ChunkId :
          to_read'[c] # NoRequest =>
            \E i \in DOMAIN to_handle \ Hits : /\ m_id[to_handle[i]] = c
                                               /\ to_read'[c] = to_handle[i]
    BY MissesHaveALast DEF WorkerHit, MissesOf, HandOverInv, TypeOK, WorkerTypeOK
  <1>8. \A c \in ChunkId : (\E i \in DOMAIN to_handle : m_id[to_handle[i]] = c) => m_cache'[c] = NoChunk
    BY <1>6, FirstIsHit DEF HandOverInv, TypeOK, WorkerTypeOK, Cached
  <1>9. RequestsTypeOK'
    BY <1>2, <1>4, <1>6 DEF HandOverInv, TypeOK, RequestsTypeOK
  <1>10. CacheTypeOK'
    BY <1>4, <1>6 DEF HandOverInv, TypeOK, CacheTypeOK
  <1>11. WorkerTypeOK'
    <2>1. to_read' \in [ChunkId -> Request \cup {NoRequest}]
      BY <1>1, <1>7 DEF WorkerHit
    <2> QED BY <1>4, <1>5, <2>1 DEF HandOverInv, TypeOK, WorkerTypeOK
  <1>12. CallerInv'
    <2>1. \A r \in R : m_cache[m_id[r]] # NoChunk /\ pc[r] = "read"
      BY <1>1 DEF Hits, Cached
    <2> QED BY <1>2, <1>4, <1>5, <1>6, <2>1 DEF HandOverInv, CallerInv
  <1>13. QueueInv'
    <2>1. \A c \in ChunkId, q \in Request : to_read'[c] = q => InBatch(q)
      BY <1>7 DEF InBatch
    <2> QED
      BY <1>2, <1>4, <1>5, <1>6, <2>1
      DEF HandOverInv, QueueInv, InQueue, InBatch
  <1>14. BatchInv'
    BY <1>5 DEF BatchInv, InBatch, Different
  <1>15. WantedInv'
    BY <1>1, <1>4, <1>5, <1>7, <1>8 DEF WantedInv, Wanted, Cached, InLoop
  <1>16. LoopInv'
    <2>1. \A c \in ChunkId : Wanted(c)' => to_read'[c] \notin m_send'
      BY <1>1, <1>6, <1>7 DEF HandOverInv, BatchInv, Different, Wanted, Hits
    <2> QED BY <1>5, <2>1 DEF LoopInv, InLoop, InWindow, Wanted, ChunkId
  <1> QED
    BY <1>9, <1>10, <1>11, <1>12, <1>13, <1>14, <1>15, <1>16
    DEF HandOverInv, TypeOK

LEMMA WorkerItemStep ==
  ASSUME HandOverInv, NEW c \in ChunkId, WorkerItem(c)
  PROVE  HandOverInv'
  <1>1. RequestsTypeOK'
    BY DEF WorkerItem, HandOverInv, TypeOK, RequestsTypeOK, CacheTypeOK, WorkerTypeOK,
           CallerInv, BatchInv, WantedInv, ChunkId, Cached, Different, ItemsLeft,
           MinOf
  <1>2. CacheTypeOK'
    BY DEF WorkerItem, HandOverInv, TypeOK, RequestsTypeOK, CacheTypeOK, WorkerTypeOK,
           WantedInv, LoopInv, InWindow, ChunkId, Cached, Different, ItemsLeft, MinOf
  <1>3. WorkerTypeOK'
    BY DEF WorkerItem, HandOverInv, TypeOK, RequestsTypeOK, CacheTypeOK, WorkerTypeOK,
           LoopInv, InWindow, InLoop, ChunkId, Cached, Different, ItemsLeft, MinOf
  <1>4. CallerInv'
    BY DEF WorkerItem, HandOverInv, TypeOK, RequestsTypeOK, CacheTypeOK, WorkerTypeOK,
           CallerInv, BatchInv, WantedInv, InBatch, Wanted, LoopInv, ChunkId, Cached,
           Different, ItemsLeft, MinOf
  <1>5. QueueInv'
    BY DEF WorkerItem, HandOverInv, TypeOK, RequestsTypeOK, CacheTypeOK, WorkerTypeOK,
           QueueInv, InQueue, InBatch, WantedInv, Wanted, CallerInv, ChunkId, Cached,
           Different, ItemsLeft, MinOf
  <1>6. BatchInv'
    BY DEF WorkerItem, HandOverInv, TypeOK, RequestsTypeOK, CacheTypeOK, WorkerTypeOK,
           BatchInv, QueueInv, InBatch, InQueue, WantedInv, CallerInv, ChunkId,
           Cached, Different, ItemsLeft, MinOf
  <1>7. WantedInv'
    BY DEF WorkerItem, HandOverInv, TypeOK, RequestsTypeOK, CacheTypeOK, WorkerTypeOK,
           WantedInv, CallerInv, InLoop, Wanted, LoopInv, QueueInv, ChunkId, Cached,
           Different, ItemsLeft, MinOf
  <1>8. LoopInv'
    <2>1. \A d \in ChunkId : Wanted(d) /\ d < c => to_read[d] \in m_send
      BY DEF WorkerItem, ItemsLeft, HandOverInv, LoopInv, Wanted, InLoop, TypeOK,
             WorkerTypeOK, ChunkId
    <2>2. CASE to_read[c] \in m_send
      BY <2>1, <2>2
      DEF WorkerItem, ItemsLeft, HandOverInv, LoopInv, Wanted, InLoop, InWindow,
          TypeOK, WorkerTypeOK, ChunkId
    <2>3. CASE to_read[c] \notin m_send
      BY <2>1, <2>3
      DEF WorkerItem, ItemsLeft, HandOverInv, LoopInv, Wanted, InLoop, InWindow,
          TypeOK, WorkerTypeOK, ChunkId, MinOf
    <2> QED BY <2>2, <2>3 DEF WorkerItem
  <1> QED BY <1>1, <1>2, <1>3, <1>4, <1>5, <1>6, <1>7, <1>8 DEF HandOverInv, TypeOK

LEMMA WorkerBatchEndStep ==
  ASSUME HandOverInv, WorkerBatchEnd
  PROVE  HandOverInv'
  <1>1. TypeOK'
    BY DEF WorkerBatchEnd, HandOverInv, ItemsLeft, TypeOK, RequestsTypeOK,
           CacheTypeOK, WorkerTypeOK
  <1>2. CallerInv' /\ QueueInv' /\ BatchInv'
    BY DEF WorkerBatchEnd, HandOverInv, ItemsLeft, CallerInv, QueueInv, BatchInv,
           InQueue, InBatch
  <1>3. WantedInv' /\ LoopInv'
    BY DEF WorkerBatchEnd, HandOverInv, ItemsLeft, WantedInv, LoopInv, InLoop,
           InWindow, Wanted, Cached, TypeOK, WorkerTypeOK, ChunkId
  <1> QED BY <1>1, <1>2, <1>3 DEF HandOverInv

LEMMA PreloadSkipStep ==
  ASSUME HandOverInv, PreloadSkip
  PROVE  HandOverInv'
  <1>1. TypeOK'
    BY DEF PreloadSkip, HandOverInv, TypeOK, RequestsTypeOK, CacheTypeOK,
           WorkerTypeOK, LoopInv, InLoop, ChunkId
  <1>2. CallerInv' /\ QueueInv' /\ BatchInv'
    BY DEF PreloadSkip, HandOverInv, CallerInv, QueueInv, BatchInv, InQueue, InBatch
  <1>3. WantedInv' /\ LoopInv'
    BY DEF PreloadSkip, HandOverInv, WantedInv, LoopInv, InLoop, InWindow, Wanted,
           Cached, TypeOK, WorkerTypeOK, ChunkId
  <1> QED BY <1>1, <1>2, <1>3 DEF HandOverInv

LEMMA PreloadMissStep ==
  ASSUME HandOverInv, PreloadMiss
  PROVE  HandOverInv'
  <1>1. TypeOK'
    BY DEF PreloadMiss, HandOverInv, TypeOK, RequestsTypeOK, CacheTypeOK,
           WorkerTypeOK, LoopInv, InLoop, ChunkId
  <1>2. CallerInv' /\ QueueInv' /\ BatchInv'
    BY DEF PreloadMiss, HandOverInv, CallerInv, QueueInv, BatchInv, InQueue, InBatch
  <1>3. WantedInv' /\ LoopInv'
    BY DEF PreloadMiss, HandOverInv, WantedInv, LoopInv, InLoop, InWindow, Wanted,
           Cached, TypeOK, WorkerTypeOK, ChunkId
  <1> QED BY <1>1, <1>2, <1>3 DEF HandOverInv

LEMMA ReadToCacheStep ==
  ASSUME HandOverInv, ReadToCache
  PROVE  HandOverInv'
  <1>1. TypeOK'
    BY DEF ReadToCache, HandOverInv, AddToCache, Found, TypeOK, RequestsTypeOK,
           CacheTypeOK, WorkerTypeOK, LoopInv, InLoop, ChunkId
  <1>2. CallerInv' /\ QueueInv' /\ BatchInv'
    BY DEF ReadToCache, HandOverInv, AddToCache, Found, CallerInv, QueueInv, BatchInv,
           InQueue, InBatch
  <1>3. WantedInv' /\ LoopInv'
    BY DEF ReadToCache, HandOverInv, AddToCache, Found, WantedInv, LoopInv, InLoop,
           InWindow, Wanted, Cached, TypeOK, WorkerTypeOK, ChunkId, RequestsTypeOK,
           CacheTypeOK, CallerInv
  <1> QED BY <1>1, <1>2, <1>3 DEF HandOverInv

LEMMA ReadToRequestStep ==
  ASSUME HandOverInv, ReadToRequest
  PROVE  HandOverInv'
  <1>1. RequestsTypeOK'
    <2>1. offset \in ChunkId
      BY DEF ReadToRequest, Found, HandOverInv, LoopInv, InLoop, TypeOK, WorkerTypeOK,
             ChunkId
    <2>2. to_read[from] \in Request
      BY DEF ReadToRequest, Found, HandOverInv, LoopInv, InLoop, TypeOK, WorkerTypeOK,
             ChunkId
    <2> QED
      BY <2>1, <2>2
      DEF ReadToRequest, Found, SetData, HandOverInv, TypeOK, RequestsTypeOK
  <1>2. CacheTypeOK'
    BY DEF ReadToRequest, HandOverInv, TypeOK, RequestsTypeOK, CacheTypeOK,
           WorkerTypeOK, WantedInv, LoopInv, InWindow, ChunkId, Cached, Different,
           SetData, Found
  <1>3. WorkerTypeOK'
    BY DEF ReadToRequest, HandOverInv, TypeOK, RequestsTypeOK, CacheTypeOK,
           WorkerTypeOK, LoopInv, InWindow, InLoop, ChunkId, Cached, Different,
           SetData, Found
  <1>4. CallerInv'
    BY DEF ReadToRequest, HandOverInv, TypeOK, RequestsTypeOK, CacheTypeOK,
           WorkerTypeOK, CallerInv, BatchInv, WantedInv, InBatch, Wanted, LoopInv,
           ChunkId, Cached, Different, SetData, Found
  <1>5. QueueInv'
    <2>1. from \in ChunkId
      BY DEF ReadToRequest, Found, HandOverInv, LoopInv, InLoop, TypeOK, WorkerTypeOK,
             ChunkId
    <2> QED
      BY <2>1
      DEF ReadToRequest, Found, SetData, HandOverInv, QueueInv, InQueue, InBatch
  <1>6. BatchInv'
    BY DEF ReadToRequest, HandOverInv, TypeOK, RequestsTypeOK, CacheTypeOK,
           WorkerTypeOK, BatchInv, QueueInv, InBatch, InQueue, WantedInv, CallerInv,
           ChunkId, Cached, Different, SetData, Found
  <1>7. WantedInv'
    BY DEF ReadToRequest, HandOverInv, TypeOK, RequestsTypeOK, CacheTypeOK,
           WorkerTypeOK, WantedInv, CallerInv, InLoop, Wanted, LoopInv, QueueInv,
           ChunkId, Cached, Different, SetData, Found
  <1>8. LoopInv'
    BY DEF ReadToRequest, HandOverInv, TypeOK, RequestsTypeOK, CacheTypeOK,
           WorkerTypeOK, LoopInv, WantedInv, CallerInv, InLoop, InWindow, Wanted,
           ChunkId, Cached, Different, SetData, Found
  <1> QED BY <1>1, <1>2, <1>3, <1>4, <1>5, <1>6, <1>7, <1>8 DEF HandOverInv, TypeOK

LEMMA PreloadEndStep ==
  ASSUME HandOverInv, PreloadEnd
  PROVE  HandOverInv'
  <1>1. TypeOK'
    BY DEF PreloadEnd, HandOverInv, TypeOK, RequestsTypeOK, CacheTypeOK, WorkerTypeOK,
           LoopInv, InLoop, ChunkId
  <1>2. CallerInv' /\ QueueInv' /\ BatchInv'
    BY DEF PreloadEnd, HandOverInv, CallerInv, QueueInv, BatchInv, InQueue, InBatch
  <1>3. WantedInv' /\ LoopInv'
    BY DEF PreloadEnd, HandOverInv, WantedInv, LoopInv, InLoop, InWindow, Wanted,
           Cached, TypeOK, WorkerTypeOK, ChunkId
  <1> QED BY <1>1, <1>2, <1>3 DEF HandOverInv

LEMMA WorkerServeStep ==
  ASSUME HandOverInv, WorkerServe
  PROVE  HandOverInv' /\ UNCHANGED <<m_chunk, m_state, m_send, m_cache>>
  <1>1. {r \in {to_read[item]} : Cached(m_id[r])} = {}
    BY DEF WorkerServe, HandOverInv, LoopInv, WantedInv, InLoop
  <1>2. TakeFromCache({})
    BY <1>1 DEF WorkerServe
  <1>3. UNCHANGED <<m_chunk, m_state, m_send, m_cache>>
    BY <1>2
    DEF TakeFromCache, SetData, HandOverInv, TypeOK, RequestsTypeOK, CacheTypeOK
  <1>4. UNCHANGED <<owner, pc, dcp, m_id, m_is_running, m_signaled, m_active_cache,
                    m_requests_to_handle, to_handle, to_read, item, last_preload, from, offset>>
    BY <1>2 DEF WorkerServe, TakeFromCache
  <1>5. wpc = "serve" /\ wpc' = "next"
    BY DEF WorkerServe
  <1>6. TypeOK'
    BY <1>3, <1>4, <1>5
    DEF HandOverInv, TypeOK, RequestsTypeOK, CacheTypeOK, WorkerTypeOK
  <1>7. CallerInv'
    BY <1>3, <1>4, <1>5 DEF HandOverInv, CallerInv
  <1>8. QueueInv' /\ BatchInv'
    BY <1>3, <1>4, <1>5
    DEF HandOverInv, QueueInv, BatchInv, InQueue, InBatch, Different
  <1>9. WantedInv'
    BY <1>3, <1>4, <1>5 DEF HandOverInv, WantedInv, Wanted, Cached, InLoop
  <1>10. LoopInv'
    BY <1>3, <1>4, <1>5 DEF HandOverInv, LoopInv, Wanted, InLoop, InWindow
  <1> QED BY <1>3, <1>6, <1>7, <1>8, <1>9, <1>10 DEF HandOverInv

LEMMA HandOverNext == HandOverInv /\ [Next]_vars => HandOverInv'
  <1> SUFFICES ASSUME HandOverInv, [Next]_vars PROVE HandOverInv'
    OBVIOUS
  <1>0. CASE UNCHANGED vars
    <2> USE <1>0 DEF vars
    <2>1. TypeOK'
      BY DEF HandOverInv, TypeOK, RequestsTypeOK, CacheTypeOK, WorkerTypeOK
    <2>2. CallerInv' /\ QueueInv' /\ BatchInv'
      BY DEF HandOverInv, CallerInv, QueueInv, BatchInv, InQueue, InBatch, Different
    <2>3. WantedInv' /\ LoopInv'
      BY DEF HandOverInv, WantedInv, LoopInv, Wanted, InLoop, InWindow, Cached
    <2> QED BY <2>1, <2>2, <2>3 DEF HandOverInv
  <1>1. CASE Start
    BY <1>1, StartStep
  <1>2. CASE Stop
    BY <1>2, StopStep
  <1>3. CASE Join
    BY <1>3, JoinStep
  <1>4. CASE \E r \in Request, c \in ChunkId : Call(r, c)
    BY <1>4, CallStep
  <1>5. CASE \E r \in Request : Lookup(r)
    BY <1>5, LookupStep
  <1>6. CASE \E r \in Request : Enqueue(r)
    BY <1>6, EnqueueStep
  <1>7. CASE \E r \in Request : ReadData(r)
    BY <1>7, ReadDataStep
  <1>8. CASE WorkerLoop
    BY <1>8, WorkerLoopStep
  <1>9. CASE WorkerWait
    BY <1>9, WorkerWaitStep
  <1>10. CASE WorkerTake
    BY <1>10, WorkerTakeStep
  <1>11. CASE WorkerHit
    BY <1>11, WorkerHitStep
  <1>12. CASE \E c \in ChunkId : WorkerItem(c)
    BY <1>12, WorkerItemStep
  <1>13. CASE WorkerBatchEnd
    BY <1>13, WorkerBatchEndStep
  <1>14. CASE PreloadSkip
    BY <1>14, PreloadSkipStep
  <1>15. CASE PreloadMiss
    BY <1>15, PreloadMissStep
  <1>16. CASE ReadToCache
    BY <1>16, ReadToCacheStep
  <1>17. CASE ReadToRequest
    BY <1>17, ReadToRequestStep
  <1>18. CASE PreloadEnd
    BY <1>18, PreloadEndStep
  <1>19. CASE WorkerServe
    BY <1>19, WorkerServeStep
  <1> QED
    BY <1>0, <1>1, <1>2, <1>3, <1>4, <1>5, <1>6, <1>7, <1>8, <1>9, <1>10, <1>11,
       <1>12, <1>13, <1>14, <1>15, <1>16, <1>17, <1>18, <1>19
    DEF Next, Caller, Worker

LEMMA HandOver == Spec => []HandOverInv
  BY HandOverInit, HandOverNext, PTL DEF Spec

(* Every variable keeps its type, whatever chunks are asked for. *)
THEOREM TypeCorrect == Spec => []TypeOK
  <1>1. HandOverInv => TypeOK
    BY DEF HandOverInv
  <1> QED BY <1>1, HandOver, PTL

(* A window answers every request of the batch that lies in it, and leaves *)
(* none of those chunks in the cache: the lookup after preload (line 183)  *)
(* never finds anything, whatever chunks are asked for.                    *)
THEOREM WindowAnswers == Spec => []WindowAnswersItsItems
  <1>1. HandOverInv => WindowAnswersItsItems
    BY DEF HandOverInv, LoopInv, WantedInv, WindowAnswersItsItems, Wanted
  <1> QED BY <1>1, HandOver, PTL

-----------------------------------------------------------------------------
(* The chunks that were read: cached, or given to a request. *)
Loaded == {c \in ChunkId : Cached(c) \/ \E r \in Request : m_id[r] = c /\ r \in m_send}

(* ... once the window in progress is read. *)
LoadedSoon == Loaded \cup (IF InWindow THEN from .. last_preload ELSE {})

AskedOnce == \A q, r \in Request : m_id[q] = m_id[r] /\ m_id[q] # NoChunk => q = r

(* A chunk above a missing one was read ahead from a window that reaches   *)
(* at least as far as the missing one's window would.                      *)
WindowsNest ==
  \A b, c, d \in ChunkId :
    /\ b \notin LoadedSoon /\ c \in LoadedSoon
    /\ b < c /\ c < d /\ d <= b + ReadInAdvance
    => d \in LoadedSoon

(* So what a window finds loaded is its tail, and its reads go astray only *)
(* there.                                                                  *)
TailLoaded ==
  InWindow =>
    /\ \A c, d \in ChunkId :
         from <= c /\ c <= d /\ d <= last_preload /\ c \in Loaded => d \in Loaded
    /\ offset = from \/ \A d \in ChunkId : from <= d /\ d <= last_preload => d \in Loaded

(* Wrong bytes are only cached for a chunk whose request is answered. *)
CacheRight ==
  \A c \in ChunkId :
    Cached(c) => \/ m_cache[c] = c
                 \/ \E r \in Request : m_id[r] = c /\ r \in m_send

(* A blocked call's request is in the queue, in the batch or in to_read. *)
Kept ==
  \A r \in Request :
    pc[r] = "read" /\ r \notin m_send => InQueue(r) \/ InBatch(r) \/ to_read[m_id[r]] = r

ContentInv ==
  AskedOnce /\ WindowsNest /\ TailLoaded /\ CacheRight /\ ReadsAreRight /\ Kept

LEMMA ContentFrame ==
  ASSUME ContentInv, UNCHANGED <<dcp, m_id, m_chunk, m_send, m_cache>>,
         LoadedSoon' = LoadedSoon, TailLoaded', Kept'
  PROVE  ContentInv'
  BY DEF ContentInv, AskedOnce, WindowsNest, CacheRight, ReadsAreRight, Cached

LEMMA StartContent ==
  ASSUME HandOverInv, HandOverInv', ContentInv, Start
  PROVE  ContentInv'
  <1>1. UNCHANGED <<dcp, m_id, m_chunk, m_send, m_cache>>
    BY DEF Start
  <1>2. LoadedSoon' = LoadedSoon
    BY <1>1 DEF Start, LoadedSoon, Loaded, InWindow, Cached, HandOverInv, CallerInv
  <1>3. TailLoaded'
    BY <1>1 DEF Start, ContentInv, TailLoaded, Loaded, InWindow, Cached
  <1>4. Kept'
    BY <1>1 DEF Start, ContentInv, Kept, InQueue, InBatch
  <1> QED BY <1>1, <1>2, <1>3, <1>4, ContentFrame

LEMMA StopContent ==
  ASSUME HandOverInv, HandOverInv', ContentInv, Stop
  PROVE  ContentInv'
  <1>1. UNCHANGED <<dcp, m_id, m_chunk, m_send, m_cache>>
    BY DEF Stop
  <1>2. LoadedSoon' = LoadedSoon
    BY <1>1 DEF Stop, LoadedSoon, Loaded, InWindow, Cached
  <1>3. TailLoaded'
    BY <1>1 DEF Stop, ContentInv, TailLoaded, Loaded, InWindow, Cached
  <1>4. Kept'
    BY <1>1 DEF Stop, ContentInv, Kept, InQueue, InBatch
  <1> QED BY <1>1, <1>2, <1>3, <1>4, ContentFrame

LEMMA JoinContent ==
  ASSUME HandOverInv, HandOverInv', ContentInv, Join
  PROVE  ContentInv'
  <1>1. UNCHANGED <<dcp, m_id, m_chunk, m_send, m_cache>>
    BY DEF Join
  <1>2. LoadedSoon' = LoadedSoon
    BY <1>1 DEF Join, LoadedSoon, Loaded, InWindow, Cached
  <1>3. TailLoaded'
    BY <1>1 DEF Join, ContentInv, TailLoaded, Loaded, InWindow, Cached
  <1>4. Kept'
    BY <1>1 DEF Join, ContentInv, Kept, InQueue, InBatch
  <1> QED BY <1>1, <1>2, <1>3, <1>4, ContentFrame

LEMMA CallContent ==
  ASSUME HandOverInv, HandOverInv', ContentInv, ~RepeatReads, NEW r \in Request, NEW c \in ChunkId, Call(r, c)
  PROVE  ContentInv'
  <1>1. AskedOnce'
    BY DEF Call, TypeOK, RequestsTypeOK, CacheTypeOK, WorkerTypeOK, HandOverInv,
           CallerInv, QueueInv, BatchInv, WantedInv, LoopInv, InQueue, InBatch,
           Wanted, InLoop, InWindow, Cached, ContentInv, ChunkId, AskedOnce
  <1>2. Loaded \subseteq Loaded'
    BY DEF Call, TypeOK, RequestsTypeOK, CacheTypeOK, WorkerTypeOK, HandOverInv,
           CallerInv, QueueInv, BatchInv, WantedInv, LoopInv, InQueue, InBatch,
           Wanted, InLoop, InWindow, Cached, ContentInv, ChunkId, Loaded
  <1>3. LoadedSoon' = LoadedSoon
    BY DEF Call, TypeOK, RequestsTypeOK, CacheTypeOK, WorkerTypeOK, HandOverInv,
           CallerInv, QueueInv, BatchInv, WantedInv, LoopInv, InQueue, InBatch,
           Wanted, InLoop, InWindow, Cached, ContentInv, ChunkId, LoadedSoon, Loaded
  <1>4. WindowsNest'
    BY <1>3
    DEF Call, TypeOK, RequestsTypeOK, CacheTypeOK, WorkerTypeOK, HandOverInv,
        CallerInv, QueueInv, BatchInv, WantedInv, LoopInv, InQueue, InBatch, Wanted,
        InLoop, InWindow, Cached, ContentInv, ChunkId, WindowsNest
  <1>5. TailLoaded'
    BY DEF Call, TypeOK, RequestsTypeOK, CacheTypeOK, WorkerTypeOK, HandOverInv,
           CallerInv, QueueInv, BatchInv, WantedInv, LoopInv, InQueue, InBatch,
           Wanted, InLoop, InWindow, Cached, ContentInv, ChunkId, TailLoaded, Loaded
  <1>6. CacheRight'
    BY DEF Call, TypeOK, RequestsTypeOK, CacheTypeOK, WorkerTypeOK, HandOverInv,
           CallerInv, QueueInv, BatchInv, WantedInv, LoopInv, InQueue, InBatch,
           Wanted, InLoop, InWindow, Cached, ContentInv, ChunkId, CacheRight, Loaded,
           AskedOnce
  <1>7. ReadsAreRight'
    BY DEF Call, TypeOK, RequestsTypeOK, CacheTypeOK, WorkerTypeOK, HandOverInv,
           CallerInv, QueueInv, BatchInv, WantedInv, LoopInv, InQueue, InBatch,
           Wanted, InLoop, InWindow, Cached, ContentInv, ChunkId, ReadsAreRight,
           CacheRight, AskedOnce, TailLoaded, Loaded
  <1>8. Kept'
    <2>1. pc'[r] = "lookup" /\ \A q \in Request \ {r} : pc'[q] = pc[q] /\ m_id'[q] = m_id[q]
      BY DEF Call, HandOverInv, TypeOK, RequestsTypeOK
    <2> QED
      BY <2>1 DEF Call, ContentInv, Kept, InQueue, InBatch
  <1> QED BY <1>1, <1>4, <1>5, <1>6, <1>7, <1>8 DEF ContentInv

LEMMA LookupContent ==
  ASSUME HandOverInv, HandOverInv', ContentInv, NEW r \in Request, Lookup(r)
  PROVE  ContentInv'
  <1>1. AskedOnce'
    BY DEF Lookup, TypeOK, RequestsTypeOK, CacheTypeOK, WorkerTypeOK, HandOverInv,
           CallerInv, QueueInv, BatchInv, WantedInv, LoopInv, InQueue, InBatch,
           Wanted, InLoop, InWindow, Cached, ContentInv, ChunkId, AskedOnce, SetData,
           TakeFromCache
  <1>2. Loaded \subseteq Loaded'
    BY DEF Lookup, TypeOK, RequestsTypeOK, CacheTypeOK, WorkerTypeOK, HandOverInv,
           CallerInv, QueueInv, BatchInv, WantedInv, LoopInv, InQueue, InBatch,
           Wanted, InLoop, InWindow, Cached, ContentInv, ChunkId, Loaded, SetData,
           TakeFromCache
  <1>3. LoadedSoon' = LoadedSoon
    BY DEF Lookup, TypeOK, RequestsTypeOK, CacheTypeOK, WorkerTypeOK, HandOverInv,
           CallerInv, QueueInv, BatchInv, WantedInv, LoopInv, InQueue, InBatch,
           Wanted, InLoop, InWindow, Cached, ContentInv, ChunkId, LoadedSoon, Loaded,
           SetData, TakeFromCache
  <1>4. WindowsNest'
    BY <1>3
    DEF Lookup, TypeOK, RequestsTypeOK, CacheTypeOK, WorkerTypeOK, HandOverInv,
        CallerInv, QueueInv, BatchInv, WantedInv, LoopInv, InQueue, InBatch, Wanted,
        InLoop, InWindow, Cached, ContentInv, ChunkId, WindowsNest, SetData,
        TakeFromCache
  <1>5. TailLoaded'
    BY DEF Lookup, TypeOK, RequestsTypeOK, CacheTypeOK, WorkerTypeOK, HandOverInv,
           CallerInv, QueueInv, BatchInv, WantedInv, LoopInv, InQueue, InBatch,
           Wanted, InLoop, InWindow, Cached, ContentInv, ChunkId, TailLoaded, Loaded,
           SetData, TakeFromCache
  <1>6. CacheRight'
    BY DEF Lookup, TypeOK, RequestsTypeOK, CacheTypeOK, WorkerTypeOK, HandOverInv,
           CallerInv, QueueInv, BatchInv, WantedInv, LoopInv, InQueue, InBatch,
           Wanted, InLoop, InWindow, Cached, ContentInv, ChunkId, CacheRight, Loaded,
           AskedOnce, SetData, TakeFromCache
  <1>7. ReadsAreRight'
    BY DEF Lookup, TypeOK, RequestsTypeOK, CacheTypeOK, WorkerTypeOK, HandOverInv,
           CallerInv, QueueInv, BatchInv, WantedInv, LoopInv, InQueue, InBatch,
           Wanted, InLoop, InWindow, Cached, ContentInv, ChunkId, ReadsAreRight,
           CacheRight, AskedOnce, TailLoaded, Loaded, SetData, TakeFromCache
  <1>8. Kept'
    <2>1. pc'[r] = "enqueue" \/ r \in m_send'
      BY DEF Lookup, TakeFromCache, SetData, HandOverInv, TypeOK, RequestsTypeOK
    <2>2. \A q \in Request \ {r} : pc'[q] = pc[q]
      BY DEF Lookup, HandOverInv, TypeOK, RequestsTypeOK
    <2>3. m_send \subseteq m_send'
      BY DEF Lookup, TakeFromCache, SetData
    <2> QED
      BY <2>1, <2>2, <2>3 DEF Lookup, ContentInv, Kept, InQueue, InBatch
  <1> QED BY <1>1, <1>4, <1>5, <1>6, <1>7, <1>8 DEF ContentInv

LEMMA EnqueueContent ==
  ASSUME HandOverInv, HandOverInv', ContentInv, NEW r \in Request, Enqueue(r)
  PROVE  ContentInv'
  <1>1. UNCHANGED <<dcp, m_id, m_chunk, m_send, m_cache>>
    BY DEF Enqueue
  <1>2. LoadedSoon' = LoadedSoon
    BY <1>1 DEF Enqueue, LoadedSoon, Loaded, InWindow, Cached
  <1>3. TailLoaded'
    BY <1>1 DEF Enqueue, ContentInv, TailLoaded, Loaded, InWindow, Cached
  <1>4. Kept'
    <2>1. \A q \in Request : InQueue(q) \/ q = r => InQueue(q)'
      <3>1. m_requests_to_handle' = Append(m_requests_to_handle, r)
        BY DEF Enqueue
      <3>2. m_requests_to_handle \in Seq(Request)
        BY DEF HandOverInv, TypeOK, CacheTypeOK
      <3> QED BY <3>1, <3>2 DEF InQueue
    <2>2. \A q \in Request \ {r} : pc'[q] = pc[q]
      BY DEF Enqueue, HandOverInv, TypeOK, RequestsTypeOK
    <2> QED
      BY <2>1, <2>2 DEF Enqueue, ContentInv, Kept, InBatch
  <1> QED BY <1>1, <1>2, <1>3, <1>4, ContentFrame

LEMMA ReadDataContent ==
  ASSUME HandOverInv, HandOverInv', ContentInv, NEW r \in Request, ReadData(r)
  PROVE  ContentInv'
  <1>1. AskedOnce'
    BY DEF ReadData, TypeOK, RequestsTypeOK, CacheTypeOK, WorkerTypeOK, HandOverInv,
           CallerInv, QueueInv, BatchInv, WantedInv, LoopInv, InQueue, InBatch,
           Wanted, InLoop, InWindow, Cached, ContentInv, ChunkId, AskedOnce
  <1>2. Loaded \subseteq Loaded'
    BY DEF ReadData, TypeOK, RequestsTypeOK, CacheTypeOK, WorkerTypeOK, HandOverInv,
           CallerInv, QueueInv, BatchInv, WantedInv, LoopInv, InQueue, InBatch,
           Wanted, InLoop, InWindow, Cached, ContentInv, ChunkId, Loaded
  <1>3. LoadedSoon' = LoadedSoon
    BY DEF ReadData, TypeOK, RequestsTypeOK, CacheTypeOK, WorkerTypeOK, HandOverInv,
           CallerInv, QueueInv, BatchInv, WantedInv, LoopInv, InQueue, InBatch,
           Wanted, InLoop, InWindow, Cached, ContentInv, ChunkId, LoadedSoon, Loaded
  <1>4. WindowsNest'
    BY <1>3
    DEF ReadData, TypeOK, RequestsTypeOK, CacheTypeOK, WorkerTypeOK, HandOverInv,
        CallerInv, QueueInv, BatchInv, WantedInv, LoopInv, InQueue, InBatch, Wanted,
        InLoop, InWindow, Cached, ContentInv, ChunkId, WindowsNest
  <1>5. TailLoaded'
    BY DEF ReadData, TypeOK, RequestsTypeOK, CacheTypeOK, WorkerTypeOK, HandOverInv,
           CallerInv, QueueInv, BatchInv, WantedInv, LoopInv, InQueue, InBatch,
           Wanted, InLoop, InWindow, Cached, ContentInv, ChunkId, TailLoaded, Loaded
  <1>6. CacheRight'
    BY DEF ReadData, TypeOK, RequestsTypeOK, CacheTypeOK, WorkerTypeOK, HandOverInv,
           CallerInv, QueueInv, BatchInv, WantedInv, LoopInv, InQueue, InBatch,
           Wanted, InLoop, InWindow, Cached, ContentInv, ChunkId, CacheRight, Loaded,
           AskedOnce
  <1>7. ReadsAreRight'
    BY DEF ReadData, TypeOK, RequestsTypeOK, CacheTypeOK, WorkerTypeOK, HandOverInv,
           CallerInv, QueueInv, BatchInv, WantedInv, LoopInv, InQueue, InBatch,
           Wanted, InLoop, InWindow, Cached, ContentInv, ChunkId, ReadsAreRight,
           CacheRight, AskedOnce, TailLoaded, Loaded
  <1>8. Kept'
    <2>1. pc'[r] = "done" /\ \A q \in Request \ {r} : pc'[q] = pc[q]
      BY DEF ReadData, HandOverInv, TypeOK, RequestsTypeOK
    <2> QED
      BY <2>1 DEF ReadData, ContentInv, Kept, InQueue, InBatch
  <1> QED BY <1>1, <1>4, <1>5, <1>6, <1>7, <1>8 DEF ContentInv

LEMMA WorkerLoopContent ==
  ASSUME HandOverInv, HandOverInv', ContentInv, WorkerLoop
  PROVE  ContentInv'
  <1>1. UNCHANGED <<dcp, m_id, m_chunk, m_send, m_cache>>
    BY DEF WorkerLoop
  <1>2. LoadedSoon' = LoadedSoon
    BY <1>1 DEF WorkerLoop, LoadedSoon, Loaded, InWindow, Cached
  <1>3. TailLoaded'
    BY <1>1 DEF WorkerLoop, ContentInv, TailLoaded, Loaded, InWindow, Cached
  <1>4. Kept'
    BY <1>1 DEF WorkerLoop, ContentInv, Kept, InQueue, InBatch
  <1> QED BY <1>1, <1>2, <1>3, <1>4, ContentFrame

LEMMA WorkerWaitContent ==
  ASSUME HandOverInv, HandOverInv', ContentInv, WorkerWait
  PROVE  ContentInv'
  <1>1. UNCHANGED <<dcp, m_id, m_chunk, m_send, m_cache>>
    BY DEF WorkerWait
  <1>2. LoadedSoon' = LoadedSoon
    BY <1>1 DEF WorkerWait, LoadedSoon, Loaded, InWindow, Cached
  <1>3. TailLoaded'
    BY <1>1 DEF WorkerWait, ContentInv, TailLoaded, Loaded, InWindow, Cached
  <1>4. Kept'
    BY <1>1 DEF WorkerWait, ContentInv, Kept, InQueue, InBatch
  <1> QED BY <1>1, <1>2, <1>3, <1>4, ContentFrame

LEMMA WorkerTakeContent ==
  ASSUME HandOverInv, HandOverInv', ContentInv, WorkerTake
  PROVE  ContentInv'
  <1>1. UNCHANGED <<dcp, m_id, m_chunk, m_send, m_cache>>
    BY DEF WorkerTake
  <1>2. LoadedSoon' = LoadedSoon
    BY <1>1 DEF WorkerTake, LoadedSoon, Loaded, InWindow, Cached
  <1>3. TailLoaded'
    BY <1>1 DEF WorkerTake, ContentInv, TailLoaded, Loaded, InWindow, Cached
  <1>4. Kept'
    BY <1>1
    DEF WorkerTake, ContentInv, Kept, InQueue, InBatch, HandOverInv, BatchInv, TypeOK,
        RequestsTypeOK, CacheTypeOK, WorkerTypeOK
  <1> QED BY <1>1, <1>2, <1>3, <1>4, ContentFrame

LEMMA WorkerHitContent ==
  ASSUME HandOverInv, HandOverInv', ContentInv, WorkerHit
  PROVE  ContentInv'
  <1> DEFINE R == {to_handle[i] : i \in Hits}
  <1>a. \A i \in DOMAIN to_handle : /\ to_handle[i] \in Request \ m_send
                                    /\ m_id[to_handle[i]] \in ChunkId
    BY DEF HandOverInv, TypeOK, RequestsTypeOK, WorkerTypeOK, CallerInv, BatchInv,
           InBatch
  <1>b. R \subseteq Request \ m_send /\ \A r \in R : m_id[r] \in ChunkId /\ Cached(m_id[r])
    BY <1>a DEF Hits
  <1>c. TakeFromCache(R)
    BY DEF WorkerHit
  <1>d. UNCHANGED <<pc, dcp, m_id>> /\ wpc = "hit" /\ wpc' = "next"
    BY DEF WorkerHit
  <1>e. /\ m_send' = m_send \cup R
        /\ \A r \in R : m_chunk'[r] = m_cache[m_id[r]]
        /\ \A r \in Request \ R : m_chunk'[r] = m_chunk[r]
        /\ \A c \in ChunkId :
             m_cache'[c] = IF \E r \in R : m_id[r] = c THEN NoChunk ELSE m_cache[c]
    BY <1>b, <1>c, TakeFromCacheEffect DEF HandOverInv
  <1> HIDE DEF R
  <1>1. AskedOnce'
    BY DEF WorkerHit, TypeOK, RequestsTypeOK, CacheTypeOK, WorkerTypeOK, HandOverInv,
           CallerInv, QueueInv, BatchInv, WantedInv, LoopInv, InQueue, InBatch,
           Wanted, InLoop, InWindow, Cached, ContentInv, ChunkId, AskedOnce, SetData,
           TakeFromCache
  <1>2. Loaded \subseteq Loaded'
    BY <1>b, <1>d, <1>e DEF Loaded, Cached
  <1>3. LoadedSoon' = LoadedSoon
    BY <1>b, <1>d, <1>e DEF Loaded, LoadedSoon, InWindow, Cached
  <1>4. WindowsNest'
    BY <1>3
    DEF WorkerHit, TypeOK, RequestsTypeOK, CacheTypeOK, WorkerTypeOK, HandOverInv,
        CallerInv, QueueInv, BatchInv, WantedInv, LoopInv, InQueue, InBatch, Wanted,
        InLoop, InWindow, Cached, ContentInv, ChunkId, WindowsNest, SetData,
        TakeFromCache
  <1>5. TailLoaded'
    BY <1>d DEF TailLoaded, InWindow
  <1>6. CacheRight'
    BY <1>d, <1>e DEF CacheRight, ContentInv, Cached
  <1>7. ReadsAreRight'
    <2>1. \A r \in R : m_cache[m_id[r]] = m_id[r]
      BY <1>b DEF ContentInv, CacheRight, AskedOnce, ChunkId
    <2> QED BY <1>d, <1>e, <2>1 DEF ContentInv, ReadsAreRight
  <1>8. Kept'
    <2>1. \A r \in Request : InBatch(r) /\ r \notin R => to_read'[m_id[r]] = r
      <3> SUFFICES ASSUME NEW i \in DOMAIN to_handle, to_handle[i] \notin R
                   PROVE  to_read'[m_id[to_handle[i]]] = to_handle[i]
        BY DEF InBatch
      <3> DEFINE c == m_id[to_handle[i]]
      <3>1. i \in MissesOf(c) /\ c \in ChunkId
        BY <1>a DEF MissesOf, R
      <3>2. to_handle \in Seq(Request)
        BY DEF HandOverInv, TypeOK, WorkerTypeOK
      <3>3. PICK j \in MissesOf(c) : to_read'[c] = to_handle[j]
        BY <3>1, <3>2, MissesHaveALast DEF WorkerHit
      <3>4. to_handle[j] = to_handle[i]
        <4>1. m_id[to_handle[j]] = m_id[to_handle[i]] /\ m_id[to_handle[i]] # NoChunk
          BY <1>a, <3>1, <3>3 DEF MissesOf, ChunkId
        <4> QED BY <1>a, <3>3, <4>1 DEF ContentInv, AskedOnce, MissesOf
      <3> QED BY <3>3, <3>4
    <2>2. \A r \in Request : InQueue(r) <=> InQueue(r)'
      BY DEF WorkerHit, InQueue
    <2>3. ~InLoop
      BY <1>d DEF InLoop
    <2> QED
      BY <1>d, <1>e, <2>1, <2>2, <2>3
      DEF ContentInv, Kept, HandOverInv, WantedInv, Wanted, TypeOK, RequestsTypeOK,
          CallerInv
  <1> QED BY <1>1, <1>4, <1>5, <1>6, <1>7, <1>8 DEF ContentInv

LEMMA WorkerItemContent ==
  ASSUME HandOverInv, HandOverInv', ContentInv, NEW c \in ChunkId, WorkerItem(c)
  PROVE  ContentInv'
  <1>0. to_read[c] \notin m_send => c \notin Loaded
    <2>1. Wanted(c) /\ to_read[c] \in Request /\ m_id[to_read[c]] = c /\ ~Cached(c)
      BY DEF WorkerItem, ItemsLeft, Wanted, HandOverInv, WantedInv, TypeOK,
             WorkerTypeOK
    <2> QED
      BY <2>1 DEF Loaded, ContentInv, AskedOnce, ChunkId
  <1>1. AskedOnce'
    BY DEF WorkerItem, TypeOK, RequestsTypeOK, CacheTypeOK, WorkerTypeOK, HandOverInv,
           CallerInv, QueueInv, BatchInv, WantedInv, LoopInv, InQueue, InBatch,
           Wanted, InLoop, InWindow, Cached, ContentInv, ChunkId, AskedOnce,
           ItemsLeft, MinOf
  <1>2. Loaded \subseteq Loaded'
    BY DEF WorkerItem, TypeOK, RequestsTypeOK, CacheTypeOK, WorkerTypeOK, HandOverInv,
           CallerInv, QueueInv, BatchInv, WantedInv, LoopInv, InQueue, InBatch,
           Wanted, InLoop, InWindow, Cached, ContentInv, ChunkId, Loaded, ItemsLeft,
           MinOf
  <1>3. Loaded' = Loaded
    BY DEF WorkerItem, Loaded, Cached
  <1>4. WindowsNest'
    <2>1. CASE UNCHANGED <<wpc, last_preload, from, offset>>
      BY <1>3, <2>1 DEF WorkerItem, LoadedSoon, InWindow, ContentInv, WindowsNest
    <2>2. CASE /\ c \notin Loaded
               /\ wpc' = "preload"
               /\ from' = c
               /\ last_preload' = MinOf(c + ReadInAdvance, NumberOfChunks - 1)
      <3>1. \A d \in ChunkId :
              c <= d /\ d <= last_preload' <=> c <= d /\ d <= c + ReadInAdvance
        BY <2>2 DEF MinOf, ChunkId
      <3>3. LoadedSoon' = Loaded \cup (c .. last_preload')
        BY <1>3, <2>2 DEF LoadedSoon, InWindow
      <3>4. last_preload' \in Int /\ c \in Int
        BY <2>2 DEF MinOf, ChunkId
      <3>2. LoadedSoon = Loaded
        BY DEF WorkerItem, LoadedSoon, InWindow
      <3> QED
        BY <2>2, <3>1, <3>2, <3>3, <3>4 DEF ContentInv, WindowsNest, ChunkId
    <2>3. CASE wpc' = "serve" /\ UNCHANGED <<last_preload, from, offset>>
      BY <1>3, <2>3 DEF WorkerItem, LoadedSoon, InWindow, ContentInv, WindowsNest
    <2> QED BY <1>0, <2>1, <2>2, <2>3 DEF WorkerItem
  <1>5. TailLoaded'
    <2>1. CASE UNCHANGED wpc
      BY <2>1 DEF WorkerItem, InWindow, TailLoaded
    <2>2. CASE /\ c \notin Loaded
               /\ from' = c
               /\ offset' = c
               /\ last_preload' = MinOf(c + ReadInAdvance, NumberOfChunks - 1)
      <3>1. LoadedSoon = Loaded
        BY DEF WorkerItem, LoadedSoon, InWindow
      <3>2. \A b, d \in ChunkId : c <= b /\ b <= d /\ d <= last_preload' /\ b \in Loaded => d \in Loaded
        BY <2>2, <3>1 DEF ContentInv, WindowsNest, MinOf, ChunkId
      <3> QED BY <1>3, <2>2, <3>2 DEF TailLoaded
    <2>3. CASE wpc' = "serve"
      BY <2>3 DEF InWindow, TailLoaded
    <2> QED BY <1>0, <2>1, <2>2, <2>3 DEF WorkerItem
  <1>6. CacheRight'
    BY DEF WorkerItem, TypeOK, RequestsTypeOK, CacheTypeOK, WorkerTypeOK, HandOverInv,
           CallerInv, QueueInv, BatchInv, WantedInv, LoopInv, InQueue, InBatch,
           Wanted, InLoop, InWindow, Cached, ContentInv, ChunkId, CacheRight, Loaded,
           AskedOnce, ItemsLeft, MinOf
  <1>7. ReadsAreRight'
    BY DEF WorkerItem, TypeOK, RequestsTypeOK, CacheTypeOK, WorkerTypeOK, HandOverInv,
           CallerInv, QueueInv, BatchInv, WantedInv, LoopInv, InQueue, InBatch,
           Wanted, InLoop, InWindow, Cached, ContentInv, ChunkId, ReadsAreRight,
           CacheRight, AskedOnce, TailLoaded, Loaded, ItemsLeft, MinOf
  <1>8. Kept'
    BY DEF WorkerItem, TypeOK, RequestsTypeOK, CacheTypeOK, WorkerTypeOK, HandOverInv,
           CallerInv, QueueInv, BatchInv, WantedInv, LoopInv, InQueue, InBatch,
           Wanted, InLoop, InWindow, Cached, ContentInv, ChunkId, Kept, AskedOnce,
           ItemsLeft, MinOf
  <1> QED BY <1>1, <1>4, <1>5, <1>6, <1>7, <1>8 DEF ContentInv

LEMMA WorkerBatchEndContent ==
  ASSUME HandOverInv, HandOverInv', ContentInv, WorkerBatchEnd
  PROVE  ContentInv'
  <1>1. UNCHANGED <<dcp, m_id, m_chunk, m_send, m_cache>>
    BY DEF WorkerBatchEnd
  <1>2. LoadedSoon' = LoadedSoon
    BY <1>1 DEF WorkerBatchEnd, LoadedSoon, Loaded, InWindow, Cached
  <1>3. TailLoaded'
    BY <1>1 DEF WorkerBatchEnd, ContentInv, TailLoaded, Loaded, InWindow, Cached
  <1>4. \A c \in ChunkId : Wanted(c) => to_read[c] \in m_send
    BY DEF WorkerBatchEnd, HandOverInv, LoopInv, ItemsLeft, InLoop, Wanted, ChunkId,
           TypeOK, WorkerTypeOK
  <1>5. \A r \in Request :
          pc[r] = "read" /\ r \notin m_send => InQueue(r) \/ InBatch(r)
    <2> SUFFICES ASSUME NEW r \in Request, pc[r] = "read", r \notin m_send,
                        ~InQueue(r), ~InBatch(r)
                 PROVE  FALSE
      OBVIOUS
    <2>1. to_read[m_id[r]] = r
      BY DEF ContentInv, Kept
    <2>2. m_id[r] \in ChunkId
      BY DEF HandOverInv, CallerInv, TypeOK, RequestsTypeOK
    <2> QED BY <1>4, <2>1, <2>2, FileCacheAssumption DEF Wanted
  <1>6. Kept'
    BY <1>1, <1>5 DEF WorkerBatchEnd, Kept, InQueue, InBatch
  <1> QED BY <1>1, <1>2, <1>3, <1>6, ContentFrame

LEMMA PreloadSkipContent ==
  ASSUME HandOverInv, HandOverInv', ContentInv, PreloadSkip
  PROVE  ContentInv'
  <1>1. UNCHANGED <<dcp, m_id, m_chunk, m_send, m_cache>>
    BY DEF PreloadSkip
  <1>2. LoadedSoon' = LoadedSoon
    BY <1>1
    DEF PreloadSkip, LoadedSoon, Loaded, InWindow, Cached, HandOverInv, ChunkId,
        ContentInv, TypeOK, WorkerTypeOK, LoopInv
  <1>3. TailLoaded'
    BY <1>1
    DEF PreloadSkip, ContentInv, TailLoaded, Loaded, InWindow, Cached, HandOverInv,
        ChunkId, TypeOK, RequestsTypeOK, CacheTypeOK, WorkerTypeOK
  <1>4. Kept'
    BY <1>1 DEF PreloadSkip, ContentInv, Kept, InQueue, InBatch
  <1> QED BY <1>1, <1>2, <1>3, <1>4, ContentFrame

LEMMA PreloadMissContent ==
  ASSUME HandOverInv, HandOverInv', ContentInv, PreloadMiss
  PROVE  ContentInv'
  <1>1. UNCHANGED <<dcp, m_id, m_chunk, m_send, m_cache>>
    BY DEF PreloadMiss
  <1>2. LoadedSoon' = LoadedSoon
    BY <1>1
    DEF PreloadMiss, LoadedSoon, Loaded, InWindow, Cached, HandOverInv, ChunkId,
        ContentInv, TypeOK, WorkerTypeOK, LoopInv
  <1>3. TailLoaded'
    BY <1>1 DEF PreloadMiss, ContentInv, TailLoaded, Loaded, InWindow, Cached
  <1>4. Kept'
    BY <1>1 DEF PreloadMiss, ContentInv, Kept, InQueue, InBatch
  <1> QED BY <1>1, <1>2, <1>3, <1>4, ContentFrame

LEMMA ReadToCacheContent ==
  ASSUME HandOverInv, HandOverInv', ContentInv, ReadToCache
  PROVE  ContentInv'
  <1>1. AskedOnce'
    BY DEF ReadToCache, TypeOK, RequestsTypeOK, CacheTypeOK, WorkerTypeOK,
           HandOverInv, CallerInv, QueueInv, BatchInv, WantedInv, LoopInv, InQueue,
           InBatch, Wanted, InLoop, InWindow, Cached, ContentInv, ChunkId, AskedOnce,
           AddToCache, Found
  <1>2. Loaded \subseteq Loaded'
    BY DEF ReadToCache, TypeOK, RequestsTypeOK, CacheTypeOK, WorkerTypeOK,
           HandOverInv, CallerInv, QueueInv, BatchInv, WantedInv, LoopInv, InQueue,
           InBatch, Wanted, InLoop, InWindow, Cached, ContentInv, ChunkId, Loaded,
           AddToCache, Found
  <1>3. LoadedSoon' = LoadedSoon
    BY DEF ReadToCache, TypeOK, RequestsTypeOK, CacheTypeOK, WorkerTypeOK,
           HandOverInv, CallerInv, QueueInv, BatchInv, WantedInv, LoopInv, InQueue,
           InBatch, Wanted, InLoop, InWindow, Cached, ContentInv, ChunkId, LoadedSoon,
           Loaded, AddToCache, Found
  <1>4. WindowsNest'
    BY <1>3
    DEF ReadToCache, TypeOK, RequestsTypeOK, CacheTypeOK, WorkerTypeOK, HandOverInv,
        CallerInv, QueueInv, BatchInv, WantedInv, LoopInv, InQueue, InBatch, Wanted,
        InLoop, InWindow, Cached, ContentInv, ChunkId, WindowsNest, AddToCache, Found
  <1>5. TailLoaded'
    <2>1. from' = from + 1 /\ offset' = offset + 1 /\ from \in Nat /\ offset \in Nat
      BY DEF ReadToCache, AddToCache, Found, HandOverInv, TypeOK, WorkerTypeOK
    <2>2. \A d \in ChunkId : d # from => (d \in Loaded' <=> d \in Loaded)
      <3>1. \A d \in ChunkId : d # from => m_cache'[d] = m_cache[d]
        BY DEF ReadToCache, AddToCache, Found, HandOverInv, TypeOK, CacheTypeOK
      <3> QED BY <3>1 DEF ReadToCache, AddToCache, Found, Loaded, Cached
    <2>3. UNCHANGED last_preload /\ InWindow
      BY DEF ReadToCache, AddToCache, Found, InWindow
    <2> QED
      BY <2>1, <2>2, <2>3 DEF ContentInv, TailLoaded, ChunkId
  <1>6. CacheRight'
    <2>1. from \in ChunkId /\ from <= last_preload /\ ~Cached(from) /\ InWindow /\ offset \in ChunkId
      BY DEF ReadToCache, AddToCache, Found, HandOverInv, LoopInv, InLoop, InWindow,
             TypeOK, WorkerTypeOK, ChunkId
    <2>2. offset = from \/ \E r \in Request : m_id[r] = from /\ r \in m_send
      BY <2>1 DEF ContentInv, TailLoaded, Loaded, ChunkId
    <2>3. m_cache'[from] = offset /\ \A c \in ChunkId \ {from} : m_cache'[c] = m_cache[c]
      BY <2>1 DEF ReadToCache, AddToCache, Found, HandOverInv, TypeOK, CacheTypeOK
    <2> QED
      BY <2>2, <2>3 DEF ReadToCache, AddToCache, Found, ContentInv, CacheRight, Cached
  <1>7. ReadsAreRight'
    BY DEF ReadToCache, TypeOK, RequestsTypeOK, CacheTypeOK, WorkerTypeOK,
           HandOverInv, CallerInv, QueueInv, BatchInv, WantedInv, LoopInv, InQueue,
           InBatch, Wanted, InLoop, InWindow, Cached, ContentInv, ChunkId,
           ReadsAreRight, CacheRight, AskedOnce, TailLoaded, Loaded, AddToCache,
           Found
  <1>8. Kept'
    BY DEF ReadToCache, TypeOK, RequestsTypeOK, CacheTypeOK, WorkerTypeOK,
           HandOverInv, CallerInv, QueueInv, BatchInv, WantedInv, LoopInv, InQueue,
           InBatch, Wanted, InLoop, InWindow, Cached, ContentInv, ChunkId, Kept,
           AskedOnce, AddToCache, Found
  <1> QED BY <1>1, <1>4, <1>5, <1>6, <1>7, <1>8 DEF ContentInv

LEMMA ReadToRequestContent ==
  ASSUME HandOverInv, HandOverInv', ContentInv, ReadToRequest
  PROVE  ContentInv'
  <1>1. AskedOnce'
    BY DEF ReadToRequest, TypeOK, RequestsTypeOK, CacheTypeOK, WorkerTypeOK,
           HandOverInv, CallerInv, QueueInv, BatchInv, WantedInv, LoopInv, InQueue,
           InBatch, Wanted, InLoop, InWindow, Cached, ContentInv, ChunkId, AskedOnce,
           SetData, Found
  <1>2. Loaded \subseteq Loaded'
    BY DEF ReadToRequest, TypeOK, RequestsTypeOK, CacheTypeOK, WorkerTypeOK,
           HandOverInv, CallerInv, QueueInv, BatchInv, WantedInv, LoopInv, InQueue,
           InBatch, Wanted, InLoop, InWindow, Cached, ContentInv, ChunkId, Loaded,
           SetData, Found
  <1>3. LoadedSoon' = LoadedSoon
    BY DEF ReadToRequest, TypeOK, RequestsTypeOK, CacheTypeOK, WorkerTypeOK,
           HandOverInv, CallerInv, QueueInv, BatchInv, WantedInv, LoopInv, InQueue,
           InBatch, Wanted, InLoop, InWindow, Cached, ContentInv, ChunkId, LoadedSoon,
           Loaded, SetData, Found
  <1>4. WindowsNest'
    BY <1>3
    DEF ReadToRequest, TypeOK, RequestsTypeOK, CacheTypeOK, WorkerTypeOK, HandOverInv,
        CallerInv, QueueInv, BatchInv, WantedInv, LoopInv, InQueue, InBatch, Wanted,
        InLoop, InWindow, Cached, ContentInv, ChunkId, WindowsNest, SetData, Found
  <1>5. TailLoaded'
    BY DEF ReadToRequest, TypeOK, RequestsTypeOK, CacheTypeOK, WorkerTypeOK,
           HandOverInv, CallerInv, QueueInv, BatchInv, WantedInv, LoopInv, InQueue,
           InBatch, Wanted, InLoop, InWindow, Cached, ContentInv, ChunkId, TailLoaded,
           Loaded, SetData, Found
  <1>6. CacheRight'
    BY DEF ReadToRequest, TypeOK, RequestsTypeOK, CacheTypeOK, WorkerTypeOK,
           HandOverInv, CallerInv, QueueInv, BatchInv, WantedInv, LoopInv, InQueue,
           InBatch, Wanted, InLoop, InWindow, Cached, ContentInv, ChunkId, CacheRight,
           Loaded, AskedOnce, SetData, Found
  <1>7. ReadsAreRight'
    BY DEF ReadToRequest, TypeOK, RequestsTypeOK, CacheTypeOK, WorkerTypeOK,
           HandOverInv, CallerInv, QueueInv, BatchInv, WantedInv, LoopInv, InQueue,
           InBatch, Wanted, InLoop, InWindow, Cached, ContentInv, ChunkId,
           ReadsAreRight, CacheRight, AskedOnce, TailLoaded, Loaded, SetData, Found
  <1>8. Kept'
    BY DEF ReadToRequest, TypeOK, RequestsTypeOK, CacheTypeOK, WorkerTypeOK,
           HandOverInv, CallerInv, QueueInv, BatchInv, WantedInv, LoopInv, InQueue,
           InBatch, Wanted, InLoop, InWindow, Cached, ContentInv, ChunkId, Kept,
           AskedOnce, SetData, Found
  <1> QED BY <1>1, <1>4, <1>5, <1>6, <1>7, <1>8 DEF ContentInv

LEMMA PreloadEndContent ==
  ASSUME HandOverInv, HandOverInv', ContentInv, PreloadEnd
  PROVE  ContentInv'
  <1>1. UNCHANGED <<dcp, m_id, m_chunk, m_send, m_cache>>
    BY DEF PreloadEnd
  <1>2. LoadedSoon' = LoadedSoon
    BY <1>1
    DEF PreloadEnd, LoadedSoon, Loaded, InWindow, Cached, HandOverInv, ChunkId,
        ContentInv, TypeOK, WorkerTypeOK, LoopInv
  <1>3. TailLoaded'
    BY <1>1 DEF PreloadEnd, ContentInv, TailLoaded, Loaded, InWindow, Cached
  <1>4. Kept'
    BY <1>1 DEF PreloadEnd, ContentInv, Kept, InQueue, InBatch
  <1> QED BY <1>1, <1>2, <1>3, <1>4, ContentFrame

LEMMA WorkerServeContent ==
  ASSUME HandOverInv, HandOverInv', ContentInv, WorkerServe
  PROVE  ContentInv'
  <1>1. AskedOnce'
    BY DEF WorkerServe, TypeOK, RequestsTypeOK, CacheTypeOK, WorkerTypeOK,
           HandOverInv, CallerInv, QueueInv, BatchInv, WantedInv, LoopInv, InQueue,
           InBatch, Wanted, InLoop, InWindow, Cached, ContentInv, ChunkId, AskedOnce,
           SetData, TakeFromCache
  <1>2. Loaded \subseteq Loaded'
    BY DEF WorkerServe, TypeOK, RequestsTypeOK, CacheTypeOK, WorkerTypeOK,
           HandOverInv, CallerInv, QueueInv, BatchInv, WantedInv, LoopInv, InQueue,
           InBatch, Wanted, InLoop, InWindow, Cached, ContentInv, ChunkId, Loaded,
           SetData, TakeFromCache
  <1>3. LoadedSoon' = LoadedSoon
    BY DEF WorkerServe, TypeOK, RequestsTypeOK, CacheTypeOK, WorkerTypeOK,
           HandOverInv, CallerInv, QueueInv, BatchInv, WantedInv, LoopInv, InQueue,
           InBatch, Wanted, InLoop, InWindow, Cached, ContentInv, ChunkId, LoadedSoon,
           Loaded, SetData, TakeFromCache
  <1>4. WindowsNest'
    BY <1>3
    DEF WorkerServe, TypeOK, RequestsTypeOK, CacheTypeOK, WorkerTypeOK, HandOverInv,
        CallerInv, QueueInv, BatchInv, WantedInv, LoopInv, InQueue, InBatch, Wanted,
        InLoop, InWindow, Cached, ContentInv, ChunkId, WindowsNest, SetData,
        TakeFromCache
  <1>5. TailLoaded'
    BY DEF WorkerServe, TypeOK, RequestsTypeOK, CacheTypeOK, WorkerTypeOK,
           HandOverInv, CallerInv, QueueInv, BatchInv, WantedInv, LoopInv, InQueue,
           InBatch, Wanted, InLoop, InWindow, Cached, ContentInv, ChunkId, TailLoaded,
           Loaded, SetData, TakeFromCache
  <1>6. CacheRight'
    BY DEF WorkerServe, TypeOK, RequestsTypeOK, CacheTypeOK, WorkerTypeOK,
           HandOverInv, CallerInv, QueueInv, BatchInv, WantedInv, LoopInv, InQueue,
           InBatch, Wanted, InLoop, InWindow, Cached, ContentInv, ChunkId, CacheRight,
           Loaded, AskedOnce, SetData, TakeFromCache
  <1>7. ReadsAreRight'
    BY DEF WorkerServe, TypeOK, RequestsTypeOK, CacheTypeOK, WorkerTypeOK,
           HandOverInv, CallerInv, QueueInv, BatchInv, WantedInv, LoopInv, InQueue,
           InBatch, Wanted, InLoop, InWindow, Cached, ContentInv, ChunkId,
           ReadsAreRight, CacheRight, AskedOnce, TailLoaded, Loaded, SetData,
           TakeFromCache
  <1>8. Kept'
    BY DEF WorkerServe, TypeOK, RequestsTypeOK, CacheTypeOK, WorkerTypeOK,
           HandOverInv, CallerInv, QueueInv, BatchInv, WantedInv, LoopInv, InQueue,
           InBatch, Wanted, InLoop, InWindow, Cached, ContentInv, ChunkId, Kept,
           AskedOnce, SetData, TakeFromCache
  <1> QED BY <1>1, <1>4, <1>5, <1>6, <1>7, <1>8 DEF ContentInv

LEMMA ContentInit == Init => ContentInv
  <1> SUFFICES ASSUME Init PROVE ContentInv
    OBVIOUS
  <1>1. AskedOnce /\ ReadsAreRight /\ Kept
    BY DEF Init, AskedOnce, ReadsAreRight, Kept
  <1>2. WindowsNest /\ TailLoaded /\ CacheRight
    BY DEF Init, WindowsNest, TailLoaded, CacheRight, LoadedSoon, Loaded, InWindow,
           Cached
  <1> QED BY <1>1, <1>2 DEF ContentInv

LEMMA ContentNext ==
  ASSUME ~RepeatReads
  PROVE  HandOverInv /\ HandOverInv' /\ ContentInv /\ [Next]_vars => ContentInv'
  <1> SUFFICES ASSUME HandOverInv, HandOverInv', ContentInv, [Next]_vars PROVE ContentInv'
    OBVIOUS
  <1>0. CASE UNCHANGED vars
    BY <1>0
    DEF vars, ContentInv, AskedOnce, WindowsNest, TailLoaded, CacheRight,
        ReadsAreRight, Kept, LoadedSoon, Loaded, InWindow, InQueue, InBatch, Cached
  <1>1. CASE Start
    BY <1>1, StartContent
  <1>2. CASE Stop
    BY <1>2, StopContent
  <1>3. CASE Join
    BY <1>3, JoinContent
  <1>4. CASE \E r \in Request, c \in ChunkId : Call(r, c)
    BY <1>4, CallContent
  <1>5. CASE \E r \in Request : Lookup(r)
    BY <1>5, LookupContent
  <1>6. CASE \E r \in Request : Enqueue(r)
    BY <1>6, EnqueueContent
  <1>7. CASE \E r \in Request : ReadData(r)
    BY <1>7, ReadDataContent
  <1>8. CASE WorkerLoop
    BY <1>8, WorkerLoopContent
  <1>9. CASE WorkerWait
    BY <1>9, WorkerWaitContent
  <1>10. CASE WorkerTake
    BY <1>10, WorkerTakeContent
  <1>11. CASE WorkerHit
    BY <1>11, WorkerHitContent
  <1>12. CASE \E c \in ChunkId : WorkerItem(c)
    BY <1>12, WorkerItemContent
  <1>13. CASE WorkerBatchEnd
    BY <1>13, WorkerBatchEndContent
  <1>14. CASE PreloadSkip
    BY <1>14, PreloadSkipContent
  <1>15. CASE PreloadMiss
    BY <1>15, PreloadMissContent
  <1>16. CASE ReadToCache
    BY <1>16, ReadToCacheContent
  <1>17. CASE ReadToRequest
    BY <1>17, ReadToRequestContent
  <1>18. CASE PreloadEnd
    BY <1>18, PreloadEndContent
  <1>19. CASE WorkerServe
    BY <1>19, WorkerServeContent
  <1> QED
    BY <1>0, <1>1, <1>2, <1>3, <1>4, <1>5, <1>6, <1>7, <1>8, <1>9, <1>10, <1>11,
       <1>12, <1>13, <1>14, <1>15, <1>16, <1>17, <1>18, <1>19
    DEF Next, Caller, Worker

LEMMA Content ==
  ASSUME ~RepeatReads
  PROVE  Spec => []ContentInv
  BY ContentInit, ContentNext, HandOver, PTL DEF Spec

(* When no chunk is asked for twice, no call ever returns the bytes of     *)
(* another chunk, although preload (lines 237-258) falls out of step with  *)
(* the file whenever it meets a cached chunk.                              *)
THEOREM ReadsAreRightCorrect ==
  ASSUME ~RepeatReads
  PROVE  Spec => []ReadsAreRight
  <1>1. ContentInv => ReadsAreRight
    BY DEF ContentInv
  <1> QED BY <1>1, Content, PTL

(* When no chunk is asked for twice, the worker never loses a request.     *)
THEOREM NoLostRequestCorrect ==
  ASSUME ~RepeatReads
  PROVE  Spec => []NoLostRequest
  <1>1. HandOverInv /\ ContentInv => NoLostRequest
    <2> SUFFICES ASSUME HandOverInv, ContentInv, NEW r \in Request,
                        pc[r] = "read", r \notin m_send, ~InQueue(r), ~InBatch(r)
                 PROVE  /\ to_read[m_id[r]] = r
                        /\ \/ m_id[r] > item
                           \/ wpc \in {"preload", "read"} /\ m_id[r] >= from
      BY DEF NoLostRequest, InQueue, InBatch
    <2>1. to_read[m_id[r]] = r /\ m_id[r] \in ChunkId
      BY DEF ContentInv, Kept, HandOverInv, CallerInv, TypeOK, RequestsTypeOK
    <2>2. Wanted(m_id[r]) /\ InLoop
      BY <2>1 DEF HandOverInv, WantedInv, Wanted
    <2> QED
      BY <2>1, <2>2
      DEF HandOverInv, LoopInv, InLoop, InWindow, TypeOK, WorkerTypeOK, ChunkId
  <1> QED BY <1>1, HandOver, Content, PTL

(* When no chunk is asked for twice, the cache implements the service its  *)
(* callers rely on: every step is a step of ChunkService, or none of it.   *)
THEOREM ImplementsChunkServiceSteps ==
  ASSUME ~RepeatReads
  PROVE  Spec => Service!Init /\ [][Service!Next]_(Service!vars)
  <1>1. Init => Service!Init
    BY DEF Init, Service!Init
  <1>2. HandOverInv /\ ContentInv /\ [Next]_vars => [Service!Next]_(Service!vars)
    <2> SUFFICES ASSUME HandOverInv, ContentInv, [Next]_vars
                 PROVE  [Service!Next]_(Service!vars)
      OBVIOUS
    <2>1. CASE \E r \in Request, c \in ChunkId : Call(r, c)
      <3>1. PICK r \in Request, c \in ChunkId : Call(r, c)
        BY <2>1
      <3>2. Service!Ask(r, c)
        BY <3>1 DEF Call, Service!Ask, HandOverInv, CallerInv
      <3> QED BY <3>2 DEF Service!Next, Service!ChunkId, ChunkId
    <2>2. CASE \E r \in Request : ReadData(r)
      <3>1. PICK r \in Request : ReadData(r)
        BY <2>2
      <3>2. m_chunk[r] = m_id[r] /\ m_id[r] # NoChunk /\ dcp[r] = NoChunk
        BY <3>1 DEF ReadData, HandOverInv, CallerInv, ContentInv, ReadsAreRight
      <3>3. Service!Answer(r)
        BY <3>1, <3>2 DEF ReadData, Service!Answer
      <3> QED BY <3>3 DEF Service!Next
    <2>3. \/ \E r \in Request : ReadData(r) \/ \E c \in ChunkId : Call(r, c)
          \/ UNCHANGED <<m_id, dcp>>
      BY DEF Next, Caller, Worker, Start, Stop, Join, Lookup, Enqueue, WorkerLoop,
             WorkerWait, WorkerTake, WorkerHit, WorkerItem, WorkerBatchEnd,
             PreloadSkip, PreloadMiss, ReadToCache, ReadToRequest, PreloadEnd,
             WorkerServe, vars
    <2> QED BY <2>1, <2>2, <2>3 DEF Service!vars
  <1> QED BY <1>1, <1>2, HandOver, Content, PTL DEF Spec

-----------------------------------------------------------------------------
(* The worker's rounds.  That a call that was made is answered is liveness *)
(* (ImplementsChunkService).  What it rests on are facts about steps and   *)
(* states: the worker does not sleep while somebody is blocked, it takes   *)
(* the whole queue when a round begins, every round ends, and leaves no    *)
(* request of its batch unanswered.                                        *)

RoundStage ==
  CASE wpc \in {"none", "hit"} -> 0
    [] InLoop                  -> 1
    [] wpc = "loop"            -> 2
    [] wpc = "take"            -> 3
    [] wpc = "wait"            -> 4
    [] OTHER                   -> 5

(* Where the worker is with an item and its window. *)
WindowStage ==
  CASE wpc = "preload" -> 2 * from
    [] wpc = "read"    -> 2 * from + 1
    [] wpc = "serve"   -> 2 * NumberOfChunks + 2
    [] OTHER           -> 2 * NumberOfChunks + 3

(* The worker goes on: in the round, to a later item, in the window of one. *)
GoesOn ==
  \/ RoundStage < RoundStage'
  \/ RoundStage = RoundStage' /\ item < item'
  \/ RoundStage = RoundStage' /\ item = item' /\ WindowStage < WindowStage'

RoundsEnd ==
  [][\/ WorkerTake
     \/ GoesOn
     \/ ~Worker /\ UNCHANGED <<RoundStage, item, WindowStage>>]_vars

StagesAreBounded ==
  /\ RoundStage \in 0 .. 5
  /\ item \in -1 .. NumberOfChunks - 1
  /\ WindowStage \in 0 .. 2 * NumberOfChunks + 3

Blocked(r) == pc[r] = "read" /\ r \notin m_send

WorkerIsAwake ==
  (\E r \in Request : Blocked(r)) =>
    wpc \notin {"none", "ended"} /\ (wpc = "wait" => m_signaled)

RoundsLeaveNobody ==
  wpc \in {"loop", "take", "wait"} => \A r \in Request : Blocked(r) => InQueue(r)

(* The definitions as a table, in this state and in the next. *)
RoundTable ==
  /\ wpc \in {"none", "hit"} => RoundStage = 0
  /\ InLoop => RoundStage = 1
  /\ wpc = "loop" => RoundStage = 2
  /\ wpc = "take" => RoundStage = 3
  /\ wpc = "wait" => RoundStage = 4
  /\ wpc = "ended" => RoundStage = 5
  /\ wpc = "preload" => WindowStage = 2 * from
  /\ wpc = "read" => WindowStage = 2 * from + 1
  /\ wpc = "serve" => WindowStage = 2 * NumberOfChunks + 2
  /\ wpc = "next" => WindowStage = 2 * NumberOfChunks + 3

LEMMA RoundIs == RoundTable
  <1>1. /\ wpc \in {"none", "hit"} => RoundStage = 0
        /\ wpc = "loop" => RoundStage = 2
        /\ wpc = "take" => RoundStage = 3
        /\ wpc = "wait" => RoundStage = 4
        /\ wpc = "ended" => RoundStage = 5
    BY DEF RoundStage, InLoop
  <1>2. InLoop => RoundStage = 1
    BY DEF RoundStage, InLoop
  <1>3. wpc = "preload" => WindowStage = 2 * from
    BY DEF WindowStage
  <1>4. wpc = "read" => WindowStage = 2 * from + 1
    BY DEF WindowStage
  <1>5. wpc = "serve" => WindowStage = 2 * NumberOfChunks + 2
    BY DEF WindowStage
  <1>6. wpc = "next" => WindowStage = 2 * NumberOfChunks + 3
    BY DEF WindowStage
  <1> QED BY <1>1, <1>2, <1>3, <1>4, <1>5, <1>6 DEF RoundTable

LEMMA RoundIsNext == RoundTable'
  BY RoundIs, PTL

LEMMA WorkerGoesOn ==
  ASSUME HandOverInv, HandOverInv', Worker
  PROVE  WorkerTake \/ GoesOn
  <1>0. /\ from \in 0 .. NumberOfChunks /\ from' \in 0 .. NumberOfChunks
        /\ item \in ChunkId \cup {-1} /\ item' \in ChunkId \cup {-1}
    BY DEF HandOverInv, TypeOK, WorkerTypeOK
  <1>1. CASE WorkerLoop
    <2>1. wpc = "loop" /\ wpc' \in {"take", "ended"}
      BY <1>1 DEF WorkerLoop
    <2>2. RoundStage = 2
      BY <2>1, RoundIs DEF RoundTable
    <2>3. RoundStage' \in {3, 5}
      BY <2>1, RoundIsNext DEF RoundTable
    <2> QED BY <2>2, <2>3 DEF GoesOn
  <1>2. CASE WorkerWait
    <2>1. RoundStage = 3
      BY <1>2, RoundIs DEF RoundTable, WorkerWait
    <2>2. RoundStage' = 4
      BY <1>2, RoundIsNext DEF RoundTable, WorkerWait
    <2> QED BY <2>1, <2>2 DEF GoesOn
  <1>3. CASE WorkerHit
    <2>1. RoundStage = 0
      BY <1>3, RoundIs DEF RoundTable, WorkerHit
    <2>2. RoundStage' = 1
      BY <1>3, RoundIsNext DEF RoundTable, WorkerHit, InLoop
    <2> QED BY <2>1, <2>2 DEF GoesOn
  <1>4. CASE \E c \in ChunkId : WorkerItem(c)
    <2>1. PICK c \in ChunkId : WorkerItem(c)
      BY <1>4
    <2>2. item < item'
      BY <2>1 DEF WorkerItem, ItemsLeft
    <2>3. RoundStage = 1
      BY <2>1, RoundIs DEF RoundTable, WorkerItem, InLoop
    <2>4. InLoop'
      BY <2>1 DEF WorkerItem, InLoop
    <2>5. RoundStage' = 1
      BY <2>4, RoundIsNext DEF RoundTable
    <2> QED BY <2>2, <2>3, <2>5 DEF GoesOn
  <1>5. CASE WorkerBatchEnd
    <2>1. RoundStage = 1
      BY <1>5, RoundIs DEF RoundTable, WorkerBatchEnd, InLoop
    <2>2. RoundStage' = 2
      BY <1>5, RoundIsNext DEF RoundTable, WorkerBatchEnd
    <2> QED BY <2>1, <2>2 DEF GoesOn
  <1>6. ASSUME InLoop, InLoop', item' = item, WindowStage < WindowStage'
        PROVE  GoesOn
    <2>1. RoundStage = 1
      BY <1>6, RoundIs DEF RoundTable
    <2>2. RoundStage' = 1
      BY <1>6, RoundIsNext DEF RoundTable
    <2> QED BY <1>6, <2>1, <2>2 DEF GoesOn
  <1>7. CASE PreloadSkip \/ PreloadMiss
    <2>1. /\ wpc = "preload" /\ wpc' \in {"preload", "read"} /\ item' = item
          /\ wpc' = "preload" => from' = from + 1
          /\ wpc' = "read" => from' = from
      BY <1>7 DEF PreloadSkip, PreloadMiss, window_vars
    <2>2. WindowStage = 2 * from
      BY <2>1, RoundIs DEF RoundTable
    <2>3. wpc' = "preload" => WindowStage' = 2 * from'
      BY RoundIsNext DEF RoundTable
    <2>4. wpc' = "read" => WindowStage' = 2 * from' + 1
      BY RoundIsNext DEF RoundTable
    <2>5. WindowStage < WindowStage'
      BY <1>0, <2>1, <2>2, <2>3, <2>4
    <2> QED BY <1>6, <2>1, <2>5 DEF InLoop
  <1>8. CASE ReadToCache \/ ReadToRequest
    <2>1. wpc = "read" /\ wpc' = "preload" /\ item' = item /\ from' = from + 1
      BY <1>8 DEF ReadToCache, ReadToRequest
    <2>2. WindowStage = 2 * from + 1
      BY <2>1, RoundIs DEF RoundTable
    <2>3. WindowStage' = 2 * from'
      BY <2>1, RoundIsNext DEF RoundTable
    <2>4. WindowStage < WindowStage'
      BY <1>0, <2>1, <2>2, <2>3
    <2> QED BY <1>6, <2>1, <2>4 DEF InLoop
  <1>9. CASE PreloadEnd
    <2>1. wpc = "preload" /\ wpc' = "serve" /\ item' = item
      BY <1>9 DEF PreloadEnd, window_vars
    <2>2. WindowStage = 2 * from
      BY <2>1, RoundIs DEF RoundTable
    <2>3. WindowStage' = 2 * NumberOfChunks + 2
      BY <2>1, RoundIsNext DEF RoundTable
    <2>4. WindowStage < WindowStage'
      BY <1>0, <2>2, <2>3
    <2> QED BY <1>6, <2>1, <2>4 DEF InLoop
  <1>10. CASE WorkerServe
    <2>1. wpc = "serve" /\ wpc' = "next" /\ item' = item
      BY <1>10 DEF WorkerServe, window_vars
    <2>2. WindowStage = 2 * NumberOfChunks + 2
      BY <2>1, RoundIs DEF RoundTable
    <2>3. WindowStage' = 2 * NumberOfChunks + 3
      BY <2>1, RoundIsNext DEF RoundTable
    <2>4. WindowStage < WindowStage'
      BY <2>2, <2>3
    <2> QED BY <1>6, <2>1, <2>4 DEF InLoop
  <1> QED
    BY <1>1, <1>2, <1>3, <1>4, <1>5, <1>7, <1>8, <1>9, <1>10 DEF Worker

(* Whatever is asked for, and whoever calls meanwhile, the worker only     *)
(* goes forward between two looks at the queue: from the hits to the       *)
(* items in their order, through the window of an item, and back to the    *)
(* queue.                                                                  *)
THEOREM RoundsEndCorrect == Spec => RoundsEnd
  <1>1. ASSUME HandOverInv, [Next]_vars, ~UNCHANGED vars
        PROVE  \/ WorkerTake
               \/ GoesOn
               \/ ~Worker /\ UNCHANGED <<RoundStage, item, WindowStage>>
    <2>0. HandOverInv' /\ Next
      BY <1>1, HandOverNext
    <2>1. CASE Worker
      BY <1>1, <2>0, <2>1, WorkerGoesOn
    <2>2. CASE ~Worker /\ Start
      <3>1. RoundStage = 0
        BY <1>1, <2>2, RoundIs DEF RoundTable, Start, HandOverInv, CallerInv
      <3>2. RoundStage' = 2
        BY <2>2, RoundIsNext DEF RoundTable, Start
      <3> QED BY <3>1, <3>2 DEF GoesOn
    <2>3. CASE ~Worker /\ ~Start
      <3>1. UNCHANGED <<wpc, window_vars>>
        BY <2>0, <2>3 DEF Next, Caller, Stop, Join, Call, Lookup, Enqueue, ReadData
      <3> QED BY <2>3, <3>1 DEF RoundStage, WindowStage, InLoop, window_vars
    <2> QED BY <2>1, <2>2, <2>3
  <1>2. HandOverInv /\ [Next]_vars =>
          [\/ WorkerTake
           \/ GoesOn
           \/ ~Worker /\ UNCHANGED <<RoundStage, item, WindowStage>>]_vars
    BY <1>1
  <1> QED BY <1>2, HandOver, PTL DEF Spec, RoundsEnd

(* There is only so far to go: with RoundsEnd, every round ends, after a   *)
(* number of steps that the size of the file bounds.                       *)
THEOREM StagesAreBoundedCorrect == Spec => []StagesAreBounded
  <1>1. HandOverInv => StagesAreBounded
    <2> SUFFICES ASSUME HandOverInv PROVE StagesAreBounded
      OBVIOUS
    <2>1. RoundStage \in 0 .. 5
      BY DEF RoundStage
    <2>2. item \in -1 .. NumberOfChunks - 1
      BY DEF HandOverInv, TypeOK, WorkerTypeOK, ChunkId
    <2>3. WindowStage \in 0 .. 2 * NumberOfChunks + 3
      <3>1. from \in 0 .. NumberOfChunks
        BY DEF HandOverInv, TypeOK, WorkerTypeOK
      <3> QED BY <3>1 DEF WindowStage
    <2> QED BY <2>1, <2>2, <2>3 DEF StagesAreBounded
  <1> QED BY <1>1, HandOver, PTL

-----------------------------------------------------------------------------
(* Who is blocked has woken the worker, and the cache is open meanwhile. *)
AwakeInv ==
  /\ \A r \in Request : pc[r] \notin {"idle", "done"} => owner = "open"
  /\ owner = "open" => m_is_running /\ wpc # "none"
  /\ wpc = "ended" => ~m_is_running
  /\ \A r \in Request : Blocked(r) => m_signaled

LEMMA AwakeNext ==
  ASSUME HandOverInv, AwakeInv, [Next]_vars
  PROVE  AwakeInv'
  <1> USE DEF AwakeInv, Blocked
  <1>1. CASE Start
    <2>1. \A r \in Request : pc[r] \in {"idle", "done"}
      BY <1>1 DEF Start
    <2> QED BY <1>1, <2>1 DEF Start
  <1>2. CASE Stop \/ Join
    BY <1>2 DEF Stop, Join
  <1>3. ASSUME NEW r \in Request, NEW c \in ChunkId, Call(r, c) PROVE AwakeInv'
    <2>1. /\ owner = "open" /\ UNCHANGED <<owner, m_is_running, wpc, m_send, m_signaled>>
          /\ pc'[r] = "lookup" /\ \A q \in Request : q # r => pc'[q] = pc[q]
      BY <1>3 DEF Call, HandOverInv, TypeOK, RequestsTypeOK
    <2> QED BY <2>1
  <1>4. ASSUME NEW r \in Request, Lookup(r) PROVE AwakeInv'
    <2>1. /\ pc[r] = "lookup" /\ UNCHANGED <<owner, m_is_running, wpc, m_signaled>>
          /\ \A q \in Request : q # r => pc'[q] = pc[q]
          /\ m_send \subseteq m_send'
          /\ pc'[r] = "read" => r \in m_send'
      BY <1>4 DEF Lookup, TakeFromCache, SetData, HandOverInv, TypeOK, RequestsTypeOK
    <2> QED BY <2>1
  <1>5. ASSUME NEW r \in Request, Enqueue(r) PROVE AwakeInv'
    <2>1. /\ pc[r] = "enqueue" /\ UNCHANGED <<owner, m_is_running, wpc>> /\ m_signaled'
          /\ \A q \in Request : q # r => pc'[q] = pc[q]
      BY <1>5 DEF Enqueue, HandOverInv, TypeOK, RequestsTypeOK
    <2> QED BY <2>1
  <1>6. ASSUME NEW r \in Request, ReadData(r) PROVE AwakeInv'
    <2>1. /\ pc'[r] = "done" /\ UNCHANGED <<owner, m_is_running, wpc, m_signaled, m_send>>
          /\ \A q \in Request : q # r => pc'[q] = pc[q]
      BY <1>6 DEF ReadData, HandOverInv, TypeOK, RequestsTypeOK
    <2> QED BY <2>1
  <1>7. CASE Worker
    <2>1. UNCHANGED <<owner, pc, m_is_running, m_signaled>> /\ m_send \subseteq m_send'
      BY <1>7
      DEF Worker, WorkerLoop, WorkerWait, WorkerTake, WorkerHit, WorkerItem,
          WorkerBatchEnd, PreloadSkip, PreloadMiss, ReadToCache, ReadToRequest,
          PreloadEnd, WorkerServe, TakeFromCache, SetData
    <2>2. wpc' # "none" /\ (wpc' = "ended" => ~m_is_running)
      BY <1>7
      DEF Worker, WorkerLoop, WorkerWait, WorkerTake, WorkerHit, WorkerItem,
          WorkerBatchEnd, PreloadSkip, PreloadMiss, ReadToCache, ReadToRequest,
          PreloadEnd, WorkerServe
    <2> QED BY <2>1, <2>2
  <1>8. CASE UNCHANGED vars
    BY <1>8 DEF vars
  <1> QED
    BY <1>1, <1>2, <1>3, <1>4, <1>5, <1>6, <1>7, <1>8 DEF Next, Caller

(* While a call is blocked in read_data, the worker runs, and if it waits  *)
(* for m_cache_event the event has been signalled: no wakeup is lost,      *)
(* whatever chunks are asked for.                                          *)
THEOREM WorkerIsAwakeCorrect == Spec => []WorkerIsAwake
  <1>1. Init => AwakeInv
    BY DEF Init, AwakeInv, Blocked
  <1>2. HandOverInv /\ AwakeInv /\ [Next]_vars => AwakeInv'
    BY AwakeNext
  <1>3. AwakeInv => WorkerIsAwake
    BY DEF AwakeInv, WorkerIsAwake, Blocked
  <1> QED BY <1>1, <1>2, <1>3, HandOver, PTL DEF Spec

(* When no chunk is asked for twice, a call that is still blocked between  *)
(* two rounds has its request in the queue, all of which the next round    *)
(* takes: a call waits for two rounds at most.                             *)
THEOREM RoundsLeaveNobodyCorrect ==
  ASSUME ~RepeatReads
  PROVE  Spec => []RoundsLeaveNobody
  <1>1. HandOverInv /\ ContentInv => RoundsLeaveNobody
    <2> SUFFICES ASSUME HandOverInv, ContentInv, wpc \in {"loop", "take", "wait"},
                        NEW r \in Request, Blocked(r)
                 PROVE  InQueue(r)
      BY DEF RoundsLeaveNobody
    <2>1. ~InBatch(r)
      BY DEF HandOverInv, BatchInv, InBatch
    <2>2. ~InLoop /\ m_id[r] \in ChunkId
      BY DEF InLoop, Blocked, HandOverInv, CallerInv, TypeOK, RequestsTypeOK
    <2>3. to_read[m_id[r]] # r
      BY <2>2 DEF HandOverInv, WantedInv, Wanted
    <2> QED BY <2>1, <2>3 DEF ContentInv, Kept, Blocked
  <1> QED BY <1>1, HandOver, Content, PTL
=============================================================================
