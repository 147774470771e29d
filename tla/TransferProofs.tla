--------------------------- MODULE TransferProofs ---------------------------
(***************************************************************************)
(* The safety of Transfer for any number of chunks and loaders, whatever   *)
(* fails.  The loaders divide the chunks by their remainder; that they     *)
(* never meet is arithmetic (the first lemmas), that a loader does not     *)
(* meet itself is the protocol: it asks for a chunk only when it has the   *)
(* one before.                                                             *)
(***************************************************************************)
EXTENDS Transfer, TLAPS

(* Chunk c is in the share of loader t. *)
Of(t, c) == c % NumberOfLoaders = t

(* Every chunk is in one share. *)
LEMMA OneShare ==
  ASSUME NEW c \in Nat
  PROVE  c % NumberOfLoaders \in Loader
  BY TransferAssumption DEF Loader

(* A loader begins with the first of its share ... *)
LEMMA FirstOfShare ==
  ASSUME NEW t \in Loader
  PROVE  Of(t, t)
  BY TransferAssumption DEF Loader, Of

(* A chunk is in a share when it is a number of strides away. *)
LEMMA Strides ==
  ASSUME NEW t \in Loader, NEW c \in Nat
  PROVE  Of(t, c) <=> \E k \in Nat : c = NumberOfLoaders * k + t
<1> DEFINE n == NumberOfLoaders
<1>0. n \in Nat /\ n > 0 /\ t \in Nat /\ t < n
  BY TransferAssumption DEF Loader
<1>1. ASSUME NEW q, q = c \div n, NEW r, r = c % n
      PROVE  q \in Nat /\ r \in 0 .. n - 1 /\ c = n * q + r
  <2> HIDE DEF n
  <2>1. q \in Nat /\ r \in 0 .. n - 1
    BY <1>0, <1>1, SMT
  <2>2. c = n * q + r
    BY <1>0, <1>1, SMT
  <2> QED
    BY <2>1, <2>2
<1>2. ASSUME Of(t, c) PROVE \E k \in Nat : c = n * k + t
  <2>1. c \div n \in Nat /\ c = n * (c \div n) + t
    BY <1>1, <1>2 DEF Of
  <2> QED
    BY <2>1
<1>3. ASSUME NEW k \in Nat, c = n * k + t PROVE Of(t, c)
  <2> DEFINE q == c \div n
             r == c % n
  <2>1. q \in Nat /\ r \in 0 .. n - 1 /\ c = n * q + r
    BY <1>1
  <2> HIDE DEF q, r, n
  <2>2. n * (k - q) = r - t
    BY <1>0, <1>3, <2>1
  <2>3. /\ k - q >= 1 => n * (k - q) >= n
        /\ k - q <= -1 => n * (k - q) <= 0 - n
    BY <1>0, <2>1, SMT
  <2>4. k = q
    BY <1>0, <2>1, <2>2, <2>3
  <2>5. r = t
    BY <1>0, <2>1, <2>2, <2>4
  <2> QED
    BY <2>5 DEF r, Of, n
<1> QED
  BY <1>2, <1>3

(* ... goes on with the next one of it ... *)
LEMMA NextOfShare ==
  ASSUME NEW t \in Loader, NEW c \in Nat, Of(t, c)
  PROVE  NextChunk(c) \in Nat /\ NextChunk(c) > c /\ Of(t, NextChunk(c))
<1>1. PICK k \in Nat : c = NumberOfLoaders * k + t
  BY Strides
<1>2. k + 1 \in Nat /\ c + NumberOfLoaders \in Nat /\ NumberOfLoaders > 0
  BY TransferAssumption
<1>3. c + NumberOfLoaders = NumberOfLoaders * (k + 1) + t
  BY <1>1, TransferAssumption DEF Loader
<1>4. Of(t, c + NumberOfLoaders)
  BY <1>2, <1>3, Strides
<1>5. NextChunk(c) = c + NumberOfLoaders
  BY DEF NextChunk
<1>6. c + NumberOfLoaders \in Nat /\ c + NumberOfLoaders > c
  BY TransferAssumption
<1>7. Of(t, NextChunk(c))
  BY <1>4, <1>5
<1> QED
  BY <1>5, <1>6, <1>7, Zenon

(* ... and leaves none out. *)
LEMMA NoneBetween ==
  ASSUME NEW t \in Loader, NEW c \in Nat, NEW d \in Nat, Of(t, c), Of(t, d),
         c <= d, d < NextChunk(c)
  PROVE  d = c
<1>1. PICK j \in Nat, k \in Nat : /\ c = NumberOfLoaders * j + t
                                  /\ d = NumberOfLoaders * k + t
  BY Strides
<1>2. /\ k - j >= 1 => NumberOfLoaders * (k - j) >= NumberOfLoaders
      /\ k - j <= -1 => NumberOfLoaders * (k - j) <= 0 - NumberOfLoaders
  BY TransferAssumption, SMT
<1>3. NumberOfLoaders * (k - j) = d - c
  BY <1>1, TransferAssumption DEF Loader
<1> QED
  BY <1>1, <1>2, <1>3, TransferAssumption DEF NextChunk, Loader

(* Nobody else's share has it. *)
LEMMA NotShared ==
  ASSUME NEW t, NEW u, NEW c, Of(t, c), Of(u, c)
  PROVE  t = u
  BY DEF Of

-----------------------------------------------------------------------------
ShareOf(t) == {c \in ChunkId : Of(t, c)}

Phases ==
  /\ spc \in {"connect", "request", "spawn", "false"} => \A t \in Loader : lpc[t] = "none"
  /\ spc = "join" => \A t \in Loader : lpc[t] # "none"
  /\ \A t \in Loader : lpc[t] \notin {"send", "receive", "wait"} => t \notin up
  /\ spc = "true" =>
       /\ \A t \in Loader : Ended(t)
       /\ \A c \in ChunkId : posted[c] = NoData

(* Where a loader is in its share, and what it has delivered of it. *)
InItsShare(t) ==
  /\ Of(t, cid[t])
  /\ requests[t] = {c \in ShareOf(t) : c < cid[t]}
  /\ lpc[t] = "receive" => cid[t] < NumberOfChunks
  /\ lpc[t] \in {"wait", "done"} => cid[t] >= NumberOfChunks

Shares == \A t \in Loader : InItsShare(t)

(* What its connection and the handler of it hold, and what the cache was  *)
(* asked for of its share.                                                 *)
AsksItsNext(t) ==
  /\ lpc[t] \notin {"receive", "gave up"} => handling[t] = NoData /\ message[t] = NoMessage
  /\ lpc[t] = "gave up" => message[t] = NoMessage
  /\ handling[t] # NoData => message[t] = NoMessage /\ handling[t] = cid[t]
  /\ message[t] # NoMessage /\ message[t].type # "error" => message[t].chunk_id = cid[t]
  /\ \A c \in asked : Of(t, c) => c <= cid[t]
  /\ cid[t] \in asked =>
       /\ lpc[t] \in {"receive", "gave up"}
       /\ handling[t] = NoData
       /\ message[t] # NoMessage => message[t].type # "chunk_request"

Requests == \A t \in Loader : AsksItsNext(t)

(* The bytes that are on their way, delivered and written. *)
Carries(t) ==
  message[t] # NoMessage /\ message[t].type = "chunk_response" =>
    message[t].data = message[t].chunk_id

Contents ==
  /\ \A t \in Loader : Carries(t)
  /\ \A c \in ChunkId : posted[c] \in {c, NoData} /\ file[c] \in {c, NoData}

(* What was delivered is not lost before its loader gives up. *)
Delivered(t) ==
  /\ lpc[t] # "gave up" =>
       \A c \in requests[t] : posted[c] # NoData \/ file[c] # NoData
  /\ lpc[t] = "done" => \A c \in requests[t] : posted[c] = NoData

Deliveries == \A t \in Loader : Delivered(t)

IInv == TypeOK /\ Phases /\ Shares /\ Requests /\ Contents /\ Deliveries

-----------------------------------------------------------------------------
LEMMA MessageFields ==
  ASSUME NEW m \in Message
  PROVE  /\ m.type \in {"chunk_request", "chunk_response", "error"}
         /\ m.type # "error" => m.chunk_id \in ChunkId
         /\ m.type = "chunk_response" => m.data \in ChunkId
  BY DEF Message

LEMMA ChunksAreNumbers ==
  /\ ChunkId \subseteq Nat
  /\ \A c \in Nat : c \in ChunkId <=> c < NumberOfChunks
  /\ \A c \in ChunkId : c # NoData
  BY TransferAssumption DEF ChunkId

(* While a loader is at work, sync waits for it. *)
LEMMA SyncWaits ==
  ASSUME TypeOK, Phases, NEW t \in Loader,
         lpc[t] \in {"connect", "send", "receive", "wait"}
  PROVE  spc = "join"
  BY DEF TypeOK, Phases, Ended

USE DEF loader_vars, server_vars, link_vars, writer_vars

LEMMA InitInv == Init => IInv
<1> SUFFICES ASSUME Init PROVE IInv
  OBVIOUS
<1>1. TypeOK
  <2>1. \A t \in Loader : t \in Nat
    BY TransferAssumption DEF Loader
  <2> QED
    BY <2>1 DEF Init, TypeOK
<1>2. Phases
  BY DEF Init, Phases
<1>3. Shares
  <2> SUFFICES ASSUME NEW t \in Loader
               PROVE  Of(t, t) /\ {c \in ShareOf(t) : c < t} = {}
    BY DEF Init, Shares, InItsShare
  <2>1. Of(t, t)
    BY FirstOfShare
  <2>2. ASSUME NEW c \in ShareOf(t), c < t PROVE FALSE
    <3>1. c \in Nat /\ t \in Nat /\ t < NumberOfLoaders
      BY TransferAssumption DEF ShareOf, ChunkId, Loader
    <3>2. c % NumberOfLoaders = t
      BY DEF ShareOf, Of
    <3>3. c % NumberOfLoaders = c
      BY <2>2, <3>1, TransferAssumption, SMT
    <3> QED
      BY <2>2, <3>1, <3>2, <3>3
  <2> QED
    BY <2>1, <2>2
<1>4. Requests
  BY DEF Init, Requests, AsksItsNext
<1>5. Contents
  BY DEF Init, Contents, Carries
<1>6. Deliveries
  BY DEF Init, Deliveries, Delivered
<1> QED
  BY <1>1, <1>2, <1>3, <1>4, <1>5, <1>6 DEF IInv

-----------------------------------------------------------------------------
(* One lemma per action. *)

LEMMA SyncOpenKeeps ==
  ASSUME IInv, SyncOpen
  PROVE  IInv'
<1> USE DEF IInv
<1>1. TypeOK'
  BY TransferAssumption DEF TypeOK, SyncOpen
<1>2. Phases'
  BY DEF TypeOK, Phases, Ended, SyncOpen
<1>3. Shares'
  BY DEF TypeOK, Shares, InItsShare, SyncOpen
<1>4. Requests'
  BY DEF TypeOK, Requests, AsksItsNext, SyncOpen
<1>5. Contents'
  BY DEF TypeOK, Contents, Carries, SyncOpen
<1>6. Deliveries'
  BY DEF TypeOK, Deliveries, Delivered, SyncOpen
<1> QED
  BY <1>1, <1>2, <1>3, <1>4, <1>5, <1>6

LEMMA SyncRequestKeeps ==
  ASSUME IInv, SyncRequest
  PROVE  IInv'
<1> USE DEF IInv
<1>1. TypeOK'
  BY TransferAssumption DEF TypeOK, SyncRequest
<1>2. Phases'
  BY DEF TypeOK, Phases, Ended, SyncRequest
<1>3. Shares'
  BY DEF TypeOK, Shares, InItsShare, SyncRequest
<1>4. Requests'
  BY DEF TypeOK, Requests, AsksItsNext, SyncRequest
<1>5. Contents'
  BY DEF TypeOK, Contents, Carries, SyncRequest
<1>6. Deliveries'
  BY DEF TypeOK, Deliveries, Delivered, SyncRequest
<1> QED
  BY <1>1, <1>2, <1>3, <1>4, <1>5, <1>6

LEMMA SyncSpawnKeeps ==
  ASSUME IInv, SyncSpawn
  PROVE  IInv'
<1> USE DEF IInv
<1>1. TypeOK'
  BY TransferAssumption DEF TypeOK, SyncSpawn
<1>2. Phases'
  BY DEF TypeOK, Phases, Ended, SyncSpawn
<1>3. Shares'
  BY DEF TypeOK, Shares, InItsShare, SyncSpawn
<1>4. Requests'
  <2>1. \A u \in Loader : lpc[u] = "none" /\ lpc'[u] = "connect"
    BY DEF TypeOK, Phases, SyncSpawn
  <2> QED
    BY <2>1 DEF TypeOK, Requests, AsksItsNext, SyncSpawn
<1>5. Contents'
  BY DEF TypeOK, Contents, Carries, SyncSpawn
<1>6. Deliveries'
  <2>1. \A u \in Loader : lpc[u] = "none" /\ lpc'[u] = "connect"
    BY DEF TypeOK, Phases, SyncSpawn
  <2> QED
    BY <2>1 DEF Deliveries, Delivered, SyncSpawn
<1> QED
  BY <1>1, <1>2, <1>3, <1>4, <1>5, <1>6

LEMMA SyncStopKeeps ==
  ASSUME IInv, SyncStop
  PROVE  IInv'
<1> USE DEF IInv
<1>1. TypeOK'
  BY TransferAssumption DEF TypeOK, SyncStop, Ended, Message, ChunkId
<1>2. Phases'
  BY DEF TypeOK, Phases, Ended, SyncStop
<1>3. Shares'
  BY DEF TypeOK, Shares, InItsShare, SyncStop, Ended
<1>4. Requests'
  BY DEF TypeOK, Requests, AsksItsNext, SyncStop, Ended
<1>5. Contents'
  BY DEF TypeOK, Contents, Carries, SyncStop, Ended
<1>6. Deliveries'
  BY DEF TypeOK, Deliveries, Delivered, SyncStop, Ended
<1> QED
  BY <1>1, <1>2, <1>3, <1>4, <1>5, <1>6

LEMMA ConnectKeeps ==
  ASSUME NEW t \in Loader, IInv, Connect(t)
  PROVE  IInv'
<1> USE DEF IInv
<1>1. TypeOK'
  BY TransferAssumption DEF TypeOK, Connect, GiveUp
<1>2. Phases'
  <2>1. spc = "join"
    BY SyncWaits DEF Connect, GiveUp
  <2> QED
    BY <2>1 DEF TypeOK, Phases, Ended, Connect, GiveUp
<1>3. Shares'
  BY DEF TypeOK, Shares, InItsShare, Connect, GiveUp
<1>4. Requests'
  BY DEF TypeOK, Requests, AsksItsNext, Connect, GiveUp
<1>5. Contents'
  BY DEF TypeOK, Contents, Carries, Connect, GiveUp
<1>6. Deliveries'
  BY DEF TypeOK, Deliveries, Delivered, Connect, GiveUp
<1> QED
  BY <1>1, <1>2, <1>3, <1>4, <1>5, <1>6

LEMMA SendRequestKeeps ==
  ASSUME NEW t \in Loader, IInv, SendRequest(t)
  PROVE  IInv'
<1> USE DEF IInv
<1>1. TypeOK'
  <2>1. cid[t] \in ChunkId
    BY ChunksAreNumbers DEF TypeOK, SendRequest, HasMore
  <2>2. [type |-> "chunk_request", chunk_id |-> cid[t]] \in Message
    BY <2>1 DEF Message
  <2> QED
    BY <2>2 DEF TypeOK, SendRequest, GiveUp
<1>2. Phases'
  <2>1. spc = "join"
    BY SyncWaits DEF SendRequest, GiveUp, HasMore
  <2> QED
    BY <2>1 DEF TypeOK, Phases, Ended, SendRequest, GiveUp, HasMore
<1>3. Shares'
  BY DEF TypeOK, Shares, InItsShare, SendRequest, GiveUp, HasMore
<1>4. Requests'
  <2> SUFFICES ASSUME NEW u \in Loader PROVE AsksItsNext(u)'
    BY DEF Requests
  <2>1. CASE u # t
    BY <2>1 DEF TypeOK, Requests, AsksItsNext, SendRequest, GiveUp
  <2>2. CASE u = t
    <3> DEFINE request == [type |-> "chunk_request", chunk_id |-> cid[t]]
    <3>0. request.chunk_id = cid[t]
      OBVIOUS
    <3>1. cid[t] \notin asked /\ handling[t] = NoData /\ message[t] = NoMessage
      BY DEF Requests, AsksItsNext, SendRequest
    <3>2. message'[t] \in {NoMessage, request}
      BY <3>1 DEF TypeOK, SendRequest, GiveUp
    <3>3. lpc'[t] \in {"receive", "gave up"} /\ (lpc'[t] = "gave up" => message'[t] = NoMessage)
      BY <3>1 DEF TypeOK, SendRequest, GiveUp
    <3>4. UNCHANGED <<cid, asked, handling>>
      BY DEF SendRequest
    <3> HIDE DEF request
    <3> QED
      BY <2>2, <3>0, <3>1, <3>2, <3>3, <3>4 DEF Requests, AsksItsNext
  <2> QED
    BY <2>1, <2>2
<1>5. Contents'
  <2>1. \A u \in Loader : message'[u] \in {message[u], NoMessage, [type |-> "chunk_request", chunk_id |-> cid[t]]}
    BY DEF TypeOK, SendRequest, GiveUp
  <2>2. \A u \in Loader : Carries(u)'
    BY <2>1 DEF Contents, Carries
  <2> QED
    BY <2>2 DEF Contents, SendRequest
<1>6. Deliveries'
  BY DEF TypeOK, Deliveries, Delivered, SendRequest, GiveUp, HasMore
<1> QED
  BY <1>1, <1>2, <1>3, <1>4, <1>5, <1>6

LEMMA ReceiveChunkKeeps ==
  ASSUME NEW t \in Loader, IInv, ReceiveChunk(t)
  PROVE  IInv'
<1> USE DEF IInv
<1>0. /\ cid[t] \in ChunkId /\ cid[t] \in Nat /\ message[t].data = cid[t]
      /\ NextChunk(cid[t]) \in Nat /\ NextChunk(cid[t]) > cid[t]
      /\ Of(t, cid[t]) /\ Of(t, NextChunk(cid[t]))
  <2>1. cid[t] \in Nat /\ Of(t, cid[t])
    BY DEF TypeOK, Shares, InItsShare
  <2>2. cid[t] \in ChunkId
    BY <2>1, ChunksAreNumbers DEF Shares, InItsShare, ReceiveChunk
  <2>3. message[t].data = cid[t]
    BY DEF Contents, Carries, ReceiveChunk
  <2> QED
    BY <2>1, <2>2, <2>3, NextOfShare
<1>1. TypeOK'
  BY <1>0 DEF TypeOK, ReceiveChunk
<1>2. Phases'
  <2>1. spc = "join"
    BY SyncWaits DEF ReceiveChunk
  <2> QED
    BY <2>1 DEF TypeOK, Phases, Ended, ReceiveChunk
<1>3. Shares'
  <2> SUFFICES ASSUME NEW u \in Loader PROVE InItsShare(u)'
    BY DEF Shares
  <2>1. CASE u # t
    BY <2>1 DEF TypeOK, Shares, InItsShare, ReceiveChunk
  <2>2. CASE u = t
    <3>1. requests'[t] = {c \in ShareOf(t) : c < NextChunk(cid[t])}
      <4>1. requests'[t] = {c \in ShareOf(t) : c < cid[t]} \cup {cid[t]}
        BY DEF TypeOK, Shares, InItsShare, ReceiveChunk
      <4>2. cid[t] \in ShareOf(t)
        BY <1>0 DEF ShareOf
      <4>3. ASSUME NEW c \in ShareOf(t), c < NextChunk(cid[t]) PROVE c < cid[t] \/ c = cid[t]
        <5>1. c \in Nat /\ Of(t, c)
          BY ChunksAreNumbers DEF ShareOf
        <5> QED
          BY <1>0, <4>3, <5>1, NoneBetween
      <4>4. ASSUME NEW c \in ShareOf(t), c < cid[t] PROVE c < NextChunk(cid[t])
        <5>1. c \in Nat
          BY ChunksAreNumbers DEF ShareOf
        <5> QED
          BY <1>0, <4>4, <5>1
      <4> QED
        BY <1>0, <4>1, <4>2, <4>3, <4>4
    <3>2. cid'[t] = NextChunk(cid[t]) /\ lpc'[t] = "send"
      BY DEF TypeOK, ReceiveChunk
    <3> QED
      BY <1>0, <2>2, <3>1, <3>2 DEF InItsShare
  <2> QED
    BY <2>1, <2>2
<1>4. Requests'
  <2> SUFFICES ASSUME NEW u \in Loader PROVE AsksItsNext(u)'
    BY DEF Requests
  <2>1. CASE u # t
    BY <2>1 DEF TypeOK, Requests, AsksItsNext, ReceiveChunk
  <2>2. CASE u = t
    <3>1. cid'[t] = NextChunk(cid[t]) /\ lpc'[t] = "send" /\ message'[t] = NoMessage
      BY DEF TypeOK, ReceiveChunk
    <3>2. handling'[t] = NoData /\ asked' = asked
      BY DEF Requests, AsksItsNext, ReceiveChunk, server_vars
    <3>3. \A c \in asked : Of(t, c) => c <= cid[t] /\ c \in Nat
      BY ChunksAreNumbers DEF TypeOK, Requests, AsksItsNext
    <3>4. \A c \in asked : Of(t, c) => c <= NextChunk(cid[t]) /\ c # NextChunk(cid[t])
      BY <1>0, <3>3
    <3>5. NextChunk(cid[t]) \notin asked
      BY <1>0, <3>4
    <3> QED
      BY <2>2, <3>1, <3>2, <3>4, <3>5 DEF AsksItsNext
  <2> QED
    BY <2>1, <2>2
<1>5. Contents'
  BY <1>0 DEF TypeOK, Contents, Carries, ReceiveChunk
<1>6. Deliveries'
  <2> SUFFICES ASSUME NEW u \in Loader PROVE Delivered(u)'
    BY DEF Deliveries
  <2>1. CASE u # t
    <3>1. lpc[u] = "done" => cid[t] \notin requests[u]
      <4>1. ASSUME cid[t] \in requests[u] PROVE FALSE
        <5>1. Of(u, cid[t])
          BY <4>1 DEF Shares, InItsShare, ShareOf
        <5> QED
          BY <1>0, <2>1, <5>1, NotShared
      <4> QED
        BY <4>1
    <3>2. cid[t] # NoData
      BY <1>0, ChunksAreNumbers
    <3> QED
      BY <1>0, <2>1, <3>1, <3>2 DEF TypeOK, Deliveries, Delivered, ReceiveChunk
  <2>2. CASE u = t
    <3>1. /\ lpc'[t] = "send" /\ requests'[t] = requests[t] \cup {cid[t]}
          /\ posted' = [posted EXCEPT ![cid[t]] = cid[t]] /\ file' = file
      BY <1>0 DEF TypeOK, ReceiveChunk
    <3>2. cid[t] # NoData /\ lpc[t] # "gave up"
      BY <1>0, ChunksAreNumbers DEF ReceiveChunk
    <3>3. \A c \in requests[t] : c \in ChunkId /\ (posted[c] # NoData \/ file[c] # NoData)
      BY <3>2 DEF TypeOK, Deliveries, Delivered
    <3>4. posted \in [ChunkId -> ChunkId \cup {NoData}]
      BY DEF TypeOK
    <3>5. \A c \in requests'[t] : posted'[c] # NoData \/ file'[c] # NoData
      BY <1>0, <3>1, <3>2, <3>3, <3>4
    <3> QED
      BY <2>2, <3>1, <3>5 DEF Delivered
  <2> QED
    BY <2>1, <2>2
<1> QED
  BY <1>1, <1>2, <1>3, <1>4, <1>5, <1>6

LEMMA ReceiveFailsKeeps ==
  ASSUME NEW t \in Loader, IInv, ReceiveFails(t)
  PROVE  IInv'
<1> USE DEF IInv
<1>1. TypeOK'
  BY TransferAssumption DEF TypeOK, ReceiveFails, GiveUp, Broken
<1>2. Phases'
  <2>1. spc = "join"
    BY SyncWaits DEF ReceiveFails, GiveUp, Broken
  <2> QED
    BY <2>1 DEF TypeOK, Phases, Ended, ReceiveFails, GiveUp, Broken
<1>3. Shares'
  BY DEF TypeOK, Shares, InItsShare, ReceiveFails, GiveUp, Broken
<1>4. Requests'
  BY DEF TypeOK, Requests, AsksItsNext, ReceiveFails, GiveUp, Broken
<1>5. Contents'
  BY DEF TypeOK, Contents, Carries, ReceiveFails, GiveUp, Broken
<1>6. Deliveries'
  BY DEF TypeOK, Deliveries, Delivered, ReceiveFails, GiveUp, Broken
<1> QED
  BY <1>1, <1>2, <1>3, <1>4, <1>5, <1>6

LEMMA LoopEndsKeeps ==
  ASSUME NEW t \in Loader, IInv, LoopEnds(t)
  PROVE  IInv'
<1> USE DEF IInv
<1>1. TypeOK'
  BY TransferAssumption DEF TypeOK, LoopEnds, HasMore
<1>2. Phases'
  <2>1. spc = "join"
    BY SyncWaits DEF LoopEnds, HasMore
  <2> QED
    BY <2>1 DEF TypeOK, Phases, Ended, LoopEnds, HasMore
<1>3. Shares'
  <2>1. cid[t] >= NumberOfChunks
    <3>1. cid[t] \in Nat /\ ~(cid[t] < NumberOfChunks)
      BY DEF TypeOK, LoopEnds, HasMore
    <3> QED
      BY <3>1, TransferAssumption
  <2> QED
    BY <2>1 DEF TypeOK, Shares, InItsShare, LoopEnds
<1>4. Requests'
  BY DEF TypeOK, Requests, AsksItsNext, LoopEnds, HasMore
<1>5. Contents'
  BY DEF TypeOK, Contents, Carries, LoopEnds, HasMore
<1>6. Deliveries'
  BY DEF TypeOK, Deliveries, Delivered, LoopEnds, HasMore
<1> QED
  BY <1>1, <1>2, <1>3, <1>4, <1>5, <1>6

LEMMA WaitReturnsKeeps ==
  ASSUME NEW t \in Loader, IInv, WaitReturns(t)
  PROVE  IInv'
<1> USE DEF IInv
<1>1. TypeOK'
  BY TransferAssumption DEF TypeOK, WaitReturns, Written
<1>2. Phases'
  <2>1. spc = "join"
    BY SyncWaits DEF WaitReturns, Written
  <2> QED
    BY <2>1 DEF TypeOK, Phases, Ended, WaitReturns, Written
<1>3. Shares'
  BY DEF TypeOK, Shares, InItsShare, WaitReturns, Written
<1>4. Requests'
  BY DEF TypeOK, Requests, AsksItsNext, WaitReturns, Written
<1>5. Contents'
  BY DEF TypeOK, Contents, Carries, WaitReturns, Written
<1>6. Deliveries'
  BY DEF TypeOK, Deliveries, Delivered, WaitReturns, Written
<1> QED
  BY <1>1, <1>2, <1>3, <1>4, <1>5, <1>6

LEMMA HandleRequestKeeps ==
  ASSUME NEW t \in Loader, IInv, HandleRequest(t)
  PROVE  IInv'
<1> USE DEF IInv
<1>0. /\ message[t].chunk_id = cid[t] /\ cid[t] \in ChunkId
      /\ cid[t] \notin asked /\ lpc[t] = "receive"
  <2>1. message[t] \in Message
    BY DEF TypeOK, HandleRequest
  <2>2. message[t].chunk_id \in ChunkId
    BY <2>1, MessageFields DEF HandleRequest
  <2>3. message[t].chunk_id = cid[t] /\ cid[t] \notin asked
    BY DEF Requests, AsksItsNext, HandleRequest
  <2>4. lpc[t] = "receive"
    BY DEF Requests, AsksItsNext, HandleRequest
  <2> QED
    BY <2>2, <2>3, <2>4
<1>1. TypeOK'
  <2>1. [type |-> "error"] \in Message
    BY DEF Message
  <2> QED
    BY <1>0, <2>1 DEF TypeOK, HandleRequest
<1>2. Phases'
  BY DEF TypeOK, Phases, Ended, HandleRequest
<1>3. Shares'
  BY DEF TypeOK, Shares, InItsShare, HandleRequest
<1>4. Requests'
  <2> SUFFICES ASSUME NEW u \in Loader PROVE AsksItsNext(u)'
    BY DEF Requests
  <2>1. CASE u # t
    BY <2>1 DEF TypeOK, Requests, AsksItsNext, HandleRequest
  <2>2. CASE u = t
    <3> DEFINE refusal == [type |-> "error"]
    <3>0. refusal.type = "error"
      OBVIOUS
    <3>1. message'[t] \in {NoMessage, refusal}
      BY DEF TypeOK, HandleRequest
    <3>2. /\ handling'[t] \in {NoData, cid[t]}
          /\ handling'[t] # NoData => message'[t] = NoMessage
      BY <1>0 DEF TypeOK, HandleRequest
    <3>3. UNCHANGED <<cid, asked, lpc>>
      BY DEF HandleRequest
    <3> HIDE DEF refusal
    <3> QED
      BY <1>0, <2>2, <3>0, <3>1, <3>2, <3>3 DEF Requests, AsksItsNext
  <2> QED
    BY <2>1, <2>2
<1>5. Contents'
  <2>1. \A u \in Loader : message'[u] \in {message[u], NoMessage, [type |-> "error"]}
    BY DEF TypeOK, HandleRequest
  <2>2. \A u \in Loader : Carries(u)'
    BY <2>1 DEF Contents, Carries
  <2> QED
    BY <2>2 DEF Contents, HandleRequest
<1>6. Deliveries'
  BY DEF TypeOK, Deliveries, Delivered, HandleRequest
<1> QED
  BY <1>1, <1>2, <1>3, <1>4, <1>5, <1>6

LEMMA RespondKeeps ==
  ASSUME NEW t \in Loader, IInv, Respond(t)
  PROVE  IInv'
<1> USE DEF IInv
<1>0. /\ handling[t] = cid[t] /\ handling[t] # NoData /\ cid[t] \in ChunkId /\ cid[t] \notin asked
      /\ Of(t, cid[t]) /\ message[t] = NoMessage /\ lpc[t] \in {"receive", "gave up"}
  <2>1. handling[t] # NoData
    BY DEF Respond
  <2>2. handling[t] = cid[t] /\ message[t] = NoMessage
    BY <2>1 DEF Requests, AsksItsNext
  <2>3. cid[t] \notin asked /\ lpc[t] \in {"receive", "gave up"}
    BY <2>1, <2>2 DEF Requests, AsksItsNext
  <2>4. cid[t] \in ChunkId /\ Of(t, cid[t])
    BY <2>1, <2>2 DEF TypeOK, Shares, InItsShare
  <2> QED
    BY <2>1, <2>2, <2>3, <2>4
<1> DEFINE answer == [type |-> "chunk_response", chunk_id |-> cid[t], data |-> cid[t]]
<1>a. /\ message' = IF t \in up THEN [message EXCEPT ![t] = answer] ELSE message
      /\ handling' = [handling EXCEPT ![t] = NoData]
      /\ asked' = asked \cup {cid[t]}
      /\ UNCHANGED <<spc, session, lpc, cid, requests, up, posted, file>>
  BY <1>0 DEF Respond
<1>b. answer \in Message
  BY <1>0 DEF Message
<1>c. answer.type = "chunk_response" /\ answer.chunk_id = cid[t] /\ answer.data = cid[t]
  OBVIOUS
<1> HIDE DEF answer
<1>1. TypeOK'
  BY <1>0, <1>a, <1>b DEF TypeOK
<1>2. Phases'
  BY <1>a DEF Phases, Ended
<1>3. Shares'
  BY <1>a DEF Shares, InItsShare
<1>4. Requests'
  <2> SUFFICES ASSUME NEW u \in Loader PROVE AsksItsNext(u)'
    BY DEF Requests
  <2>1. CASE u # t
    <3>1. ~Of(u, cid[t])
      BY <1>0, <2>1, NotShared
    <3>2. cid[u] # cid[t]
      BY <3>1 DEF Shares, InItsShare
    <3>3. message'[u] = message[u] /\ handling'[u] = handling[u]
      BY <1>a, <2>1 DEF TypeOK
    <3> QED
      BY <1>a, <3>1, <3>2, <3>3 DEF Requests, AsksItsNext
  <2>2. CASE u = t
    <3>1. /\ handling'[t] = NoData
          /\ message'[t] = IF t \in up THEN answer ELSE NoMessage
      BY <1>0, <1>a DEF TypeOK
    <3>2. lpc[t] = "gave up" => t \notin up
      BY DEF Phases
    <3>3. cid[t] \in Nat
      BY DEF TypeOK
    <3>4. \A c \in asked' : Of(t, c) => c <= cid[t]
      <4>1. \A c \in asked : Of(t, c) => c <= cid[t]
        BY DEF Requests, AsksItsNext
      <4> QED
        BY <1>a, <3>3, <4>1
    <3> QED
      BY <1>0, <1>a, <1>c, <2>2, <3>1, <3>2, <3>4 DEF AsksItsNext
  <2> QED
    BY <2>1, <2>2
<1>5. Contents'
  <2>1. \A u \in Loader : message'[u] \in {message[u], answer}
    BY <1>a DEF TypeOK
  <2>2. \A u \in Loader : Carries(u)'
    BY <1>c, <2>1 DEF Contents, Carries
  <2> QED
    BY <1>a, <2>2 DEF Contents
<1>6. Deliveries'
  BY <1>a DEF Deliveries, Delivered
<1> QED
  BY <1>1, <1>2, <1>3, <1>4, <1>5, <1>6

LEMMA LinkBreaksKeeps ==
  ASSUME NEW t \in Loader, IInv, LinkBreaks(t)
  PROVE  IInv'
<1> USE DEF IInv
<1>1. TypeOK'
  BY TransferAssumption DEF TypeOK, LinkBreaks
<1>2. Phases'
  BY DEF TypeOK, Phases, Ended, LinkBreaks
<1>3. Shares'
  BY DEF TypeOK, Shares, InItsShare, LinkBreaks
<1>4. Requests'
  BY DEF TypeOK, Requests, AsksItsNext, LinkBreaks
<1>5. Contents'
  BY DEF TypeOK, Contents, Carries, LinkBreaks
<1>6. Deliveries'
  BY DEF TypeOK, Deliveries, Delivered, LinkBreaks
<1> QED
  BY <1>1, <1>2, <1>3, <1>4, <1>5, <1>6

LEMMA WriterStoresKeeps ==
  ASSUME NEW c \in ChunkId, IInv, WriterStores(c)
  PROVE  IInv'
<1> USE DEF IInv
<1>1. TypeOK'
  BY TransferAssumption DEF TypeOK, WriterStores
<1>2. Phases'
  BY DEF TypeOK, Phases, Ended, WriterStores
<1>3. Shares'
  BY DEF TypeOK, Shares, InItsShare, WriterStores
<1>4. Requests'
  BY DEF TypeOK, Requests, AsksItsNext, WriterStores
<1>5. Contents'
  BY DEF TypeOK, Contents, Carries, WriterStores
<1>6. Deliveries'
  BY DEF TypeOK, Deliveries, Delivered, WriterStores
<1> QED
  BY <1>1, <1>2, <1>3, <1>4, <1>5, <1>6

-----------------------------------------------------------------------------
LEMMA NextKeeps == IInv /\ [Next]_vars => IInv'
<1> SUFFICES ASSUME IInv, [Next]_vars PROVE IInv'
  OBVIOUS
<1>1. CASE Sync
  BY <1>1, SyncOpenKeeps, SyncRequestKeeps, SyncSpawnKeeps, SyncStopKeeps DEF Sync
<1>2. ASSUME NEW t \in Loader, LoaderStep(t) PROVE IInv'
  BY <1>2, ConnectKeeps, SendRequestKeeps, ReceiveChunkKeeps, ReceiveFailsKeeps,
     LoopEndsKeeps, WaitReturnsKeeps DEF LoaderStep
<1>3. ASSUME NEW t \in Loader, ServerStep(t) PROVE IInv'
  BY <1>3, HandleRequestKeeps, RespondKeeps DEF ServerStep
<1>4. ASSUME NEW t \in Loader, LinkBreaks(t) PROVE IInv'
  BY <1>4, LinkBreaksKeeps
<1>5. ASSUME NEW c \in ChunkId, WriterStores(c) PROVE IInv'
  BY <1>5, WriterStoresKeeps
<1>6. CASE UNCHANGED vars
  BY <1>6 DEF IInv, TypeOK, Phases, Shares, InItsShare, Requests, AsksItsNext, Contents,
              Carries, Deliveries, Delivered, Ended, vars
<1> QED
  BY <1>1, <1>2, <1>3, <1>4, <1>5, <1>6 DEF Next

LEMMA Invariant == Spec => []IInv
  BY InitInv, NextKeeps, PTL DEF Spec

-----------------------------------------------------------------------------
(* Every variable of a transfer keeps its type. *)
THEOREM TypeCorrect == Spec => []TypeOK
<1>1. IInv => TypeOK
  BY DEF IInv
<1> QED
  BY <1>1, Invariant, PTL

(* Whatever fails, and for any number of loaders and chunks, no chunk is   *)
(* asked for twice in a session: what the read cache needs to give right   *)
(* answers.                                                                *)
THEOREM AskedOnceCorrect == Spec => []AskedOnce
<1>1. IInv => AskedOnce
  <2> SUFFICES ASSUME IInv, NEW t \in Loader
               PROVE  /\ handling[t] # NoData =>
                           /\ handling[t] \notin asked
                           /\ \A u \in Loader \ {t} : handling[u] # handling[t]
                      /\ message[t] # NoMessage /\ message[t].type = "chunk_request" =>
                           message[t].chunk_id \notin asked
    BY DEF AskedOnce
  <2>1. handling[t] # NoData => handling[t] \notin asked
    BY DEF IInv, Requests, AsksItsNext
  <2>2. ASSUME NEW u \in Loader \ {t}, handling[t] # NoData, handling[u] = handling[t]
        PROVE  FALSE
    <3>1. handling[t] = cid[t] /\ handling[u] = cid[u]
      BY <2>2 DEF IInv, Requests, AsksItsNext
    <3>2. Of(t, cid[t]) /\ Of(u, cid[u])
      BY DEF IInv, Shares, InItsShare
    <3> QED
      BY <2>2, <3>1, <3>2, NotShared
  <2>3. message[t] # NoMessage /\ message[t].type = "chunk_request" =>
          message[t].chunk_id \notin asked
    BY DEF IInv, Requests, AsksItsNext
  <2> QED
    BY <2>1, <2>2, <2>3
<1> QED
  BY <1>1, Invariant, PTL

(* Whatever fails, a chunk of the client's file holds its own bytes or     *)
(* none.                                                                   *)
THEOREM FileIsRightCorrect == Spec => []FileIsRight
<1>1. IInv => FileIsRight
  BY DEF IInv, Contents, FileIsRight
<1> QED
  BY <1>1, Invariant, PTL

(* When sync returns true, a chunk that is missing from the file belongs   *)
(* to the share of a loader that gave up.                                  *)
THEOREM MissingMeansGaveUpCorrect == Spec => []MissingMeansGaveUp
<1>1. IInv => MissingMeansGaveUp
  <2> SUFFICES ASSUME IInv, spc = "true", NEW c \in ChunkId, file[c] = NoData,
                      NEW t, t = c % NumberOfLoaders
               PROVE  lpc[t] = "gave up"
    BY DEF MissingMeansGaveUp
  <2>1. t \in Loader /\ Of(t, c)
    BY OneShare, TransferAssumption DEF ChunkId, Of
  <2>2. lpc[t] \in {"done", "gave up"} /\ posted[c] = NoData
    BY <2>1 DEF IInv, Phases, Ended
  <2>3. ASSUME lpc[t] = "done" PROVE FALSE
    <3>1. c < cid[t]
      <4>1. cid[t] \in Nat /\ cid[t] >= NumberOfChunks
        BY <2>1, <2>3 DEF IInv, TypeOK, Shares, InItsShare
      <4>2. c \in Nat /\ c < NumberOfChunks
        BY ChunksAreNumbers
      <4> QED
        BY <4>1, <4>2, TransferAssumption
    <3>2. c \in requests[t]
      BY <2>1, <3>1 DEF IInv, Shares, InItsShare, ShareOf
    <3> QED
      BY <2>1, <2>2, <2>3, <3>2 DEF IInv, Deliveries, Delivered
  <2> QED
    BY <2>2, <2>3
<1> QED
  BY <1>1, Invariant, PTL

-----------------------------------------------------------------------------
(* The transfer as a ChunkStore.                                           *)

(* What was promised changes when a loader ends, or starts to be one that  *)
(* has ended.                                                              *)
LEMMA AwaitedFrame ==
  ASSUME \A u \in Loader : /\ lpc'[u] = "done" <=> lpc[u] = "done"
                           /\ lpc[u] = "done" => requests'[u] = requests[u]
  PROVE  Awaited' = Awaited
<1>1. {u \in Loader : lpc'[u] = "done"} = {u \in Loader : lpc[u] = "done"}
  OBVIOUS
<1>2. {requests'[t] : t \in {u \in Loader : lpc'[u] = "done"}}
        = {requests[t] : t \in {u \in Loader : lpc[u] = "done"}}
  BY <1>1
<1> QED
  BY <1>2 DEF Awaited

LEMMA SyncPromises ==
  ASSUME IInv, Sync
  PROVE  Awaited' = Awaited /\ Kept \subseteq Kept'
<1>1. Awaited' = Awaited
  <2>1. CASE SyncSpawn
    <3>1. \A u \in Loader : lpc[u] = "none" /\ lpc'[u] = "connect"
      BY <2>1 DEF IInv, TypeOK, Phases, SyncSpawn
    <3> QED
      BY <3>1, AwaitedFrame
  <2>2. CASE UNCHANGED loader_vars
    BY <2>2, AwaitedFrame
  <2> QED
    BY <2>1, <2>2 DEF Sync, SyncOpen, SyncRequest, SyncStop
<1>2. Kept \subseteq Kept'
  <2>1. CASE SyncStop
    BY <2>1 DEF IInv, TypeOK, Contents, Kept, SyncStop
  <2>2. CASE file' = file
    BY <2>2 DEF Kept
  <2> QED
    BY <2>1, <2>2 DEF Sync, SyncOpen, SyncRequest, SyncSpawn
<1> QED
  BY <1>1, <1>2

LEMMA OthersPromiseNothing ==
  ASSUME IInv, NEW t \in Loader,
         \/ Connect(t) \/ SendRequest(t) \/ ReceiveChunk(t) \/ ReceiveFails(t)
         \/ LoopEnds(t) \/ HandleRequest(t) \/ Respond(t) \/ LinkBreaks(t)
  PROVE  Awaited' = Awaited /\ Kept' = Kept
<1>1. file' = file
  BY DEF Connect, SendRequest, ReceiveChunk, ReceiveFails, LoopEnds, HandleRequest,
         Respond, LinkBreaks
<1>2. \A u \in Loader : /\ lpc'[u] = "done" <=> lpc[u] = "done"
                        /\ lpc[u] = "done" => requests'[u] = requests[u]
  BY DEF IInv, TypeOK, Connect, SendRequest, ReceiveChunk, ReceiveFails, LoopEnds,
         HandleRequest, Respond, LinkBreaks, GiveUp
<1>3. Awaited' = Awaited
  BY <1>2, AwaitedFrame
<1> QED
  BY <1>1, <1>3 DEF Kept

(* What a loader has waited for is in the file.                            *)
LEMMA WaitPromises ==
  ASSUME IInv, NEW t \in Loader, WaitReturns(t)
  PROVE  /\ requests[t] \subseteq Kept
         /\ Awaited' = Awaited \cup requests[t]
         /\ Kept' = Kept
<1>1. requests[t] \subseteq Kept
  <2> SUFFICES ASSUME NEW c \in requests[t] PROVE c \in Kept
    OBVIOUS
  <2>1. c \in ChunkId /\ posted[c] = NoData
    BY DEF IInv, TypeOK, WaitReturns, Written
  <2>2. file[c] # NoData
    BY <2>1 DEF IInv, Deliveries, Delivered, WaitReturns
  <2> QED
    BY <2>1, <2>2 DEF IInv, Contents, Kept
<1>2. Awaited' = Awaited \cup requests[t]
  <2>1. /\ requests' = requests
        /\ {u \in Loader : lpc'[u] = "done"} = {u \in Loader : lpc[u] = "done"} \cup {t}
    BY DEF IInv, TypeOK, WaitReturns
  <2>2. Awaited' = UNION {requests[v] : v \in {u \in Loader : lpc'[u] = "done"}}
    BY <2>1 DEF Awaited
  <2> QED
    BY <2>1, <2>2 DEF Awaited
<1>3. Kept' = Kept
  BY DEF Kept, WaitReturns
<1> QED
  BY <1>1, <1>2, <1>3

LEMMA StepImplementsChunkStore ==
  ASSUME IInv, [Next]_vars
  PROVE  [Store!Next]_(Store!vars)
<1>0. Kept' \subseteq ChunkId /\ \A t \in Loader : requests[t] \subseteq ChunkId
  BY DEF Kept, IInv, TypeOK
<1>1. ASSUME Awaited' = Awaited, Kept \subseteq Kept' PROVE Store!Next
  <2>1. Store!Store(Kept')
    BY <1>1 DEF Store!Store
  <2> QED
    BY <1>0, <2>1 DEF Store!Next
<1>2. CASE Sync
  BY <1>1, <1>2, SyncPromises
<1>3. ASSUME NEW t \in Loader, LoaderStep(t) \/ ServerStep(t) \/ LinkBreaks(t)
      PROVE  Store!Next
  <2>1. CASE WaitReturns(t)
    <3>1. Store!Promise(requests[t])
      BY <2>1, WaitPromises DEF Store!Promise
    <3> QED
      BY <1>0, <3>1 DEF Store!Next
  <2>2. CASE ~WaitReturns(t)
    BY <1>1, <1>3, <2>2, OthersPromiseNothing DEF LoaderStep, ServerStep
  <2> QED
    BY <2>1, <2>2
<1>4. ASSUME NEW c \in ChunkId, WriterStores(c) PROVE Store!Next
  <2>1. Awaited' = Awaited
    BY <1>4, AwaitedFrame DEF WriterStores
  <2>2. Kept \subseteq Kept'
    BY <1>4 DEF Kept, IInv, TypeOK, Contents, WriterStores
  <2> QED
    BY <1>1, <2>1, <2>2
<1>5. CASE UNCHANGED vars
  <2>1. Kept' = Kept /\ Awaited' = Awaited
    BY <1>5, AwaitedFrame DEF vars, Kept
  <2> QED
    BY <2>1 DEF Store!vars
<1> QED
  BY <1>2, <1>3, <1>4, <1>5 DEF Next

(* The transfer as a whole keeps the promise of the writer it is built on: *)
(* for any number of loaders and chunks, and whatever breaks, what a       *)
(* loader was told is written when it ended is in the client's file, and   *)
(* is not lost again.                                                      *)
THEOREM ImplementsChunkStoreCorrect == Spec => ImplementsChunkStore
<1>1. Init => Store!Init
  <2> SUFFICES ASSUME Init PROVE Kept \subseteq ChunkId /\ Awaited = {}
    BY DEF Store!Init
  <2>1. {u \in Loader : lpc[u] = "done"} = {}
    BY DEF Init
  <2> QED
    BY <2>1 DEF Kept, Awaited
<1>2. IInv /\ [Next]_vars => [Store!Next]_(Store!vars)
  BY StepImplementsChunkStore
<1> QED
  BY <1>1, <1>2, Invariant, PTL DEF Spec, ImplementsChunkStore, Store!Spec

-----------------------------------------------------------------------------
(* The transfer ends.  Of SyncReturns two things are left to prove that    *)
(* are about steps and states only: nothing can go on for ever, because    *)
(* every step takes something a stage further that has a last stage; and   *)
(* a loader that has not ended never waits for something nobody does.      *)

SyncStage ==
  CASE spc = "connect" -> 0
    [] spc = "request" -> 1
    [] spc = "spawn"   -> 2
    [] spc = "join"    -> 3
    [] OTHER           -> 4

RequestIsOnItsWay(t) == message[t] # NoMessage /\ message[t].type = "chunk_request"

(* Where a request is, and where a loader is with its chunk; one that gave *)
(* up may have left its handler at work.                                   *)
Exchange(t) ==
  CASE handling[t] # NoData -> "handled"
    [] handling[t] = NoData /\ RequestIsOnItsWay(t) -> "sent"
    [] OTHER -> "over"

Stage(t) ==
  CASE lpc[t] = "none"    -> 0
    [] lpc[t] = "connect" -> 1
    [] lpc[t] = "send"    -> 2
    [] lpc[t] = "receive" /\ Exchange(t) = "sent"    -> 3
    [] lpc[t] = "receive" /\ Exchange(t) = "handled" -> 4
    [] lpc[t] = "receive" /\ Exchange(t) = "over"    -> 5
    [] lpc[t] = "wait"    -> 6
    [] Ended(t) /\ Exchange(t) = "handled" -> 7
    [] OTHER              -> 8

(* A connection is made once, and breaks or is closed once. *)
Down(t) == IF t \in up \/ lpc[t] \in {"none", "connect"} THEN 0 ELSE 1

(* The next chunk counts most: its stages start again. *)
LoaderStage(t) == 18 * cid[t] + 2 * Stage(t) + Down(t)

IsDelivered(c) == \E t \in Loader : c \in requests[t]

ChunkStage(c) ==
  IF posted[c] # NoData THEN 1 ELSE IF IsDelivered(c) THEN 2 ELSE 0

NothingGoesBack ==
  /\ SyncStage <= SyncStage'
  /\ \A t \in Loader : LoaderStage(t) <= LoaderStage(t)'
  /\ \A c \in ChunkId : ChunkStage(c) <= ChunkStage(c)'

SomethingGoesOn ==
  \/ SyncStage < SyncStage'
  \/ \E t \in Loader : LoaderStage(t) < LoaderStage(t)'
  \/ \E c \in ChunkId : ChunkStage(c) < ChunkStage(c)'

EveryStepIsProgress == [][NothingGoesBack /\ SomethingGoesOn]_vars

StagesAreBounded ==
  /\ SyncStage \in 0 .. 4
  /\ \A t \in Loader : LoaderStage(t) \in 0 .. 18 * (NumberOfChunks + NumberOfLoaders)
  /\ \A c \in ChunkId : ChunkStage(c) \in 0 .. 2

(* A loader has a step to take (Connect, SendRequest or LoopEnds,          *)
(* ReceiveChunk or ReceiveFails, WaitReturns) ...                          *)
CanGoOn(t) ==
  \/ lpc[t] \in {"connect", "send"}
  \/ lpc[t] = "receive" /\ Broken(t)
  \/ lpc[t] = "receive" /\ message[t] # NoMessage /\ message[t].type # "chunk_request"
  \/ lpc[t] = "wait" /\ Written(t)

(* ... or its handler has (HandleRequest or Respond) ...                   *)
HandlerCanGoOn(t) ==
  \/ t \in up /\ RequestIsOnItsWay(t) /\ handling[t] = NoData
  \/ handling[t] # NoData

(* ... or the writer has, with a chunk it waits for.                       *)
WriterCanGoOn(t) == lpc[t] = "wait" /\ \E c \in requests[t] : posted[c] # NoData

NobodyIsStuck ==
  spc = "join" =>
    \A t \in Loader : Ended(t) \/ CanGoOn(t) \/ HandlerCanGoOn(t) \/ WriterCanGoOn(t)

-----------------------------------------------------------------------------
(* What IInv does not say.  As long as the connection of a loader that     *)
(* waits is up, its request or an answer is under way.                     *)
IsBeingAnswered(t) ==
  lpc[t] = "receive" /\ t \in up => handling[t] # NoData \/ message[t] # NoMessage

Measured ==
  /\ \A t \in Loader : cid[t] < NumberOfChunks + NumberOfLoaders
  /\ \A t \in Loader : RequestIsOnItsWay(t) => t \in up
  /\ \A t \in Loader : IsBeingAnswered(t)
  /\ \A c \in ChunkId : posted[c] # NoData => IsDelivered(c)

LEMMA InitMeasured == Init => Measured
  BY TransferAssumption DEF Init, Measured, Loader, RequestIsOnItsWay, IsBeingAnswered

LEMMA DeliveredFrame ==
  ASSUME UNCHANGED requests, NEW c
  PROVE  IsDelivered(c)' = IsDelivered(c)
  BY DEF IsDelivered

LEMMA NextMeasured ==
  ASSUME IInv, Measured, [Next]_vars
  PROVE  Measured'
<1> USE DEF IInv
<1>0. \A t \in Loader : IsBeingAnswered(t)'
  <2> SUFFICES ASSUME NEW t \in Loader, lpc'[t] = "receive", t \in up'
               PROVE  handling'[t] # NoData \/ message'[t] # NoMessage
    BY DEF IsBeingAnswered
  <2>1. CASE UNCHANGED <<lpc[t], message[t], handling[t]>> /\ (t \in up' => t \in up)
    BY <2>1 DEF Measured, IsBeingAnswered
  <2>2. CASE SendRequest(t)
    <3>1. message'[t] = [type |-> "chunk_request", chunk_id |-> cid[t]]
      BY <2>2 DEF TypeOK, SendRequest, GiveUp
    <3>2. message'[t] \in Message
      <4>1. cid[t] \in ChunkId
        BY <2>2, ChunksAreNumbers DEF TypeOK, SendRequest, HasMore
      <4>2. [type |-> "chunk_request", chunk_id |-> cid[t]] \in Message
        BY <4>1 DEF Message
      <4> QED
        BY <3>1, <4>2
    <3> QED
      BY <3>2, NoMessageAssumption
  <2>3. CASE HandleRequest(t)
    <3>1. handling'[t] # NoData
      BY <2>3, MessageFields, ChunksAreNumbers DEF TypeOK, HandleRequest
    <3> QED
      BY <3>1
  <2>4. CASE Respond(t)
    <3>1. PICK d \in ChunkId :
            message'[t] = [type |-> "chunk_response", chunk_id |-> handling[t], data |-> d]
      BY <2>4 DEF TypeOK, Respond
    <3>2. message'[t] \in Message
      <4>1. handling[t] \in ChunkId
        BY <2>4 DEF TypeOK, Respond
      <4>2. [type |-> "chunk_response", chunk_id |-> handling[t], data |-> d] \in Message
        BY <4>1 DEF Message
      <4> QED
        BY <3>1, <4>2
    <3> QED
      BY <3>2, NoMessageAssumption
  <2>5. CASE Sync
    BY <2>1, <2>5 DEF TypeOK, Sync, SyncOpen, SyncRequest, SyncSpawn, SyncStop
  <2>6. ASSUME NEW u \in Loader, LoaderStep(u) \/ ServerStep(u) \/ LinkBreaks(u),
               ~SendRequest(t), ~HandleRequest(t), ~Respond(t)
        PROVE  UNCHANGED <<lpc[t], message[t], handling[t]>> /\ (t \in up' => t \in up)
    <3>1. CASE u = t
      BY <2>6, <3>1 DEF TypeOK, LoaderStep, ServerStep, Connect, ReceiveChunk, ReceiveFails,
                        LoopEnds, WaitReturns, GiveUp, LinkBreaks
    <3>2. CASE u # t
      BY <2>6, <3>2 DEF TypeOK, LoaderStep, ServerStep, Connect, SendRequest, ReceiveChunk,
                        ReceiveFails, LoopEnds, WaitReturns, GiveUp, HandleRequest, Respond,
                        LinkBreaks
    <3> QED
      BY <3>1, <3>2
  <2>7. CASE (\E c \in ChunkId : WriterStores(c)) \/ UNCHANGED vars
    BY <2>1, <2>7 DEF WriterStores, vars
  <2> QED
    BY <2>1, <2>2, <2>3, <2>4, <2>5, <2>6, <2>7 DEF Next
<1>1. CASE Sync
  <2>1. UNCHANGED <<cid, requests, link_vars>> /\ \A c \in ChunkId : posted'[c] \in {posted[c], NoData}
    BY <1>1 DEF TypeOK, Sync, SyncOpen, SyncRequest, SyncSpawn, SyncStop
  <2> QED
    BY <1>0, <2>1 DEF Measured, RequestIsOnItsWay, IsDelivered
<1>2. ASSUME NEW t \in Loader,
             Connect(t) \/ ReceiveFails(t) \/ LoopEnds(t) \/ WaitReturns(t)
      PROVE  Measured'
  <2>1. UNCHANGED <<cid, requests, posted>>
    BY <1>2 DEF Connect, ReceiveFails, LoopEnds, WaitReturns
  <2>2. \A u \in Loader : RequestIsOnItsWay(u)' => u \in up'
    BY <1>2 DEF TypeOK, Measured, RequestIsOnItsWay, Requests, AsksItsNext, Connect, GiveUp,
                ReceiveFails, LoopEnds, WaitReturns
  <2> QED
    BY <1>0, <2>1, <2>2 DEF Measured, IsDelivered
<1>3. ASSUME NEW t \in Loader, SendRequest(t) PROVE Measured'
  <2>1. UNCHANGED <<cid, requests, posted>>
    BY <1>3 DEF SendRequest
  <2>2. \A u \in Loader : u # t => message'[u] = message[u] /\ (u \in up => u \in up')
    BY <1>3 DEF TypeOK, SendRequest, GiveUp
  <2>3. t \in up' \/ message'[t] = NoMessage
    BY <1>3 DEF TypeOK, Requests, AsksItsNext, SendRequest, GiveUp
  <2> QED
    BY <1>0, <2>1, <2>2, <2>3 DEF Measured, RequestIsOnItsWay, IsDelivered
<1>4. ASSUME NEW t \in Loader, ReceiveChunk(t) PROVE Measured'
  <2>0. cid[t] \in Nat /\ cid[t] < NumberOfChunks
    BY <1>4 DEF TypeOK, Shares, InItsShare, ReceiveChunk
  <2>1. \A u \in Loader : cid'[u] < NumberOfChunks + NumberOfLoaders
    <3>1. cid[t] + NumberOfLoaders < NumberOfChunks + NumberOfLoaders
      BY <2>0, TransferAssumption
    <3> QED
      BY <1>4, <3>1 DEF TypeOK, Measured, ReceiveChunk, NextChunk
  <2>2. \A u \in Loader : RequestIsOnItsWay(u)' => u \in up'
    BY <1>4 DEF TypeOK, Measured, RequestIsOnItsWay, ReceiveChunk
  <2>3. \A c \in ChunkId : posted'[c] # NoData => IsDelivered(c)'
    <3> SUFFICES ASSUME NEW c \in ChunkId, posted'[c] # NoData PROVE IsDelivered(c)'
      OBVIOUS
    <3>1. CASE c = cid[t]
      BY <1>4, <3>1 DEF TypeOK, IsDelivered, ReceiveChunk
    <3>2. CASE c # cid[t]
      <4>1. PICK u \in Loader : c \in requests[u]
        BY <1>4, <3>2 DEF TypeOK, Measured, IsDelivered, ReceiveChunk
      <4>2. c \in requests'[u]
        BY <1>4, <4>1 DEF TypeOK, ReceiveChunk
      <4> QED
        BY <4>2 DEF IsDelivered
    <3> QED
      BY <3>1, <3>2
  <2> QED
    BY <1>0, <2>1, <2>2, <2>3 DEF Measured
<1>5. ASSUME NEW t \in Loader, ServerStep(t) \/ LinkBreaks(t) PROVE Measured'
  <2>1. UNCHANGED <<cid, requests, posted>>
    BY <1>5 DEF ServerStep, HandleRequest, Respond, LinkBreaks
  <2>2. \A u \in Loader : u # t => message'[u] = message[u] /\ (u \in up => u \in up')
    BY <1>5 DEF TypeOK, ServerStep, HandleRequest, Respond, LinkBreaks
  <2>3. ~RequestIsOnItsWay(t)' \/ UNCHANGED <<message, up>>
    <3>1. CASE HandleRequest(t)
      <4> DEFINE refusal == [type |-> "error"]
      <4>1. refusal.type = "error"
        OBVIOUS
      <4>2. message'[t] \in {NoMessage, refusal}
        BY <3>1 DEF TypeOK, HandleRequest
      <4> HIDE DEF refusal
      <4> QED
        BY <4>1, <4>2 DEF RequestIsOnItsWay
    <3>2. CASE Respond(t)
      <4>1. CASE t \notin up
        BY <3>2, <4>1 DEF Respond
      <4>2. CASE t \in up
        <5>1. PICK d \in ChunkId :
                message'[t] = [type |-> "chunk_response", chunk_id |-> handling[t], data |-> d]
          BY <3>2, <4>2 DEF TypeOK, Respond
        <5>2. message'[t].type = "chunk_response"
          BY <5>1
        <5> QED
          BY <5>2 DEF RequestIsOnItsWay
      <4> QED
        BY <4>1, <4>2
    <3>3. CASE LinkBreaks(t)
      BY <3>3 DEF TypeOK, RequestIsOnItsWay, LinkBreaks
    <3> QED
      BY <1>5, <3>1, <3>2, <3>3 DEF ServerStep
  <2> QED
    BY <1>0, <2>1, <2>2, <2>3 DEF Measured, RequestIsOnItsWay, IsDelivered
<1>6. ASSUME NEW c \in ChunkId, WriterStores(c) PROVE Measured'
  <2>1. UNCHANGED <<cid, requests, link_vars>> /\ \A d \in ChunkId : posted'[d] \in {posted[d], NoData}
    BY <1>6 DEF TypeOK, WriterStores
  <2> QED
    BY <1>0, <2>1 DEF Measured, RequestIsOnItsWay, IsDelivered
<1>7. CASE UNCHANGED vars
  BY <1>0, <1>7 DEF Measured, RequestIsOnItsWay, IsDelivered, vars
<1> QED
  BY <1>1, <1>2, <1>3, <1>4, <1>5, <1>6, <1>7 DEF Next, LoaderStep

LEMMA MeasuredInvariant == Spec => [](IInv /\ Measured)
<1>1. IInv /\ Measured /\ [Next]_vars => Measured'
  BY NextMeasured
<1> QED
  BY <1>1, InitInv, InitMeasured, NextKeeps, PTL DEF Spec

-----------------------------------------------------------------------------
(* The definitions as a table, in this state and in the next. *)
StageTable(t) ==
  /\ Exchange(t) \in {"handled", "sent", "over"}
  /\ Exchange(t) = "handled" <=> handling[t] # NoData
  /\ Exchange(t) = "sent" <=> handling[t] = NoData /\ RequestIsOnItsWay(t)
  /\ lpc[t] = "none" => Stage(t) = 0
  /\ lpc[t] = "connect" => Stage(t) = 1
  /\ lpc[t] = "send" => Stage(t) = 2
  /\ lpc[t] = "receive" /\ Exchange(t) = "sent" => Stage(t) = 3
  /\ lpc[t] = "receive" /\ Exchange(t) = "handled" => Stage(t) = 4
  /\ lpc[t] = "receive" /\ Exchange(t) = "over" => Stage(t) = 5
  /\ lpc[t] = "wait" => Stage(t) = 6
  /\ Ended(t) /\ Exchange(t) = "handled" => Stage(t) = 7
  /\ Ended(t) /\ Exchange(t) # "handled" => Stage(t) = 8

Table == \A t \in Loader : StageTable(t)

LEMMA StageIs == Table
<1> SUFFICES ASSUME NEW t PROVE StageTable(t)
  BY DEF Table
<1>1. /\ Exchange(t) \in {"handled", "sent", "over"}
      /\ Exchange(t) = "handled" <=> handling[t] # NoData
      /\ Exchange(t) = "sent" <=> handling[t] = NoData /\ RequestIsOnItsWay(t)
  BY DEF Exchange
<1>2. lpc[t] = "none" => Stage(t) = 0
  BY DEF Stage, Ended
<1>3. lpc[t] = "connect" => Stage(t) = 1
  BY DEF Stage, Ended
<1>4. lpc[t] = "send" => Stage(t) = 2
  BY DEF Stage, Ended
<1>5. lpc[t] = "receive" /\ Exchange(t) = "sent" => Stage(t) = 3
  BY DEF Stage, Ended
<1>6. lpc[t] = "receive" /\ Exchange(t) = "handled" => Stage(t) = 4
  BY DEF Stage, Ended
<1>7. lpc[t] = "receive" /\ Exchange(t) = "over" => Stage(t) = 5
  BY DEF Stage, Ended
<1>8. lpc[t] = "wait" => Stage(t) = 6
  BY DEF Stage, Ended
<1>9. Ended(t) /\ Exchange(t) = "handled" => Stage(t) = 7
  BY DEF Stage, Ended
<1>10. Ended(t) /\ Exchange(t) # "handled" => Stage(t) = 8
  BY DEF Stage, Ended
<1> QED
  BY <1>1, <1>2, <1>3, <1>4, <1>5, <1>6, <1>7, <1>8, <1>9, <1>10 DEF StageTable

LEMMA StageIsNext == Table'
  BY StageIs, PTL

(* What a step from one place to another does to the stage. *)
LEMMA StageStep ==
  ASSUME NEW t \in Loader
  PROVE  StageTable(t) /\ StageTable(t)'
  BY StageIs, StageIsNext DEF Table

StagesInRange ==
  /\ SyncStage \in 0 .. 4
  /\ \A t \in Loader : Stage(t) \in 0 .. 8 /\ Down(t) \in 0 .. 1 /\ LoaderStage(t) \in Nat
  /\ \A c \in ChunkId : ChunkStage(c) \in 0 .. 2

LEMMA StageRanges == IInv => StagesInRange
<1> SUFFICES ASSUME IInv PROVE StagesInRange
  OBVIOUS
<1>1. SyncStage \in 0 .. 4
  BY DEF SyncStage
<1>2. \A t \in Loader : Stage(t) \in 0 .. 8 /\ Down(t) \in 0 .. 1
  <2> SUFFICES ASSUME NEW t \in Loader PROVE Stage(t) \in 0 .. 8 /\ Down(t) \in 0 .. 1
    OBVIOUS
  <2>1. lpc[t] \in {"none", "connect", "send", "receive", "wait", "done", "gave up"}
    BY DEF IInv, TypeOK
  <2>2. Stage(t) \in {0, 1, 2, 3, 4, 5, 6, 7, 8}
    BY <2>1, StageStep DEF StageTable, Ended
  <2>3. Down(t) \in 0 .. 1
    BY DEF Down
  <2> QED
    BY <2>2, <2>3
<1>3. \A t \in Loader : LoaderStage(t) \in Nat
  <2>1. \A t \in Loader : cid[t] \in Nat
    BY DEF IInv, TypeOK
  <2> QED
    BY <1>2, <2>1 DEF LoaderStage
<1>4. \A c \in ChunkId : ChunkStage(c) \in 0 .. 2
  BY DEF ChunkStage
<1> QED
  BY <1>1, <1>2, <1>3, <1>4 DEF StagesInRange

LEMMA StageRangesNext == IInv' => StagesInRange'
  BY StageRanges, PTL

LEMMA LoaderFrame ==
  ASSUME NEW u, UNCHANGED <<lpc[u], cid[u], message[u], handling[u]>>, u \in up' <=> u \in up
  PROVE  LoaderStage(u)' = LoaderStage(u)
<1>1. RequestIsOnItsWay(u)' <=> RequestIsOnItsWay(u)
  BY DEF RequestIsOnItsWay
<1>2. Exchange(u)' = Exchange(u)
  BY <1>1 DEF Exchange
<1>3. Stage(u)' = Stage(u)
  BY <1>2 DEF Stage, Ended
<1>4. Down(u)' = Down(u)
  BY DEF Down
<1> QED
  BY <1>3, <1>4 DEF LoaderStage

LEMMA ChunkFrame ==
  ASSUME NEW c, UNCHANGED <<requests, posted>>
  PROVE  ChunkStage(c)' = ChunkStage(c)
  BY DEF ChunkStage, IsDelivered

(* A further stage with the same chunk is progress, whatever the           *)
(* connection does.                                                        *)
LEMMA FurtherStage ==
  ASSUME IInv, IInv', NEW t \in Loader, cid'[t] = cid[t], Stage(t) < Stage(t)'
  PROVE  LoaderStage(t) < LoaderStage(t)'
<1> DEFINE s == Stage(t)
           z == Stage(t)'
           d == Down(t)
           e == Down(t)'
           c == cid[t]
<1>1. s \in 0 .. 8 /\ d \in 0 .. 1 /\ z \in 0 .. 8 /\ e \in 0 .. 1 /\ c \in Nat
  BY StageRanges, StageRangesNext DEF IInv, TypeOK, StagesInRange
<1>2. LoaderStage(t) = 18 * c + 2 * s + d /\ LoaderStage(t)' = 18 * c + 2 * z + e /\ s < z
  BY DEF LoaderStage
<1> HIDE DEF s, z, d, e, c
<1> QED
  BY <1>1, <1>2

(* A step of one loader, its handler or its connection. *)
LEMMA OneGoesOn ==
  ASSUME IInv, IInv', NEW t \in Loader, LoaderStage(t) < LoaderStage(t)',
         UNCHANGED <<spc, requests, posted>>,
         \A u \in Loader : u # t =>
           UNCHANGED <<lpc[u], cid[u], message[u], handling[u]>> /\ (u \in up' <=> u \in up)
  PROVE  NothingGoesBack /\ SomethingGoesOn
<1>1. SyncStage' = SyncStage
  BY DEF SyncStage
<1>2. \A u \in Loader : LoaderStage(u)' = LoaderStage(u) \/ u = t
  BY LoaderFrame
<1>3. \A c \in ChunkId : ChunkStage(c)' = ChunkStage(c)
  BY ChunkFrame
<1> QED
  BY <1>1, <1>2, <1>3, StageRanges, StageRangesNext
     DEF NothingGoesBack, SomethingGoesOn, StagesInRange

LEMMA SyncGoesOn ==
  ASSUME IInv, Measured, IInv', Sync
  PROVE  NothingGoesBack /\ SomethingGoesOn
<1>1. SyncStage < SyncStage'
  BY DEF Sync, SyncOpen, SyncRequest, SyncSpawn, SyncStop, SyncStage
<1>2. \A u \in Loader : LoaderStage(u) <= LoaderStage(u)'
  <2>1. CASE SyncSpawn
    <3> SUFFICES ASSUME NEW u \in Loader PROVE LoaderStage(u) <= LoaderStage(u)'
      OBVIOUS
    <3>1. lpc[u] = "none" /\ lpc'[u] = "connect" /\ cid'[u] = cid[u]
      BY <2>1 DEF IInv, Phases, SyncSpawn
    <3>2. Stage(u) < Stage(u)'
      <4>1. Stage(u) = 0
        BY <3>1, StageStep DEF StageTable
      <4>2. Stage(u)' = 1
        BY <3>1, StageStep DEF StageTable
      <4> QED
        BY <4>1, <4>2
    <3> QED
      BY <3>1, <3>2, FurtherStage, StageRanges, StageRangesNext DEF StagesInRange
  <2>2. CASE UNCHANGED <<loader_vars, handling, link_vars>>
    BY <2>2, LoaderFrame, StageRanges DEF StagesInRange
  <2> QED
    BY <2>1, <2>2 DEF Sync, SyncOpen, SyncRequest, SyncStop
<1>3. \A c \in ChunkId : ChunkStage(c) <= ChunkStage(c)'
  <2>1. CASE SyncStop
    <3> SUFFICES ASSUME NEW c \in ChunkId PROVE ChunkStage(c) <= ChunkStage(c)'
      OBVIOUS
    <3>1. posted'[c] = NoData /\ IsDelivered(c)' = IsDelivered(c)
      BY <2>1, DeliveredFrame DEF SyncStop
    <3>2. posted[c] # NoData => IsDelivered(c)
      BY DEF Measured
    <3> QED
      BY <3>1, <3>2 DEF ChunkStage
  <2>2. CASE UNCHANGED <<requests, posted>>
    BY <2>2, ChunkFrame, StageRanges DEF StagesInRange
  <2> QED
    BY <2>1, <2>2 DEF Sync, SyncOpen, SyncRequest, SyncSpawn
<1> QED
  BY <1>1, <1>2, <1>3, StageRanges, StageRangesNext
     DEF NothingGoesBack, SomethingGoesOn, StagesInRange

LEMMA LoaderGoesOn ==
  ASSUME IInv, Measured, IInv', NEW t \in Loader,
         Connect(t) \/ SendRequest(t) \/ ReceiveFails(t) \/ LoopEnds(t) \/ WaitReturns(t)
  PROVE  NothingGoesBack /\ SomethingGoesOn
<1>1. UNCHANGED <<spc, cid, requests, posted, handling>>
  BY DEF Connect, SendRequest, ReceiveFails, LoopEnds, WaitReturns
<1>2. \A u \in Loader : u # t =>
        UNCHANGED <<lpc[u], message[u]>> /\ (u \in up' <=> u \in up)
  BY DEF IInv, TypeOK, Connect, SendRequest, ReceiveFails, LoopEnds, WaitReturns, GiveUp
<1>3. Stage(t) < Stage(t)'
  <2>1. CASE Connect(t)
    <3>1. lpc[t] = "connect" /\ lpc'[t] \in {"send", "gave up"}
      BY <2>1 DEF IInv, TypeOK, Connect, GiveUp
    <3>2. Stage(t) = 1
      BY <3>1, StageStep DEF StageTable
    <3>3. Stage(t)' \in {2, 7, 8}
      BY <3>1, StageStep DEF StageTable, Ended
    <3> QED
      BY <3>2, <3>3
  <2>2. CASE SendRequest(t)
    <3>1. lpc[t] = "send" /\ lpc'[t] \in {"receive", "gave up"}
      BY <2>2 DEF IInv, TypeOK, SendRequest, GiveUp
    <3>2. Stage(t) = 2
      BY <3>1, StageStep DEF StageTable
    <3>3. Stage(t)' \in {3, 4, 5, 7, 8}
      BY <3>1, StageStep DEF StageTable, Ended
    <3> QED
      BY <3>2, <3>3
  <2>3. CASE ReceiveFails(t)
    <3>1. lpc[t] = "receive" /\ lpc'[t] = "gave up"
      BY <2>3 DEF IInv, TypeOK, ReceiveFails, GiveUp
    <3>2. Stage(t) \in {3, 4, 5}
      BY <3>1, StageStep DEF StageTable
    <3>3. Stage(t)' \in {7, 8}
      BY <3>1, StageStep DEF StageTable, Ended
    <3> QED
      BY <3>2, <3>3
  <2>4. CASE LoopEnds(t)
    <3>1. lpc[t] = "send" /\ lpc'[t] = "wait"
      BY <2>4 DEF IInv, TypeOK, LoopEnds
    <3>2. Stage(t) = 2
      BY <3>1, StageStep DEF StageTable
    <3>3. Stage(t)' \in {6}
      BY <3>1, StageStep DEF StageTable, Ended
    <3> QED
      BY <3>2, <3>3
  <2>5. CASE WaitReturns(t)
    <3>1. lpc[t] = "wait" /\ lpc'[t] = "done"
      BY <2>5 DEF IInv, TypeOK, WaitReturns
    <3>2. Stage(t) = 6
      BY <3>1, StageStep DEF StageTable
    <3>3. Stage(t)' \in {7, 8}
      BY <3>1, StageStep DEF StageTable, Ended
    <3> QED
      BY <3>2, <3>3
  <2> QED
    BY <2>1, <2>2, <2>3, <2>4, <2>5
<1>4. LoaderStage(t) < LoaderStage(t)'
  BY <1>1, <1>3, FurtherStage
<1> QED
  BY <1>1, <1>2, <1>4, OneGoesOn

LEMMA ReceiveGoesOn ==
  ASSUME IInv, Measured, IInv', NEW t \in Loader, ReceiveChunk(t)
  PROVE  NothingGoesBack /\ SomethingGoesOn
<1> DEFINE c == cid[t]
<1>1. c \in ChunkId /\ c \in Nat /\ cid'[t] \in Nat /\ cid'[t] >= c + 1 /\ Of(t, c)
  <2>1. cid'[t] = NextChunk(c) /\ c \in Nat
    BY DEF IInv, TypeOK, ReceiveChunk
  <2>2. Of(t, c)
    BY DEF IInv, Shares, InItsShare
  <2>3. c \in ChunkId
    BY <2>1, ChunksAreNumbers DEF IInv, Shares, InItsShare, ReceiveChunk
  <2> HIDE DEF c
  <2>4. NextChunk(c) \in Nat /\ NextChunk(c) > c
    BY <2>1, <2>2, NextOfShare
  <2> QED
    BY <2>1, <2>2, <2>3, <2>4
<1>2. SyncStage' = SyncStage
  BY DEF SyncStage, ReceiveChunk
<1>3. \A u \in Loader : u # t => LoaderStage(u)' = LoaderStage(u)
  BY LoaderFrame DEF IInv, TypeOK, ReceiveChunk
<1>4. LoaderStage(t) < LoaderStage(t)'
  <2> DEFINE s == Stage(t)
             z == Stage(t)'
             d == Down(t)
             e == Down(t)'
             b == cid'[t]
  <2>1. s \in 0 .. 5 /\ d \in 0 .. 1 /\ z = 2 /\ e \in 0 .. 1
    <3>1. lpc[t] = "receive" /\ lpc'[t] = "send"
      BY DEF IInv, TypeOK, ReceiveChunk
    <3>2. s \in {3, 4, 5}
      BY <3>1, StageStep DEF StageTable
    <3>3. z = 2
      BY <3>1, StageStep DEF StageTable
    <3> QED
      BY <3>2, <3>3, StageRanges, StageRangesNext DEF StagesInRange
  <2>2. LoaderStage(t) = 18 * c + 2 * s + d /\ LoaderStage(t)' = 18 * b + 2 * z + e
    BY DEF LoaderStage
  <2>3. c \in Nat /\ b \in Nat /\ b >= c + 1
    BY <1>1
  <2> HIDE DEF s, z, d, e, c, b
  <2> QED
    BY <2>1, <2>2, <2>3
<1>5. \A b \in ChunkId : ChunkStage(b) <= ChunkStage(b)'
  <2> SUFFICES ASSUME NEW b \in ChunkId PROVE ChunkStage(b) <= ChunkStage(b)'
    OBVIOUS
  <2>1. CASE b = c
    <3>1. ASSUME NEW u \in Loader, c \in requests[u] PROVE FALSE
      <4>1. Of(u, c) /\ c < cid[u]
        BY <3>1 DEF IInv, Shares, InItsShare, ShareOf
      <4>2. u = t
        BY <1>1, <4>1, NotShared
      <4> QED
        BY <1>1, <4>1, <4>2
    <3>2. ~IsDelivered(c) /\ posted[c] = NoData
      BY <1>1, <3>1 DEF IsDelivered, Measured
    <3>3. ChunkStage(b) = 0
      BY <2>1, <3>2 DEF ChunkStage
    <3>4. ChunkStage(b)' \in 0 .. 2
      BY DEF ChunkStage
    <3> QED
      BY <3>3, <3>4
  <2>2. CASE b # c
    <3>1. posted'[b] = posted[b]
      BY <2>2 DEF IInv, TypeOK, ReceiveChunk
    <3>2. IsDelivered(b)' <=> IsDelivered(b)
      BY <2>2 DEF IInv, TypeOK, ReceiveChunk, IsDelivered
    <3> QED
      BY <3>1, <3>2 DEF ChunkStage
  <2> QED
    BY <2>1, <2>2
<1> QED
  BY <1>2, <1>3, <1>4, <1>5, StageRanges, StageRangesNext
     DEF NothingGoesBack, SomethingGoesOn, StagesInRange

LEMMA ServerGoesOn ==
  ASSUME IInv, Measured, IInv', NEW t \in Loader, ServerStep(t)
  PROVE  NothingGoesBack /\ SomethingGoesOn
<1>1. UNCHANGED <<spc, lpc, cid, requests, posted>>
  BY DEF ServerStep, HandleRequest, Respond
<1>2. \A u \in Loader : u # t =>
        UNCHANGED <<message[u], handling[u]>> /\ (u \in up' <=> u \in up)
  BY DEF IInv, TypeOK, ServerStep, HandleRequest, Respond
<1>3. Stage(t) < Stage(t)'
  <2>1. CASE HandleRequest(t)
    <3>1. lpc[t] = "receive" /\ Stage(t) = 3
      <4>1. lpc[t] = "receive" /\ handling[t] = NoData /\ RequestIsOnItsWay(t)
        BY <2>1 DEF IInv, Requests, AsksItsNext, HandleRequest, RequestIsOnItsWay
      <4> QED
        BY <4>1, StageStep DEF StageTable, Ended
    <3>2. ~RequestIsOnItsWay(t)'
      <4> DEFINE refusal == [type |-> "error"]
      <4>1. refusal.type = "error"
        OBVIOUS
      <4>2. message'[t] \in {NoMessage, refusal}
        BY <2>1 DEF IInv, TypeOK, HandleRequest
      <4> HIDE DEF refusal
      <4> QED
        BY <4>1, <4>2 DEF RequestIsOnItsWay
    <3>3. Stage(t)' \in {4, 5}
      BY <1>1, <3>1, <3>2, StageStep DEF StageTable, Ended
    <3> QED
      BY <3>1, <3>3
  <2>2. CASE Respond(t)
    <3>1. lpc[t] \in {"receive", "gave up"} /\ handling[t] # NoData /\ message[t] = NoMessage
      BY <2>2 DEF IInv, Requests, AsksItsNext, Respond
    <3>2. handling'[t] = NoData
      BY <2>2 DEF IInv, TypeOK, Respond
    <3>3. ~RequestIsOnItsWay(t)'
      <4>1. CASE t \notin up
        BY <2>2, <3>1, <4>1 DEF Respond, RequestIsOnItsWay
      <4>2. CASE t \in up
        <5>1. PICK d \in ChunkId :
                message' = [message EXCEPT ![t] =
                  [type |-> "chunk_response", chunk_id |-> handling[t], data |-> d]]
          BY <2>2, <4>2 DEF IInv, TypeOK, Respond
        <5>2. message'[t].type = "chunk_response"
          BY <5>1 DEF IInv, TypeOK
        <5> QED
          BY <5>2 DEF RequestIsOnItsWay
      <4> QED
        BY <4>1, <4>2
    <3> QED
      <4>1. lpc'[t] = lpc[t]
        BY <1>1
      <4>2. CASE lpc[t] = "receive"
        <5>1. Stage(t) = 4 /\ Stage(t)' = 5
          BY <3>1, <3>2, <3>3, <4>1, <4>2, StageStep DEF StageTable, Ended
        <5> QED
          BY <5>1
      <4>3. CASE lpc[t] = "gave up"
        <5>1. Stage(t) = 7 /\ Stage(t)' = 8
          BY <3>1, <3>2, <3>3, <4>1, <4>3, StageStep DEF StageTable, Ended
        <5> QED
          BY <5>1
      <4> QED
        BY <3>1, <4>2, <4>3
  <2> QED
    BY <2>1, <2>2 DEF ServerStep
<1>4. LoaderStage(t) < LoaderStage(t)'
  BY <1>1, <1>3, FurtherStage
<1> QED
  BY <1>1, <1>2, <1>4, OneGoesOn

LEMMA LinkGoesOn ==
  ASSUME IInv, Measured, IInv', NEW t \in Loader, LinkBreaks(t)
  PROVE  NothingGoesBack /\ SomethingGoesOn
<1>1. UNCHANGED <<spc, lpc, cid, requests, posted, handling>>
  BY DEF LinkBreaks
<1>2. \A u \in Loader : u # t => UNCHANGED message[u] /\ (u \in up' <=> u \in up)
  BY DEF IInv, TypeOK, LinkBreaks
<1>3. t \in up /\ t \notin up' /\ lpc[t] \in {"send", "receive", "wait"} /\ message'[t] = NoMessage
  BY DEF IInv, TypeOK, Phases, LinkBreaks
<1>4. LoaderStage(t) < LoaderStage(t)'
  <2> DEFINE s == Stage(t)
             z == Stage(t)'
             d == Down(t)
             e == Down(t)'
             c == cid[t]
  <2>1. s \in 0 .. 8 /\ z \in 0 .. 8 /\ c \in Nat /\ s <= z
    <3>1. s \in 0 .. 8 /\ z \in 0 .. 8 /\ c \in Nat
      BY StageRanges, StageRangesNext DEF StagesInRange, IInv, TypeOK
    <3>2. ~RequestIsOnItsWay(t)'
      BY <1>3 DEF RequestIsOnItsWay
    <3>3. s <= z
      <4>1. CASE lpc[t] \in {"send", "wait"}
        <5>1. lpc'[t] = lpc[t]
          BY <1>1
        <5>2. lpc[t] = "send" => s = 2 /\ z = 2
          BY <5>1, StageStep DEF StageTable
        <5>3. lpc[t] = "wait" => s = 6 /\ z = 6
          BY <5>1, StageStep DEF StageTable
        <5> QED
          BY <4>1, <5>2, <5>3
      <4>2. CASE lpc[t] = "receive"
        <5>1. lpc'[t] = "receive" /\ handling'[t] = handling[t]
          BY <1>1, <4>2
        <5>2. CASE handling[t] # NoData
          <6>1. s = 4
            BY <4>2, <5>2, StageStep DEF StageTable
          <6>2. z = 4
            BY <5>1, <5>2, StageStep DEF StageTable
          <6> QED
            BY <6>1, <6>2
        <5>3. CASE handling[t] = NoData
          <6>1. s \in {3, 5}
            BY <4>2, <5>3, StageStep DEF StageTable
          <6>2. z = 5
            BY <3>2, <5>1, <5>3, StageStep DEF StageTable
          <6> QED
            BY <6>1, <6>2
        <5> QED
          BY <5>2, <5>3
      <4> QED
        BY <1>3, <4>1, <4>2
    <3> QED
      BY <3>1, <3>3
  <2>2. d = 0 /\ e = 1
    BY <1>1, <1>3 DEF Down
  <2>3. LoaderStage(t) = 18 * c + 2 * s + d /\ LoaderStage(t)' = 18 * c + 2 * z + e
    BY <1>1 DEF LoaderStage
  <2> HIDE DEF s, z, d, e, c
  <2> QED
    BY <2>1, <2>2, <2>3
<1> QED
  BY <1>1, <1>2, <1>4, OneGoesOn

LEMMA WriterGoesOn ==
  ASSUME IInv, Measured, IInv', NEW c \in ChunkId, WriterStores(c)
  PROVE  NothingGoesBack /\ SomethingGoesOn
<1>1. SyncStage' = SyncStage
  BY DEF SyncStage, WriterStores
<1>2. \A u \in Loader : LoaderStage(u)' = LoaderStage(u)
  BY LoaderFrame DEF WriterStores
<1>3. ChunkStage(c) = 1 /\ ChunkStage(c)' = 2
  <2>1. posted[c] # NoData /\ posted'[c] = NoData /\ IsDelivered(c)
    BY DEF IInv, TypeOK, Measured, WriterStores
  <2>2. IsDelivered(c)'
    BY <2>1, DeliveredFrame DEF WriterStores
  <2> QED
    BY <2>1, <2>2 DEF ChunkStage
<1>4. \A b \in ChunkId : b # c => ChunkStage(b)' = ChunkStage(b)
  <2> SUFFICES ASSUME NEW b \in ChunkId, b # c PROVE ChunkStage(b)' = ChunkStage(b)
    OBVIOUS
  <2>1. posted'[b] = posted[b] /\ IsDelivered(b)' = IsDelivered(b)
    BY DeliveredFrame DEF IInv, TypeOK, WriterStores
  <2> QED
    BY <2>1 DEF ChunkStage
<1> QED
  BY <1>1, <1>2, <1>3, <1>4, StageRanges, StageRangesNext
     DEF NothingGoesBack, SomethingGoesOn, StagesInRange

(* Whatever fails and however the threads are scheduled, sync, the         *)
(* loaders, the handlers, the connections and the chunks only go forward   *)
(* through their stages, and every step is one of them going forward: no   *)
(* retry, no second delivery, nothing sent in circles.                     *)
THEOREM EveryStepIsProgressCorrect == Spec => EveryStepIsProgress
<1>1. ASSUME IInv, Measured, [Next]_vars, ~UNCHANGED vars
      PROVE  NothingGoesBack /\ SomethingGoesOn
  <2>1. IInv' /\ Next
    BY <1>1, NextKeeps
  <2> QED
    BY <1>1, <2>1, SyncGoesOn, LoaderGoesOn, ReceiveGoesOn, ServerGoesOn, LinkGoesOn,
       WriterGoesOn DEF Next, LoaderStep
<1>2. IInv /\ Measured /\ [Next]_vars => [NothingGoesBack /\ SomethingGoesOn]_vars
  BY <1>1
<1> QED
  BY <1>2, MeasuredInvariant, PTL DEF Spec, EveryStepIsProgress

(* The stages end: with EveryStepIsProgress, a transfer makes a number of  *)
(* steps only that its chunks and loaders bound.                           *)
THEOREM StagesAreBoundedCorrect == Spec => []StagesAreBounded
<1>1. IInv /\ Measured => StagesAreBounded
  <2> SUFFICES ASSUME IInv, Measured PROVE StagesAreBounded
    OBVIOUS
  <2>1. ASSUME NEW t \in Loader
        PROVE  LoaderStage(t) \in 0 .. 18 * (NumberOfChunks + NumberOfLoaders)
    <3> DEFINE s == Stage(t)
               d == Down(t)
               c == cid[t]
               n == NumberOfChunks + NumberOfLoaders
    <3>1. s \in 0 .. 8 /\ d \in 0 .. 1 /\ c \in Nat /\ n \in Nat /\ c < n
      <4>1. c \in Nat /\ n \in Nat
        <5>1. NumberOfChunks \in Nat /\ NumberOfLoaders \in Nat
          BY TransferAssumption
        <5>2. cid[t] \in Nat
          BY DEF IInv, TypeOK
        <5> QED
          BY <5>1, <5>2
      <4>2. c < n
        BY DEF Measured
      <4> QED
        BY <4>1, <4>2, StageRanges DEF StagesInRange
    <3>2. LoaderStage(t) = 18 * c + 2 * s + d
      BY DEF LoaderStage
    <3> HIDE DEF s, d, c, n
    <3>3. 18 * c + 2 * s + d \in 0 .. 18 * n
      BY <3>1
    <3> QED
      BY <3>2, <3>3 DEF n
  <2> QED
    BY <2>1, StageRanges DEF StagesAreBounded, StagesInRange
<1> QED
  BY <1>1, MeasuredInvariant, PTL

(* While sync waits for its loaders, each of them has ended, can take its  *)
(* next step, or waits for its handler or for the writer, and that one can *)
(* take a step: nobody waits for an answer or a write that will not come,  *)
(* whatever broke before.                                                  *)
THEOREM NobodyIsStuckCorrect == Spec => []NobodyIsStuck
<1>1. IInv /\ Measured => NobodyIsStuck
  <2> SUFFICES ASSUME IInv, Measured, spc = "join", NEW t \in Loader,
                      ~Ended(t), ~CanGoOn(t), ~HandlerCanGoOn(t)
               PROVE  WriterCanGoOn(t)
    BY DEF NobodyIsStuck
  <2>1. lpc[t] \in {"receive", "wait"}
    BY DEF IInv, TypeOK, Phases, Ended, CanGoOn
  <2>2. CASE lpc[t] = "receive"
    <3>1. handling[t] = NoData /\ (RequestIsOnItsWay(t) => t \notin up)
      BY DEF HandlerCanGoOn
    <3>2. ~RequestIsOnItsWay(t)
      BY <3>1 DEF Measured
    <3>3. message[t] = NoMessage /\ t \in up
      BY <2>2, <3>2 DEF CanGoOn, Broken, RequestIsOnItsWay
    <3> QED
      BY <2>2, <3>1, <3>3 DEF Measured, IsBeingAnswered
  <2>3. CASE lpc[t] = "wait"
    BY <2>3 DEF CanGoOn, Written, WriterCanGoOn
  <2> QED
    BY <2>1, <2>2, <2>3
<1> QED
  BY <1>1, MeasuredInvariant, PTL
=============================================================================
