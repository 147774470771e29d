------------------------------ MODULE Transfer ------------------------------
(***************************************************************************)
(* One client::sync: the thread that calls it, its loader threads          *)
(* (client_impl::worker_thread), the connection of each loader to the      *)
(* server, and the server's handlers of these connections                  *)
(* (connection_session::on_chunk_request).                                 *)
(*                                                                         *)
(* The read cache and the writer are used by what they promise, which      *)
(* FileCache and FileRecombinator show of the code: a chunk that is asked  *)
(* for the first time in a session is answered with its bytes              *)
(* (ChunkService; asked for again, with any), and a delivery is done when  *)
(* it is in the file (ChunkStore, whose writes do not fail).  The bytes of *)
(* chunk c are written c.  A connection carries one message at a time: a   *)
(* loader sends a request only when it has the answer to the one before    *)
(* (Link says what becomes of it on the way).                              *)
(***************************************************************************)
EXTENDS Integers

CONSTANTS
  NumberOfChunks,     \* of the file, as the server counts them
  NumberOfLoaders,    \* client::config::number_of_loaders
  MayFail,            \* may connections, opening and sending fail?
  NoData,             \* no bytes
  NoMessage

(* With no loaders sync would return true and nothing would be written. *)
ASSUME TransferAssumption ==
  /\ NumberOfChunks \in Nat
  /\ NumberOfLoaders \in Nat \ {0}
  /\ MayFail \in BOOLEAN
  /\ NoData \notin Int

ChunkId == 0 .. NumberOfChunks - 1
Loader  == 0 .. NumberOfLoaders - 1

Message ==
  [type : {"chunk_request"}, chunk_id : ChunkId]
    \cup [type : {"chunk_response"}, chunk_id : ChunkId, data : ChunkId]
    \cup [type : {"error"}]

ASSUME NoMessageAssumption == NoMessage \notin Message

VARIABLES
  spc,              \* where client::sync is; "true" and "false" are its results
  session,          \* is the session's read cache open?
  lpc,              \* lpc[t]: where loader t is
  cid,              \* cid[t]: its loop variable
  requests,         \* requests[t]: the chunks it has delivered to the writer
  up,               \* the loaders whose connection is up
  message,          \* message[t]: what is on its way on that connection
  handling,         \* handling[t]: the chunk the server's handler is blocked on
  asked,            \* the chunks the session's read cache was asked for
  posted,           \* posted[c]: the bytes delivered for c, not yet written
  file              \* file[c]: the bytes of c in the client's file

loader_vars == <<lpc, cid, requests>>
server_vars == <<session, handling, asked>>
link_vars   == <<up, message>>
writer_vars == <<posted, file>>
vars == <<spc, loader_vars, server_vars, link_vars, writer_vars>>

Init ==
  /\ spc = "connect"
  /\ session = FALSE
  /\ lpc = [t \in Loader |-> "none"]
  /\ cid = [t \in Loader |-> t]
  /\ requests = [t \in Loader |-> {}]
  /\ up = {}
  /\ message = [t \in Loader |-> NoMessage]
  /\ handling = [t \in Loader |-> NoData]
  /\ asked = {}
  /\ posted = [c \in ChunkId |-> NoData]
  /\ file = [c \in ChunkId |-> NoData]

-----------------------------------------------------------------------------
(* client::sync.                                                           *)

(* The first connection, and the start of the writer. *)
SyncOpen ==
  /\ spc = "connect"
  /\ spc' = "request" \/ (MayFail /\ spc' = "false")
  /\ UNCHANGED <<loader_vars, server_vars, link_vars, writer_vars>>

(* The download_file_session_request.  The server may have opened the      *)
(* session although its answer does not arrive; and the answer may name a  *)
(* session that is not there, if another client's request came between     *)
(* (SessionRegistry).                                                      *)
SyncRequest ==
  /\ spc = "request"
  /\ \/ spc' = "spawn" /\ session' = TRUE
     \/ MayFail /\ spc' \in {"spawn", "false"} /\ session' \in BOOLEAN
  /\ UNCHANGED <<loader_vars, handling, asked, link_vars, writer_vars>>

(* The loaders are started. *)
SyncSpawn ==
  /\ spc = "spawn"
  /\ spc' = "join"
  /\ lpc' = [t \in Loader |-> "connect"]
  /\ UNCHANGED <<cid, requests, server_vars, link_vars, writer_vars>>

Ended(t) == lpc[t] \in {"done", "gave up"}

(* The loaders are joined; the writer is stopped, and drops what nobody    *)
(* waited for and it has not come to.  How the loaders ended is not looked *)
(* at.                                                                     *)
SyncStop ==
  /\ spc = "join"
  /\ \A t \in Loader : Ended(t)
  /\ spc' = "true"
  /\ \E dropped \in SUBSET ChunkId :
       file' = [c \in ChunkId |-> IF posted[c] # NoData /\ c \notin dropped
                                  THEN posted[c] ELSE file[c]]
  /\ posted' = [c \in ChunkId |-> NoData]
  /\ UNCHANGED <<loader_vars, server_vars, link_vars>>

-----------------------------------------------------------------------------
(* A loader.                                                               *)

(* It ends; its connection is closed with it. *)
GiveUp(t) ==
  /\ lpc' = [lpc EXCEPT ![t] = "gave up"]
  /\ up' = up \ {t}
  /\ message' = [message EXCEPT ![t] = NoMessage]

Connect(t) ==
  /\ lpc[t] = "connect"
  /\ \/ /\ lpc' = [lpc EXCEPT ![t] = "send"]
        /\ up' = up \cup {t}
        /\ UNCHANGED message
     \/ MayFail /\ GiveUp(t)
  /\ UNCHANGED <<spc, cid, requests, server_vars, writer_vars>>

HasMoreOrOne(t) == cid[t] <= NumberOfChunks
HasMore(t) == cid[t] < NumberOfChunks

(* cc.send of the next chunk_request.  On a broken connection it fails, or *)
(* returns true all the same (a part of it was sent, or only buffered).    *)
SendRequest(t) ==
  /\ lpc[t] = "send"
  /\ HasMore(t)
  /\ \/ /\ t \in up
        /\ message' = [message EXCEPT ![t] = [type |-> "chunk_request",
                                              chunk_id |-> cid[t]]]
        /\ lpc' = [lpc EXCEPT ![t] = "receive"]
        /\ UNCHANGED up
     \/ /\ t \notin up
        /\ lpc' = [lpc EXCEPT ![t] = "receive"]
        /\ UNCHANGED link_vars
     \/ t \notin up /\ GiveUp(t)
  /\ UNCHANGED <<spc, cid, requests, server_vars, writer_vars>>

SuccessorOf(c) == c + 1
NextChunk(c) == c + NumberOfLoaders

(* cc.receive of the response, write_chunk, and on to the next id. *)
ReceiveChunk(t) ==
  /\ lpc[t] = "receive"
  /\ message[t] # NoMessage
  /\ message[t].type = "chunk_response"
  /\ message[t].chunk_id = cid[t]
  /\ posted' = [posted EXCEPT ![cid[t]] = message[t].data]
  /\ requests' = [requests EXCEPT ![t] = @ \cup {cid[t]}]
  /\ cid' = [cid EXCEPT ![t] = NextChunk(@)]
  /\ message' = [message EXCEPT ![t] = NoMessage]
  /\ lpc' = [lpc EXCEPT ![t] = "send"]
  /\ UNCHANGED <<spc, up, server_vars, file>>

NeverBroken(t) == FALSE
Broken(t) == t \notin up /\ message[t] = NoMessage

(* An error message, an answer for another chunk, or a broken connection. *)
ReceiveFails(t) ==
  /\ lpc[t] = "receive"
  /\ \/ Broken(t)
     \/ /\ message[t] # NoMessage
        /\ message[t].type # "chunk_request"
        /\ message[t].type = "chunk_response" => message[t].chunk_id # cid[t]
  /\ GiveUp(t)
  /\ UNCHANGED <<spc, cid, requests, server_vars, writer_vars>>

(* The loop is over: it waits for its deliveries. *)
LoopEnds(t) ==
  /\ lpc[t] = "send"
  /\ ~HasMore(t)
  /\ lpc' = [lpc EXCEPT ![t] = "wait"]
  /\ UNCHANGED <<spc, cid, requests, server_vars, link_vars, writer_vars>>

NotAwaited(t) == TRUE
Written(t) == \A c \in requests[t] : posted[c] = NoData

(* They are written; its connection is closed. *)
WaitReturns(t) ==
  /\ lpc[t] = "wait"
  /\ Written(t)
  /\ lpc' = [lpc EXCEPT ![t] = "done"]
  /\ up' = up \ {t}
  /\ UNCHANGED <<spc, cid, requests, server_vars, message, writer_vars>>

-----------------------------------------------------------------------------
(* The server's handler of a loader's connection.                          *)

(* on_chunk_request: the session is looked up, and its cache is asked; the *)
(* error path sends an error message and closes the connection.            *)
HandleRequest(t) ==
  /\ t \in up
  /\ handling[t] = NoData
  /\ message[t] # NoMessage
  /\ message[t].type = "chunk_request"
  /\ \/ /\ session
        /\ handling' = [handling EXCEPT ![t] = message[t].chunk_id]
        /\ message' = [message EXCEPT ![t] = NoMessage]
        /\ UNCHANGED up
     \/ /\ ~session
        /\ message' = [message EXCEPT ![t] = [type |-> "error"]]
        /\ up' = up \ {t}
        /\ UNCHANGED handling
  /\ UNCHANGED <<spc, loader_vars, session, asked, writer_vars>>

(* read_data returns, the response is sent; whether that worked is not     *)
(* looked at.                                                              *)
Respond(t) ==
  LET c == handling[t] IN
  /\ c # NoData
  /\ handling' = [handling EXCEPT ![t] = NoData]
  /\ asked' = asked \cup {c}
  /\ \/ /\ t \in up
        /\ \E d \in IF c \in asked THEN ChunkId ELSE {c} :
             message' = [message EXCEPT ![t] = [type |-> "chunk_response",
                                                chunk_id |-> c, data |-> d]]
     \/ t \notin up /\ UNCHANGED message
  /\ UNCHANGED <<spc, loader_vars, session, up, writer_vars>>

-----------------------------------------------------------------------------
(* The connection of a loader breaks, with what is on its way. *)
LinkBreaks(t) ==
  /\ MayFail
  /\ t \in up
  /\ up' = up \ {t}
  /\ message' = [message EXCEPT ![t] = NoMessage]
  /\ UNCHANGED <<spc, loader_vars, server_vars, writer_vars>>

(* The writer writes a delivery. *)
WriterStores(c) ==
  /\ posted[c] # NoData
  /\ file' = [file EXCEPT ![c] = posted[c]]
  /\ posted' = [posted EXCEPT ![c] = NoData]
  /\ UNCHANGED <<spc, loader_vars, server_vars, link_vars>>

Sync == SyncOpen \/ SyncRequest \/ SyncSpawn \/ SyncStop

LoaderStep(t) ==
  \/ Connect(t) \/ SendRequest(t) \/ ReceiveChunk(t) \/ ReceiveFails(t)
  \/ LoopEnds(t) \/ WaitReturns(t)

ServerStep(t) == HandleRequest(t) \/ Respond(t)

Next ==
  \/ Sync
  \/ \E t \in Loader : LoaderStep(t) \/ ServerStep(t) \/ LinkBreaks(t)
  \/ \E c \in ChunkId : WriterStores(c)

Spec == Init /\ [][Next]_vars

(* Every thread that has a step to take gets to take it; the writer writes *)
(* what it was given (FileRecombinator!WaitReturns).  Connections need not *)
(* break, but one that broke is noticed by both ends.                      *)
FairSpec ==
  /\ Spec
  /\ WF_vars(Sync)
  /\ \A t \in Loader : WF_vars(LoaderStep(t)) /\ WF_vars(ServerStep(t))
  /\ \A c \in ChunkId : WF_vars(WriterStores(c))

-----------------------------------------------------------------------------
TypeOK ==
  /\ spc \in {"connect", "request", "spawn", "join", "true", "false"}
  /\ session \in BOOLEAN
  /\ lpc \in [Loader -> {"none", "connect", "send", "receive", "wait", "done",
                         "gave up"}]
  /\ cid \in [Loader -> Nat]
  /\ requests \in [Loader -> SUBSET ChunkId]
  /\ up \subseteq Loader
  /\ message \in [Loader -> Message \cup {NoMessage}]
  /\ handling \in [Loader -> ChunkId \cup {NoData}]
  /\ asked \subseteq ChunkId
  /\ posted \in [ChunkId -> ChunkId \cup {NoData}]
  /\ file \in [ChunkId -> ChunkId \cup {NoData}]

(* What FileCache needs of its callers (its RepeatReads = FALSE): whatever *)
(* fails, nothing makes the loaders ask a session for a chunk twice.       *)
AskedOnce ==
  \A t \in Loader :
    /\ handling[t] # NoData =>
         /\ handling[t] \notin asked
         /\ \A u \in Loader \ {t} : handling[u] # handling[t]
    /\ message[t] # NoMessage /\ message[t].type = "chunk_request" =>
         message[t].chunk_id \notin asked

(* A chunk of the file is right or missing; it is never another chunk's.   *)
FileIsRight == \A c \in ChunkId : file[c] \in {c, NoData}

(* If sync says true of a file that lacks a chunk, the loader whose share  *)
(* the chunk is gave up.                                                   *)
MissingMeansGaveUp ==
  spc = "true" =>
    \A c \in ChunkId :
      file[c] = NoData => lpc[c % NumberOfLoaders] = "gave up"

(* What the writer promises, all of sync promises: what a loader was told  *)
(* is written when it ended without giving up is in the file, and stays.   *)
Kept == {c \in ChunkId : file[c] = c}
Awaited == UNION {requests[t] : t \in {u \in Loader : lpc[u] = "done"}}

Store == INSTANCE ChunkStore WITH durable <- Kept, promised <- Awaited
ImplementsChunkStore == Store!Spec

(* sync returns, whatever happens to the connections. *)
SyncReturns == <>(spc \in {"true", "false"})

(* sync returned true: the file is the server's. *)
TrueMeansComplete == spc = "true" => \A c \in ChunkId : file[c] = c
=============================================================================
