-------------------------------- MODULE Link --------------------------------
(***************************************************************************)
(* One connection between a client and the server: the two                 *)
(* communication_contexts with their message_bridges and buffers, the      *)
(* server's connection_session, and the client's end of client::open,      *)
(* client::sync and client_impl::worker_thread.                            *)
(*                                                                         *)
(* A message is its header, the chunk id of its fixed part, and what was   *)
(* sent of its encrypted extra part.  A buffer has a size and, as the      *)
(* bytes it begins with, those of a chunk (written as its id), of the file *)
(* list, of an error's details, or others.  Encryption is in place: it     *)
(* leaves the sender with other bytes, and a message that arrives decrypts *)
(* to the bytes that were packed, unless the tag was put over them.        *)
(***************************************************************************)
EXTENDS MessageHeader, ChunkLayout

CONSTANTS
  Kind,             \* what the connection may be for: "open", "sync", "loader"
  NumberOfChunks,   \* that a loader asks for, one after the other
  ChunkSize,        \* of all chunks but the last
  LastSize,         \* of the last one
  ListSize,         \* of the packed file list
  InitialSize,      \* of a new connection's dynamic buffer (1 MiB)
  MayBreak,         \* may the connection break?
  List, Details, OtherBytes,
  NoMessage

DetailsSize == 8    \* of the empty string that is sent

(* Lists and details are written into the buffer as it is: it must be      *)
(* large enough.                                                           *)
ASSUME LinkAssumption ==
  /\ Kind \subseteq {"open", "sync", "loader"}
  /\ NumberOfChunks \in Nat
  /\ {ChunkSize, LastSize} \subseteq FittingSize \ {0}
  /\ ListSize \in FittingSize \ {0}
  /\ InitialSize \in Nat
  /\ ListSize <= InitialSize /\ DetailsSize <= InitialSize
  /\ MayBreak \in BOOLEAN

ChunkId == 0 .. NumberOfChunks - 1
Side    == {"client", "server"}
Bytes   == ChunkId \cup {List, Details, OtherBytes}
Buffer  == [size : Nat, bytes : Bytes]

request_type ==
  [open |-> "hello", sync |-> "download_file_session_request",
   loader |-> "chunk_request"]
reply_type ==
  [open |-> "list", sync |-> "download_file_session_response",
   loader |-> "chunk_response"]

RequestType == {request_type[k] : k \in Kind}

(* The messages with has_extra(). *)
HasExtra == {"list", "chunk_response", "error"}

message_type == {"none", "error"} \cup RequestType \cup {reply_type[k] : k \in Kind}

Header ==
  [type : message_type, extra : 0 .. block_size - 1, extra_blocks : 0 .. Word - 1]
Message ==
  [to : Side, header : Header, chunk_id : Nat, bytes : Bytes, length : Nat]

ASSUME NoMessageAssumption == NoMessage \notin Message

VARIABLES
  kind,             \* what this connection is for
  cpc,              \* where the client is
  asked,            \* the number of its request: a loader's chunk id
  got,              \* got[i]: the reply it accepted to request i
  spc,              \* where the session is
  c_request,        \* the chunk id of the request it handles
  header,           \* header[e]: the header in the bridge of side e
  dctx,             \* dctx[e]: the dynamic buffer there
  up,               \* the connection is up
  message,          \* what is on its way
  broke, refused    \* history: the connection broke, the server refused

history == <<broke, refused>>
vars == <<kind, cpc, asked, got, spc, c_request, header, dctx, up, message, history>>

(* Mutant: one request more. *)
OneTooMany == IF kind = "loader" THEN NumberOfChunks ELSE 0

LastRequest == IF kind = "loader" THEN NumberOfChunks - 1 ELSE 0
Request     == 0 .. LastRequest

NoHeader == [type |-> "none", extra |-> 0, extra_blocks |-> 0]
Empty    == [size |-> 0, bytes |-> OtherBytes]

Init ==
  /\ kind \in Kind
  /\ cpc = "send"
  /\ asked = 0
  /\ got = [i \in Request |-> NoMessage]
  /\ spc = "wait"
  /\ c_request = 0
  /\ header = [e \in Side |-> NoHeader]
  /\ dctx = [e \in Side |-> [size |-> InitialSize, bytes |-> OtherBytes]]
  /\ up = TRUE
  /\ message = NoMessage
  /\ broke = FALSE /\ refused = FALSE

Larger(m, n) == IF m > n THEN m ELSE n
Smaller(m, n) == IF m < n THEN m ELSE n
Other(e) == IF e = "client" THEN "server" ELSE "client"

-----------------------------------------------------------------------------
(* message_bridge and communication_context.                               *)

(* Mutant: the header keeps what was last sent or received. *)
KeepsHeader(h) == h

reset(h) == NoHeader

(* The header that write puts there, over h; size is that of the extra     *)
(* part, if there is one.                                                  *)
HeaderOver(h, type, size) ==
  LET set == set_extra_size(size)
  IN  IF type \in HasExtra
      THEN [type |-> type, extra |-> set.extra, extra_blocks |-> set.extra_blocks]
      ELSE [h EXCEPT !.type = type]

(* Mutant: the buffer is not made larger for the tag. *)
KeepsSize(d, h) == [d EXCEPT !.bytes = OtherBytes]

(* The buffer after encryption. *)
encrypt(d, h) ==
  IF h.extra_blocks # 0
  THEN [size |-> Larger(d.size, encypted_extra_size(h)), bytes |-> OtherBytes]
  ELSE d

(* The bytes that the receiver decrypts: the tag is in the last block. *)
Decrypted(d, h) ==
  IF get_extra_size(h) + block_size <= encypted_extra_size(h)
  THEN d.bytes ELSE OtherBytes

(* send on side e, over the header h and with the buffer d after packing.  *)
(* It writes only over a header that was reset.  On a connection that is   *)
(* down it fails, or returns true all the same, a part being buffered.     *)
send(e, h, type, chunk_id, d, size, result) ==
  /\ header' = [header EXCEPT ![e] = reset(HeaderOver(h, type, size))]
  /\ \/ /\ h.type # "none"
        /\ ~result
        /\ UNCHANGED <<dctx, message>>
     \/ /\ h.type = "none"
        /\ LET sent == HeaderOver(h, type, size)
               after == encrypt(d, sent)
           IN  /\ dctx' = [dctx EXCEPT ![e] = after]
               /\ \/ /\ up
                     /\ result
                     /\ message' =
                          [to |-> Other(e), header |-> sent, chunk_id |-> chunk_id,
                           bytes |-> Decrypted(d, sent),
                           length |-> Smaller(encypted_extra_size(sent), after.size)]
                  \/ ~up /\ UNCHANGED message

(* A message for e is there, with all of the extra part its header names. *)
Arrived(e) ==
  /\ message # NoMessage
  /\ message.to = e
  /\ message.length >= encypted_extra_size(message.header)

(* Nothing will arrive any more. *)
Disconnected(e) == ~up /\ ~Arrived(e)

(* The buffer after receive_extra_bytes. *)
Filled(d, m) ==
  LET expected == encypted_extra_size(m.header)
  IN  IF expected > 0
      THEN [size |-> Larger(d.size, expected), bytes |-> m.bytes] ELSE d
-----------------------------------------------------------------------------
(* The client.                                                             *)

SendRequest ==
  /\ cpc = "send"
  /\ asked \in Request
  /\ \E result \in BOOLEAN :
       /\ send("client", header["client"], request_type[kind], asked,
               dctx["client"], 0, result)
       /\ cpc' = IF result THEN "replace" ELSE "failed"
       /\ up' = (up /\ result)
  /\ UNCHANGED <<kind, asked, got, spc, c_request, history>>

(* The bytes of chunk c in a buffer of their size. *)
Chunk(c) ==
  [size |-> IF c = NumberOfChunks - 1 THEN LastSize ELSE ChunkSize, bytes |-> c]

(* A loader exchanges its buffer for one of the writer's pool: a new one,  *)
(* or one that another chunk was written from.                             *)
ReplaceBuffer ==
  /\ cpc = "replace"
  /\ IF kind = "loader"
     THEN \E d \in {Empty} \cup {Chunk(c) : c \in ChunkId \ {asked}} :
            dctx' = [dctx EXCEPT !["client"] = d]
     ELSE UNCHANGED dctx
  /\ cpc' = "receive"
  /\ UNCHANGED <<kind, asked, got, spc, c_request, header, up, message, history>>

Expected(m) ==
  /\ m.header.type = reply_type[kind]
  /\ kind = "loader" => m.chunk_id = asked

(* receive of the reply.  Extracting a chunk takes the buffer and cuts it  *)
(* to size; a list says itself how long it is.                             *)
ReceiveReply ==
  /\ cpc = "receive"
  /\ Arrived("client")
  /\ Expected(message)
  /\ LET filled == Filled(dctx["client"], message)
     IN  /\ got' = [got EXCEPT ![asked] = [type |-> message.header.type,
                                           size |-> get_extra_size(message.header),
                                           bytes |-> filled.bytes]]
         /\ dctx' = [dctx EXCEPT !["client"] =
                       IF kind = "loader" THEN Empty ELSE filled]
  /\ header' = [header EXCEPT !["client"] = reset(message.header)]
  /\ message' = NoMessage
  /\ asked' = asked + 1
  /\ cpc' = "send"
  /\ UNCHANGED <<kind, spc, c_request, up, history>>

(* An error message, or the connection is down: the client closes it. *)
ReceiveFails ==
  /\ cpc = "receive"
  /\ Disconnected("client") \/ (Arrived("client") /\ ~Expected(message))
  /\ cpc' = "failed"
  /\ up' = FALSE
  /\ message' = NoMessage
  /\ header' = [header EXCEPT !["client"] = NoHeader]
  /\ UNCHANGED <<kind, asked, got, spc, c_request, dctx, history>>

(* All is received; the connection is closed. *)
Finish ==
  /\ cpc = "send"
  /\ asked \notin Request
  /\ cpc' = "done"
  /\ up' = FALSE
  /\ UNCHANGED <<kind, asked, got, spc, c_request, header, dctx, message, history>>

-----------------------------------------------------------------------------
(* The session of the server.                                              *)

(* wait_for_msg; unlike receive, it reads an extra part into the buffer as *)
(* it is.  on_message_received reads the request into its handler, spc.    *)
ReceiveRequest ==
  /\ spc = "wait"
  /\ Arrived("server")
  /\ LET expected == encypted_extra_size(message.header)
     IN  spc' = IF expected <= dctx["server"].size
                THEN message.header.type ELSE "ended"
  /\ c_request' = message.chunk_id
  /\ header' = [header EXCEPT !["server"] = reset(message.header)]
  /\ message' = NoMessage
  /\ UNCHANGED <<kind, cpc, asked, got, dctx, up, history>>

(* The connection is down: nothing holds the session any more. *)
WaitFails ==
  /\ spc = "wait"
  /\ Disconnected("server")
  /\ spc' = "ended"
  /\ UNCHANGED <<kind, cpc, asked, got, c_request, header, dctx, up, message, history>>

(* A file or a session that is not there, or that cannot be opened. *)
Refuse ==
  /\ spc \in {"download_file_session_request", "chunk_request"}
  /\ spc' = "error"
  /\ refused' = TRUE
  /\ UNCHANGED <<kind, cpc, asked, got, c_request, header, dctx, up, message, broke>>

(* A list and details are written into the buffer as it is. *)
Packed(d, bytes) == [size |-> d.size, bytes |-> bytes]

on_hello ==
  /\ spc = "hello"
  /\ \E result \in BOOLEAN :
       /\ send("server", header["server"], "list", 0,
               Packed(dctx["server"], List), ListSize, result)
       /\ spc' = IF result THEN "wait" ELSE "error"
  /\ UNCHANGED <<kind, cpc, asked, got, c_request, up, history>>

on_download_file_request ==
  /\ spc = "download_file_session_request"
  /\ \E result \in BOOLEAN :
       /\ send("server", header["server"], "download_file_session_response", 0,
               dctx["server"], 0, result)
       /\ spc' = IF result THEN "wait" ELSE "error"
  /\ UNCHANGED <<kind, cpc, asked, got, c_request, up, history>>

(* The read cache has answered; the connection's buffer is taken out ... *)
on_chunk_request ==
  /\ spc = "chunk_request"
  /\ dctx' = [dctx EXCEPT !["server"] = Empty]
  /\ spc' = "respond"
  /\ UNCHANGED <<kind, cpc, asked, got, c_request, header, up, message, history>>

(* Mutant: the two buffers are swapped in the wrong order. *)
OldBuffer(c) == [size |-> InitialSize, bytes |-> OtherBytes]

ResponseData(c) == Chunk(c)

(* ... and the chunk's is packed in its place.  The result is ignored. *)
SendChunk ==
  /\ spc = "respond"
  /\ LET data == ResponseData(c_request)
     IN  \E result \in BOOLEAN :
           send("server", header["server"], "chunk_response", c_request,
                data, data.size, result)
  /\ spc' = "wait"
  /\ UNCHANGED <<kind, cpc, asked, got, c_request, up, history>>

(* The error path: the header is reset, an error message is sent if that   *)
(* is possible, and the connection is closed.                              *)
SendError ==
  /\ spc = "error"
  /\ \E result \in BOOLEAN :
       send("server", NoHeader, "error", 0,
            Packed(dctx["server"], Details), DetailsSize, result)
  /\ up' = FALSE
  /\ spc' = "ended"
  /\ UNCHANGED <<kind, cpc, asked, got, c_request, history>>

-----------------------------------------------------------------------------
(* The connection breaks; what was on its way arrives or is lost. *)
Break ==
  /\ MayBreak
  /\ up
  /\ up' = FALSE
  /\ broke' = TRUE
  /\ message' \in {message, NoMessage}
  /\ UNCHANGED <<kind, cpc, asked, got, spc, c_request, header, dctx, refused>>

ClientStep ==
  SendRequest \/ ReplaceBuffer \/ ReceiveReply \/ ReceiveFails \/ Finish

ServerStep ==
  \/ ReceiveRequest \/ WaitFails \/ Refuse \/ SendError
  \/ on_hello \/ on_download_file_request \/ on_chunk_request \/ SendChunk

Next == ClientStep \/ ServerStep \/ Break

Spec == Init /\ [][Next]_vars

(* Both threads go on when they can; nothing has to break. *)
FairSpec == Spec /\ WF_vars(ClientStep) /\ WF_vars(ServerStep)

-----------------------------------------------------------------------------
Reply == [type : message_type, size : Nat, bytes : Bytes]

(* The type invariant of the connection. *)
TypeOK ==
  /\ kind \in Kind
  /\ cpc \in {"send", "replace", "receive", "done", "failed"}
  /\ asked \in 0 .. LastRequest + 1
  /\ got \in [Request -> Reply \cup {NoMessage}]
  /\ spc \in {"wait", "respond", "error", "ended"} \cup RequestType
  /\ c_request \in {0} \cup Request
  /\ header \in [Side -> Header]
  /\ dctx \in [Side -> Buffer]
  /\ message \in Message \cup {NoMessage}
  /\ up \in BOOLEAN /\ broke \in BOOLEAN /\ refused \in BOOLEAN

(* The reply to request i. *)
Promised(i) ==
  [type |-> reply_type[kind],
   size |-> [open |-> ListSize, sync |-> 0, loader |-> Chunk(i).size][kind],
   bytes |-> [open |-> List, sync |-> OtherBytes, loader |-> i][kind]]

(* What the client accepts is the whole reply to the request it sent, with *)
(* the bytes of just this chunk or of the list: although the connection's, *)
(* the cache's and the writer's buffers of other sizes and with older      *)
(* chunks change places around send and receive (session.cpp:141-149,      *)
(* client_impl.cpp:57, message.cpp:75-85).                                 *)
ReplyIsWhole == \A i \in Request : got[i] \in {NoMessage, Promised(i)}

(* A client only fails when the connection broke or the server refused its *)
(* request.  In particular no send is refused because of what a header     *)
(* still holds of the message before (message_bridge.h:28), and no buffer  *)
(* is too small for a message (communication_context.cpp:26).              *)
FailureHasCause == cpc = "failed" => broke \/ refused

(* Whatever is sent next with an extra part, by either side over the       *)
(* header it has: what the receiver makes of the header (message.h:124) is *)
(* the size that the sender set, also where the number of blocks wraps:    *)
(* the subtraction then wraps back.                                        *)
SizeSurvives ==
  \A e \in Side, type \in HasExtra, size \in 0 .. block_size * Word - 1 :
    get_extra_size(HeaderOver(header[e], type, size)) = size

(* Whatever is sent next, of a size that fits: what is sent and expected   *)
(* (message.h:136) is nothing for a message without an extra part, of      *)
(* which no size sets the header, or with an empty one; and otherwise      *)
(* whole blocks with the tag in a block of its own, behind the content and *)
(* less than two blocks behind.                                            *)
RoomForTag ==
  \A e \in Side, type \in message_type \ {"none"}, size \in FittingSize :
    LET encrypted == encypted_extra_size(HeaderOver(header[e], type, size))
    IN  /\ encrypted % block_size = 0
        /\ (encrypted > 0) <=> (type \in HasExtra /\ size > 0)
        /\ encrypted > 0 => encrypted - size \in block_size .. 2 * block_size - 1

(* A loader collects the file: of any file with any size of chunks, the    *)
(* chunk that is asked for begins where the one before it ends, the first  *)
(* where the file does, is not empty, and if it is the last one ends with  *)
(* the file.  Hence preload, which seeks once and then reads on, finds     *)
(* what the writer is going to put at the offset it computes itself        *)
(* (file_read_cache.cpp:229, 245, 258, file_recombinator.cpp:201).  That   *)
(* holds up to the largest sizes: no product and no difference wraps.      *)
ChunksAreTheFile ==
  kind = "loader" =>
    \A file_size \in 1 .. UInt64 - 1, chunk_size \in 1 .. UInt64 - 1 :
      LET n       == number_of_chunks(file_size, chunk_size)
          at(id)  == get_offset(id, chunk_size)
          end(id) == end_of_chunk(file_size, id, chunk_size)
      IN  /\ n > 0
          /\ asked < n =>
               /\ at(asked) < end(asked)
               /\ at(asked) = (IF asked = 0 THEN 0 ELSE end(asked - 1))
               /\ (asked = n - 1) <=> (end(asked) = file_size)

(* receive returns: the session answers, with an error if need be, or the  *)
(* connection goes down, although on_chunk_request ignores that a response *)
(* could not be sent (session.cpp:149).                                    *)
ReceiveReturns == cpc = "receive" ~> cpc # "receive"
=============================================================================
