----------------------------- MODULE LinkProofs -----------------------------
(***************************************************************************)
(* The safety of a connection, for all numbers and sizes of chunks, lists  *)
(* and buffers.  IInv is inductive: it says what the headers, the buffers, *)
(* the handler and the message on its way have to do with the request that *)
(* the client waits for.                                                   *)
(***************************************************************************)
EXTENDS Link, TLAPS

-----------------------------------------------------------------------------
(* What the operators on sizes compute, of messages and of chunks, for     *)
(* every width of a number and every size.                                 *)

(* What is in range is not changed by 32 bits. *)
LEMMA InRange == \A n \in Nat : n < Word => uint32(n) = n
  BY WordAssumption DEF uint32

(* One more than the largest wraps to 0, one less than 0 to the largest. *)
LEMMA Wraps == uint32(Word) = 0 /\ uint32(0 - 1) = Word - 1
  BY WordAssumption DEF uint32

(* 32 bits hold no other values. *)
LEMMA Bits == \A n \in Int : uint32(n) \in 0 .. Word - 1
  BY WordAssumption DEF uint32

(* A size in blocks and remainder (message.h:117-118). *)
LEMMA Split ==
  ASSUME NEW s \in Nat
  PROVE  /\ s \div block_size \in Nat
         /\ s % block_size \in 0 .. block_size - 1
         /\ s = (block_size * (s \div block_size)) + (s % block_size)
  BY DEF block_size

(* The header of a size: the remainder, and the number of blocks rounded   *)
(* up, which is 0 again when it is Word.                                   *)
LEMMA HeaderOf ==
  ASSUME NEW s \in 0 .. block_size * Word - 1,
         NEW q, q = s \div block_size,
         NEW r, r = s % block_size
  PROVE  /\ q \in 0 .. Word - 1
         /\ r \in 0 .. block_size - 1
         /\ s = (block_size * q) + r
         /\ set_extra_size(s).extra = r
         /\ r = 0 => set_extra_size(s).extra_blocks = q
         /\ r # 0 => /\ q + 1 < Word => set_extra_size(s).extra_blocks = q + 1
                     /\ q + 1 = Word => set_extra_size(s).extra_blocks = 0
  <1>1. s \in Nat /\ s < block_size * Word
    BY WordAssumption DEF block_size
  <1>2. /\ q \in Nat
        /\ r \in 0 .. block_size - 1
        /\ s = (block_size * q) + r
    BY <1>1, Split
  <1>3. q \in 0 .. Word - 1
    BY <1>1, <1>2, WordAssumption DEF block_size
  <1>4. uint32(r) = r /\ r \in Nat /\ uint32(q) = q
    BY <1>2, <1>3, InRange, WordAssumption DEF block_size
  <1>5. set_extra_size(s) =
          [extra |-> r,
           extra_blocks |-> uint32(q + (IF r # 0 THEN 1 ELSE 0))]
    BY <1>4 DEF set_extra_size
  <1>6. r = 0 => set_extra_size(s).extra_blocks = q
    BY <1>2, <1>4, <1>5
  <1>7. r # 0 /\ q + 1 < Word => set_extra_size(s).extra_blocks = q + 1
    BY <1>2, <1>5, InRange
  <1>8. r # 0 /\ q + 1 = Word => set_extra_size(s).extra_blocks = 0
    BY <1>5, Wraps
  <1> QED
    BY <1>2, <1>3, <1>5, <1>6, <1>7, <1>8

(* The fields of the header of any size are in range. *)
LEMMA FieldTypes ==
  ASSUME NEW s \in Nat
  PROVE  /\ set_extra_size(s).extra \in 0 .. block_size - 1
         /\ set_extra_size(s).extra_blocks \in 0 .. Word - 1
  <1> DEFINE r == s % block_size
             n == (s \div block_size) + (IF uint32(r) # 0 THEN 1 ELSE 0)
  <1>1. s \div block_size \in Nat /\ r \in 0 .. block_size - 1
    BY Split
  <1>2. uint32(r) = r
    BY <1>1, InRange, WordAssumption DEF block_size
  <1>3. uint32(n) \in 0 .. Word - 1
    BY <1>1, Bits
  <1>4. set_extra_size(s) = [extra |-> uint32(r), extra_blocks |-> uint32(n)]
    BY DEF set_extra_size
  <1> QED
    BY <1>1, <1>2, <1>3, <1>4

(* The receiver computes the size the sender set, for every size below     *)
(* Word blocks (message.h:114, 121).                                       *)
LEMMA RoundTrip ==
  ASSUME NEW s \in 0 .. block_size * Word - 1
  PROVE  get_extra_size(set_extra_size(s)) = s
  <1> DEFINE h == set_extra_size(s)
             q == s \div block_size
             r == s % block_size
  <1>1. /\ q \in 0 .. Word - 1
        /\ r \in 0 .. block_size - 1
        /\ s = (block_size * q) + r
        /\ h.extra = r
        /\ r = 0 => h.extra_blocks = q
        /\ r # 0 => /\ q + 1 < Word => h.extra_blocks = q + 1
                    /\ q + 1 = Word => h.extra_blocks = 0
    BY HeaderOf
  <1>2. uint32(h.extra_blocks - (IF h.extra # 0 THEN 1 ELSE 0)) = q
    <2> HIDE DEF h, q, r
    <2>1. CASE r = 0
      BY <1>1, <2>1, InRange, WordAssumption
    <2>2. CASE r # 0 /\ q + 1 < Word
      <3>1. h.extra_blocks - 1 = q /\ h.extra # 0
        BY <1>1, <2>2
      <3> QED
        BY <1>1, <3>1, InRange, WordAssumption
    <2>3. CASE r # 0 /\ q + 1 = Word
      <3>1. h.extra_blocks - 1 = 0 - 1 /\ h.extra # 0
        BY <1>1, <2>3
      <3> QED
        BY <1>1, <2>3, <3>1, Wraps, WordAssumption
    <2> QED
      BY <1>1, <2>1, <2>2, <2>3, WordAssumption
  <1>3. get_extra_size(h) = size_bytes(q) + r
    BY <1>1, <1>2 DEF get_extra_size
  <1> QED
    <2> HIDE DEF h, q, r
    <2>1. size_bytes(q) + r = s
      BY <1>1, WordAssumption DEF size_bytes, block_size
    <2> QED
      BY <1>3, <2>1 DEF h

(* The encrypted extra part: nothing for nothing, and otherwise whole      *)
(* blocks of which the last is the tag's (message.h:134).                  *)
LEMMA EncryptedSize ==
  ASSUME NEW s \in FittingSize,
         NEW encrypted, encrypted = encypted_extra_size(set_extra_size(s))
  PROVE  /\ encrypted \in Nat
         /\ encrypted % block_size = 0
         /\ (s = 0) <=> (encrypted = 0)
         /\ s > 0 => encrypted - s \in block_size .. 2 * block_size - 1
  <1> DEFINE h == set_extra_size(s)
             q == s \div block_size
             r == s % block_size
  <1>1. s \in 0 .. block_size * Word - 1
    BY WordAssumption DEF FittingSize, block_size
  <1>2. /\ q \in 0 .. Word - 1
        /\ r \in 0 .. block_size - 1
        /\ s = (block_size * q) + r
        /\ h.extra = r
        /\ r = 0 => h.extra_blocks = q
        /\ r # 0 => /\ q + 1 < Word => h.extra_blocks = q + 1
                    /\ q + 1 = Word => h.extra_blocks = 0
    BY <1>1, HeaderOf
  <1> HIDE DEF h, q, r
  <1>3. r # 0 => q + 1 < Word
    BY <1>2, WordAssumption DEF FittingSize, block_size
  <1>4. h.extra_blocks = q + (IF r # 0 THEN 1 ELSE 0)
    BY <1>2, <1>3, WordAssumption
  <1>5. encrypted = IF h.extra_blocks # 0
                    THEN (block_size * h.extra_blocks) + block_size ELSE 0
    BY <1>2, <1>4, WordAssumption
       DEF h, encypted_extra_size, size_bytes, block_size
  <1>6. encrypted % block_size = 0
    BY <1>2, <1>4, <1>5, WordAssumption DEF block_size
  <1>7. (s = 0) <=> (encrypted = 0)
    BY <1>2, <1>4, <1>5, WordAssumption DEF block_size
  <1>8. s > 0 => encrypted - s \in block_size .. 2 * block_size - 1
    BY <1>2, <1>4, <1>5, WordAssumption DEF block_size
  <1>9. encrypted \in Nat
    BY <1>2, <1>4, <1>5, WordAssumption DEF block_size
  <1> QED
    BY <1>6, <1>7, <1>8, <1>9

-----------------------------------------------------------------------------
(* Products keep the order. *)
LEMMA ProductOrder ==
  ASSUME NEW m \in Nat, NEW n \in Nat, NEW c \in Nat, m <= n
  PROVE  m * c <= n * c
  <1>1. PICK d \in Nat : n = m + d
    BY SMT
  <1>2. n * c = m * c + d * c /\ d * c >= 0
    BY <1>1
  <1> QED
    BY <1>2

(* A size that is divided into chunks. *)
LEMMA Division ==
  ASSUME NEW s \in Nat, NEW c \in Nat, c > 0,
         NEW q, q = s \div c,
         NEW r, r = s % c
  PROVE  q \in Nat /\ r \in 0 .. c - 1 /\ s = q * c + r
  <1>1. q \in Nat /\ r \in 0 .. c - 1
    BY SMT
  <1>2. s = c * q + r
    BY SMT
  <1>3. c * q = q * c
    BY <1>1
  <1> QED
    BY <1>1, <1>2, <1>3

(* A file is divided into n chunks: all but the last have the full size,   *)
(* the last has what is left, and that is not nothing.                     *)
LEMMA LastChunk ==
  ASSUME NEW s \in Nat, NEW c \in Nat, s > 0, c > 0,
         NEW n, n = number_of_chunks(s, c)
  PROVE  /\ n \in Nat /\ n > 0
         /\ (n - 1) * c < s
         /\ s <= (n - 1) * c + c
  <1> DEFINE q == s \div c
             r == s % c
  <1>1. q \in Nat /\ r \in 0 .. c - 1 /\ s = q * c + r
    BY Division
  <1>2. n = q + (IF r # 0 THEN 1 ELSE 0)
    BY DEF number_of_chunks
  <1> HIDE DEF q, r
  <1>3. CASE r # 0
    BY <1>1, <1>2, <1>3
  <1>4. CASE r = 0
    <2>1. q # 0
      BY <1>1, <1>4
    <2>2. n = q /\ (q - 1) * c + c = q * c
      BY <1>1, <1>2, <1>4
    <2> QED
      BY <1>1, <1>4, <2>1, <2>2
  <1> QED
    BY <1>3, <1>4

(* The files and chunks of all sizes that a number can have: the chunks    *)
(* lie one behind the other and end with the file.                         *)
LEMMA ChunksInOrder ==
  ASSUME NEW s \in 1 .. UInt64 - 1, NEW c \in 1 .. UInt64 - 1,
         NEW n, n = number_of_chunks(s, c)
  PROVE  /\ n \in Nat /\ n > 0
         /\ get_offset(0, c) = 0
         /\ \A id \in 0 .. n - 1 :
              /\ get_offset(id, c) < end_of_chunk(s, id, c)
              /\ id < n - 1 => /\ end_of_chunk(s, id, c) = get_offset(id + 1, c)
                               /\ end_of_chunk(s, id, c) < s
              /\ id = n - 1 => end_of_chunk(s, id, c) = s
  <1>1. s \in Nat /\ s > 0 /\ s < UInt64 /\ c \in Nat /\ c > 0 /\ UInt64 \in Nat
    BY UInt64Assumption
  <1>2. n \in Nat /\ n > 0 /\ (n - 1) * c < s /\ s <= (n - 1) * c + c
    BY <1>1, LastChunk
  <1>3. ASSUME NEW m \in Nat, m < UInt64
        PROVE  uint64(m) = m
    BY <1>3, UInt64Assumption DEF uint64
  <1>4. ASSUME NEW id \in 0 .. n - 1
        PROVE  /\ id * c \in Nat /\ id * c < s
               /\ get_offset(id, c) = id * c
    <2>1. id * c <= (n - 1) * c /\ id * c \in Nat
      BY <1>1, <1>2, ProductOrder
    <2>2. (n - 1) * c \in Nat
      BY <1>1, <1>2
    <2>3. id * c < s
      BY <1>1, <1>2, <2>1, <2>2
    <2> QED
      BY <1>1, <1>3, <2>1, <2>3 DEF get_offset
  <1>5. get_offset(0, c) = 0
    BY <1>1, <1>2, <1>4
  <1>6. ASSUME NEW id \in 0 .. n - 1,
               NEW at, at = get_offset(id, c),
               NEW end, end = end_of_chunk(s, id, c)
        PROVE  /\ at < end
               /\ id < n - 1 => end = get_offset(id + 1, c) /\ end < s
               /\ id = n - 1 => end = s
    <2>1. at = id * c /\ at \in Nat /\ at < s
      BY <1>4, <1>6
    <2>2. uint64(s - at) = s - at
      BY <1>1, <1>3, <2>1
    <2>3. end = IF s - at < c THEN s ELSE at + c
      BY <1>1, <1>6, <2>1, <2>2 DEF size_to_read, end_of_chunk
    <2>4. at < end
      BY <1>1, <2>1, <2>3
    <2>5. ASSUME id = n - 1
          PROVE  end = s
      BY <1>1, <1>2, <2>1, <2>3, <2>5
    <2>6. ASSUME id < n - 1
          PROVE  end = get_offset(id + 1, c) /\ end < s
      <3>1. get_offset(id + 1, c) = (id + 1) * c /\ (id + 1) * c < s
        BY <1>2, <1>4, <2>6
      <3>2. (id + 1) * c = id * c + c
        BY <1>1, <1>2
      <3> QED
        BY <1>1, <2>1, <2>3, <3>1, <3>2
    <2> QED
      BY <2>4, <2>5, <2>6
  <1> QED
    BY <1>2, <1>5, <1>6

-----------------------------------------------------------------------------
(* The connection. *)

(* There is a reason for a failure. *)
Cause == broke \/ refused

(* m is the request asked. *)
RightRequest(m) ==
  /\ m.to = "server"
  /\ m.header = [NoHeader EXCEPT !.type = request_type[kind]]
  /\ m.chunk_id = asked

(* m is the whole answer to it. *)
RightReply(m) ==
  /\ m.header.type = reply_type[kind]
  /\ kind = "loader" => m.chunk_id = asked
  /\ get_extra_size(m.header) = Promised(asked).size
  /\ IF kind = "sync" THEN encypted_extra_size(m.header) = 0
     ELSE encypted_extra_size(m.header) > 0 /\ m.bytes = Promised(asked).bytes

(* Between two operations both headers are reset; a client that gets no     *)
(* extra part keeps its buffer.                                            *)
Bridges ==
  /\ header = [e \in Side |-> NoHeader]
  /\ DOMAIN dctx = Side /\ dctx = [e \in Side |-> dctx[e]]
  /\ kind = "sync" => dctx["client"].bytes = OtherBytes

(* The client waits for one answer at a time. *)
Client ==
  /\ kind \in {"open", "sync", "loader"}
  /\ cpc \in {"send", "replace", "receive", "done", "failed"}
  /\ asked \in Nat
  /\ up \in BOOLEAN
  /\ cpc \in {"replace", "receive"} => asked \in Request
  /\ cpc \in {"done", "failed"} => ~up
  /\ cpc = "failed" => Cause
  /\ ~up => Cause \/ cpc = "done"

(* A handler works on the request that the client waits for. *)
Server ==
  /\ spc \notin {"wait", "ended"} =>
       cpc \in {"replace", "receive", "failed"} /\ message = NoMessage
  /\ spc = "error" => Cause
  /\ spc = "hello" => kind = "open"
  /\ spc = "download_file_session_request" => kind = "sync"
  /\ spc \in {"chunk_request", "respond"} =>
       kind = "loader" /\ c_request = asked /\ asked \in Request

(* What is on its way is that request, its answer, or an error for a       *)
(* reason.                                                                 *)
Wire ==
  message # NoMessage =>
    /\ cpc \in {"replace", "receive"}
    /\ spc \in {"wait", "ended"}
    /\ \/ RightRequest(message)
       \/ /\ message.to = "client"
          /\ RightReply(message) \/ (message.header.type = "error" /\ Cause)

Replies == DOMAIN got = Request /\ got = [i \in Request |-> got[i]] /\ ReplyIsWhole

IInv == Bridges /\ Client /\ Server /\ Wire /\ Replies

-----------------------------------------------------------------------------
(* Headers and sending. *)

(* A message without an extra part. *)
LEMMA PlainHeader ==
  ASSUME NEW type, type \notin HasExtra, NEW size,
         NEW h, h = HeaderOver(NoHeader, type, size)
  PROVE  /\ h = [NoHeader EXCEPT !.type = type]
         /\ h.type = type
         /\ h.extra_blocks = 0
         /\ get_extra_size(h) = 0
         /\ encypted_extra_size(h) = 0
  <1>1. h = [NoHeader EXCEPT !.type = type]
    BY DEF HeaderOver
  <1>2. h.type = type /\ h.extra = 0 /\ h.extra_blocks = 0
    BY <1>1 DEF NoHeader
  <1>3. uint32(0) = 0
    BY InRange, WordAssumption
  <1>4. get_extra_size(h) = 0
    BY <1>2, <1>3 DEF get_extra_size, size_bytes, block_size
  <1>5. encypted_extra_size(h) = 0
    BY <1>2 DEF encypted_extra_size
  <1> QED
    BY <1>1, <1>2, <1>4, <1>5

(* A message with one: its size arrives, and the tag spares its bytes. *)
LEMMA ExtraHeader ==
  ASSUME NEW type \in HasExtra, NEW size \in FittingSize \ {0}, NEW d,
         NEW h, h = HeaderOver(NoHeader, type, size)
  PROVE  /\ h.type = type
         /\ get_extra_size(h) = size
         /\ encypted_extra_size(h) > 0
         /\ Decrypted(d, h) = d.bytes
  <1> DEFINE set == set_extra_size(size)
  <1>1. h = [type |-> type, extra |-> set.extra, extra_blocks |-> set.extra_blocks]
    BY DEF HeaderOver
  <1>2. size \in 0 .. block_size * Word - 1 /\ size > 0
    BY WordAssumption DEF FittingSize, block_size
  <1>3. get_extra_size(h) = get_extra_size(set)
    BY <1>1 DEF get_extra_size
  <1>4. get_extra_size(h) = size
    BY <1>2, <1>3, RoundTrip
  <1>5. encypted_extra_size(h) = encypted_extra_size(set)
    BY <1>1 DEF encypted_extra_size
  <1>6. encypted_extra_size(set) - size \in block_size .. 2 * block_size - 1
    BY <1>2, EncryptedSize
  <1>7. (encypted_extra_size(set) = 0) <=> (size = 0)
    BY EncryptedSize
  <1>8. encypted_extra_size(set) \in Nat
    <2>1. size \in Nat
      BY <1>2, WordAssumption DEF block_size
    <2>2. set.extra_blocks \in Nat
      BY <2>1, FieldTypes, WordAssumption
    <2> QED
      BY <2>2 DEF encypted_extra_size, size_bytes, block_size
  <1>9. encypted_extra_size(h) > 0 /\ size + block_size <= encypted_extra_size(h)
    BY <1>2, <1>5, <1>6, <1>8 DEF block_size
  <1>10. Decrypted(d, h) = d.bytes
    BY <1>4, <1>9 DEF Decrypted
  <1> QED
    BY <1>1, <1>4, <1>9, <1>10

(* What send does from a header that was reset (communication_context.h:26). *)
LEMMA SendEffect ==
  ASSUME Bridges, NEW e \in Side, NEW type, NEW id, NEW d, NEW size,
         NEW result \in BOOLEAN, send(e, NoHeader, type, id, d, size, result),
         NEW sent, sent = HeaderOver(NoHeader, type, size)
  PROVE  /\ header' = header
         /\ dctx' = [dctx EXCEPT ![e] = encrypt(d, sent)]
         /\ \/ /\ up
               /\ result
               /\ message'.to = Other(e)
               /\ message'.header = sent
               /\ message'.chunk_id = id
               /\ message'.bytes = Decrypted(d, sent)
            \/ ~up /\ message' = message
  <1>1. header' = header
    BY DEF send, Bridges, reset
  <1>2. NoHeader.type = "none"
    BY DEF NoHeader
  <1> QED
    BY <1>1, <1>2 DEF send

(* Requests have no extra part. *)
LEMMA RequestsArePlain ==
  ASSUME Client
  PROVE  request_type[kind] \notin HasExtra
  <1>1. CASE kind = "open"
    BY <1>1 DEF request_type, HasExtra
  <1>2. CASE kind = "sync"
    BY <1>2 DEF request_type, HasExtra
  <1>3. CASE kind = "loader"
    BY <1>3 DEF request_type, HasExtra
  <1> QED
    BY <1>1, <1>2, <1>3 DEF Client

-----------------------------------------------------------------------------
(* Every step preserves IInv. *)

LEMMA InitInv == Init => IInv
  <1> SUFFICES ASSUME Init PROVE IInv
    OBVIOUS
  <1>1. Bridges
    BY DEF Init, Bridges, Side
  <1>2. Client
    BY LinkAssumption DEF Init, Client
  <1>3. Server /\ Wire
    BY DEF Init, Server, Wire
  <1>4. Replies
    BY DEF Init, Replies, ReplyIsWhole
  <1> QED
    BY <1>1, <1>2, <1>3, <1>4 DEF IInv

(* Most steps accept no reply. *)
LEMMA RepliesKept ==
  ASSUME Replies, UNCHANGED <<kind, got>>
  PROVE  Replies'
  BY DEF Replies, ReplyIsWhole, Request, LastRequest, Promised, Chunk

LEMMA SendRequestInv ==
  ASSUME IInv, SendRequest
  PROVE  IInv'
  <1> DEFINE sent == HeaderOver(NoHeader, request_type[kind], 0)
  <1>1. PICK result \in BOOLEAN :
          /\ send("client", header["client"], request_type[kind], asked,
                  dctx["client"], 0, result)
          /\ cpc' = IF result THEN "replace" ELSE "failed"
          /\ up' = (up /\ result)
    BY DEF SendRequest
  <1>2. /\ cpc = "send" /\ asked \in Request
        /\ UNCHANGED <<kind, asked, got, spc, c_request, broke, refused>>
    BY DEF SendRequest, history
  <1>3. header["client"] = NoHeader /\ "client" \in Side
    BY DEF IInv, Bridges, Side
  <1>4. sent = [NoHeader EXCEPT !.type = request_type[kind]] /\ sent.extra_blocks = 0
    BY PlainHeader, RequestsArePlain DEF IInv
  <1>5. /\ header' = header
        /\ dctx' = [dctx EXCEPT !["client"] = encrypt(dctx["client"], sent)]
        /\ \/ /\ up
              /\ result
              /\ message'.to = Other("client")
              /\ message'.header = sent
              /\ message'.chunk_id = asked
           \/ ~up /\ message' = message
    <2>1. send("client", NoHeader, request_type[kind], asked,
               dctx["client"], 0, result)
      BY <1>1, <1>3
    <2> QED
      BY <1>3, <2>1, SendEffect DEF IInv
  <1>6. dctx' = dctx
    BY <1>3, <1>4, <1>5 DEF IInv, Bridges, encrypt
  <1>7. message = NoMessage /\ spc \in {"wait", "ended"}
    BY <1>2 DEF IInv, Wire, Server
  <1>8. Bridges'
    BY <1>2, <1>5, <1>6 DEF IInv, Bridges
  <1>9. Client'
    BY <1>1, <1>2, <1>5 DEF IInv, Client, Cause, Request, LastRequest
  <1>10. Server'
    BY <1>2, <1>7 DEF IInv, Server
  <1>11. Wire'
    <2>1. CASE up
      BY <1>1, <1>2, <1>4, <1>5, <1>7, <2>1 DEF Wire, RightRequest, Other
    <2>2. CASE ~up
      BY <1>5, <1>7, <2>2 DEF Wire
    <2> QED
      BY <2>1, <2>2
  <1>12. Replies'
    BY <1>2, RepliesKept DEF IInv
  <1> QED
    BY <1>8, <1>9, <1>10, <1>11, <1>12 DEF IInv

LEMMA ReplaceBufferInv ==
  ASSUME IInv, ReplaceBuffer
  PROVE  IInv'
  <1>1. /\ cpc = "replace" /\ cpc' = "receive"
        /\ UNCHANGED <<kind, asked, got, spc, c_request, header, up, message,
                       broke, refused>>
    BY DEF ReplaceBuffer, history
  <1>2. Bridges'
    <2>1. CASE kind = "loader"
      <3>1. PICK d : dctx' = [dctx EXCEPT !["client"] = d]
        BY <2>1 DEF ReplaceBuffer
      <3> QED
        BY <1>1, <2>1, <3>1 DEF IInv, Bridges
    <2>2. CASE kind # "loader"
      BY <1>1, <2>2 DEF ReplaceBuffer, IInv, Bridges
    <2> QED
      BY <2>1, <2>2
  <1>3. Client'
    BY <1>1 DEF IInv, Client, Cause, Request, LastRequest
  <1>4. Server'
    BY <1>1 DEF IInv, Server, Cause, Request, LastRequest
  <1>5. Wire'
    BY <1>1 DEF IInv, Wire, RightRequest, RightReply, Cause, Promised, Chunk
  <1>6. Replies'
    BY <1>1, RepliesKept DEF IInv
  <1> QED
    BY <1>2, <1>3, <1>4, <1>5, <1>6 DEF IInv

LEMMA ReceiveReplyInv ==
  ASSUME IInv, ReceiveReply
  PROVE  IInv'
  <1> DEFINE filled == Filled(dctx["client"], message)
             reply == [type |-> message.header.type,
                       size |-> get_extra_size(message.header),
                       bytes |-> filled.bytes]
  <1>1. /\ cpc = "receive" /\ cpc' = "send"
        /\ message # NoMessage /\ message.to = "client" /\ Expected(message)
        /\ UNCHANGED <<kind, spc, c_request, up, broke, refused>>
        /\ got' = [got EXCEPT ![asked] = reply]
        /\ dctx' = [dctx EXCEPT !["client"] =
                       IF kind = "loader" THEN Empty ELSE filled]
        /\ header' = [header EXCEPT !["client"] = reset(message.header)]
        /\ message' = NoMessage
        /\ asked' = asked + 1
    BY DEF ReceiveReply, Arrived, history
  <1>2. spc \in {"wait", "ended"} /\ asked \in Request
    BY <1>1 DEF IInv, Wire, Client
  <1>3. RightReply(message)
    <2>1. message.header.type # "error"
      BY <1>1 DEF IInv, Client, Expected, reply_type
    <2> QED
      BY <1>1, <2>1 DEF IInv, Wire, RightRequest
  <1>4. kind = "sync" => filled = dctx["client"]
    BY <1>3 DEF RightReply, Filled
  <1>5. reply = Promised(asked)
    <2>1. reply.bytes = Promised(asked).bytes
      <3>1. CASE kind = "sync"
        BY <1>4, <3>1 DEF IInv, Bridges, Promised
      <3>2. CASE kind # "sync"
        BY <1>3, <3>2 DEF RightReply, Filled
      <3> QED
        BY <3>1, <3>2
    <2>2. reply.type = Promised(asked).type /\ reply.size = Promised(asked).size
      BY <1>3 DEF RightReply, Promised
    <2> QED
      BY <2>1, <2>2 DEF Promised
  <1>6. Bridges'
    BY <1>1, <1>4 DEF IInv, Bridges, reset
  <1>7. Client'
    BY <1>1 DEF IInv, Client, Cause, Request, LastRequest
  <1>8. Server'
    BY <1>1, <1>2 DEF IInv, Server
  <1>9. Wire'
    BY <1>1 DEF Wire
  <1>10. Replies'
    <2>1. \A i \in Request : got'[i] \in {NoMessage, Promised(i)}
      BY <1>1, <1>5 DEF IInv, Replies, ReplyIsWhole
    <2>2. Request' = Request /\ \A i \in Request : Promised(i)' = Promised(i)
      BY <1>1 DEF Request, LastRequest, Promised, Chunk
    <2>3. DOMAIN got' = Request /\ got' = [i \in Request |-> got'[i]]
      BY <1>1 DEF IInv, Replies
    <2> QED
      BY <2>1, <2>2, <2>3 DEF Replies, ReplyIsWhole
  <1> QED
    BY <1>6, <1>7, <1>8, <1>9, <1>10 DEF IInv

LEMMA ReceiveFailsInv ==
  ASSUME IInv, ReceiveFails
  PROVE  IInv'
  <1>1. /\ cpc = "receive" /\ cpc' = "failed" /\ up' = FALSE
        /\ message' = NoMessage
        /\ header' = [header EXCEPT !["client"] = NoHeader]
        /\ UNCHANGED <<kind, asked, got, spc, c_request, dctx, broke, refused>>
    BY DEF ReceiveFails, history
  <1>2. Cause
    <2>1. CASE Disconnected("client")
      BY <1>1, <2>1 DEF IInv, Client, Disconnected
    <2>2. CASE Arrived("client") /\ ~Expected(message)
      BY <2>2 DEF IInv, Wire, Arrived, RightRequest, RightReply, Expected
    <2> QED
      BY <2>1, <2>2 DEF ReceiveFails
  <1>3. Bridges'
    BY <1>1 DEF IInv, Bridges
  <1>4. Client'
    BY <1>1, <1>2 DEF IInv, Client, Cause
  <1>5. Server'
    BY <1>1 DEF IInv, Server, Cause, Request, LastRequest
  <1>6. Wire'
    BY <1>1 DEF Wire
  <1>7. Replies'
    BY <1>1, RepliesKept DEF IInv
  <1> QED
    BY <1>3, <1>4, <1>5, <1>6, <1>7 DEF IInv

LEMMA FinishInv ==
  ASSUME IInv, Finish
  PROVE  IInv'
  <1>1. /\ cpc = "send" /\ cpc' = "done" /\ up' = FALSE
        /\ UNCHANGED <<kind, asked, got, spc, c_request, header, dctx, message,
                       broke, refused>>
    BY DEF Finish, history
  <1>2. Bridges' /\ Client'
    BY <1>1 DEF IInv, Bridges, Client, Cause
  <1>3. Server' /\ Wire'
    BY <1>1 DEF IInv, Server, Wire, Cause
  <1>4. Replies'
    BY <1>1, RepliesKept DEF IInv
  <1> QED
    BY <1>2, <1>3, <1>4 DEF IInv

LEMMA ReceiveRequestInv ==
  ASSUME IInv, ReceiveRequest
  PROVE  IInv'
  <1>1. /\ spc = "wait" /\ spc' \in {message.header.type, "ended"}
        /\ message # NoMessage /\ message.to = "server"
        /\ c_request' = message.chunk_id
        /\ header' = [header EXCEPT !["server"] = reset(message.header)]
        /\ message' = NoMessage
        /\ UNCHANGED <<kind, cpc, asked, got, dctx, up, broke, refused>>
    BY DEF ReceiveRequest, Arrived, history
  <1>2. RightRequest(message) /\ cpc \in {"replace", "receive"}
    BY <1>1 DEF IInv, Wire
  <1>3. message.header.type = request_type[kind] /\ message.chunk_id = asked
    BY <1>2 DEF RightRequest, NoHeader
  <1>4. Bridges'
    BY <1>1 DEF IInv, Bridges, reset
  <1>5. Client'
    BY <1>1 DEF IInv, Client, Cause, Request, LastRequest
  <1>6. Server'
    <2>1. spc' \in {"ended", "hello", "download_file_session_request", "chunk_request"}
      BY <1>1, <1>3 DEF IInv, Client, request_type
    <2>2. /\ spc' = "hello" => kind = "open"
          /\ spc' = "download_file_session_request" => kind = "sync"
          /\ spc' = "chunk_request" => kind = "loader"
      BY <1>1, <1>3 DEF IInv, Client, request_type
    <2>3. asked \in Request /\ Request' = Request
      BY <1>1, <1>2 DEF IInv, Client, Request, LastRequest
    <2> QED
      BY <1>1, <1>2, <1>3, <2>1, <2>2, <2>3 DEF Server
  <1>7. Wire'
    BY <1>1 DEF Wire
  <1>8. Replies'
    BY <1>1, RepliesKept DEF IInv
  <1> QED
    BY <1>4, <1>5, <1>6, <1>7, <1>8 DEF IInv

LEMMA WaitFailsInv ==
  ASSUME IInv, WaitFails
  PROVE  IInv'
  <1>1. /\ spc' = "ended"
        /\ UNCHANGED <<kind, cpc, asked, got, c_request, header, dctx, up, message,
                       broke, refused>>
    BY DEF WaitFails, history
  <1>2. Bridges' /\ Client' /\ Server'
    BY <1>1 DEF IInv, Bridges, Client, Server, Cause, Request, LastRequest
  <1>3. Wire'
    BY <1>1 DEF IInv, Wire, RightRequest, RightReply, Cause, Promised, Chunk
  <1>4. Replies'
    BY <1>1, RepliesKept DEF IInv
  <1> QED
    BY <1>2, <1>3, <1>4 DEF IInv

LEMMA RefuseInv ==
  ASSUME IInv, Refuse
  PROVE  IInv'
  <1>1. /\ spc \notin {"wait", "ended"} /\ spc' = "error" /\ refused'
        /\ UNCHANGED <<kind, cpc, asked, got, c_request, header, dctx, up, message,
                       broke>>
    BY DEF Refuse
  <1>2. message = NoMessage /\ cpc \in {"replace", "receive", "failed"}
    BY <1>1 DEF IInv, Server
  <1>3. Bridges' /\ Client'
    BY <1>1 DEF IInv, Bridges, Client, Cause, Request, LastRequest
  <1>4. Server' /\ Wire'
    BY <1>1, <1>2 DEF Server, Wire, Cause
  <1>5. Replies'
    BY <1>1, RepliesKept DEF IInv
  <1> QED
    BY <1>3, <1>4, <1>5 DEF IInv

(* A handler that sends leaves its bridge reset and the client's alone.    *)
(* If the connection is up the client waits, and the message is sent.      *)
LEMMA ServerSends ==
  ASSUME IInv, spc \notin {"wait", "ended"},
         NEW type, NEW id, NEW d, NEW size, NEW result \in BOOLEAN,
         NEW h, h = NoHeader \/ h = header["server"],
         send("server", h, type, id, d, size, result),
         UNCHANGED <<kind, cpc, asked, got, c_request, broke, refused>>,
         NEW sent, sent = HeaderOver(NoHeader, type, size)
  PROVE  /\ Bridges'
         /\ Replies'
         /\ \/ /\ up
               /\ result
               /\ cpc \in {"replace", "receive"} /\ asked \in Request
               /\ message'.to = "client"
               /\ message'.header = sent
               /\ message'.chunk_id = id
               /\ message'.bytes = Decrypted(d, sent)
            \/ ~up /\ Cause /\ message' = NoMessage
  <1>1. h = NoHeader /\ "server" \in Side
    BY DEF IInv, Bridges, Side
  <1>2. /\ header' = header
        /\ dctx' = [dctx EXCEPT !["server"] = encrypt(d, sent)]
        /\ \/ /\ up
              /\ result
              /\ message'.to = Other("server")
              /\ message'.header = sent
              /\ message'.chunk_id = id
              /\ message'.bytes = Decrypted(d, sent)
           \/ ~up /\ message' = message
    <2>1. send("server", NoHeader, type, id, d, size, result)
      BY <1>1
    <2> QED
      BY <1>1, <2>1, SendEffect DEF IInv
  <1>3. message = NoMessage /\ cpc \in {"replace", "receive", "failed"}
    BY DEF IInv, Server
  <1>4. up => cpc \in {"replace", "receive"} /\ asked \in Request
    BY <1>3 DEF IInv, Client
  <1>5. ~up => Cause
    BY <1>3 DEF IInv, Client
  <1>6. Bridges'
    BY <1>2 DEF IInv, Bridges
  <1>7. Replies'
    BY RepliesKept DEF IInv
  <1> QED
    BY <1>2, <1>3, <1>4, <1>5, <1>6, <1>7 DEF Other

(* The states in which a reply was sent, or could not be. *)
LEMMA Replied ==
  ASSUME IInv, spc \notin {"wait", "ended"}, Bridges', Replies',
         UNCHANGED <<kind, cpc, asked, got, c_request, up, broke, refused>>,
         \/ /\ up
            /\ cpc \in {"replace", "receive"}
            /\ message'.to = "client"
            /\ RightReply(message)'
            /\ spc' = "wait"
         \/ ~up /\ Cause /\ message' = NoMessage /\ spc' \in {"wait", "error"}
  PROVE  IInv'
  <1>1. cpc \in {"replace", "receive", "failed"}
    BY DEF IInv, Server
  <1>2. Client'
    BY DEF IInv, Client, Cause, Request, LastRequest
  <1>3. Server'
    BY <1>1 DEF Server, Cause
  <1>4. Wire'
    BY DEF Wire
  <1> QED
    BY <1>2, <1>3, <1>4 DEF IInv

LEMMA HelloInv ==
  ASSUME IInv, on_hello
  PROVE  IInv'
  <1> DEFINE d == Packed(dctx["server"], List)
             sent == HeaderOver(NoHeader, "list", ListSize)
  <1>1. PICK result \in BOOLEAN :
          /\ send("server", header["server"], "list", 0, d, ListSize, result)
          /\ spc' = IF result THEN "wait" ELSE "error"
    BY DEF on_hello
  <1>2. /\ spc = "hello"
        /\ UNCHANGED <<kind, cpc, asked, got, c_request, up, broke, refused>>
    BY DEF on_hello, history
  <1>3. kind = "open"
    BY <1>2 DEF IInv, Server
  <1>4. d.bytes = List
    BY DEF Packed
  <1> HIDE DEF d
  <1>5. /\ sent.type = "list"
        /\ get_extra_size(sent) = ListSize
        /\ encypted_extra_size(sent) > 0
        /\ Decrypted(d, sent) = d.bytes
    <2>1. "list" \in HasExtra
      BY DEF HasExtra
    <2>2. ListSize \in FittingSize \ {0}
      BY LinkAssumption
    <2> QED
      BY <2>1, <2>2, ExtraHeader
  <1> HIDE DEF sent
  <1>6. /\ Bridges'
        /\ Replies'
        /\ \/ /\ up
              /\ result
              /\ cpc \in {"replace", "receive"}
              /\ message'.to = "client"
              /\ message'.header = sent
              /\ message'.bytes = Decrypted(d, sent)
           \/ ~up /\ Cause /\ message' = NoMessage
    BY <1>1, <1>2, ServerSends DEF sent
  <1>7. up => RightReply(message)'
    BY <1>2, <1>3, <1>4, <1>5, <1>6 DEF RightReply, reply_type, Promised
  <1> QED
    BY <1>1, <1>2, <1>6, <1>7, Replied

LEMMA DownloadInv ==
  ASSUME IInv, on_download_file_request
  PROVE  IInv'
  <1> DEFINE type == "download_file_session_response"
             sent == HeaderOver(NoHeader, type, 0)
  <1>1. PICK result \in BOOLEAN :
          /\ send("server", header["server"], type, 0, dctx["server"], 0, result)
          /\ spc' = IF result THEN "wait" ELSE "error"
    BY DEF on_download_file_request
  <1>2. /\ spc = "download_file_session_request"
        /\ UNCHANGED <<kind, cpc, asked, got, c_request, up, broke, refused>>
    BY DEF on_download_file_request, history
  <1>3. kind = "sync"
    BY <1>2 DEF IInv, Server
  <1>4. /\ sent.type = "download_file_session_response"
        /\ get_extra_size(sent) = 0
        /\ encypted_extra_size(sent) = 0
    BY PlainHeader DEF HasExtra
  <1> HIDE DEF sent
  <1>5. /\ Bridges'
        /\ Replies'
        /\ \/ /\ up
              /\ result
              /\ cpc \in {"replace", "receive"}
              /\ message'.to = "client"
              /\ message'.header = sent
           \/ ~up /\ Cause /\ message' = NoMessage
    BY <1>1, <1>2, ServerSends DEF sent
  <1>6. up => RightReply(message)'
    BY <1>2, <1>3, <1>4, <1>5 DEF RightReply, reply_type, Promised
  <1> QED
    BY <1>1, <1>2, <1>5, <1>6, Replied

LEMMA ChunkRequestInv ==
  ASSUME IInv, on_chunk_request
  PROVE  IInv'
  <1>1. /\ spc = "chunk_request" /\ spc' = "respond"
        /\ dctx' = [dctx EXCEPT !["server"] = Empty]
        /\ UNCHANGED <<kind, cpc, asked, got, c_request, header, up, message,
                       broke, refused>>
    BY DEF on_chunk_request, history
  <1>2. Bridges'
    BY <1>1 DEF IInv, Bridges
  <1>3. Client' /\ Server'
    BY <1>1 DEF IInv, Client, Server, Cause, Request, LastRequest
  <1>4. Wire'
    BY <1>1 DEF IInv, Server, Wire
  <1>5. Replies'
    BY <1>1, RepliesKept DEF IInv
  <1> QED
    BY <1>2, <1>3, <1>4, <1>5 DEF IInv

LEMMA SendChunkInv ==
  ASSUME IInv, SendChunk
  PROVE  IInv'
  <1> DEFINE d == Chunk(c_request)
             sent == HeaderOver(NoHeader, "chunk_response", d.size)
  <1>1. PICK result \in BOOLEAN :
          send("server", header["server"], "chunk_response", c_request, d,
               d.size, result)
    BY DEF SendChunk, ResponseData
  <1>2. /\ spc = "respond" /\ spc' = "wait"
        /\ UNCHANGED <<kind, cpc, asked, got, c_request, up, broke, refused>>
    BY DEF SendChunk, history
  <1>3. kind = "loader" /\ c_request = asked
    BY <1>2 DEF IInv, Server
  <1>4. d.bytes = asked /\ d.size \in FittingSize \ {0} /\ d = Chunk(asked)
    BY <1>3, LinkAssumption DEF Chunk
  <1> HIDE DEF d
  <1>5. /\ sent.type = "chunk_response"
        /\ get_extra_size(sent) = d.size
        /\ encypted_extra_size(sent) > 0
        /\ Decrypted(d, sent) = d.bytes
    <2>1. "chunk_response" \in HasExtra
      BY DEF HasExtra
    <2> QED
      BY <1>4, <2>1, ExtraHeader
  <1> HIDE DEF sent
  <1>6. /\ Bridges'
        /\ Replies'
        /\ \/ /\ up
              /\ cpc \in {"replace", "receive"}
              /\ message'.to = "client"
              /\ message'.header = sent
              /\ message'.chunk_id = c_request
              /\ message'.bytes = Decrypted(d, sent)
           \/ ~up /\ Cause /\ message' = NoMessage
    BY <1>1, <1>2, ServerSends DEF sent
  <1>7. Promised(asked)' = Promised(asked)
    BY <1>2 DEF Promised, Chunk
  <1>8. Promised(asked).size = d.size /\ Promised(asked).bytes = asked
    BY <1>3, <1>4 DEF Promised
  <1>9. up => RightReply(message)'
    BY <1>2, <1>3, <1>4, <1>5, <1>6, <1>7, <1>8 DEF RightReply, reply_type
  <1> QED
    BY <1>2, <1>6, <1>9, Replied

LEMMA SendErrorInv ==
  ASSUME IInv, SendError
  PROVE  IInv'
  <1> DEFINE d == Packed(dctx["server"], Details)
             sent == HeaderOver(NoHeader, "error", DetailsSize)
  <1>1. PICK result \in BOOLEAN :
          send("server", NoHeader, "error", 0, d, DetailsSize, result)
    BY DEF SendError
  <1>2. /\ spc = "error" /\ spc' = "ended" /\ up' = FALSE
        /\ UNCHANGED <<kind, cpc, asked, got, c_request, broke, refused>>
    BY DEF SendError, history
  <1>3. Cause /\ cpc \in {"replace", "receive", "failed"}
    BY <1>2 DEF IInv, Server
  <1>4. sent.type = "error"
    BY DEF HeaderOver, HasExtra
  <1> HIDE DEF d, sent
  <1>5. /\ Bridges'
        /\ Replies'
        /\ \/ /\ up
              /\ cpc \in {"replace", "receive"}
              /\ message'.to = "client"
              /\ message'.header = sent
           \/ ~up /\ message' = NoMessage
    BY <1>1, <1>2, ServerSends DEF sent
  <1>6. Client'
    BY <1>2, <1>3 DEF IInv, Client, Cause, Request, LastRequest
  <1>7. Server'
    BY <1>2 DEF Server
  <1>8. Wire'
    BY <1>2, <1>3, <1>4, <1>5 DEF Wire, Cause
  <1> QED
    BY <1>5, <1>6, <1>7, <1>8 DEF IInv

LEMMA BreakInv ==
  ASSUME IInv, Break
  PROVE  IInv'
  <1>1. /\ up' = FALSE /\ broke' /\ message' \in {message, NoMessage}
        /\ UNCHANGED <<kind, cpc, asked, got, spc, c_request, header, dctx, refused>>
    BY DEF Break
  <1>2. Bridges' /\ Client' /\ Server'
    BY <1>1 DEF IInv, Bridges, Client, Server, Cause, Request, LastRequest
  <1>3. Wire'
    BY <1>1 DEF IInv, Wire, RightRequest, RightReply, Cause, Promised, Chunk
  <1>4. Replies'
    BY <1>1, RepliesKept DEF IInv
  <1> QED
    BY <1>2, <1>3, <1>4 DEF IInv

LEMMA StutterInv ==
  ASSUME IInv, UNCHANGED vars
  PROVE  IInv'
  <1>1. UNCHANGED <<kind, cpc, asked, got, spc, c_request, header, dctx, up, message,
                    broke, refused>>
    BY DEF vars, history
  <1>2. Bridges' /\ Client' /\ Server'
    BY <1>1 DEF IInv, Bridges, Client, Server, Cause, Request, LastRequest
  <1>3. Wire'
    BY <1>1 DEF IInv, Wire, RightRequest, RightReply, Cause, Promised, Chunk
  <1>4. Replies'
    BY <1>1, RepliesKept DEF IInv
  <1> QED
    BY <1>2, <1>3, <1>4 DEF IInv

LEMMA NextInv == IInv /\ [Next]_vars => IInv'
  <1> SUFFICES ASSUME IInv, [Next]_vars
               PROVE  IInv'
    OBVIOUS
  <1>1. CASE ClientStep
    BY <1>1, SendRequestInv, ReplaceBufferInv, ReceiveReplyInv, ReceiveFailsInv,
       FinishInv DEF ClientStep
  <1>2. CASE ServerStep
    BY <1>2, ReceiveRequestInv, WaitFailsInv, RefuseInv, SendErrorInv, HelloInv,
       DownloadInv, ChunkRequestInv, SendChunkInv DEF ServerStep
  <1>3. CASE Break
    BY <1>3, BreakInv
  <1>4. CASE UNCHANGED vars
    BY <1>4, StutterInv
  <1> QED
    BY <1>1, <1>2, <1>3, <1>4 DEF Next

-----------------------------------------------------------------------------
(* Types.  They rest on IInv: what a handler sends has the type of the      *)
(* connection it serves.                                                   *)

LEMMA BufferTypes ==
  /\ Empty \in Buffer
  /\ \A c \in ChunkId : Chunk(c) \in Buffer
  /\ ListSize \in Nat /\ DetailsSize \in Nat
  /\ ChunkId \subseteq Nat
  <1>1. FittingSize \subseteq Nat
    BY WordAssumption DEF FittingSize, block_size
  <1>2. ChunkSize \in Nat /\ LastSize \in Nat /\ ListSize \in Nat /\ DetailsSize \in Nat
    BY <1>1, LinkAssumption DEF DetailsSize
  <1>3. ChunkId \subseteq Nat
    BY LinkAssumption DEF ChunkId
  <1> QED
    BY <1>2, <1>3 DEF Buffer, Bytes, Empty, Chunk

LEMMA HeaderSizes ==
  ASSUME NEW h \in Header
  PROVE  encypted_extra_size(h) \in Nat /\ get_extra_size(h) \in Nat
  <1>1. h.extra \in 0 .. block_size - 1 /\ h.extra_blocks \in 0 .. Word - 1
    BY DEF Header
  <1>2. h.extra \in Nat /\ h.extra_blocks \in Nat
    BY <1>1, WordAssumption DEF block_size
  <1>3. \A i \in Int : uint32(i) \in Nat
    BY WordAssumption DEF uint32
  <1>4. h.extra_blocks - (IF h.extra # 0 THEN 1 ELSE 0) \in Int
    BY <1>2
  <1> QED
    BY <1>2, <1>3, <1>4 DEF encypted_extra_size, get_extra_size, size_bytes, block_size

LEMMA HeaderTypes ==
  ASSUME NEW type \in message_type, NEW size \in Nat
  PROVE  HeaderOver(NoHeader, type, size) \in Header
  <1>1. 0 \in 0 .. block_size - 1 /\ 0 \in 0 .. Word - 1
    BY WordAssumption DEF block_size
  <1>2. CASE type \in HasExtra
    BY <1>2, FieldTypes DEF HeaderOver, Header
  <1>3. CASE type \notin HasExtra
    BY <1>1, <1>3 DEF HeaderOver, Header, NoHeader
  <1> QED
    BY <1>2, <1>3

LEMMA NoHeaderType == NoHeader \in Header
  <1>1. 0 \in 0 .. block_size - 1 /\ 0 \in 0 .. Word - 1
    BY WordAssumption DEF block_size
  <1> QED
    BY <1>1 DEF NoHeader, Header, message_type

LEMMA SendTypes ==
  ASSUME TypeOK, NEW e \in Side, NEW type \in message_type, NEW id \in Nat,
         NEW d \in Buffer, NEW size \in Nat, NEW result \in BOOLEAN,
         send(e, NoHeader, type, id, d, size, result)
  PROVE  /\ dctx' \in [Side -> Buffer]
         /\ message' \in Message \cup {NoMessage}
  <1> DEFINE sent == HeaderOver(NoHeader, type, size)
             after == encrypt(d, sent)
  <1>1. sent \in Header
    BY HeaderTypes
  <1> HIDE DEF sent
  <1>2. encypted_extra_size(sent) \in Nat
    BY <1>1, HeaderSizes
  <1>3. after \in Buffer
    BY <1>2 DEF encrypt, Larger, Buffer, Bytes
  <1>4. after.size \in Nat /\ Decrypted(d, sent) \in Bytes
    BY <1>3 DEF Buffer, Bytes, Decrypted
  <1> HIDE DEF after
  <1>5. Smaller(encypted_extra_size(sent), after.size) \in Nat
    BY <1>2, <1>4 DEF Smaller
  <1>6. Other(e) \in Side
    BY DEF Other, Side
  <1>7. NoHeader.type = "none"
    BY DEF NoHeader
  <1>8. /\ dctx' = [dctx EXCEPT ![e] = after]
        /\ \/ message' = [to |-> Other(e), header |-> sent, chunk_id |-> id,
                          bytes |-> Decrypted(d, sent),
                          length |-> Smaller(encypted_extra_size(sent), after.size)]
           \/ message' = message
    BY <1>7 DEF send, sent, after
  <1> QED
    BY <1>1, <1>3, <1>4, <1>5, <1>6, <1>8 DEF TypeOK, Message

LEMMA FilledTypes ==
  ASSUME NEW d \in Buffer, NEW m \in Message
  PROVE  Filled(d, m) \in Buffer
  <1>1. m.header \in Header /\ m.bytes \in Bytes
    BY DEF Message
  <1>2. encypted_extra_size(m.header) \in Nat
    BY <1>1, HeaderSizes
  <1> QED
    BY <1>1, <1>2 DEF Filled, Buffer, Larger

LEMMA InitTypes == Init => TypeOK
  <1> SUFFICES ASSUME Init PROVE TypeOK
    OBVIOUS
  <1>1. header \in [Side -> Header] /\ dctx \in [Side -> Buffer]
    BY NoHeaderType, LinkAssumption DEF Init, Buffer, Bytes
  <1>2. asked \in 0 .. LastRequest + 1
    BY LinkAssumption DEF Init, LastRequest
  <1> QED
    BY <1>1, <1>2 DEF Init, TypeOK

(* The types of the connection that the kind decides. *)
LEMMA KindTypes ==
  ASSUME IInv, TypeOK
  PROVE  /\ request_type[kind] \in message_type /\ request_type[kind] \in RequestType
         /\ reply_type[kind] \in message_type
         /\ spc = "hello" => "list" \in message_type
         /\ spc = "download_file_session_request" =>
              "download_file_session_response" \in message_type
         /\ spc \in {"chunk_request", "respond"} => "chunk_response" \in message_type
         /\ "error" \in message_type
  <1>1. request_type[kind] \in RequestType /\ reply_type[kind] \in message_type
    BY DEF TypeOK, RequestType, message_type
  <1>2. RequestType \subseteq message_type
    BY DEF message_type
  <1>3. /\ reply_type["open"] = "list"
        /\ reply_type["sync"] = "download_file_session_response"
        /\ reply_type["loader"] = "chunk_response"
    BY DEF reply_type
  <1> QED
    BY <1>1, <1>2, <1>3 DEF IInv, Server, message_type

LEMMA NextTypes ==
  ASSUME IInv, IInv', TypeOK, [Next]_vars
  PROVE  TypeOK'
  <1>0. /\ header' \in [Side -> Header]
        /\ header["client"] = NoHeader /\ header["server"] = NoHeader
    BY NoHeaderType DEF IInv, Bridges, Side
  <1>a. ASSUME UNCHANGED <<kind, asked, got>>, c_request' \in {0} \cup Request,
               cpc' \in {"send", "replace", "receive", "done", "failed"},
               spc' \in {"wait", "respond", "error", "ended"} \cup RequestType,
               dctx' \in [Side -> Buffer], message' \in Message \cup {NoMessage},
               up' \in BOOLEAN, broke' \in BOOLEAN, refused' \in BOOLEAN
        PROVE  TypeOK'
    BY <1>0, <1>a DEF TypeOK, Request, LastRequest
  <1>1. CASE SendRequest
    <2>1. PICK result \in BOOLEAN :
            /\ send("client", header["client"], request_type[kind], asked,
                    dctx["client"], 0, result)
            /\ cpc' = IF result THEN "replace" ELSE "failed"
            /\ up' = (up /\ result)
      BY <1>1 DEF SendRequest
    <2>2. asked \in Nat /\ dctx["client"] \in Buffer /\ "client" \in Side
      BY DEF IInv, Client, TypeOK, Side
    <2>3. dctx' \in [Side -> Buffer] /\ message' \in Message \cup {NoMessage}
      BY <1>0, <2>1, <2>2, SendTypes, KindTypes
    <2>4. up' \in BOOLEAN
      BY <2>1 DEF TypeOK
    <2> QED
      BY <1>1, <1>a, <2>1, <2>3, <2>4 DEF SendRequest, TypeOK, history
  <1>2. CASE ReplaceBuffer
    <2>1. dctx' \in [Side -> Buffer]
      BY <1>2, BufferTypes DEF ReplaceBuffer, TypeOK
    <2> QED
      BY <1>2, <1>a, <2>1 DEF ReplaceBuffer, TypeOK, history
  <1>3. CASE ReceiveReply
    <2> DEFINE filled == Filled(dctx["client"], message)
               reply == [type |-> message.header.type,
                         size |-> get_extra_size(message.header),
                         bytes |-> filled.bytes]
    <2>1. message \in Message /\ dctx["client"] \in Buffer
      BY <1>3 DEF ReceiveReply, Arrived, TypeOK, Side
    <2>2. filled \in Buffer
      BY <2>1, FilledTypes
    <2>3. message.header \in Header /\ message.header.type \in message_type
      BY <2>1 DEF Message, Header
    <2>4. get_extra_size(message.header) \in Nat
      BY <2>3, HeaderSizes
    <2>5. filled.bytes \in Bytes
      BY <2>2 DEF Buffer
    <2> HIDE DEF filled
    <2>6. reply \in Reply
      BY <2>3, <2>4, <2>5 DEF Reply
    <2> HIDE DEF reply
    <2>7. /\ got' = [got EXCEPT ![asked] = reply]
          /\ dctx' = [dctx EXCEPT !["client"] = IF kind = "loader" THEN Empty ELSE filled]
          /\ message' = NoMessage /\ asked' = asked + 1 /\ cpc' = "send"
          /\ UNCHANGED <<kind, spc, c_request, up, broke, refused>>
      BY <1>3 DEF ReceiveReply, history, reply, filled
    <2>8. asked \in Request /\ asked + 1 \in 0 .. LastRequest + 1
      BY <1>3, LinkAssumption DEF ReceiveReply, IInv, Client, Request, LastRequest
    <2>9. Request' = Request /\ LastRequest' = LastRequest
      BY <2>7 DEF Request, LastRequest
    <2>10. got' \in [Request -> Reply \cup {NoMessage}]
      BY <2>6, <2>7, <2>8 DEF TypeOK
    <2>11. dctx' \in [Side -> Buffer]
      BY <2>2, <2>7, BufferTypes DEF TypeOK
    <2> QED
      BY <1>0, <2>7, <2>8, <2>9, <2>10, <2>11 DEF TypeOK
  <1>4. CASE ReceiveFails
    BY <1>4, <1>a DEF ReceiveFails, TypeOK, history
  <1>5. CASE Finish
    BY <1>5, <1>a DEF Finish, TypeOK, history
  <1>6. CASE ReceiveRequest
    <2>1. message # NoMessage /\ message.to = "server"
      BY <1>6 DEF ReceiveRequest, Arrived
    <2>2. RightRequest(message) /\ asked \in Request
      BY <2>1 DEF IInv, Wire, Client
    <2>3. message.header.type = request_type[kind] /\ message.chunk_id \in Request
      BY <2>2 DEF RightRequest, NoHeader
    <2> QED
      BY <1>6, <1>a, <2>3, KindTypes DEF ReceiveRequest, TypeOK, history
  <1>7. CASE WaitFails
    BY <1>7, <1>a DEF WaitFails, TypeOK, history
  <1>8. CASE Refuse
    BY <1>8, <1>a DEF Refuse, TypeOK, history
  <1>9. CASE SendError
    <2>1. PICK result \in BOOLEAN :
            send("server", NoHeader, "error", 0, Packed(dctx["server"], Details),
                 DetailsSize, result)
      BY <1>9 DEF SendError
    <2>2. Packed(dctx["server"], Details) \in Buffer /\ "server" \in Side
      BY DEF TypeOK, Side, Buffer, Bytes, Packed
    <2>3. dctx' \in [Side -> Buffer] /\ message' \in Message \cup {NoMessage}
      BY <2>1, <2>2, SendTypes, KindTypes, BufferTypes
    <2> QED
      BY <1>9, <1>a, <2>3 DEF SendError, TypeOK, history
  <1>10. CASE on_hello
    <2>1. PICK result \in BOOLEAN :
            /\ send("server", header["server"], "list", 0, Packed(dctx["server"], List),
                    ListSize, result)
            /\ spc' = IF result THEN "wait" ELSE "error"
      BY <1>10 DEF on_hello
    <2>2. Packed(dctx["server"], List) \in Buffer /\ "server" \in Side
      BY DEF TypeOK, Side, Buffer, Bytes, Packed
    <2>3. "list" \in message_type
      BY <1>10, KindTypes DEF on_hello
    <2>4. dctx' \in [Side -> Buffer] /\ message' \in Message \cup {NoMessage}
      BY <1>0, <2>1, <2>2, <2>3, SendTypes, BufferTypes
    <2> QED
      BY <1>10, <1>a, <2>1, <2>4 DEF on_hello, TypeOK, history
  <1>11. CASE on_download_file_request
    <2>1. PICK result \in BOOLEAN :
            /\ send("server", header["server"], "download_file_session_response", 0,
                    dctx["server"], 0, result)
            /\ spc' = IF result THEN "wait" ELSE "error"
      BY <1>11 DEF on_download_file_request
    <2>2. dctx["server"] \in Buffer /\ "server" \in Side
      BY DEF TypeOK, Side
    <2>3. "download_file_session_response" \in message_type
      BY <1>11, KindTypes DEF on_download_file_request
    <2>4. dctx' \in [Side -> Buffer] /\ message' \in Message \cup {NoMessage}
      BY <1>0, <2>1, <2>2, <2>3, SendTypes
    <2> QED
      BY <1>11, <1>a, <2>1, <2>4 DEF on_download_file_request, TypeOK, history
  <1>12. CASE on_chunk_request
    <2>1. dctx' \in [Side -> Buffer]
      BY <1>12, BufferTypes DEF on_chunk_request, TypeOK
    <2> QED
      BY <1>12, <1>a, <2>1 DEF on_chunk_request, TypeOK, history
  <1>13. CASE SendChunk
    <2> DEFINE data == Chunk(c_request)
    <2>1. PICK result \in BOOLEAN :
            send("server", header["server"], "chunk_response", c_request, data, data.size,
                 result)
      BY <1>13 DEF SendChunk, ResponseData
    <2>2. kind = "loader" /\ c_request \in Request
      BY <1>13 DEF SendChunk, IInv, Server
    <2>3. c_request \in ChunkId
      BY <2>2 DEF Request, LastRequest, ChunkId
    <2>4. data \in Buffer /\ c_request \in Nat
      BY <2>3, BufferTypes
    <2>5. data.size \in Nat /\ "server" \in Side
      BY <2>4 DEF Buffer, Side
    <2>6. "chunk_response" \in message_type
      BY <1>13, KindTypes DEF SendChunk
    <2> HIDE DEF data
    <2>7. dctx' \in [Side -> Buffer] /\ message' \in Message \cup {NoMessage}
      BY <1>0, <2>1, <2>4, <2>5, <2>6, SendTypes
    <2> QED
      BY <1>13, <1>a, <2>7 DEF SendChunk, TypeOK, history
  <1>14. CASE Break
    BY <1>14, <1>a DEF Break, TypeOK, history
  <1>15. CASE UNCHANGED vars
    BY <1>15, <1>a DEF vars, TypeOK, history
  <1> QED
    BY <1>1, <1>2, <1>3, <1>4, <1>5, <1>6, <1>7, <1>8, <1>9, <1>10, <1>11, <1>12,
       <1>13, <1>14, <1>15 DEF Next, ClientStep, ServerStep

(* Every variable of a connection keeps its type, whatever breaks. *)
THEOREM TypeCorrect == Spec => []TypeOK
  BY InitInv, NextInv, InitTypes, NextTypes, PTL DEF Spec

-----------------------------------------------------------------------------
(* What a client accepts is the whole reply to its request, whatever the   *)
(* sizes of chunks, list and buffers (message.cpp:75-85, session.cpp:141). *)
THEOREM ReplyIsWholeCorrect == Spec => []ReplyIsWhole
  <1>1. IInv => ReplyIsWhole
    BY DEF IInv, Replies
  <1> QED
    BY <1>1, InitInv, NextInv, PTL DEF Spec

(* A client fails only because the connection broke or the server refused: *)
(* no header is ever left in a bridge (message_bridge.h:28).               *)
THEOREM FailureHasCauseCorrect == Spec => []FailureHasCause
  <1>1. IInv => FailureHasCause
    BY DEF IInv, Client, Cause, FailureHasCause
  <1> QED
    BY <1>1, InitInv, NextInv, PTL DEF Spec

-----------------------------------------------------------------------------
(* Progress.  That receive returns is liveness (ReceiveReturns).  It rests *)
(* on facts about steps and states: every step of the client, the session  *)
(* or the network brings the connection closer to its end, which is not    *)
(* far; and as long as the client waits one of the two has something to do.*)

ClientStage == [send |-> 0, replace |-> 1, receive |-> 2, done |-> 3, failed |-> 3][cpc]

(* It is for the session to go on: the request is on its way, or will be   *)
(* sent.                                                                   *)
RequestAhead ==
  IF message = NoMessage THEN up /\ cpc = "send" ELSE message.to = "server"

SessionStage ==
  [wait |-> IF RequestAhead THEN 0 ELSE 3,
   hello |-> 1, download_file_session_request |-> 1, chunk_request |-> 1,
   respond |-> 2, error |-> 4, ended |-> 5][spc]

Stage == 9 * asked + ClientStage + SessionStage + (IF up THEN 0 ELSE 1)

EveryStepIsProgress == [][Stage < Stage']_vars

StagesAreBounded == Stage \in 0 .. 9 * (LastRequest + 2)

(* A client that waits has its reply there or a connection that is down,   *)
(* or the session has its request there or handles it.                     *)
SomebodyGoesOn ==
  cpc = "receive" =>
    \/ Arrived("client")
    \/ Disconnected("client")
    \/ spc = "wait" /\ Arrived("server")
    \/ spc \notin {"wait", "ended"}

(* What is on its way is there as a whole, in whatever buffers it was      *)
(* packed; and nothing gets lost while the connection is up.               *)
Turns ==
  /\ up => spc # "ended"
  /\ message # NoMessage => message.length >= encypted_extra_size(message.header)
  /\ (up /\ cpc \in {"replace", "receive"}) =>
       message # NoMessage \/ spc \notin {"wait", "ended"}

(* What is sent to side e is there as a whole. *)
Delivered(e) ==
  /\ message' \in Message
  /\ message'.to = e
  /\ message'.length >= encypted_extra_size(message'.header)

LEMMA SendDelivers ==
  ASSUME TypeOK, NEW e \in Side, NEW type \in message_type, NEW id \in Nat,
         NEW d \in Buffer, NEW size \in Nat, NEW result \in BOOLEAN,
         send(e, NoHeader, type, id, d, size, result)
  PROVE  IF up THEN result /\ Delivered(Other(e)) ELSE message' = message
  <1> DEFINE sent == HeaderOver(NoHeader, type, size)
             after == encrypt(d, sent)
  <1>1. NoHeader.type = "none"
    BY DEF NoHeader
  <1>2. CASE ~up
    BY <1>1, <1>2 DEF send
  <1>3. CASE up
    <2>1. /\ result
          /\ message' = [to |-> Other(e), header |-> sent, chunk_id |-> id,
                         bytes |-> Decrypted(d, sent),
                         length |-> Smaller(encypted_extra_size(sent), after.size)]
      BY <1>1, <1>3 DEF send
    <2>2. sent \in Header
      BY HeaderTypes
    <2>3. encypted_extra_size(sent) \in Nat
      BY <2>2, HeaderSizes
    <2>4. sent.extra_blocks = 0 => encypted_extra_size(sent) = 0
      BY DEF encypted_extra_size
    <2> HIDE DEF sent
    <2>5. after.size \in Nat /\ after.size >= encypted_extra_size(sent)
      BY <2>3, <2>4 DEF encrypt, Larger, Buffer
    <2>6. Decrypted(d, sent) \in Bytes
      BY DEF Decrypted, Buffer, Bytes
    <2>7. Other(e) \in Side
      BY DEF Other, Side
    <2> HIDE DEF after
    <2>8. Smaller(encypted_extra_size(sent), after.size) = encypted_extra_size(sent)
      BY <2>3, <2>5 DEF Smaller
    <2>9. message' \in Message
      BY <2>1, <2>2, <2>3, <2>6, <2>7, <2>8 DEF Message
    <2>10. message'.to = Other(e) /\ message'.header = sent
           /\ message'.length = encypted_extra_size(sent)
      BY <2>1, <2>8
    <2> QED
      BY <1>3, <2>1, <2>3, <2>9, <2>10 DEF Delivered
  <1> QED
    BY <1>2, <1>3

LEMMA RequestDelivered ==
  ASSUME IInv, TypeOK, SendRequest
  PROVE  /\ up' = up
         /\ IF up THEN cpc' = "replace" /\ Delivered("server") ELSE message' = message
         /\ cpc' \in {"replace", "failed"}
         /\ cpc = "send"
         /\ UNCHANGED <<asked, spc>>
  <1>1. PICK result \in BOOLEAN :
          /\ send("client", header["client"], request_type[kind], asked,
                  dctx["client"], 0, result)
          /\ cpc' = IF result THEN "replace" ELSE "failed"
          /\ up' = (up /\ result)
    BY DEF SendRequest
  <1>2. /\ asked \in Nat /\ dctx["client"] \in Buffer /\ "client" \in Side
        /\ header["client"] = NoHeader /\ up \in BOOLEAN
    BY DEF IInv, Bridges, Client, TypeOK, Side
  <1>3. IF up THEN result /\ Delivered(Other("client")) ELSE message' = message
    BY <1>1, <1>2, SendDelivers, KindTypes
  <1>4. Other("client") = "server"
    BY DEF Other
  <1>5. cpc = "send" /\ UNCHANGED <<asked, spc>>
    BY DEF SendRequest
  <1> QED
    BY <1>1, <1>2, <1>3, <1>4, <1>5

(* A handler that sends. *)
Sends ==
  on_hello \/ on_download_file_request \/ SendChunk \/ SendError

LEMMA ReplyDelivered ==
  ASSUME IInv, TypeOK, Sends
  PROVE  /\ spc \notin {"wait", "ended"}
         /\ IF up THEN Delivered("client") ELSE message' = message
         /\ SendError => spc' = "ended" /\ ~up'
         /\ ~SendError => /\ up' = up
                          /\ spc' = IF up THEN "wait" ELSE spc'
                          /\ spc' \in {"wait", "error"}
                          /\ spc # "error"
         /\ UNCHANGED <<cpc, asked>>
  <1>1. /\ "server" \in Side /\ dctx["server"] \in Buffer
        /\ header["server"] = NoHeader
        /\ \A bytes \in Bytes : Packed(dctx["server"], bytes) \in Buffer
    BY DEF IInv, Bridges, TypeOK, Side, Buffer, Packed
  <1>2. Other("server") = "client" /\ {List, Details} \subseteq Bytes /\ 0 \in Nat
    BY DEF Other, Bytes
  <1>3. CASE on_hello
    <2>1. PICK result \in BOOLEAN :
            /\ send("server", header["server"], "list", 0, Packed(dctx["server"], List),
                    ListSize, result)
            /\ spc' = IF result THEN "wait" ELSE "error"
      BY <1>3 DEF on_hello
    <2>2. spc = "hello" /\ UNCHANGED <<cpc, asked, up>>
      BY <1>3 DEF on_hello
    <2>3. "list" \in message_type
      BY <2>2, KindTypes
    <2>4. IF up THEN result /\ Delivered("client") ELSE message' = message
      BY <1>1, <1>2, <2>1, <2>3, SendDelivers, BufferTypes
    <2>5. ~SendError
      BY <2>2 DEF SendError
    <2> QED
      BY <2>1, <2>2, <2>4, <2>5
  <1>4. CASE on_download_file_request
    <2>1. PICK result \in BOOLEAN :
            /\ send("server", header["server"], "download_file_session_response", 0,
                    dctx["server"], 0, result)
            /\ spc' = IF result THEN "wait" ELSE "error"
      BY <1>4 DEF on_download_file_request
    <2>2. spc = "download_file_session_request" /\ UNCHANGED <<cpc, asked, up>>
      BY <1>4 DEF on_download_file_request
    <2>3. "download_file_session_response" \in message_type
      BY <2>2, KindTypes
    <2>4. IF up THEN result /\ Delivered("client") ELSE message' = message
      BY <1>1, <1>2, <2>1, <2>3, SendDelivers
    <2>5. ~SendError
      BY <2>2 DEF SendError
    <2> QED
      BY <2>1, <2>2, <2>4, <2>5
  <1>5. CASE SendChunk
    <2> DEFINE data == Chunk(c_request)
    <2>1. PICK result \in BOOLEAN :
            send("server", header["server"], "chunk_response", c_request, data, data.size,
                 result)
      BY <1>5 DEF SendChunk, ResponseData
    <2>2. spc = "respond" /\ spc' = "wait" /\ UNCHANGED <<cpc, asked, up>>
      BY <1>5 DEF SendChunk
    <2>3. "chunk_response" \in message_type
      BY <2>2, KindTypes
    <2>4. c_request \in ChunkId
      BY <2>2 DEF IInv, Server, Request, LastRequest, ChunkId
    <2>5. data \in Buffer /\ c_request \in Nat
      BY <2>4, BufferTypes
    <2>6. data.size \in Nat
      BY <2>5 DEF Buffer
    <2> HIDE DEF data
    <2>7. IF up THEN result /\ Delivered("client") ELSE message' = message
      BY <1>1, <1>2, <2>1, <2>3, <2>5, <2>6, SendDelivers
    <2>8. ~SendError
      BY <2>2 DEF SendError
    <2> QED
      BY <2>2, <2>7, <2>8
  <1>6. CASE SendError
    <2>1. PICK result \in BOOLEAN :
            send("server", NoHeader, "error", 0, Packed(dctx["server"], Details),
                 DetailsSize, result)
      BY <1>6 DEF SendError
    <2>2. spc = "error" /\ spc' = "ended" /\ up' = FALSE /\ UNCHANGED <<cpc, asked>>
      BY <1>6 DEF SendError
    <2>3. IF up THEN result /\ Delivered("client") ELSE message' = message
      BY <1>1, <1>2, <2>1, KindTypes, SendDelivers, BufferTypes
    <2> QED
      BY <1>6, <2>2, <2>3
  <1> QED
    BY <1>3, <1>4, <1>5, <1>6 DEF Sends

(* A request finds the session's buffer large enough: it has no extra part.*)
LEMMA RequestTaken ==
  ASSUME IInv, TypeOK, ReceiveRequest
  PROVE  /\ spc' \in {"hello", "download_file_session_request", "chunk_request"}
         /\ message' = NoMessage
  <1>1. /\ message # NoMessage /\ message.to = "server" /\ message' = NoMessage
        /\ spc' = IF encypted_extra_size(message.header) <= dctx["server"].size
                  THEN message.header.type ELSE "ended"
    BY DEF ReceiveRequest, Arrived
  <1>2. message.header = [NoHeader EXCEPT !.type = request_type[kind]]
    BY <1>1 DEF IInv, Wire, RightRequest
  <1>3. message.header.type = request_type[kind] /\ encypted_extra_size(message.header) = 0
    BY <1>2 DEF NoHeader, encypted_extra_size
  <1>4. dctx["server"].size \in Nat
    BY DEF TypeOK, Side, Buffer
  <1>5. request_type[kind] \in {"hello", "download_file_session_request", "chunk_request"}
    BY DEF IInv, Client, request_type
  <1> QED
    BY <1>1, <1>3, <1>4, <1>5

LEMMA InitTurns == Init => Turns
  BY DEF Init, Turns

LEMMA NextTurns ==
  ASSUME IInv, TypeOK, Turns, [Next]_vars
  PROVE  Turns'
  <1>1. CASE SendRequest
    <2>1. CASE up
      BY <1>1, <2>1, RequestDelivered, NoMessageAssumption DEF Turns, Delivered
    <2>2. CASE ~up
      BY <1>1, <2>2, RequestDelivered DEF Turns
    <2> QED
      BY <2>1, <2>2
  <1>2. CASE ReplaceBuffer
    BY <1>2 DEF ReplaceBuffer, Turns
  <1>3. CASE ReceiveReply \/ ReceiveFails \/ Finish
    BY <1>3 DEF ReceiveReply, ReceiveFails, Finish, Turns
  <1>4. CASE ReceiveRequest
    <2>1. UNCHANGED <<up, cpc>>
      BY <1>4 DEF ReceiveRequest
    <2> QED
      BY <1>4, <2>1, RequestTaken DEF Turns
  <1>5. CASE WaitFails
    BY <1>5 DEF WaitFails, Disconnected, Turns
  <1>6. CASE Refuse
    BY <1>6 DEF Refuse, Turns
  <1>7. CASE on_chunk_request
    BY <1>7 DEF on_chunk_request, Turns
  <1>8. CASE Sends
    <2>1. CASE up
      BY <1>8, <2>1, ReplyDelivered, NoMessageAssumption DEF Turns, Delivered
    <2>2. CASE ~up
      BY <1>8, <2>2, ReplyDelivered DEF Turns
    <2> QED
      BY <2>1, <2>2
  <1>9. CASE Break
    BY <1>9 DEF Break, Turns
  <1>10. CASE UNCHANGED vars
    BY <1>10 DEF vars, Turns
  <1> QED
    BY <1>1, <1>2, <1>3, <1>4, <1>5, <1>6, <1>7, <1>8, <1>9, <1>10
    DEF Next, ClientStep, ServerStep, Sends

(* A client that waits is never left alone: the reply, the request or the  *)
(* session that works on it is there, or the connection is down, whatever  *)
(* results on_chunk_request ignores (session.cpp:149).                     *)
THEOREM SomebodyGoesOnCorrect == Spec => []SomebodyGoesOn
  <1>1. IInv /\ Turns => SomebodyGoesOn
    BY DEF IInv, Wire, Turns, RightRequest, SomebodyGoesOn, Arrived, Disconnected
  <1> QED
    BY <1>1, InitInv, NextInv, InitTypes, NextTypes, InitTurns, NextTurns, PTL DEF Spec

StagesInRange ==
  /\ asked \in Nat /\ up \in BOOLEAN
  /\ ClientStage \in 0 .. 3 /\ SessionStage \in 0 .. 5
  /\ spc \in {"wait", "hello", "download_file_session_request", "chunk_request",
              "respond", "error", "ended"}

LEMMA StageTypes == IInv /\ TypeOK => StagesInRange
  <1> SUFFICES ASSUME IInv, TypeOK PROVE StagesInRange
    OBVIOUS
  <1>1. RequestType \subseteq {"hello", "download_file_session_request", "chunk_request"}
    BY LinkAssumption DEF RequestType, request_type
  <1>2. asked \in Nat /\ up \in BOOLEAN
    BY DEF IInv, Client
  <1>3. cpc \in {"send", "replace", "receive", "done", "failed"}
    BY DEF IInv, Client
  <1>4. spc \in {"wait", "hello", "download_file_session_request", "chunk_request",
                 "respond", "error", "ended"}
    BY <1>1 DEF TypeOK
  <1>5. ClientStage \in 0 .. 3
    BY <1>3 DEF ClientStage
  <1>6. SessionStage \in 0 .. 5
    BY <1>4 DEF SessionStage
  <1> QED
    BY <1>2, <1>4, <1>5, <1>6 DEF StagesInRange

LEMMA NextStageTypes == IInv' /\ TypeOK' => StagesInRange'
  BY StageTypes, PTL

LEMMA StepIsProgress ==
  ASSUME IInv, IInv', TypeOK, TypeOK', Turns, Turns', Next
  PROVE  Stage < Stage'
  <1> DEFINE Goes ==
        \/ /\ asked' = asked
           /\ ClientStage <= ClientStage' /\ SessionStage <= SessionStage'
           /\ ClientStage < ClientStage' \/ SessionStage < SessionStage' \/ (up /\ ~up')
        \/ asked' = asked + 1
  <1>s. StagesInRange'
    BY NextStageTypes
  <1>0. /\ asked \in Nat /\ ClientStage \in 0 .. 3 /\ SessionStage \in 0 .. 5
        /\ up \in BOOLEAN
    BY StageTypes DEF StagesInRange
  <1>0a. /\ asked' \in Nat /\ ClientStage' \in 0 .. 3 /\ SessionStage' \in 0 .. 5
         /\ up' \in BOOLEAN
    BY <1>s DEF StagesInRange
  <1>0b. spc \in {"wait", "hello", "download_file_session_request", "chunk_request",
                  "respond", "error", "ended"}
    BY StageTypes DEF StagesInRange
  <1>0c. ASSUME spc' = spc, spc = "wait" => (RequestAhead' => RequestAhead)
         PROVE  SessionStage <= SessionStage'
    BY <1>0b, <1>0c DEF SessionStage
  <1>0d. ASSUME Goes, up' => up
         PROVE  Stage < Stage'
    <2> DEFINE gone == IF up THEN 0 ELSE 1
    <2>1. Stage = 9 * asked + ClientStage + SessionStage + gone
      BY DEF Stage
    <2>2. Stage' = 9 * asked' + ClientStage' + SessionStage' + gone'
      BY DEF Stage
    <2>3. gone \in 0 .. 1 /\ gone' \in 0 .. 1 /\ gone <= gone'
      BY <1>0, <1>0a, <1>0d
    <2>4. up /\ ~up' => gone < gone'
      OBVIOUS
    <2> HIDE DEF gone
    <2>5. PICK a \in Nat, a1 \in Nat, c \in 0 .. 3, c1 \in 0 .. 3, s \in 0 .. 5, s1 \in 0 .. 5,
               g \in 0 .. 1, g1 \in 0 .. 1 :
            /\ a = asked /\ a1 = asked'
            /\ c = ClientStage /\ s = SessionStage /\ g = gone
            /\ c1 = ClientStage' /\ s1 = SessionStage' /\ g1 = gone'
      BY <1>0, <1>0a, <2>3
    <2>6. 9 * a + c + s + g < 9 * a1 + c1 + s1 + g1
      <3>1. \/ a1 = a /\ c <= c1 /\ s <= s1 /\ (c < c1 \/ s < s1 \/ g < g1)
            \/ a1 = a + 1
        BY <1>0d, <2>4, <2>5
      <3>2. g <= g1
        BY <2>3, <2>5
      <3> QED
        BY <3>1, <3>2
    <2> QED
      BY <2>1, <2>2, <2>5, <2>6
  <1>1. CASE SendRequest
    <2>1. message = NoMessage /\ spc \in {"wait", "ended"}
      BY <1>1 DEF SendRequest, IInv, Wire, Server
    <2>2. RequestAhead' => RequestAhead
      <3>1. CASE up
        BY <1>1, <2>1, <3>1, RequestDelivered DEF RequestAhead
      <3>2. CASE ~up
        BY <1>1, <2>1, <3>2, RequestDelivered DEF RequestAhead
      <3> QED
        BY <3>1, <3>2
    <2>3. ClientStage < ClientStage'
      BY <1>1, RequestDelivered DEF ClientStage
    <2>4. Goes /\ (up' => up)
      BY <1>0, <1>0a, <1>0c, <1>1, <2>2, <2>3, RequestDelivered
    <2> QED
      BY <1>0d, <2>4
  <1>2. CASE ReplaceBuffer
    <2>1. /\ cpc = "replace" /\ cpc' = "receive"
          /\ UNCHANGED <<asked, spc, up, message>>
      BY <1>2 DEF ReplaceBuffer
    <2>2. RequestAhead' => RequestAhead
      BY <2>1 DEF RequestAhead
    <2>3. ClientStage < ClientStage'
      BY <2>1 DEF ClientStage
    <2>4. Goes /\ (up' => up)
      BY <1>0, <1>0a, <1>0c, <2>1, <2>2, <2>3
    <2> QED
      BY <1>0d, <2>4
  <1>3. CASE ReceiveReply
    <2>1. asked' = asked + 1 /\ up' = up
      BY <1>3 DEF ReceiveReply
    <2> QED
      BY <1>0d, <2>1
  <1>4. CASE ReceiveFails
    <2>1. /\ cpc = "receive" /\ cpc' = "failed" /\ message' = NoMessage /\ up' = FALSE
          /\ UNCHANGED <<asked, spc>>
      BY <1>4 DEF ReceiveFails
    <2>2. RequestAhead' => RequestAhead
      BY <2>1 DEF RequestAhead
    <2>3. ClientStage < ClientStage'
      BY <2>1 DEF ClientStage
    <2>4. Goes /\ (up' => up)
      BY <1>0, <1>0a, <1>0c, <2>1, <2>2, <2>3
    <2> QED
      BY <1>0d, <2>4
  <1>5. CASE Finish
    <2>1. /\ cpc = "send" /\ cpc' = "done" /\ up' = FALSE
          /\ UNCHANGED <<asked, spc, message>>
      BY <1>5 DEF Finish
    <2>2. RequestAhead' => RequestAhead
      BY <2>1 DEF RequestAhead
    <2>3. ClientStage < ClientStage'
      BY <2>1 DEF ClientStage
    <2>4. Goes /\ (up' => up)
      BY <1>0, <1>0a, <1>0c, <2>1, <2>2, <2>3
    <2> QED
      BY <1>0d, <2>4
  <1>6. CASE ReceiveRequest
    <2>1. /\ spc = "wait" /\ message # NoMessage /\ message.to = "server"
          /\ UNCHANGED <<asked, cpc, up>>
      BY <1>6 DEF ReceiveRequest, Arrived
    <2>2. SessionStage = 0
      BY <2>1 DEF SessionStage, RequestAhead
    <2>3. SessionStage' = 1
      BY <1>6, RequestTaken DEF SessionStage
    <2>4. ClientStage' = ClientStage
      BY <2>1 DEF ClientStage
    <2>5. Goes /\ (up' => up)
      BY <1>0, <1>0a, <2>1, <2>2, <2>3, <2>4
    <2> QED
      BY <1>0d, <2>5
  <1>7. CASE WaitFails \/ Refuse \/ on_chunk_request
    <2>1. UNCHANGED <<asked, cpc, up>>
      BY <1>7 DEF WaitFails, Refuse, on_chunk_request
    <2>2. SessionStage < SessionStage'
      <3>1. CASE WaitFails
        BY <3>1 DEF WaitFails, SessionStage
      <3>2. CASE Refuse
        BY <3>2 DEF Refuse, SessionStage
      <3>3. CASE on_chunk_request
        BY <3>3 DEF on_chunk_request, SessionStage
      <3> QED
        BY <1>7, <3>1, <3>2, <3>3
    <2>3. ClientStage' = ClientStage
      BY <2>1 DEF ClientStage
    <2>4. Goes /\ (up' => up)
      BY <1>0, <1>0a, <2>1, <2>2, <2>3
    <2> QED
      BY <1>0d, <2>4
  <1>8. CASE Sends
    <2>1. UNCHANGED <<asked, cpc>> /\ (up' => up)
      BY <1>8, ReplyDelivered
    <2>2. SessionStage < SessionStage'
      <3>1. CASE SendError
        <4>1. spc = "error" /\ spc' = "ended"
          BY <3>1 DEF SendError
        <4> QED
          BY <4>1 DEF SessionStage
      <3>2. CASE ~SendError
        <4>1. /\ spc \in {"hello", "download_file_session_request", "chunk_request",
                          "respond"}
              /\ spc' \in {"wait", "error"}
          BY <1>0b, <1>8, <3>2, ReplyDelivered
        <4>2. spc' = "wait" => ~RequestAhead'
          <5>1. CASE up
            BY <1>8, <5>1, ReplyDelivered, NoMessageAssumption DEF RequestAhead, Delivered
          <5>2. CASE ~up
            <6>1. message = NoMessage
              BY <4>1 DEF IInv, Server
            <6>2. message' = NoMessage /\ ~up'
              BY <1>8, <3>2, <5>2, <6>1, ReplyDelivered
            <6> QED
              BY <6>2 DEF RequestAhead
          <5> QED
            BY <5>1, <5>2
        <4> QED
          BY <4>1, <4>2 DEF SessionStage
      <3> QED
        BY <3>1, <3>2
    <2>3. ClientStage' = ClientStage
      BY <2>1 DEF ClientStage
    <2>4. Goes
      BY <1>0, <1>0a, <2>1, <2>2, <2>3
    <2> QED
      BY <1>0d, <2>1, <2>4
  <1>9. CASE Break
    <2>1. /\ up /\ ~up' /\ message' \in {message, NoMessage}
          /\ UNCHANGED <<asked, cpc, spc>>
      BY <1>9 DEF Break
    <2>2. RequestAhead' => RequestAhead
      BY <2>1 DEF RequestAhead
    <2>3. ClientStage' = ClientStage
      BY <2>1 DEF ClientStage
    <2>4. Goes
      BY <1>0, <1>0a, <1>0c, <2>1, <2>2, <2>3
    <2> QED
      BY <1>0d, <2>1, <2>4
  <1> QED
    BY <1>1, <1>2, <1>3, <1>4, <1>5, <1>6, <1>7, <1>8, <1>9
    DEF Next, ClientStep, ServerStep, Sends

(* Client and session take turns and never go back: no request is sent     *)
(* twice and no handler runs again on the one it has answered              *)
(* (client_impl.cpp:26-66, session.cpp:236-241).                           *)
THEOREM EveryStepIsProgressCorrect == Spec => EveryStepIsProgress
  <1>1. IInv /\ IInv' /\ TypeOK /\ TypeOK' /\ Turns /\ Turns' /\ [Next]_vars
          => [Stage < Stage']_vars
    BY StepIsProgress
  <1> QED
    BY <1>1, InitInv, NextInv, InitTypes, NextTypes, InitTurns, NextTurns, PTL
    DEF Spec, EveryStepIsProgress

(* Hence a connection ends after a bounded number of steps.                *)
THEOREM StagesAreBoundedCorrect == Spec => []StagesAreBounded
  <1>1. IInv /\ TypeOK => StagesAreBounded
    <2> SUFFICES ASSUME IInv, TypeOK PROVE StagesAreBounded
      OBVIOUS
    <2>1. /\ asked \in Nat /\ ClientStage \in 0 .. 3 /\ SessionStage \in 0 .. 5
      BY StageTypes DEF StagesInRange
    <2>2. asked \in 0 .. LastRequest + 1 /\ LastRequest \in Int
      BY LinkAssumption DEF TypeOK, LastRequest
    <2>3. (IF up THEN 0 ELSE 1) \in 0 .. 1
      OBVIOUS
    <2> QED
      BY <2>1, <2>2, <2>3 DEF StagesAreBounded, Stage
  <1> QED
    BY <1>1, InitInv, NextInv, InitTypes, NextTypes, PTL DEF Spec

-----------------------------------------------------------------------------
(* The receiver's size is the sender's, for every size and width of the    *)
(* fields (message.h:114, 121).                                            *)
THEOREM SizeSurvivesCorrect == Spec => []SizeSurvives
  <1>1. ASSUME IInv,
               NEW e \in Side, NEW type \in HasExtra,
               NEW size \in 0 .. block_size * Word - 1
        PROVE  get_extra_size(HeaderOver(header[e], type, size)) = size
    <2> DEFINE set == set_extra_size(size)
               h == HeaderOver(header[e], type, size)
    <2>1. h.extra = set.extra /\ h.extra_blocks = set.extra_blocks
      BY DEF HeaderOver
    <2>2. get_extra_size(set) = size
      BY RoundTrip
    <2> QED
      BY <2>1, <2>2 DEF get_extra_size
  <1>2. IInv => SizeSurvives
    BY <1>1 DEF SizeSurvives
  <1> QED
    BY <1>2, InitInv, NextInv, PTL DEF Spec

(* Both sides expect the same bytes of an extra part and its tag; and none *)
(* where there is no extra part, because nothing is left in the header of  *)
(* a message that had one (message.h:134).                                 *)
THEOREM RoomForTagCorrect == Spec => []RoomForTag
  <1>1. ASSUME IInv,
               NEW e \in Side, NEW type \in message_type \ {"none"},
               NEW size \in FittingSize,
               NEW encrypted,
               encrypted = encypted_extra_size(HeaderOver(header[e], type, size))
        PROVE  /\ encrypted % block_size = 0
               /\ (encrypted > 0) <=> (type \in HasExtra /\ size > 0)
               /\ encrypted > 0 => encrypted - size \in block_size .. 2 * block_size - 1
    <2>1. CASE type \notin HasExtra
      <3>1. header[e] = NoHeader
        BY <1>1 DEF IInv, Bridges
      <3>2. encrypted = 0
        BY <1>1, <2>1, <3>1, PlainHeader
      <3> QED
        BY <2>1, <3>2 DEF block_size
    <2>2. CASE type \in HasExtra
      <3> DEFINE set == set_extra_size(size)
      <3>1. encrypted = encypted_extra_size(set)
        BY <1>1, <2>2 DEF encypted_extra_size, HeaderOver
      <3>2. /\ encrypted \in Nat
            /\ encrypted % block_size = 0
            /\ (size = 0) <=> (encrypted = 0)
            /\ size > 0 => encrypted - size \in block_size .. 2 * block_size - 1
        BY <3>1, EncryptedSize
      <3>3. size \in Nat
        BY WordAssumption DEF FittingSize, block_size
      <3>4. size > 0 => encrypted > 0
        BY <3>2, <3>3 DEF block_size
      <3> QED
        BY <2>2, <3>2, <3>3, <3>4
    <2> QED
      BY <2>1, <2>2
  <1>2. IInv => RoomForTag
    BY <1>1 DEF RoomForTag
  <1> QED
    BY <1>2, InitInv, NextInv, PTL DEF Spec

(* A loader collects a file of any size in chunks of any size, one behind  *)
(* the other (file_read_cache.cpp:245, file_recombinator.cpp:201).         *)
THEOREM ChunksAreTheFileCorrect == Spec => []ChunksAreTheFile
  <1>1. ASSUME IInv,
               NEW s \in 1 .. UInt64 - 1, NEW c \in 1 .. UInt64 - 1,
               NEW n, n = number_of_chunks(s, c)
        PROVE  /\ n > 0
               /\ asked < n =>
                    /\ get_offset(asked, c) < end_of_chunk(s, asked, c)
                    /\ get_offset(asked, c) =
                         IF asked = 0 THEN 0 ELSE end_of_chunk(s, asked - 1, c)
                    /\ (asked = n - 1) <=> (end_of_chunk(s, asked, c) = s)
    <2>1. /\ n \in Nat /\ n > 0
          /\ get_offset(0, c) = 0
          /\ \A id \in 0 .. n - 1 :
               /\ get_offset(id, c) < end_of_chunk(s, id, c)
               /\ id < n - 1 => /\ end_of_chunk(s, id, c) = get_offset(id + 1, c)
                                /\ end_of_chunk(s, id, c) < s
               /\ id = n - 1 => end_of_chunk(s, id, c) = s
      BY <1>1, ChunksInOrder
    <2>2. asked \in Nat
      BY <1>1 DEF IInv, Client
    <2> SUFFICES ASSUME asked < n
                 PROVE  /\ get_offset(asked, c) < end_of_chunk(s, asked, c)
                        /\ get_offset(asked, c) =
                             IF asked = 0 THEN 0 ELSE end_of_chunk(s, asked - 1, c)
                        /\ (asked = n - 1) <=> (end_of_chunk(s, asked, c) = s)
      BY <2>1
    <2>3. asked \in 0 .. n - 1
      BY <2>1, <2>2
    <2>4. asked # 0 => end_of_chunk(s, asked - 1, c) = get_offset(asked, c)
      <3>1. asked # 0 => asked - 1 \in 0 .. n - 1 /\ asked - 1 < n - 1 /\ asked - 1 + 1 = asked
        BY <2>1, <2>2, <2>3
      <3> QED
        BY <2>1, <3>1
    <2>5. asked # n - 1 => asked < n - 1
      BY <2>1, <2>3
    <2>6. asked # n - 1 => end_of_chunk(s, asked, c) # s
      <3>1. asked # n - 1 => end_of_chunk(s, asked, c) < s
        BY <2>1, <2>3, <2>5
      <3>2. s \in Nat
        BY UInt64Assumption
      <3> QED
        BY <3>1, <3>2
    <2> QED
      BY <2>1, <2>3, <2>4, <2>6
  <1>2. IInv => ChunksAreTheFile
    BY <1>1 DEF ChunksAreTheFile
  <1> QED
    BY <1>2, InitInv, NextInv, PTL DEF Spec
=============================================================================
