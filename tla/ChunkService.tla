---------------------------- MODULE ChunkService ----------------------------
(***************************************************************************)
(* What a file read service promises to the threads that call it: a call   *)
(* names a chunk, and is answered once, with the bytes the file holds at   *)
(* that chunk.  How the bytes are fetched, cached and read in advance is   *)
(* left to the implementation (module FileCache).                          *)
(*                                                                         *)
(* The content of chunk c of the file is written c.                        *)
(***************************************************************************)
EXTENDS Integers

CONSTANTS
  Request,          \* the calls
  NumberOfChunks,   \* of the file that is served
  NoChunk           \* "no chunk": not yet asked, not yet answered

VARIABLES
  asked,            \* asked[r]: the chunk call r names
  answer            \* answer[r]: the bytes call r returned

vars == <<asked, answer>>

ChunkId == 0 .. NumberOfChunks - 1

Init ==
  /\ asked  = [r \in Request |-> NoChunk]
  /\ answer = [r \in Request |-> NoChunk]

Ask(r, c) ==
  /\ asked[r] = NoChunk
  /\ asked' = [asked EXCEPT ![r] = c]
  /\ UNCHANGED answer

Answer(r) ==
  /\ asked[r] # NoChunk
  /\ answer[r] = NoChunk
  /\ answer' = [answer EXCEPT ![r] = asked[r]]
  /\ UNCHANGED asked

Next == \E r \in Request : Answer(r) \/ \E c \in ChunkId : Ask(r, c)

(* Every call that is made is answered. *)
Spec == Init /\ [][Next]_vars /\ \A r \in Request : WF_vars(Answer(r))
=============================================================================
