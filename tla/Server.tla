------------------------------- MODULE Server -------------------------------
(***************************************************************************)
(* The life of a server program: server_main (server_cli_entry.cpp), the   *)
(* server (server.cpp), its server_transport_context with the threads that *)
(* run the io_context (server_context.cpp), the connection_sessions        *)
(* (session.cpp) and who keeps the server_impl alive.                      *)
(*                                                                         *)
(* The io_context, which is not under src/, hands a completed operation to *)
(* any idle thread: there is no strand.  A handler that throws ends the    *)
(* program.  What the messages hold is the business of Link, what a        *)
(* session id stands for that of SessionRegistry; here a request is one    *)
(* that is answered, that is refused, or that first waits for a chunk of a *)
(* file_cache (which answers: FileCache!ImplementsChunkService).           *)
(***************************************************************************)
EXTENDS Integers

CONSTANTS
  Thread,        \* the threads of the io_context (8)
  Client,        \* the connections that clients open
  FileSession,   \* the file_caches of m_file_sessions (bound)
  NoClient

ASSUME ServerAssumption == NoClient \notin Client

VARIABLES
  mpc,           \* where server_main is
  m_impl,        \* "none", "alive" or "destroyed"
  terminated,    \* an exception nobody caught
  m_stopped,     \* io_context.stop was called
  m_acceptor,    \* of its async_accept: "none", "pending" or "ready"
  accepted,      \* the client of the accept that is ready, NoClient if it failed
  tpc,           \* tpc[t]: where a thread is
  serves,        \* serves[t]: the connection whose handler it runs
  op,            \* op[c]: of the session's async_read, "none", "pending", "ready"
                 \* or "failed"
  m_socket,      \* m_socket[c]: "none", "open" or "closed" by the session
  peer,          \* peer[c]: where the client is
  message,       \* message[c]: a request is on its way
  m_file_sessions  \* of each file_cache: "none", "idle" or "asked"

main_vars   == <<mpc, m_impl, m_stopped>>
accept_vars == <<m_acceptor, accepted>>
thread_vars == <<tpc, serves>>
conn_vars   == <<op, m_socket>>
client_vars == <<peer, message>>
vars == <<main_vars, terminated, accept_vars, thread_vars, conn_vars, client_vars,
          m_file_sessions>>

Init ==
  /\ mpc = "make"
  /\ m_impl = "none"
  /\ terminated = FALSE
  /\ m_stopped = FALSE
  /\ m_acceptor = "none" /\ accepted = NoClient
  /\ tpc = [t \in Thread |-> "none"]
  /\ serves = [t \in Thread |-> NoClient]
  /\ op = [c \in Client |-> "none"]
  /\ m_socket = [c \in Client |-> "none"]
  /\ peer = [c \in Client |-> "new"]
  /\ message = [c \in Client |-> FALSE]
  /\ m_file_sessions = [s \in FileSession |-> "none"]

Serving == {"received", "read_data", "send", "error", "shutdown", "listen"}

(* A connection_session lives as long as an operation or a handler that is *)
(* running holds it; and it holds the server_impl.                         *)
Running(c) == {t \in Thread : serves[t] = c}
Alive(c)   == op[c] # "none" \/ Running(c) # {}

-----------------------------------------------------------------------------
(* server_main.                                                            *)

(* server::make may succeed, return a server without a server_impl, or     *)
(* throw: a port that is not a number, or is taken.                        *)
Make ==
  /\ mpc = "make"
  /\ \/ m_impl' = "alive" /\ mpc' = "start" /\ UNCHANGED terminated
     \/ UNCHANGED <<m_impl, terminated>> /\ mpc' = "start"
     \/ UNCHANGED <<m_impl, mpc>> /\ terminated' = TRUE
  /\ UNCHANGED <<m_stopped, accept_vars, thread_vars, conn_vars, client_vars,
                 m_file_sessions>>

(* start: the threads; a server without server_impl has none, and          *)
(* server_main does not look at the result.                                *)
Start ==
  /\ mpc = "start"
  /\ \/ /\ m_impl = "alive"
        /\ tpc' = [t \in Thread |-> "idle"]
        /\ mpc' = "accept"
     \/ /\ m_impl = "none"
        /\ mpc' = "sleep"
        /\ UNCHANGED tpc
  /\ UNCHANGED <<m_impl, m_stopped, terminated, accept_vars, serves, conn_vars,
                 client_vars, m_file_sessions>>

(* start_impl *)
Accept ==
  /\ mpc = "accept"
  /\ m_acceptor' = "pending"
  /\ mpc' = "sleep"
  /\ UNCHANGED <<m_impl, m_stopped, terminated, accepted, thread_vars, conn_vars,
                 client_vars, m_file_sessions>>

(* The timeout is over: stop, up to the joins. *)
Stop ==
  /\ mpc = "sleep"
  /\ \/ m_impl = "alive" /\ m_stopped' = TRUE /\ mpc' = "join"
     \/ m_impl = "none" /\ UNCHANGED m_stopped /\ mpc' = "returned"
  /\ UNCHANGED <<m_impl, terminated, accept_vars, thread_vars, conn_vars,
                 client_vars, m_file_sessions>>

(* Mutant: the threads are not joined. *)
NotJoined == TRUE

Joined == \A t \in Thread : tpc[t] = "ended"

Join ==
  /\ mpc = "join"
  /\ Joined
  /\ mpc' = "destroy"
  /\ UNCHANGED <<m_impl, m_stopped, terminated, accept_vars, thread_vars, conn_vars,
                 client_vars, m_file_sessions>>

(* ~server lets go of the server_impl, which is destroyed if no            *)
(* connection_session holds it: with it the io_context, and the handler of *)
(* the accept in it.  If one does, all of it stays, the operations of the  *)
(* sessions being held by the io_context.                                  *)
Destroy ==
  /\ mpc = "destroy"
  /\ IF \A c \in Client : ~Alive(c)
     THEN /\ m_impl' = "destroyed"
          /\ m_acceptor' = "none"
          /\ mpc' = "caches"
     ELSE /\ mpc' = "returned"
          /\ UNCHANGED <<m_impl, m_acceptor>>
  /\ UNCHANGED <<m_stopped, terminated, accepted, thread_vars, conn_vars, client_vars,
                 m_file_sessions>>

(* The file_caches are stopped; that does not return for one that was      *)
(* never asked for a chunk (FileCache!StopReturns).                        *)
StopCaches ==
  /\ mpc = "caches"
  /\ \A s \in FileSession : m_file_sessions[s] # "idle"
  /\ mpc' = "returned"
  /\ UNCHANGED <<m_impl, m_stopped, terminated, accept_vars, thread_vars, conn_vars,
                 client_vars, m_file_sessions>>

-----------------------------------------------------------------------------
(* The operations of the io_context, which looks at none once it is        *)
(* stopped.                                                                *)

(* A client that has connected, or an error, completes the accept. *)
AcceptCompletes ==
  /\ ~m_stopped
  /\ m_acceptor = "pending"
  /\ m_acceptor' = "ready"
  /\ accepted' \in {NoClient} \cup {c \in Client : peer[c] # "new" /\ m_socket[c] = "none"}
  /\ UNCHANGED <<main_vars, terminated, thread_vars, conn_vars, client_vars,
                 m_file_sessions>>

(* A request, or a connection that is down, completes a read. *)
ReadCompletes(c) ==
  /\ ~m_stopped
  /\ op[c] = "pending"
  /\ \/ /\ message[c]
        /\ op' = [op EXCEPT ![c] = "ready"]
     \/ /\ peer[c] = "gone" \/ m_socket[c] = "closed"
        /\ op' = [op EXCEPT ![c] = "failed"]
  /\ UNCHANGED <<main_vars, terminated, accept_vars, thread_vars, m_socket, client_vars,
                 m_file_sessions>>

-----------------------------------------------------------------------------
(* A thread in io_context::run.                                            *)

Idle(t) == tpc[t] = "idle" /\ ~m_stopped
Goto(t, label) == tpc' = [tpc EXCEPT ![t] = label]

TakeAccept(t) ==
  /\ Idle(t)
  /\ m_acceptor = "ready"
  /\ m_acceptor' = "none"
  /\ Goto(t, "accepted")
  /\ UNCHANGED <<main_vars, terminated, accepted, serves, conn_vars, client_vars,
                 m_file_sessions>>

(* Mutant: the next read is begun before the message is handled. *)
ReadsOn(c) == [op EXCEPT ![c] = "pending"]

OneRead(c) == [op EXCEPT ![c] = "none"]

(* The handler of a read that has a message ... *)
TakeRead(t, c) ==
  /\ Idle(t)
  /\ op[c] = "ready"
  /\ op' = OneRead(c)
  /\ message' = [message EXCEPT ![c] = FALSE]
  /\ serves' = [serves EXCEPT ![t] = c]
  /\ Goto(t, "received")
  /\ UNCHANGED <<main_vars, terminated, accept_vars, m_socket, peer, m_file_sessions>>

(* Mutant: it waits for a message once more. *)
WaitsAgain(c) == [op EXCEPT ![c] = "pending"]

LetGo(c) == [op EXCEPT ![c] = "none"]

(* ... and of one that failed: nothing holds the session any more, and its *)
(* destructor closes the socket.                                           *)
TakeFailed(t, c) ==
  /\ Idle(t)
  /\ op[c] = "failed"
  /\ op' = LetGo(c)
  /\ m_socket' = [m_socket EXCEPT ![c] = "closed"]
  /\ UNCHANGED <<main_vars, terminated, accept_vars, thread_vars, client_vars,
                 m_file_sessions>>

(* Mutant: it returns when there is nothing left to do. *)
OutOfWork == m_stopped /\ m_acceptor = "none" /\ \A c \in Client : op[c] = "none"

RunReturns == m_stopped

(* run returns, whatever is left to do. *)
End(t) ==
  /\ tpc[t] = "idle"
  /\ RunReturns
  /\ Goto(t, "ended")
  /\ UNCHANGED <<main_vars, terminated, accept_vars, serves, conn_vars, client_vars,
                 m_file_sessions>>

-----------------------------------------------------------------------------
(* The handler of start_impl.                                              *)

(* A client that has left may have left no address: remote_endpoint throws.*)
NoEndpoint(t) ==
  /\ tpc[t] = "accepted"
  /\ accepted # NoClient /\ peer[accepted] = "gone"
  /\ terminated' = TRUE
  /\ UNCHANGED <<main_vars, accept_vars, thread_vars, conn_vars, client_vars,
                 m_file_sessions>>

(* A session is made, and waits for its first message. *)
RunSession(t) ==
  /\ tpc[t] = "accepted"
  /\ IF accepted = NoClient THEN UNCHANGED conn_vars
     ELSE /\ m_socket' = [m_socket EXCEPT ![accepted] = "open"]
          /\ op' = [op EXCEPT ![accepted] = "pending"]
  /\ Goto(t, "accept")
  /\ UNCHANGED <<main_vars, terminated, accept_vars, serves, client_vars,
                 m_file_sessions>>

(* Mutant: no more clients after an error. *)
UnlessFailed(c) == IF c = NoClient THEN "none" ELSE "pending"

InAnyCase(c) == "pending"

(* The next accept. *)
AcceptNext(t) ==
  /\ tpc[t] = "accept"
  /\ m_acceptor' = InAnyCase(accepted)
  /\ accepted' = NoClient
  /\ Goto(t, "idle")
  /\ UNCHANGED <<main_vars, terminated, serves, conn_vars, client_vars,
                 m_file_sessions>>

-----------------------------------------------------------------------------
(* on_message_received, of the connection that thread t serves.            *)

(* What cannot be read, is not supported or asks for what there is not is  *)
(* refused.                                                                *)
Refuse(t) ==
  /\ tpc[t] = "received"
  /\ Goto(t, "error")
  /\ UNCHANGED <<main_vars, terminated, accept_vars, serves, conn_vars, client_vars,
                 m_file_sessions>>

(* on_hello *)
Hello(t) ==
  /\ tpc[t] = "received"
  /\ Goto(t, "send")
  /\ UNCHANGED <<main_vars, terminated, accept_vars, serves, conn_vars, client_vars,
                 m_file_sessions>>

(* on_download_file_request: the cache s is started. *)
Download(t, s) ==
  /\ tpc[t] = "received"
  /\ m_file_sessions[s] = "none"
  /\ m_file_sessions' = [m_file_sessions EXCEPT ![s] = "idle"]
  /\ Goto(t, "send")
  /\ UNCHANGED <<main_vars, terminated, accept_vars, serves, conn_vars, client_vars>>

(* on_chunk_request: the cache s is asked. *)
ReadChunk(t, s) ==
  /\ tpc[t] = "received"
  /\ m_file_sessions[s] # "none"
  /\ m_file_sessions' = [m_file_sessions EXCEPT ![s] = "asked"]
  /\ Goto(t, "read_data")
  /\ UNCHANGED <<main_vars, terminated, accept_vars, serves, conn_vars, client_vars>>

(* The reply reaches a client that waits for it. *)
Replied(c, reply) == peer' = [peer EXCEPT ![c] = IF @ = "waiting" THEN reply ELSE @]

(* send, which blocks until the client has read enough of it; a reply that *)
(* could not be sent leads to the error path.                              *)
SendReply(t) ==
  /\ tpc[t] = "send"
  /\ \/ Goto(t, "listen")
     \/ peer[serves[t]] = "gone" /\ Goto(t, "error")
  /\ Replied(serves[t], "idle")
  /\ UNCHANGED <<main_vars, terminated, accept_vars, serves, conn_vars, message,
                 m_file_sessions>>

(* The cache has the chunk, which is sent; whether it could be is not      *)
(* looked at.                                                              *)
SendChunk(t) ==
  /\ tpc[t] = "read_data"
  /\ Goto(t, "listen")
  /\ Replied(serves[t], "idle")
  /\ UNCHANGED <<main_vars, terminated, accept_vars, serves, conn_vars, message,
                 m_file_sessions>>

(* The error message; its send blocks as well. *)
SendError(t) ==
  /\ tpc[t] = "error"
  /\ Goto(t, "shutdown")
  /\ Replied(serves[t], "refused")
  /\ UNCHANGED <<main_vars, terminated, accept_vars, serves, conn_vars, message,
                 m_file_sessions>>

(* The connection of a client that has left may be down: shutdown throws. *)
NotConnected(t) ==
  /\ tpc[t] = "shutdown"
  /\ peer[serves[t]] = "gone"
  /\ terminated' = TRUE
  /\ UNCHANGED <<main_vars, accept_vars, thread_vars, conn_vars, client_vars,
                 m_file_sessions>>

(* shutdown and close *)
Close(t) ==
  /\ tpc[t] = "shutdown"
  /\ m_socket' = [m_socket EXCEPT ![serves[t]] = "closed"]
  /\ Goto(t, "listen")
  /\ UNCHANGED <<main_vars, terminated, accept_vars, serves, op, client_vars,
                 m_file_sessions>>

(* Mutant: the session is kept, but reads no more. *)
NoRead(c) == op

NextRead(c) == [op EXCEPT ![c] = "pending"]

(* Mutant: the handler that has ended still holds the session. *)
HeldBy(t) == serves

FreeOf(t) == [serves EXCEPT ![t] = NoClient]

(* wait_for_message: the next read, which fails if the socket is closed. *)
WaitForMessage(t) ==
  /\ tpc[t] = "listen"
  /\ op' = NextRead(serves[t])
  /\ serves' = FreeOf(t)
  /\ Goto(t, "idle")
  /\ UNCHANGED <<main_vars, terminated, accept_vars, m_socket, client_vars,
                 m_file_sessions>>

-----------------------------------------------------------------------------
(* The clients.                                                            *)

(* While somebody may accept. *)
Connect(c) ==
  /\ peer[c] = "new"
  /\ m_impl = "alive" /\ ~m_stopped
  /\ peer' = [peer EXCEPT ![c] = "idle"]
  /\ UNCHANGED <<main_vars, terminated, accept_vars, thread_vars, conn_vars, message,
                 m_file_sessions>>

(* One request at a time; none that nobody will look at. *)
SendRequest(c) ==
  /\ ~m_stopped
  /\ peer[c] = "idle"
  /\ ~message[c]
  /\ peer' = [peer EXCEPT ![c] = "waiting"]
  /\ message' = [message EXCEPT ![c] = TRUE]
  /\ UNCHANGED <<main_vars, terminated, accept_vars, thread_vars, conn_vars,
                 m_file_sessions>>

(* At any time it may leave, or break down. *)
Leave(c) ==
  /\ peer[c] \in {"idle", "waiting"}
  /\ peer' = [peer EXCEPT ![c] = "gone"]
  /\ UNCHANGED <<main_vars, terminated, accept_vars, thread_vars, conn_vars, message,
                 m_file_sessions>>

-----------------------------------------------------------------------------
Main == Make \/ Start \/ Accept \/ Stop \/ Join \/ Destroy \/ StopCaches

Handler(t) ==
  \/ NoEndpoint(t) \/ RunSession(t) \/ AcceptNext(t)
  \/ Refuse(t) \/ Hello(t) \/ (\E s \in FileSession : Download(t, s) \/ ReadChunk(t, s))
  \/ SendReply(t) \/ SendChunk(t) \/ SendError(t)
  \/ NotConnected(t) \/ Close(t) \/ WaitForMessage(t)

ThreadStep(t) ==
  \/ TakeAccept(t) \/ End(t) \/ Handler(t)
  \/ \E c \in Client : TakeRead(t, c) \/ TakeFailed(t, c)

ClientStep(c) ==
  Connect(c) \/ SendRequest(c) \/ Leave(c)

Next ==
  /\ ~terminated /\ mpc # "returned"
  /\ \/ Main
     \/ AcceptCompletes
     \/ \E t \in Thread : ThreadStep(t)
     \/ \E c \in Client : ReadCompletes(c) \/ ClientStep(c)

Spec == Init /\ [][Next]_vars

(* What is waited for: the start and the end of the program, but for the   *)
(* timeout, which may be as long as one likes; the network, for what is on *)
(* its way; a cache, and a client to read its reply or to leave.  The      *)
(* io_context hands out completed operations in their order, so that none  *)
(* is passed over for ever.                                                *)
Fairness ==
  /\ WF_vars(~terminated /\ (Make \/ Start \/ Accept \/ Join \/ Destroy \/ StopCaches))
  /\ \A c \in Client :
       /\ WF_vars(~terminated /\ ReadCompletes(c))
       /\ SF_vars(~terminated /\ \E t \in Thread : TakeRead(t, c) \/ TakeFailed(t, c))
  /\ \A t \in Thread :
       WF_vars(~terminated /\ (Handler(t) \/ End(t)))

FairSpec == Spec /\ Fairness

-----------------------------------------------------------------------------
TypeOK ==
  /\ mpc \in {"make", "start", "accept", "sleep", "join", "destroy", "caches", "returned"}
  /\ m_impl \in {"none", "alive", "destroyed"}
  /\ terminated \in BOOLEAN /\ m_stopped \in BOOLEAN
  /\ m_acceptor \in {"none", "pending", "ready"}
  /\ accepted \in Client \cup {NoClient}
  /\ tpc \in [Thread -> {"none", "idle", "accepted", "accept", "ended"} \cup Serving]
  /\ serves \in [Thread -> Client \cup {NoClient}]
  /\ \A t \in Thread : serves[t] # NoClient <=> tpc[t] \in Serving
  /\ op \in [Client -> {"none", "pending", "ready", "failed"}]
  /\ m_socket \in [Client -> {"none", "open", "closed"}]
  /\ peer \in [Client -> {"new", "idle", "waiting", "refused", "gone"}]
  /\ message \in [Client -> BOOLEAN]
  /\ m_file_sessions \in [FileSession -> {"none", "idle", "asked"}]

(* A connection's bridge, its buffers and its socket are used by one       *)
(* handler or one operation at a time, although eight threads run the      *)
(* handlers and there is neither a strand nor a lock: the chain of reads   *)
(* keeps them apart (session.cpp:236-241).                                 *)
OneHandlerPerConnection ==
  \A c \in Client :
    /\ op[c] # "none" => Running(c) = {}
    /\ \A t, u \in Running(c) : t = u

(* As long as the server serves there is one accept, pending or in the     *)
(* hands of one thread: it goes on accepting, whatever came of the one     *)
(* before, and never twice at once (server.cpp:94-115).                    *)
OneAccept ==
  LET accepting == {t \in Thread : tpc[t] \in {"accepted", "accept"}}
  IN  mpc \in {"sleep", "join", "destroy"} /\ m_impl = "alive" =>
        /\ m_acceptor # "none" <=> accepting = {}
        /\ \A t, u \in accepting : t = u

(* The handlers use the server on the stack of server_main (server.cpp:95) *)
(* and the server_impl (session.h:68): they run, and sessions are there    *)
(* for them to run, only while there are both.                             *)
NothingOutlivesTheServer ==
  /\ \A t \in Thread :
       tpc[t] \notin {"none", "idle", "ended"} =>
         m_impl = "alive" /\ mpc \in {"sleep", "join"}
  /\ m_impl # "alive" => \A c \in Client : ~Alive(c)

(* A request on a connection that has a session is answered, or refused,   *)
(* as long as the server serves.                                           *)
RequestsAreAnswered ==
  \A c \in Client :
    peer[c] = "waiting" /\ m_socket[c] = "open"
      ~> peer[c] # "waiting" \/ m_stopped \/ terminated

(* Nothing is kept of a connection whose client has left.                  *)
SessionsEnd ==
  \A c \in Client :
    peer[c] = "gone" /\ Alive(c) ~> ~Alive(c) \/ m_stopped \/ terminated

(* When the time is over server_main returns, in the middle of whatever    *)
(* there is to do; unless it is left with a cache that nobody ever asked.  *)
MainReturns ==
  mpc = "join" ~> \/ mpc = "returned" \/ terminated
                  \/ mpc = "caches" /\ \E s \in FileSession : m_file_sessions[s] = "idle"
=============================================================================
