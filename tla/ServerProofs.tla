---------------------------- MODULE ServerProofs ----------------------------
(***************************************************************************)
(* The safety of Server for any number of threads, connections and caches. *)
(* What a handler may do to a connection, or to the acceptor, depends on   *)
(* what nobody else has in hand; and whether anybody has anything in hand  *)
(* depends on how far server_main is.  The three parts of the invariant    *)
(* say the one and the other.                                              *)
(***************************************************************************)
EXTENDS Server, TLAPS

(* How far server_main is, and what there can be by then. *)
Phases ==
  /\ mpc = "make" => m_impl = "none"
  /\ mpc \in {"make", "start"} => \A t \in Thread : tpc[t] = "none"
  /\ mpc = "accept" => m_impl = "alive" /\ \A t \in Thread : tpc[t] = "idle"
  /\ mpc \in {"make", "start", "accept"} =>
       m_acceptor = "none" /\ \A c \in Client : m_socket[c] = "none"
  /\ m_stopped => mpc \in {"join", "destroy", "caches", "returned"}
  /\ mpc \in {"join", "destroy"} => m_impl = "alive"
  /\ mpc = "caches" => m_impl = "destroyed"
  /\ mpc \in {"destroy", "caches"} => \A t \in Thread : tpc[t] = "ended"
  /\ mpc = "returned" => m_impl = "none" \/ \A t \in Thread : tpc[t] = "ended"
  /\ m_impl = "none" =>
       /\ m_acceptor = "none"
       /\ \A t \in Thread : tpc[t] = "none"
       /\ \A c \in Client : m_socket[c] = "none"
  /\ m_impl = "destroyed" =>
       mpc \in {"caches", "returned"} /\ \A c \in Client : op[c] = "none"

(* Who has the accept in hand.  A connection that was accepted has had no  *)
(* session before.                                                         *)
Accepting ==
  /\ \A t, u \in Thread :
       tpc[t] \in {"accepted", "accept"} /\ tpc[u] \in {"accepted", "accept"} => t = u
  /\ \A t \in Thread : tpc[t] \in {"accepted", "accept"} => m_acceptor = "none"
  /\ mpc \in {"sleep", "join", "destroy"} /\ m_impl = "alive" /\ m_acceptor = "none" =>
       \E t \in Thread : tpc[t] \in {"accepted", "accept"}
  /\ m_acceptor = "ready" /\ accepted # NoClient => m_socket[accepted] = "none"
  /\ \A t \in Thread : tpc[t] = "accepted" /\ accepted # NoClient =>
       m_socket[accepted] = "none"

(* Who has a connection in hand: one handler, or an operation, or nobody;  *)
(* and nobody before there is a session.                                   *)
Handlers ==
  /\ \A c \in Client : m_socket[c] = "none" => op[c] = "none"
  /\ \A t \in Thread, c \in Client :
       serves[t] = c => op[c] = "none" /\ m_socket[c] # "none"
  /\ \A t, u \in Thread, c \in Client : serves[t] = c /\ serves[u] = c => t = u

(* The inductive invariant. *)
IInv == TypeOK /\ Phases /\ Accepting /\ Handlers

-----------------------------------------------------------------------------
(* One lemma per action. *)

LEMMA MakeKeeps ==
  ASSUME IInv, Make
  PROVE  IInv'
<1>1. TypeOK'
  BY DEF IInv, TypeOK, Make, Serving, main_vars, accept_vars, thread_vars,
     conn_vars, client_vars
<1>2. Phases'
  BY DEF IInv, Phases, Make, Serving, main_vars, accept_vars, thread_vars,
     conn_vars, client_vars
<1>3. Accepting'
  BY DEF IInv, Accepting, Make, Serving, main_vars, accept_vars,
     thread_vars, conn_vars, client_vars
<1>4. Handlers'
  BY DEF IInv, Handlers, Make, Serving, main_vars, accept_vars, thread_vars,
     conn_vars, client_vars
<1> QED
  BY <1>1, <1>2, <1>3, <1>4 DEF IInv

LEMMA StartKeeps ==
  ASSUME IInv, Start
  PROVE  IInv'
  BY ServerAssumption DEF IInv, TypeOK, Phases, Accepting, Handlers,
     Serving, Start, accept_vars, conn_vars, client_vars

LEMMA AcceptKeeps ==
  ASSUME IInv, Accept
  PROVE  IInv'
  BY ServerAssumption DEF IInv, TypeOK, Phases, Accepting, Handlers,
     Serving, Accept, thread_vars, conn_vars, client_vars

LEMMA StopKeeps ==
  ASSUME IInv, Stop
  PROVE  IInv'
<1>1. TypeOK'
  BY DEF IInv, TypeOK, Stop, Serving, main_vars, accept_vars, thread_vars,
     conn_vars, client_vars
<1>2. Phases'
  BY DEF IInv, Phases, Stop, Serving, main_vars, accept_vars, thread_vars,
     conn_vars, client_vars
<1>3. Accepting'
  BY DEF IInv, Accepting, Stop, Serving, main_vars, accept_vars,
     thread_vars, conn_vars, client_vars
<1>4. Handlers'
  BY DEF IInv, Handlers, Stop, Serving, main_vars, accept_vars, thread_vars,
     conn_vars, client_vars
<1> QED
  BY <1>1, <1>2, <1>3, <1>4 DEF IInv

LEMMA JoinKeeps ==
  ASSUME IInv, Join
  PROVE  IInv'
  BY ServerAssumption DEF IInv, TypeOK, Phases, Accepting, Handlers,
     Serving, Join, accept_vars, thread_vars, conn_vars, client_vars, Joined

LEMMA DestroyKeeps ==
  ASSUME IInv, Destroy
  PROVE  IInv'
  BY ServerAssumption DEF IInv, TypeOK, Phases, Accepting, Handlers,
     Serving, Destroy, thread_vars, conn_vars, client_vars, Alive, Running

LEMMA StopCachesKeeps ==
  ASSUME IInv, StopCaches
  PROVE  IInv'
  BY ServerAssumption DEF IInv, TypeOK, Phases, Accepting, Handlers,
     Serving, StopCaches, accept_vars, thread_vars, conn_vars, client_vars

LEMMA AcceptCompletesKeeps ==
  ASSUME IInv, AcceptCompletes
  PROVE  IInv'
  BY ServerAssumption DEF IInv, TypeOK, Phases, Accepting, Handlers,
     Serving, AcceptCompletes, main_vars, thread_vars, conn_vars,
     client_vars

LEMMA ReadCompletesKeeps ==
  ASSUME IInv, NEW c \in Client, ReadCompletes(c)
  PROVE  IInv'
  BY ServerAssumption DEF IInv, TypeOK, Phases, Accepting, Handlers,
     Serving, ReadCompletes, main_vars, accept_vars, thread_vars,
     client_vars

LEMMA TakeAcceptKeeps ==
  ASSUME IInv, NEW t \in Thread, TakeAccept(t)
  PROVE  IInv'
  BY ServerAssumption DEF IInv, TypeOK, Phases, Accepting, Handlers,
     Serving, TakeAccept, main_vars, conn_vars, client_vars, Goto, Idle

LEMMA TakeReadKeeps ==
  ASSUME IInv, NEW t \in Thread, NEW c \in Client, TakeRead(t, c)
  PROVE  IInv'
  BY ServerAssumption DEF IInv, TypeOK, Phases, Accepting, Handlers,
     Serving, TakeRead, main_vars, accept_vars, Goto, Idle, OneRead

LEMMA TakeFailedKeeps ==
  ASSUME IInv, NEW t \in Thread, NEW c \in Client, TakeFailed(t, c)
  PROVE  IInv'
  BY ServerAssumption DEF IInv, TypeOK, Phases, Accepting, Handlers,
     Serving, TakeFailed, main_vars, accept_vars, thread_vars, client_vars,
     Idle, LetGo

LEMMA EndKeeps ==
  ASSUME IInv, NEW t \in Thread, End(t)
  PROVE  IInv'
  BY ServerAssumption DEF IInv, TypeOK, Phases, Accepting, Handlers,
     Serving, End, main_vars, accept_vars, conn_vars, client_vars, Goto,
     RunReturns

LEMMA NoEndpointKeeps ==
  ASSUME IInv, NEW t \in Thread, NoEndpoint(t)
  PROVE  IInv'
  BY ServerAssumption DEF IInv, TypeOK, Phases, Accepting, Handlers,
     Serving, NoEndpoint, main_vars, accept_vars, thread_vars, conn_vars,
     client_vars

LEMMA RunSessionKeeps ==
  ASSUME IInv, NEW t \in Thread, RunSession(t)
  PROVE  IInv'
  BY ServerAssumption DEF IInv, TypeOK, Phases, Accepting, Handlers,
     Serving, RunSession, main_vars, accept_vars, conn_vars, client_vars,
     Goto

LEMMA AcceptNextKeeps ==
  ASSUME IInv, NEW t \in Thread, AcceptNext(t)
  PROVE  IInv'
  BY ServerAssumption DEF IInv, TypeOK, Phases, Accepting, Handlers,
     Serving, AcceptNext, main_vars, conn_vars, client_vars, Goto, InAnyCase

LEMMA RefuseKeeps ==
  ASSUME IInv, NEW t \in Thread, Refuse(t)
  PROVE  IInv'
  BY ServerAssumption DEF IInv, TypeOK, Phases, Accepting, Handlers,
     Serving, Refuse, main_vars, accept_vars, conn_vars, client_vars, Goto

LEMMA HelloKeeps ==
  ASSUME IInv, NEW t \in Thread, Hello(t)
  PROVE  IInv'
  BY ServerAssumption DEF IInv, TypeOK, Phases, Accepting, Handlers,
     Serving, Hello, main_vars, accept_vars, conn_vars, client_vars, Goto

LEMMA DownloadKeeps ==
  ASSUME IInv, NEW t \in Thread, NEW s \in FileSession, Download(t, s)
  PROVE  IInv'
  BY ServerAssumption DEF IInv, TypeOK, Phases, Accepting, Handlers,
     Serving, Download, main_vars, accept_vars, conn_vars, client_vars, Goto

LEMMA ReadChunkKeeps ==
  ASSUME IInv, NEW t \in Thread, NEW s \in FileSession, ReadChunk(t, s)
  PROVE  IInv'
  BY ServerAssumption DEF IInv, TypeOK, Phases, Accepting, Handlers,
     Serving, ReadChunk, main_vars, accept_vars, conn_vars, client_vars,
     Goto

LEMMA SendReplyKeeps ==
  ASSUME IInv, NEW t \in Thread, SendReply(t)
  PROVE  IInv'
  BY ServerAssumption DEF IInv, TypeOK, Phases, Accepting, Handlers,
     Serving, SendReply, main_vars, accept_vars, conn_vars, Goto, Replied

LEMMA SendChunkKeeps ==
  ASSUME IInv, NEW t \in Thread, SendChunk(t)
  PROVE  IInv'
  BY ServerAssumption DEF IInv, TypeOK, Phases, Accepting, Handlers,
     Serving, SendChunk, main_vars, accept_vars, conn_vars, Goto, Replied

LEMMA SendErrorKeeps ==
  ASSUME IInv, NEW t \in Thread, SendError(t)
  PROVE  IInv'
  BY ServerAssumption DEF IInv, TypeOK, Phases, Accepting, Handlers,
     Serving, SendError, main_vars, accept_vars, conn_vars, Goto, Replied

LEMMA NotConnectedKeeps ==
  ASSUME IInv, NEW t \in Thread, NotConnected(t)
  PROVE  IInv'
  BY ServerAssumption DEF IInv, TypeOK, Phases, Accepting, Handlers,
     Serving, NotConnected, main_vars, accept_vars, thread_vars, conn_vars,
     client_vars

LEMMA CloseKeeps ==
  ASSUME IInv, NEW t \in Thread, Close(t)
  PROVE  IInv'
  BY ServerAssumption DEF IInv, TypeOK, Phases, Accepting, Handlers,
     Serving, Close, main_vars, accept_vars, client_vars, Goto

LEMMA WaitForMessageKeeps ==
  ASSUME IInv, NEW t \in Thread, WaitForMessage(t)
  PROVE  IInv'
  BY ServerAssumption DEF IInv, TypeOK, Phases, Accepting, Handlers,
     Serving, WaitForMessage, main_vars, accept_vars, client_vars, Goto,
     NextRead, FreeOf

LEMMA ConnectKeeps ==
  ASSUME IInv, NEW c \in Client, Connect(c)
  PROVE  IInv'
  BY ServerAssumption DEF IInv, TypeOK, Phases, Accepting, Handlers,
     Serving, Connect, main_vars, accept_vars, thread_vars, conn_vars

LEMMA SendRequestKeeps ==
  ASSUME IInv, NEW c \in Client, SendRequest(c)
  PROVE  IInv'
  BY ServerAssumption DEF IInv, TypeOK, Phases, Accepting, Handlers,
     Serving, SendRequest, main_vars, accept_vars, thread_vars, conn_vars

LEMMA LeaveKeeps ==
  ASSUME IInv, NEW c \in Client, Leave(c)
  PROVE  IInv'
  BY ServerAssumption DEF IInv, TypeOK, Phases, Accepting, Handlers,
     Serving, Leave, main_vars, accept_vars, thread_vars, conn_vars

LEMMA StutterKeeps == ASSUME IInv, UNCHANGED vars PROVE IInv'
  BY DEF IInv, TypeOK, Phases, Accepting, Handlers, Serving, vars, main_vars,
     accept_vars, thread_vars, conn_vars, client_vars

LEMMA InitHolds == Init => IInv
<1> SUFFICES ASSUME Init PROVE IInv
  OBVIOUS
<1>1. TypeOK
  BY DEF Init, TypeOK, Serving
<1>2. Phases
  BY DEF Init, Phases
<1>3. Accepting
  BY DEF Init, Accepting
<1>4. Handlers
  BY ServerAssumption DEF Init, Handlers
<1> QED
  BY <1>1, <1>2, <1>3, <1>4 DEF IInv

(* Every step keeps the invariant. *)
LEMMA NextKeeps == IInv /\ [Next]_vars => IInv'
<1>1. SUFFICES ASSUME IInv, Next PROVE IInv'
  BY StutterKeeps
<1>2. CASE Main
  BY <1>1, <1>2, MakeKeeps, StartKeeps, AcceptKeeps, StopKeeps, JoinKeeps,
     DestroyKeeps, StopCachesKeeps DEF Main
<1>3. CASE AcceptCompletes
  BY <1>1, <1>3, AcceptCompletesKeeps
<1>4. ASSUME NEW t \in Thread, ThreadStep(t) PROVE IInv'
  <2>1. CASE \E c \in Client : TakeRead(t, c) \/ TakeFailed(t, c)
    BY <1>1, <2>1, TakeReadKeeps, TakeFailedKeeps
  <2>2. CASE Handler(t)
    BY <1>1, <2>2, NoEndpointKeeps, RunSessionKeeps, AcceptNextKeeps, RefuseKeeps,
       HelloKeeps, DownloadKeeps, ReadChunkKeeps, SendReplyKeeps, SendChunkKeeps,
       SendErrorKeeps, NotConnectedKeeps, CloseKeeps, WaitForMessageKeeps DEF Handler
  <2> QED
    BY <1>1, <1>4, <2>1, <2>2, TakeAcceptKeeps, EndKeeps DEF ThreadStep
<1>5. ASSUME NEW c \in Client, ReadCompletes(c) \/ ClientStep(c) PROVE IInv'
  BY <1>1, <1>5, ReadCompletesKeeps, ConnectKeeps, SendRequestKeeps, LeaveKeeps
     DEF ClientStep
<1> QED
  BY <1>1, <1>2, <1>3, <1>4, <1>5 DEF Next

LEMMA Invariant == Spec => []IInv
  BY InitHolds, NextKeeps, PTL DEF Spec

-----------------------------------------------------------------------------
(* Type correctness, for any threads, clients and caches. *)
THEOREM TypeCorrect == Spec => []TypeOK
<1>1. IInv => TypeOK
  BY DEF IInv
<1> QED
  BY <1>1, Invariant, PTL

(* However many threads run the handlers (session.cpp:236-241), no two     *)
(* are at one connection, nor a handler and a read.                        *)
THEOREM OneHandlerCorrect == Spec => []OneHandlerPerConnection
<1>1. IInv => OneHandlerPerConnection
  BY DEF IInv, TypeOK, Handlers, OneHandlerPerConnection, Running
<1> QED
  BY <1>1, Invariant, PTL

(* However many threads, clients and errors: while the server serves there *)
(* is exactly one accept (server.cpp:94-115).                              *)
THEOREM OneAcceptCorrect == Spec => []OneAccept
<1>1. IInv => OneAccept
  BY DEF IInv, TypeOK, Accepting, OneAccept
<1> QED
  BY <1>1, Invariant, PTL

(* No handler runs without the server and the server_impl it uses, and no  *)
(* session is left for one when they are gone (session.h:68).              *)
THEOREM NothingOutlivesCorrect == Spec => []NothingOutlivesTheServer
<1> SUFFICES ASSUME IInv PROVE NothingOutlivesTheServer
  BY Invariant, PTL
<1>1. ASSUME NEW t \in Thread, tpc[t] \notin {"none", "idle", "ended"}
      PROVE  m_impl = "alive" /\ mpc \in {"sleep", "join"}
  BY <1>1 DEF IInv, TypeOK, Phases
<1>2. ASSUME NEW c \in Client, m_impl # "alive", Alive(c)
      PROVE  FALSE
  <2>1. op[c] = "none"
    BY <1>2 DEF IInv, TypeOK, Phases, Handlers
  <2>2. PICK t \in Thread : serves[t] = c
    BY <1>2, <2>1 DEF Alive, Running
  <2>3. tpc[t] \in Serving
    BY <2>2, ServerAssumption DEF IInv, TypeOK
  <2> QED
    BY <1>1, <1>2, <2>3 DEF Serving
<1> QED
  BY <1>1, <1>2 DEF NothingOutlivesTheServer
-----------------------------------------------------------------------------
(* Progress.  RequestsAreAnswered, SessionsEnd and MainReturns are         *)
(* liveness.  They rest on facts about states and steps: a request that a  *)
(* client waits for is in somebody's hands, a session that has ended does  *)
(* not come back, and once the server is stopped every step is one towards *)
(* its end, of which there are only so many.                               *)

(* A request on a connection that has a session is on its way to a read,   *)
(* which a handler is going to begin if it has not begun; or a handler     *)
(* works on the reply.                                                     *)
RequestsAreHeld ==
  \A c \in Client :
    (peer[c] = "waiting" /\ m_socket[c] = "open") =>
      \/ message[c] /\ (op[c] \in {"pending", "ready"} \/ Running(c) # {})
      \/ \E t \in Running(c) : tpc[t] \in {"received", "read_data", "send", "error"}

(* A session that nothing holds any more is never begun again, and its     *)
(* socket is left alone.                                                   *)
SessionsEndOnce ==
  [][\A c \in Client :
       m_socket[c] # "none" /\ ~Alive(c) => ~Alive(c)' /\ m_socket'[c] = m_socket[c]]_vars

MainStage ==
  [make |-> 0, start |-> 1, accept |-> 2, sleep |-> 3, join |-> 4, destroy |-> 5,
   caches |-> 6, returned |-> 7][mpc]

HandlerStage(t) ==
  [none |-> 0, accepted |-> 1, accept |-> 2, received |-> 1, read_data |-> 2,
   send |-> 2, error |-> 3, shutdown |-> 4, listen |-> 5, idle |-> 6, ended |-> 7][tpc[t]]

(* After stop nobody goes back, and with every step server_main, a thread  *)
(* or a client that leaves gets further, or the program is terminated.     *)
StopGoesOn ==
  [][m_stopped =>
       /\ MainStage <= MainStage'
       /\ \A t \in Thread : HandlerStage(t) <= HandlerStage(t)'
       /\ \A c \in Client : peer[c] = "gone" => peer'[c] = "gone"
       /\ \/ terminated'
          \/ MainStage < MainStage'
          \/ \E t \in Thread : HandlerStage(t) < HandlerStage(t)'
          \/ \E c \in Client : peer[c] # "gone" /\ peer'[c] = "gone"]_vars

(* What a thread needs for its next step (Handler or End, of which         *)
(* GoesOnAlone shows one): run returns to it, or its handler still has the *)
(* io_context and alone has in hand what it works on, a client that has no *)
(* session yet, the accept, or its session with no read under way.         *)
ThreadCanGoOn(t) ==
  \/ tpc[t] = "idle" /\ RunReturns
  \/ /\ m_impl = "alive"
     /\ \/ tpc[t] = "accepted" /\ (accepted # NoClient => m_socket[accepted] = "none")
        \/ tpc[t] = "accept" /\ m_acceptor = "none"
        \/ /\ tpc[t] \in Serving
           /\ \E c \in Client :
                serves[t] = c /\ Running(c) = {t} /\ op[c] = "none" /\ m_socket[c] # "none"

(* The join waits for nobody who waits: each thread that has not ended has *)
(* a step of its own to take, whatever the clients, the sessions, the      *)
(* acceptor and the other threads have left undone.                        *)
JoinIsNotStuck ==
  mpc = "join" => \A t \in Thread : tpc[t] = "ended" \/ ThreadCanGoOn(t)

(* A next step of thread t, without a condition: nothing but assignments,  *)
(* so that there always is a state it leads to.                            *)
GoAlone(t) ==
  LET c == serves[t]
  IN  /\ Goto(t, [idle |-> "ended", accepted |-> "accept", accept |-> "idle",
                  received |-> "error", read_data |-> "listen", send |-> "listen",
                  error |-> "shutdown", shutdown |-> "listen", listen |-> "idle"][tpc[t]])
      /\ op' = IF tpc[t] = "accepted" /\ accepted # NoClient
                THEN [op EXCEPT ![accepted] = "pending"]
                ELSE IF tpc[t] = "listen" THEN NextRead(c) ELSE op
      /\ m_socket' = IF tpc[t] = "accepted" /\ accepted # NoClient
                      THEN [m_socket EXCEPT ![accepted] = "open"]
                      ELSE IF tpc[t] = "shutdown" THEN [m_socket EXCEPT ![c] = "closed"]
                      ELSE m_socket
      /\ m_acceptor' = IF tpc[t] = "accept" THEN InAnyCase(accepted) ELSE m_acceptor
      /\ accepted' = IF tpc[t] = "accept" THEN NoClient ELSE accepted
      /\ serves' = IF tpc[t] = "listen" THEN FreeOf(t) ELSE serves
      /\ IF tpc[t] \in {"send", "read_data", "error"}
         THEN Replied(c, IF tpc[t] = "error" THEN "refused" ELSE "idle")
         ELSE peer' = peer
      /\ UNCHANGED <<main_vars, terminated, message, m_file_sessions>>

(* Where a request is, and that a read fails only for a reason; where the  *)
(* threads are.                                                            *)
Requests ==
  /\ \A c \in Client :
       /\ op[c] = "ready" => message[c]
       /\ peer[c] = "waiting" /\ m_socket[c] = "none" => message[c]
       /\ op[c] = "failed" => peer[c] = "gone" \/ m_socket[c] = "closed"
       /\ m_socket[c] = "open" => op[c] # "none" \/ \E t \in Thread : serves[t] = c
       /\ (peer[c] = "waiting" /\ m_socket[c] = "open") =>
            \/ message[c]
            \/ \E t \in Thread :
                 serves[t] = c /\ tpc[t] \in {"received", "read_data", "send", "error"}
  /\ mpc = "join" => m_stopped /\ \A t \in Thread : tpc[t] # "none"
  /\ mpc \in {"sleep", "accept"} /\ m_impl = "alive" => \A t \in Thread : tpc[t] # "none"

(* The one step of SessionsEndOnce, and that of StopGoesOn. *)
StaysEnded(c) ==
  m_socket[c] # "none" /\ op[c] = "none" /\ (\A t \in Thread : serves[t] # c)
    => /\ op'[c] = "none" /\ (\A t \in Thread : serves'[t] # c)
       /\ m_socket'[c] = m_socket[c]

Onward ==
  m_stopped =>
    /\ MainStage <= MainStage'
    /\ \A t \in Thread : HandlerStage(t) <= HandlerStage(t)'
    /\ \A c \in Client : peer[c] = "gone" => peer'[c] = "gone"
    /\ \/ terminated'
       \/ MainStage < MainStage'
       \/ \E t \in Thread : HandlerStage(t) < HandlerStage(t)'
       \/ \E c \in Client : peer[c] # "gone" /\ peer'[c] = "gone"

LEMMA MakeRequests ==
  ASSUME IInv, Requests, Make
  PROVE  Requests' /\ \A k \in Client : StaysEnded(k)
  BY ServerAssumption DEF IInv, TypeOK, Handlers, Accepting, Phases, Requests,
     StaysEnded, Serving, Make, main_vars, accept_vars, thread_vars, conn_vars,
     client_vars

LEMMA StartRequests ==
  ASSUME IInv, Requests, Start
  PROVE  Requests' /\ \A k \in Client : StaysEnded(k)
  BY ServerAssumption DEF IInv, TypeOK, Handlers, Accepting, Phases, Requests,
     StaysEnded, Serving, Start, main_vars, accept_vars, thread_vars, conn_vars,
     client_vars

LEMMA AcceptRequests ==
  ASSUME IInv, Requests, Accept
  PROVE  Requests' /\ \A k \in Client : StaysEnded(k)
  BY ServerAssumption DEF IInv, TypeOK, Handlers, Accepting, Phases, Requests,
     StaysEnded, Serving, Accept, main_vars, accept_vars, thread_vars, conn_vars,
     client_vars

LEMMA StopRequests ==
  ASSUME IInv, Requests, Stop
  PROVE  Requests' /\ \A k \in Client : StaysEnded(k)
  BY ServerAssumption DEF IInv, TypeOK, Handlers, Accepting, Phases, Requests,
     StaysEnded, Serving, Stop, main_vars, accept_vars, thread_vars, conn_vars,
     client_vars

LEMMA JoinRequests ==
  ASSUME IInv, Requests, Join
  PROVE  Requests' /\ \A k \in Client : StaysEnded(k)
  BY ServerAssumption DEF IInv, TypeOK, Handlers, Accepting, Phases, Requests,
     StaysEnded, Serving, Join, main_vars, accept_vars, thread_vars, conn_vars,
     client_vars, Joined

LEMMA DestroyRequests ==
  ASSUME IInv, Requests, Destroy
  PROVE  Requests' /\ \A k \in Client : StaysEnded(k)
  BY ServerAssumption DEF IInv, TypeOK, Handlers, Accepting, Phases, Requests,
     StaysEnded, Serving, Destroy, main_vars, accept_vars, thread_vars, conn_vars,
     client_vars, Alive, Running

LEMMA StopCachesRequests ==
  ASSUME IInv, Requests, StopCaches
  PROVE  Requests' /\ \A k \in Client : StaysEnded(k)
  BY ServerAssumption DEF IInv, TypeOK, Handlers, Accepting, Phases, Requests,
     StaysEnded, Serving, StopCaches, main_vars, accept_vars, thread_vars,
     conn_vars, client_vars

LEMMA AcceptCompletesRequests ==
  ASSUME IInv, Requests, AcceptCompletes
  PROVE  Requests' /\ \A k \in Client : StaysEnded(k)
  BY ServerAssumption DEF IInv, TypeOK, Handlers, Accepting, Phases, Requests,
     StaysEnded, Serving, AcceptCompletes, main_vars, accept_vars, thread_vars,
     conn_vars, client_vars

LEMMA ReadCompletesRequests ==
  ASSUME IInv, Requests, NEW c \in Client, ReadCompletes(c)
  PROVE  Requests' /\ \A k \in Client : StaysEnded(k)
  BY ServerAssumption DEF IInv, TypeOK, Handlers, Accepting, Phases, Requests,
     StaysEnded, Serving, ReadCompletes, main_vars, accept_vars, thread_vars,
     conn_vars, client_vars

LEMMA TakeAcceptRequests ==
  ASSUME IInv, Requests, NEW t \in Thread, TakeAccept(t)
  PROVE  Requests' /\ \A k \in Client : StaysEnded(k)
  BY ServerAssumption DEF IInv, TypeOK, Handlers, Accepting, Phases, Requests,
     StaysEnded, Serving, TakeAccept, main_vars, accept_vars, thread_vars,
     conn_vars, client_vars, Goto, Idle

LEMMA TakeReadRequests ==
  ASSUME IInv, Requests, NEW t \in Thread, NEW c \in Client, TakeRead(t, c)
  PROVE  Requests' /\ \A k \in Client : StaysEnded(k)
  BY ServerAssumption DEF IInv, TypeOK, Handlers, Accepting, Phases, Requests,
     StaysEnded, Serving, TakeRead, main_vars, accept_vars, thread_vars,
     conn_vars, client_vars, Goto, Idle, OneRead

LEMMA TakeFailedRequests ==
  ASSUME IInv, Requests, NEW t \in Thread, NEW c \in Client, TakeFailed(t, c)
  PROVE  Requests' /\ \A k \in Client : StaysEnded(k)
  BY ServerAssumption DEF IInv, TypeOK, Handlers, Accepting, Phases, Requests,
     StaysEnded, Serving, TakeFailed, main_vars, accept_vars, thread_vars,
     conn_vars, client_vars, Idle, LetGo

LEMMA EndRequests ==
  ASSUME IInv, Requests, NEW t \in Thread, End(t)
  PROVE  Requests' /\ \A k \in Client : StaysEnded(k)
  BY ServerAssumption DEF IInv, TypeOK, Handlers, Accepting, Phases, Requests,
     StaysEnded, Serving, End, main_vars, accept_vars, thread_vars, conn_vars,
     client_vars, Goto, RunReturns

LEMMA NoEndpointRequests ==
  ASSUME IInv, Requests, NEW t \in Thread, NoEndpoint(t)
  PROVE  Requests' /\ \A k \in Client : StaysEnded(k)
  BY ServerAssumption DEF IInv, TypeOK, Handlers, Accepting, Phases, Requests,
     StaysEnded, Serving, NoEndpoint, main_vars, accept_vars, thread_vars,
     conn_vars, client_vars

LEMMA RunSessionRequests ==
  ASSUME IInv, Requests, NEW t \in Thread, RunSession(t)
  PROVE  Requests' /\ \A k \in Client : StaysEnded(k)
  BY ServerAssumption DEF IInv, TypeOK, Handlers, Accepting, Phases, Requests,
     StaysEnded, Serving, RunSession, main_vars, accept_vars, thread_vars,
     conn_vars, client_vars, Goto

LEMMA AcceptNextRequests ==
  ASSUME IInv, Requests, NEW t \in Thread, AcceptNext(t)
  PROVE  Requests' /\ \A k \in Client : StaysEnded(k)
  BY ServerAssumption DEF IInv, TypeOK, Handlers, Accepting, Phases, Requests,
     StaysEnded, Serving, AcceptNext, main_vars, accept_vars, thread_vars,
     conn_vars, client_vars, Goto, InAnyCase

LEMMA RefuseRequests ==
  ASSUME IInv, Requests, NEW t \in Thread, Refuse(t)
  PROVE  Requests' /\ \A k \in Client : StaysEnded(k)
  BY ServerAssumption DEF IInv, TypeOK, Handlers, Accepting, Phases, Requests,
     StaysEnded, Serving, Refuse, main_vars, accept_vars, thread_vars, conn_vars,
     client_vars, Goto

LEMMA HelloRequests ==
  ASSUME IInv, Requests, NEW t \in Thread, Hello(t)
  PROVE  Requests' /\ \A k \in Client : StaysEnded(k)
  BY ServerAssumption DEF IInv, TypeOK, Handlers, Accepting, Phases, Requests,
     StaysEnded, Serving, Hello, main_vars, accept_vars, thread_vars, conn_vars,
     client_vars, Goto

LEMMA DownloadRequests ==
  ASSUME IInv, Requests, NEW t \in Thread, NEW s \in FileSession, Download(t, s)
  PROVE  Requests' /\ \A k \in Client : StaysEnded(k)
  BY ServerAssumption DEF IInv, TypeOK, Handlers, Accepting, Phases, Requests,
     StaysEnded, Serving, Download, main_vars, accept_vars, thread_vars,
     conn_vars, client_vars, Goto

LEMMA ReadChunkRequests ==
  ASSUME IInv, Requests, NEW t \in Thread, NEW s \in FileSession, ReadChunk(t, s)
  PROVE  Requests' /\ \A k \in Client : StaysEnded(k)
  BY ServerAssumption DEF IInv, TypeOK, Handlers, Accepting, Phases, Requests,
     StaysEnded, Serving, ReadChunk, main_vars, accept_vars, thread_vars,
     conn_vars, client_vars, Goto

LEMMA SendReplyRequests ==
  ASSUME IInv, Requests, NEW t \in Thread, SendReply(t)
  PROVE  Requests' /\ \A k \in Client : StaysEnded(k)
  BY ServerAssumption DEF IInv, TypeOK, Handlers, Accepting, Phases, Requests,
     StaysEnded, Serving, SendReply, main_vars, accept_vars, thread_vars,
     conn_vars, client_vars, Goto, Replied

LEMMA SendChunkRequests ==
  ASSUME IInv, Requests, NEW t \in Thread, SendChunk(t)
  PROVE  Requests' /\ \A k \in Client : StaysEnded(k)
  BY ServerAssumption DEF IInv, TypeOK, Handlers, Accepting, Phases, Requests,
     StaysEnded, Serving, SendChunk, main_vars, accept_vars, thread_vars,
     conn_vars, client_vars, Goto, Replied

LEMMA SendErrorRequests ==
  ASSUME IInv, Requests, NEW t \in Thread, SendError(t)
  PROVE  Requests' /\ \A k \in Client : StaysEnded(k)
  BY ServerAssumption DEF IInv, TypeOK, Handlers, Accepting, Phases, Requests,
     StaysEnded, Serving, SendError, main_vars, accept_vars, thread_vars,
     conn_vars, client_vars, Goto, Replied

LEMMA NotConnectedRequests ==
  ASSUME IInv, Requests, NEW t \in Thread, NotConnected(t)
  PROVE  Requests' /\ \A k \in Client : StaysEnded(k)
  BY ServerAssumption DEF IInv, TypeOK, Handlers, Accepting, Phases, Requests,
     StaysEnded, Serving, NotConnected, main_vars, accept_vars, thread_vars,
     conn_vars, client_vars

LEMMA CloseRequests ==
  ASSUME IInv, Requests, NEW t \in Thread, Close(t)
  PROVE  Requests' /\ \A k \in Client : StaysEnded(k)
  BY ServerAssumption DEF IInv, TypeOK, Handlers, Accepting, Phases, Requests,
     StaysEnded, Serving, Close, main_vars, accept_vars, thread_vars, conn_vars,
     client_vars, Goto

LEMMA WaitForMessageRequests ==
  ASSUME IInv, Requests, NEW t \in Thread, WaitForMessage(t)
  PROVE  Requests' /\ \A k \in Client : StaysEnded(k)
  BY ServerAssumption DEF IInv, TypeOK, Handlers, Accepting, Phases, Requests,
     StaysEnded, Serving, WaitForMessage, main_vars, accept_vars, thread_vars,
     conn_vars, client_vars, Goto, NextRead, FreeOf

LEMMA ConnectRequests ==
  ASSUME IInv, Requests, NEW c \in Client, Connect(c)
  PROVE  Requests' /\ \A k \in Client : StaysEnded(k)
  BY ServerAssumption DEF IInv, TypeOK, Handlers, Accepting, Phases, Requests,
     StaysEnded, Serving, Connect, main_vars, accept_vars, thread_vars, conn_vars,
     client_vars

LEMMA SendRequestRequests ==
  ASSUME IInv, Requests, NEW c \in Client, SendRequest(c)
  PROVE  Requests' /\ \A k \in Client : StaysEnded(k)
  BY ServerAssumption DEF IInv, TypeOK, Handlers, Accepting, Phases, Requests,
     StaysEnded, Serving, SendRequest, main_vars, accept_vars, thread_vars,
     conn_vars, client_vars

LEMMA LeaveRequests ==
  ASSUME IInv, Requests, NEW c \in Client, Leave(c)
  PROVE  Requests' /\ \A k \in Client : StaysEnded(k)
  BY ServerAssumption DEF IInv, TypeOK, Handlers, Accepting, Phases, Requests,
     StaysEnded, Serving, Leave, main_vars, accept_vars, thread_vars, conn_vars,
     client_vars

(* How the handlers go on. *)
Forward ==
  {<<"accepted", "accept">>, <<"accept", "idle">>, <<"received", "read_data">>,
   <<"received", "send">>, <<"received", "error">>, <<"read_data", "listen">>,
   <<"send", "listen">>, <<"send", "error">>, <<"error", "shutdown">>,
   <<"shutdown", "listen">>, <<"listen", "idle">>, <<"idle", "ended">>}

LEMMA ThreadGoesOn ==
  ASSUME IInv, NEW t \in Thread, NEW stage, <<tpc[t], stage>> \in Forward,
         tpc' = [tpc EXCEPT ![t] = stage], mpc' = mpc,
         \A c \in Client : peer[c] = "gone" => peer'[c] = "gone"
  PROVE  Onward
<1>1. HandlerStage(t) < HandlerStage(t)'
  BY DEF Forward, HandlerStage, IInv, TypeOK
<1>2. \A u \in Thread : u # t => HandlerStage(u) <= HandlerStage(u)'
  BY DEF HandlerStage, IInv, TypeOK, Serving
<1>3. HandlerStage(t) <= HandlerStage(t)'
  BY DEF Forward, HandlerStage, IInv, TypeOK
<1>4. MainStage <= MainStage'
  BY DEF MainStage, IInv, TypeOK
<1> QED
  BY <1>1, <1>2, <1>3, <1>4 DEF Onward

LEMMA MainGoesOn ==
  ASSUME IInv, m_stopped, Main
  PROVE  Onward
<1>1. /\ tpc' = tpc \/ mpc = "start"
      /\ peer' = peer
      /\ \/ terminated'
         \/ <<mpc, mpc'>> \in {<<"make", "start">>, <<"accept", "sleep">>,
              <<"sleep", "join">>, <<"sleep", "returned">>, <<"join", "destroy">>,
              <<"destroy", "caches">>, <<"destroy", "returned">>, <<"caches", "returned">>}
         \/ mpc = "start"
  BY DEF Main, Make, Start, Accept, Stop, Join, Destroy, StopCaches,
     thread_vars, client_vars
<1>2. mpc \in {"join", "destroy", "caches", "returned"}
  BY DEF IInv, Phases
<1>3. mpc = "join" \/ mpc = "destroy" \/ mpc = "caches"
  BY <1>2 DEF Main, Make, Start, Accept, Stop, Join, Destroy, StopCaches
<1>4. <<mpc, mpc'>> \in {<<"join", "destroy">>, <<"destroy", "caches">>,
                        <<"destroy", "returned">>, <<"caches", "returned">>}
  BY <1>3 DEF Main, Make, Start, Accept, Stop, Join, Destroy, StopCaches
<1>5. MainStage < MainStage' /\ MainStage <= MainStage'
  BY <1>4 DEF MainStage
<1>6. \A u \in Thread : HandlerStage(u) <= HandlerStage(u)'
  BY <1>1, <1>3 DEF HandlerStage, IInv, TypeOK, Serving
<1> QED
  BY <1>1, <1>5, <1>6 DEF Onward

LEMMA HandlerGoesOn ==
  ASSUME IInv, NEW t \in Thread, Handler(t) \/ End(t)
  PROVE  Onward
<1>1. CASE NoEndpoint(t) \/ NotConnected(t)
  <2>1. terminated' /\ tpc' = tpc /\ mpc' = mpc /\ peer' = peer
    BY <1>1 DEF NoEndpoint, NotConnected, main_vars, thread_vars, client_vars
  <2>2. \A u \in Thread : HandlerStage(u) <= HandlerStage(u)'
    BY <2>1 DEF HandlerStage, IInv, TypeOK, Serving
  <2>3. MainStage <= MainStage'
    BY <2>1 DEF MainStage, IInv, TypeOK
  <2> QED
    BY <2>1, <2>2, <2>3 DEF Onward
<1>2. CASE ~(NoEndpoint(t) \/ NotConnected(t))
  <2>1. mpc' = mpc
    BY <1>2 DEF Handler, RunSession, AcceptNext, Refuse, Hello, Download, ReadChunk,
       SendReply, SendChunk, SendError, Close, WaitForMessage, End, main_vars
  <2>2. \A c \in Client : peer[c] = "gone" => peer'[c] = "gone"
    BY <1>2 DEF Handler, RunSession, AcceptNext, Refuse, Hello, Download, ReadChunk,
       SendReply, SendChunk, SendError, Close, WaitForMessage, End, client_vars,
       Replied, IInv, TypeOK
  <2>3. \E stage : tpc' = [tpc EXCEPT ![t] = stage] /\ <<tpc[t], stage>> \in Forward
    BY <1>2 DEF Handler, RunSession, AcceptNext, Refuse, Hello, Download, ReadChunk,
       SendReply, SendChunk, SendError, Close, WaitForMessage, End, Goto, Forward
  <2> QED
    BY <2>1, <2>2, <2>3, ThreadGoesOn
<1> QED
  BY <1>1, <1>2

LEMMA OthersGoOn ==
  ASSUME IInv, m_stopped,
         \/ AcceptCompletes
         \/ \E c \in Client : ReadCompletes(c) \/ ClientStep(c)
         \/ \E t \in Thread : TakeAccept(t)
         \/ \E t \in Thread, c \in Client : TakeRead(t, c) \/ TakeFailed(t, c)
  PROVE  Onward
<1>1. PICK c \in Client : Leave(c)
  BY DEF AcceptCompletes, ReadCompletes, ClientStep, Connect, SendRequest, TakeAccept,
     TakeRead, TakeFailed, Idle
<1>2. peer[c] # "gone" /\ peer'[c] = "gone" /\ tpc' = tpc /\ mpc' = mpc
  BY <1>1 DEF Leave, IInv, TypeOK, main_vars, thread_vars
<1>3. \A k \in Client : peer[k] = "gone" => peer'[k] = "gone"
  BY <1>1 DEF Leave, IInv, TypeOK
<1>4. \A u \in Thread : HandlerStage(u) <= HandlerStage(u)'
  BY <1>2 DEF HandlerStage, IInv, TypeOK, Serving
<1>5. MainStage <= MainStage'
  BY <1>2 DEF MainStage, IInv, TypeOK
<1> QED
  BY <1>2, <1>3, <1>4, <1>5 DEF Onward

LEMMA NextGoesOn == IInv /\ Next => Onward
<1> SUFFICES ASSUME IInv, Next, m_stopped PROVE Onward
  BY DEF Onward
<1>1. CASE Main
  BY <1>1, MainGoesOn
<1>2. ASSUME NEW t \in Thread, ThreadStep(t) PROVE Onward
  BY <1>2, HandlerGoesOn, OthersGoOn DEF ThreadStep
<1>3. CASE AcceptCompletes \/ \E c \in Client : ReadCompletes(c) \/ ClientStep(c)
  BY <1>3, OthersGoOn
<1> QED
  BY <1>1, <1>2, <1>3 DEF Next

LEMMA NextRequests ==
  IInv /\ Requests /\ Next => Requests' /\ \A c \in Client : StaysEnded(c)
<1> SUFFICES ASSUME IInv, Requests, Next
             PROVE  Requests' /\ \A c \in Client : StaysEnded(c)
  OBVIOUS
<1>1. CASE Main
  BY <1>1, MakeRequests, StartRequests, AcceptRequests, StopRequests, JoinRequests,
     DestroyRequests, StopCachesRequests DEF Main
<1>2. CASE AcceptCompletes
  BY <1>2, AcceptCompletesRequests
<1>3. ASSUME NEW t \in Thread, ThreadStep(t)
      PROVE  Requests' /\ \A c \in Client : StaysEnded(c)
  <2>1. CASE \E c \in Client : TakeRead(t, c) \/ TakeFailed(t, c)
    BY <2>1, TakeReadRequests, TakeFailedRequests
  <2>2. CASE Handler(t)
    BY <2>2, NoEndpointRequests, RunSessionRequests, AcceptNextRequests,
       RefuseRequests, HelloRequests, DownloadRequests, ReadChunkRequests,
       SendReplyRequests, SendChunkRequests, SendErrorRequests, NotConnectedRequests,
       CloseRequests, WaitForMessageRequests DEF Handler
  <2> QED
    BY <1>3, <2>1, <2>2, TakeAcceptRequests, EndRequests DEF ThreadStep
<1>4. ASSUME NEW c \in Client, ReadCompletes(c) \/ ClientStep(c)
      PROVE  Requests' /\ \A k \in Client : StaysEnded(k)
  BY <1>4, ReadCompletesRequests, ConnectRequests, SendRequestRequests, LeaveRequests
     DEF ClientStep
<1> QED
  BY <1>1, <1>2, <1>3, <1>4 DEF Next

LEMMA StutterRequests == Requests /\ UNCHANGED vars => Requests'
  BY DEF Requests, vars, main_vars, accept_vars, thread_vars, conn_vars, client_vars

LEMMA InitRequests == Init => Requests
  BY DEF Init, Requests

LEMMA RequestsInvariant == Spec => []Requests
  BY Invariant, InitRequests, NextRequests, StutterRequests, PTL DEF Spec

(* No request is forgotten between the reads and handlers of eight threads *)
(* (session.cpp:224-241), for any number of threads and clients.           *)
THEOREM RequestsAreHeldCorrect == Spec => []RequestsAreHeld
<1>1. IInv /\ Requests => RequestsAreHeld
  BY DEF IInv, TypeOK, Requests, RequestsAreHeld, Running
<1> QED
  BY <1>1, Invariant, RequestsInvariant, PTL

(* A session is made once for a connection, and ended once: its operations *)
(* and handlers do not outlive it (server.cpp:103, session.cpp:236-241).   *)
THEOREM SessionsEndOnceCorrect == Spec => SessionsEndOnce
<1>1. IInv /\ Requests /\ [Next]_vars =>
        [\A c \in Client :
           m_socket[c] # "none" /\ ~Alive(c)
             => ~Alive(c)' /\ m_socket'[c] = m_socket[c]]_vars
  <2> SUFFICES ASSUME IInv, Requests, Next, NEW c \in Client,
                      m_socket[c] # "none", ~Alive(c)
               PROVE  ~Alive(c)' /\ m_socket'[c] = m_socket[c]
    OBVIOUS
  <2>1. StaysEnded(c)
    BY NextRequests
  <2> QED
    BY <2>1 DEF StaysEnded, Alive, Running
<1> QED
  BY <1>1, Invariant, RequestsInvariant, PTL DEF Spec, SessionsEndOnce

(* After stop every step is one towards the end of server_main             *)
(* (server_context.cpp:22-34).                                             *)
THEOREM StopGoesOnCorrect == Spec => StopGoesOn
<1>1. IInv /\ [Next]_vars => [Onward]_vars
  BY NextGoesOn
<1>2. (Spec => [][Onward]_vars) => (Spec => StopGoesOn)
  BY DEF Onward, StopGoesOn
<1> QED
  BY <1>1, <1>2, Invariant, PTL DEF Spec

(* And until the program is terminated a thread that can go on has such a  *)
(* step to take.                                                           *)
LEMMA GoesOnAlone ==
  ASSUME IInv, mpc = "join", ~terminated, NEW t \in Thread, ThreadCanGoOn(t),
         GoAlone(t)
  PROVE  Next /\ (Handler(t) \/ End(t))
<1>1. Handler(t) \/ End(t)
  <2> USE DEF GoAlone, Goto, main_vars, accept_vars, thread_vars, conn_vars, client_vars
  <2>1. tpc[t] \in {"idle", "accepted", "accept"} \cup Serving
    BY DEF ThreadCanGoOn
  <2>2. CASE tpc[t] = "idle"
    <3>1. RunReturns
      BY <2>2 DEF ThreadCanGoOn, Serving
    <3> QED
      BY <2>2, <3>1 DEF End
  <2>3. CASE tpc[t] = "accepted"
    BY <2>3 DEF Handler, RunSession
  <2>4. CASE tpc[t] = "accept"
    BY <2>4 DEF Handler, AcceptNext
  <2>5. CASE tpc[t] = "received"
    BY <2>5 DEF Handler, Refuse
  <2>6. CASE tpc[t] = "read_data"
    BY <2>6 DEF Handler, SendChunk
  <2>7. CASE tpc[t] = "send"
    BY <2>7 DEF Handler, SendReply
  <2>8. CASE tpc[t] = "error"
    BY <2>8 DEF Handler, SendError
  <2>9. CASE tpc[t] = "shutdown"
    BY <2>9 DEF Handler, Close
  <2>10. CASE tpc[t] = "listen"
    BY <2>10 DEF Handler, WaitForMessage
  <2> QED
    BY <2>1, <2>2, <2>3, <2>4, <2>5, <2>6, <2>7, <2>8, <2>9, <2>10 DEF Serving
<1> QED
  BY <1>1 DEF Next, ThreadStep

(* While server_main joins the threads (server_context.cpp:22-34), each of *)
(* them has ended, is one to which run returns with whatever is left to    *)
(* do, or is in a handler that waits for no other of the threads.  (For a  *)
(* chunk and for its client it may wait: FileCache promises the one, the   *)
(* fairness of Server states the other.)                                   *)
THEOREM JoinIsNotStuckCorrect == Spec => []JoinIsNotStuck
<1>1. IInv /\ Requests => JoinIsNotStuck
  <2> SUFFICES ASSUME IInv, Requests, mpc = "join", NEW t \in Thread, tpc[t] # "ended"
               PROVE  ThreadCanGoOn(t)
    BY DEF JoinIsNotStuck
  <2>1. m_stopped /\ m_impl = "alive" /\ tpc[t] # "none"
    BY DEF IInv, Phases, Requests
  <2>2. CASE tpc[t] = "idle"
    BY <2>1, <2>2 DEF ThreadCanGoOn, RunReturns
  <2>3. CASE tpc[t] \in {"accepted", "accept"}
    BY <2>1, <2>3 DEF IInv, Accepting, ThreadCanGoOn
  <2>4. CASE tpc[t] \in Serving
    <3>1. PICK c \in Client : serves[t] = c
      BY <2>4 DEF IInv, TypeOK
    <3>2. Running(c) = {t} /\ op[c] = "none" /\ m_socket[c] # "none"
      BY <3>1 DEF IInv, Handlers, Running
    <3> QED
      BY <2>1, <2>4, <3>1, <3>2 DEF ThreadCanGoOn
  <2> QED
    BY <2>1, <2>2, <2>3, <2>4 DEF IInv, TypeOK
<1> QED
  BY <1>1, Invariant, RequestsInvariant, PTL
=============================================================================
