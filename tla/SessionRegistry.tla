-------------------------- MODULE SessionRegistry --------------------------
(***************************************************************************)
(* How the server opens download sessions:                                 *)
(* connection_session::on_download_file_request (session.cpp), run by the  *)
(* eight threads of the io_context for as many connections.                *)
(*                                                                         *)
(* The ids come from a function-local static that the threads share        *)
(* without a lock.  Its increment is a load and a store, and the key of     *)
(* m_file_sessions is either what is read of the counter once more or what *)
(* a compiler kept of it.  Inserting into the map while another thread     *)
(* uses it is undefined as well; of that only the outcomes are modelled in *)
(* which the map keeps what was put in.                                    *)
(***************************************************************************)
EXTENDS Integers, FiniteSets

CONSTANTS
  Connection,      \* the connections that ask for a session, one request each
  File,            \* the files of m_file_list
  UnknownFile,     \* a file id beyond the end of that list
  NoEntry,         \* m_file_sessions has no entry under the id
  NotStarted       \* it has one, whose file_cache has no file open

ASSUME SessionRegistryAssumption ==
  /\ IsFiniteSet(Connection)
  /\ UnknownFile \notin File
  /\ NoEntry \notin File /\ NotStarted \notin File /\ NoEntry # NotStarted

(* An id is handed out at most once for each request. *)
SessionId == 0 .. Cardinality(Connection)

VARIABLES
  pc,                \* pc[h]: where the handler of connection h is
  wanted,            \* wanted[h]: the file it is asked for
  session_id,        \* the static counter
  loaded,            \* loaded[h]: what h's increment has read of it
  current_sid,       \* current_sid[h]: the id h hands out
  key,               \* key[h]: the entry of m_file_sessions h works on
  m_file_sessions,   \* the file that the cache under an id has open
  m_is_running,      \* the ids whose cache runs
  terminated,        \* a worker was assigned over a running one: std::terminate
  overlapped         \* history: handlers that ran while another one did

locals == <<pc, wanted, loaded, current_sid, key>>
caches == <<m_file_sessions, m_is_running>>
vars == <<locals, session_id, caches, terminated, overlapped>>

Init ==
  /\ pc = [h \in Connection |-> "open"]
  /\ wanted = [h \in Connection |-> UnknownFile]
  /\ session_id = 0
  /\ loaded = [h \in Connection |-> 0]
  /\ current_sid = [h \in Connection |-> 0]
  /\ key = [h \in Connection |-> 0]
  /\ m_file_sessions = [s \in SessionId |-> NoEntry]
  /\ m_is_running = {}
  /\ terminated = FALSE
  /\ overlapped = {}

Busy == {h \in Connection : pc[h] \notin {"open", "answered", "closed"}}

At(h, label) == pc[h] = label /\ ~terminated
Goto(h, label) == pc' = [pc EXCEPT ![h] = label]

(* The error path of on_message_received: an error message is sent, the    *)
(* connection is closed.                                                   *)
Refuse(h) == Goto(h, "closed")

(* The request arrives; a file that is not in the list is refused. *)
Request(h, f) ==
  /\ At(h, "open")
  /\ wanted' = [wanted EXCEPT ![h] = f]
  /\ IF f \in File
       THEN /\ Goto(h, "load")
            /\ overlapped' = IF Busy = {} THEN overlapped
                             ELSE overlapped \cup Busy \cup {h}
       ELSE /\ Refuse(h)
            /\ UNCHANGED overlapped
  /\ UNCHANGED <<session_id, loaded, current_sid, key, caches, terminated>>

(* auto current_sid = ++session_id *)
LoadSessionId(h) ==
  /\ At(h, "load")
  /\ loaded' = [loaded EXCEPT ![h] = session_id]
  /\ Goto(h, "store")
  /\ UNCHANGED <<wanted, session_id, current_sid, key, caches, terminated, overlapped>>

IncrementedTwice(h) == loaded[h] + 2
Incremented(h) == loaded[h] + 1

PostIncrement(h) == loaded[h]
HandedOut(h) == loaded[h] + 1

StoreSessionId(h) ==
  /\ At(h, "store")
  /\ session_id' = Incremented(h)
  /\ current_sid' = [current_sid EXCEPT ![h] = HandedOut(h)]
  /\ Goto(h, "find")
  /\ UNCHANGED <<wanted, loaded, key, caches, terminated, overlapped>>

(* auto& f = m_file_sessions[session_id] *)
FindEntry(h) ==
  /\ At(h, "find")
  /\ \E s \in {session_id, current_sid[h]} :
       /\ key' = [key EXCEPT ![h] = s]
       /\ m_file_sessions' =
            [m_file_sessions EXCEPT ![s] = IF @ = NoEntry THEN NotStarted ELSE @]
  /\ Goto(h, "start")
  /\ UNCHANGED <<wanted, session_id, loaded, current_sid, m_is_running, terminated,
                 overlapped>>

(* f.api.start(oc): a cache that runs refuses to be started again.  Nothing *)
(* keeps two handlers from both passing this check.                         *)
StartChecks(h) ==
  /\ At(h, "start")
  /\ IF key[h] \in m_is_running THEN Refuse(h) ELSE Goto(h, "openfile")
  /\ UNCHANGED <<wanted, session_id, loaded, current_sid, key, caches, terminated,
                 overlapped>>

(* The file may turn out not to open; then the entry stays, not started.  A *)
(* stream that is open already keeps its file and passes for opened.        *)
StartOpens(h) ==
  /\ At(h, "openfile")
  /\ IF m_file_sessions[key[h]] = NotStarted
       THEN \/ /\ m_file_sessions' = [m_file_sessions EXCEPT ![key[h]] = wanted[h]]
               /\ Goto(h, "run")
            \/ /\ Refuse(h)
               /\ UNCHANGED m_file_sessions
       ELSE /\ Goto(h, "run")
            /\ UNCHANGED m_file_sessions
  /\ UNCHANGED <<wanted, session_id, loaded, current_sid, key, m_is_running, terminated,
                 overlapped>>

(* m_worker_thread = std::thread(...) over a thread that runs ends the     *)
(* program.                                                                *)
StartRuns(h) ==
  /\ At(h, "run")
  /\ m_is_running' = m_is_running \cup {key[h]}
  /\ terminated' = (key[h] \in m_is_running)
  /\ Goto(h, "answer")
  /\ UNCHANGED <<wanted, session_id, loaded, current_sid, key, m_file_sessions, overlapped>>

(* The response names current_sid. *)
Answer(h) ==
  /\ At(h, "answer")
  /\ Goto(h, "answered")
  /\ UNCHANGED <<wanted, session_id, loaded, current_sid, key, caches, terminated,
                 overlapped>>

Next ==
  \E h \in Connection :
    \/ \E f \in File \cup {UnknownFile} : Request(h, f)
    \/ LoadSessionId(h) \/ StoreSessionId(h) \/ FindEntry(h)
    \/ StartChecks(h) \/ StartOpens(h) \/ StartRuns(h)
    \/ Answer(h)

Spec == Init /\ [][Next]_vars

-----------------------------------------------------------------------------
TypeOK ==
  /\ pc \in [Connection -> {"open", "load", "store", "find", "start", "openfile", "run",
                            "answer", "answered", "closed"}]
  /\ wanted \in [Connection -> File \cup {UnknownFile}]
  /\ session_id \in SessionId
  /\ loaded \in [Connection -> SessionId]
  /\ current_sid \in [Connection -> SessionId]
  /\ key \in [Connection -> SessionId]
  /\ m_file_sessions \in [SessionId -> File \cup {NoEntry, NotStarted}]
  /\ m_is_running \subseteq SessionId
  /\ terminated \in BOOLEAN
  /\ overlapped \subseteq Connection

(* What on_chunk_request finds under the id that h was given. *)
Served(h) == m_file_sessions[current_sid[h]] = wanted[h] /\ current_sid[h] \in m_is_running

(* A client that was given a session id finds under it, from then on, a    *)
(* running cache of the file it asked for (on_chunk_request looks the id   *)
(* up), no other client was given the same id, and the server lives on.    *)
SessionServesItsFile ==
  /\ ~terminated
  /\ \A h \in Connection :
       pc[h] = "answered" =>
         /\ Served(h)
         /\ \A g \in Connection \ {h} :
              pc[g] = "answered" => current_sid[g] # current_sid[h]

(* As long as requests are handled one after the other, all of this holds. *)
SerialRequestsAreServed == overlapped = {} => SessionServesItsFile

(* Whatever requests before it and after it did to the counter and to the  *)
(* map, a client whose own request was handled alone keeps a running cache *)
(* of its file: on_download_file_request refuses it sooner than give it    *)
(* the session of another.                                                 *)
LoneRequestIsServed ==
  \A h \in Connection \ overlapped : pc[h] = "answered" => Served(h)

=============================================================================
