------------------------ MODULE SessionRegistryProofs ------------------------
(***************************************************************************)
(* What SessionRegistry promises for any number of connections: to a       *)
(* client that was handled alone, and to all of them when no two were      *)
(* handled at once.  The one that is alone finds its key in no other hand: *)
(* a cache that has a file open and does not run yet belongs to a handler  *)
(* on its way from opening the file to starting the thread.                *)
(***************************************************************************)
EXTENDS SessionRegistry, FiniteSetTheorems, TLAPS

(* The handlers that are past the counter. *)
Past == {h \in Connection : pc[h] \notin {"open", "load", "store"}}

(* Each of them has advanced it by no more than one. *)
Counts ==
  /\ session_id <= Cardinality(Past)
  /\ \A h \in Connection : pc[h] = "store" => loaded[h] <= Cardinality(Past)

(* The entries of the map, and the handlers at work on them. *)
Entries ==
  /\ \A h \in Connection :
       /\ pc[h] \notin {"open", "closed"} => wanted[h] \in File
       /\ pc[h] \in {"start", "openfile", "run", "answer"} =>
            m_file_sessions[key[h]] # NoEntry
       /\ pc[h] = "run" => m_file_sessions[key[h]] \in File
  /\ \A s \in m_is_running : m_file_sessions[s] \in File
  /\ \A s \in SessionId :
       m_file_sessions[s] \in File /\ s \notin m_is_running =>
         \E g \in Connection : pc[g] = "run" /\ key[g] = s

(* The one handler that is busy, and met no other. *)
IsAlone(h) ==
  /\ Busy = {h}
  /\ pc[h] = "store" => loaded[h] = session_id
  /\ pc[h] = "find" => current_sid[h] = session_id
  /\ pc[h] \in {"start", "openfile", "run", "answer"} => current_sid[h] = key[h]
  /\ pc[h] \in {"openfile", "run"} => key[h] \notin m_is_running
  /\ pc[h] = "run" => m_file_sessions[key[h]] = wanted[h]
  /\ pc[h] = "answer" => Served(h)

Lone == \A h \in Busy : h \notin overlapped => IsAlone(h)

Answered ==
  \A h \in Connection : pc[h] = "answered" /\ h \notin overlapped => Served(h)

(* The ids, as long as no two handlers were busy at once. *)
Named == {"find", "start", "openfile", "run", "answer", "answered"}

Serial ==
  overlapped = {} =>
    /\ ~terminated
    /\ \A h \in Connection : pc[h] \in Named => current_sid[h] <= session_id
    /\ \A h \in Connection : \A g \in Connection \ {h} :
         pc[h] \in Named /\ pc[g] \in Named => current_sid[g] # current_sid[h]

IInv == TypeOK /\ Counts /\ Entries /\ Lone /\ Answered /\ Serial

USE DEF locals, caches

-----------------------------------------------------------------------------
LEMMA SessionIds ==
  /\ SessionId \subseteq Nat
  /\ 0 \in SessionId
  /\ \A n \in Nat : n <= Cardinality(Connection) => n \in SessionId
<1>1. Cardinality(Connection) \in Nat
  BY FS_CardinalityType, SessionRegistryAssumption
<1> QED
  BY <1>1 DEF SessionId

LEMMA PastIsFinite ==
  IsFiniteSet(Past) /\ Cardinality(Past) \in Nat
  BY FS_Subset, FS_CardinalityType, SessionRegistryAssumption DEF Past

(* A step that brings no handler back behind the counter, and leaves the   *)
(* counter as it is.                                                       *)
LEMMA CountsGrow ==
  ASSUME Past \subseteq Past', session_id' = session_id, session_id <= Cardinality(Past),
         TypeOK',
         \A g \in Connection : pc'[g] = "store" => loaded'[g] <= Cardinality(Past)
  PROVE  Counts'
<1>1. IsFiniteSet(Past') /\ Cardinality(Past') \in Nat
  BY FS_Subset, FS_CardinalityType, SessionRegistryAssumption DEF Past
<1>2. Cardinality(Past) <= Cardinality(Past')
  BY <1>1, FS_Subset
<1>3. session_id' \in Nat /\ \A g \in Connection : loaded'[g] \in Nat
  BY SessionIds DEF TypeOK
<1>4. session_id' <= Cardinality(Past')
  BY <1>1, <1>2, <1>3, PastIsFinite
<1>5. ASSUME NEW g \in Connection, pc'[g] = "store" PROVE loaded'[g] <= Cardinality(Past')
  <2>1. loaded'[g] <= Cardinality(Past)
    BY <1>5
  <2> QED
    BY <1>1, <1>2, <1>3, <2>1, PastIsFinite
<1> QED
  BY <1>4, <1>5 DEF Counts

LEMMA InitInv == Init => IInv
<1> SUFFICES ASSUME Init PROVE IInv
  OBVIOUS
<1>1. TypeOK
  BY SessionIds DEF Init, TypeOK
<1>2. Counts
  BY PastIsFinite DEF Init, Counts
<1>3. Entries
  BY SessionRegistryAssumption DEF Init, Entries
<1>4. Lone
  BY DEF Init, Lone, Busy
<1>5. Answered /\ Serial
  BY DEF Init, Answered, Serial, Named
<1> QED
  BY <1>1, <1>2, <1>3, <1>4, <1>5 DEF IInv

-----------------------------------------------------------------------------
(* One lemma per action. *)

LEMMA RequestKeeps ==
  ASSUME NEW h \in Connection, NEW f \in File \cup {UnknownFile}, IInv, Request(h, f)
  PROVE  IInv'
<1> USE DEF IInv
<1>1. TypeOK'
  BY SessionIds DEF TypeOK, Busy, Request, At, Goto, Refuse
<1>2. Counts'
  <2>1. Past \subseteq Past'
    BY DEF TypeOK, Past, Request, At, Goto, Refuse
  <2>2. session_id' = session_id
    BY DEF Request, At, Goto, Refuse
  <2>3. ASSUME NEW g \in Connection, pc'[g] = "store" PROVE loaded'[g] <= Cardinality(Past)
    BY <2>3 DEF TypeOK, Counts, Request, At, Goto, Refuse
  <2> QED
    BY <2>1, <2>2, <2>3, <1>1, CountsGrow DEF Counts
<1>3. Entries'
  BY SessionRegistryAssumption DEF TypeOK, Entries, Request, At, Goto, Refuse
<1>4. Lone'
  <2> SUFFICES ASSUME NEW g \in Busy', g \notin overlapped'
               PROVE  IsAlone(g)'
    BY DEF Lone
  <2>1. CASE f \in File
    <3>1. Busy' = Busy \cup {h} /\ h \notin Busy
      BY <2>1 DEF TypeOK, Busy, Request, At, Goto, Refuse
    <3>2. Busy = {} /\ g = h
      BY <2>1, <3>1 DEF Request
    <3>3. pc'[h] = "load"
      BY <2>1 DEF TypeOK, Request, At, Goto, Refuse
    <3> QED
      BY <3>1, <3>2, <3>3 DEF IsAlone
  <2>2. CASE f \notin File
    <3>1. Busy' = Busy /\ h \notin Busy /\ overlapped' = overlapped
      BY <2>2 DEF TypeOK, Busy, Request, At, Goto, Refuse
    <3>2. IsAlone(g) /\ g # h /\ g \in Connection
      BY <3>1 DEF Lone, Busy
    <3> QED
      BY <2>2, <3>1, <3>2 DEF TypeOK, IsAlone, Served, Request, At, Goto, Refuse
  <2> QED
    BY <2>1, <2>2
<1>5. Answered'
  BY SessionRegistryAssumption DEF TypeOK, Answered, Entries, Served, Request, At,
     Goto, Refuse
<1>6. Serial'
  BY DEF TypeOK, Serial, Named, Request, At, Goto, Refuse
<1> QED
  BY <1>1, <1>2, <1>3, <1>4, <1>5, <1>6

LEMMA LoadSessionIdKeeps ==
  ASSUME NEW h \in Connection, IInv, LoadSessionId(h)
  PROVE  IInv'
<1> USE DEF IInv
<1>1. TypeOK'
  BY SessionIds DEF TypeOK, LoadSessionId, At, Goto
<1>2. Counts'
  <2>1. Past \subseteq Past'
    BY DEF TypeOK, Past, LoadSessionId, At, Goto
  <2>2. session_id' = session_id
    BY DEF LoadSessionId, At, Goto
  <2>3. ASSUME NEW g \in Connection, pc'[g] = "store" PROVE loaded'[g] <= Cardinality(Past)
    BY <2>3 DEF TypeOK, Counts, LoadSessionId, At, Goto
  <2> QED
    BY <2>1, <2>2, <2>3, <1>1, CountsGrow DEF Counts
<1>3. Entries'
  BY SessionRegistryAssumption DEF TypeOK, Entries, LoadSessionId, At, Goto
<1>4. Lone'
  <2> SUFFICES ASSUME NEW g \in Busy', g \notin overlapped'
               PROVE  IsAlone(g)'
    BY DEF Lone
  <2>1. h \in Busy /\ g \in Busy /\ g \notin overlapped
    BY DEF TypeOK, Busy, LoadSessionId, At, Goto
  <2>2. g = h /\ IsAlone(h)
    BY <2>1 DEF Lone, IsAlone
  <2>3. Busy' = {h}
    BY <2>2 DEF TypeOK, IsAlone, Busy, LoadSessionId, At, Goto
  <2> QED
    BY <2>2, <2>3, SessionRegistryAssumption DEF TypeOK, Entries, IsAlone, Served,
       LoadSessionId, At, Goto
<1>5. Answered'
  BY SessionRegistryAssumption DEF TypeOK, Answered, Entries, Served, LoadSessionId,
     At, Goto
<1>6. Serial'
  BY DEF TypeOK, Serial, Named, LoadSessionId, At, Goto
<1> QED
  BY <1>1, <1>2, <1>3, <1>4, <1>5, <1>6

LEMMA StoreSessionIdKeeps ==
  ASSUME NEW h \in Connection, IInv, StoreSessionId(h)
  PROVE  IInv'
<1> USE DEF IInv
<1>1. TypeOK'
  <2>1. loaded[h] + 1 \in SessionId
    <3>1. Past' = Past \cup {h} /\ h \notin Past
      BY DEF TypeOK, Past, StoreSessionId, At, Goto
    <3>2. Cardinality(Past') = Cardinality(Past) + 1
      BY <3>1, FS_AddElement, PastIsFinite
    <3>3. Cardinality(Past') <= Cardinality(Connection)
      BY FS_Subset, SessionRegistryAssumption DEF Past
    <3>4. loaded[h] \in Nat
      BY SessionIds DEF TypeOK
    <3>5. loaded[h] <= Cardinality(Past)
      BY DEF Counts, StoreSessionId, At
    <3>6. Cardinality(Connection) \in Nat
      BY FS_CardinalityType, SessionRegistryAssumption
    <3>7. loaded[h] + 1 \in Nat /\ loaded[h] + 1 <= Cardinality(Connection)
      BY <3>2, <3>3, <3>4, <3>5, <3>6, PastIsFinite
    <3> QED
      BY <3>7, SessionIds
  <2> QED
    BY <2>1 DEF TypeOK, Incremented, HandedOut, StoreSessionId, At, Goto
<1>2. Counts'
  <2>1. Past' = Past \cup {h} /\ h \notin Past
    BY DEF TypeOK, Past, StoreSessionId, At, Goto
  <2>2. Cardinality(Past') = Cardinality(Past) + 1
    BY <2>1, FS_AddElement, PastIsFinite
  <2>3. loaded[h] \in Nat /\ \A g \in Connection : loaded[g] \in Nat
    BY SessionIds DEF TypeOK
  <2>4. session_id' = loaded[h] + 1 /\ loaded[h] <= Cardinality(Past)
    BY DEF Counts, Incremented, StoreSessionId, At, Goto
  <2>5. ASSUME NEW g \in Connection, pc'[g] = "store" PROVE loaded'[g] <= Cardinality(Past')
    <3>1. loaded'[g] = loaded[g] /\ loaded[g] <= Cardinality(Past)
      BY <2>5 DEF TypeOK, Counts, StoreSessionId, At, Goto
    <3> QED
      BY <2>2, <2>3, <3>1, PastIsFinite
  <2> QED
    BY <2>2, <2>3, <2>4, <2>5, PastIsFinite DEF Counts
<1>3. Entries'
  BY SessionRegistryAssumption DEF TypeOK, Entries, StoreSessionId, At, Goto
<1>4. Lone'
  <2> SUFFICES ASSUME NEW g \in Busy', g \notin overlapped'
               PROVE  IsAlone(g)'
    BY DEF Lone
  <2>1. h \in Busy /\ g \in Busy /\ g \notin overlapped
    BY DEF TypeOK, Busy, StoreSessionId, At, Goto, Incremented, HandedOut
  <2>2. g = h /\ IsAlone(h)
    BY <2>1 DEF Lone, IsAlone
  <2>3. Busy' = {h}
    BY <2>2 DEF TypeOK, IsAlone, Busy, StoreSessionId, At, Goto, Incremented, HandedOut
  <2> QED
    BY <2>2, <2>3, SessionRegistryAssumption DEF TypeOK, Entries, IsAlone, Served,
       StoreSessionId, At, Goto, Incremented, HandedOut
<1>5. Answered'
  BY SessionRegistryAssumption DEF TypeOK, Answered, Entries, Served, StoreSessionId,
     At, Goto
<1>6. Serial'
  <2> SUFFICES ASSUME overlapped = {}
               PROVE  /\ ~terminated
                      /\ \A g \in Connection :
                           pc'[g] \in Named => current_sid'[g] <= session_id'
                      /\ \A g \in Connection : \A e \in Connection \ {g} :
                           pc'[g] \in Named /\ pc'[e] \in Named =>
                             current_sid'[e] # current_sid'[g]
    BY DEF Serial, StoreSessionId, At, Goto
  <2>1. h \in Busy
    BY DEF Busy, StoreSessionId, At, Goto
  <2>2. loaded[h] = session_id
    BY <2>1 DEF Lone, IsAlone, StoreSessionId, At, Goto
  <2>3. session_id \in Nat /\ \A g \in Connection : current_sid[g] \in Nat
    BY SessionIds DEF TypeOK
  <2>4. session_id' = session_id + 1
    BY <2>2 DEF Incremented, StoreSessionId, At, Goto
  <2>5. ASSUME NEW g \in Connection
        PROVE  /\ g = h => current_sid'[g] = session_id + 1
               /\ g # h => current_sid'[g] = current_sid[g] /\ pc'[g] = pc[g]
    BY <2>2 DEF TypeOK, HandedOut, StoreSessionId, At, Goto
  <2>6. ASSUME NEW g \in Connection \ {h}, pc'[g] \in Named
        PROVE  /\ current_sid'[g] <= session_id'
               /\ current_sid'[g] # current_sid'[h]
    <3>1. current_sid'[g] <= session_id
      BY <2>5, <2>6 DEF Serial
    <3> QED
      BY <2>3, <2>4, <2>5, <3>1
  <2>7. ASSUME NEW g \in Connection \ {h}, NEW e \in Connection \ {h}, e # g,
               pc'[g] \in Named, pc'[e] \in Named
        PROVE  current_sid'[e] # current_sid'[g]
    BY <2>5, <2>7 DEF Serial
  <2>8. ~terminated
    BY DEF StoreSessionId, At, Goto
  <2>9. current_sid'[h] <= session_id'
    BY <2>3, <2>4, <2>5
  <2> QED
    BY <2>6, <2>7, <2>8, <2>9
<1> QED
  BY <1>1, <1>2, <1>3, <1>4, <1>5, <1>6

LEMMA FindEntryKeeps ==
  ASSUME NEW h \in Connection, IInv, FindEntry(h)
  PROVE  IInv'
<1> USE DEF IInv
<1>1. TypeOK'
  BY SessionIds DEF TypeOK, FindEntry, At, Goto
<1>2. Counts'
  <2>1. Past \subseteq Past'
    BY DEF TypeOK, Past, FindEntry, At, Goto
  <2>2. session_id' = session_id
    BY DEF FindEntry, At, Goto
  <2>3. ASSUME NEW g \in Connection, pc'[g] = "store" PROVE loaded'[g] <= Cardinality(Past)
    BY <2>3 DEF TypeOK, Counts, FindEntry, At, Goto
  <2> QED
    BY <2>1, <2>2, <2>3, <1>1, CountsGrow DEF Counts
<1>3. Entries'
  BY SessionRegistryAssumption DEF TypeOK, Entries, FindEntry, At, Goto
<1>4. Lone'
  <2> SUFFICES ASSUME NEW g \in Busy', g \notin overlapped'
               PROVE  IsAlone(g)'
    BY DEF Lone
  <2>1. h \in Busy /\ g \in Busy /\ g \notin overlapped
    BY DEF TypeOK, Busy, FindEntry, At, Goto
  <2>2. g = h /\ IsAlone(h)
    BY <2>1 DEF Lone, IsAlone
  <2>3. Busy' = {h}
    BY <2>2 DEF TypeOK, IsAlone, Busy, FindEntry, At, Goto
  <2> QED
    BY <2>2, <2>3, SessionRegistryAssumption DEF TypeOK, Entries, IsAlone, Served,
       FindEntry, At, Goto
<1>5. Answered'
  BY SessionRegistryAssumption DEF TypeOK, Answered, Entries, Served, FindEntry, At,
     Goto
<1>6. Serial'
  BY DEF TypeOK, Serial, Named, FindEntry, At, Goto
<1> QED
  BY <1>1, <1>2, <1>3, <1>4, <1>5, <1>6

LEMMA StartChecksKeeps ==
  ASSUME NEW h \in Connection, IInv, StartChecks(h)
  PROVE  IInv'
<1> USE DEF IInv
<1>1. TypeOK'
  BY SessionIds DEF TypeOK, StartChecks, At, Goto, Refuse
<1>2. Counts'
  <2>1. Past \subseteq Past'
    BY DEF TypeOK, Past, StartChecks, At, Goto, Refuse
  <2>2. session_id' = session_id
    BY DEF StartChecks, At, Goto, Refuse
  <2>3. ASSUME NEW g \in Connection, pc'[g] = "store" PROVE loaded'[g] <= Cardinality(Past)
    BY <2>3 DEF TypeOK, Counts, StartChecks, At, Goto, Refuse
  <2> QED
    BY <2>1, <2>2, <2>3, <1>1, CountsGrow DEF Counts
<1>3. Entries'
  BY SessionRegistryAssumption DEF TypeOK, Entries, StartChecks, At, Goto, Refuse
<1>4. Lone'
  <2> SUFFICES ASSUME NEW g \in Busy', g \notin overlapped'
               PROVE  IsAlone(g)'
    BY DEF Lone
  <2>1. h \in Busy /\ g \in Busy /\ g \notin overlapped
    BY DEF TypeOK, Busy, StartChecks, At, Goto, Refuse
  <2>2. g = h /\ IsAlone(h)
    BY <2>1 DEF Lone, IsAlone
  <2>3. Busy' = {h}
    BY <2>2 DEF TypeOK, IsAlone, Busy, StartChecks, At, Goto, Refuse
  <2> QED
    BY <2>2, <2>3, SessionRegistryAssumption DEF TypeOK, Entries, IsAlone, Served,
       StartChecks, At, Goto, Refuse
<1>5. Answered'
  BY SessionRegistryAssumption DEF TypeOK, Answered, Entries, Served, StartChecks, At,
     Goto, Refuse
<1>6. Serial'
  BY DEF TypeOK, Serial, Named, StartChecks, At, Goto, Refuse
<1> QED
  BY <1>1, <1>2, <1>3, <1>4, <1>5, <1>6

LEMMA StartOpensKeeps ==
  ASSUME NEW h \in Connection, IInv, StartOpens(h)
  PROVE  IInv'
<1> USE DEF IInv
<1>1. TypeOK'
  <2>1. wanted[h] \in File
    BY DEF Entries, StartOpens, At
  <2>2. m_file_sessions' \in [SessionId -> File \cup {NoEntry, NotStarted}]
    BY <2>1 DEF TypeOK, StartOpens, At, Goto, Refuse
  <2> QED
    BY <2>2 DEF TypeOK, StartOpens, At, Goto, Refuse
<1>2. Counts'
  <2>1. Past \subseteq Past'
    BY DEF TypeOK, Past, StartOpens, At, Goto, Refuse
  <2>2. session_id' = session_id
    BY DEF StartOpens, At, Goto, Refuse
  <2>3. ASSUME NEW g \in Connection, pc'[g] = "store" PROVE loaded'[g] <= Cardinality(Past)
    BY <2>3 DEF TypeOK, Counts, StartOpens, At, Goto, Refuse
  <2> QED
    BY <2>1, <2>2, <2>3, <1>1, CountsGrow DEF Counts
<1>3. Entries'
  BY SessionRegistryAssumption DEF TypeOK, Entries, StartOpens, At, Goto, Refuse
<1>4. Lone'
  <2> SUFFICES ASSUME NEW g \in Busy', g \notin overlapped'
               PROVE  IsAlone(g)'
    BY DEF Lone
  <2>1. h \in Busy /\ g \in Busy /\ g \notin overlapped
    BY DEF TypeOK, Busy, StartOpens, At, Goto, Refuse
  <2>2. g = h /\ IsAlone(h)
    BY <2>1 DEF Lone, IsAlone
  <2>3. Busy' = {h}
    BY <2>2 DEF TypeOK, IsAlone, Busy, StartOpens, At, Goto, Refuse
  <2>4. m_file_sessions[key[h]] = NotStarted
    <3>1. ASSUME m_file_sessions[key[h]] \in File PROVE FALSE
      <4>1. key[h] \notin m_is_running /\ key[h] \in SessionId
        BY <2>2 DEF TypeOK, IsAlone, StartOpens, At
      <4>2. PICK e \in Connection : pc[e] = "run" /\ key[e] = key[h]
        BY <3>1, <4>1 DEF Entries
      <4>3. e \in Busy
        BY <4>2 DEF Busy
      <4> QED
        BY <2>2, <4>2, <4>3 DEF IsAlone, StartOpens, At
    <3> QED
      BY <3>1 DEF TypeOK, Entries, StartOpens, At
  <2> QED
    BY <2>2, <2>3, <2>4, SessionRegistryAssumption DEF TypeOK, Entries, IsAlone,
       Served, StartOpens, At, Goto, Refuse
<1>5. Answered'
  BY SessionRegistryAssumption DEF TypeOK, Answered, Entries, Served, StartOpens, At,
     Goto, Refuse
<1>6. Serial'
  BY DEF TypeOK, Serial, Named, StartOpens, At, Goto, Refuse
<1> QED
  BY <1>1, <1>2, <1>3, <1>4, <1>5, <1>6

LEMMA StartRunsKeeps ==
  ASSUME NEW h \in Connection, IInv, StartRuns(h)
  PROVE  IInv'
<1> USE DEF IInv
<1>1. TypeOK'
  <2>1. terminated' \in BOOLEAN
    BY DEF StartRuns
  <2>2. m_is_running' \subseteq SessionId
    BY DEF TypeOK, StartRuns
  <2> QED
    BY <2>1, <2>2 DEF TypeOK, StartRuns, At, Goto
<1>2. Counts'
  <2>1. Past \subseteq Past'
    BY DEF TypeOK, Past, StartRuns, At, Goto
  <2>2. session_id' = session_id
    BY DEF StartRuns, At, Goto
  <2>3. ASSUME NEW g \in Connection, pc'[g] = "store" PROVE loaded'[g] <= Cardinality(Past)
    BY <2>3 DEF TypeOK, Counts, StartRuns, At, Goto
  <2> QED
    BY <2>1, <2>2, <2>3, <1>1, CountsGrow DEF Counts
<1>3. Entries'
  BY SessionRegistryAssumption DEF TypeOK, Entries, StartRuns, At, Goto
<1>4. Lone'
  <2> SUFFICES ASSUME NEW g \in Busy', g \notin overlapped'
               PROVE  IsAlone(g)'
    BY DEF Lone
  <2>1. h \in Busy /\ g \in Busy /\ g \notin overlapped
    BY DEF TypeOK, Busy, StartRuns, At, Goto
  <2>2. g = h /\ IsAlone(h)
    BY <2>1 DEF Lone, IsAlone
  <2>3. Busy' = {h}
    BY <2>2 DEF TypeOK, IsAlone, Busy, StartRuns, At, Goto
  <2> QED
    BY <2>2, <2>3, SessionRegistryAssumption DEF TypeOK, Entries, IsAlone, Served,
       StartRuns, At, Goto
<1>5. Answered'
  BY SessionRegistryAssumption DEF TypeOK, Answered, Entries, Served, StartRuns, At,
     Goto
<1>6. Serial'
  <2>1. h \in Busy
    BY DEF Busy, StartRuns, At, Goto
  <2>2. overlapped = {} => key[h] \notin m_is_running
    BY <2>1 DEF Lone, IsAlone, StartRuns, At, Goto
  <2>3. overlapped = {} => ~terminated'
    BY <2>2 DEF StartRuns
  <2> QED
    BY <2>3 DEF TypeOK, Serial, Named, StartRuns, At, Goto
<1> QED
  BY <1>1, <1>2, <1>3, <1>4, <1>5, <1>6

LEMMA AnswerKeeps ==
  ASSUME NEW h \in Connection, IInv, Answer(h)
  PROVE  IInv'
<1> USE DEF IInv
<1>1. TypeOK'
  BY SessionIds DEF TypeOK, Answer, At, Goto
<1>2. Counts'
  <2>1. Past \subseteq Past'
    BY DEF TypeOK, Past, Answer, At, Goto
  <2>2. session_id' = session_id
    BY DEF Answer, At, Goto
  <2>3. ASSUME NEW g \in Connection, pc'[g] = "store" PROVE loaded'[g] <= Cardinality(Past)
    BY <2>3 DEF TypeOK, Counts, Answer, At, Goto
  <2> QED
    BY <2>1, <2>2, <2>3, <1>1, CountsGrow DEF Counts
<1>3. Entries'
  BY SessionRegistryAssumption DEF TypeOK, Entries, Answer, At, Goto
<1>4. Lone'
  <2> SUFFICES ASSUME NEW g \in Busy', g \notin overlapped'
               PROVE  IsAlone(g)'
    BY DEF Lone
  <2>1. h \in Busy /\ g \in Busy /\ g \notin overlapped
    BY DEF TypeOK, Busy, Answer, At, Goto
  <2>2. g = h /\ IsAlone(h)
    BY <2>1 DEF Lone, IsAlone
  <2>3. Busy' = {h}
    BY <2>2 DEF TypeOK, IsAlone, Busy, Answer, At, Goto
  <2> QED
    BY <2>2, <2>3, SessionRegistryAssumption DEF TypeOK, Entries, IsAlone, Served,
       Answer, At, Goto
<1>5. Answered'
  <2>1. h \in Busy
    BY DEF Busy, Answer, At, Goto
  <2>2. h \notin overlapped => Served(h)
    BY <2>1 DEF Lone, IsAlone, Answer, At, Goto
  <2> QED
    BY <2>2 DEF TypeOK, Answered, Served, Answer, At, Goto
<1>6. Serial'
  BY DEF TypeOK, Serial, Named, Answer, At, Goto
<1> QED
  BY <1>1, <1>2, <1>3, <1>4, <1>5, <1>6

-----------------------------------------------------------------------------
LEMMA NextKeeps == IInv /\ [Next]_vars => IInv'
<1> SUFFICES ASSUME IInv, [Next]_vars PROVE IInv'
  OBVIOUS
<1>1. CASE Next
  BY <1>1, RequestKeeps, LoadSessionIdKeeps, StoreSessionIdKeeps, FindEntryKeeps,
     StartChecksKeeps, StartOpensKeeps, StartRunsKeeps, AnswerKeeps DEF Next
<1>2. CASE UNCHANGED vars
  BY <1>2 DEF IInv, TypeOK, Counts, Past, Entries, Lone, IsAlone, Busy, Answered,
     Served,
              Serial, vars
<1> QED
  BY <1>1, <1>2

LEMMA Invariant == Spec => []IInv
  BY InitInv, NextKeeps, PTL DEF Spec

-----------------------------------------------------------------------------
(* Every variable of the registry keeps its type; the counter never passes *)
(* the number of requests.                                                 *)
THEOREM TypeCorrect == Spec => []TypeOK
<1>1. IInv => TypeOK
  BY DEF IInv
<1> QED
  BY <1>1, Invariant, PTL

(* As long as no two requests for a session overlapped, on any number of   *)
(* connections, every client that was answered has a running cache of its  *)
(* file under an id of its own.                                            *)
THEOREM SerialRequestsCorrect == Spec => []SerialRequestsAreServed
<1>1. IInv => SerialRequestsAreServed
  BY DEF IInv, Serial, Answered, Named, SerialRequestsAreServed, SessionServesItsFile
<1> QED
  BY <1>1, Invariant, PTL

(* Whatever the other requests did among themselves, a client whose        *)
(* request met no other finds a running cache of its file under its id.    *)
THEOREM LoneRequestCorrect == Spec => []LoneRequestIsServed
<1>1. IInv => LoneRequestIsServed
  BY DEF IInv, Answered, LoneRequestIsServed
<1> QED
  BY <1>1, Invariant, PTL
=============================================================================
