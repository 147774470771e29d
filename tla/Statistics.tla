----------------------------- MODULE Statistics -----------------------------
(***************************************************************************)
(* The statistics of a program (stats.h, stats.cpp): counters that every   *)
(* thread adds to, and one worker thread that takes a snapshot of them     *)
(* from time to time and keeps the differences of the last ones, and their *)
(* sum, from which it prints speeds.                                       *)
(*                                                                         *)
(* A counter is written with all that was ever added to it; what a load of *)
(* the uint64_t returns is its value modulo Word.  The clock is the        *)
(* system's (high_resolution_clock): it may be set, also back, so that a   *)
(* snapshot finds any time on it.                                          *)
(***************************************************************************)
EXTENDS Integers

CONSTANTS
  Word,            \* the number of values of a uint64_t
  Window,          \* the number of windows_records (10)
  Delta,           \* how many bytes are added at once
  MaxBytes,        \* bound: the largest value of a counter
  MaxTime          \* bound: the latest time on the clock

ASSUME StatisticsAssumption ==
  /\ Word \in Nat \ {0} /\ Window \in Nat \ {0}
  /\ Delta \subseteq Nat
  /\ MaxBytes \in Nat /\ MaxTime \in Nat

Counter == {"network_bytes_recv", "network_bytes_send"}
Field   == Counter \cup {"duration"}
uint64  == 0 .. Word - 1
record  == [Field -> uint64]

VARIABLES
  network_bytes,     \* the two counters
  wpc,               \* where the worker is
  loaded,            \* what current_state has read of the first counter
  last_state, agg_state, windows_records,
  taken,             \* history: the last Window + 1 snapshots, in full
  m_running,
  owner              \* of the object: "using", "joining" or "gone"

stats_vars == <<last_state, agg_state, windows_records, taken>>
object_vars == <<m_running, owner>>
vars == <<network_bytes, wpc, loaded, stats_vars, object_vars>>

Zero == [f \in Field |-> 0]

Init ==
  /\ network_bytes = [f \in Counter |-> 0]
  /\ wpc = "first"
  /\ loaded = 0
  /\ last_state = Zero
  /\ agg_state = Zero
  /\ windows_records = [i \in 1 .. Window |-> Zero]
  /\ taken = [i \in 0 .. Window |-> Zero]
  /\ m_running = TRUE
  /\ owner = "using"

-----------------------------------------------------------------------------
(* Other threads: update_send and update_received, one fetch_add each, for *)
(* as long as there is an object.                                          *)
AddBytes(f, delta) ==
  /\ owner = "using"
  /\ network_bytes[f] + delta <= MaxBytes
  /\ network_bytes' = [network_bytes EXCEPT ![f] = @ + delta]
  /\ UNCHANGED <<wpc, loaded, stats_vars, object_vars>>

-----------------------------------------------------------------------------
(* The worker.                                                             *)

(* current_state loads one counter ... *)
LoadReceived ==
  /\ wpc \in {"first", "update"}
  /\ loaded' = network_bytes["network_bytes_recv"]
  /\ wpc' = IF wpc = "first" THEN "first_send" ELSE "send"
  /\ UNCHANGED <<network_bytes, stats_vars, object_vars>>

(* ... and then the other, and the time. *)
Snapshot(now) ==
  [f \in Field |-> IF f = "network_bytes_recv" THEN loaded
                   ELSE IF f = "duration" THEN now ELSE network_bytes[f]]

current_state(now) == [f \in Field |-> Snapshot(now)[f] % Word]

FirstState(now) ==
  /\ wpc = "first_send"
  /\ last_state' = current_state(now)
  /\ taken' = [i \in 0 .. Window |-> Snapshot(now)]
  /\ wpc' = "loop"
  /\ UNCHANGED <<network_bytes, loaded, agg_state, windows_records, object_vars>>

(* Mutant: it is asked to stop and goes on. *)
Forever == "update"

LoopOrEnd == IF m_running THEN "update" ELSE "ended"

(* while (m_running), and the sleep. *)
Loop ==
  /\ wpc = "loop"
  /\ wpc' = LoopOrEnd
  /\ UNCHANGED <<network_bytes, loaded, stats_vars, object_vars>>

Plus(l, r)  == [f \in Field |-> (l[f] + r[f]) % Word]

(* Mutants: a subtraction that does not wrap, and one the other way round. *)
NotWrapped(l, r) == [f \in Field |-> l[f] - r[f]]
Reversed(l, r)   == [f \in Field |-> (r[f] - l[f]) % Word]

Minus(l, r) == [f \in Field |-> (l[f] - r[f]) % Word]

(* Mutant: the record that was just put in. *)
BackOf(records) == records[Window]

to_drop(records) == records[1]

(* update: push_back, the sum, pop_front. *)
Update(now) ==
  LET delta == Minus(current_state(now), last_state)
  IN  /\ wpc = "send"
      /\ agg_state' = Minus(Plus(agg_state, delta), to_drop(windows_records))
      /\ windows_records' =
           [i \in 1 .. Window |-> IF i = Window THEN delta ELSE windows_records[i + 1]]
      /\ last_state' = current_state(now)
      /\ taken' = [i \in 0 .. Window |-> IF i = Window THEN Snapshot(now)
                                         ELSE taken[i + 1]]
      /\ wpc' = "loop"
      /\ UNCHANGED <<network_bytes, loaded, object_vars>>

-----------------------------------------------------------------------------
(* The destructor, up to the join ... *)
Destroy ==
  /\ owner = "using"
  /\ m_running' = FALSE
  /\ owner' = "joining"
  /\ UNCHANGED <<network_bytes, wpc, loaded, stats_vars>>

(* ... and to its end. *)
Join ==
  /\ owner = "joining"
  /\ wpc = "ended"
  /\ owner' = "gone"
  /\ UNCHANGED <<network_bytes, wpc, loaded, stats_vars, m_running>>

Worker ==
  \/ LoadReceived \/ Loop
  \/ \E now \in 0 .. MaxTime : FirstState(now) \/ Update(now)

Next ==
  \/ \E f \in Counter, delta \in Delta : AddBytes(f, delta)
  \/ Worker
  \/ Destroy \/ Join

Spec == Init /\ [][Next]_vars

(* The worker is scheduled, sleeping included, and so is a destructor that *)
(* can go on.                                                              *)
FairSpec == Spec /\ WF_vars(Worker) /\ WF_vars(Join)

-----------------------------------------------------------------------------
(* The type invariant: every number of the object is one of 64 bits. *)
TypeOK ==
  /\ network_bytes \in [Counter -> Nat]
  /\ wpc \in {"first", "first_send", "loop", "update", "send", "ended"}
  /\ loaded \in Nat
  /\ {last_state, agg_state} \subseteq record
  /\ windows_records \in [1 .. Window -> record]
  /\ taken \in [0 .. Window -> [Field -> Nat]]
  /\ m_running \in BOOLEAN
  /\ owner \in {"using", "joining", "gone"}

(* What the window aggregates (stats.cpp:27-35) is what was counted, and   *)
(* the time that passed, between one snapshot and another: the last one    *)
(* and that of Window updates before.  So the speeds that are printed      *)
(* relate bytes and time of one span; neither traffic between the two      *)
(* loads of a snapshot, nor a counter that wraps, nor a clock that was set *)
(* in between puts the sum out for good.                                   *)
AggregateIsExact ==
  \A f \in Field :
    LET difference == taken[Window][f] - taken[0][f]
    IN  difference \in uint64 => agg_state[f] = difference

(* The window never shows more bytes than were counted so far, which is    *)
(* what the totals printed after it show (stats.cpp:63-70): although a     *)
(* total is read later than the snapshot, and without a lock.              *)
WindowWithinTotals ==
  \A f \in Counter : network_bytes[f] < Word => agg_state[f] <= network_bytes[f]

(* The destructor returns: the worker looks at m_running every round.      *)
JoinReturns == owner = "joining" ~> owner = "gone"
=============================================================================
