-------------------------- MODULE StatisticsProofs --------------------------
(***************************************************************************)
(* The window of the statistics, for all widths of a number and lengths of *)
(* the window.  IInv relates what the object holds, modulo Word, to the    *)
(* snapshots that were taken, and these to the counters: they only grow.   *)
(***************************************************************************)
EXTENDS Statistics, TLAPS

(* Equal modulo Word. *)
Congruent(a, b) == \E k \in Int : a = b + k * Word

(* A remainder is congruent to what is divided, and of 64 bits. *)
LEMMA Remainder ==
  ASSUME NEW a \in Int
  PROVE  a % Word \in uint64 /\ Congruent(a % Word, a)
  <1> DEFINE q == a \div Word
             r == a % Word
  <1>1. q \in Int /\ r \in uint64 /\ uint64 \subseteq Int
    BY StatisticsAssumption DEF uint64
  <1>2. a = Word * q + r
    BY StatisticsAssumption, SMT
  <1> HIDE DEF q, r
  <1>3. r = a + (0 - q) * Word
    BY <1>1, <1>2, StatisticsAssumption, SMT
  <1>4. Congruent(r, a)
    BY <1>1, <1>3 DEF Congruent
  <1> QED
    BY <1>1, <1>4 DEF r

(* Sums and differences of congruent numbers are congruent. *)
LEMMA CongruentSum ==
  ASSUME NEW a \in Int, NEW b \in Int, NEW c \in Int, NEW d \in Int,
         Congruent(a, b), Congruent(c, d)
  PROVE  Congruent(a + c, b + d) /\ Congruent(a - c, b - d)
  <1>1. PICK j \in Int, k \in Int : a = b + j * Word /\ c = d + k * Word
    BY DEF Congruent
  <1>2. a + c = b + d + (j + k) * Word
    BY <1>1, StatisticsAssumption
  <1>3. a - c = b - d + (j - k) * Word
    BY <1>1, StatisticsAssumption
  <1> QED
    BY <1>2, <1>3 DEF Congruent

LEMMA CongruentTransitive ==
  ASSUME NEW a \in Int, NEW b \in Int, NEW c \in Int,
         Congruent(a, b), Congruent(b, c)
  PROVE  Congruent(a, c)
  <1>1. PICK j \in Int, k \in Int : a = b + j * Word /\ b = c + k * Word
    BY DEF Congruent
  <1>2. a = c + (j + k) * Word
    BY <1>1, StatisticsAssumption
  <1> QED
    BY <1>2 DEF Congruent

(* Of 64 bits there is only one in every class. *)
LEMMA CongruentUnique ==
  ASSUME NEW a \in uint64, NEW b \in uint64, Congruent(a, b)
  PROVE  a = b
  <1>1. PICK k \in Int : a = b + k * Word
    BY DEF Congruent
  <1>2. /\ k >= 1 => k * Word >= Word
        /\ k <= -1 => k * Word <= 0 - Word
    BY StatisticsAssumption, SMT
  <1> QED
    BY <1>1, <1>2, StatisticsAssumption DEF uint64

-----------------------------------------------------------------------------
(* What is kept is what the snapshots say, modulo Word. *)
Kept ==
  \A f \in Field :
    /\ Congruent(last_state[f], taken[Window][f])
    /\ Congruent(agg_state[f], taken[Window][f] - taken[0][f])
    /\ \A i \in 1 .. Window :
         Congruent(windows_records[i][f], taken[i][f] - taken[i - 1][f])

(* No snapshot shows more of a counter than a later one, or the counter. *)
Grows ==
  /\ loaded <= network_bytes["network_bytes_recv"]
  /\ \A f \in Counter : \A j \in 0 .. Window :
       /\ taken[j][f] <= network_bytes[f]
       /\ \A i \in 0 .. j : taken[i][f] <= taken[j][f]
  /\ wpc = "send" =>
       \A j \in 0 .. Window : taken[j]["network_bytes_recv"] <= loaded

(* Before the first snapshot there is none. *)
Fresh ==
  wpc \in {"first", "first_send"} => \A i \in 0 .. Window : taken[i] = Zero

IInv == TypeOK /\ Kept /\ Grows /\ Fresh

LEMMA Numbers ==
  /\ uint64 \subseteq Nat /\ 0 \in uint64
  /\ Counter \subseteq Field /\ Field = Counter \cup {"duration"}
  /\ "network_bytes_recv" \in Counter
  /\ Window \in Nat /\ Window > 0
  /\ Window \in 0 .. Window /\ 0 \in 0 .. Window /\ Window \in 1 .. Window
  BY StatisticsAssumption DEF uint64, Field, Counter

LEMMA InitIInv == Init => IInv
  <1> SUFFICES ASSUME Init PROVE IInv
    OBVIOUS
  <1>1. Congruent(0, 0) /\ Congruent(0, 0 - 0)
    <2>1. 0 = 0 + 0 * Word /\ 0 - 0 = 0
      BY StatisticsAssumption
    <2> QED
      BY <2>1 DEF Congruent
  <1>2. Zero \in record /\ Zero \in [Field -> Nat] /\ \A f \in Field : Zero[f] = 0
    BY Numbers DEF Zero, record
  <1>3. TypeOK
    BY <1>2, Numbers DEF TypeOK, Init
  <1>4. \A i \in 0 .. Window : taken[i] = Zero
    BY DEF Init
  <1>5. \A i \in 1 .. Window : windows_records[i] = Zero /\ i \in 0 .. Window /\ i - 1 \in 0 .. Window
    BY Numbers DEF Init
  <1>6. Kept
    BY <1>1, <1>2, <1>4, <1>5, Numbers DEF Kept, Init
  <1>7. \A j \in 0 .. Window : \A i \in 0 .. j : i \in 0 .. Window
    BY Numbers
  <1>8. Grows
    <2>1. \A f \in Counter : network_bytes[f] = 0 /\ Zero[f] = 0
      BY <1>2, Numbers DEF Init
    <2>2. loaded = 0 /\ wpc # "send"
      BY DEF Init
    <2> QED
      BY <1>4, <1>7, <2>1, <2>2, Numbers DEF Grows
  <1>9. Fresh
    BY <1>4 DEF Fresh
  <1> QED
    BY <1>3, <1>6, <1>8, <1>9 DEF IInv

(* A snapshot, and what is computed from it. *)
LEMMA SnapshotOf ==
  ASSUME TypeOK, NEW now \in 0 .. MaxTime
  PROVE  /\ Snapshot(now) \in [Field -> Nat]
         /\ Snapshot(now)["network_bytes_recv"] = loaded
         /\ Snapshot(now)["network_bytes_send"] = network_bytes["network_bytes_send"]
         /\ current_state(now) \in record
         /\ \A f \in Field : Congruent(current_state(now)[f], Snapshot(now)[f])
  <1>1. \A f \in Field : f = "network_bytes_recv" \/ f = "duration" \/ f = "network_bytes_send"
    BY DEF Field, Counter
  <1>2. loaded \in Nat /\ now \in Nat /\ network_bytes["network_bytes_send"] \in Nat
    <2>1. "network_bytes_send" \in Counter
      BY DEF Counter
    <2>2. now \in Nat
      BY StatisticsAssumption
    <2> QED
      BY <2>1, <2>2 DEF TypeOK
  <1>3. Snapshot(now) \in [Field -> Nat]
    BY <1>1, <1>2 DEF Snapshot
  <1>4. /\ Snapshot(now)["network_bytes_recv"] = loaded
        /\ Snapshot(now)["network_bytes_send"] = network_bytes["network_bytes_send"]
    BY DEF Snapshot, Field, Counter
  <1>5. \A f \in Field : /\ current_state(now)[f] = Snapshot(now)[f] % Word
                         /\ Snapshot(now)[f] \in Int
    BY <1>3 DEF current_state
  <1>6. \A f \in Field : /\ current_state(now)[f] \in uint64
                         /\ Congruent(current_state(now)[f], Snapshot(now)[f])
    BY <1>5, Remainder
  <1>7. current_state(now) \in record
    BY <1>6 DEF current_state, record
  <1> QED
    BY <1>3, <1>4, <1>6, <1>7

LEMMA RecordInt ==
  ASSUME NEW r \in record, NEW f \in Field
  PROVE  r[f] \in Int
  <1>1. r[f] \in uint64
    BY DEF record
  <1>2. \A n \in uint64 : n \in Int
    BY StatisticsAssumption DEF uint64
  <1> QED
    BY <1>1, <1>2

(* Sums and differences of records. *)
LEMMA RecordSums ==
  ASSUME NEW l \in record, NEW r \in record
  PROVE  /\ Plus(l, r) \in record /\ Minus(l, r) \in record
         /\ \A f \in Field : /\ Congruent(Plus(l, r)[f], l[f] + r[f])
                             /\ Congruent(Minus(l, r)[f], l[f] - r[f])
  <1>1. \A f \in Field : l[f] + r[f] \in Int /\ l[f] - r[f] \in Int
    <2>1. \A f \in Field : l[f] \in Int /\ r[f] \in Int
      BY RecordInt
    <2> QED
      BY <2>1
  <1>2. \A f \in Field : /\ Plus(l, r)[f] = (l[f] + r[f]) % Word
                         /\ Minus(l, r)[f] = (l[f] - r[f]) % Word
    BY DEF Plus, Minus
  <1>3. \A f \in Field : /\ Plus(l, r)[f] \in uint64 /\ Minus(l, r)[f] \in uint64
                         /\ Congruent(Plus(l, r)[f], l[f] + r[f])
                         /\ Congruent(Minus(l, r)[f], l[f] - r[f])
    BY <1>1, <1>2, Remainder
  <1> QED
    BY <1>3 DEF record, Plus, Minus

-----------------------------------------------------------------------------
(* What update leaves in the object, by the name of each part. *)
LEMMA UpdateParts ==
  ASSUME TypeOK, NEW now \in 0 .. MaxTime, Update(now),
         NEW s, s = Snapshot(now),
         NEW cs, cs = current_state(now),
         NEW delta, delta = Minus(cs, last_state)
  PROVE  /\ agg_state' = Minus(Plus(agg_state, delta), windows_records[1])
         /\ last_state' = cs
         /\ windows_records' \in [1 .. Window -> record]
         /\ windows_records'[Window] = delta
         /\ \A i \in 1 .. Window - 1 : windows_records'[i] = windows_records[i + 1]
         /\ taken' \in [0 .. Window -> [Field -> Nat]]
         /\ taken'[Window] = s
         /\ \A i \in 0 .. Window - 1 : taken'[i] = taken[i + 1]
         /\ delta \in record
  <1>1. cs \in record /\ s \in [Field -> Nat]
    BY SnapshotOf
  <1>2. delta \in record
    BY <1>1, RecordSums DEF TypeOK
  <1>3. windows_records' =
          [i \in 1 .. Window |-> IF i = Window THEN delta ELSE windows_records[i + 1]]
    BY DEF Update
  <1>4. taken' = [i \in 0 .. Window |-> IF i = Window THEN s ELSE taken[i + 1]]
    BY DEF Update
  <1>5. /\ \A i \in 1 .. Window : i # Window => i + 1 \in 1 .. Window
        /\ \A i \in 0 .. Window : i # Window => i + 1 \in 0 .. Window
        /\ \A i \in 1 .. Window - 1 : i \in 1 .. Window /\ i # Window
        /\ \A i \in 0 .. Window - 1 : i \in 0 .. Window /\ i # Window
    BY Numbers
  <1>6. windows_records' \in [1 .. Window -> record]
    BY <1>2, <1>3, <1>5 DEF TypeOK
  <1>7. taken' \in [0 .. Window -> [Field -> Nat]]
    BY <1>1, <1>4, <1>5 DEF TypeOK
  <1>8. agg_state' = Minus(Plus(agg_state, delta), windows_records[1]) /\ last_state' = cs
    BY DEF Update, to_drop
  <1> QED
    BY <1>2, <1>3, <1>4, <1>5, <1>6, <1>7, <1>8, Numbers

(* The sum telescopes, modulo Word. *)
LEMMA UpdateKept ==
  ASSUME TypeOK, Kept, NEW now \in 0 .. MaxTime, Update(now)
  PROVE  Kept'
  <1> DEFINE s == Snapshot(now)
             cs == current_state(now)
             delta == Minus(cs, last_state)
             sum == Plus(agg_state, delta)
  <1>1. /\ agg_state' = Minus(sum, windows_records[1])
        /\ last_state' = cs
        /\ windows_records'[Window] = delta
        /\ \A i \in 1 .. Window - 1 : windows_records'[i] = windows_records[i + 1]
        /\ taken'[Window] = s
        /\ \A i \in 0 .. Window - 1 : taken'[i] = taken[i + 1]
        /\ delta \in record
    BY UpdateParts
  <1>2. /\ cs \in record /\ s \in [Field -> Nat]
        /\ \A f \in Field : Congruent(cs[f], s[f])
    BY SnapshotOf
  <1>3. /\ last_state \in record /\ agg_state \in record
        /\ \A i \in 1 .. Window : windows_records[i] \in record
        /\ \A i \in 0 .. Window : taken[i] \in [Field -> Nat]
    BY DEF TypeOK
  <1>4. /\ sum \in record
        /\ \A f \in Field :
             /\ Congruent(delta[f], cs[f] - last_state[f])
             /\ Congruent(sum[f], agg_state[f] + delta[f])
             /\ Congruent(Minus(sum, windows_records[1])[f], sum[f] - windows_records[1][f])
    BY <1>1, <1>2, <1>3, RecordSums, Numbers
  <1>5. ASSUME NEW r \in record, NEW f \in Field
        PROVE  r[f] \in Int
    BY RecordInt
  <1> HIDE DEF s, cs, delta, sum
  <1>6. 1 \in 1 .. Window /\ 1 \in 0 .. Window /\ 0 \in 0 .. Window - 1 /\ 1 - 1 = 0 /\ 0 + 1 = 1
    BY Numbers
  <1>7. ASSUME NEW f \in Field
        PROVE  /\ s[f] \in Int /\ cs[f] \in Int /\ delta[f] \in Int /\ sum[f] \in Int
               /\ last_state[f] \in Int /\ agg_state[f] \in Int
               /\ \A i \in 1 .. Window : windows_records[i][f] \in Int
               /\ \A i \in 0 .. Window : taken[i][f] \in Int
    BY <1>1, <1>2, <1>3, <1>4, <1>5
  <1>8. ASSUME NEW f \in Field
        PROVE  Congruent(delta[f], s[f] - taken[Window][f])
    <2>1. Congruent(cs[f] - last_state[f], s[f] - taken[Window][f])
      BY <1>2, <1>7, CongruentSum, Numbers DEF Kept
    <2>2. Congruent(delta[f], cs[f] - last_state[f])
      BY <1>4
    <2>3. cs[f] - last_state[f] \in Int /\ s[f] - taken[Window][f] \in Int /\ delta[f] \in Int
      BY <1>7, Numbers
    <2> QED
      BY <2>1, <2>2, <2>3, CongruentTransitive
  <1>9. ASSUME NEW f \in Field
        PROVE  Congruent(agg_state'[f], s[f] - taken[1][f])
    <2> DEFINE t0 == taken[0][f]
               t1 == taken[1][f]
               tw == taken[Window][f]
               w1 == windows_records[1][f]
    <2>1. Congruent(agg_state[f], tw - t0) /\ Congruent(w1, t1 - t0)
      BY <1>6 DEF Kept
    <2>2. t0 \in Int /\ t1 \in Int /\ tw \in Int /\ w1 \in Int
      BY <1>6, <1>7, Numbers
    <2>3. /\ Congruent(delta[f], s[f] - tw)
          /\ Congruent(sum[f], agg_state[f] + delta[f])
          /\ Congruent(agg_state'[f], sum[f] - w1)
      BY <1>1, <1>4, <1>8
    <2>4. agg_state'[f] \in Int
      <3>1. agg_state' \in record
        BY <1>1, <1>3, <1>4, <1>6, RecordSums
      <3> QED
        BY <3>1, <1>5
    <2> HIDE DEF t0, t1, tw, w1
    <2>i. /\ agg_state[f] \in Int /\ delta[f] \in Int /\ sum[f] \in Int /\ s[f] \in Int
          /\ tw - t0 \in Int /\ s[f] - tw \in Int /\ t1 - t0 \in Int
          /\ (tw - t0) + (s[f] - tw) \in Int
          /\ ((tw - t0) + (s[f] - tw)) - (t1 - t0) \in Int
      BY <1>7, <2>2
    <2>j. agg_state[f] + delta[f] \in Int /\ sum[f] - w1 \in Int
      BY <2>i, <2>2
    <2>5. Congruent(agg_state[f] + delta[f], (tw - t0) + (s[f] - tw))
      BY <2>i, <2>1, <2>3, CongruentSum
    <2>6. Congruent(sum[f], (tw - t0) + (s[f] - tw))
      BY <2>i, <2>j, <2>3, <2>5, CongruentTransitive
    <2>7. Congruent(sum[f] - w1, ((tw - t0) + (s[f] - tw)) - (t1 - t0))
      BY <2>i, <2>1, <2>2, <2>6, CongruentSum
    <2>8. Congruent(agg_state'[f], ((tw - t0) + (s[f] - tw)) - (t1 - t0))
      BY <2>i, <2>j, <2>3, <2>4, <2>7, CongruentTransitive
    <2>9. ((tw - t0) + (s[f] - tw)) - (t1 - t0) = s[f] - t1
      BY <1>7, <2>2
    <2> QED
      BY <2>8, <2>9 DEF t1
  <1>10. ASSUME NEW f \in Field, NEW i \in 1 .. Window
         PROVE  Congruent(windows_records'[i][f], taken'[i][f] - taken'[i - 1][f])
    <2>1. CASE i = Window
      <3>1. Window - 1 \in 0 .. Window - 1 /\ (Window - 1) + 1 = Window
        BY Numbers
      <3>2. taken'[i - 1] = taken[Window]
        BY <1>1, <2>1, <3>1
      <3> QED
        BY <1>1, <1>8, <2>1, <3>2
    <2>2. CASE i # Window
      <3>1. /\ i \in 1 .. Window - 1 /\ i \in 0 .. Window - 1 /\ i - 1 \in 0 .. Window - 1
            /\ (i - 1) + 1 = i /\ i + 1 \in 1 .. Window /\ (i + 1) - 1 = i
        BY <2>2, Numbers
      <3>2. /\ taken'[i - 1] = taken[i] /\ taken'[i] = taken[i + 1]
            /\ windows_records'[i] = windows_records[i + 1]
        BY <1>1, <3>1
      <3>3. Congruent(windows_records[i + 1][f], taken[i + 1][f] - taken[(i + 1) - 1][f])
        BY <3>1 DEF Kept
      <3> QED
        BY <3>1, <3>2, <3>3
    <2> QED
      BY <2>1, <2>2
  <1>11. taken'[0] = taken[1]
    BY <1>1, <1>6
  <1>12. \A f \in Field : Congruent(last_state'[f], taken'[Window][f])
    BY <1>1, <1>2
  <1> QED
    BY <1>1, <1>9, <1>10, <1>11, <1>12 DEF Kept

(* A later snapshot shows no less. *)
LEMMA UpdateGrows ==
  ASSUME TypeOK, Grows, NEW now \in 0 .. MaxTime, Update(now)
  PROVE  Grows'
  <1> DEFINE s == Snapshot(now)
  <1>1. /\ taken'[Window] = s
        /\ \A i \in 0 .. Window - 1 : taken'[i] = taken[i + 1]
    BY UpdateParts
  <1>2. /\ s \in [Field -> Nat]
        /\ s["network_bytes_recv"] = loaded
        /\ s["network_bytes_send"] = network_bytes["network_bytes_send"]
    BY SnapshotOf
  <1> HIDE DEF s
  <1>3. /\ wpc = "send" /\ wpc' = "loop"
        /\ network_bytes' = network_bytes /\ loaded' = loaded
    BY DEF Update
  <1>4. /\ \A f \in Counter : network_bytes[f] \in Nat /\ s[f] \in Nat
        /\ \A j \in 0 .. Window, f \in Counter : taken[j][f] \in Nat
    BY <1>2, Numbers DEF TypeOK
  <1>5. \A f \in Counter :
          /\ s[f] <= network_bytes[f]
          /\ \A j \in 0 .. Window : taken[j][f] <= s[f]
    <2>1. \A f \in Counter : f = "network_bytes_recv" \/ f = "network_bytes_send"
      BY DEF Counter
    <2> QED
      BY <1>2, <1>3, <1>4, <2>1 DEF Grows
  <1>6. ASSUME NEW f \in Counter, NEW j \in 0 .. Window
        PROVE  /\ taken'[j][f] <= network_bytes[f]
               /\ \A i \in 0 .. j : taken'[i][f] <= taken'[j][f]
    <2>1. CASE j = Window
      <3>1. \A i \in 0 .. j : i = Window \/ (i \in 0 .. Window - 1 /\ i + 1 \in 0 .. Window)
        BY <2>1, Numbers
      <3>2. taken'[j] = s
        BY <1>1, <2>1
      <3>3. \A i \in 0 .. j : taken'[i][f] <= s[f]
        BY <1>1, <1>4, <1>5, <3>1
      <3> QED
        BY <1>5, <3>2, <3>3
    <2>2. CASE j # Window
      <3>1. j \in 0 .. Window - 1 /\ j + 1 \in 0 .. Window
        BY <2>2, Numbers
      <3>2. \A i \in 0 .. j : i \in 0 .. Window - 1 /\ i + 1 \in 0 .. j + 1
        BY <3>1, Numbers
      <3>3. taken'[j] = taken[j + 1] /\ \A i \in 0 .. j : taken'[i] = taken[i + 1]
        BY <1>1, <3>1, <3>2
      <3>4. /\ taken[j + 1][f] <= network_bytes[f]
            /\ \A i \in 0 .. j + 1 : taken[i][f] <= taken[j + 1][f]
        BY <3>1 DEF Grows
      <3> QED
        BY <3>2, <3>3, <3>4
    <2> QED
      BY <2>1, <2>2
  <1> QED
    BY <1>3, <1>6 DEF Grows

-----------------------------------------------------------------------------
LEMMA Types ==
  ASSUME TypeOK
  PROVE  /\ network_bytes \in [Counter -> Nat]
         /\ \A f \in Counter : network_bytes[f] \in Nat
         /\ \A j \in 0 .. Window, f \in Counter : taken[j][f] \in Nat
         /\ loaded \in Nat
         /\ agg_state \in record /\ windows_records[1] \in record
  <1>1. \A j \in 0 .. Window : taken[j] \in [Field -> Nat]
    BY DEF TypeOK
  <1>2. \A f \in Counter : f \in Field
    BY Numbers
  <1>3. 1 \in 1 .. Window
    BY Numbers
  <1> QED
    BY <1>1, <1>2, <1>3 DEF TypeOK

(* More bytes. *)
LEMMA Added ==
  ASSUME TypeOK, NEW f \in Counter, NEW delta \in Delta, AddBytes(f, delta)
  PROVE  /\ network_bytes' \in [Counter -> Nat]
         /\ \A g \in Counter : network_bytes[g] <= network_bytes'[g]
  <1>1. delta \in Nat
    BY StatisticsAssumption
  <1>2. network_bytes' = [network_bytes EXCEPT ![f] = @ + delta]
    BY DEF AddBytes
  <1>3. network_bytes \in [Counter -> Nat]
    BY Types
  <1> QED
    BY <1>1, <1>2, <1>3

LEMMA NextTypeOK == TypeOK /\ [Next]_vars => TypeOK'
  <1> SUFFICES ASSUME TypeOK, [Next]_vars PROVE TypeOK'
    OBVIOUS
  <1> USE DEF stats_vars, object_vars
  <1>1. ASSUME NEW f \in Counter, NEW delta \in Delta, AddBytes(f, delta)
        PROVE  TypeOK'
    <2>1. network_bytes' \in [Counter -> Nat]
      BY <1>1, Added
    <2> QED
      BY <1>1, <2>1 DEF TypeOK, AddBytes
  <1>2. CASE LoadReceived
    BY <1>2, Numbers DEF TypeOK, LoadReceived
  <1>3. CASE Loop
    BY <1>3 DEF TypeOK, Loop, LoopOrEnd
  <1>4. ASSUME NEW now \in 0 .. MaxTime, FirstState(now)
        PROVE  TypeOK'
    <2>1. current_state(now) \in record /\ Snapshot(now) \in [Field -> Nat]
      BY SnapshotOf
    <2>2. taken' = [i \in 0 .. Window |-> Snapshot(now)] /\ last_state' = current_state(now)
      BY <1>4 DEF FirstState
    <2>3. taken' \in [0 .. Window -> [Field -> Nat]] /\ last_state' \in record
      BY <2>1, <2>2
    <2> QED
      BY <1>4, <2>3 DEF TypeOK, FirstState
  <1>5. ASSUME NEW now \in 0 .. MaxTime, Update(now)
        PROVE  TypeOK'
    <2> DEFINE delta == Minus(current_state(now), last_state)
    <2>1. /\ agg_state' = Minus(Plus(agg_state, delta), windows_records[1])
          /\ last_state' = current_state(now)
          /\ windows_records' \in [1 .. Window -> record]
          /\ taken' \in [0 .. Window -> [Field -> Nat]]
          /\ delta \in record
      BY <1>5, UpdateParts
    <2>2. current_state(now) \in record
      BY SnapshotOf
    <2>3. windows_records[1] \in record /\ agg_state \in record
      BY Types
    <2> HIDE DEF delta
    <2>4. agg_state' \in record
      BY <2>1, <2>3, RecordSums
    <2> QED
      BY <1>5, <2>1, <2>2, <2>4 DEF TypeOK, Update
  <1>6. CASE Destroy
    BY <1>6 DEF TypeOK, Destroy
  <1>7. CASE Join
    BY <1>7 DEF TypeOK, Join
  <1>8. CASE UNCHANGED vars
    BY <1>8 DEF TypeOK, vars
  <1> QED
    BY <1>1, <1>2, <1>3, <1>4, <1>5, <1>6, <1>7, <1>8 DEF Next, Worker

LEMMA NextKept == TypeOK /\ Kept /\ Fresh /\ [Next]_vars => Kept'
  <1> SUFFICES ASSUME TypeOK, Kept, Fresh, [Next]_vars PROVE Kept'
    OBVIOUS
  <1>1. ASSUME UNCHANGED stats_vars
        PROVE  Kept'
    BY <1>1 DEF Kept, stats_vars
  <1>2. ASSUME NEW now \in 0 .. MaxTime, FirstState(now)
        PROVE  Kept'
    <2>1. /\ \A f \in Field : Congruent(current_state(now)[f], Snapshot(now)[f])
          /\ Snapshot(now) \in [Field -> Nat]
      BY SnapshotOf
    <2>2. /\ \A i \in 0 .. Window : taken'[i] = Snapshot(now)
          /\ \A i \in 0 .. Window : taken[i] = Zero
          /\ last_state' = current_state(now)
          /\ agg_state' = agg_state
          /\ windows_records' = windows_records
      BY <1>2 DEF FirstState, Fresh
    <2>3. \A f \in Field : /\ Zero[f] - Zero[f] = 0
                           /\ Snapshot(now)[f] - Snapshot(now)[f] = 0
      BY <2>1 DEF Zero
    <2>4. \A i \in 1 .. Window : i \in 0 .. Window /\ i - 1 \in 0 .. Window
      BY Numbers
    <2>5. \A f \in Field :
            /\ Congruent(agg_state[f], 0)
            /\ \A i \in 1 .. Window : Congruent(windows_records[i][f], 0)
      BY <2>2, <2>3, <2>4, Numbers DEF Kept
    <2>6. \A f \in Field :
            /\ taken'[Window][f] - taken'[0][f] = 0
            /\ \A i \in 1 .. Window : taken'[i][f] - taken'[i - 1][f] = 0
            /\ Congruent(last_state'[f], taken'[Window][f])
      BY <2>1, <2>2, <2>3, <2>4, Numbers
    <2> QED
      BY <2>2, <2>5, <2>6 DEF Kept
  <1>3. ASSUME NEW now \in 0 .. MaxTime, Update(now)
        PROVE  Kept'
    BY <1>3, UpdateKept
  <1> QED
    BY <1>1, <1>2, <1>3
       DEF Next, Worker, AddBytes, LoadReceived, Loop, Destroy, Join, vars

LEMMA NextGrows == TypeOK /\ Grows /\ [Next]_vars => Grows'
  <1> SUFFICES ASSUME TypeOK, Grows, [Next]_vars PROVE Grows'
    OBVIOUS
  <1> USE DEF stats_vars, object_vars
  <1>1. ASSUME NEW f \in Counter, NEW delta \in Delta, AddBytes(f, delta)
        PROVE  Grows'
    <2>1. /\ loaded \in Nat
          /\ \A g \in Counter : network_bytes[g] \in Nat
          /\ \A j \in 0 .. Window, g \in Counter : taken[j][g] \in Nat
      BY Types
    <2>2. \A g \in Counter : network_bytes'[g] \in Nat /\ network_bytes[g] <= network_bytes'[g]
      BY <1>1, Added
    <2>3. UNCHANGED <<wpc, loaded, taken>>
      BY <1>1 DEF AddBytes
    <2>4. loaded <= network_bytes'["network_bytes_recv"]
      BY <2>1, <2>2, Numbers DEF Grows
    <2>5. \A g \in Counter, j \in 0 .. Window : taken[j][g] <= network_bytes'[g]
      BY <2>1, <2>2 DEF Grows
    <2> QED
      BY <2>3, <2>4, <2>5 DEF Grows
  <1>2. CASE LoadReceived
    <2>1. /\ loaded' = network_bytes["network_bytes_recv"]
          /\ UNCHANGED <<network_bytes, taken>>
          /\ network_bytes["network_bytes_recv"] \in Nat
      BY <1>2, Numbers DEF LoadReceived, TypeOK
    <2> QED
      BY <2>1, Numbers DEF Grows
  <1>3. ASSUME NEW now \in 0 .. MaxTime, FirstState(now)
        PROVE  Grows'
    <2>1. /\ Snapshot(now) \in [Field -> Nat]
          /\ Snapshot(now)["network_bytes_recv"] = loaded
          /\ Snapshot(now)["network_bytes_send"] = network_bytes["network_bytes_send"]
      BY SnapshotOf
    <2>2. /\ \A i \in 0 .. Window : taken'[i] = Snapshot(now)
          /\ UNCHANGED <<network_bytes, loaded>>
          /\ wpc' = "loop"
      BY <1>3 DEF FirstState
    <2>3. /\ \A f \in Counter : f = "network_bytes_recv" \/ f = "network_bytes_send"
          /\ \A f \in Counter : Snapshot(now)[f] \in Nat /\ network_bytes[f] \in Nat
      BY <2>1, Numbers DEF Counter, TypeOK
    <2>4. \A f \in Counter : Snapshot(now)[f] <= network_bytes[f] /\ Snapshot(now)[f] <= Snapshot(now)[f]
      BY <2>1, <2>3 DEF Grows
    <2>5. \A j \in 0 .. Window : \A i \in 0 .. j : i \in 0 .. Window
      BY Numbers
    <2>6. loaded' <= network_bytes'["network_bytes_recv"]
      BY <2>2 DEF Grows
    <2>7. \A f \in Counter : \A j \in 0 .. Window :
            /\ taken'[j][f] <= network_bytes'[f]
            /\ \A i \in 0 .. j : taken'[i][f] <= taken'[j][f]
      BY <2>2, <2>4, <2>5
    <2> QED
      BY <2>2, <2>6, <2>7 DEF Grows
  <1>4. ASSUME NEW now \in 0 .. MaxTime, Update(now)
        PROVE  Grows'
    BY <1>4, UpdateGrows
  <1>5. CASE Loop
    BY <1>5 DEF Grows, Loop, LoopOrEnd
  <1>6. CASE Destroy
    BY <1>6 DEF Grows, Destroy
  <1>7. CASE Join
    BY <1>7 DEF Grows, Join
  <1>8. CASE UNCHANGED vars
    BY <1>8 DEF Grows, vars
  <1> QED
    BY <1>1, <1>2, <1>3, <1>4, <1>5, <1>6, <1>7, <1>8 DEF Next, Worker

LEMMA NextFresh == Fresh /\ [Next]_vars => Fresh'
  BY DEF Fresh, Next, Worker, AddBytes, LoadReceived, FirstState, Loop, LoopOrEnd,
         Update, Destroy, Join, vars, stats_vars, object_vars

LEMMA Invariance == Spec => []IInv
  <1>1. IInv /\ [Next]_vars => IInv'
    BY NextTypeOK, NextKept, NextGrows, NextFresh DEF IInv
  <1> QED
    BY <1>1, InitIInv, PTL DEF Spec

THEOREM TypeCorrect == Spec => []TypeOK
  BY Invariance, PTL DEF IInv

(* The window shows the bytes and the time between two snapshots. *)
THEOREM AggregateCorrect == Spec => []AggregateIsExact
  <1>1. IInv => AggregateIsExact
    <2> SUFFICES ASSUME IInv, NEW f \in Field,
                        taken[Window][f] - taken[0][f] \in uint64
                 PROVE  agg_state[f] = taken[Window][f] - taken[0][f]
      BY DEF AggregateIsExact
    <2>1. Congruent(agg_state[f], taken[Window][f] - taken[0][f])
      BY DEF IInv, Kept
    <2>2. agg_state[f] \in uint64
      BY DEF IInv, TypeOK, record
    <2> QED
      BY <2>1, <2>2, CongruentUnique
  <1> QED
    BY <1>1, Invariance, PTL

(* Nor does it show more than was counted. *)
THEOREM WindowCorrect == Spec => []WindowWithinTotals
  <1>1. IInv => WindowWithinTotals
    <2> SUFFICES ASSUME IInv, NEW f \in Counter, network_bytes[f] < Word
                 PROVE  agg_state[f] <= network_bytes[f]
      BY DEF WindowWithinTotals
    <2> DEFINE first == taken[0][f]
               last == taken[Window][f]
    <2>1. first \in Nat /\ last \in Nat /\ network_bytes[f] \in Nat /\ f \in Field
      BY Numbers DEF IInv, TypeOK
    <2>2. first <= last /\ last <= network_bytes[f]
      BY Numbers DEF IInv, Grows
    <2>3. Congruent(agg_state[f], last - first)
      BY <2>1 DEF IInv, Kept
    <2>4. agg_state[f] \in uint64
      BY <2>1 DEF IInv, TypeOK, record
    <2> HIDE DEF first, last
    <2>5. last - first \in uint64 /\ last - first <= network_bytes[f]
      BY <2>1, <2>2, StatisticsAssumption DEF uint64
    <2>6. agg_state[f] = last - first
      BY <2>3, <2>4, <2>5, CongruentUnique
    <2> QED
      BY <2>5, <2>6
  <1> QED
    BY <1>1, Invariance, PTL

-----------------------------------------------------------------------------
(* The destructor.  That it returns is liveness (JoinReturns).  It rests   *)
(* on this: when it waits every step is one towards the worker's end, a    *)
(* round that was begun included; and when it is through nobody touches    *)
(* the object.                                                             *)

(* The rest of a round, and the look at m_running. *)
WorkerStage ==
  CASE wpc = "first" -> 0
    [] wpc = "first_send" -> 1
    [] wpc = "update" -> 1
    [] wpc = "send" -> 2
    [] wpc = "loop" -> 3
    [] OTHER -> 4

JoinGoesOn ==
  [][/\ owner = "joining" => WorkerStage < WorkerStage' \/ owner' = "gone"
     /\ owner = "gone" => UNCHANGED vars]_vars

(* What the owner has done and the worker has seen of it. *)
Ending ==
  /\ owner # "using" => ~m_running
  /\ owner = "gone" => wpc = "ended"

LEMMA InitEnding == Init => Ending
  BY DEF Init, Ending

LEMMA NextEnding == Ending /\ [Next]_vars => Ending'
  <1> SUFFICES ASSUME Ending, [Next]_vars PROVE Ending'
    OBVIOUS
  <1>1. CASE UNCHANGED vars
    BY <1>1 DEF Ending, vars, object_vars
  <1>2. CASE Worker
    BY <1>2 DEF Ending, Worker, LoadReceived, FirstState, Loop, Update, object_vars
  <1>3. CASE \E f \in Counter, delta \in Delta : AddBytes(f, delta)
    BY <1>3 DEF Ending, AddBytes, object_vars
  <1>4. CASE Destroy \/ Join
    BY <1>4 DEF Ending, Destroy, Join
  <1> QED
    BY <1>1, <1>2, <1>3, <1>4 DEF Next

LEMMA StepGoesOn ==
  ASSUME TypeOK, Ending, Next
  PROVE  /\ owner = "joining" => WorkerStage < WorkerStage' \/ owner' = "gone"
         /\ owner = "gone" => UNCHANGED vars
  <1>1. ASSUME owner = "gone"
        PROVE  FALSE
    BY <1>1 DEF Ending, Next, Worker, AddBytes, LoadReceived, FirstState, Loop, Update,
       Destroy, Join
  <1>2. ASSUME owner = "joining"
        PROVE  \/ owner' = "gone"
               \/ <<wpc, wpc'>> \in {<<"first", "first_send">>, <<"update", "send">>,
                    <<"first_send", "loop">>, <<"send", "loop">>, <<"loop", "ended">>}
    BY <1>2 DEF Ending, Next, Worker, AddBytes, LoadReceived, FirstState, Loop,
       LoopOrEnd, Update, Destroy, Join
  <1>3. ASSUME <<wpc, wpc'>> \in {<<"first", "first_send">>, <<"update", "send">>,
                 <<"first_send", "loop">>, <<"send", "loop">>, <<"loop", "ended">>}
        PROVE  WorkerStage < WorkerStage'
    <2>1. CASE wpc = "first" /\ wpc' = "first_send"
      BY <2>1 DEF WorkerStage
    <2>2. CASE wpc = "update" /\ wpc' = "send"
      BY <2>2 DEF WorkerStage
    <2>3. CASE wpc = "first_send" /\ wpc' = "loop"
      BY <2>3 DEF WorkerStage
    <2>4. CASE wpc = "send" /\ wpc' = "loop"
      BY <2>4 DEF WorkerStage
    <2>5. CASE wpc = "loop" /\ wpc' = "ended"
      BY <2>5 DEF WorkerStage
    <2> QED
      BY <1>3, <2>1, <2>2, <2>3, <2>4, <2>5
  <1> QED
    BY <1>1, <1>2, <1>3

(* The destructor (stats.cpp) waits for the rest of one round at most,     *)
(* wherever it finds the worker; and then the worker is through with the   *)
(* object.                                                                 *)
THEOREM JoinGoesOnCorrect == Spec => JoinGoesOn
  <1>1. TypeOK /\ Ending /\ [Next]_vars =>
          [/\ owner = "joining" => WorkerStage < WorkerStage' \/ owner' = "gone"
           /\ owner = "gone" => UNCHANGED vars]_vars
    BY StepGoesOn
  <1> QED
    BY <1>1, TypeCorrect, InitEnding, NextEnding, PTL DEF Spec, JoinGoesOn
=============================================================================
