------------------------ MODULE ConfigurationProofs -------------------------
(***************************************************************************)
(* Proofs about Configuration, for all arguments and config files.  The    *)
(* invariant says what the two loops have come to: SettingsInv where the   *)
(* settings come from, and RefusalInv that nothing wrong was passed over.  *)
(***************************************************************************)
EXTENDS Configuration, TLAPS

SettingsInv ==
  /\ pc = "files" => \A key \in Key(program) : FromFiles(i, 1, key, cfg[key])
  /\ pc = "lines" => \A key \in Key(program) : FromFiles(i, j, key, cfg[key])
  /\ pc = "options" => \A key \in Key(program) : FromOptions(i, key, cfg[key])
  /\ pc = "make" => \A key \in Key(program) : FromOptions(Len(args) + 1, key, cfg[key])

RefusalInv ==
  /\ pc \in {"files", "lines"} => \A n \in 1 .. i - 1 : FileIsRight(n)
  /\ pc = "lines" =>
       /\ args[i].key = "config" /\ files[args[i].value] # Missing
       /\ \A m \in 1 .. j - 1 : LineIsRight(i, m)
  /\ pc = "options" =>
       /\ \A n \in 1 .. Len(args) : FileIsRight(n)
       /\ \A n \in 1 .. i - 1 : ArgumentIsRight(n)
  /\ pc = "make" => Acceptable
  /\ pc \in {"-1", "throws"} => ~Acceptable

IInv == TypeOK /\ SettingsInv /\ RefusalInv

-----------------------------------------------------------------------------
USE ConfigurationAssumption

(* The lines of a file are a sequence. *)
LEMMA LinesType ==
  ASSUME TypeOK
  PROVE  /\ Len(args) \in Nat
         /\ \A n \in 1 .. Len(args) : Lines(n) \in Seq(Line) \cup {<<>>} /\ Len(Lines(n)) \in Nat
  <1>1. Len(args) \in Nat
    BY DEF TypeOK
  <1>2. ASSUME NEW n \in 1 .. Len(args)
        PROVE  Lines(n) \in Seq(Line) \cup {<<>>} /\ Len(Lines(n)) \in Nat
    <2>1. args[n] \in Argument
      BY DEF TypeOK
    <2>2. args[n].key = "config" =>
            files[args[n].value] = Missing \/ files[args[n].value] \in Seq(Line)
      BY <2>1 DEF TypeOK
    <2>3. Lines(n) \in Seq(Line) \/ Lines(n) = <<>>
      BY <2>2 DEF Lines
    <2> QED BY <2>3
  <1> QED BY <1>1, <1>2

(* A line that sets the key is the last one before the next. *)
LEMMA LineSets ==
  ASSUME TypeOK, NEW n1 \in 1 .. Len(args), NEW m1 \in 1 .. Len(Lines(n1)), NEW key,
         SetByLine(n1, m1, key)
  PROVE  FromFiles(n1, m1 + 1, key, Lines(n1)[m1].value)
  BY LinesType DEF FromFiles, Before

(* One that does not changes nothing. *)
LEMMA LinePasses ==
  ASSUME TypeOK, NEW n1 \in 1 .. Len(args), NEW m1 \in 1 .. Len(Lines(n1)), NEW key,
         ~SetByLine(n1, m1, key), NEW v, FromFiles(n1, m1, key, v)
  PROVE  FromFiles(n1, m1 + 1, key, v)
  <1>1. ASSUME NEW k \in 1 .. Len(args), NEW l \in 1 .. Len(Lines(k)), SetByLine(k, l, key)
        PROVE  Before(k, l, n1, m1 + 1) <=> Before(k, l, n1, m1)
    <2>1. k # n1 \/ l # m1
      BY <1>1
    <2> QED BY <2>1, LinesType DEF Before
  <1> QED BY <1>1 DEF FromFiles

(* What stands before the end of a file stands before the next one. *)
LEMMA FileEnds ==
  ASSUME TypeOK, NEW n1 \in 1 .. Len(args), NEW m1 \in Nat, m1 > Len(Lines(n1)), NEW key,
         NEW v, FromFiles(n1, m1, key, v)
  PROVE  FromFiles(n1 + 1, 1, key, v)
  <1>1. ASSUME NEW k \in 1 .. Len(args), NEW l \in 1 .. Len(Lines(k))
        PROVE  Before(k, l, n1 + 1, 1) <=> Before(k, l, n1, m1)
    BY LinesType DEF Before
  <1> QED BY <1>1 DEF FromFiles

LEMMA OptionSets ==
  ASSUME TypeOK, NEW n1 \in 1 .. Len(args), NEW key, SetByOption(n1, key)
  PROVE  FromOptions(n1 + 1, key, args[n1].value)
  BY LinesType DEF FromOptions

LEMMA OptionPasses ==
  ASSUME TypeOK, NEW n1 \in 1 .. Len(args), NEW key, ~SetByOption(n1, key), NEW v,
         FromOptions(n1, key, v)
  PROVE  FromOptions(n1 + 1, key, v)
  <1>1. ASSUME NEW k \in 1 .. Len(args), SetByOption(k, key)
        PROVE  (k < n1 + 1 <=> k < n1) /\ (k >= n1 + 1 <=> k >= n1)
    <2>1. k # n1
      BY <1>1
    <2> QED BY <2>1, LinesType
  <1> QED BY <1>1 DEF FromOptions

(* Before the first argument nothing is set but by the files. *)
LEMMA NoOptionYet ==
  ASSUME TypeOK, NEW key, NEW v, FromFiles(Len(args) + 1, 1, key, v)
  PROVE  FromOptions(1, key, v)
  BY LinesType DEF FromOptions

LEMMA NoFileYet ==
  ASSUME TypeOK, NEW key
  PROVE  FromFiles(1, 1, key, Default)
  BY LinesType DEF FromFiles, Before

-----------------------------------------------------------------------------
(* What was given does not change, and so neither does what it means. *)
LEMMA GivenStays ==
  ASSUME UNCHANGED given
  PROVE  /\ \A n : Lines(n)' = Lines(n)
         /\ \A n, m, key, v : FromFiles(n, m, key, v)' <=> FromFiles(n, m, key, v)
         /\ \A n, key, v : FromOptions(n, key, v)' <=> FromOptions(n, key, v)
         /\ \A n : FileIsRight(n)' <=> FileIsRight(n)
         /\ \A n, m : LineIsRight(n, m)' <=> LineIsRight(n, m)
         /\ \A n : ArgumentIsRight(n)' <=> ArgumentIsRight(n)
         /\ Acceptable' <=> Acceptable
  BY DEF given, Lines, FromFiles, FromOptions, SetByLine, SetByOption, FileIsRight,
         LineIsRight, ArgumentIsRight, Acceptable

LEMMA NotAFileStep ==
  ASSUME IInv, NotAFile
  PROVE  IInv'
  <1>1. TypeOK'
    BY DEF NotAFile, IInv, TypeOK, given
  <1>2. SettingsInv'
    <2>1. Lines(i) = <<>> /\ i \in 1 .. Len(args)
      BY LinesType DEF NotAFile, Lines, IInv, TypeOK
    <2>2. \A key \in Key(program) : FromFiles(i + 1, 1, key, cfg[key])
      BY <2>1, FileEnds DEF NotAFile, IInv, SettingsInv
    <2> QED BY <2>2, GivenStays DEF NotAFile, SettingsInv, given
  <1>3. RefusalInv'
    <2>a. FileIsRight(i)
      BY DEF NotAFile, FileIsRight
    <2>1. \A n \in 1 .. i : FileIsRight(n)
      BY <2>a DEF NotAFile, IInv, RefusalInv, TypeOK
    <2> QED BY <2>1, GivenStays, LinesType DEF NotAFile, RefusalInv, IInv, TypeOK
  <1> QED BY <1>1, <1>2, <1>3 DEF IInv

LEMMA OpenFileStep ==
  ASSUME IInv, OpenFile
  PROVE  IInv'
  <1>1. i \in 1 .. Len(args) /\ Len(args) \in Nat
    BY LinesType DEF OpenFile, IInv, TypeOK
  <1>2. CASE files[args[i].value] = Missing
    <2>1. pc' = "-1" /\ UNCHANGED <<given, i, cfg>>
      BY <1>2 DEF OpenFile
    <2>2. ~Acceptable
      BY <1>1, <1>2 DEF OpenFile, Acceptable, FileIsRight
    <2>3. TypeOK'
      BY <2>1 DEF IInv, TypeOK, given
    <2>4. SettingsInv' /\ RefusalInv'
      BY <2>1, <2>2, GivenStays DEF SettingsInv, RefusalInv
    <2> QED BY <2>3, <2>4 DEF IInv
  <1>3. CASE files[args[i].value] # Missing
    <2>1. pc = "files" /\ pc' = "lines" /\ j' = 1 /\ UNCHANGED <<given, i, cfg>>
      BY <1>3 DEF OpenFile
    <2>2. Lines(i)' = Lines(i) /\ Len(Lines(i)) \in Nat
      BY <1>1, <2>1, GivenStays, LinesType DEF IInv
    <2>3. TypeOK'
      BY <1>1, <2>1, <2>2, GivenStays DEF IInv, TypeOK, given
    <2>4. SettingsInv'
      BY <2>1, GivenStays DEF IInv, SettingsInv, given
    <2>5. RefusalInv'
      <3>1. \A n \in 1 .. i - 1 : FileIsRight(n)
        BY <2>1 DEF IInv, RefusalInv
      <3>2. (args[i].key = "config" /\ files[args[i].value] # Missing)'
        BY <1>3, <2>1 DEF OpenFile, given
      <3> QED BY <2>1, <3>1, <3>2, GivenStays DEF RefusalInv
    <2> QED BY <2>3, <2>4, <2>5 DEF IInv
  <1> QED BY <1>2, <1>3

(* A setting is taken: the key gets the value, the others keep theirs. *)
LEMMA TakeEffect ==
  ASSUME TypeOK, NEW s, s.key \in Key(program), Take(s)
  PROVE  \/ /\ Readable(s) /\ UNCHANGED pc
            /\ DOMAIN cfg' = DOMAIN cfg
            /\ cfg'[s.key] = s.value
            /\ \A key \in Key(program) : key # s.key => cfg'[key] = cfg[key]
         \/ ~Readable(s) /\ pc' = "throws" /\ UNCHANGED cfg
  BY DEF Take, Assign, TypeOK

LEMMA ReadLineStep ==
  ASSUME IInv, ReadLine
  PROVE  IInv'
  <1> DEFINE s == Lines(i)[j]
  <1>1. /\ i \in 1 .. Len(args) /\ Len(args) \in Nat
        /\ j \in 1 .. Len(Lines(i)) /\ Len(Lines(i)) \in Nat
        /\ pc = "lines" /\ j' = j + 1 /\ UNCHANGED <<given, i>>
    BY LinesType DEF ReadLine, IInv, TypeOK
  <1>2. /\ args[i].key = "config" /\ files[args[i].value] # Missing
        /\ \A n \in 1 .. i - 1 : FileIsRight(n)
        /\ \A m \in 1 .. j - 1 : LineIsRight(i, m)
        /\ \A key \in Key(program) : FromFiles(i, j, key, cfg[key])
    BY <1>1 DEF IInv, RefusalInv, SettingsInv
  <1>3. CASE pc' = "throws"
    <2>1. s.key \in FileKey[program] /\ ~Readable(s) /\ UNCHANGED cfg
      BY <1>1, <1>3 DEF ReadLine, Take
    <2>2. ~Acceptable
      BY <1>1, <1>2, <2>1 DEF Acceptable, FileIsRight, LineIsRight
    <2>3. TypeOK'
      BY <1>1, <1>3, <2>1 DEF IInv, TypeOK, given
    <2> QED BY <1>3, <2>2, <2>3, <1>1, GivenStays DEF IInv, SettingsInv, RefusalInv
  <1>4. CASE pc' # "throws"
    <2>1. /\ pc' = pc
          /\ DOMAIN cfg' = DOMAIN cfg
          /\ LineIsRight(i, j)
          /\ s.key \in FileKey[program] => cfg'[s.key] = s.value
          /\ \A key \in Key(program) :
               ~(key = s.key /\ key \in FileKey[program]) => cfg'[key] = cfg[key]
      <3>1. CASE s.key \in FileKey[program]
        <4>1. s.key \in Key(program) /\ Take(s)
          BY <3>1 DEF Key, ReadLine
        <4> HIDE DEF s
        <4>2. /\ Readable(s) /\ UNCHANGED pc
              /\ DOMAIN cfg' = DOMAIN cfg
              /\ cfg'[s.key] = s.value
              /\ \A key \in Key(program) : key # s.key => cfg'[key] = cfg[key]
          BY <1>4, <4>1, TakeEffect DEF IInv
        <4> USE DEF s
        <4> QED BY <3>1, <4>2 DEF LineIsRight
      <3>2. CASE s.key \notin FileKey[program]
        BY <3>2 DEF ReadLine, LineIsRight
      <3> QED BY <3>1, <3>2
    <2>2. TypeOK'
      <3>1. Lines(i)' = Lines(i)
        BY <1>1, GivenStays
      <3> QED BY <1>1, <2>1, <3>1 DEF IInv, TypeOK, given
    <2>3. ASSUME NEW key \in Key(program)
          PROVE  FromFiles(i, j + 1, key, cfg'[key])
      <3>1. CASE SetByLine(i, j, key)
        <4>1. cfg'[key] = Lines(i)[j].value
          BY <2>1, <3>1 DEF SetByLine
        <4> QED BY <1>1, <3>1, <4>1, LineSets DEF IInv
      <3>2. CASE ~SetByLine(i, j, key)
        <4>1. cfg'[key] = cfg[key]
          BY <1>1, <2>1, <3>2 DEF SetByLine
        <4> QED BY <1>1, <1>2, <3>2, <4>1, LinePasses DEF IInv
      <3> QED BY <3>1, <3>2
    <2>4. SettingsInv'
      BY <1>1, <2>1, <2>3, GivenStays DEF SettingsInv, given
    <2>5. \A m \in 1 .. j : LineIsRight(i, m)
      BY <1>1, <1>2, <2>1
    <2>6. RefusalInv'
      <3>1. (args[i].key = "config" /\ files[args[i].value] # Missing)'
        BY <1>1, <1>2 DEF given
      <3>2. j' - 1 = j
        BY <1>1
      <3> QED BY <1>1, <1>2, <2>1, <2>5, <3>1, <3>2, GivenStays DEF RefusalInv
    <2> QED BY <2>2, <2>4, <2>6 DEF IInv
  <1> QED BY <1>3, <1>4

LEMMA EndOfFileStep ==
  ASSUME IInv, EndOfFile
  PROVE  IInv'
  <1>1. /\ i \in 1 .. Len(args) /\ Len(args) \in Nat
        /\ Len(Lines(i)) \in Nat /\ j = Len(Lines(i)) + 1
        /\ pc = "lines" /\ pc' = "files" /\ i' = i + 1 /\ UNCHANGED <<given, cfg>>
    BY LinesType DEF EndOfFile, IInv, TypeOK
  <1>2. TypeOK'
    BY <1>1 DEF IInv, TypeOK, given
  <1>3. \A key \in Key(program) : FromFiles(i + 1, 1, key, cfg[key])
    BY <1>1, FileEnds DEF IInv, SettingsInv
  <1>4. SettingsInv'
    BY <1>1, <1>3, GivenStays DEF SettingsInv, given
  <1>5. FileIsRight(i)
    BY <1>1 DEF IInv, RefusalInv, FileIsRight
  <1>6. \A n \in 1 .. i : FileIsRight(n)
    BY <1>1, <1>5 DEF IInv, RefusalInv
  <1>7. RefusalInv'
    <2>1. i' - 1 = i
      BY <1>1
    <2> QED BY <1>1, <1>6, <2>1, GivenStays DEF RefusalInv
  <1> QED BY <1>2, <1>4, <1>7 DEF IInv

LEMMA FilesReadStep ==
  ASSUME IInv, FilesRead
  PROVE  IInv'
  <1>1. /\ i = Len(args) + 1 /\ Len(args) \in Nat
        /\ pc = "files" /\ pc' = "options" /\ i' = 1 /\ UNCHANGED <<given, j, cfg>>
    BY LinesType DEF FilesRead, IInv, TypeOK
  <1>2. TypeOK'
    BY <1>1 DEF IInv, TypeOK, given
  <1>3. \A key \in Key(program) : FromOptions(1, key, cfg[key])
    BY <1>1, NoOptionYet DEF IInv, SettingsInv
  <1>4. SettingsInv'
    BY <1>1, <1>3, GivenStays DEF SettingsInv, given
  <1>5. \A n \in 1 .. Len(args) : FileIsRight(n)
    BY <1>1 DEF IInv, RefusalInv
  <1>6. RefusalInv'
    BY <1>1, <1>5, GivenStays DEF RefusalInv, given
  <1> QED BY <1>2, <1>4, <1>6 DEF IInv

LEMMA ReadOptionStep ==
  ASSUME IInv, ReadOption
  PROVE  IInv'
  <1>1. /\ i \in 1 .. Len(args) /\ Len(args) \in Nat
        /\ pc = "options" /\ i' = i + 1 /\ UNCHANGED <<given, j>>
    BY LinesType DEF ReadOption, IInv, TypeOK
  <1>2. /\ \A n \in 1 .. Len(args) : FileIsRight(n)
        /\ \A n \in 1 .. i - 1 : ArgumentIsRight(n)
        /\ \A key \in Key(program) : FromOptions(i, key, cfg[key])
    BY <1>1 DEF IInv, RefusalInv, SettingsInv
  <1>3. "config" \notin Option[program]
    BY DEF IInv, TypeOK, Option
  <1>4. \/ /\ pc' = pc
           /\ DOMAIN cfg' = DOMAIN cfg
           /\ ArgumentIsRight(i)
           /\ args[i].key \in Option[program] => cfg'[args[i].key] = args[i].value
           /\ \A key \in Key(program) :
                ~(key = args[i].key /\ key \in Option[program]) => cfg'[key] = cfg[key]
        \/ /\ pc' \in {"-1", "throws"}
           /\ UNCHANGED cfg
           /\ ~ArgumentIsRight(i)
    <2>1. CASE args[i].key = "config"
      BY <1>3, <2>1 DEF ReadOption, ArgumentIsRight
    <2>2. CASE args[i].key \in Option[program]
      <3>1. args[i].key \in Key(program) /\ Take(args[i])
        BY <1>3, <2>2 DEF Key, ReadOption
      <3>2. \/ /\ Readable(args[i]) /\ UNCHANGED pc
               /\ DOMAIN cfg' = DOMAIN cfg
               /\ cfg'[args[i].key] = args[i].value
               /\ \A key \in Key(program) : key # args[i].key => cfg'[key] = cfg[key]
            \/ ~Readable(args[i]) /\ pc' = "throws" /\ UNCHANGED cfg
        BY <3>1, TakeEffect DEF IInv
      <3> QED BY <1>3, <2>2, <3>2 DEF ArgumentIsRight
    <2>3. CASE args[i].key \notin Option[program] \cup {"config"}
      BY <2>3 DEF ReadOption, ArgumentIsRight
    <2> QED BY <2>1, <2>2, <2>3
  <1>5. CASE pc' \in {"-1", "throws"}
    <2>1. ~ArgumentIsRight(i) /\ UNCHANGED cfg
      BY <1>1, <1>4, <1>5
    <2>2. ~Acceptable
      BY <1>1, <2>1 DEF Acceptable
    <2>3. TypeOK'
      BY <1>1, <1>5, <2>1 DEF IInv, TypeOK, given
    <2> QED BY <1>1, <1>5, <2>2, <2>3, GivenStays DEF IInv, SettingsInv, RefusalInv
  <1>6. CASE pc' = pc
    <2>1. /\ DOMAIN cfg' = DOMAIN cfg
          /\ ArgumentIsRight(i)
          /\ args[i].key \in Option[program] => cfg'[args[i].key] = args[i].value
          /\ \A key \in Key(program) :
               ~(key = args[i].key /\ key \in Option[program]) => cfg'[key] = cfg[key]
      BY <1>1, <1>4, <1>6
    <2>2. TypeOK'
      BY <1>1, <1>6, <2>1 DEF IInv, TypeOK, given
    <2>3. ASSUME NEW key \in Key(program)
          PROVE  FromOptions(i + 1, key, cfg'[key])
      <3>1. CASE SetByOption(i, key)
        <4>1. cfg'[key] = args[i].value
          BY <2>1, <3>1 DEF SetByOption
        <4> QED BY <1>1, <3>1, <4>1, OptionSets DEF IInv
      <3>2. CASE ~SetByOption(i, key)
        <4>1. cfg'[key] = cfg[key]
          BY <2>1, <3>2 DEF SetByOption
        <4> QED BY <1>1, <1>2, <3>2, <4>1, OptionPasses DEF IInv
      <3> QED BY <3>1, <3>2
    <2>4. SettingsInv'
      BY <1>1, <1>6, <2>3, GivenStays DEF SettingsInv, given
    <2>5. \A n \in 1 .. i : ArgumentIsRight(n)
      BY <1>1, <1>2, <2>1
    <2>6. RefusalInv'
      <3>1. i' - 1 = i /\ args' = args
        BY <1>1 DEF given
      <3> QED BY <1>1, <1>2, <1>6, <2>5, <3>1, GivenStays DEF RefusalInv
    <2> QED BY <2>2, <2>4, <2>6 DEF IInv
  <1> QED BY <1>4, <1>5, <1>6

LEMMA OptionsReadStep ==
  ASSUME IInv, OptionsRead
  PROVE  IInv'
  <1>1. /\ i = Len(args) + 1 /\ Len(args) \in Nat
        /\ pc = "options" /\ pc' = "make" /\ UNCHANGED <<given, i, j, cfg>>
    BY LinesType DEF OptionsRead, IInv, TypeOK
  <1>2. TypeOK'
    BY <1>1 DEF IInv, TypeOK, given
  <1>3. SettingsInv'
    BY <1>1, GivenStays DEF IInv, SettingsInv, given
  <1>4. Acceptable
    BY <1>1 DEF IInv, RefusalInv, Acceptable
  <1>5. RefusalInv'
    BY <1>1, <1>4, GivenStays DEF RefusalInv
  <1> QED BY <1>2, <1>3, <1>5 DEF IInv

LEMMA IInit == Init => IInv
  <1> SUFFICES ASSUME Init PROVE IInv
    OBVIOUS
  <1>1. args \in Seq(Argument) /\ Len(args) \in Nat
    <2> PICK n \in 0 .. MaxArguments : args \in [1 .. n -> Argument]
      BY DEF Init
    <2> QED BY DEF Init
  <1>2. TypeOK
    BY <1>1 DEF Init, TypeOK
  <1>3. SettingsInv
    BY <1>2, NoFileYet DEF Init, SettingsInv
  <1>4. RefusalInv
    BY DEF Init, RefusalInv
  <1> QED BY <1>2, <1>3, <1>4 DEF IInv

LEMMA INext == IInv /\ [Next]_vars => IInv'
  <1> SUFFICES ASSUME IInv, [Next]_vars PROVE IInv'
    OBVIOUS
  <1>1. CASE UNCHANGED vars
    <2>1. UNCHANGED <<given, pc, i, j, cfg>>
      BY <1>1 DEF vars
    <2>2. TypeOK'
      <3>1. Lines(i)' = Lines(i)
        BY <2>1, GivenStays
      <3> QED BY <2>1, <3>1 DEF IInv, TypeOK, given
    <2>3. SettingsInv'
      BY <2>1, GivenStays DEF IInv, SettingsInv, given
    <2>4. RefusalInv'
      BY <2>1, GivenStays DEF IInv, RefusalInv, given
    <2> QED BY <2>2, <2>3, <2>4 DEF IInv
  <1> QED
    BY <1>1, NotAFileStep, OpenFileStep, ReadLineStep, EndOfFileStep, FilesReadStep,
       ReadOptionStep, OptionsReadStep
    DEF Next

LEMMA Invariance == Spec => []IInv
  BY IInit, INext, PTL DEF Spec

(* The loops never leave the arguments, nor the lines of a file, and the   *)
(* settings have the keys of the program.                                  *)
THEOREM TypeCorrect == Spec => []TypeOK
  <1>1. IInv => TypeOK
    BY DEF IInv
  <1> QED BY <1>1, Invariance, PTL

(* The last argument that sets a key wins, then the last line of the last  *)
(* config file, then the default; and a program is refused its settings    *)
(* exactly if one of them is wrong (server_cli_entry.cpp:13-57,            *)
(* client_cli_entry.cpp:19-79).                                            *)
THEOREM CommandLineWinsCorrect == Spec => []CommandLineWins
  <1>1. IInv => CommandLineWins
    BY DEF IInv, SettingsInv, RefusalInv, CommandLineWins
  <1> QED BY <1>1, Invariance, PTL
=============================================================================
