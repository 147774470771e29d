--------------------------- MODULE Configuration ----------------------------
(***************************************************************************)
(* How server_main and client_main find their settings: the arguments are  *)
(* gone through twice, first for the config files, which are read line by  *)
(* line (generic_kv::load with the loaders of server::config and           *)
(* client::config), then for the others.  It ends before server::make and  *)
(* client::make, or in a refusal.                                          *)
(*                                                                         *)
(* A text is a value of a small set; Number are those that stoi or stoull  *)
(* can read, which throw for the others.  An argument is an option with    *)
(* its value, a line of a config file a key with its value; the key of a   *)
(* line without "=" is one that no program has.                            *)
(***************************************************************************)
EXTENDS Integers, Sequences

CONSTANTS
  Number,        \* the texts that are numbers
  Default,       \* the value of what is not set
  Missing,       \* stands for a file that cannot be opened
  Line,          \* the lines of config files
  Argument,      \* the arguments that are tried,
  MaxArguments,  \* so many of them at most (bound),
  File           \* with these contents of the config files

ASSUME ConfigurationAssumption ==
  /\ MaxArguments \in Nat
  /\ \A f \in File, a \in Argument :
       a.key = "config" => f[a.value] = Missing \/ f[a.value] \in Seq(Line)

VARIABLES
  program, files, args,   \* what it starts with; nothing changes it
  pc,                     \* the loop it is in, or how it ends
  i, j,                   \* the argument, and the line of its file
  cfg                     \* the settings so far, the variables of main included

given == <<program, files, args>>
vars  == <<given, pc, i, j, cfg>>

(* update_from_config *)
FileKey == [server |-> {"port", "root", "secret"},
            client |-> {"port", "ip", "root", "secret", "block_size",
                        "number_of_loaders", "blocks_in_batch"}]

(* What the second loop of the program knows, "--config=" apart. *)
Option == [server |-> {"port", "root", "secret", "timeout"},
           client |-> {"port", "ip", "root", "secret", "interactive", "sync"}]

Key(p) == FileKey[p] \cup Option[p]

(* to_generic_reader, and the options that are given to stoi *)
Numeric == {"block_size", "number_of_loaders", "blocks_in_batch", "timeout", "sync"}

Readable(s) ==
  s.key \in Numeric => s.value \in Number \/ (s.key = "sync" /\ s.value = "all")

(* The lines of the file that argument n names. *)
Lines(n) ==
  IF args[n].key = "config" /\ files[args[n].value] # Missing
  THEN files[args[n].value] ELSE <<>>

Init ==
  /\ program \in {"server", "client"}
  /\ files \in File
  /\ args \in UNION {[1..n -> Argument] : n \in 0..MaxArguments}
  /\ pc = "files" /\ i = 1 /\ j = 1
  /\ cfg = [key \in Key(program) |-> Default]

-----------------------------------------------------------------------------
(* Mutant: what is there already stays. *)
Emplace(key, value) ==
  cfg' = IF cfg[key] = Default THEN [cfg EXCEPT ![key] = value] ELSE cfg

Assign(key, value) == cfg' = [cfg EXCEPT ![key] = value]

(* read_string, read_path, read_uint64, or an assignment in main *)
Take(s) ==
  \/ /\ Readable(s)
     /\ Assign(s.key, s.value)
     /\ UNCHANGED pc
  \/ /\ ~Readable(s)
     /\ pc' = "throws"
     /\ UNCHANGED cfg

(* The first loop: an argument that names no file ... *)
NotAFile ==
  /\ pc = "files"
  /\ i <= Len(args)
  /\ args[i].key # "config"
  /\ i' = i + 1
  /\ UNCHANGED <<given, pc, j, cfg>>

(* ... or one that does. *)
OpenFile ==
  /\ pc = "files"
  /\ i <= Len(args)
  /\ args[i].key = "config"
  /\ pc' = IF files[args[i].value] = Missing THEN "-1" ELSE "lines"
  /\ j' = 1
  /\ UNCHANGED <<given, i, cfg>>

(* generic_kv::load, for a line.  Unknown keys are passed over. *)
ReadLine ==
  /\ pc = "lines"
  /\ j <= Len(Lines(i))
  /\ j' = j + 1
  /\ IF Lines(i)[j].key \in FileKey[program] THEN Take(Lines(i)[j])
     ELSE UNCHANGED <<pc, cfg>>
  /\ UNCHANGED <<given, i>>

EndOfFile ==
  /\ pc = "lines"
  /\ j > Len(Lines(i))
  /\ pc' = "files"
  /\ i' = i + 1
  /\ j' = 1
  /\ UNCHANGED <<given, cfg>>

FilesRead ==
  /\ pc = "files"
  /\ i > Len(args)
  /\ pc' = "options"
  /\ i' = 1
  /\ UNCHANGED <<given, j, cfg>>

(* The second loop, for an argument: unknown options are refused. *)
ReadOption ==
  /\ pc = "options"
  /\ i <= Len(args)
  /\ i' = i + 1
  /\ \/ /\ args[i].key = "config"
        /\ UNCHANGED <<pc, cfg>>
     \/ /\ args[i].key \in Option[program]
        /\ Take(args[i])
     \/ /\ args[i].key \notin Option[program] \cup {"config"}
        /\ pc' = "-1"
        /\ UNCHANGED cfg
  /\ UNCHANGED <<given, j>>

OptionsRead ==
  /\ pc = "options"
  /\ i > Len(args)
  /\ pc' = "make"
  /\ UNCHANGED <<given, i, j, cfg>>

Next ==
  \/ NotAFile \/ OpenFile \/ ReadLine \/ EndOfFile \/ FilesRead
  \/ ReadOption \/ OptionsRead

Spec == Init /\ [][Next]_vars

-----------------------------------------------------------------------------
TypeOK ==
  /\ program \in {"server", "client"}
  /\ files \in File
  /\ args \in Seq(Argument)
  /\ pc \in {"files", "lines", "options", "make", "-1", "throws"}
  /\ i \in 1 .. Len(args) + 1
  /\ pc = "lines" => i <= Len(args) /\ j \in 1 .. Len(Lines(i)) + 1
  /\ DOMAIN cfg = Key(program)

(* Where a key is set: by argument n, or by line m of the file that        *)
(* argument n names.                                                       *)
SetByOption(n, key) == args[n].key = key /\ key \in Option[program]
SetByLine(n, m, key) ==
  m \in 1 .. Len(Lines(n)) /\ Lines(n)[m].key = key /\ key \in FileKey[program]

(* A line stands before another one when its file is named earlier, or in  *)
(* the same file.                                                          *)
Before(n, m, n1, m1) == n < n1 \/ (n = n1 /\ m < m1)

(* Of the lines before line m1 of the file of argument n1, the last that   *)
(* sets the key sets it to v; or none sets it.                             *)
FromFiles(n1, m1, key, v) ==
  \/ \E n \in 1 .. Len(args) : \E m \in 1 .. Len(Lines(n)) :
       /\ SetByLine(n, m, key) /\ Before(n, m, n1, m1)
       /\ v = Lines(n)[m].value
       /\ \A k \in 1 .. Len(args) : \A l \in 1 .. Len(Lines(k)) :
            SetByLine(k, l, key) /\ Before(k, l, n1, m1) => ~Before(n, m, k, l)
  \/ /\ v = Default
     /\ \A k \in 1 .. Len(args) : \A l \in 1 .. Len(Lines(k)) :
          SetByLine(k, l, key) => ~Before(k, l, n1, m1)

(* The same for the options before argument n1, and all the files. *)
FromOptions(n1, key, v) ==
  \/ \E n \in 1 .. Len(args) :
       /\ SetByOption(n, key) /\ n < n1
       /\ v = args[n].value
       /\ \A k \in 1 .. Len(args) : SetByOption(k, key) /\ k < n1 => k <= n
  \/ /\ \A k \in 1 .. Len(args) : SetByOption(k, key) => k >= n1
     /\ FromFiles(Len(args) + 1, 1, key, v)

LineIsRight(n, m) == Lines(n)[m].key \in FileKey[program] => Readable(Lines(n)[m])
FileIsRight(n) ==
  args[n].key = "config" =>
    /\ files[args[n].value] # Missing
    /\ \A m \in 1 .. Len(Lines(n)) : LineIsRight(n, m)
ArgumentIsRight(n) ==
  /\ args[n].key \in Option[program] \cup {"config"}
  /\ args[n].key # "config" => Readable(args[n])

Acceptable == \A n \in 1 .. Len(args) : FileIsRight(n) /\ ArgumentIsRight(n)

(* What is given on the command line wins over every config file, wherever *)
(* its "--config=" stands among the arguments; of two files or of two      *)
(* arguments the later wins; nothing wrong anywhere goes unnoticed, and    *)
(* nothing right is refused (server_cli_entry.cpp:13-57,                   *)
(* client_cli_entry.cpp:19-79).                                            *)
CommandLineWins ==
  /\ pc = "make" =>
       /\ Acceptable
       /\ \A key \in Key(program) : FromOptions(Len(args) + 1, key, cfg[key])
  /\ pc \in {"-1", "throws"} => ~Acceptable
=============================================================================
