--------------------------- MODULE MCConfiguration --------------------------
(***************************************************************************)
(* Both programs, with up to three arguments and two config files.         *)
(***************************************************************************)
EXTENDS Configuration

Set(key, value) == [key |-> key, value |-> value]

MCArgument ==
  {Set("config", "f"), Set("config", "g"), Set("port", "1"), Set("port", "word"),
   Set("sync", "all"), Set("timeout", "word")}

MCLine ==
  {Set("port", "1"), Set("port", "2"), Set("block_size", "2"), Set("block_size", "word"),
   Set("no key", "1")}

(* The files f and g: up to two lines, one line. *)
MCFile ==
  [f : {Missing, <<>>} \cup [1..1 -> MCLine] \cup [1..2 -> MCLine],
   g : {Missing} \cup {<<Set("port", "2")>>}]
=============================================================================
