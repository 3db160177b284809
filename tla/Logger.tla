------------------------------- MODULE Logger -------------------------------
(***************************************************************************)
(* modules/logger/src/logger.c: a file that is to hold one JSON array.     *)
(*                                                                         *)
(* Every object is written over the last character of the file, which is   *)
(* to be "]", together with a new "]".  What fprintf is given lies in the  *)
(* buffer of the C library, which writes out what it cannot hold, and the  *)
(* rest at the next fseek or fclose: a process that is killed, and a call  *)
(* that fails, leaves a part of it in the file.                            *)
(*                                                                         *)
(* An object is two tokens: "end" is its last character, "begin" stands    *)
(* for its other characters or the first few of them.                      *)
(***************************************************************************)
EXTENDS Sequences, SequencesExt, Integers

VARIABLES
  file,         \* the file as the last fseek or fclose left it: its tokens
                \* and its scars, see LogKeepsShape
  buffer,       \* tokens given to fprintf since, over the last character
  fout          \* the module has the file open

loggerVars == <<file, buffer, fout>>

Brackets == <<"open", "close">>
Absolute == <<"begin", "end", "close">>    \* the first object of a file
Further == <<"comma", "begin", "end", "close">>
NewFile == [tokens |-> <<>>, scars |-> {}]

LoggerInit == file = NewFile /\ buffer = <<>> /\ fout = FALSE

\* What is left of a file when its last character is written over.
\* Mutant: fseek goes to the end.
Overwritten_kept(s) == {s}
Overwritten(s) == {Front(s)} \cup (IF Last(s) = "begin" THEN {s} ELSE {})

\* The file after tokens p were written out: a scar where they break off.
WrittenOut(f, p) ==
  IF p = <<>> THEN {f}
  ELSE {[tokens |-> s \o p,
         scars |-> IF Last(p) = "close" THEN f.scars ELSE f.scars \cup {Len(s \o p)}]
          : s \in Overwritten(f.tokens)}
PartWrittenOut(f, b) == UNION {WrittenOut(f, p) : p \in Prefixes(b)}

(* The file and the buffer after addJSONString.  fseek writes the buffer   *)
(* out; when that fails in the middle, the C library drops the rest, and   *)
(* nothing is added.  fprintf may fail in the middle of the text.          *)
addJSONString(f, b, text, canFail) ==
  (WrittenOut(f, b) \X (IF canFail THEN Prefixes(text) ELSE {text}))
  \cup (IF canFail THEN PartWrittenOut(f, b) \X {<<>>} ELSE {})

(* Logger_Create.  An empty file gets "[]" and its first object; a file    *)
(* with content is taken to be an array with an object.  A file that       *)
(* cannot be opened for update is created, which truncates it if it        *)
(* exists.  A file with content is logged to although the object could not *)
(* be added.                                                               *)
Logger_Create(canFail) ==
  /\ ~fout /\ fout' = TRUE
  /\ \/ /\ file.tokens = <<>> \/ canFail
        /\ file' = [NewFile EXCEPT !.tokens = Brackets] /\ buffer' = Absolute
     \/ /\ file.tokens # <<>>
        /\ \E r \in addJSONString(file, <<>>, Further, canFail) : file' = r[1] /\ buffer' = r[2]

\* The file cannot be opened or has no end that can be found, or it is new
\* and could not be given "[]" or its first object.
CreateFails ==
  /\ ~fout
  /\ \/ UNCHANGED file
     \/ file' = NewFile \/ file' = [tokens |-> <<"open">>, scars |-> {1}]
     \/ \E p \in Prefixes(Absolute) \ {Absolute} :
          file' \in WrittenOut([NewFile EXCEPT !.tokens = Brackets], p)
  /\ UNCHANGED <<buffer, fout>>

\* Whatever fails before addJSONString leaves the file alone.
Logger_Receive(canFail) ==
  /\ fout
  /\ \/ canFail /\ UNCHANGED <<file, buffer>>
     \/ \E r \in addJSONString(file, buffer, Further, canFail) : file' = r[1] /\ buffer' = r[2]
  /\ UNCHANGED fout

\* Logger_Destroy adds the last object and closes the file.
Logger_Destroy(canFail) ==
  /\ fout
  /\ \E r \in addJSONString(file, buffer, Further, canFail) :
       file' \in IF canFail THEN PartWrittenOut(r[1], r[2]) ELSE WrittenOut(r[1], r[2])
  /\ buffer' = <<>> /\ fout' = FALSE

\* The process is killed.
LoggerKilled == file' \in PartWrittenOut(file, buffer) /\ buffer' = <<>> /\ fout' = FALSE

----------------------------------------------------------------------------
\* What follows what in a JSON array of objects or an empty file, for a
\* reader that does not mind a comma before the first object.
Follows ==
  { <<"start", "eof">>, <<"start", "open">>, <<"open", "close">>, <<"open", "begin">>,
    <<"open", "comma">>, <<"begin", "end">>, <<"end", "comma">>, <<"comma", "begin">>,
    <<"end", "close">>, <<"close", "eof">> }
TokenAt(s, i) == IF i = 0 THEN "start" ELSE IF i = Len(s) + 1 THEN "eof" ELSE s[i]

(* The file is the array it is to be, except where writing broke off: a    *)
(* kill or a failing call leaves a scar, a length of the file at which it  *)
(* does not end as it should, and the next object goes over the character  *)
(* before it.  Whatever the module does around a scar, once or again, the  *)
(* objects before and after it are whole and apart.                        *)
LogKeepsShape ==
  \A i \in 0..Len(file.tokens) :
    \/ <<TokenAt(file.tokens, i), TokenAt(file.tokens, i + 1)>> \in Follows
    \/ \E scar \in file.scars : i \in {scar - 1, scar}
=============================================================================
