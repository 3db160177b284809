----------------------------- MODULE MCMessage -----------------------------
(* Model checking of Message.                                                *)
EXTENDS Message, TLC

A == <<97>>
B == <<98, 255>>

\* A property with an empty value and a short content; no property and a
\* content whose size does not fit a byte.
SomeConfigs ==
  { [properties |-> <<<<B, <<>>>>>>, content |-> <<0>>],
    [properties |-> <<>>, content |-> [i \in 1 .. 300 |-> i % 256]] }

Serialized(properties, content) ==
  Message_ToByteArray([properties |-> properties, content |-> content])
Short == { Serialized(<<>>, <<>>), Serialized(<<<<A, <<>>>>, <<B, A>>>>, <<0, 161>>) }
\* Bytes before the content, which decide where texts end and what is read next.
Structure(s) == 1 .. (IF Len(s) = 14 THEN 14 ELSE Len(s) - 2)
Odd == {0, 1, 3, 128, 255}

\* Arrays with one byte changed, cut off or extended; a key met twice.
SomeForeign ==
  Short \cup UNION {
    {[s EXCEPT ![i] = v] : i \in Structure(s), v \in Odd}
      \cup {SubSeq(s, 1, n) : n \in 1 .. Len(s) - 1}
      \cup {[SubSeq(s, 1, n) EXCEPT ![6] = n] : n \in 6 .. Len(s) - 1}
      \cup {[Append(s, 0) EXCEPT ![6] = @ + 1]} : s \in Short}
  \cup {Serialized(<<<<A, B>>, <<A, B>>>>, <<1>>)}

MCSymmetry == Permutations(Owners) \cup Permutations(Messages)
                \cup Permutations(Maps) \cup Permutations(Buffers)
=============================================================================
