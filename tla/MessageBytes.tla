---------------------------- MODULE MessageBytes ----------------------------
(***************************************************************************)
(* The byte array format of core/src/message.c: what Message_ToByteArray   *)
(* writes and what Message_CreateFromByteArray accepts.                    *)
(*                                                                         *)
(* A text is a sequence of bytes other than 0.  The properties of a        *)
(* message are the entries of its map in the order they were added, with   *)
(* different keys.  Positions count from 0, as in the source.              *)
(***************************************************************************)
EXTENDS Integers, Sequences

FIRST_MESSAGE_BYTE == 161
SECOND_MESSAGE_BYTE == 96
MIN_MESSAGE_BUFFER_LENGTH == 14
INT32_MAX == 2147483647

Byte == 0 .. 255
Text == Seq(1 .. 255)
Value == [properties : Seq(Text \X Text), content : Seq(Byte)]
NoValue == [properties |-> <<>>, content |-> <<>>, failed |-> TRUE]

\* Four bytes, the most significant first.
Int32Bytes(n) ==
  << (n \div 16777216) % 256, (n \div 65536) % 256, (n \div 256) % 256, n % 256 >>

\* Mutant: the two middle bytes are read in the wrong order.
parse_int32_t_swapped(bytes, at) ==
  (((bytes[at + 1] + 128) % 256) - 128) * 16777216
    + bytes[at + 2] * 256 + bytes[at + 3] * 65536 + bytes[at + 4]
\* The signed number at a position with four bytes left.
parse_int32_t(bytes, at) ==
  (((bytes[at + 1] + 128) % 256) - 128) * 16777216
    + bytes[at + 2] * 65536 + bytes[at + 3] * 256 + bytes[at + 4]

----------------------------------------------------------------------------
(* Message_ToByteArray                                                     *)

EntryBytes(entry) == entry[1] \o <<0>> \o entry[2] \o <<0>>

PropertiesBytes(properties) ==
  LET upTo[i \in 0 .. Len(properties)] ==
        IF i = 0 THEN <<>> ELSE upTo[i - 1] \o EntryBytes(properties[i])
  IN  upTo[Len(properties)]

byteArraySize(value) ==
  2 + 4 + 4 + Len(PropertiesBytes(value.properties)) + 4 + Len(value.content)

Message_ToByteArray(value) ==
  << FIRST_MESSAGE_BYTE, SECOND_MESSAGE_BYTE >>
    \o Int32Bytes(byteArraySize(value))
    \o Int32Bytes(Len(value.properties))
    \o PropertiesBytes(value.properties)
    \o Int32Bytes(Len(value.content))
    \o value.content

----------------------------------------------------------------------------
(* Message_CreateFromByteArray                                             *)

\* The position of the 0 that ends the text at a position, Len(bytes) if none.
parse_null_terminated_const_char(bytes, at) ==
  LET ends == {i \in at .. Len(bytes) - 1 : bytes[i + 1] = 0}
  IN  IF ends = {} THEN Len(bytes) ELSE CHOOSE i \in ends : \A j \in ends : i <= j

Keys(properties) == {properties[i][1] : i \in 1 .. Len(properties)}

\* A map takes no key twice: <<>> tells of the failure, no map is empty then.
Map_Add(properties, key, value) ==
  IF key \in Keys(properties) THEN <<>> ELSE Append(properties, <<key, value>>)

\* One turn of the loop over the properties.
AddProperty(bytes, s) ==
  LET keyEnd == parse_null_terminated_const_char(bytes, s.at)
      valueEnd == parse_null_terminated_const_char(bytes, keyEnd + 1)
      added == Map_Add(s.properties, SubSeq(bytes, s.at + 1, keyEnd),
                       SubSeq(bytes, keyEnd + 2, valueEnd))
  IN  IF s.broken \/ keyEnd = Len(bytes) \/ valueEnd = Len(bytes) \/ added = <<>>
      THEN [s EXCEPT !.broken = TRUE]
      ELSE [at |-> valueEnd + 1, properties |-> added, broken |-> FALSE]

\* The loop; with more turns than bytes it has broken off before.
ParsedProperties(bytes, count) ==
  LET turns == IF count <= Len(bytes) THEN count ELSE Len(bytes)
      after[i \in 0 .. turns] ==
        IF i = 0 THEN [at |-> 10, properties |-> <<>>, broken |-> FALSE]
                 ELSE AddProperty(bytes, after[i - 1])
  IN  after[turns]

ContentFits(bytes, at) == at + 4 <= Len(bytes) /\ parse_int32_t(bytes, at) = Len(bytes) - (at + 4)

Header(bytes) ==
  /\ Len(bytes) >= MIN_MESSAGE_BUFFER_LENGTH
  /\ bytes[1] = FIRST_MESSAGE_BYTE /\ bytes[2] = SECOND_MESSAGE_BYTE
  /\ parse_int32_t(bytes, 2) = Len(bytes)

Message_CreateFromByteArray(bytes) ==
  IF ~Header(bytes) THEN NoValue
  ELSE LET count == parse_int32_t(bytes, 6)
           s == ParsedProperties(bytes, count)
       IN  IF count < 0 \/ count = INT32_MAX \/ s.broken \/ ~ContentFits(bytes, s.at)
           THEN NoValue
           ELSE [properties |-> s.properties,
                 content |-> SubSeq(bytes, s.at + 5, Len(bytes))]
=============================================================================
