------------------------------- MODULE ByteOrder -------------------------------
(***************************************************************************)
(* The byte order conversions of utility/binaryConverter.h: the renderer   *)
(* and the test client decode particle ids and coordinates with            *)
(* fromBytes(.., true).  converter<T> keeps one union "c" for all calls;   *)
(* reverse() works on it in place.                                         *)
(*                                                                         *)
(* A value of T is the sequence of its bytes in the machine's memory,      *)
(* least significant byte first on the machines this program is built for. *)
(***************************************************************************)
EXTENDS Integers, Sequences

CONSTANTS Size,      \* sizeof(T)
          Byte       \* the values of a byte

ASSUME ByteOrderAssumption == Size \in Nat \ {0} /\ Byte # {}

Value == [1..Size -> Byte]

VARIABLES pc,        \* "idle", or the loop that runs
          i,         \* the loop's index
          c,         \* the union's bytes; c[k] is c.bytes[k - 1]
          input,     \* the bytes or the value the call was given
          order,     \* its argument "endianness"
          result     \* what the last call returned

vars == <<pc, i, c, input, order, result>>

Init ==
  /\ pc = "idle" /\ i = 0
  /\ c \in Value          \* not initialised
  /\ input = c /\ order = FALSE /\ result = c

\* The call of fromBytes() with some bytes.
CallFromBytes ==
  /\ pc = "idle" /\ pc' = "from"
  /\ input' \in Value /\ order' \in BOOLEAN
  /\ i' = 0
  /\ UNCHANGED <<c, result>>

\* Mutant: the index of the mirrored byte is off by one.
CopyByte_OffByOne ==
  /\ pc = "from" /\ i < Size
  /\ c' = IF order THEN [c EXCEPT ![IF i = 0 THEN Size ELSE Size - i + 1] = input[i + 1]]
                   ELSE [c EXCEPT ![i + 1] = input[i + 1]]
  /\ i' = i + 1
  /\ UNCHANGED <<pc, input, order, result>>

\* Mutant: the bytes are added to what an earlier call has left.
CopyByte_Appends ==
  /\ pc = "from" /\ i < Size
  /\ c' = IF order THEN <<input[i + 1]>> \o c ELSE Append(c, input[i + 1])
  /\ i' = i + 1
  /\ UNCHANGED <<pc, input, order, result>>

\* One turn of either of its loops.
CopyByte ==
  /\ pc = "from" /\ i < Size
  /\ c' = IF order THEN [c EXCEPT ![Size - i] = input[i + 1]]
                   ELSE [c EXCEPT ![i + 1] = input[i + 1]]
  /\ i' = i + 1
  /\ UNCHANGED <<pc, input, order, result>>

\* The call of toBytes() with some value; reverse() only for endianness.
CallToBytes ==
  /\ pc = "idle"
  /\ input' \in Value /\ order' \in BOOLEAN
  /\ c' = input'
  /\ i' = 0
  /\ pc' = IF order' THEN "reverse" ELSE "return"
  /\ UNCHANGED result

\* Mutant: the loop runs over all bytes and swaps each pair twice.
SwapBytes_AllBytes ==
  /\ pc = "reverse" /\ i < Size
  /\ c' = [c EXCEPT ![i + 1] = c[Size - i], ![Size - i] = c[i + 1]]
  /\ i' = i + 1
  /\ UNCHANGED <<pc, input, order, result>>

\* One turn of the loop in reverse().
SwapBytes ==
  /\ pc = "reverse" /\ i < Size \div 2
  /\ c' = [c EXCEPT ![i + 1] = c[Size - i], ![Size - i] = c[i + 1]]
  /\ i' = i + 1
  /\ UNCHANGED <<pc, input, order, result>>

Return ==
  /\ \/ pc = "from" /\ i = Size
     \/ pc = "reverse" /\ i >= Size \div 2
     \/ pc = "return"
  /\ pc' = "idle"
  /\ result' = c
  /\ UNCHANGED <<i, c, input, order>>

Next == CallFromBytes \/ CopyByte \/ CallToBytes \/ SwapBytes \/ Return

Spec == Init /\ [][Next]_vars

-------------------------------------------------------------------------------
Mirror(v) == [k \in 1..Size |-> v[Size + 1 - k]]

TypeOK ==
  /\ pc \in {"idle", "from", "reverse", "return"}
  /\ i \in 0..Size
  /\ c \in Value /\ input \in Value /\ result \in Value
  /\ order \in BOOLEAN

\* Both directions convert alike: the result is the input, mirrored if the
\* caller asked for the other byte order, whatever an earlier call has left
\* in the union.  So toBytes(fromBytes(b, e), e) is b.
Converts == [][pc # "idle" /\ pc' = "idle" =>
                 result' = IF order THEN Mirror(input) ELSE input]_vars
===============================================================================
