--------------------------- MODULE ByteOrder_proofs ---------------------------
(***************************************************************************)
(* The conversions of ByteOrder are right for every size of value and      *)
(* every set of byte values.  The invariant says how far each loop has     *)
(* come: which bytes of the union are final and which are as they were.    *)
(***************************************************************************)
EXTENDS ByteOrder, TLAPS

\* Where fromBytes() puts byte k of its argument.
Target(k) == IF order THEN Size + 1 - k ELSE k

\* fromBytes(): the first i bytes are in place.
FromInv == pc = "from" => \A k \in 1..i : c[Target(k)] = input[k]

\* reverse(): the outer i bytes on either side are swapped, the others are
\* as they were.
Swapped(k) == k <= i \/ k > Size - i
ReverseInv ==
  pc = "reverse" =>
    /\ order /\ i <= Size \div 2
    /\ \A k \in 1..Size : c[k] = input[IF Swapped(k) THEN Size + 1 - k ELSE k]

ReturnInv == pc = "return" => ~order /\ c = input

Inv == TypeOK /\ FromInv /\ ReverseInv /\ ReturnInv

\* Half of a size, for the provers.
LEMMA Half == /\ Size \div 2 \in 0..Size
              /\ 2 * (Size \div 2) <= Size
              /\ Size <= 2 * (Size \div 2) + 1
BY ByteOrderAssumption

\* The loop invariants hold before the first call.
LEMMA InitInv == Init => Inv
<1> SUFFICES ASSUME Init PROVE Inv
  OBVIOUS
<1>1. i \in 0..Size
  BY ByteOrderAssumption DEF Init
<1>2. /\ pc \in {"idle", "from", "reverse", "return"}
      /\ c \in Value /\ input \in Value /\ result \in Value
      /\ order \in BOOLEAN
  BY Zenon DEF Init
<1>3. TypeOK
  BY <1>1, <1>2 DEF TypeOK
<1> QED
  BY <1>3 DEF Init, Inv, FromInv, ReverseInv, ReturnInv

\* One turn of a loop of fromBytes() puts one more byte in place.
LEMMA CopyInv == Inv /\ CopyByte => Inv'
<1> SUFFICES ASSUME Inv, CopyByte PROVE Inv'
  OBVIOUS
<1> USE ByteOrderAssumption
<1> DEFINE t == IF order THEN Size - i ELSE i + 1
<1>1. /\ pc = "from" /\ pc' = "from" /\ i \in 0..(Size - 1) /\ i' = i + 1
      /\ t \in 1..Size /\ t = Target(i + 1)
      /\ input \in Value /\ c \in Value /\ input[i + 1] \in Byte
  BY DEF Inv, TypeOK, CopyByte, Target, Value
<1>2. c' = [c EXCEPT ![t] = input[i + 1]]
  BY <1>1 DEF CopyByte
<1>3. TypeOK'
  BY <1>1, <1>2 DEF Inv, TypeOK, CopyByte, Value
<1>4. FromInv'
  <2> SUFFICES ASSUME NEW k \in 1..(i + 1)
               PROVE  c'[Target(k)'] = input'[k]
    BY <1>1 DEF FromInv
  <2>1. Target(k)' = Target(k) /\ input' = input /\ Target(k) \in 1..Size
    BY <1>1 DEF CopyByte, Target
  <2>2. CASE k = i + 1
    BY <1>1, <1>2, <2>1, <2>2 DEF Value
  <2>3. CASE k \in 1..i
    <3>1. Target(k) # t /\ c[Target(k)] = input[k]
      BY <1>1, <2>3 DEF Inv, FromInv, Target
    <3> QED
      BY <1>1, <1>2, <2>1, <3>1 DEF Value
  <2> QED
    BY <1>1, <2>2, <2>3
<1> QED
  BY <1>1, <1>3, <1>4 DEF Inv, ReverseInv, ReturnInv

\* One turn of the loop of reverse() swaps one more pair.
LEMMA SwapInv == Inv /\ SwapBytes => Inv'
<1> SUFFICES ASSUME Inv, SwapBytes PROVE Inv'
  OBVIOUS
<1> USE ByteOrderAssumption
<1>1. /\ pc = "reverse" /\ pc' = "reverse" /\ order' = order /\ input' = input
      /\ i \in 0..Size /\ i < Size \div 2 /\ i' = i + 1
      /\ i + 1 \in 1..Size /\ Size - i \in 1..Size /\ i + 1 # Size - i
      /\ i + 1 <= Size \div 2
      /\ c \in Value /\ input \in Value
  BY Half DEF Inv, TypeOK, SwapBytes
<1>2. c' = [c EXCEPT ![i + 1] = c[Size - i], ![Size - i] = c[i + 1]]
  BY DEF SwapBytes
<1>3. c' \in Value /\ c'[i + 1] = c[Size - i] /\ c'[Size - i] = c[i + 1]
      /\ \A k \in 1..Size : k # i + 1 /\ k # Size - i => c'[k] = c[k]
  BY <1>1, <1>2 DEF Value
<1>4. TypeOK'
  BY <1>1, <1>3, Half DEF Inv, TypeOK, SwapBytes
<1>5. ASSUME NEW k \in 1..Size
      PROVE  c'[k] = input'[IF Swapped(k)' THEN Size + 1 - k ELSE k]
  <2>1. \A n \in 1..Size :
          c[n] = input[IF Swapped(n) THEN Size + 1 - n ELSE n]
    BY <1>1 DEF Inv, ReverseInv
  <2>2. CASE k = i + 1
    <3>1. ~Swapped(Size - i) /\ Swapped(k)'
      BY <1>1, <2>2, Half DEF Swapped
    <3>2. c'[k] = input[Size - i]
      BY <1>1, <1>3, <2>1, <2>2, <3>1
    <3> QED
      BY <1>1, <2>2, <3>1, <3>2
  <2>3. CASE k = Size - i
    <3>1. ~Swapped(i + 1) /\ Swapped(k)'
      BY <1>1, <2>3, Half DEF Swapped
    <3>2. c'[k] = input[i + 1] /\ Size + 1 - k = i + 1
      BY <1>1, <1>3, <2>1, <2>3, <3>1
    <3> QED
      BY <1>1, <3>1, <3>2
  <2>4. CASE k # i + 1 /\ k # Size - i
    <3>1. Swapped(k)' <=> Swapped(k)
      BY <1>1, <2>4 DEF Swapped
    <3> QED
      BY <1>1, <1>3, <2>1, <2>4, <3>1
  <2> QED
    BY <2>2, <2>3, <2>4
<1>6. ReverseInv'
  BY <1>1, <1>5 DEF Inv, ReverseInv
<1> QED
  BY <1>1, <1>4, <1>6 DEF Inv, FromInv, ReturnInv

\* Every loop turn preserves the loop invariants.
LEMMA StepInv == Inv /\ [Next]_vars => Inv'
<1> SUFFICES ASSUME Inv, [Next]_vars PROVE Inv'
  OBVIOUS
<1> USE ByteOrderAssumption
<1>1. CASE CallFromBytes
  BY <1>1 DEF CallFromBytes, Inv, TypeOK, FromInv, ReverseInv, ReturnInv
<1>2. CASE CopyByte
  BY <1>2, CopyInv
<1>3. CASE CallToBytes
  <2>1. /\ i' = 0 /\ input' \in Value /\ order' \in BOOLEAN /\ c' = input'
        /\ pc' = IF order' THEN "reverse" ELSE "return"
        /\ result' = result
    BY <1>3 DEF CallToBytes
  <2>2. TypeOK'
    BY <2>1 DEF Inv, TypeOK
  <2>3. ReverseInv'
    <3>1. \A k \in 1..Size : ~Swapped(k)'
      BY <2>1 DEF Swapped
    <3> QED
      BY <2>1, <3>1, Half DEF ReverseInv
  <2> QED
    BY <2>1, <2>2, <2>3 DEF Inv, FromInv, ReturnInv
<1>4. CASE SwapBytes
  BY <1>4, SwapInv
<1>5. CASE Return
  BY <1>5 DEF Return, Inv, TypeOK, FromInv, ReverseInv, ReturnInv
<1>6. CASE UNCHANGED vars
  BY <1>6 DEF vars, Inv, TypeOK, FromInv, ReverseInv, ReturnInv, Target, Swapped
<1> QED
  BY <1>1, <1>2, <1>3, <1>4, <1>5, <1>6 DEF Next

\* The loop invariants hold in every reachable state.
LEMMA Invariance == Spec => []Inv
<1>1. Inv /\ [Next]_vars => Inv'
  BY StepInv
<1> QED
  BY InitInv, <1>1, PTL DEF Spec

\* The index stays within the value and the union is always a value of T, for
\* fromBytes() (17-29), toBytes() (31-36) and reverse() (38-46).
THEOREM TypeCorrect == Spec => []TypeOK
<1>1. Inv => TypeOK
  BY DEF Inv
<1> QED
  BY Invariance, <1>1, PTL

\* What a call returns is its argument, or its argument mirrored if the other
\* byte order was asked for: for every size, odd or even, and whatever an
\* earlier call has left in the union.
THEOREM Conversion == Spec => Converts
<1> USE ByteOrderAssumption
<1>1. Inv /\ [Next]_vars =>
        [pc # "idle" /\ pc' = "idle" =>
           result' = IF order THEN Mirror(input) ELSE input]_vars
  <2> SUFFICES ASSUME Inv, Next, pc # "idle", pc' = "idle"
               PROVE  result' = IF order THEN Mirror(input) ELSE input
    OBVIOUS
  <2>1. Return
    BY DEF Next, CallFromBytes, CopyByte, CallToBytes, SwapBytes
  <2>2. /\ result' = c /\ c \in Value /\ input \in Value /\ order \in BOOLEAN
        /\ i \in 0..Size
    BY <2>1 DEF Return, Inv, TypeOK
  <2>3. CASE pc = "from"
    <3>1. \A k \in 1..Size : c[Target(k)] = input[k]
      BY <2>1, <2>3 DEF Return, Inv, FromInv
    <3>2. CASE order
      <4>1. ASSUME NEW k \in 1..Size PROVE c[k] = input[Size + 1 - k]
        <5>1. Size + 1 - k \in 1..Size /\ Target(Size + 1 - k) = k
          BY <3>2 DEF Target
        <5> QED
          BY <3>1, <5>1
      <4> QED
        BY <2>2, <3>2, <4>1 DEF Mirror, Value
    <3>3. CASE ~order
      BY <2>2, <3>1, <3>3 DEF Target, Value
    <3> QED
      BY <3>2, <3>3
  <2>4. CASE pc = "reverse"
    <3>1. order /\ i = Size \div 2
      BY <2>1, <2>2, <2>4, Half DEF Return, Inv, ReverseInv
    <3>2. ASSUME NEW k \in 1..Size PROVE c[k] = input[Size + 1 - k]
      <4>1. c[k] = input[IF Swapped(k) THEN Size + 1 - k ELSE k]
        BY <2>4 DEF Inv, ReverseInv
      <4>2. ~Swapped(k) => Size + 1 - k = k
        BY <2>2, <3>1, Half DEF Swapped
      <4> QED
        BY <4>1, <4>2
    <3> QED
      BY <2>2, <3>1, <3>2 DEF Mirror, Value
  <2>5. CASE pc = "return"
    BY <2>2, <2>5 DEF Inv, ReturnInv
  <2> QED
    BY <2>1, <2>3, <2>4, <2>5 DEF Return
<1> QED
  BY Invariance, <1>1, PTL DEF Spec, Converts
===============================================================================
