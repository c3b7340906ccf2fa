---------------------------- MODULE CountJob_proofs ---------------------------
(***************************************************************************)
(* Proofs about CountJob for every table, every division of it into        *)
(* regions, and any number of rows put and regions split during the job.   *)
(***************************************************************************)
EXTENDS CountJob, FiniteSetTheorems, FunctionTheorems, TLAPS

-------------------------------------------------------------------------------
(* Numbers.                                                                  *)

\* A set of natural numbers has a least element.
LEMMA LeastElement ==
  ASSUME NEW S, S \subseteq Nat, S # {}
  PROVE  \E x \in S : \A y \in S : x <= y
<1> DEFINE R == OpToRel(<, Nat)
<1>1. IsWellFoundedOn(R, Nat)
  BY NatLessThanWellFounded
<1>2. \A x, y \in Nat : <<x, y>> \in R <=> x < y
  BY DEF OpToRel
<1> HIDE DEF R
<1>3. PICK x \in S : \A y \in S : ~(<<y, x>> \in R)
  BY <1>1, WFMin
<1>4. ASSUME NEW y \in S PROVE x <= y
  <2>1. x \in Nat /\ y \in Nat /\ ~(y < x)
    BY <1>2, <1>3
  <2> QED
    BY <2>1
<1> QED
  BY <1>4

\* Min and Max of FiniteSetsExt, for keys.
LEMMA MinOfKeys ==
  ASSUME NEW S, S \subseteq Keys, S # {}
  PROVE  Min(S) \in S /\ \A y \in S : Min(S) <= y
<1>1. S \subseteq Nat
  BY CountJobAssumption DEF Keys
<1>2. \E x \in S : \A y \in S : x <= y
  BY <1>1, LeastElement
<1> QED
  BY <1>2 DEF Min

LEMMA MaxOfKeys ==
  ASSUME NEW S, S \subseteq Keys, S # {}
  PROVE  Max(S) \in S /\ \A y \in S : y <= Max(S)
<1> DEFINE T == {LastKey - s : s \in S}
<1>1. LastKey \in Nat /\ \A s \in S : s \in Int /\ LastKey - s \in Nat
  BY CountJobAssumption DEF Keys
<1>2. T \subseteq Nat /\ T # {}
  BY <1>1
<1>3. PICK t \in T : \A y \in T : t <= y
  <2> HIDE DEF T
  <2> QED
    BY <1>2, LeastElement
<1>4. PICK x \in S : t = LastKey - x
  OBVIOUS
<1>5. ASSUME NEW y \in S PROVE x >= y
  <2>1. LastKey - x <= LastKey - y
    BY <1>3, <1>4
  <2> QED
    BY <1>1, <2>1
<1>6. \E z \in S : \A y \in S : z >= y
  BY <1>5
<1>7. Max(S) \in S /\ \A y \in S : Max(S) >= y
  BY <1>6 DEF Max
<1> QED
  BY <1>1, <1>7

-------------------------------------------------------------------------------
(* Sums.  The sum of the numbers n[r], r in R, is the number of pairs of r   *)
(* and one of 1..n[r].                                                       *)

Pairs(R, n) == UNION {{r} \X (1..n[r]) : r \in R}

\* A number of things that are fewer than the elements of T can be laid on T.
LEMMA FitsInto ==
  ASSUME NEW T, IsFiniteSet(T), NEW n \in Nat, n <= Cardinality(T)
  PROVE  \E f \in [1..n -> T] : \A i, j \in 1..n : f[i] = f[j] => i = j
<1>1. Cardinality(T) \in Nat /\ ExistsBijection(1..Cardinality(T), T)
  BY FS_CardinalityType
<1>2. PICK b : b \in Bijection(1..Cardinality(T), T)
  BY <1>1 DEF ExistsBijection
<1>3. /\ b \in [1..Cardinality(T) -> T]
      /\ \A i, j \in 1..Cardinality(T) : b[i] = b[j] => i = j
  BY <1>2, Fun_BijectionProperties
<1>4. \A i \in 1..n : i \in 1..Cardinality(T)
  BY <1>1
<1> DEFINE f == [i \in 1..n |-> b[i]]
<1>5. f \in [1..n -> T] /\ \A i, j \in 1..n : f[i] = f[j] => i = j
  BY <1>3, <1>4
<1> QED
  BY <1>5

\* The elements of T can be numbered with n numbers if they are not more.
LEMMA NumberedBy ==
  ASSUME NEW T, IsFiniteSet(T), NEW n \in Nat, Cardinality(T) <= n
  PROVE  \E f \in [T -> 1..n] : \A x, y \in T : f[x] = f[y] => x = y
<1>1. Cardinality(T) \in Nat /\ ExistsBijection(T, 1..Cardinality(T))
  BY FS_CardinalityType, Fun_ExistsBijSymmetric
<1>2. PICK b : b \in Bijection(T, 1..Cardinality(T))
  BY <1>1 DEF ExistsBijection
<1>3. /\ b \in [T -> 1..Cardinality(T)]
      /\ \A x, y \in T : b[x] = b[y] => x = y
  BY <1>2 DEF Bijection, Injection, IsInjective
<1>4. \A i \in 1..Cardinality(T) : i \in 1..n
  BY <1>1
<1>5. b \in [T -> 1..n]
  BY <1>3, <1>4
<1> QED
  BY <1>3, <1>5

\* If each number counts elements of a part of T and the parts are disjoint,
\* the sum is at most the size of T.
LEMMA SumAtMost ==
  ASSUME NEW T, IsFiniteSet(T), NEW R, NEW n \in [R -> Nat],
         NEW part \in [R -> SUBSET T],
         \A r \in R : n[r] <= Cardinality(part[r]),
         \A r, q \in R : r # q => part[r] \cap part[q] = {}
  PROVE  /\ IsFiniteSet(Pairs(R, n))
         /\ Cardinality(Pairs(R, n)) <= Cardinality(T)
<1> DEFINE Laid(r, f) == /\ f \in [1..n[r] -> part[r]]
                         /\ \A i, j \in 1..n[r] : f[i] = f[j] => i = j
           lay == [r \in R |-> CHOOSE f : Laid(r, f)]
           P == Pairs(R, n)
           g == [p \in P |-> lay[p[1]][p[2]]]
<1>1. ASSUME NEW r \in R PROVE Laid(r, lay[r])
  <2>1. IsFiniteSet(part[r])
    BY FS_Subset
  <2>2. \E f : Laid(r, f)
    BY <2>1, FitsInto
  <2> HIDE DEF Laid
  <2> QED
    BY <2>2
<1>2. ASSUME NEW p \in P
      PROVE  p[1] \in R /\ p[2] \in 1..n[p[1]] /\ p = <<p[1], p[2]>>
  BY DEF Pairs
<1> HIDE DEF lay, P
<1>3. g \in [P -> T]
  <2> SUFFICES ASSUME NEW p \in P PROVE lay[p[1]][p[2]] \in T
    OBVIOUS
  <2> QED
    BY <1>1, <1>2
<1>4. ASSUME NEW p \in P, NEW q \in P, g[p] = g[q] PROVE p = q
  <2>1. g[p] \in part[p[1]] /\ g[q] \in part[q[1]]
    BY <1>1, <1>2
  <2>2. p[1] = q[1]
    BY <1>2, <1>4, <2>1
  <2>3. p[2] = q[2]
    BY <1>1, <1>2, <1>4, <2>2
  <2> QED
    BY <1>2, <2>2, <2>3
<1>5. g \in Injection(P, T)
  <2> HIDE DEF g
  <2> QED
    BY <1>3, <1>4, Fun_IsInj
<1> QED
  BY <1>5, FS_Injection DEF P

\* If each number is at least the size of a part of T and the parts cover T,
\* the sum is at least the size of T.
LEMMA SumAtLeast ==
  ASSUME NEW T, IsFiniteSet(T), NEW R, NEW n \in [R -> Nat],
         NEW part \in [R -> SUBSET T],
         \A r \in R : Cardinality(part[r]) <= n[r],
         \A x \in T : \E r \in R : x \in part[r],
         IsFiniteSet(Pairs(R, n))
  PROVE  Cardinality(T) <= Cardinality(Pairs(R, n))
<1> DEFINE Numbers(r, f) == /\ f \in [part[r] -> 1..n[r]]
                            /\ \A x, y \in part[r] : f[x] = f[y] => x = y
           number == [r \in R |-> CHOOSE f : Numbers(r, f)]
           of == [x \in T |-> CHOOSE r \in R : x \in part[r]]
           P == Pairs(R, n)
           g == [x \in T |-> <<of[x], number[of[x]][x]>>]
<1>1. ASSUME NEW r \in R PROVE Numbers(r, number[r])
  <2>1. IsFiniteSet(part[r])
    BY FS_Subset
  <2>2. \E f : Numbers(r, f)
    BY <2>1, NumberedBy
  <2> HIDE DEF Numbers
  <2> QED
    BY <2>2
<1>2. ASSUME NEW x \in T PROVE of[x] \in R /\ x \in part[of[x]]
  OBVIOUS
<1> HIDE DEF number, of
<1>3. ASSUME NEW x \in T PROVE g[x] \in P
  <2>1. number[of[x]][x] \in 1..n[of[x]]
    BY <1>1, <1>2
  <2> QED
    BY <1>2, <2>1 DEF Pairs
<1>4. ASSUME NEW x \in T, NEW y \in T, g[x] = g[y] PROVE x = y
  <2>1. of[x] = of[y] /\ number[of[x]][x] = number[of[y]][y]
    BY <1>4
  <2> QED
    BY <1>1, <1>2, <2>1
<1>5. g \in Injection(T, P)
  <2>1. g \in [T -> P]
    <3> HIDE DEF P
    <3> QED
      BY <1>3
  <2> HIDE DEF g, P
  <2> QED
    BY <1>4, <2>1, Fun_IsInj
<1> QED
  BY <1>5, FS_Injection DEF P

-------------------------------------------------------------------------------
(* Regions.                                                                  *)

Span(region) == region.first..region.last

\* There are finitely many keys.
LEMMA KeysFinite ==
  /\ IsFiniteSet(Keys) /\ Keys \subseteq Nat /\ LastKey \in Keys /\ 0 \in Keys
  /\ \A S \in SUBSET Keys : IsFiniteSet(S) /\ Cardinality(S) \in Nat
<1>1. LastKey \in Nat
  BY CountJobAssumption
<1>2. IsFiniteSet(Keys)
  BY <1>1, FS_Interval DEF Keys
<1>3. ASSUME NEW S \in SUBSET Keys PROVE IsFiniteSet(S) /\ Cardinality(S) \in Nat
  <2>1. IsFiniteSet(S)
    BY <1>2, FS_Subset
  <2> QED
    BY <2>1, FS_CardinalityType
<1> QED
  BY <1>1, <1>2, <1>3 DEF Keys

\* The region that begins with a key ends before the next one begins, at the
\* latest with the last key.
LEMMA RegionBounds ==
  ASSUME starts \subseteq Keys, NEW k \in starts
  PROVE  /\ Region(k) \in [first : Keys, last : Keys]
         /\ Region(k).first = k
         /\ \A j \in starts : j > k => Region(k).last < j
         /\ Region(k).last # LastKey => Region(k).last + 1 \in {s \in starts : s > k}
<1> DEFINE ends == {s - 1 : s \in {t \in starts : t > k}} \cup {LastKey}
<1>0. LastKey \in Nat /\ k \in Keys /\ k \in Nat
  BY KeysFinite
<1>1. \A s \in starts : s \in Nat /\ s <= LastKey
  BY <1>0 DEF Keys
<1>2. ends \subseteq Keys
  <2> SUFFICES ASSUME NEW s \in starts, s > k PROVE s - 1 \in Keys
    BY KeysFinite
  <2> QED
    BY <1>0, <1>1 DEF Keys
<1>3. Region(k).last = Min(ends) /\ Region(k).first = k
  BY DEF Region
<1>4. Min(ends) \in ends /\ \A y \in ends : Min(ends) <= y
  <2> HIDE DEF ends
  <2>1. ends # {}
    BY DEF ends
  <2> QED
    BY <1>2, <2>1, MinOfKeys
<1>5. Region(k).last \in Keys
  BY <1>2, <1>3, <1>4
<1>6. ASSUME NEW j \in starts, j > k PROVE Region(k).last < j
  <2>1. j - 1 \in ends
    BY <1>6
  <2>2. Region(k).last <= j - 1 /\ Region(k).last \in Nat
    BY <1>3, <1>4, <1>5, <2>1, KeysFinite
  <2> QED
    BY <1>1, <2>2
<1>7. Region(k).last # LastKey => Region(k).last + 1 \in {s \in starts : s > k}
  <2>1. CASE \E s \in {t \in starts : t > k} : Region(k).last = s - 1
    BY <1>1, <2>1
  <2>2. CASE Region(k).last = LastKey
    BY <2>2
  <2> QED
    BY <1>3, <1>4, <2>1, <2>2
<1>8. Region(k) \in [first : Keys, last : Keys]
  BY <1>0, <1>3, <1>5 DEF Region
<1> QED
  BY <1>3, <1>6, <1>7, <1>8

\* The region that holds a first key is the one that begins with it.
LEMMA HolderOfFirst ==
  ASSUME starts \subseteq Keys, NEW k \in starts
  PROVE  Holder(k) = Region(k)
<1> DEFINE S == {s \in starts : s <= k}
<1>0. k \in Nat /\ k <= k /\ \A s \in starts : s \in Nat
  BY KeysFinite
<1>1. \A s \in S : s \in Nat /\ s <= k
  BY <1>0
<1>2. S \subseteq Keys /\ k \in S
  BY <1>0
<1>3. Max(S) \in S /\ k <= Max(S)
  <2> HIDE DEF S
  <2> QED
    BY <1>2, MaxOfKeys
<1>4. Max(S) = k
  <2> HIDE DEF S
  <2> QED
    BY <1>0, <1>1, <1>3
<1> QED
  BY <1>4 DEF Holder

\* Each key lies in a region.
LEMMA RegionsCover ==
  ASSUME starts \subseteq Keys, 0 \in starts, NEW x \in Keys
  PROVE  \E k \in starts : x \in Span(Region(k))
<1> DEFINE S == {s \in starts : s <= x}
           k == Max(S)
<1>0. x \in Nat /\ x <= LastKey /\ LastKey \in Nat /\ \A s \in starts : s \in Nat
  BY KeysFinite DEF Keys
<1>1. S \subseteq Keys /\ 0 \in S
  <2>1. 0 <= x
    BY <1>0
  <2> QED
    BY <2>1
<1>2. k \in S /\ \A s \in S : s <= k
  <2> HIDE DEF S
  <2> QED
    BY <1>1, MaxOfKeys
<1>3. k \in starts /\ k <= x
  BY <1>2
<1>4. \A s \in starts : s <= x => s <= k
  BY <1>2
<1> HIDE DEF S, k
<1>5. /\ Region(k).first = k /\ Region(k).last \in Nat
      /\ Region(k).last # LastKey => Region(k).last + 1 \in {s \in starts : s > k}
  BY <1>3, RegionBounds, KeysFinite
<1>6. x <= Region(k).last
  <2> SUFFICES ASSUME Region(k).last < x PROVE FALSE
    BY <1>0, <1>5
  <2>1. Region(k).last + 1 \in starts /\ Region(k).last + 1 > k
    BY <1>0, <1>5
  <2>2. Region(k).last + 1 <= k
    BY <1>0, <1>4, <1>5, <2>1
  <2> QED
    BY <1>0, <1>3, <1>5, <2>1, <2>2
<1> QED
  BY <1>0, <1>3, <1>5, <1>6 DEF Span

-------------------------------------------------------------------------------
(* The job.                                                                  *)

Called == {k \in keys : call[k] \in {"taken", "answered"}}
AnsweredKeys == {k \in keys : call[k] = "answered"}

\* Where main is and what it holds; the results are those of the calls that
\* were answered.
JobInv ==
  /\ target \in [Keys -> [first : Keys, last : Keys] \cup {None}]
  /\ value \in [Keys -> Nat \cup {None}]
  /\ FirstKeys \subseteq starts
  /\ pc \in {"connect", "list"} => keys = {}
  /\ pc \in {"connect", "list", "wait"} => printed = {}
  /\ \A k \in Keys : call[k] # "none" => k \in keys
  /\ results = {<<target[k], value[k]>> : k \in AnsweredKeys}
  /\ pc \in {"print", "end"} => keys \subseteq AnsweredKeys
  /\ pc = "end" => printed = results

\* A call went to the region that begins with its key.  That region ended
\* before the next key that was called, and it is what it was if no region has
\* split.
TargetInv ==
  \A k \in Called :
    /\ target[k] \in [first : Keys, last : Keys] /\ target[k].first = k
    /\ \A j \in keys : j > k => target[k].last < j
    /\ starts = keys => target[k] = Region(k)

\* It has counted all the rows its region had when the calls were started and
\* none that are not there now.
ValueInv ==
  \A k \in Called :
    /\ value[k] \in Nat
    /\ value[k] <= Tally(target[k])
    /\ Cardinality(before \cap Span(target[k])) <= value[k]

Inv == TypeOK /\ JobInv /\ TargetInv /\ ValueInv

\* Nothing is called in the beginning.
LEMMA InitInv == Init => Inv
<1> SUFFICES ASSUME Init PROVE Inv
  OBVIOUS
<1>1. Called = {} /\ AnsweredKeys = {} /\ results = {}
  BY DEF Init, Called, AnsweredKeys
<1>2. TypeOK
  BY CountJobAssumption DEF Init, TypeOK
<1>3. JobInv
  BY <1>1 DEF Init, JobInv
<1> QED
  BY <1>1, <1>2, <1>3 DEF Inv, TargetInv, ValueInv

\* Counts stay within their bounds while rows are put.
LEMMA RowsGrow ==
  ASSUME Inv, rows \subseteq rows', rows' \subseteq Keys, UNCHANGED <<keys, call, target, value, before>>
  PROVE  ValueInv'
<1>1. Called' = Called
  BY DEF Called
<1>2. ASSUME NEW k \in Called PROVE Tally(target[k]) <= Tally(target[k])'
  <2>1. rows \cap Span(target[k]) \subseteq rows' \cap Span(target[k])
    OBVIOUS
  <2>2. IsFiniteSet(rows' \cap Span(target[k]))
    BY KeysFinite
  <2> QED
    BY <2>1, <2>2, FS_Subset DEF Tally, Span
<1>3. \A k \in Called : Tally(target[k]) \in Nat /\ Tally(target[k])' \in Nat
  BY KeysFinite DEF Tally, Inv, TypeOK
<1>4. \A k \in Called : /\ value[k] \in Nat /\ value[k] <= Tally(target[k])'
                        /\ Cardinality(before \cap Span(target[k])) <= value[k]
  BY <1>2, <1>3 DEF Inv, ValueInv
<1>5. \A k \in Called : Span(target[k])' = Span(target[k])
  BY DEF Span
<1> QED
  BY <1>1, <1>4, <1>5 DEF ValueInv

\* A count is taken of the region that begins with the call's key.
LEMMA TakeInv == ASSUME Inv, NEW k \in Keys, Take(k) PROVE Inv'
<1> DEFINE region == Region(k)
<1>1. /\ pc = "wait" /\ call[k] = "called" /\ k \in keys
      /\ call' = [call EXCEPT ![k] = "taken"]
      /\ target' = [target EXCEPT ![k] = Holder(k)]
      /\ value' = [value EXCEPT ![k] = Tally(Holder(k))]
      /\ UNCHANGED <<rows, starts, pc, keys, results, printed, before>>
  BY DEF Take, table, Inv, JobInv
<1>2. Holder(k) = region
  BY <1>1, HolderOfFirst DEF Inv, TypeOK
<1>3. /\ region \in [first : Keys, last : Keys] /\ region.first = k
      /\ \A j \in keys : j > k => region.last < j
  <2> HIDE DEF region
  <2>1. keys \subseteq starts /\ starts \subseteq Keys
    BY DEF Inv, TypeOK
  <2> QED
    BY <1>1, <2>1, RegionBounds DEF region
<1> HIDE DEF region
<1>4. Tally(region) \in Nat /\ Cardinality(before \cap Span(region)) <= Tally(region)
  <2>1. /\ rows \cap Span(region) \in SUBSET Keys
        /\ before \cap Span(region) \in SUBSET (rows \cap Span(region))
    BY DEF Inv, TypeOK
  <2>2. IsFiniteSet(rows \cap Span(region)) /\ Cardinality(rows \cap Span(region)) \in Nat
    BY <2>1, KeysFinite
  <2> QED
    BY <2>1, <2>2, FS_Subset DEF Tally, Span
<1>5. /\ target'[k] = region /\ value'[k] = Tally(region) /\ call'[k] = "taken"
      /\ \A j \in Keys : j # k =>
           call'[j] = call[j] /\ target'[j] = target[j] /\ value'[j] = value[j]
      /\ call' \in [Keys -> {"none", "called", "taken", "answered", "failed"}]
      /\ target' \in [Keys -> [first : Keys, last : Keys] \cup {None}]
      /\ value' \in [Keys -> Nat \cup {None}]
  BY <1>1, <1>2, <1>3, <1>4 DEF Inv, TypeOK, JobInv
<1>6. keys \subseteq Keys /\ Called' = Called \cup {k} /\ AnsweredKeys' = AnsweredKeys
  <2>1. keys \subseteq Keys
    BY DEF Inv, TypeOK
  <2> QED
    BY <1>1, <1>5, <2>1 DEF Called, AnsweredKeys
<1>7. TypeOK'
  BY <1>1, <1>4, <1>5 DEF Inv, TypeOK
<1>8. JobInv'
  <2>1. k \notin AnsweredKeys
    BY <1>1 DEF AnsweredKeys
  <2>2. \A j \in AnsweredKeys : target'[j] = target[j] /\ value'[j] = value[j]
    BY <1>5, <1>6, <2>1 DEF AnsweredKeys
  <2> QED
    BY <1>1, <1>5, <1>6, <2>2 DEF Inv, JobInv
<1>9. TargetInv'
  <2>1. Region(k)' = Region(k) /\ \A j \in Keys : Region(j)' = Region(j)
    BY <1>1 DEF Region
  <2> QED
    BY <1>1, <1>3, <1>5, <1>6, <2>1 DEF Inv, TargetInv, region, Called
<1>10. ValueInv'
  <2>1. Tally(target[k])' = Tally(region) /\ Span(target[k])' = Span(region)
    BY <1>1, <1>5 DEF Tally, Span
  <2>2. \A j \in Keys : j # k => /\ Tally(target[j])' = Tally(target[j])
                                 /\ Span(target[j])' = Span(target[j])
    BY <1>1, <1>5 DEF Tally, Span
  <2>3. \A j \in Called' : /\ value'[j] \in Nat
                           /\ value'[j] <= Tally(target[j])'
                           /\ Cardinality(before \cap Span(target[j])') <= value'[j]
    <3> TAKE j \in Called'
    <3>1. CASE j = k
      <4>1. Tally(region) <= Tally(region)
        BY <1>4
      <4> QED
        BY <1>4, <1>5, <2>1, <3>1, <4>1
    <3>2. CASE j # k
      <4>1. j \in Called /\ j \in Keys
        BY <1>6, <3>2 DEF Called
      <4> QED
        BY <1>5, <2>2, <3>2, <4>1 DEF Inv, ValueInv
    <3> QED
      BY <3>1, <3>2
  <2> QED
    BY <1>1, <2>3 DEF ValueInv
<1> QED
  BY <1>7, <1>8, <1>9, <1>10 DEF Inv

\* An answer adds the call's region and count to the results.
LEMMA AnsweredInv == ASSUME Inv, NEW k \in Keys, Answered(k) PROVE Inv'
<1>1. /\ pc = "wait" /\ call[k] = "taken" /\ k \in keys
      /\ call' = [call EXCEPT ![k] = "answered"]
      /\ results' = results \cup {<<target[k], value[k]>>}
      /\ UNCHANGED <<rows, starts, pc, keys, target, value, printed, before>>
  BY DEF Answered, table, Inv, JobInv
<1>2. /\ call'[k] = "answered" /\ \A j \in Keys : j # k => call'[j] = call[j]
      /\ call' \in [Keys -> {"none", "called", "taken", "answered", "failed"}]
  BY <1>1 DEF Inv, TypeOK
<1>3. /\ keys \subseteq Keys /\ k \in Called
      /\ Called' = Called /\ AnsweredKeys' = AnsweredKeys \cup {k}
  <2>1. keys \subseteq Keys
    BY DEF Inv, TypeOK
  <2> QED
    BY <1>1, <1>2, <2>1 DEF Called, AnsweredKeys
<1>4. results' = {<<target[j], value[j]>> : j \in AnsweredKeys'}
  BY <1>1, <1>3 DEF Inv, JobInv
<1>5. TypeOK'
  <2>1. \A r \in results' : r[1].first \in keys
    BY <1>1, <1>3 DEF Inv, TypeOK, TargetInv
  <2>2. \A j \in Keys : call'[j] \in {"taken", "answered"} => value[j] \in Nat
    BY <1>1, <1>2 DEF Inv, TypeOK
  <2> QED
    BY <1>1, <1>2, <2>1, <2>2 DEF Inv, TypeOK
<1>6. JobInv'
  BY <1>1, <1>2, <1>3, <1>4 DEF Inv, JobInv
<1>7. TargetInv'
  <2>1. \A j \in Keys : Region(j)' = Region(j)
    BY <1>1 DEF Region
  <2> QED
    BY <1>1, <1>3, <2>1 DEF Inv, TargetInv, Called
<1>8. ValueInv'
  BY <1>1, <1>3 DEF Inv, ValueInv, Tally, Span
<1> QED
  BY <1>5, <1>6, <1>7, <1>8 DEF Inv

\* A call that fails no longer counts.
LEMMA NoResponseInv == ASSUME Inv, NEW k \in Keys, NoResponse(k) PROVE Inv'
<1>1. /\ pc = "wait" /\ call[k] \in {"called", "taken"}
      /\ call' = [call EXCEPT ![k] = "failed"]
      /\ UNCHANGED <<rows, starts, pc, keys, target, value, results, printed, before>>
  BY DEF NoResponse, table
<1>2. /\ call'[k] = "failed" /\ \A j \in Keys : j # k => call'[j] = call[j]
      /\ call' \in [Keys -> {"none", "called", "taken", "answered", "failed"}]
  BY <1>1 DEF Inv, TypeOK
<1>3. /\ keys \subseteq Keys
      /\ Called' = Called \ {k} /\ AnsweredKeys' = AnsweredKeys
  <2>1. keys \subseteq Keys
    BY DEF Inv, TypeOK
  <2> QED
    BY <1>1, <1>2, <2>1 DEF Called, AnsweredKeys
<1>4. TypeOK'
  <2>1. \A j \in Keys : call'[j] \in {"taken", "answered"} => value[j] \in Nat
    BY <1>2 DEF Inv, TypeOK
  <2> QED
    BY <1>1, <1>2, <2>1 DEF Inv, TypeOK
<1>5. JobInv'
  BY <1>1, <1>2, <1>3 DEF Inv, JobInv
<1>6. TargetInv'
  <2>1. \A j \in Keys : Region(j)' = Region(j)
    BY <1>1 DEF Region
  <2> QED
    BY <1>1, <1>3, <2>1 DEF Inv, TargetInv, Called
<1>7. ValueInv'
  BY <1>1, <1>3 DEF Inv, ValueInv, Tally, Span
<1> QED
  BY <1>4, <1>5, <1>6, <1>7 DEF Inv

\* main's steps.
LEMMA MainInv == ASSUME Inv, MainStep PROVE Inv'
<1>1. CASE ListRegions
  <2>1. /\ pc = "list" /\ pc' = "wait" /\ keys' = starts /\ before' = rows
        /\ call' = [k \in Keys |-> IF k \in starts THEN "called" ELSE "none"]
        /\ UNCHANGED <<rows, starts, target, value, results, printed>>
    BY <1>1 DEF ListRegions, table
  <2>2. keys = {} /\ AnsweredKeys = {} /\ AnsweredKeys' = {} /\ Called' = {}
    BY <2>1 DEF Inv, TypeOK, JobInv, AnsweredKeys, Called
  <2>3. results = {}
    BY <2>2 DEF Inv, JobInv
  <2>4. TypeOK'
    <3>1. \A k \in Keys : call'[k] \in {"none", "called"}
      BY <2>1
    <3> QED
      BY <2>1, <2>3, <3>1 DEF Inv, TypeOK
  <2>5. JobInv'
    <3>1. \A k \in Keys : call'[k] # "none" => k \in keys'
      BY <2>1
    <3>2. results' = {<<target'[k], value'[k]>> : k \in AnsweredKeys'}
      BY <2>1, <2>2, <2>3
    <3> QED
      BY <2>1, <3>1, <3>2 DEF Inv, JobInv
  <2> QED
    BY <2>2, <2>4, <2>5 DEF Inv, TargetInv, ValueInv
<1>2. CASE Connect \/ AllAnswered \/ Rethrow \/ PrintResult
  <2>1. UNCHANGED <<rows, starts, keys, call, target, value, results, before>>
    BY <1>2 DEF Connect, AllAnswered, Rethrow, PrintResult, table
  <2>2. Called' = Called /\ AnsweredKeys' = AnsweredKeys
    BY <2>1 DEF Called, AnsweredKeys
  <2>3. TypeOK' /\ JobInv'
    <3>1. CASE Connect
      BY <2>1, <2>2, <3>1 DEF Connect, Inv, TypeOK, JobInv
    <3>2. CASE AllAnswered
      <4>1. keys \subseteq AnsweredKeys
        BY <3>2 DEF AllAnswered, AnsweredKeys
      <4> QED
        BY <2>1, <2>2, <3>2, <4>1 DEF AllAnswered, Inv, TypeOK, JobInv
    <3>3. CASE Rethrow
      BY <2>1, <2>2, <3>3 DEF Rethrow, Inv, TypeOK, JobInv
    <3>4. CASE PrintResult
      <4>1. /\ pc = "print" /\ pc' \in {"print", "end"} /\ printed' \subseteq results
            /\ pc' = "end" => printed' = results
        BY <3>4 DEF PrintResult, Inv, TypeOK
      <4> QED
        BY <2>1, <2>2, <4>1 DEF Inv, TypeOK, JobInv
    <3> QED
      BY <1>2, <3>1, <3>2, <3>3, <3>4
  <2>4. TargetInv'
    <3>1. \A j \in Keys : Region(j)' = Region(j)
      BY <2>1 DEF Region
    <3> QED
      BY <2>1, <2>2, <3>1 DEF Inv, TypeOK, TargetInv, Called
  <2>5. ValueInv'
    BY <2>1, <2>2 DEF Inv, ValueInv, Tally, Span
  <2> QED
    BY <2>3, <2>4, <2>5 DEF Inv
<1> QED
  BY <1>1, <1>2 DEF MainStep

\* The invariant is kept by every step of the job and of other clients.
LEMMA StepInv == Inv /\ [Next]_vars => Inv'
<1> SUFFICES ASSUME Inv, [Next]_vars PROVE Inv'
  OBVIOUS
<1>1. ASSUME NEW k \in Keys, CallStep(k) PROVE Inv'
  BY <1>1, TakeInv, AnsweredInv, NoResponseInv DEF CallStep
<1>2. CASE PutRow
  <2>1. /\ rows \subseteq rows' /\ rows' \subseteq Keys
        /\ UNCHANGED <<starts, pc, keys, call, target, value, results, printed, before>>
    BY <1>2 DEF PutRow, job, Inv, TypeOK
  <2>2. Called' = Called /\ AnsweredKeys' = AnsweredKeys
    BY <2>1 DEF Called, AnsweredKeys
  <2>3. TypeOK' /\ JobInv'
    BY <2>1, <2>2 DEF Inv, TypeOK, JobInv
  <2>4. TargetInv'
    <3>1. \A j \in Keys : Region(j)' = Region(j)
      BY <2>1 DEF Region
    <3> QED
      BY <2>1, <2>2, <3>1 DEF Inv, TypeOK, TargetInv, Called
  <2>5. ValueInv'
    BY <2>1, RowsGrow
  <2> QED
    BY <2>3, <2>4, <2>5 DEF Inv
<1>3. CASE SplitRegion
  <2>1. /\ UNCHANGED <<rows, pc, keys, call, target, value, results, printed, before>>
        /\ starts \subseteq starts' /\ starts' \subseteq Keys /\ starts' # starts
    BY <1>3 DEF SplitRegion, job, Inv, TypeOK
  <2>2. Called' = Called /\ AnsweredKeys' = AnsweredKeys /\ starts' # keys
    BY <2>1 DEF Called, AnsweredKeys, Inv, TypeOK
  <2>3. TypeOK' /\ JobInv'
    BY <2>1, <2>2 DEF Inv, TypeOK, JobInv
  <2>4. TargetInv'
    BY <2>1, <2>2 DEF Inv, TargetInv
  <2>5. ValueInv'
    BY <2>1, <2>2 DEF Inv, ValueInv, Tally, Span
  <2> QED
    BY <2>3, <2>4, <2>5 DEF Inv
<1>4. CASE MainStep
  BY <1>4, MainInv
<1>5. CASE UNCHANGED vars
  <2>1. UNCHANGED <<rows, starts, pc, keys, call, target, value, results, printed, before>>
    BY <1>5 DEF vars, table, job
  <2>2. Called' = Called /\ AnsweredKeys' = AnsweredKeys
    BY <2>1 DEF Called, AnsweredKeys
  <2>3. TypeOK' /\ JobInv'
    BY <2>1, <2>2 DEF Inv, TypeOK, JobInv
  <2>4. TargetInv' /\ ValueInv'
    BY <2>1, <2>2 DEF Inv, TargetInv, ValueInv, Region, Tally, Span
  <2> QED
    BY <2>3, <2>4 DEF Inv
<1> QED
  BY <1>1, <1>2, <1>3, <1>4, <1>5 DEF Next, Done

\* The invariant holds in every reachable state.
LEMMA Invariance == Spec => []Inv
  BY InitInv, StepInv, PTL DEF Spec

\* Every variable keeps its type, and a key that has been called stays a
\* region's first.
THEOREM TypeCorrect == Spec => []TypeOK
<1>1. Inv => TypeOK
  BY DEF Inv
<1> QED
  BY <1>1, Invariance, PTL

\* The job prints a line for each region it has called (testRowCountCoprocessor
\* of VelasscoScan): the regions of two keys differ, so the map that collects
\* the answers keeps them all.
THEOREM LinePerRegion == Spec => []OneLinePerRegion
<1>1. Inv => OneLinePerRegion
  <2> SUFFICES ASSUME Inv, pc = "end" PROVE Cardinality(printed) = Cardinality(keys)
    BY DEF OneLinePerRegion
  <2>1. AnsweredKeys = keys /\ Called = keys
    BY DEF Inv, JobInv, AnsweredKeys, Called
  <2>2. printed = {<<target[k], value[k]>> : k \in keys}
    BY <2>1 DEF Inv, JobInv
  <2> DEFINE line == [k \in keys |-> <<target[k], value[k]>>]
  <2>3. line \in [keys -> printed] /\ \A r \in printed : \E k \in keys : line[k] = r
    BY <2>2
  <2>4. \A k, j \in keys : line[k] = line[j] => k = j
    BY <2>1 DEF Inv, TargetInv
  <2>5. line \in Bijection(keys, printed)
    <3> HIDE DEF line
    <3> QED
      BY <2>3, <2>4, Fun_IsBij
  <2>6. IsFiniteSet(keys)
    BY KeysFinite DEF Inv, TypeOK
  <2> QED
    BY <2>5, <2>6, FS_Bijection DEF ExistsBijection
<1> QED
  BY <1>1, Invariance, PTL

\* The sum of the lines lies between the rows there were when the calls were
\* started, if no region has split since, and those there are at the end: the
\* regions called are disjoint, and cover the table if none has split.
THEOREM SumIsBracketed == Spec => []SumBracketed
<1>1. Inv => SumBracketed
  <2> SUFFICES ASSUME Inv, pc = "end"
               PROVE  /\ Sum <= Cardinality(rows)
                      /\ starts = keys => Sum >= Cardinality(before)
    BY DEF SumBracketed
  <2>1. AnsweredKeys = keys /\ Called = keys
    BY DEF Inv, JobInv, AnsweredKeys, Called
  <2>2. printed = {<<target[k], value[k]>> : k \in keys}
    BY <2>1 DEF Inv, JobInv
  <2> DEFINE n == [r \in printed |-> r[2]]
             now == [r \in printed |-> rows \cap Span(r[1])]
             then == [r \in printed |-> before \cap Span(r[1])]
  <2>3. ASSUME NEW r \in printed
        PROVE  \E k \in keys : /\ r = <<target[k], value[k]>> /\ r[1] = target[k]
                               /\ r[2] = value[k] /\ r[1].first = k
                               /\ r[1] \in [first : Keys, last : Keys]
    BY <2>1, <2>2 DEF Inv, TargetInv
  <2>4. n \in [printed -> Nat]
    BY <2>1, <2>3 DEF Inv, ValueInv
  <2>5. now \in [printed -> SUBSET rows] /\ then \in [printed -> SUBSET before]
    OBVIOUS
  <2>6. \A r \in printed : n[r] <= Cardinality(now[r]) /\ Cardinality(then[r]) <= n[r]
    <3> TAKE r \in printed
    <3>1. PICK k \in keys : r[1] = target[k] /\ r[2] = value[k]
      BY <2>3
    <3> QED
      BY <2>1, <3>1 DEF Inv, ValueInv, Tally, Span
  <2>7. ASSUME NEW r \in printed, NEW q \in printed, r # q
        PROVE  now[r] \cap now[q] = {}
    <3>1. PICK k \in keys : r = <<target[k], value[k]>> /\ r[1] = target[k]
      BY <2>3
    <3>2. PICK j \in keys : q = <<target[j], value[j]>> /\ q[1] = target[j]
      BY <2>3
    <3>3. k # j /\ k \in Nat /\ j \in Nat
      BY <2>7, <3>1, <3>2, KeysFinite DEF Inv, TypeOK
    <3>4. \A i \in keys : /\ target[i].first = i
                          /\ target[i].last \in Nat
                          /\ \A h \in keys : h > i => target[i].last < h
      BY <2>1, KeysFinite DEF Inv, TargetInv
    <3>5. Span(target[k]) \cap Span(target[j]) = {}
      <4>1. CASE k < j
        BY <3>3, <3>4, <4>1 DEF Span
      <4>2. CASE j < k
        BY <3>3, <3>4, <4>2 DEF Span
      <4> QED
        BY <3>3, <4>1, <4>2
    <3> QED
      BY <3>1, <3>2, <3>5
  <2>8. /\ IsFiniteSet(rows) /\ Cardinality(rows) \in Nat
        /\ IsFiniteSet(before) /\ Cardinality(before) \in Nat /\ before \subseteq Keys
    BY KeysFinite DEF Inv, TypeOK
  <2>9. Sum = Cardinality(Pairs(printed, n))
    <3>1. Pairs(printed, n) = UNION {{r} \X (1..r[2]) : r \in printed}
      BY DEF Pairs
    <3> QED
      BY <3>1 DEF Sum
  <2> HIDE DEF n, now
  <2>10. /\ IsFiniteSet(Pairs(printed, n))
         /\ Cardinality(Pairs(printed, n)) <= Cardinality(rows)
    BY <2>4, <2>5, <2>6, <2>7, <2>8, SumAtMost
  <2>11. ASSUME starts = keys PROVE Cardinality(before) <= Cardinality(Pairs(printed, n))
    <3>1. \A x \in before : \E r \in printed : x \in then[r]
      <4> TAKE x \in before
      <4>1. PICK k \in starts : x \in Span(Region(k))
        <5>1. x \in Keys /\ starts \subseteq Keys /\ 0 \in starts
          BY <2>8, CountJobAssumption DEF Inv, TypeOK, JobInv
        <5> QED
          BY <5>1, RegionsCover
      <4>2. target[k] = Region(k)
        BY <2>1, <2>11, <4>1 DEF Inv, TargetInv
      <4>3. <<target[k], value[k]>> \in printed /\ <<target[k], value[k]>>[1] = target[k]
        BY <2>2, <2>11, <4>1
      <4>4. x \in then[<<target[k], value[k]>>]
        BY <4>1, <4>2, <4>3
      <4> QED
        BY <4>3, <4>4
    <3> HIDE DEF then
    <3> QED
      BY <2>4, <2>5, <2>6, <2>8, <2>10, <3>1, SumAtLeast
  <2>12. Cardinality(Pairs(printed, n)) \in Nat
    BY <2>10, FS_CardinalityType
  <2> QED
    BY <2>8, <2>9, <2>10, <2>11, <2>12
<1> QED
  BY <1>1, Invariance, PTL

\* Each call does what module Counter promises, as far as safety goes: it is
\* answered with a count of one moment, namely when it was taken, or fails.
THEOREM CallsCountOnce ==
  Spec => /\ \A k \in FirstKeys : Call(k)!Init
          /\ [][\A k \in FirstKeys : Call(k)!Next \/ UNCHANGED Call(k)!cvars]_vars
<1>1. Init => \A k \in FirstKeys : Call(k)!Init
  <2> SUFFICES ASSUME Init, NEW k \in FirstKeys PROVE Call(k)!Init
    OBVIOUS
  <2>1. k \in Keys /\ rows \cap Holder(k).first..Holder(k).last \in SUBSET Keys
    BY CountJobAssumption DEF Init
  <2>2. Now(k) \in Nat
    BY <2>1, KeysFinite DEF Now, Tally
  <2>3. Phase(k) = "called" /\ value[k] = None /\ Answer(k) = None
    BY <2>1 DEF Init, Phase, Answer
  <2> QED
    BY <2>2, <2>3 DEF Call!Init
<1>2. Inv /\ Inv' /\ [Next]_vars =>
        \A k \in FirstKeys : Call(k)!Next \/ UNCHANGED Call(k)!cvars
  <2> SUFFICES ASSUME Inv, Inv', [Next]_vars, NEW k \in FirstKeys
               PROVE  Call(k)!Next \/ UNCHANGED Call(k)!cvars
    OBVIOUS
  <2>0. /\ k \in Keys /\ Now(k) \in Nat /\ Now(k)' \in Nat
        /\ call[k] \in {"none", "called", "taken", "answered", "failed"}
    <3>1. \A K : rows \cap K \in SUBSET Keys /\ rows' \cap K \in SUBSET Keys
      BY DEF Inv, TypeOK
    <3> QED
      BY <3>1, CountJobAssumption, KeysFinite DEF Now, Tally, Inv, TypeOK
  <2>1. ASSUME UNCHANGED <<call, pc, value>>
        PROVE  Call(k)!Next \/ UNCHANGED Call(k)!cvars
    <3>1. UNCHANGED <<Phase(k), value[k], Answer(k)>>
      BY <2>1 DEF Phase, Answer
    <3> QED
      BY <2>0, <3>1 DEF Call!Next, Call!Write
  <2>2. ASSUME UNCHANGED <<rows, starts>> PROVE Now(k)' = Now(k)
    BY <2>2 DEF Now, Tally, Holder, Region
  <2>3. ASSUME MainStep PROVE Call(k)!Next \/ UNCHANGED Call(k)!cvars
    <3>1. UNCHANGED <<rows, starts, value>> /\ Now(k)' = Now(k)
      BY <2>2, <2>3 DEF MainStep, Connect, ListRegions, AllAnswered, Rethrow,
         PrintResult, table
    <3>2. CASE ListRegions
      <4>1. Phase(k)' = Phase(k) /\ Answer(k)' = Answer(k)
        <5>1. call[k] = "none" /\ call'[k] \in {"none", "called"} /\ pc = "list"
              /\ pc' = "wait"
          BY <2>0, <3>2 DEF ListRegions, Inv, JobInv
        <5> QED
          BY <5>1 DEF Phase, Answer
      <4> QED
        BY <3>1, <4>1 DEF Call!cvars
    <3>3. CASE UNCHANGED call /\ pc # "thrown" /\ pc' = "thrown"
      <4>1. Answer(k)' = Answer(k)
        BY <3>1, <3>3 DEF Answer
      <4>2. CASE call[k] \in {"answered", "failed"}
        BY <3>1, <3>3, <4>1, <4>2 DEF Call!cvars, Phase
      <4>3. CASE call[k] \in {"none", "called", "taken"}
        <5>1. Phase(k) \in {"called", "taken"} /\ Phase(k)' = "failed"
          BY <3>3, <4>3 DEF Phase
        <5> QED
          BY <3>1, <4>1, <5>1 DEF Call!Next, Call!Fail
      <4> QED
        BY <2>0, <4>2, <4>3
    <3>4. CASE UNCHANGED call /\ pc # "thrown" /\ pc' # "thrown"
      BY <3>1, <3>4 DEF Call!cvars, Phase, Answer
    <3>5. ListRegions \/ (UNCHANGED call /\ pc # "thrown")
      BY <2>3 DEF MainStep, Connect, AllAnswered, Rethrow, PrintResult
    <3> QED
      BY <3>2, <3>3, <3>4, <3>5
  <2>4. ASSUME NEW j \in Keys, CallStep(j)
        PROVE  Call(k)!Next \/ UNCHANGED Call(k)!cvars
    <3>1. /\ UNCHANGED <<rows, starts, pc>> /\ Now(k)' = Now(k) /\ pc = "wait"
          /\ \A i \in Keys : i # j => call'[i] = call[i] /\ value'[i] = value[i]
      BY <2>2, <2>4 DEF CallStep, Take, Answered, NoResponse, table, Inv, TypeOK, JobInv
    <3>2. CASE j # k
      <4>1. UNCHANGED <<Phase(k), value[k], Answer(k)>>
        BY <2>0, <3>1, <3>2 DEF Phase, Answer
      <4> QED
        BY <3>1, <4>1 DEF Call!cvars
    <3>3. CASE j = k /\ Take(k)
      <4>1. /\ call[k] = "called" /\ call'[k] = "taken" /\ value'[k] = Now(k)
        BY <2>0, <3>3 DEF Take, Now, Inv, TypeOK, JobInv
      <4>2. /\ Phase(k) = "called" /\ Phase(k)' = "taken"
            /\ Answer(k) = None /\ Answer(k)' = None
        BY <3>1, <4>1 DEF Phase, Answer
      <4> QED
        BY <3>1, <4>1, <4>2 DEF Call!Next, Call!Take
    <3>4. CASE j = k /\ Answered(k)
      <4>1. call[k] = "taken" /\ call'[k] = "answered" /\ value'[k] = value[k]
        BY <2>0, <3>4 DEF Answered, Inv, TypeOK
      <4>2. Phase(k) = "taken" /\ Phase(k)' = "answered" /\ Answer(k)' = value[k]
        BY <3>1, <4>1 DEF Phase, Answer
      <4> QED
        BY <3>1, <4>1, <4>2 DEF Call!Next, Call!Answer
    <3>5. CASE j = k /\ NoResponse(k)
      <4>1. /\ call[k] \in {"called", "taken"} /\ call'[k] = "failed"
            /\ value'[k] = value[k]
        BY <2>0, <3>5 DEF NoResponse, Inv, TypeOK
      <4>2. /\ Phase(k) \in {"called", "taken"} /\ Phase(k)' = "failed"
            /\ Answer(k) = None /\ Answer(k)' = None
        BY <3>1, <4>1 DEF Phase, Answer
      <4> QED
        BY <3>1, <4>1, <4>2 DEF Call!Next, Call!Fail
    <3> QED
      BY <2>4, <3>2, <3>3, <3>4, <3>5 DEF CallStep
  <2>5. ASSUME PutRow \/ SplitRegion \/ UNCHANGED vars
        PROVE  Call(k)!Next \/ UNCHANGED Call(k)!cvars
    <3>1. UNCHANGED <<call, pc, value>>
      BY <2>5 DEF PutRow, SplitRegion, vars, job
    <3> QED
      BY <2>1, <3>1
  <2> QED
    BY <2>3, <2>4, <2>5 DEF Next, Done
<1> QED
  BY <1>1, <1>2, Invariance, PTL DEF Spec

===============================================================================
