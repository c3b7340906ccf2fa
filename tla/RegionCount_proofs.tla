-------------------------- MODULE RegionCount_proofs --------------------------
(***************************************************************************)
(* The coprocessor's count is exact: proofs about RegionCount for every    *)
(* finite region and every way to cut the scan into batches.               *)
(***************************************************************************)
EXTENDS RegionCount, FiniteSetTheorems, FunctionTheorems, TLAPS

\* What the scan has to deliver in all, what is not counted yet, and what is.
Scope == Scanned(method, snapshot)
Left == rest \cup results
Counted == Scope \ Left

\* The scan goes forward through Scope.
ScanInv ==
  /\ Left \subseteq Scope
  /\ \A c \in Counted, d \in Left : Before(c, d)
  /\ \A c \in results, d \in rest : Before(c, d)
  /\ pc \in {"call", "next"} => results = {}
  /\ pc = "call" => snapshot = {}
  /\ pc = "each" /\ ~hasMore => rest = {}

\* count is the tally of what is counted, and lastRow the last row in it.
CountInv ==
  /\ count = Tally(Counted)
  /\ method = "getRowCount" =>
       /\ lastRow = None => Counted = {}
       /\ lastRow # None => /\ lastRow \in RowsOf(Counted)
                            /\ \A c \in Counted : c.row <= lastRow

\* A response was built after the last cell.
ResponseInv ==
  response # None =>
    response = count /\ Left = {} /\ pc \in {"finally", "run", "answered"}

Inv == TypeOK /\ ScanInv /\ CountInv /\ ResponseInv

\* Every scan delivers cells it was given.
LEMMA ScannedSubset ==
  ASSUME NEW m, NEW S PROVE Scanned(m, S) \subseteq S
  BY DEF Scanned, FirstKeys, Newest

\* Sets of cells and their rows are finite.
LEMMA CellsFinite ==
  ASSUME NEW S, S \subseteq Cells
  PROVE  IsFiniteSet(S) /\ RowsOf(S) \subseteq RowKeys /\ IsFiniteSet(RowsOf(S))
<1>1. IsFiniteSet(S)
  BY FS_Subset, RegionCountAssumption
<1>2. RowsOf(S) \subseteq RowKeys
  BY DEF Cells, RowsOf
<1> QED
  BY <1>1, <1>2, FS_Subset, RegionCountAssumption

\* Counting one more cell.
LEMMA TallyNext ==
  ASSUME NEW S, S \subseteq Cells, NEW c \in Cells, c \notin S
  PROVE  /\ Cardinality(S \cup {c}) = Cardinality(S) + 1
         /\ RowsOf(S \cup {c}) = RowsOf(S) \cup {c.row}
         /\ c.row \notin RowsOf(S) =>
              Cardinality(RowsOf(S \cup {c})) = Cardinality(RowsOf(S)) + 1
         /\ c.row \in RowsOf(S) => RowsOf(S \cup {c}) = RowsOf(S)
<1>1. RowsOf(S \cup {c}) = RowsOf(S) \cup {c.row}
  BY DEF RowsOf
<1>2. Cardinality(S \cup {c}) = Cardinality(S) + 1
  BY CellsFinite, FS_AddElement
<1>3. c.row \notin RowsOf(S) =>
        Cardinality(RowsOf(S) \cup {c.row}) = Cardinality(RowsOf(S)) + 1
  BY CellsFinite, FS_AddElement
<1> QED
  BY <1>1, <1>2, <1>3

\* Nothing is counted in the beginning.
LEMMA InitInv == Init => Inv
<1> SUFFICES ASSUME Init PROVE Inv
  OBVIOUS
<1>1. Scope = {} /\ Left = {} /\ Counted = {}
  BY ScannedSubset DEF Init, Scope, Left, Counted
<1>2. Tally({}) = 0
  BY FS_EmptySet DEF Tally, RowsOf
<1>3. TypeOK
  <2>1. writes \in 0..MaxWrites /\ count \in Nat
    BY RegionCountAssumption DEF Init
  <2>2. /\ snapshot \in SUBSET Cells /\ rest \in SUBSET Cells
        /\ results \in SUBSET Cells
    BY DEF Init
  <2>3. /\ scanner \in {None, "open", "closed"}
        /\ lastRow \in RowKeys \cup {None} /\ response \in Nat \cup {None}
    BY DEF Init
  <2> QED
    BY <2>1, <2>2, <2>3 DEF Init, TypeOK
<1>4. ScanInv
  BY <1>1 DEF Init, ScanInv, Left
<1>5. CountInv
  BY <1>1, <1>2 DEF Init, CountInv
<1> QED
  BY <1>3, <1>4, <1>5 DEF Init, Inv, ResponseInv

\* Every step keeps the invariant.
LEMMA StepInv == Inv /\ [Next]_vars => Inv'
<1> SUFFICES ASSUME Inv, [Next]_vars PROVE Inv'
  OBVIOUS
<1> USE DEF region, scan, locals
<1>0. Scope \subseteq Cells /\ Counted \subseteq Cells
  BY ScannedSubset DEF Inv, TypeOK, Scope, Counted
<1>1. CASE GetScanner
  <2>1. rest' = Scope' /\ results' = {} /\ Left' = Scope' /\ Counted' = {}
    BY <1>1 DEF GetScanner, Inv, ScanInv, Scope, Left, Counted
  <2>2. Counted = {}
    <3>1. Scope = {}
      BY <1>1, ScannedSubset DEF GetScanner, Inv, ScanInv, Scope
    <3> QED
      BY <3>1 DEF Counted
  <2>3. rest' \subseteq Cells
    BY <1>1, ScannedSubset DEF GetScanner, Inv, TypeOK
  <2>4. TypeOK'
    BY <1>1, <2>3 DEF GetScanner, Inv, TypeOK
  <2>5. ScanInv'
    BY <1>1, <2>1 DEF GetScanner, ScanInv
  <2>6. CountInv'
    BY <1>1, <2>1, <2>2 DEF GetScanner, Inv, CountInv, Tally, RowsOf
  <2>7. ResponseInv'
    BY <1>1 DEF GetScanner, Inv, ResponseInv
  <2> QED
    BY <2>4, <2>5, <2>6, <2>7 DEF Inv
<1>2. CASE ScannerNext
  <2>1. Scope' = Scope /\ Left' = Left /\ Counted' = Counted
    BY <1>2 DEF ScannerNext, Inv, ScanInv, Scope, Left, Counted
  <2>2. TypeOK'
    BY <1>2 DEF ScannerNext, Inv, TypeOK
  <2>3. ScanInv'
    BY <1>2, <2>1 DEF ScannerNext, Inv, ScanInv
  <2>4. CountInv'
    BY <1>2, <2>1 DEF ScannerNext, Inv, CountInv, Tally
  <2>5. ResponseInv'
    BY <1>2 DEF ScannerNext, Inv, ResponseInv
  <2> QED
    BY <2>2, <2>3, <2>4, <2>5 DEF Inv
<1>3. CASE CountCell
  <2> PICK c \in results :
             /\ \A d \in results \ {c} : Before(c, d)
             /\ results' = results \ {c}
             /\ IF method = "getRowCount"
                THEN IF lastRow = None \/ lastRow # c.row
                     THEN lastRow' = c.row /\ count' = count + 1
                     ELSE UNCHANGED <<lastRow, count>>
                ELSE count' = count + 1 /\ UNCHANGED lastRow
    BY <1>3 DEF CountCell
  <2>0. /\ c \in Cells /\ c.row \in RowKeys /\ c.row \in Nat
        /\ \A d \in Cells : d.row \in Nat /\ d.col \in Nat
    BY RegionCountAssumption DEF Inv, TypeOK, Cells
  <2>1. UNCHANGED <<region, pc, scan, hasMore, response, exception>>
    BY <1>3 DEF CountCell
  <2>2. Scope' = Scope /\ c \in Scope /\ c \notin Counted
    BY <2>1 DEF Inv, ScanInv, Scope, Counted, Left
  <2>3. c \notin rest
    <3>1. ~Before(c, c)
      BY <2>0 DEF Before
    <3> QED
      BY <3>1 DEF Inv, ScanInv
  <2>4. Left' = Left \ {c} /\ Counted' = Counted \cup {c}
    BY <2>1, <2>2, <2>3 DEF Left, Counted, Scope
  <2>5. TypeOK'
    BY <1>3, <2>0 DEF CountCell, Inv, TypeOK
  <2>6. ScanInv'
    <3>1. \A d \in Left \ {c} : Before(c, d)
      BY DEF Inv, ScanInv, Left
    <3> QED
      BY <1>3, <2>1, <2>2, <2>4, <3>1 DEF CountCell, Inv, ScanInv
  <2>7. CountInv'
    <3>1. CASE method = "getRowCount"
      <4>1. \A b \in Counted : b.row <= c.row
        BY <1>0, <2>0 DEF Inv, ScanInv, Left, Before
      <4>2. count = Cardinality(RowsOf(Counted))
        BY <3>1 DEF Inv, CountInv, Tally
      <4>3. CASE lastRow = None \/ lastRow # c.row
        <5>1. c.row \notin RowsOf(Counted)
          <6> SUFFICES ASSUME NEW b \in Counted, b.row = c.row PROVE FALSE
            BY DEF RowsOf
          <6>1. lastRow # None /\ lastRow \in RowsOf(Counted) /\ b.row <= lastRow
            BY <3>1 DEF Inv, CountInv
          <6>2. PICK a \in Counted : lastRow = a.row
            BY <6>1 DEF RowsOf
          <6>3. a.row <= c.row /\ a.row \in Nat
            BY <1>0, <2>0, <4>1
          <6> QED
            BY <2>0, <4>3, <6>1, <6>2, <6>3
        <5>2. count' = Cardinality(RowsOf(Counted')) /\ lastRow' = c.row
          BY <1>0, <2>0, <2>2, <2>4, <3>1, <4>2, <4>3, <5>1, TallyNext
        <5>3. lastRow' \in RowsOf(Counted') /\ \A b \in Counted' : b.row <= lastRow'
          BY <2>0, <2>4, <4>1, <5>2 DEF RowsOf
        <5> QED
          BY <2>0, <2>1, <3>1, <5>2, <5>3, RegionCountAssumption DEF CountInv, Tally
      <4>4. CASE ~(lastRow = None \/ lastRow # c.row)
        <5>1. lastRow # None /\ lastRow = c.row /\ UNCHANGED <<lastRow, count>>
          BY <3>1, <4>4
        <5>2. c.row \in RowsOf(Counted) /\ \A b \in Counted : b.row <= lastRow
          BY <3>1, <5>1 DEF Inv, CountInv
        <5>3. RowsOf(Counted') = RowsOf(Counted)
          BY <1>0, <2>0, <2>2, <2>4, <5>2, TallyNext
        <5>4. \A b \in Counted' : b.row <= lastRow'
          BY <2>0, <2>4, <5>1, <5>2
        <5> QED
          BY <2>1, <3>1, <4>2, <5>1, <5>2, <5>3, <5>4 DEF CountInv, Tally
      <4> QED
        BY <4>3, <4>4
    <3>2. CASE method # "getRowCount"
      <4>1. count = Cardinality(Counted)
        BY <3>2 DEF Inv, CountInv, Tally
      <4>2. count' = Cardinality(Counted')
        BY <1>0, <2>0, <2>2, <2>4, <3>2, <4>1, TallyNext
      <4> QED
        BY <2>1, <3>2, <4>2 DEF CountInv, Tally
    <3> QED
      BY <3>1, <3>2
  <2>8. ResponseInv'
    BY <1>3 DEF CountCell, Inv, ResponseInv
  <2> QED
    BY <2>5, <2>6, <2>7, <2>8 DEF Inv
<1>4. CASE EndBatch
  <2>1. Scope' = Scope /\ Left' = Left /\ Counted' = Counted
    BY <1>4 DEF EndBatch, Scope, Left, Counted
  <2>2. TypeOK'
    BY <1>4 DEF EndBatch, Inv, TypeOK
  <2>3. ScanInv'
    BY <1>4, <2>1 DEF EndBatch, Inv, ScanInv
  <2>4. CountInv'
    BY <1>4, <2>1 DEF EndBatch, Inv, CountInv, Tally
  <2>5. ResponseInv'
    BY <1>4 DEF EndBatch, Inv, ScanInv, ResponseInv, Left
  <2> QED
    BY <2>2, <2>3, <2>4, <2>5 DEF Inv
<1>5. CASE IOException \/ UncheckedException \/ Finally \/ Run
  <2>1. /\ Scope' = Scope /\ Left' = Left /\ Counted' = Counted
        /\ UNCHANGED <<method, snapshot, rest, results, count, lastRow, response>>
    BY <1>5 DEF IOException, UncheckedException, Finally, Run, Scope, Left, Counted
  <2>2. TypeOK'
    BY <1>5 DEF IOException, UncheckedException, Finally, Run, Inv, TypeOK
  <2>3. ScanInv'
    BY <1>5, <2>1 DEF IOException, UncheckedException, Finally, Run, Inv, ScanInv
  <2>4. CountInv'
    BY <2>1 DEF Inv, CountInv, Tally
  <2>5. ResponseInv'
    BY <1>5, <2>1 DEF IOException, UncheckedException, Finally, Run, Inv, ResponseInv
  <2> QED
    BY <2>2, <2>3, <2>4, <2>5 DEF Inv
<1>6. CASE WriteCell
  <2>1. Scope' = Scope /\ Left' = Left /\ Counted' = Counted
    BY <1>6 DEF WriteCell, Scope, Left, Counted
  <2>2. TypeOK'
    BY <1>6, RegionCountAssumption DEF WriteCell, Inv, TypeOK
  <2>3. ScanInv' /\ CountInv' /\ ResponseInv'
    BY <1>6, <2>1 DEF WriteCell, Inv, ScanInv, CountInv, ResponseInv, Tally
  <2> QED
    BY <2>2, <2>3 DEF Inv
<1>7. CASE UNCHANGED vars
  BY <1>7 DEF vars, Inv, TypeOK, ScanInv, CountInv, ResponseInv, Scope, Left,
              Counted, Tally
<1> QED
  BY <1>1, <1>2, <1>3, <1>4, <1>5, <1>6, <1>7 DEF Next, Handler, Done

\* Every variable keeps its type.
THEOREM TypeCorrect == Spec => []TypeOK
<1>1. Inv => TypeOK
  BY DEF Inv
<1> QED
  BY <1>1, InitInv, StepInv, PTL DEF Spec

\* A response counts each row, or each cell, of the scan exactly once.
THEOREM CountIsExact == Spec => []ExactCount
<1>1. Inv => ExactCount
  <2> SUFFICES ASSUME Inv, response # None
               PROVE  response = Tally(Scanned(method, snapshot))
    BY DEF ExactCount
  <2>1. Counted = Scope
    BY DEF Inv, ResponseInv, Counted
  <2> QED
    BY <2>1 DEF Inv, ResponseInv, CountInv, Scope
<1> QED
  BY <1>1, InitInv, StepInv, PTL DEF Spec

-------------------------------------------------------------------------------
\* How a handler is left.
ExitInv ==
  /\ pc \in {"finally", "run", "answered"} => (response = None <=> exception)
  /\ pc \notin {"finally", "run", "answered"} => response = None /\ ~exception
  /\ pc \in {"run", "answered", "thrown"} => scanner # "open"

\* Every step keeps it.
LEMMA ExitStep == TypeOK /\ ExitInv /\ [Next]_vars => ExitInv'
<1> SUFFICES ASSUME TypeOK, ExitInv, [Next]_vars PROVE ExitInv'
  OBVIOUS
<1> USE DEF ExitInv, region, scan, locals
<1>1. CASE GetScanner \/ ScannerNext \/ CountCell
  <2>1. /\ pc \in {"call", "next", "each"} /\ pc' \in {"next", "each"}
        /\ UNCHANGED <<response, exception>>
    BY <1>1 DEF GetScanner, ScannerNext, CountCell
  <2> QED
    BY <2>1
<1>2. CASE EndBatch
  BY <1>2, RegionCountAssumption DEF EndBatch, TypeOK
<1>3. CASE IOException \/ UncheckedException \/ Run
  BY <1>3 DEF IOException, UncheckedException, Run
<1>4. CASE Finally
  BY <1>4, RegionCountAssumption DEF Finally, TypeOK
<1>5. CASE WriteCell
  BY <1>5 DEF WriteCell
<1>6. CASE UNCHANGED vars
  BY <1>6 DEF vars
<1> QED
  BY <1>1, <1>2, <1>3, <1>4, <1>5, <1>6 DEF Next, Handler, Done

\* A count or an exception, and no open scanner (71-80).
THEOREM ExitIsClean == Spec => []CleanExit
<1>1. Init => ExitInv
  BY DEF Init, ExitInv
<1>2. ExitInv => CleanExit
  BY DEF ExitInv, CleanExit
<1> QED
  BY <1>1, <1>2, ExitStep, TypeCorrect, PTL DEF Spec

-------------------------------------------------------------------------------
(* The scan delivers what there is to count: one cell of each column, or one *)
(* of each row.                                                              *)

\* A set of natural numbers has a least element.
LEMMA LeastElement ==
  ASSUME NEW S, S \subseteq Nat, S # {}
  PROVE  \E x \in S : \A y \in S : x <= y
<1> DEFINE R == OpToRel(<, Nat)
<1>1. IsWellFoundedOn(R, Nat)
  BY NatLessThanWellFounded
<1>2. \A x, y \in Nat : <<x, y>> \in R <=> x < y
  BY DEF OpToRel
<1> HIDE DEF R
<1>3. PICK x \in S : \A y \in S : ~(<<y, x>> \in R)
  BY <1>1, WFMin
<1>4. ASSUME NEW y \in S PROVE x <= y
  <2>1. x \in Nat /\ y \in Nat /\ ~(y < x)
    BY <1>2, <1>3
  <2> QED
    BY <2>1
<1> QED
  BY <1>4

\* A finite one has a greatest element: the one with the fewest above it.
LEMMA GreatestElement ==
  ASSUME NEW S, S \subseteq Nat, IsFiniteSet(S), S # {}
  PROVE  \E x \in S : \A y \in S : y <= x
<1> DEFINE Above(x) == {y \in S : y > x}
<1> DEFINE T == {Cardinality(Above(x)) : x \in S}
<1>1. \A x \in S : IsFiniteSet(Above(x)) /\ Cardinality(Above(x)) \in Nat
  <2>1. \A x \in S : Above(x) \subseteq S
    OBVIOUS
  <2> HIDE DEF Above
  <2> QED
    BY <2>1, FS_Subset, FS_CardinalityType
<1>2. PICK n \in T : \A m \in T : n <= m
  <2>1. T \subseteq Nat /\ T # {}
    BY <1>1
  <2> HIDE DEF T
  <2> QED
    BY <2>1, LeastElement
<1>3. PICK x \in S : n = Cardinality(Above(x))
  OBVIOUS
<1>4. ASSUME NEW y \in S, ~(y <= x) PROVE FALSE
  <2>1. x \in Nat /\ y \in Nat /\ y > x
    BY <1>4
  <2>2. Above(y) \subseteq Above(x) /\ y \in Above(x) /\ y \notin Above(y)
    <3>1. \A z \in S : z > y => z > x
      BY <2>1
    <3>2. Above(y) \subseteq Above(x)
      BY <3>1
    <3>3. ~(y > y)
      BY <2>1
    <3> QED
      BY <2>1, <3>2, <3>3
  <2>3. Cardinality(Above(x)) <= Cardinality(Above(y))
    BY <1>2, <1>3
  <2> HIDE DEF Above, T
  <2>4. Cardinality(Above(y)) < Cardinality(Above(x))
    BY <1>1, <2>2, FS_Subset
  <2> QED
    BY <1>1, <2>3, <2>4
<1> QED
  BY <1>4

\* Each column that has a cell has a newest one.
LEMMA NewestOfColumn ==
  ASSUME NEW S, S \subseteq Cells, NEW c \in S
  PROVE  \E d \in Newest(S) : d.row = c.row /\ d.col = c.col
<1> DEFINE V == {d \in S : d.row = c.row /\ d.col = c.col}
<1> DEFINE T == {d.ts : d \in V}
<1>1. IsFiniteSet(V)
  <2>1. V \subseteq S
    OBVIOUS
  <2> HIDE DEF V
  <2> QED
    BY <2>1, CellsFinite, FS_Subset
<1>2. IsFiniteSet(T)
  <2> DEFINE f == [d \in V |-> d.ts]
  <2>1. f \in [V -> T] /\ \A t \in T : \E d \in V : f[d] = t
    <3> HIDE DEF V
    <3> QED
      OBVIOUS
  <2> HIDE DEF V, T, f
  <2>2. f \in Surjection(V, T)
    BY <2>1, Fun_IsSurj
  <2> QED
    BY <1>1, <2>2, FS_Surjection
<1>3. T \subseteq Nat /\ T # {}
  BY RegionCountAssumption DEF Cells
<1>4. PICK t \in T : \A u \in T : u <= t
  <2> HIDE DEF T
  <2> QED
    BY <1>2, <1>3, GreatestElement
<1>5. PICK d \in V : t = d.ts
  OBVIOUS
<1>6. d \in S /\ d.row = c.row /\ d.col = c.col
  OBVIOUS
<1>7. \A e \in S : e.row = d.row /\ e.col = d.col => e.ts <= d.ts
  BY <1>4, <1>5
<1> QED
  BY <1>6, <1>7 DEF Newest

\* Of each column one cell, of each row one cell.
LEMMA ColumnsOnce ==
  ASSUME NEW S, S \subseteq Cells
  PROVE  Cardinality(Newest(S)) = Cardinality({<<c.row, c.col>> : c \in S})
<1> DEFINE N == Newest(S)
<1> DEFINE P == {<<c.row, c.col>> : c \in S}
<1> DEFINE f == [c \in N |-> <<c.row, c.col>>]
<1>1. N \subseteq S /\ N \subseteq Cells
  BY DEF Newest
<1>2. f \in [N -> P]
  BY <1>1
<1>3. \A c, d \in N : f[c] = f[d] => c = d
  <2> SUFFICES ASSUME NEW c \in N, NEW d \in N, f[c] = f[d] PROVE c = d
    OBVIOUS
  <2>1. c.row = d.row /\ c.col = d.col
    OBVIOUS
  <2>2. c.ts <= d.ts /\ d.ts <= c.ts
    BY <1>1, <2>1 DEF Newest
  <2>3. c.ts \in Nat /\ d.ts \in Nat
    BY <1>1, RegionCountAssumption DEF Cells
  <2>4. c.ts = d.ts
    BY <2>2, <2>3
  <2>5. c \in Cells /\ d \in Cells
    BY <1>1
  <2> QED
    BY <2>1, <2>4, <2>5 DEF Cells
<1>4. \A p \in P : \E d \in N : f[d] = p
  <2> SUFFICES ASSUME NEW c \in S PROVE \E d \in N : f[d] = <<c.row, c.col>>
    OBVIOUS
  <2>1. PICK d \in N : d.row = c.row /\ d.col = c.col
    BY NewestOfColumn
  <2> QED
    BY <2>1
<1> HIDE DEF N, P, f
<1>5. f \in Bijection(N, P)
  BY <1>2, <1>3, <1>4, Fun_IsBij
<1>6. IsFiniteSet(N)
  BY <1>1, CellsFinite
<1>7. Cardinality(P) = Cardinality(N)
  BY <1>5, <1>6, FS_Bijection DEF ExistsBijection
<1> QED
  BY <1>7 DEF N, P

LEMMA RowsOnce ==
  ASSUME NEW S, S \subseteq Cells
  PROVE  RowsOf(FirstKeys(Newest(S))) = RowsOf(S)
<1>1. ASSUME NEW c \in S PROVE c.row \in RowsOf(FirstKeys(Newest(S)))
  <2> DEFINE C == {d.col : d \in {e \in Newest(S) : e.row = c.row}}
  <2>1. Newest(S) \subseteq Cells
    BY DEF Newest
  <2>2. C \subseteq Nat /\ C # {}
    <3>1. \E d \in Newest(S) : d.row = c.row
      BY NewestOfColumn
    <3>2. \A d \in Cells : d.col \in Nat
      BY RegionCountAssumption DEF Cells
    <3> QED
      BY <2>1, <3>1, <3>2
  <2>3. PICK q \in C : \A r \in C : q <= r
    <3> HIDE DEF C
    <3> QED
      BY <2>2, LeastElement
  <2>4. PICK d \in Newest(S) : d.row = c.row /\ d.col = q
    OBVIOUS
  <2>5. d \in FirstKeys(Newest(S))
    BY <2>3, <2>4 DEF FirstKeys
  <2> QED
    BY <2>4, <2>5 DEF RowsOf
<1>2. FirstKeys(Newest(S)) \subseteq S
  BY DEF FirstKeys, Newest
<1> QED
  BY <1>1, <1>2 DEF RowsOf

\* So the tally of a whole scan is what there is to count.
LEMMA ScanIsWhole ==
  ASSUME NEW S, S \subseteq Cells
  PROVE  Tally(Scanned(method, S)) = Total(S)
BY ColumnsOnce, RowsOnce DEF Tally, Scanned, Total

-------------------------------------------------------------------------------
(* The call counts at the moment it makes its scanner.                       *)

\* A handler that reads or answers has made its scanner.
ScannerInv ==
  /\ pc = "call" => scanner = None
  /\ pc \in {"next", "each"} => scanner # None
  /\ response # None => scanner # None

CountedInv == TypeOK /\ ExactCount /\ ExitInv /\ ScannerInv

\* Every step keeps it.
LEMMA ScannerStep == TypeOK /\ ScannerInv /\ [Next]_vars => ScannerInv'
<1> SUFFICES ASSUME TypeOK, ScannerInv, [Next]_vars PROVE ScannerInv'
  OBVIOUS
<1> USE DEF ScannerInv, region, scan, locals
<1>1. CASE GetScanner
  BY <1>1, RegionCountAssumption DEF GetScanner
<1>2. CASE ScannerNext \/ CountCell
  BY <1>2 DEF ScannerNext, CountCell
<1>3. CASE EndBatch
  BY <1>3 DEF EndBatch
<1>4. CASE IOException \/ UncheckedException \/ Run
  BY <1>4 DEF IOException, UncheckedException, Run
<1>5. CASE Finally
  BY <1>5, RegionCountAssumption DEF Finally
<1>6. CASE WriteCell
  BY <1>6 DEF WriteCell
<1>7. CASE UNCHANGED vars
  BY <1>7 DEF vars
<1> QED
  BY <1>1, <1>2, <1>3, <1>4, <1>5, <1>6, <1>7 DEF Next, Handler, Done

\* There is a number of things to count.
LEMMA TotalIsNumber ==
  ASSUME NEW S, S \subseteq Cells PROVE Total(S) \in Nat
<1>1. Newest(S) \subseteq Cells
  BY DEF Newest
<1> QED
  BY <1>1, CellsFinite, ColumnsOnce, FS_CardinalityType DEF Total

\* What the caller sees of a call.
LEMMA CallBegins == Init => Counting!Init
<1> SUFFICES ASSUME Init PROVE Counting!Init
  OBVIOUS
<1>1. Total(cells) \in Nat
  BY TotalIsNumber DEF Init
<1>2. Phase = "called" /\ Taken = None /\ Answer = None
  BY DEF Init, Phase, Taken, Answer
<1> QED
  BY <1>1, <1>2 DEF Counting!Init

\* Every step is one of Counter's, or the caller sees nothing of it.
LEMMA CallStep ==
  CountedInv /\ CountedInv' /\ [Next]_vars => [Counting!Next]_(Counting!cvars)
<1> SUFFICES ASSUME CountedInv, CountedInv', [Next]_vars
             PROVE  Counting!Next \/ UNCHANGED Counting!cvars
  OBVIOUS
<1> USE DEF region, scan, locals
<1>0. cells \in SUBSET Cells /\ cells' \in SUBSET Cells /\ snapshot \in SUBSET Cells
  BY DEF CountedInv, TypeOK
<1>1. ASSUME UNCHANGED <<cells, method>> PROVE Total(cells)' = Total(cells)
  BY <1>1 DEF Total
<1>2. ASSUME UNCHANGED <<snapshot, method>>, scanner = None <=> scanner' = None
      PROVE  Taken' = Taken
  BY <1>2 DEF Taken, Total
<1>3. CASE GetScanner
  <2>1. Phase = "called" /\ Phase' = "taken" /\ Answer' = Answer
    BY <1>3, RegionCountAssumption
    DEF GetScanner, Phase, Answer, CountedInv, ScannerInv
  <2>2. Taken' = Total(cells)
    BY <1>3, RegionCountAssumption DEF GetScanner, Taken, Total
  <2>3. Total(cells)' = Total(cells)
    BY <1>1, <1>3 DEF GetScanner
  <2> QED
    BY <2>1, <2>2, <2>3 DEF Counting!Next, Counting!Take
<1>4. CASE ScannerNext \/ CountCell \/ EndBatch \/ IOException \/ UncheckedException
  <2>1. /\ UNCHANGED <<cells, method, snapshot, scanner>>
        /\ pc \notin {"answered", "thrown"} /\ pc' \notin {"answered", "thrown"}
    BY <1>4 DEF ScannerNext, CountCell, EndBatch, IOException, UncheckedException
  <2>2. Phase' = Phase /\ Answer' = Answer
    BY <2>1 DEF Phase, Answer
  <2> QED
    BY <1>1, <1>2, <2>1, <2>2 DEF Counting!cvars
<1>5. CASE Finally
  <2>1. UNCHANGED <<cells, method, snapshot>> /\ (scanner = None <=> scanner' = None)
    BY <1>5, RegionCountAssumption DEF Finally
  <2>2. Total(cells)' = Total(cells) /\ Taken' = Taken /\ Answer' = Answer
    BY <1>1, <1>2, <1>5, <2>1 DEF Finally, Answer
  <2>3. CASE pc = "finally"
    <3>1. Phase' = Phase
      BY <1>5, <2>1, <2>3 DEF Finally, Phase
    <3> QED
      BY <2>2, <3>1 DEF Counting!cvars
  <2>4. CASE pc = "unwind"
    <3>1. Phase \in {"called", "taken"} /\ Phase' = "failed"
      BY <1>5, <2>4 DEF Finally, Phase
    <3> QED
      BY <2>2, <3>1 DEF Counting!Next, Counting!Fail
  <2> QED
    BY <1>5, <2>3, <2>4 DEF Finally
<1>6. CASE Run
  <2>1. UNCHANGED <<cells, method, snapshot, scanner, response>>
    BY <1>6 DEF Run
  <2>2. Total(cells)' = Total(cells) /\ Taken' = Taken
    BY <1>1, <1>2, <2>1
  <2>3. CASE response # None
    <3>1. Phase = "taken" /\ Phase' = "answered" /\ Answer' = response
      BY <1>6, <2>1, <2>3 DEF Run, Phase, Answer, CountedInv, ScannerInv
    <3>2. response = Taken
      <4>1. response = Tally(Scanned(method, snapshot)) /\ scanner # None
        BY <2>3 DEF CountedInv, ExactCount, ScannerInv
      <4> QED
        BY <1>0, <4>1, ScanIsWhole DEF Taken
    <3> QED
      BY <2>2, <3>1, <3>2 DEF Counting!Next, Counting!Answer
  <2>4. CASE response = None
    <3>1. /\ Phase \in {"called", "taken"} /\ Phase' = "failed"
          /\ Answer' = Answer
      BY <1>6, <2>1, <2>4 DEF Run, Phase, Answer
    <3> QED
      BY <2>2, <3>1 DEF Counting!Next, Counting!Fail
  <2> QED
    BY <2>3, <2>4
<1>7. CASE WriteCell
  <2>1. UNCHANGED <<Phase, Taken, Answer>>
    BY <1>7 DEF WriteCell, Phase, Taken, Answer, Total
  <2>2. Total(cells)' \in Nat
    <3>1. Total(cells)' = Total(cells')
      BY <1>7 DEF WriteCell, Total
    <3> QED
      BY <1>0, <3>1, TotalIsNumber
  <2> QED
    BY <2>1, <2>2 DEF Counting!Next, Counting!Write
<1>8. CASE UNCHANGED vars
  <2>1. UNCHANGED <<Phase, Taken, Answer>> /\ Total(cells)' = Total(cells)
    BY <1>8 DEF vars, Phase, Taken, Answer, Total
  <2> QED
    BY <2>1 DEF Counting!cvars
<1> QED
  BY <1>3, <1>4, <1>5, <1>6, <1>7, <1>8 DEF Next, Handler, Done

\* The handlers do what module Counter promises, as far as safety goes: the
\* answer is what the region held at the moment the scanner was made, however
\* the scan is cut into batches and whoever writes to the region meanwhile.
THEOREM CountsAsPromised ==
  Spec => Counting!Init /\ [][Counting!Next]_(Counting!cvars)
<1>1. Init => ScannerInv
  BY DEF Init, ScannerInv
<1>2. Init => ExitInv
  BY DEF Init, ExitInv
<1>3. TypeOK /\ ExactCount /\ ExitInv /\ ScannerInv <=> CountedInv
  BY DEF CountedInv
<1> QED
  BY <1>1, <1>2, <1>3, ExitStep, ScannerStep, TypeCorrect, CountIsExact,
     CallBegins, CallStep, PTL DEF Spec
===============================================================================
