-------------------------- MODULE TablesStatus_proofs --------------------------
(***************************************************************************)
(* Proofs about DemoTable and TablesStatus for any tables, any number of   *)
(* rows and a clock that moves or stands still as it likes.                *)
(***************************************************************************)
EXTENDS TablesStatus, FiniteSetTheorems, TLAPS

Before == {"getTableNames", "isTableEnabled", "disableTable", "deleteTable",
           "createTable", "getColumnDescriptors", "scannerOpen", "scannerGet",
           "scannerClose", "columnsAgain"}
Stopped == {"end", "error", "aborted", "shouldn't get here"}

\* Where the demo client is: the steps of the loop's body are counted from one,
\* and only there, and a scanner is open only between its calls.
PlaceInv ==
  /\ pc \in Before \cup {"firstRows", "row"} \cup Stopped
  /\ pc \in Before => step = 1
  /\ pc = "firstRows" => step \in 1..3
  /\ step \in 1..15
  /\ i \in 0..(LastRow + 1)
  /\ pc = "row" => i <= LastRow
  /\ scanner # None => pc \in {"scannerGet", "scannerClose", "error"}
  /\ scanner = None \/ scanner \subseteq RowsThere
  /\ pc \in {"scannerGet", "scannerClose"} => scanner \subseteq RowsThere

\* What the table holds is of the past or the present.
StoreInv ==
  /\ tables \in [Others \cup {Demo} -> {"absent", "enabled", "disabled"}]
  /\ now \in Nat /\ now >= 2
  /\ \A c \in cells : c.ts \in Nat /\ c.ts <= now /\ c.col \in Columns
  /\ \A m \in marks : m.ts \in Nat /\ m.ts <= now /\ m.col \in Columns

\* Since the pause no mark hides what is written into the row now ...
MarksPast ==
  \A m \in marks : m.row = i /\ m.col \in {"entry:num", "entry:sqr"} => m.ts < now

\* ... foo has been deleted after it was written ...
FooGone ==
  \E m \in marks : /\ m.row = i /\ m.col = "entry:foo"
                   /\ \A c \in cells : c.row = i /\ c.col = "entry:foo" => c.ts <= m.ts

\* ... and num and sqr are newer than all else in their columns.
Newest(col, ts, value) ==
  /\ Cell(i, col, ts, value) \in cells
  /\ \A m \in marks : m.row = i /\ m.col = col => m.ts < ts
  /\ \A c \in cells : c.row = i /\ c.col = col => c.ts <= ts /\ (c.ts = ts => c.value = value)

Written == \E ts \in 2..now : Newest("entry:num", ts, i) /\ Newest("entry:sqr", ts, i * i)

\* How far the row has come at each step of the loop's body.
RowInv ==
  pc = "row" =>
    /\ step >= 7 => MarksPast
    /\ step >= 8 => FooGone
    /\ step >= 10 => Written
    /\ step = 14 => versions # {}

DemoInv == PlaceInv /\ StoreInv /\ RowInv /\ AssertionsHold

EnabledOthers == {t \in Others : tables[t] = "enabled"}

\* What a status client has found out, while only demo_table changes.
FoldInv ==
  /\ spc = "getTableNames" => acc = 0 /\ lines = {} /\ listed = {} /\ names = {}
  /\ spc = "getTableRegions" => program = Newer
  /\ spc \in {"next", "getTableRegions", "end"} =>
       /\ listed \ {Demo} = {t \in Others : tables[t] # "absent"}
       /\ lines \ {Demo} = EnabledOthers \ names
       /\ lines \subseteq listed \ names
       /\ Cardinality(EnabledNow) \in counts
       /\ Demo \in lines => Cardinality(EnabledOthers) + 1 \in counts
       /\ Demo \notin lines /\ Demo \notin names => Cardinality(EnabledOthers) \in counts
       /\ IF program = Older THEN acc = Cardinality(lines)
          ELSE IF spc = "getTableRegions" THEN acc + 1 = Cardinality(listed \ names)
          ELSE acc = Cardinality(listed \ names)
  /\ spc = "end" => names = {}

StatusType ==
  /\ program \in {Newer, Older}
  /\ spc \in {"getTableNames", "next", "getTableRegions", "end", "error"}
  /\ listed \subseteq DOMAIN tables /\ names \subseteq listed /\ lines \subseteq listed
  /\ acc \in 0..Cardinality(listed \ names)

Inv == DemoInv /\ StatusType /\ FoldInv

-------------------------------------------------------------------------------
(* The loop's body *)

\* The calls of the body, by their number.
LEMMA BodyCalls ==
  /\ Len(Body) = 15
  /\ Body[1] = Put({<<"unused:", None>>}) /\ Body[2] = GetRow
  /\ Body[3] = [op |-> "deleteAllRow"]
  /\ Body[4] = Put({<<"entry:num", 0>>, <<"entry:foo", None>>}) /\ Body[5] = GetRow
  /\ Body[6] = [op |-> "poll"]
  /\ Body[7] = [op |-> "mutateRow", puts |-> {<<"entry:num", -1>>}, deletes |-> {"entry:foo"}]
  /\ Body[8] = GetRow
  /\ Body[9] = Put({<<"entry:num", i>>, <<"entry:sqr", i * i>>}) /\ Body[10] = GetRow
  /\ Body[11] = [op |-> "mutateRowTs", puts |-> {<<"entry:num", -999>>},
                 deletes |-> {"entry:sqr"}]
  /\ Body[12] = GetRow /\ Body[13] = [op |-> "getVer"]
  /\ Body[14] = [op |-> "assert"] /\ Body[15] = [op |-> "get"]
  BY DEF Body

\* Each call of the body is made at its own steps.
LEMMA BodySteps ==
  ASSUME step \in 1..15
  PROVE  /\ At("mutateRow") => step \in {1, 4, 7, 9}
         /\ At("getRow") => step \in {2, 5, 8, 10, 12}
         /\ At("deleteAllRow") => step = 3
         /\ At("poll") => step = 6
         /\ At("mutateRowTs") => step = 11
         /\ At("getVer") => step = 13
         /\ At("assert") => step = 14
         /\ At("get") => step = 15
<1>1. \A k \in 1..15 : k \in {1,2,3,4,5,6,7,8,9,10,11,12,13,14,15}
  OBVIOUS
<1>2. /\ Body[1].op = "mutateRow" /\ Body[2].op = "getRow" /\ Body[3].op = "deleteAllRow"
      /\ Body[4].op = "mutateRow" /\ Body[5].op = "getRow" /\ Body[6].op = "poll"
      /\ Body[7].op = "mutateRow" /\ Body[8].op = "getRow" /\ Body[9].op = "mutateRow"
      /\ Body[10].op = "getRow" /\ Body[11].op = "mutateRowTs" /\ Body[12].op = "getRow"
      /\ Body[13].op = "getVer" /\ Body[14].op = "assert" /\ Body[15].op = "get"
  BY BodyCalls DEF Put, GetRow
<1> QED
  BY <1>1, <1>2 DEF At

\* What a write leaves in the table: its own cells instead of those with the
\* same timestamp, all others, and its marks.
LEMMA ApplyEffect ==
  ASSUME NEW row, NEW puts, NEW deletes, NEW ts, Apply(row, puts, deletes, ts)
  PROVE  /\ \A c \in cells' : \/ c \in cells
                                 /\ ~\E p \in puts : c.row = row /\ c.col = p[1] /\ c.ts = ts
                              \/ \E p \in puts : c = Cell(row, p[1], ts, p[2])
         /\ \A p \in puts : Cell(row, p[1], ts, p[2]) \in cells'
         /\ \A c \in cells : \/ c \in cells'
                             \/ c.ts = ts /\ \E p \in puts : c.col = p[1]
         /\ \A m \in marks' : m \in marks \/ \E col \in deletes : m = Mark(row, col, ts)
         /\ \A m \in marks : m \in marks'
         /\ \A col \in deletes : Mark(row, col, ts) \in marks'
         /\ tables' = tables /\ now' = now
<1> DEFINE new == {Cell(row, p[1], ts, p[2]) : p \in puts}
           old == {c \in cells : \E n \in new : n.row = c.row /\ n.col = c.col /\ n.ts = c.ts}
<1>1. /\ cells' = (cells \ old) \cup new
      /\ marks' = marks \cup {Mark(row, col, ts) : col \in deletes}
      /\ tables' = tables /\ now' = now
  BY DEF Apply
<1>2. \A p \in puts : /\ Cell(row, p[1], ts, p[2]) \in new
                      /\ Cell(row, p[1], ts, p[2]).row = row
                      /\ Cell(row, p[1], ts, p[2]).col = p[1]
                      /\ Cell(row, p[1], ts, p[2]).ts = ts
  BY DEF Cell
<1>3. \A n \in new : \E p \in puts : n = Cell(row, p[1], ts, p[2])
  OBVIOUS
<1>4. \A c \in cells : c \in old <=> \E p \in puts : c.row = row /\ c.col = p[1] /\ c.ts = ts
  BY <1>2, <1>3
<1> HIDE DEF new, old
<1> QED
  BY <1>1, <1>2, <1>3, <1>4

\* A write of today or of yesterday keeps the table's cells and marks typed.
LEMMA ApplyStore ==
  ASSUME StoreInv, NEW row, NEW puts, NEW deletes \in SUBSET Columns, NEW ts \in 1..now,
         \A p \in puts : p[1] \in Columns, Apply(row, puts, deletes, ts)
  PROVE  StoreInv'
<1>1. \A p \in puts : LET c == Cell(row, p[1], ts, p[2])
                      IN c.ts = ts /\ c.col = p[1]
  BY DEF Cell
<1>2. \A col \in deletes : Mark(row, col, ts).ts = ts /\ Mark(row, col, ts).col = col
  BY DEF Mark
<1>3. tables' = tables /\ now' = now
  BY ApplyEffect
<1>4. \A c \in cells' : c.ts \in Nat /\ c.ts <= now /\ c.col \in Columns
  <2> SUFFICES ASSUME NEW c \in cells' PROVE c.ts \in Nat /\ c.ts <= now /\ c.col \in Columns
    OBVIOUS
  <2>1. c \in cells \/ \E p \in puts : c = Cell(row, p[1], ts, p[2])
    BY ApplyEffect
  <2> QED
    BY <1>1, <2>1 DEF StoreInv
<1>5. \A m \in marks' : m.ts \in Nat /\ m.ts <= now /\ m.col \in Columns
  <2> SUFFICES ASSUME NEW m \in marks' PROVE m.ts \in Nat /\ m.ts <= now /\ m.col \in Columns
    OBVIOUS
  <2>1. m \in marks \/ \E col \in deletes : m = Mark(row, col, ts)
    BY ApplyEffect
  <2> QED
    BY <1>2, <2>1 DEF StoreInv
<1> QED
  BY <1>3, <1>4, <1>5 DEF StoreInv

-------------------------------------------------------------------------------
(* The demo client *)

\* The client starts with an empty table and before its first call.
LEMMA DemoInvInit == DInit => DemoInv
  BY DemoAssumption
     DEF DInit, DemoInv, PlaceInv, StoreInv, RowInv, AssertionsHold, Before, Stopped

\* The loop goes on to the next call, or to the first one of the next row.
LEMMA NextCall ==
  ASSUME PlaceInv, pc = "row", NextStep, scanner' = scanner
  PROVE  /\ PlaceInv' /\ AssertionsHold'
         /\ IF step < 15 THEN step' = step + 1 /\ i' = i /\ pc' = "row" ELSE step' = 1
<1>1. IF step < 15 THEN step' = step + 1 /\ i' = i /\ pc' = "row"
      ELSE step' = 1 /\ i' = i + 1 /\ pc' = IF i < LastRow THEN "row" ELSE "columnsAgain"
  BY BodyCalls DEF NextStep, Goto
<1>2. scanner' = None
  BY DEF PlaceInv
<1>3. step \in 1..15 /\ i \in 0..LastRow /\ LastRow \in Nat
  BY DemoAssumption DEF PlaceInv
<1>4. ASSUME step < 15 PROVE PlaceInv'
  BY <1>1, <1>2, <1>3, <1>4 DEF PlaceInv, Before
<1>5. ASSUME ~(step < 15) PROVE PlaceInv'
  <2>1. step' = 1 /\ i' = i + 1 /\ i' \in 0..(LastRow + 1)
    BY <1>1, <1>3, <1>5
  <2>2. CASE i < LastRow
    <3>1. pc' = "row" /\ i' <= LastRow
      BY <1>1, <1>3, <1>5, <2>2
    <3> QED
      BY <1>2, <1>5, <2>1, <3>1 DEF PlaceInv, Before
  <2>3. CASE ~(i < LastRow)
    <3>1. pc' = "columnsAgain"
      BY <1>1, <1>5, <2>3
    <3> QED
      BY <1>2, <1>5, <2>1, <3>1 DEF PlaceInv, Before
  <2> QED
    BY <2>2, <2>3
<1>6. AssertionsHold'
  BY <1>1 DEF AssertionsHold
<1> QED
  BY <1>1, <1>4, <1>5, <1>6

\* What has come about in a row stays while only the clock moves.
LEMMA RowKept ==
  ASSUME StoreInv, i' = i, UNCHANGED <<cells, marks>>, now' \in Nat, now' >= now
  PROVE  (MarksPast => MarksPast') /\ (FooGone => FooGone') /\ (Written => Written')
<1>1. MarksPast => MarksPast'
  BY DEF MarksPast, StoreInv
<1>2. FooGone => FooGone'
  BY DEF FooGone
<1>3. ASSUME Written PROVE Written'
  <2>1. PICK ts \in 2..now : Newest("entry:num", ts, i) /\ Newest("entry:sqr", ts, i * i)
    BY <1>3 DEF Written
  <2>2. ts \in 2..now'
    BY DEF StoreInv
  <2>3. Newest("entry:num", ts, i)' /\ Newest("entry:sqr", ts, i * i)'
    BY <2>1 DEF Newest, Cell
  <2> QED
    BY <2>2, <2>3 DEF Written
<1> QED
  BY <1>1, <1>2, <1>3

\* The deletion of foo at step 7: of its own time, and of no other column.
LEMMA DeletesFoo ==
  ASSUME StoreInv, MarksPast, i' = i, Apply(i, {<<"entry:num", -1>>}, {"entry:foo"}, now)
  PROVE  MarksPast' /\ FooGone'
<1> DEFINE m == Mark(i, "entry:foo", now)
<1>1. m.row = i /\ m.col = "entry:foo" /\ m.ts = now
  BY DEF Mark
<1>2. now' = now /\ m \in marks' /\ \A n \in marks' : n \in marks \/ n = m
  BY ApplyEffect
<1>3. \A c \in cells' : c \in cells \/ c = Cell(i, "entry:num", now, -1)
  BY ApplyEffect
<1>4. Cell(i, "entry:num", now, -1).col = "entry:num"
  BY DEF Cell
<1> HIDE DEF m
<1>5. MarksPast'
  BY <1>1, <1>2 DEF MarksPast
<1>6. FooGone'
  BY <1>1, <1>2, <1>3, <1>4 DEF FooGone, StoreInv
<1> QED
  BY <1>5, <1>6

\* The write of num and sqr at step 9 is newer than the marks.
LEMMA WritesNumbers ==
  ASSUME StoreInv, MarksPast, FooGone, i' = i, i \in Nat,
         Apply(i, {<<"entry:num", i>>, <<"entry:sqr", i * i>>}, {}, now)
  PROVE  MarksPast' /\ FooGone' /\ Written'
<1> DEFINE n == Cell(i, "entry:num", now, i)
           s == Cell(i, "entry:sqr", now, i * i)
<1>1. /\ n.row = i /\ n.col = "entry:num" /\ n.ts = now /\ n.value = i
      /\ s.row = i /\ s.col = "entry:sqr" /\ s.ts = now /\ s.value = i * i
  BY DEF Cell
<1> DEFINE puts == {<<"entry:num", i>>, <<"entry:sqr", i * i>>}
<1>p. \A p \in puts : \/ p[1] = "entry:num" /\ p[2] = i
                      \/ p[1] = "entry:sqr" /\ p[2] = i * i
  <2>1. \A p \in puts : p = <<"entry:num", i>> \/ p = <<"entry:sqr", i * i>>
    OBVIOUS
  <2>2. <<"entry:num", i>>[1] = "entry:num" /\ <<"entry:num", i>>[2] = i
    OBVIOUS
  <2>3. <<"entry:sqr", i * i>>[1] = "entry:sqr" /\ <<"entry:sqr", i * i>>[2] = i * i
    OBVIOUS
  <2> HIDE DEF puts
  <2> TAKE p \in puts
  <2>4. CASE p = <<"entry:num", i>>
    BY <2>2, <2>4
  <2>5. CASE p = <<"entry:sqr", i * i>>
    BY <2>3, <2>5
  <2> QED
    BY <2>1, <2>4, <2>5
<1>q. <<"entry:num", i>> \in puts /\ <<"entry:sqr", i * i>> \in puts
  OBVIOUS
<1>a. Apply(i, puts, {}, now)
  OBVIOUS
<1> HIDE DEF puts
<1>2. now' = now /\ n \in cells' /\ s \in cells'
  BY <1>a, <1>p, <1>q, ApplyEffect
<1>3. \A m : m \in marks' <=> m \in marks
  BY <1>a, ApplyEffect
<1>4. \A c \in cells' : \/ c = n \/ c = s
                        \/ /\ c \in cells
                           /\ ~(c.row = i /\ c.col = "entry:num" /\ c.ts = now)
                           /\ ~(c.row = i /\ c.col = "entry:sqr" /\ c.ts = now)
  BY <1>a, <1>p, <1>q, ApplyEffect
<1>5. Newest("entry:num", now, i)' /\ Newest("entry:sqr", now, i * i)'
  <2>1. n = Cell(i, "entry:num", now, i)' /\ s = Cell(i, "entry:sqr", now, i * i)'
    BY <1>2 DEF Cell
  <2> HIDE DEF n, s
  <2>2. \A m \in marks' : m.row = i /\ m.col \in {"entry:num", "entry:sqr"} => m.ts < now
    BY <1>3 DEF MarksPast
  <2>3. \A c \in cells' : c.row = i /\ c.col = "entry:num" =>
                            c.ts <= now /\ (c.ts = now => c.value = i)
    BY <1>1, <1>4 DEF StoreInv
  <2>4. \A c \in cells' : c.row = i /\ c.col = "entry:sqr" =>
                            c.ts <= now /\ (c.ts = now => c.value = i * i)
    BY <1>1, <1>4 DEF StoreInv
  <2> QED
    BY <1>2, <2>1, <2>2, <2>3, <2>4 DEF Newest
<1>6. now \in 2..now'
  BY <1>2 DEF StoreInv
<1>7. Written'
  BY <1>2, <1>5, <1>6 DEF Written
<1> HIDE DEF n, s
<1>8. MarksPast'
  BY <1>2, <1>3 DEF MarksPast
<1>9. FooGone'
  BY <1>1, <1>3, <1>4 DEF FooGone
<1> QED
  BY <1>7, <1>8, <1>9

\* The write and the deletion of time 1 at step 11 are older than what shows.
LEMMA WritesThePast ==
  ASSUME StoreInv, MarksPast, FooGone, Written, i' = i,
         Apply(i, {<<"entry:num", -999>>}, {"entry:sqr"}, 1)
  PROVE  MarksPast' /\ FooGone' /\ Written'
<1> DEFINE n == Cell(i, "entry:num", 1, -999)
           d == Mark(i, "entry:sqr", 1)
<1>1. /\ n.row = i /\ n.col = "entry:num" /\ n.ts = 1
      /\ d.row = i /\ d.col = "entry:sqr" /\ d.ts = 1
  BY DEF Cell, Mark
<1>2. now' = now
  BY ApplyEffect
<1>3. \A m \in marks' : m \in marks \/ m = d
  BY ApplyEffect
<1>4. \A m \in marks : m \in marks'
  BY ApplyEffect
<1>5. \A c \in cells' : c = n \/ c \in cells
  BY ApplyEffect
<1>6. \A c \in cells : c \in cells' \/ c.ts = 1
  BY ApplyEffect
<1>7. PICK ts \in 2..now : Newest("entry:num", ts, i) /\ Newest("entry:sqr", ts, i * i)
  BY DEF Written
<1>8. /\ Cell(i, "entry:num", ts, i) \in cells' /\ Cell(i, "entry:sqr", ts, i * i) \in cells'
  <2>1. Cell(i, "entry:num", ts, i).ts = ts /\ Cell(i, "entry:sqr", ts, i * i).ts = ts
    BY DEF Cell
  <2> QED
    BY <1>6, <1>7, <2>1 DEF Newest
<1> HIDE DEF n, d
<1>9. ASSUME NEW col \in {"entry:num", "entry:sqr"}, NEW value, Newest(col, ts, value)
      PROVE  /\ \A m \in marks' : m.row = i /\ m.col = col => m.ts < ts
             /\ \A c \in cells' : c.row = i /\ c.col = col =>
                                    c.ts <= ts /\ (c.ts = ts => c.value = value)
  BY <1>1, <1>3, <1>5, <1>7, <1>9 DEF Newest
<1>10. Newest("entry:num", ts, i)' /\ Newest("entry:sqr", ts, i * i)'
  BY <1>7, <1>8, <1>9 DEF Newest, Cell
<1>11. Written'
  BY <1>2, <1>7, <1>10 DEF Written
<1>12. MarksPast'
  BY <1>1, <1>2, <1>3 DEF MarksPast, StoreInv
<1>13. FooGone'
  BY <1>1, <1>4, <1>5 DEF FooGone
<1> QED
  BY <1>11, <1>12, <1>13

\* A write into the row, of whatever time, is one of the body's.
LEMMA WriteSteps ==
  ASSUME DemoInv, MutateRow \/ MutateRowTs \/ DeleteAllRow
  PROVE  DemoInv'
<1> USE DEF DemoInv
<1>1. pc = "row" /\ NextStep /\ scanner' = scanner /\ step \in 1..15 /\ i \in Nat
  BY DemoAssumption DEF MutateRow, MutateRowTs, DeleteAllRow, At, PlaceInv
<1>2. /\ PlaceInv' /\ AssertionsHold'
      /\ IF step < 15 THEN step' = step + 1 /\ i' = i /\ pc' = "row" ELSE step' = 1
  BY <1>1, NextCall
<1>3. 1 \in 1..now /\ now \in 1..now
  BY DEF StoreInv
<1>4. CASE DeleteAllRow
  <2>1. step = 3
    BY <1>1, <1>4, BodySteps DEF DeleteAllRow
  <2>2. Apply(i, {}, Columns, now)
    BY <1>4 DEF DeleteAllRow
  <2>3. StoreInv'
    BY <1>3, <2>2, ApplyStore
  <2>9. RowInv'
    BY <1>2, <2>1, <2>3 DEF RowInv
  <2> QED
    BY <1>2, <2>3, <2>9 DEF DemoInv
<1>5. CASE MutateRowTs
  <2>1. step = 11
    BY <1>1, <1>5, BodySteps DEF MutateRowTs
  <2>2. Apply(i, {<<"entry:num", -999>>}, {"entry:sqr"}, 1)
    BY <1>5, <2>1, BodyCalls DEF MutateRowTs
  <2>3. StoreInv'
    BY <1>3, <2>2, ApplyStore DEF Columns
  <2>4. MarksPast' /\ FooGone' /\ Written'
    BY <1>1, <1>2, <2>1, <2>2, WritesThePast DEF RowInv
  <2>9. RowInv'
    BY <1>2, <2>1, <2>3, <2>4 DEF RowInv
  <2> QED
    BY <1>2, <2>3, <2>9 DEF DemoInv
<1>6. CASE MutateRow
  <2>1. step \in {1, 4, 7, 9}
    BY <1>1, <1>6, BodySteps DEF MutateRow
  <2>2. Apply(i, Body[step].puts, Body[step].deletes, now)
    BY <1>6 DEF MutateRow
  <2>3. CASE step = 1
    <3>1. Apply(i, {<<"unused:", None>>}, {}, now)
      BY <2>2, <2>3, BodyCalls DEF Put
    <3>2. StoreInv'
      BY <1>3, <3>1, ApplyStore DEF Columns
    <3>9. RowInv'
      BY <1>2, <2>3, <3>2 DEF RowInv
    <3> QED
      BY <1>2, <3>2, <3>9 DEF DemoInv
  <2>4. CASE step = 4
    <3>1. Apply(i, {<<"entry:num", 0>>, <<"entry:foo", None>>}, {}, now)
      BY <2>2, <2>4, BodyCalls DEF Put
    <3>2. StoreInv'
      BY <1>3, <3>1, ApplyStore DEF Columns
    <3>9. RowInv'
      BY <1>2, <2>4, <3>2 DEF RowInv
    <3> QED
      BY <1>2, <3>2, <3>9 DEF DemoInv
  <2>5. CASE step = 7
    <3>1. Apply(i, {<<"entry:num", -1>>}, {"entry:foo"}, now)
      BY <2>2, <2>5, BodyCalls
    <3>2. StoreInv'
      BY <1>3, <3>1, ApplyStore DEF Columns
    <3>3. MarksPast' /\ FooGone'
      BY <1>1, <1>2, <2>5, <3>1, DeletesFoo DEF RowInv
    <3>9. RowInv'
      BY <1>2, <2>5, <3>2, <3>3 DEF RowInv
    <3> QED
      BY <1>2, <3>2, <3>9 DEF DemoInv
  <2>6. CASE step = 9
    <3>1. Apply(i, {<<"entry:num", i>>, <<"entry:sqr", i * i>>}, {}, now)
      BY <2>2, <2>6, BodyCalls DEF Put
    <3>2. StoreInv'
      BY <1>3, <3>1, ApplyStore DEF Columns
    <3>3. MarksPast' /\ FooGone' /\ Written'
      BY <1>1, <1>2, <2>6, <3>1, WritesNumbers DEF RowInv
    <3>9. RowInv'
      BY <1>2, <2>6, <3>2, <3>3 DEF RowInv
    <3> QED
      BY <1>2, <3>2, <3>9 DEF DemoInv
  <2> QED
    BY <2>1, <2>3, <2>4, <2>5, <2>6
<1> QED
  BY <1>4, <1>5, <1>6

\* After step 10 getVer() has something to return.
LEMMA VersionsThere ==
  ASSUME Written PROVE Visible(i, "entry:num") # {}
<1>1. PICK ts \in 2..now : Newest("entry:num", ts, i)
  BY DEF Written
<1>2. LET c == Cell(i, "entry:num", ts, i)
      IN c.row = i /\ c.col = "entry:num" /\ c.ts = ts
  BY DEF Cell
<1> QED
  BY <1>1, <1>2 DEF Newest, Visible

\* After step 8 get() finds no foo.
LEMMA FooInvisible ==
  ASSUME StoreInv, FooGone PROVE Visible(i, "entry:foo") = {}
<1>1. PICK m \in marks : /\ m.row = i /\ m.col = "entry:foo"
                         /\ \A c \in cells : c.row = i /\ c.col = "entry:foo" => c.ts <= m.ts
  BY DEF FooGone
<1> QED
  BY <1>1 DEF Visible, StoreInv

\* The calls of the body that only read, the pause and the assertion.
LEMMA ReadSteps ==
  ASSUME DemoInv, ReadRow \/ Poll \/ GetVer \/ AssertVersions \/ GetFoo
  PROVE  DemoInv'
<1>i. PlaceInv /\ StoreInv /\ RowInv /\ AssertionsHold
  BY DEF DemoInv
<1>0. /\ pc = "row" /\ step \in 1..15
      /\ \/ ReadRow /\ step \in {2, 5, 8, 10, 12}
         \/ Poll /\ step = 6
         \/ GetVer /\ step = 13
         \/ AssertVersions /\ step = 14
         \/ GetFoo /\ step = 15
  <2>1. step \in 1..15
    BY <1>i DEF PlaceInv
  <2>2. /\ ReadRow => At("getRow") /\ pc = "row"
        /\ Poll => At("poll") /\ pc = "row"
        /\ GetVer => At("getVer") /\ pc = "row"
        /\ AssertVersions => At("assert") /\ pc = "row"
        /\ GetFoo => At("get") /\ pc = "row"
    BY DEF ReadRow, Poll, GetVer, AssertVersions, GetFoo, At
  <2> QED
    BY <2>1, <2>2, BodySteps
<1>1. UNCHANGED <<tables, cells, marks, scanner>> /\ now' = IF step = 6 THEN now + 1 ELSE now
  <2>1. CASE Poll
    BY <1>0, <2>1 DEF Poll, ReadRow, GetVer, AssertVersions, GetFoo, store
  <2>2. CASE ReadRow \/ GetVer \/ AssertVersions \/ GetFoo
    <3>1. UNCHANGED <<tables, cells, marks, now, scanner>>
      BY <2>2 DEF ReadRow, GetVer, AssertVersions, GetFoo, store
    <3>2. step = 6 => Poll
      BY <1>0
    <3> QED
      BY <3>1, <3>2 DEF Poll
  <2> QED
    BY <2>1, <2>2
<1>2. now' \in Nat /\ now' >= now /\ StoreInv'
  BY <1>i, <1>1 DEF StoreInv
<1>3. /\ step = 14 => versions # {}
      /\ step = 13 => Visible(i, "entry:num") # {}
      /\ step = 15 => Visible(i, "entry:foo") = {}
  BY <1>i, <1>0, VersionsThere, FooInvisible DEF RowInv
<1>4. NextStep
  BY <1>0, <1>3 DEF ReadRow, Poll, GetVer, AssertVersions, GetFoo
<1>5. /\ PlaceInv' /\ AssertionsHold'
      /\ IF step < 15 THEN step' = step + 1 /\ i' = i /\ pc' = "row" ELSE step' = 1
  BY <1>i, <1>0, <1>1, <1>4, NextCall
<1>6. step = 6 => MarksPast'
  BY <1>i, <1>1, <1>5 DEF MarksPast, StoreInv
<1>7. step = 13 => versions' # {}
  BY <1>0, <1>3 DEF GetVer
<1>8. RowInv'
  <2>1. CASE step < 15
    <3>1. (MarksPast => MarksPast') /\ (FooGone => FooGone') /\ (Written => Written')
      BY <1>i, <1>1, <1>2, <1>5, <2>1, RowKept
    <3>2. step # 7 /\ step # 9
      BY <1>0
    <3> QED
      BY <1>i, <1>0, <1>5, <1>6, <1>7, <2>1, <3>1, <3>2 DEF RowInv
  <2>2. CASE ~(step < 15)
    BY <1>5, <2>2 DEF RowInv
  <2> QED
    BY <2>1, <2>2
<1> QED
  BY <1>2, <1>5, <1>8 DEF DemoInv

\* Before the loop and after it: the table is made and written to, scanned and
\* asked for its columns.
LEMMA OtherSteps ==
  ASSUME DemoInv,
         \/ GetTableNames \/ IsTableEnabled \/ DisableTable \/ DeleteTable \/ CreateTable
         \/ GetColumnDescriptors \/ MutateFirstRow
         \/ ScannerOpen \/ ScannerGet \/ ScannerClose \/ ColumnsAgain
  PROVE  DemoInv'
<1>1. PlaceInv /\ StoreInv /\ RowInv /\ AssertionsHold
  BY DEF DemoInv
<1>2. CASE GetTableNames \/ IsTableEnabled \/ GetColumnDescriptors \/ ColumnsAgain
  <2>1. /\ pc' \in {"createTable", "isTableEnabled", "disableTable", "deleteTable",
                    "firstRows", "scannerOpen"}
        /\ pc \in Before /\ pc \notin {"scannerGet", "scannerClose"}
        /\ UNCHANGED <<store, i, step, versions, scanner>>
    BY <1>2 DEF GetTableNames, IsTableEnabled, GetColumnDescriptors, ColumnsAgain, Goto, Before
  <2>2. PlaceInv'
    <3>1. RowsThere' = RowsThere
      BY <2>1 DEF RowsThere, Visible, store
    <3>2. /\ pc' \in Before \cup {"firstRows"} /\ pc' \notin {"row", "scannerGet", "scannerClose"}
          /\ step' = 1 /\ scanner' = None /\ i' = i
      BY <1>1, <2>1 DEF PlaceInv, Before
    <3> QED
      BY <1>1, <3>1, <3>2 DEF PlaceInv
  <2>3. StoreInv' /\ RowInv' /\ AssertionsHold'
    BY <1>1, <2>1 DEF StoreInv, RowInv, AssertionsHold, store
  <2> QED
    BY <2>2, <2>3 DEF DemoInv
<1>3. CASE DisableTable \/ DeleteTable \/ CreateTable
  <2>1. /\ pc' \in {"deleteTable", "createTable", "getColumnDescriptors"}
        /\ pc \in Before /\ pc \notin {"scannerGet", "scannerClose"}
        /\ cells' \subseteq cells /\ marks' \subseteq marks
        /\ UNCHANGED <<now, i, step, versions, scanner>>
    BY <1>3 DEF DisableTable, DeleteTable, CreateTable, Goto, Before
  <2>2. tables' \in [Others \cup {Demo} -> {"absent", "enabled", "disabled"}]
    BY <1>1, <1>3 DEF DisableTable, DeleteTable, CreateTable, StoreInv
  <2>3. PlaceInv'
    BY <1>1, <2>1 DEF PlaceInv, Before, Stopped
  <2>4. StoreInv'
    BY <1>1, <2>1, <2>2 DEF StoreInv
  <2>5. RowInv' /\ AssertionsHold'
    BY <2>1 DEF RowInv, AssertionsHold
  <2> QED
    BY <2>3, <2>4, <2>5 DEF DemoInv
<1>4. CASE MutateFirstRow
  <2>1. /\ pc = "firstRows" /\ step \in 1..3 /\ scanner = None
        /\ UNCHANGED <<i, versions, scanner>>
        /\ Apply(FirstRows[step], {<<"entry:foo", None>>}, {}, now)
    BY <1>1, <1>4 DEF MutateFirstRow, PlaceInv, Before
  <2>2. \/ pc' = "firstRows" /\ step' \in 1..3
        \/ pc' = "scannerOpen" /\ step' = 1
    BY <1>4, <2>1 DEF MutateFirstRow, Goto, FirstRows
  <2>3. StoreInv'
    <3>1. now \in 1..now
      BY <1>1 DEF StoreInv
    <3>2. \A p \in {<<"entry:foo", None>>} : p[1] \in Columns
      BY DEF Columns
    <3> QED
      BY <1>1, <2>1, <3>1, <3>2, ApplyStore
  <2>4. PlaceInv'
    BY <1>1, <2>1, <2>2 DEF PlaceInv, Before
  <2>5. RowInv' /\ AssertionsHold'
    BY <2>2 DEF RowInv, AssertionsHold
  <2> QED
    BY <2>3, <2>4, <2>5 DEF DemoInv
<1>5. CASE ScannerOpen \/ ScannerGet
  <2>1. /\ pc \in {"scannerOpen", "scannerGet"} /\ pc' \in {"scannerGet", "scannerClose"}
        /\ UNCHANGED <<store, i, step, versions>>
    BY <1>5 DEF ScannerOpen, ScannerGet, Goto
  <2>2. scanner' \subseteq RowsThere
    BY <1>1, <1>5 DEF ScannerOpen, ScannerGet, PlaceInv
  <2>3. RowsThere' = RowsThere
    BY <2>1 DEF RowsThere, Visible, store
  <2>4. PlaceInv'
    BY <1>1, <2>1, <2>2, <2>3 DEF PlaceInv, Before
  <2>5. StoreInv' /\ RowInv' /\ AssertionsHold'
    BY <1>1, <2>1 DEF StoreInv, RowInv, AssertionsHold, store
  <2> QED
    BY <2>4, <2>5 DEF DemoInv
<1>6. CASE ScannerClose
  <2>1. /\ pc = "scannerClose" /\ pc' = IF i <= LastRow THEN "row" ELSE "end"
        /\ UNCHANGED <<store, i, step, versions>> /\ scanner' = None
    BY <1>6 DEF ScannerClose, Goto, InLoop
  <2>2. PlaceInv' /\ step' = 1
    BY <1>1, <2>1 DEF PlaceInv, Before, Stopped
  <2>3. StoreInv' /\ RowInv' /\ AssertionsHold'
    BY <1>1, <2>1, <2>2 DEF StoreInv, RowInv, AssertionsHold, store
  <2> QED
    BY <2>2, <2>3 DEF DemoInv
<1> QED
  BY <1>2, <1>3, <1>4, <1>5, <1>6

\* An error ends the program, or closes the scanner, or is passed over by get.
LEMMA ErrorSteps ==
  ASSUME DemoInv, IOError \/ OtherException
  PROVE  DemoInv'
<1>1. PlaceInv /\ StoreInv /\ RowInv /\ AssertionsHold /\ UNCHANGED <<store, versions, scanner>>
  BY DEF DemoInv, IOError, OtherException
<1>2. StoreInv' /\ RowsThere' = RowsThere
  BY <1>1 DEF StoreInv, RowsThere, Visible, store
<1>3. CASE At("get") /\ NextStep
  <2>1. pc = "row" /\ step = 15
    BY <1>1, <1>3, BodySteps DEF PlaceInv, At
  <2>2. PlaceInv' /\ AssertionsHold' /\ step' = 1
    BY <1>1, <1>3, <2>1, NextCall
  <2>3. RowInv'
    BY <2>2 DEF RowInv
  <2> QED
    BY <1>2, <2>2, <2>3 DEF DemoInv
<1>4. CASE ~(At("get") /\ NextStep)
  <2>1. /\ UNCHANGED <<i, step>>
        /\ pc' = "error" \/ (pc = "scannerGet" /\ pc' = "scannerClose")
    BY <1>4 DEF IOError, OtherException, Goto
  <2>2. PlaceInv'
    BY <1>1, <1>2, <2>1 DEF PlaceInv, Before, Stopped
  <2>3. RowInv' /\ AssertionsHold'
    BY <2>1 DEF RowInv, AssertionsHold
  <2> QED
    BY <1>2, <2>2, <2>3 DEF DemoInv
<1> QED
  BY <1>3, <1>4

\* What the client has stays while the clock moves or nothing happens.
LEMMA ClockSteps ==
  ASSUME DemoInv, Tick \/ UNCHANGED dvars
  PROVE  DemoInv'
<1>1. PlaceInv /\ StoreInv /\ RowInv /\ AssertionsHold
  BY DEF DemoInv
<1>2. /\ UNCHANGED <<tables, cells, marks, pc, i, step, versions, scanner>>
      /\ now' \in Nat /\ now' >= now
  BY <1>1 DEF Tick, dvars, store, client, StoreInv
<1>3. StoreInv'
  BY <1>1, <1>2 DEF StoreInv
<1>4. PlaceInv'
  <2>1. RowsThere' = RowsThere
    BY <1>2 DEF RowsThere, Visible
  <2> QED
    BY <1>1, <1>2, <2>1 DEF PlaceInv
<1>5. AssertionsHold'
  BY <1>1, <1>2 DEF AssertionsHold
<1>6. (MarksPast => MarksPast') /\ (FooGone => FooGone') /\ (Written => Written')
  BY <1>1, <1>2, RowKept
<1>7. RowInv'
  BY <1>1, <1>2, <1>6 DEF RowInv
<1> QED
  BY <1>3, <1>4, <1>5, <1>7 DEF DemoInv

\* Every step of the demo client and of the clock preserves its invariant.
LEMMA DemoInvStep == DemoInv /\ (DemoNext \/ UNCHANGED dvars) => DemoInv'
  BY WriteSteps, ReadSteps, OtherSteps, ErrorSteps, ClockSteps DEF DemoNext, DemoCall

-------------------------------------------------------------------------------
(* The status clients *)

\* The demo client changes no table but its own.
LEMMA OthersStay ==
  ASSUME StoreInv, DemoNext
  PROVE  /\ \A t \in Others : tables'[t] = tables[t]
         /\ DOMAIN tables' = DOMAIN tables
<1>1. tables' = tables \/ \E x : tables' = [tables EXCEPT ![Demo] = x]
  BY DEF DemoNext, DemoCall, GetTableNames, IsTableEnabled, DisableTable, DeleteTable,
         CreateTable, GetColumnDescriptors, MutateFirstRow, ScannerOpen, ScannerGet,
         ScannerClose, MutateRow, MutateRowTs, DeleteAllRow, ReadRow, Poll, GetVer,
         AssertVersions, GetFoo, ColumnsAgain, IOError, OtherException, Tick, Apply, store
<1> QED
  BY <1>1, DemoAssumption DEF StoreInv

\* How many tables are enabled: the others and demo_table.
LEMMA EnabledCount ==
  ASSUME StoreInv
  PROVE  /\ Cardinality(EnabledOthers) \in Nat
         /\ Cardinality(EnabledNow) = Cardinality(EnabledOthers)
                                      + IF tables[Demo] = "enabled" THEN 1 ELSE 0
<1>1. IsFiniteSet(EnabledOthers) /\ Demo \notin EnabledOthers
  BY DemoAssumption, FS_Subset DEF EnabledOthers
<1>2. Cardinality(EnabledOthers) \in Nat
  BY <1>1, FS_CardinalityType
<1>3. CASE tables[Demo] = "enabled"
  <2>1. EnabledNow = EnabledOthers \cup {Demo}
    BY <1>3 DEF EnabledNow, EnabledOthers, StoreInv
  <2>2. Cardinality(EnabledOthers \cup {Demo}) = Cardinality(EnabledOthers) + 1
    BY <1>1, FS_AddElement
  <2> QED
    BY <1>2, <1>3, <2>1, <2>2
<1>4. CASE tables[Demo] # "enabled"
  <2>1. EnabledNow = EnabledOthers
    BY <1>4 DEF EnabledNow, EnabledOthers, StoreInv
  <2> QED
    BY <1>2, <1>4, <2>1
<1> QED
  BY <1>2, <1>3, <1>4

\* The sets of tables are finite.
LEMMA TablesFinite ==
  ASSUME StoreInv, StatusType, NEW S \in SUBSET listed
  PROVE  IsFiniteSet(S) /\ Cardinality(S) \in Nat
<1>1. IsFiniteSet(Others \cup {Demo})
  BY DemoAssumption, FS_AddElement
<1>2. S \subseteq Others \cup {Demo}
  BY DEF StatusType, StoreInv
<1>3. IsFiniteSet(S)
  BY <1>1, <1>2, FS_Subset
<1> QED
  BY <1>3, FS_CardinalityType

\* One question of the fold.
LEMMA AskedOne ==
  ASSUME StoreInv, StatusType, FoldInv, spc = "next",
         NEW t \in names, NEW enabled \in BOOLEAN, enabled <=> tables[t] = "enabled",
         StatusStep(t, enabled)
  PROVE  /\ names' \subseteq listed' /\ lines' \subseteq listed' \ names'
         /\ lines' \ {Demo} = EnabledOthers \ names'
         /\ Demo \in lines' => Cardinality(EnabledOthers) + 1 \in counts
         /\ Demo \notin lines' /\ Demo \notin names' => Cardinality(EnabledOthers) \in counts
         /\ Cardinality(listed' \ names') = Cardinality(listed \ names) + 1
         /\ Cardinality(lines') = Cardinality(lines) + IF enabled THEN 1 ELSE 0
<1>1. /\ names' = names \ {t} /\ listed' = listed /\ counts' = counts
      /\ lines' = IF enabled THEN lines \cup {t} ELSE lines
  BY DEF StatusStep
<1>2. /\ listed \ {Demo} = {u \in Others : tables[u] # "absent"}
      /\ lines \ {Demo} = EnabledOthers \ names /\ lines \subseteq listed \ names
      /\ Cardinality(EnabledNow) \in counts
      /\ Demo \in lines => Cardinality(EnabledOthers) + 1 \in counts
      /\ Demo \notin lines /\ Demo \notin names => Cardinality(EnabledOthers) \in counts
  BY DEF FoldInv
<1>3. t \in listed /\ names \subseteq listed /\ t \notin lines
  BY <1>2 DEF StatusType
<1>4. names' \subseteq listed' /\ lines' \subseteq listed' \ names'
  BY <1>1, <1>2, <1>3
<1>5. lines' \ {Demo} = EnabledOthers \ names'
  <2>1. t # Demo => (t \in EnabledOthers <=> enabled)
    BY <1>2, <1>3 DEF EnabledOthers
  <2>2. Demo \notin EnabledOthers
    BY DemoAssumption DEF EnabledOthers
  <2> QED
    BY <1>1, <1>2, <1>3, <2>1, <2>2
<1>6. /\ Demo \in lines' => Cardinality(EnabledOthers) + 1 \in counts
      /\ Demo \notin lines' /\ Demo \notin names' => Cardinality(EnabledOthers) \in counts
  <2>1. CASE t = Demo
    <3>1. Cardinality(EnabledNow) = Cardinality(EnabledOthers) + IF enabled THEN 1 ELSE 0
      BY <2>1, EnabledCount
    <3>2. Cardinality(EnabledOthers) \in Nat
      BY EnabledCount
    <3>3. Demo \in lines' <=> enabled
      BY <1>1, <1>3, <2>1
    <3> QED
      BY <1>2, <3>1, <3>2, <3>3
  <2>2. CASE t # Demo
    BY <1>1, <1>2, <2>2
  <2> QED
    BY <2>1, <2>2
<1>7. Cardinality(listed' \ names') = Cardinality(listed \ names) + 1
  <2>1. listed' \ names' = (listed \ names) \cup {t}
    BY <1>1, <1>3
  <2>2. IsFiniteSet(listed \ names)
    BY TablesFinite
  <2> QED
    BY <2>1, <2>2, FS_AddElement
<1>8. Cardinality(lines') = Cardinality(lines) + IF enabled THEN 1 ELSE 0
  <2>1. lines \subseteq listed
    BY <1>2
  <2>2. IsFiniteSet(lines) /\ Cardinality(lines) \in Nat
    BY <2>1, TablesFinite
  <2>3. Cardinality(lines \cup {t}) = Cardinality(lines) + 1
    BY <1>3, <2>2, FS_AddElement
  <2> QED
    BY <1>1, <2>2, <2>3
<1> QED
  BY <1>4, <1>5, <1>6, <1>7, <1>8

\* The clients have asked nothing yet.
LEMMA InvInit == Init => Inv
<1> SUFFICES ASSUME Init PROVE Inv
  OBVIOUS
<1>1. DemoInv
  BY DemoInvInit DEF Init
<1>2. FoldInv /\ spc = "getTableNames" /\ program \in {Newer, Older}
  BY DEF Init, FoldInv
<1>3. listed = {} /\ names = {} /\ lines = {} /\ acc = 0
  BY DEF Init
<1>4. Cardinality(listed \ names) = 0
  BY <1>3, FS_EmptySet
<1>5. StatusType
  BY <1>2, <1>3, <1>4 DEF StatusType
<1> QED
  BY <1>1, <1>2, <1>5 DEF Inv

\* The list, a question, the end and an error.
LEMMA StatusSteps ==
  ASSUME Inv, StatusCall \/ StatusFails
  PROVE  Inv'
<1>1. DemoInv /\ StoreInv /\ StatusType /\ FoldInv
  BY DEF Inv, DemoInv
<1>2. UNCHANGED <<dvars, program>>
  BY DEF StatusCall, StatusFails, StatusNames, AskOlder, AskNewer, GetTableRegions,
         StatusEnd, StatusStep
<1>3. DemoInv' /\ tables' = tables /\ EnabledNow' = EnabledNow /\ EnabledOthers' = EnabledOthers
  <2>1. DemoInv'
    BY <1>1, <1>2, DemoInvStep
  <2>2. tables' = tables
    BY <1>2 DEF dvars, store
  <2> QED
    BY <2>1, <2>2 DEF EnabledNow, EnabledOthers
<1>4. DOMAIN tables = Others \cup {Demo} /\ Demo \notin Others
  BY <1>1, DemoAssumption DEF StoreInv
<1>5. CASE StatusNames
  <2>1. /\ spc = "getTableNames" /\ spc' = "next" /\ acc = 0 /\ acc' = 0 /\ lines' = {}
        /\ listed' = {t \in DOMAIN tables : tables[t] # "absent"} /\ names' = listed'
        /\ counts' = {Cardinality(EnabledNow)}
    BY <1>1, <1>5 DEF StatusNames, FoldInv
  <2>2. Cardinality({}) = 0
    BY FS_EmptySet
  <2>3. listed' \ names' = {}
    BY <2>1
  <2>4. StatusType'
    BY <1>1, <1>2, <1>3, <2>1, <2>2, <2>3 DEF StatusType
  <2>5. /\ listed' \ {Demo} = {t \in Others : tables[t] # "absent"}
        /\ EnabledOthers \ names' = {}
    BY <1>4, <2>1 DEF EnabledOthers
  <2>6. Demo \notin names' => Cardinality(EnabledOthers) \in counts'
    <3> SUFFICES ASSUME Demo \notin names' PROVE Cardinality(EnabledOthers) \in counts'
      OBVIOUS
    <3>1. tables[Demo] # "enabled"
      BY <1>4, <2>1
    <3> QED
      BY <1>1, <2>1, <3>1, EnabledCount
  <2>7. FoldInv'
    BY <1>3, <2>1, <2>2, <2>3, <2>5, <2>6 DEF FoldInv
  <2> QED
    BY <1>3, <2>4, <2>7 DEF Inv
<1>6. CASE AskOlder \/ AskNewer
  <2>1. /\ spc = "next"
        /\ \/ program = Older /\ spc' = "next"
           \/ program = Newer /\ spc' = "getTableRegions" /\ acc' = acc
    BY <1>6 DEF AskOlder, AskNewer
  <2>2. PICK t \in names, enabled \in BOOLEAN :
          /\ enabled <=> tables[t] = "enabled"
          /\ StatusStep(t, enabled)
          /\ program = Older => acc' = IF enabled THEN acc + 1 ELSE acc
    BY <1>6 DEF AskOlder, AskNewer, Newer, Older
  <2>3. /\ names' \subseteq listed' /\ lines' \subseteq listed' \ names'
        /\ lines' \ {Demo} = EnabledOthers \ names'
        /\ Demo \in lines' => Cardinality(EnabledOthers) + 1 \in counts
        /\ Demo \notin lines' /\ Demo \notin names' => Cardinality(EnabledOthers) \in counts
        /\ Cardinality(listed' \ names') = Cardinality(listed \ names) + 1
        /\ Cardinality(lines') = Cardinality(lines) + IF enabled THEN 1 ELSE 0
    BY <1>1, <2>1, <2>2, AskedOne
  <2>4. listed' = listed /\ counts' = counts
    BY <2>2 DEF StatusStep
  <2>5. Cardinality(listed \ names) \in Nat /\ acc \in 0..Cardinality(listed \ names)
    BY <1>1, TablesFinite DEF StatusType
  <2>6. IF program = Older THEN acc = Cardinality(lines) ELSE acc = Cardinality(listed \ names)
    BY <1>1, <2>1 DEF FoldInv
  <2>7. IF program = Older THEN acc' = Cardinality(lines')
        ELSE acc' + 1 = Cardinality(listed' \ names')
    BY <2>1, <2>2, <2>3, <2>5, <2>6 DEF Newer, Older
  <2>8. acc' \in 0..Cardinality(listed' \ names')
    BY <2>1, <2>2, <2>3, <2>5
  <2>9. StatusType'
    BY <1>1, <1>2, <1>3, <2>1, <2>3, <2>4, <2>8 DEF StatusType
  <2>10. FoldInv'
    BY <1>1, <1>2, <1>3, <2>1, <2>3, <2>4, <2>7 DEF FoldInv, Newer, Older
  <2> QED
    BY <1>3, <2>9, <2>10 DEF Inv
<1>7. CASE GetTableRegions
  <2>1. /\ spc = "getTableRegions" /\ spc' = "next" /\ acc' = acc + 1
        /\ UNCHANGED <<listed, names, lines, counts>>
    BY <1>7 DEF GetTableRegions
  <2>2. program = Newer /\ acc + 1 = Cardinality(listed \ names)
    BY <1>1, <2>1 DEF FoldInv, Newer, Older
  <2>3. Cardinality(listed \ names) \in Nat
    BY <1>1, TablesFinite
  <2>4. StatusType'
    BY <1>1, <1>2, <1>3, <2>1, <2>2, <2>3 DEF StatusType
  <2>5. FoldInv'
    BY <1>1, <1>2, <1>3, <2>1, <2>2 DEF FoldInv, Newer, Older
  <2> QED
    BY <1>3, <2>4, <2>5 DEF Inv
<1>8. CASE StatusEnd \/ StatusFails
  <2>1. /\ spc' = "error" \/ (spc = "next" /\ spc' = "end" /\ names = {})
        /\ UNCHANGED <<listed, names, acc, lines, counts>>
    BY <1>8 DEF StatusEnd, StatusFails
  <2>2. StatusType'
    BY <1>1, <1>2, <1>3, <2>1 DEF StatusType
  <2>3. FoldInv'
    BY <1>1, <1>2, <1>3, <2>1 DEF FoldInv
  <2> QED
    BY <1>3, <2>2, <2>3 DEF Inv
<1> QED
  BY <1>5, <1>6, <1>7, <1>8 DEF StatusCall

\* The demo client goes on: only demo_table may change, and what the clients
\* have found out about it has been counted.
LEMMA MeanwhileStep ==
  ASSUME Inv, Meanwhile(DemoNext)
  PROVE  Inv'
<1>1. DemoInv /\ StoreInv /\ StatusType /\ FoldInv
  BY DEF Inv, DemoInv
<1>2. /\ DemoNext /\ UNCHANGED <<program, spc, listed, names, acc, lines>>
      /\ counts' = IF counts = {} THEN {} ELSE counts \cup {Cardinality(EnabledNow')}
  BY DEF Meanwhile
<1>3. DemoInv'
  BY <1>1, <1>2, DemoInvStep
<1>4. /\ \A t \in Others : tables'[t] = tables[t]
      /\ DOMAIN tables' = DOMAIN tables
  BY <1>1, <1>2, OthersStay
<1>5. /\ EnabledOthers' = EnabledOthers
      /\ {t \in Others : tables'[t] # "absent"} = {t \in Others : tables[t] # "absent"}
  BY <1>4 DEF EnabledOthers
<1>6. StatusType'
  BY <1>1, <1>2, <1>4 DEF StatusType
<1>7. /\ \A n \in counts : n \in counts'
      /\ \A n \in counts : Cardinality(EnabledNow') \in counts'
  BY <1>2
<1>8. FoldInv'
  <2>1. CASE spc \in {"next", "getTableRegions", "end"}
    <3>1. Cardinality(EnabledNow)' \in counts'
      BY <1>1, <1>7, <2>1 DEF FoldInv
    <3> QED
      BY <1>1, <1>2, <1>5, <1>7, <2>1, <3>1 DEF FoldInv
  <2>2. CASE spc \notin {"next", "getTableRegions", "end"}
    BY <1>1, <1>2, <2>2 DEF FoldInv
  <2> QED
    BY <2>1, <2>2
<1> QED
  BY <1>3, <1>6, <1>8 DEF Inv

\* Every step of both programs preserves the invariant.
LEMMA InvStep == Inv /\ [Next]_tvars => Inv'
<1> SUFFICES ASSUME Inv, [Next]_tvars PROVE Inv'
  OBVIOUS
<1>1. CASE UNCHANGED tvars
  <2>1. DemoInv'
    BY <1>1, DemoInvStep DEF Inv, tvars
  <2>2. StatusType' /\ FoldInv'
    BY <1>1 DEF Inv, StatusType, FoldInv, EnabledOthers, EnabledNow, tvars, svars, dvars, store
  <2> QED
    BY <2>1, <2>2 DEF Inv
<1> QED
  BY <1>1, StatusSteps, MeanwhileStep DEF Next, Done

\* The invariant holds in every reachable state.
LEMMA InvHolds == Spec => []Inv
  BY InvInit, InvStep, PTL DEF Spec

-------------------------------------------------------------------------------
\* The state of both programs and of the table has its type.
THEOREM TypeCorrect == Spec => []TypeOK
<1>1. Inv => TypeOK
  <2> SUFFICES ASSUME Inv PROVE TypeOK
    OBVIOUS
  <2>1. PlaceInv /\ StoreInv /\ StatusType
    BY DEF Inv, DemoInv
  <2>2. DTypeOK
    BY <2>1, BodyCalls DEF DTypeOK, PlaceInv, StoreInv
  <2> QED
    BY <2>1, <2>2 DEF TypeOK, StatusType
<1> QED
  BY <1>1, InvHolds, PTL

\* The assertion on the versions of num (thrift/testclient.cpp, 206) holds and
\* "shouldn't get here" (213) is not reached, for any number of rows and
\* however little the clock moves: the pause is enough.
THEOREM AssertionsNeverFail == Spec => []AssertionsHold
<1>1. Inv => AssertionsHold
  BY DEF Inv, DemoInv
<1> QED
  BY <1>1, InvHolds, PTL

\* A write in the past does not override the latest (199).
THEOREM LatestStays == Spec => []LatestKept
<1>1. Inv => LatestKept
  <2> SUFFICES ASSUME Inv, At("getVer") PROVE /\ Latest(i, "entry:num") = {i}
                                              /\ Latest(i, "entry:sqr") = {i * i}
    BY DEF LatestKept
  <2>1. PlaceInv /\ StoreInv /\ RowInv
    BY DEF Inv, DemoInv
  <2>2. Written
    <3>1. step = 13 /\ pc = "row"
      BY <2>1, BodySteps DEF PlaceInv, At
    <3> QED
      BY <2>1, <3>1 DEF RowInv
  <2>3. PICK ts \in 2..now : Newest("entry:num", ts, i) /\ Newest("entry:sqr", ts, i * i)
    BY <2>2 DEF Written
  <2>4. ASSUME NEW col, NEW value, Newest(col, ts, value)
        PROVE  Latest(i, col) = {value}
    <3> DEFINE n == Cell(i, col, ts, value)
    <3>1. n.row = i /\ n.col = col /\ n.ts = ts /\ n.value = value
      BY DEF Cell
    <3> HIDE DEF n
    <3>2. n \in Visible(i, col)
      <4>1. n \in cells /\ \A m \in marks : m.row = i /\ m.col = col => m.ts < ts
        BY <2>4 DEF Newest, n
      <4> QED
        BY <3>1, <4>1 DEF Visible
    <3>3. \A c \in Visible(i, col) : /\ c.ts \in Nat /\ c.ts <= ts
                                     /\ c.ts = ts => c.value = value
      BY <2>1, <2>4 DEF Newest, Visible, StoreInv
    <3>4. \A c \in Visible(i, col) :
            (\A e \in Visible(i, col) : e.ts <= c.ts) <=> c.ts = ts
      BY <2>3, <3>1, <3>2, <3>3
    <3> QED
      BY <3>1, <3>2, <3>3, <3>4 DEF Latest
  <2> QED
    BY <2>3, <2>4
<1> QED
  BY <1>1, InvHolds, PTL

\* A client that ends normally leaves no scanner open, whether its reads (130)
\* failed or not.
THEOREM ScannersAreClosed == Spec => []ScannersClosed
<1>1. Inv => ScannersClosed
  BY DEF Inv, DemoInv, PlaceInv, ScannersClosed
<1> QED
  BY <1>1, InvHolds, PTL

\* What a status client has printed when it ends was true of one moment of its
\* run, for any tables and whatever the demo client does meanwhile.
THEOREM PrintsOneMoment == Spec => []OneMoment
<1>1. Inv => OneMoment
  <2> SUFFICES ASSUME Inv, spc = "end"
               PROVE  /\ Cardinality(lines) \in counts
                      /\ acc = Cardinality(IF program = Older THEN lines ELSE listed)
    BY DEF OneMoment
  <2>1. StoreInv /\ StatusType /\ FoldInv /\ names = {}
    BY DEF Inv, DemoInv, FoldInv
  <2>2. /\ lines \ {Demo} = EnabledOthers
        /\ Demo \in lines => Cardinality(EnabledOthers) + 1 \in counts
        /\ Demo \notin lines => Cardinality(EnabledOthers) \in counts
        /\ acc = IF program = Older THEN Cardinality(lines) ELSE Cardinality(listed \ names)
    BY <2>1 DEF FoldInv
  <2>3. Cardinality(lines) \in counts
    <3>1. CASE Demo \in lines
      <4>1. IsFiniteSet(EnabledOthers) /\ Demo \notin EnabledOthers
        BY DemoAssumption, FS_Subset DEF EnabledOthers
      <4>2. lines = EnabledOthers \cup {Demo}
        BY <2>2, <3>1
      <4>3. Cardinality(lines) = Cardinality(EnabledOthers) + 1
        BY <4>1, <4>2, FS_AddElement
      <4> QED
        BY <2>2, <3>1, <4>3
    <3>2. CASE Demo \notin lines
      <4>1. lines = EnabledOthers
        BY <2>2, <3>2
      <4> QED
        BY <2>2, <3>2, <4>1
    <3> QED
      BY <3>1, <3>2
  <2>4. listed \ names = listed
    BY <2>1
  <2> QED
    BY <2>2, <2>3, <2>4
<1> QED
  BY <1>1, InvHolds, PTL
===============================================================================
