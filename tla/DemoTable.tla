------------------------------- MODULE DemoTable ------------------------------
(***************************************************************************)
(* The test client thrift/testclient.cpp: it deletes demo_table if there   *)
(* is one, makes it anew and writes, deletes and reads rows of it.         *)
(*                                                                         *)
(* HBase, outside the repository, is modelled as the client uses it.  A    *)
(* cell has a timestamp, the server's clock unless the client gives one.   *)
(* A deletion leaves a mark that hides every cell of its column that is    *)
(* not newer, even one written after the mark.  The clock never goes back  *)
(* but may stand still between two calls.                                  *)
(***************************************************************************)
EXTENDS Integers, FiniteSets, Sequences

CONSTANTS Others,    \* the other tables
          Demo,      \* demo_table
          LastRow,   \* the last row of the loop, 11 in the code
          MaxNow,    \* bound: the clock moves by itself only up to this
          None

ASSUME DemoAssumption ==
  /\ Demo \notin Others /\ IsFiniteSet(Others) /\ LastRow \in Nat /\ MaxNow \in Nat
  /\ None \notin Int

VARIABLES tables,    \* "absent", "enabled" or "disabled"
          cells,     \* demo_table's cells ...
          marks,     \* ... and its deletion marks
          now,       \* the region server's clock
          pc,        \* the client's next call, or how it has ended
          i,         \* the row it is at
          step,      \* where in the body of the loop it is
          versions,  \* what getVer() returned
          scanner    \* the rows an open scanner has yet to deliver

store == <<tables, cells, marks, now>>
client == <<pc, i, step, versions, scanner>>
dvars == <<store, client>>

Columns == {"entry:foo", "entry:num", "entry:sqr", "unused:"}
\* Rows are numbers in the order of their keys: those of the loop, "00000" and
\* so on, and then "foo", "foo-" in good and in bad UTF-8.
FirstRows == <<100, 101, 102>>

DInit ==
  /\ tables \in [Others \cup {Demo} -> {"absent", "enabled", "disabled"}]
  /\ cells = {} /\ marks = {} /\ now = 2
  /\ pc = "getTableNames" /\ i = 0 /\ step = 1
  /\ versions = {} /\ scanner = None

-------------------------------------------------------------------------------
(* The table *)

Cell(row, col, ts, value) == [row |-> row, col |-> col, ts |-> ts, value |-> value]
Mark(row, col, ts) == [row |-> row, col |-> col, ts |-> ts]

Visible(row, col) ==
  {c \in cells : /\ c.row = row /\ c.col = col
                 /\ \A m \in marks : m.row = row /\ m.col = col => m.ts < c.ts}

Latest(row, col) == {c.value : c \in {d \in Visible(row, col) :
                                        \A e \in Visible(row, col) : e.ts <= d.ts}}

RowsThere == {c.row : c \in {d \in cells : d \in Visible(d.row, d.col)}}

\* A put replaces a cell of the same timestamp.
Apply(row, puts, deletes, ts) ==
  LET new == {Cell(row, p[1], ts, p[2]) : p \in puts}
      old == {c \in cells : \E n \in new : n.row = c.row /\ n.col = c.col /\ n.ts = c.ts}
  IN /\ cells' = (cells \ old) \cup new
     /\ marks' = marks \cup {Mark(row, col, ts) : col \in deletes}
     /\ UNCHANGED <<tables, now>>

-------------------------------------------------------------------------------
(* Before the loop *)

Goto(label) == pc' = label

GetTableNames ==
  /\ pc = "getTableNames"
  /\ Goto(IF tables[Demo] = "absent" THEN "createTable" ELSE "isTableEnabled")
  /\ UNCHANGED <<store, i, step, versions, scanner>>

IsTableEnabled ==
  /\ pc = "isTableEnabled"
  /\ Goto(IF tables[Demo] = "enabled" THEN "disableTable" ELSE "deleteTable")
  /\ UNCHANGED <<store, i, step, versions, scanner>>

DisableTable ==
  /\ pc = "disableTable" /\ Goto("deleteTable")
  /\ tables' = [tables EXCEPT ![Demo] = "disabled"]
  /\ UNCHANGED <<cells, marks, now, i, step, versions, scanner>>

DeleteTable ==
  /\ pc = "deleteTable" /\ Goto("createTable")
  /\ tables' = [tables EXCEPT ![Demo] = "absent"]
  /\ cells' = {} /\ marks' = {}
  /\ UNCHANGED <<now, i, step, versions, scanner>>

\* AlreadyExists is only a warning.
CreateTable ==
  /\ pc = "createTable" /\ Goto("getColumnDescriptors")
  /\ tables' = IF tables[Demo] = "absent" THEN [tables EXCEPT ![Demo] = "enabled"]
                                          ELSE tables
  /\ UNCHANGED <<cells, marks, now, i, step, versions, scanner>>

GetColumnDescriptors ==
  /\ pc = "getColumnDescriptors" /\ Goto("firstRows")
  /\ UNCHANGED <<store, i, step, versions, scanner>>

MutateFirstRow ==
  /\ pc = "firstRows"
  /\ Apply(FirstRows[step], {<<"entry:foo", None>>}, {}, now)
  /\ IF step < Len(FirstRows)
     THEN step' = step + 1 /\ UNCHANGED pc
     ELSE step' = 1 /\ Goto("scannerOpen")
  /\ UNCHANGED <<i, versions, scanner>>

-------------------------------------------------------------------------------
(* Scanners: the first goes over all rows, the second, after the loop, from *)
(* "00020" to "00040".                                                      *)

InLoop == i <= LastRow

ScannerOpen ==
  /\ pc = "scannerOpen" /\ Goto("scannerGet")
  /\ scanner' = IF InLoop THEN RowsThere ELSE RowsThere \cap 20..39
  /\ UNCHANGED <<store, i, step, versions>>

\* Mutant: the same row is read for ever.
ScannerGet_Again ==
  /\ pc = "scannerGet"
  /\ IF scanner = {} THEN Goto("scannerClose") ELSE UNCHANGED pc
  /\ UNCHANGED <<store, i, step, versions, scanner>>

ScannerGet ==
  /\ pc = "scannerGet"
  /\ \/ scanner = {} /\ Goto("scannerClose") /\ UNCHANGED scanner
     \/ \E row \in scanner :
          /\ \A other \in scanner : row <= other
          /\ scanner' = scanner \ {row} /\ UNCHANGED pc
  /\ UNCHANGED <<store, i, step, versions>>

ScannerClose ==
  /\ pc = "scannerClose" /\ Goto(IF InLoop THEN "row" ELSE "end")
  /\ scanner' = None
  /\ UNCHANGED <<store, i, step, versions>>

-------------------------------------------------------------------------------
(* The body of the loop, call by call *)

Put(puts) == [op |-> "mutateRow", puts |-> puts, deletes |-> {}]
GetRow == [op |-> "getRow"]

\* Mutant: isDelete is not set, foo is written again.
Body_WritesFoo ==
  <<Put({<<"unused:", None>>}), GetRow,
    [op |-> "deleteAllRow"],
    Put({<<"entry:num", 0>>, <<"entry:foo", None>>}), GetRow,
    [op |-> "poll"],
    Put({<<"entry:num", -1>>, <<"entry:foo", None>>}), GetRow,
    Put({<<"entry:num", i>>, <<"entry:sqr", i * i>>}), GetRow,
    [op |-> "mutateRowTs", puts |-> {<<"entry:num", -999>>}, deletes |-> {"entry:sqr"}], GetRow,
    [op |-> "getVer"], [op |-> "assert"],
    [op |-> "get"]>>

\* Mutant: without the pause.
Body_NoPoll ==
  <<Put({<<"unused:", None>>}), GetRow,
    [op |-> "deleteAllRow"],
    Put({<<"entry:num", 0>>, <<"entry:foo", None>>}), GetRow,
    [op |-> "mutateRow", puts |-> {<<"entry:num", -1>>}, deletes |-> {"entry:foo"}], GetRow,
    Put({<<"entry:num", i>>, <<"entry:sqr", i * i>>}), GetRow,
    [op |-> "mutateRowTs", puts |-> {<<"entry:num", -999>>}, deletes |-> {"entry:sqr"}], GetRow,
    [op |-> "getVer"], [op |-> "assert"],
    [op |-> "get"]>>

Body ==
  <<Put({<<"unused:", None>>}), GetRow,
    [op |-> "deleteAllRow"],
    Put({<<"entry:num", 0>>, <<"entry:foo", None>>}), GetRow,
    [op |-> "poll"],
    [op |-> "mutateRow", puts |-> {<<"entry:num", -1>>}, deletes |-> {"entry:foo"}], GetRow,
    Put({<<"entry:num", i>>, <<"entry:sqr", i * i>>}), GetRow,
    [op |-> "mutateRowTs", puts |-> {<<"entry:num", -999>>}, deletes |-> {"entry:sqr"}], GetRow,
    [op |-> "getVer"], [op |-> "assert"],
    [op |-> "get"]>>

At(op) == pc = "row" /\ Body[step].op = op

\* Mutant: the loop goes on to one row more.
NextStep_OnePast ==
  IF step < Len(Body)
  THEN step' = step + 1 /\ UNCHANGED <<pc, i>>
  ELSE /\ step' = 1 /\ i' = i + 1
       /\ Goto(IF i <= LastRow THEN "row" ELSE "columnsAgain")

NextStep ==
  IF step < Len(Body)
  THEN step' = step + 1 /\ UNCHANGED <<pc, i>>
  ELSE /\ step' = 1 /\ i' = i + 1
       /\ Goto(IF i < LastRow THEN "row" ELSE "columnsAgain")

MutateRow ==
  /\ At("mutateRow") /\ NextStep
  /\ Apply(i, Body[step].puts, Body[step].deletes, now)
  /\ UNCHANGED <<versions, scanner>>

\* Mutant: the timestamp is not passed on.
MutateRowTs_Now ==
  /\ At("mutateRowTs") /\ NextStep
  /\ Apply(i, Body[step].puts, Body[step].deletes, now)
  /\ UNCHANGED <<versions, scanner>>

MutateRowTs ==
  /\ At("mutateRowTs") /\ NextStep
  /\ Apply(i, Body[step].puts, Body[step].deletes, 1)
  /\ UNCHANGED <<versions, scanner>>

DeleteAllRow ==
  /\ At("deleteAllRow") /\ NextStep
  /\ Apply(i, {}, Columns, now)
  /\ UNCHANGED <<versions, scanner>>

ReadRow ==
  /\ At("getRow") /\ NextStep
  /\ UNCHANGED <<store, versions, scanner>>

\* The 50 ms that force a later timestamp.
Poll ==
  /\ At("poll") /\ NextStep
  /\ now' = now + 1
  /\ UNCHANGED <<tables, cells, marks, versions, scanner>>

GetVer ==
  /\ At("getVer") /\ NextStep
  /\ versions' = Visible(i, "entry:num")
  /\ UNCHANGED <<store, scanner>>

AssertVersions ==
  /\ At("assert")
  /\ IF versions # {} THEN NextStep ELSE Goto("aborted") /\ UNCHANGED <<i, step>>
  /\ UNCHANGED <<store, versions, scanner>>

GetFoo ==
  /\ At("get")
  /\ IF Visible(i, "entry:foo") = {}
     THEN NextStep
     ELSE Goto("shouldn't get here") /\ UNCHANGED <<i, step>>
  /\ UNCHANGED <<store, versions, scanner>>

ColumnsAgain ==
  /\ pc = "columnsAgain" /\ Goto("scannerOpen")
  /\ UNCHANGED <<store, i, step, versions, scanner>>

-------------------------------------------------------------------------------
Ended == pc \in {"end", "error", "aborted", "shouldn't get here"}

\* Mutant: the scanner is not closed after an IOError.
IOError_SkipsClose ==
  /\ ~Ended /\ ~At("poll") /\ ~At("assert")
  /\ IF At("get") THEN NextStep
     ELSE /\ Goto(IF pc # "scannerGet" THEN "error" ELSE IF InLoop THEN "row" ELSE "end")
          /\ UNCHANGED <<i, step>>
  /\ UNCHANGED <<store, versions, scanner>>

\* The gateway answers with an IOError.
IOError ==
  /\ ~Ended /\ ~At("poll") /\ ~At("assert")
  /\ IF At("get") THEN NextStep
     ELSE /\ Goto(IF pc = "scannerGet" THEN "scannerClose" ELSE "error")
          /\ UNCHANGED <<i, step>>
  /\ UNCHANGED <<store, versions, scanner>>

\* The connection breaks or the gateway throws something else.
OtherException ==
  /\ ~Ended /\ Goto("error")
  /\ UNCHANGED <<store, i, step, versions, scanner>>

Tick ==
  /\ now < MaxNow /\ now' = now + 1
  /\ UNCHANGED <<tables, cells, marks, client>>

DemoCall ==
  \/ GetTableNames \/ IsTableEnabled \/ DisableTable \/ DeleteTable \/ CreateTable
  \/ GetColumnDescriptors \/ MutateFirstRow
  \/ ScannerOpen \/ ScannerGet \/ ScannerClose
  \/ MutateRow \/ MutateRowTs \/ DeleteAllRow \/ ReadRow \/ Poll
  \/ GetVer \/ AssertVersions \/ GetFoo \/ ColumnsAgain

DemoNext == DemoCall \/ IOError \/ OtherException \/ Tick

-------------------------------------------------------------------------------
\* The state has its type; marks and cells are of no later time than now.
DTypeOK ==
  /\ tables \in [Others \cup {Demo} -> {"absent", "enabled", "disabled"}]
  /\ \A c \in cells \cup marks : c.ts <= now /\ c.col \in Columns
  /\ now \in Nat /\ i \in 0..(LastRow + 1) /\ step \in 1..Len(Body)
  /\ scanner = None \/ scanner \subseteq RowsThere

\* The program's own assertions: getVer() returns at least one version (206),
\* and once foo is deleted get() does not return it (213, "shouldn't get
\* here"), whether the clock moves between the calls or not.
AssertionsHold == pc \notin {"aborted", "shouldn't get here"}

\* "Shouldn't override latest" (199): the write with an old timestamp, whose
\* deletion of sqr is as old, does not change what the row shows.
LatestKept ==
  At("getVer") => /\ Latest(i, "entry:num") = {i}
                  /\ Latest(i, "entry:sqr") = {i * i}

\* A client that comes to its normal end has left no scanner open in the
\* gateway, whether its reads failed or not.
ScannersClosed == pc = "end" => scanner = None
===============================================================================
