----------------------------- MODULE TablesStatus -----------------------------
(***************************************************************************)
(* The clients that print which tables are enabled, printTablesStatus() of *)
(* testclient.cpp and its older form hbase_thrift_client.cpp, while the    *)
(* client of module DemoTable drops and makes its table.                   *)
(*                                                                         *)
(* They ask for the names first and about each table afterwards, so the    *)
(* answers are of different moments.                                       *)
(***************************************************************************)
EXTENDS DemoTable

Newer == "testclient"
Older == "hbase_thrift_client"

VARIABLES program,   \* which of the two it is
          spc,       \* its next call, or how it has ended
          listed,    \* table_names
          names,     \* those not yet asked about
          acc,       \* the accumulator of the fold
          lines,     \* the tables it has called enabled
          counts     \* history: how many of its tables were enabled so far

svars == <<program, spc, listed, names, acc, lines, counts>>
tvars == <<dvars, svars>>

Init ==
  /\ DInit
  /\ program \in {Newer, Older} /\ spc = "getTableNames"
  /\ listed = {} /\ names = {} /\ acc = 0 /\ lines = {} /\ counts = {}

EnabledNow == {t \in DOMAIN tables : tables[t] = "enabled"}

StatusNames ==
  /\ spc = "getTableNames" /\ spc' = "next"
  /\ listed' = {t \in DOMAIN tables : tables[t] # "absent"}
  /\ names' = listed'
  /\ counts' = {Cardinality(EnabledNow)}
  /\ UNCHANGED <<dvars, program, acc, lines>>

StatusStep(t, enabled) ==
  /\ names' = names \ {t}
  /\ lines' = IF enabled THEN lines \cup {t} ELSE lines
  /\ UNCHANGED <<dvars, program, listed, counts>>

\* Mutant: the older form counts every table it asks about.
AskOlder_CountsAll ==
  /\ program = Older /\ spc = "next"
  /\ \E t \in names, enabled \in BOOLEAN :
       /\ enabled <=> tables[t] = "enabled"
       /\ StatusStep(t, enabled)
       /\ acc' = acc + 1
  /\ UNCHANGED spc

\* A table that is gone is reported as not enabled, or with an IOError.
AskOlder ==
  /\ program = Older /\ spc = "next"
  /\ \E t \in names, enabled \in BOOLEAN :
       /\ enabled <=> tables[t] = "enabled"
       /\ StatusStep(t, enabled)
       /\ acc' = IF enabled THEN acc + 1 ELSE acc
  /\ UNCHANGED spc

\* printTablesStatus() prints a line only for a table that is enabled, then
\* asks for the table's regions.
AskNewer ==
  /\ program = Newer /\ spc = "next"
  /\ \E t \in names, enabled \in BOOLEAN :
       /\ enabled <=> tables[t] = "enabled"
       /\ StatusStep(t, enabled)
  /\ spc' = "getTableRegions"
  /\ UNCHANGED acc

GetTableRegions ==
  /\ spc = "getTableRegions" /\ spc' = "next"
  /\ acc' = acc + 1
  /\ UNCHANGED <<dvars, program, listed, names, lines, counts>>

StatusEnd ==
  /\ spc = "next" /\ names = {} /\ spc' = "end"
  /\ UNCHANGED <<dvars, program, listed, names, acc, lines, counts>>

StatusFails ==
  /\ spc \notin {"end", "error"} /\ spc' = "error"
  /\ UNCHANGED <<dvars, program, listed, names, acc, lines, counts>>

StatusCall == StatusNames \/ AskOlder \/ AskNewer \/ GetTableRegions \/ StatusEnd

\* The client of demo_table and the clock go on.
Meanwhile(demo) ==
  /\ demo
  /\ counts' = IF counts = {} THEN {} ELSE counts \cup {Cardinality(EnabledNow')}
  /\ UNCHANGED <<program, spc, listed, names, acc, lines>>

StatusEnded == spc \in {"end", "error"}
Done == Ended /\ StatusEnded /\ UNCHANGED tvars

Next == StatusCall \/ StatusFails \/ Meanwhile(DemoNext) \/ Done

\* Both programs run on: the gateway answers, or the connection breaks.
Spec ==
  /\ Init /\ [][Next]_tvars
  /\ WF_tvars(StatusCall) /\ WF_tvars(Meanwhile(DemoCall))

-------------------------------------------------------------------------------
\* The state has its type, and the accumulator is never ahead of the list.
TypeOK ==
  /\ DTypeOK
  /\ program \in {Newer, Older}
  /\ spc \in {"getTableNames", "next", "getTableRegions", "end", "error"}
  /\ listed \subseteq DOMAIN tables /\ names \subseteq listed /\ lines \subseteq listed
  /\ acc \in 0..Cardinality(listed \ names)

\* What a client has printed when it ends normally is true of one moment of its
\* run: as many tables as it called enabled were enabled at once, although it
\* asked about them one by one while another client dropped one of them.  The
\* number at the end is theirs in the older form (line 109) and that of all
\* tables in the newer (line 103).
OneMoment ==
  spc = "end" =>
    /\ Cardinality(lines) \in counts
    /\ acc = Cardinality(IF program = Older THEN lines ELSE listed)

\* Both programs come to an end, with or without an error: scans and folds end
\* whatever the other does to the table.
BothEnd == <>Ended /\ <>StatusEnded
===============================================================================
