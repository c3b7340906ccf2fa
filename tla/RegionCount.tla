----------------------------- MODULE RegionCount ------------------------------
(***************************************************************************)
(* One call of the row-count coprocessor in a region server:               *)
(* getRowCount() or getKeyValueCount() of VelasscoCoProcessorCountRows,    *)
(* while other clients write to the region.                                *)
(*                                                                         *)
(* HBase, outside the repository, is modelled as the handlers use it: a    *)
(* region scanner sees the cells that were there when it was made, of each *)
(* column the newest version (what a new Scan() asks for), in the order of *)
(* rows and columns, in batches of its own choice; its calls may throw     *)
(* IOException or an unchecked exception; FirstKeyOnlyFilter passes the    *)
(* first cell of each row.                                                 *)
(***************************************************************************)
EXTENDS Naturals, FiniteSets

CONSTANTS RowKeys,     \* the keys of the region's range, in key order
          Qualifiers,  \* column names, in name order
          Timestamps,  \* versions of a column
          None,        \* null
          MaxWrites    \* bound: writes to the region during the call

Cells == [row : RowKeys, col : Qualifiers, ts : Timestamps]

ASSUME RegionCountAssumption ==
  /\ RowKeys \subseteq Nat /\ IsFiniteSet(RowKeys)
  /\ Qualifiers \subseteq Nat /\ Timestamps \subseteq Nat
  /\ IsFiniteSet(Cells)
  /\ None \notin Nat /\ None \notin {"open", "closed"}
  /\ MaxWrites \in Nat

VARIABLES cells,      \* the region's cells
          writes,
          method,     \* the handler called
          pc,         \* where the handler is
          scanner,    \* null, "open" or "closed"
          snapshot,   \* the cells when the scanner was made
          rest,       \* what the scanner has yet to deliver
          results,    \* the batch of cells not yet counted
          hasMore, lastRow, count, response,
          exception   \* the controller's exception

region == <<cells, writes, method>>
scan == <<scanner, snapshot, rest>>
locals == <<results, hasMore, lastRow, count>>
vars == <<region, pc, scan, locals, response, exception>>

RowsOf(S) == {c.row : c \in S}

Newest(S) == {c \in S : \A d \in S : d.row = c.row /\ d.col = c.col => d.ts <= c.ts}

\* FirstKeyOnlyFilter.
FirstKeys(S) == {c \in S : \A d \in S : d.row = c.row => c.col <= d.col}

\* The cells the scan of method m delivers of the cells S.
Scanned(m, S) == IF m = "getRowCount" THEN FirstKeys(Newest(S)) ELSE Newest(S)

\* Scan order.
Before(c, d) == c.row < d.row \/ (c.row = d.row /\ c.col < d.col)

Init ==
  /\ cells \in SUBSET Cells /\ writes = 0
  /\ method \in {"getRowCount", "getKeyValueCount"}
  /\ pc = "call" /\ scanner = None /\ snapshot = {} /\ rest = {}
  /\ results = {} /\ hasMore = FALSE /\ lastRow = None /\ count = 0
  /\ response = None /\ exception = FALSE

-------------------------------------------------------------------------------
GetScanner ==
  /\ pc = "call" /\ pc' = "next"
  /\ scanner' = "open"
  /\ snapshot' = cells
  /\ rest' = Scanned(method, cells)
  /\ UNCHANGED <<region, locals, response, exception>>

\* One call of scanner.next(): the next cells in scan order.  It says TRUE
\* when there is more, and may say so when there is not.
ScannerNext ==
  /\ pc = "next" /\ pc' = "each"
  /\ \E batch \in SUBSET rest :
       /\ \A c \in batch, d \in rest \ batch : Before(c, d)
       /\ batch = {} => rest = {}
       /\ results' = batch
       /\ rest' = rest \ batch
       /\ hasMore' \in IF batch = {} THEN {FALSE}
                       ELSE IF rest = batch THEN BOOLEAN ELSE {TRUE}
  /\ UNCHANGED <<region, scanner, snapshot, lastRow, count, response, exception>>

\* Mutant: a row is compared with the first one for ever.
CountCell_KeepsFirst ==
  /\ pc = "each"
  /\ \E c \in results :
       /\ \A d \in results \ {c} : Before(c, d)
       /\ results' = results \ {c}
       /\ IF method = "getRowCount" /\ lastRow # None
          THEN UNCHANGED <<lastRow, count>>
          ELSE /\ lastRow' = c.row
               /\ count' = count + 1
  /\ UNCHANGED <<region, pc, scan, hasMore, response, exception>>

\* Mutant: the column's name is kept instead of the row's.
CountCell_CloneQualifier ==
  /\ pc = "each"
  /\ \E c \in results :
       /\ \A d \in results \ {c} : Before(c, d)
       /\ results' = results \ {c}
       /\ lastRow' = c.col
       /\ count' = count + 1
  /\ UNCHANGED <<region, pc, scan, hasMore, response, exception>>

\* The body of the inner loop.  getKeyValueCount() counts every cell and has
\* no lastRow.
CountCell ==
  /\ pc = "each"
  /\ \E c \in results :
       /\ \A d \in results \ {c} : Before(c, d)
       /\ results' = results \ {c}
       /\ IF method = "getRowCount"
          THEN IF lastRow = None \/ lastRow # c.row
               THEN lastRow' = c.row /\ count' = count + 1
               ELSE UNCHANGED <<lastRow, count>>
          ELSE count' = count + 1 /\ UNCHANGED lastRow
  /\ UNCHANGED <<region, pc, scan, hasMore, response, exception>>

\* Mutant: the loop ends with the first batch.
EndBatch_Once ==
  /\ pc = "each" /\ results = {}
  /\ pc' = "finally" /\ response' = count
  /\ UNCHANGED <<region, scan, locals, exception>>

EndBatch ==
  /\ pc = "each" /\ results = {}
  /\ IF hasMore THEN pc' = "next" /\ UNCHANGED response
                ELSE pc' = "finally" /\ response' = count
  /\ UNCHANGED <<region, scan, locals, exception>>

\* Mutant: what was counted so far is answered.
IOException_Partial ==
  /\ pc \in {"call", "next"} /\ pc' = "finally"
  /\ response' = count
  /\ UNCHANGED <<region, scan, locals, exception>>

\* getScanner() or next() throws; the catch clause tells the controller.
IOException ==
  /\ pc \in {"call", "next"} /\ pc' = "finally"
  /\ exception' = TRUE
  /\ UNCHANGED <<region, scan, locals, response>>

\* An exception the handler does not catch.
UncheckedException ==
  /\ pc \in {"call", "next"} /\ pc' = "unwind"
  /\ UNCHANGED <<region, scan, locals, response, exception>>

\* Mutant: the scanner is closed only on the way to an answer.
Finally_OnAnswer ==
  /\ pc \in {"finally", "unwind"}
  /\ pc' = IF pc = "finally" THEN "run" ELSE "thrown"
  /\ scanner' = IF scanner = None \/ response = None THEN scanner ELSE "closed"
  /\ UNCHANGED <<region, snapshot, rest, locals, response, exception>>

\* The finally clause; what close() throws is ignored.
Finally ==
  /\ pc \in {"finally", "unwind"}
  /\ pc' = IF pc = "finally" THEN "run" ELSE "thrown"
  /\ scanner' = IF scanner = None THEN None ELSE "closed"
  /\ UNCHANGED <<region, snapshot, rest, locals, response, exception>>

\* done.run(response)
Run ==
  /\ pc = "run" /\ pc' = "answered"
  /\ UNCHANGED <<region, scan, locals, response, exception>>

\* Some other client puts or deletes a cell.
WriteCell ==
  /\ writes < MaxWrites
  /\ writes' = writes + 1
  /\ \E c \in Cells : cells' = IF c \in cells THEN cells \ {c} ELSE cells \cup {c}
  /\ UNCHANGED <<method, pc, scan, locals, response, exception>>

Handler ==
  \/ GetScanner \/ ScannerNext \/ CountCell \/ EndBatch
  \/ IOException \/ UncheckedException \/ Finally \/ Run

Done == pc \in {"answered", "thrown"} /\ UNCHANGED vars

Next == Handler \/ WriteCell \/ Done

\* The handler's thread runs on; the scanner returns or throws.
Spec == Init /\ [][Next]_vars /\ WF_vars(Handler)

-------------------------------------------------------------------------------
TypeOK ==
  /\ cells \in SUBSET Cells /\ snapshot \in SUBSET Cells
  /\ rest \in SUBSET Cells /\ results \in SUBSET Cells
  /\ writes \in 0..MaxWrites
  /\ method \in {"getRowCount", "getKeyValueCount"}
  /\ pc \in {"call", "next", "each", "finally", "unwind", "run", "answered",
             "thrown"}
  /\ scanner \in {None, "open", "closed"}
  /\ hasMore \in BOOLEAN /\ exception \in BOOLEAN
  /\ lastRow \in RowKeys \cup {None}
  /\ count \in Nat
  /\ response \in Nat \cup {None}

Tally(S) == Cardinality(IF method = "getRowCount" THEN RowsOf(S) ELSE S)

\* A response is the number of distinct rows, or of cells, that the scan
\* delivers, each counted once, whichever way the scanner cuts them into
\* batches and whoever writes to the region meanwhile (51-70, 92-106).
ExactCount == response # None => response = Tally(Scanned(method, snapshot))

\* The caller gets a count or an exception in the controller, never both and
\* never neither; and no scanner stays open once the handler is left, by
\* whichever way (71-80).
CleanExit ==
  /\ pc = "answered" => (response = None <=> exception)
  /\ pc \in {"answered", "thrown"} => scanner # "open"

\* What there is to count in the cells S: the rows, or the columns.
Total(S) ==
  Cardinality(IF method = "getRowCount" THEN RowsOf(S)
                                        ELSE {<<c.row, c.col>> : c \in S})

\* The call seen from its caller.
Phase == IF pc = "answered" /\ response # None THEN "answered"
         ELSE IF pc \in {"answered", "thrown"} THEN "failed"
         ELSE IF scanner = None THEN "called" ELSE "taken"

Taken == IF scanner = None THEN None ELSE Total(snapshot)

Answer == IF pc = "answered" THEN response ELSE None

Counting ==
  INSTANCE Counter
    WITH total <- Total(cells), phase <- Phase, value <- Taken, answer <- Answer

\* The handlers do what module Counter promises: the answer is the number of
\* rows (or of columns) the region had at one moment of the call.
ImplementsCounter == Counting!Spec

\* "Returns a count of all KeyValues in the region" (85-87): every version of
\* every column is a KeyValue.
AllKeyValues ==
  method = "getKeyValueCount" /\ response # None =>
    response = Cardinality(snapshot)
===============================================================================
