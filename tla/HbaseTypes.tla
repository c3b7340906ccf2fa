------------------------------ MODULE HbaseTypes ------------------------------
(***************************************************************************)
(* The structs and exceptions of the HBase gateway's interface, field by   *)
(* field as their read() and write() in Hbase_types.cpp have them.         *)
(***************************************************************************)
EXTENDS ThriftStruct

TCell == {Binary(1, "value"), I64(2, "timestamp")}
ColumnDescriptor ==
  {Binary(1, "name"), I32(2, "maxVersions"), String(3, "compression"),
   Bool(4, "inMemory"), String(5, "bloomFilterType"),
   I32(6, "bloomFilterVectorSize"), I32(7, "bloomFilterNbHashes"),
   Bool(8, "blockCacheEnabled"), I32(9, "timeToLive")}
TRegionInfo ==
  {Binary(1, "startKey"), Binary(2, "endKey"), I64(3, "id"), Binary(4, "name"),
   Byte(5, "version"), Binary(6, "serverName"), I32(7, "port")}
Mutation ==
  {Bool(1, "isDelete"), Binary(2, "column"), Binary(3, "value"),
   Bool(4, "writeToWAL")}
BatchMutation == {Binary(1, "row"), ListOf("Mutation", 2, "mutations")}
TIncrement ==
  {Binary(1, "table"), Binary(2, "row"), Binary(3, "column"),
   I64(4, "ammount")}
TColumn == {Binary(1, "columnName"), Struct("TCell", 2, "cell")}
TRowResult ==
  {Binary(1, "row"), Optional(MapOf("TCell", 2, "columns")),
   Optional(ListOf("TColumn", 3, "sortedColumns"))}
TScan ==
  {Optional(Binary(1, "startRow")), Optional(Binary(2, "stopRow")),
   Optional(I64(3, "timestamp")), Optional(ListOf("Text", 4, "columns")),
   Optional(I32(5, "caching")), Optional(Binary(6, "filterString")),
   Optional(I32(7, "batchSize")), Optional(Bool(8, "sortColumns")),
   Optional(Bool(9, "reversed"))}
TAppend ==
  {Binary(1, "table"), Binary(2, "row"), ListOf("Text", 3, "columns"),
   ListOf("Text", 4, "values")}
IOError == {String(1, "message")}
IllegalArgument == {String(1, "message")}
AlreadyExists == {String(1, "message")}

\* The structs by name, for members that are structs, lists or maps of them.
StructFields ==
  [TCell |-> TCell, ColumnDescriptor |-> ColumnDescriptor,
   TRegionInfo |-> TRegionInfo, Mutation |-> Mutation,
   BatchMutation |-> BatchMutation, TIncrement |-> TIncrement,
   TColumn |-> TColumn, TRowResult |-> TRowResult, TScan |-> TScan,
   TAppend |-> TAppend, IOError |-> IOError,
   IllegalArgument |-> IllegalArgument, AlreadyExists |-> AlreadyExists]
===============================================================================
