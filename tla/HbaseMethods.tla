----------------------------- MODULE HbaseMethods -----------------------------
(***************************************************************************)
(* The methods of the HBase gateway: the arguments and the result of each, *)
(* field by field as the read() and write() of their structs in Hbase.cpp  *)
(* have them.  A result's field 0 is the return value, the others are the  *)
(* exceptions the method declares.                                         *)
(***************************************************************************)
EXTENDS HbaseTypes

Hbase_enableTable_args == {Binary(1, "tableName")}
Hbase_enableTable_result == {Struct("IOError", 1, "io")}
Hbase_disableTable_args == {Binary(1, "tableName")}
Hbase_disableTable_result == {Struct("IOError", 1, "io")}
Hbase_isTableEnabled_args == {Binary(1, "tableName")}
Hbase_isTableEnabled_result == {Bool(0, "success"), Struct("IOError", 1, "io")}
Hbase_compact_args == {Binary(1, "tableNameOrRegionName")}
Hbase_compact_result == {Struct("IOError", 1, "io")}
Hbase_majorCompact_args == {Binary(1, "tableNameOrRegionName")}
Hbase_majorCompact_result == {Struct("IOError", 1, "io")}
Hbase_getTableNames_args == {}
Hbase_getTableNames_result ==
  {ListOf("Text", 0, "success"), Struct("IOError", 1, "io")}
Hbase_getColumnDescriptors_args == {Binary(1, "tableName")}
Hbase_getColumnDescriptors_result ==
  {MapOf("ColumnDescriptor", 0, "success"), Struct("IOError", 1, "io")}
Hbase_getTableRegions_args == {Binary(1, "tableName")}
Hbase_getTableRegions_result ==
  {ListOf("TRegionInfo", 0, "success"), Struct("IOError", 1, "io")}
Hbase_createTable_args ==
  {Binary(1, "tableName"), ListOf("ColumnDescriptor", 2, "columnFamilies")}
Hbase_createTable_result ==
  {Struct("IOError", 1, "io"), Struct("IllegalArgument", 2, "ia"),
   Struct("AlreadyExists", 3, "exist")}
Hbase_deleteTable_args == {Binary(1, "tableName")}
Hbase_deleteTable_result == {Struct("IOError", 1, "io")}
Hbase_get_args ==
  {Binary(1, "tableName"), Binary(2, "row"), Binary(3, "column"),
   MapOf("Text", 4, "attributes")}
Hbase_get_result == {ListOf("TCell", 0, "success"), Struct("IOError", 1, "io")}
Hbase_getVer_args ==
  {Binary(1, "tableName"), Binary(2, "row"), Binary(3, "column"),
   I32(4, "numVersions"), MapOf("Text", 5, "attributes")}
Hbase_getVer_result ==
  {ListOf("TCell", 0, "success"), Struct("IOError", 1, "io")}
Hbase_getVerTs_args ==
  {Binary(1, "tableName"), Binary(2, "row"), Binary(3, "column"),
   I64(4, "timestamp"), I32(5, "numVersions"), MapOf("Text", 6, "attributes")}
Hbase_getVerTs_result ==
  {ListOf("TCell", 0, "success"), Struct("IOError", 1, "io")}
Hbase_getRow_args ==
  {Binary(1, "tableName"), Binary(2, "row"), MapOf("Text", 3, "attributes")}
Hbase_getRow_result ==
  {ListOf("TRowResult", 0, "success"), Struct("IOError", 1, "io")}
Hbase_getRowWithColumns_args ==
  {Binary(1, "tableName"), Binary(2, "row"), ListOf("Text", 3, "columns"),
   MapOf("Text", 4, "attributes")}
Hbase_getRowWithColumns_result ==
  {ListOf("TRowResult", 0, "success"), Struct("IOError", 1, "io")}
Hbase_getRowTs_args ==
  {Binary(1, "tableName"), Binary(2, "row"), I64(3, "timestamp"),
   MapOf("Text", 4, "attributes")}
Hbase_getRowTs_result ==
  {ListOf("TRowResult", 0, "success"), Struct("IOError", 1, "io")}
Hbase_getRowWithColumnsTs_args ==
  {Binary(1, "tableName"), Binary(2, "row"), ListOf("Text", 3, "columns"),
   I64(4, "timestamp"), MapOf("Text", 5, "attributes")}
Hbase_getRowWithColumnsTs_result ==
  {ListOf("TRowResult", 0, "success"), Struct("IOError", 1, "io")}
Hbase_getRows_args ==
  {Binary(1, "tableName"), ListOf("Text", 2, "rows"),
   MapOf("Text", 3, "attributes")}
Hbase_getRows_result ==
  {ListOf("TRowResult", 0, "success"), Struct("IOError", 1, "io")}
Hbase_getRowsWithColumns_args ==
  {Binary(1, "tableName"), ListOf("Text", 2, "rows"),
   ListOf("Text", 3, "columns"), MapOf("Text", 4, "attributes")}
Hbase_getRowsWithColumns_result ==
  {ListOf("TRowResult", 0, "success"), Struct("IOError", 1, "io")}
Hbase_getRowsTs_args ==
  {Binary(1, "tableName"), ListOf("Text", 2, "rows"), I64(3, "timestamp"),
   MapOf("Text", 4, "attributes")}
Hbase_getRowsTs_result ==
  {ListOf("TRowResult", 0, "success"), Struct("IOError", 1, "io")}
Hbase_getRowsWithColumnsTs_args ==
  {Binary(1, "tableName"), ListOf("Text", 2, "rows"),
   ListOf("Text", 3, "columns"), I64(4, "timestamp"),
   MapOf("Text", 5, "attributes")}
Hbase_getRowsWithColumnsTs_result ==
  {ListOf("TRowResult", 0, "success"), Struct("IOError", 1, "io")}
Hbase_mutateRow_args ==
  {Binary(1, "tableName"), Binary(2, "row"),
   ListOf("Mutation", 3, "mutations"), MapOf("Text", 4, "attributes")}
Hbase_mutateRow_result ==
  {Struct("IOError", 1, "io"), Struct("IllegalArgument", 2, "ia")}
Hbase_mutateRowTs_args ==
  {Binary(1, "tableName"), Binary(2, "row"),
   ListOf("Mutation", 3, "mutations"), I64(4, "timestamp"),
   MapOf("Text", 5, "attributes")}
Hbase_mutateRowTs_result ==
  {Struct("IOError", 1, "io"), Struct("IllegalArgument", 2, "ia")}
Hbase_mutateRows_args ==
  {Binary(1, "tableName"), ListOf("BatchMutation", 2, "rowBatches"),
   MapOf("Text", 3, "attributes")}
Hbase_mutateRows_result ==
  {Struct("IOError", 1, "io"), Struct("IllegalArgument", 2, "ia")}
Hbase_mutateRowsTs_args ==
  {Binary(1, "tableName"), ListOf("BatchMutation", 2, "rowBatches"),
   I64(3, "timestamp"), MapOf("Text", 4, "attributes")}
Hbase_mutateRowsTs_result ==
  {Struct("IOError", 1, "io"), Struct("IllegalArgument", 2, "ia")}
Hbase_atomicIncrement_args ==
  {Binary(1, "tableName"), Binary(2, "row"), Binary(3, "column"),
   I64(4, "value")}
Hbase_atomicIncrement_result ==
  {I64(0, "success"), Struct("IOError", 1, "io"),
   Struct("IllegalArgument", 2, "ia")}
Hbase_deleteAll_args ==
  {Binary(1, "tableName"), Binary(2, "row"), Binary(3, "column"),
   MapOf("Text", 4, "attributes")}
Hbase_deleteAll_result == {Struct("IOError", 1, "io")}
Hbase_deleteAllTs_args ==
  {Binary(1, "tableName"), Binary(2, "row"), Binary(3, "column"),
   I64(4, "timestamp"), MapOf("Text", 5, "attributes")}
Hbase_deleteAllTs_result == {Struct("IOError", 1, "io")}
Hbase_deleteAllRow_args ==
  {Binary(1, "tableName"), Binary(2, "row"), MapOf("Text", 3, "attributes")}
Hbase_deleteAllRow_result == {Struct("IOError", 1, "io")}
Hbase_increment_args == {Struct("TIncrement", 1, "increment")}
Hbase_increment_result == {Struct("IOError", 1, "io")}
Hbase_incrementRows_args == {ListOf("TIncrement", 1, "increments")}
Hbase_incrementRows_result == {Struct("IOError", 1, "io")}
Hbase_deleteAllRowTs_args ==
  {Binary(1, "tableName"), Binary(2, "row"), I64(3, "timestamp"),
   MapOf("Text", 4, "attributes")}
Hbase_deleteAllRowTs_result == {Struct("IOError", 1, "io")}
Hbase_scannerOpenWithScan_args ==
  {Binary(1, "tableName"), Struct("TScan", 2, "scan"),
   MapOf("Text", 3, "attributes")}
Hbase_scannerOpenWithScan_result ==
  {I32(0, "success"), Struct("IOError", 1, "io")}
Hbase_scannerOpen_args ==
  {Binary(1, "tableName"), Binary(2, "startRow"), ListOf("Text", 3, "columns"),
   MapOf("Text", 4, "attributes")}
Hbase_scannerOpen_result == {I32(0, "success"), Struct("IOError", 1, "io")}
Hbase_scannerOpenWithStop_args ==
  {Binary(1, "tableName"), Binary(2, "startRow"), Binary(3, "stopRow"),
   ListOf("Text", 4, "columns"), MapOf("Text", 5, "attributes")}
Hbase_scannerOpenWithStop_result ==
  {I32(0, "success"), Struct("IOError", 1, "io")}
Hbase_scannerOpenWithPrefix_args ==
  {Binary(1, "tableName"), Binary(2, "startAndPrefix"),
   ListOf("Text", 3, "columns"), MapOf("Text", 4, "attributes")}
Hbase_scannerOpenWithPrefix_result ==
  {I32(0, "success"), Struct("IOError", 1, "io")}
Hbase_scannerOpenTs_args ==
  {Binary(1, "tableName"), Binary(2, "startRow"), ListOf("Text", 3, "columns"),
   I64(4, "timestamp"), MapOf("Text", 5, "attributes")}
Hbase_scannerOpenTs_result == {I32(0, "success"), Struct("IOError", 1, "io")}
Hbase_scannerOpenWithStopTs_args ==
  {Binary(1, "tableName"), Binary(2, "startRow"), Binary(3, "stopRow"),
   ListOf("Text", 4, "columns"), I64(5, "timestamp"),
   MapOf("Text", 6, "attributes")}
Hbase_scannerOpenWithStopTs_result ==
  {I32(0, "success"), Struct("IOError", 1, "io")}
Hbase_scannerGet_args == {I32(1, "id")}
Hbase_scannerGet_result ==
  {ListOf("TRowResult", 0, "success"), Struct("IOError", 1, "io"),
   Struct("IllegalArgument", 2, "ia")}
Hbase_scannerGetList_args == {I32(1, "id"), I32(2, "nbRows")}
Hbase_scannerGetList_result ==
  {ListOf("TRowResult", 0, "success"), Struct("IOError", 1, "io"),
   Struct("IllegalArgument", 2, "ia")}
Hbase_scannerClose_args == {I32(1, "id")}
Hbase_scannerClose_result ==
  {Struct("IOError", 1, "io"), Struct("IllegalArgument", 2, "ia")}
Hbase_getRowOrBefore_args ==
  {Binary(1, "tableName"), Binary(2, "row"), Binary(3, "family")}
Hbase_getRowOrBefore_result ==
  {ListOf("TCell", 0, "success"), Struct("IOError", 1, "io")}
Hbase_getRegionInfo_args == {Binary(1, "row")}
Hbase_getRegionInfo_result ==
  {Struct("TRegionInfo", 0, "success"), Struct("IOError", 1, "io")}
Hbase_append_args == {Struct("TAppend", 1, "append")}
Hbase_append_result ==
  {ListOf("TCell", 0, "success"), Struct("IOError", 1, "io")}
Hbase_checkAndPut_args ==
  {Binary(1, "tableName"), Binary(2, "row"), Binary(3, "column"),
   Binary(5, "value"), Struct("Mutation", 6, "mput"),
   MapOf("Text", 7, "attributes")}
Hbase_checkAndPut_result ==
  {Bool(0, "success"), Struct("IOError", 1, "io"),
   Struct("IllegalArgument", 2, "ia")}

-------------------------------------------------------------------------------
\* processMap_: what the processor finds by name.
MethodArgs ==
  [enableTable |-> Hbase_enableTable_args,
   disableTable |-> Hbase_disableTable_args,
   isTableEnabled |-> Hbase_isTableEnabled_args,
   compact |-> Hbase_compact_args,
   majorCompact |-> Hbase_majorCompact_args,
   getTableNames |-> Hbase_getTableNames_args,
   getColumnDescriptors |-> Hbase_getColumnDescriptors_args,
   getTableRegions |-> Hbase_getTableRegions_args,
   createTable |-> Hbase_createTable_args,
   deleteTable |-> Hbase_deleteTable_args,
   get |-> Hbase_get_args,
   getVer |-> Hbase_getVer_args,
   getVerTs |-> Hbase_getVerTs_args,
   getRow |-> Hbase_getRow_args,
   getRowWithColumns |-> Hbase_getRowWithColumns_args,
   getRowTs |-> Hbase_getRowTs_args,
   getRowWithColumnsTs |-> Hbase_getRowWithColumnsTs_args,
   getRows |-> Hbase_getRows_args,
   getRowsWithColumns |-> Hbase_getRowsWithColumns_args,
   getRowsTs |-> Hbase_getRowsTs_args,
   getRowsWithColumnsTs |-> Hbase_getRowsWithColumnsTs_args,
   mutateRow |-> Hbase_mutateRow_args,
   mutateRowTs |-> Hbase_mutateRowTs_args,
   mutateRows |-> Hbase_mutateRows_args,
   mutateRowsTs |-> Hbase_mutateRowsTs_args,
   atomicIncrement |-> Hbase_atomicIncrement_args,
   deleteAll |-> Hbase_deleteAll_args,
   deleteAllTs |-> Hbase_deleteAllTs_args,
   deleteAllRow |-> Hbase_deleteAllRow_args,
   increment |-> Hbase_increment_args,
   incrementRows |-> Hbase_incrementRows_args,
   deleteAllRowTs |-> Hbase_deleteAllRowTs_args,
   scannerOpenWithScan |-> Hbase_scannerOpenWithScan_args,
   scannerOpen |-> Hbase_scannerOpen_args,
   scannerOpenWithStop |-> Hbase_scannerOpenWithStop_args,
   scannerOpenWithPrefix |-> Hbase_scannerOpenWithPrefix_args,
   scannerOpenTs |-> Hbase_scannerOpenTs_args,
   scannerOpenWithStopTs |-> Hbase_scannerOpenWithStopTs_args,
   scannerGet |-> Hbase_scannerGet_args,
   scannerGetList |-> Hbase_scannerGetList_args,
   scannerClose |-> Hbase_scannerClose_args,
   getRowOrBefore |-> Hbase_getRowOrBefore_args,
   getRegionInfo |-> Hbase_getRegionInfo_args,
   append |-> Hbase_append_args,
   checkAndPut |-> Hbase_checkAndPut_args]

MethodResults ==
  [enableTable |-> Hbase_enableTable_result,
   disableTable |-> Hbase_disableTable_result,
   isTableEnabled |-> Hbase_isTableEnabled_result,
   compact |-> Hbase_compact_result,
   majorCompact |-> Hbase_majorCompact_result,
   getTableNames |-> Hbase_getTableNames_result,
   getColumnDescriptors |-> Hbase_getColumnDescriptors_result,
   getTableRegions |-> Hbase_getTableRegions_result,
   createTable |-> Hbase_createTable_result,
   deleteTable |-> Hbase_deleteTable_result,
   get |-> Hbase_get_result,
   getVer |-> Hbase_getVer_result,
   getVerTs |-> Hbase_getVerTs_result,
   getRow |-> Hbase_getRow_result,
   getRowWithColumns |-> Hbase_getRowWithColumns_result,
   getRowTs |-> Hbase_getRowTs_result,
   getRowWithColumnsTs |-> Hbase_getRowWithColumnsTs_result,
   getRows |-> Hbase_getRows_result,
   getRowsWithColumns |-> Hbase_getRowsWithColumns_result,
   getRowsTs |-> Hbase_getRowsTs_result,
   getRowsWithColumnsTs |-> Hbase_getRowsWithColumnsTs_result,
   mutateRow |-> Hbase_mutateRow_result,
   mutateRowTs |-> Hbase_mutateRowTs_result,
   mutateRows |-> Hbase_mutateRows_result,
   mutateRowsTs |-> Hbase_mutateRowsTs_result,
   atomicIncrement |-> Hbase_atomicIncrement_result,
   deleteAll |-> Hbase_deleteAll_result,
   deleteAllTs |-> Hbase_deleteAllTs_result,
   deleteAllRow |-> Hbase_deleteAllRow_result,
   increment |-> Hbase_increment_result,
   incrementRows |-> Hbase_incrementRows_result,
   deleteAllRowTs |-> Hbase_deleteAllRowTs_result,
   scannerOpenWithScan |-> Hbase_scannerOpenWithScan_result,
   scannerOpen |-> Hbase_scannerOpen_result,
   scannerOpenWithStop |-> Hbase_scannerOpenWithStop_result,
   scannerOpenWithPrefix |-> Hbase_scannerOpenWithPrefix_result,
   scannerOpenTs |-> Hbase_scannerOpenTs_result,
   scannerOpenWithStopTs |-> Hbase_scannerOpenWithStopTs_result,
   scannerGet |-> Hbase_scannerGet_result,
   scannerGetList |-> Hbase_scannerGetList_result,
   scannerClose |-> Hbase_scannerClose_result,
   getRowOrBefore |-> Hbase_getRowOrBefore_result,
   getRegionInfo |-> Hbase_getRegionInfo_result,
   append |-> Hbase_append_result,
   checkAndPut |-> Hbase_checkAndPut_result]
===============================================================================
