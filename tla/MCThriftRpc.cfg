SPECIFICATION Spec
CONSTANTS
  Clients = {"HbaseClient", "HbaseConcurrentClient"}
  Threads = {t1, t2}
  Main = t1
  Methods <- MCMethods
  Shared = {"isTableEnabled", "deleteTable"}
  Args <- MCArgs
  Results <- MCResults
  Structs <- MCStructs
  Unserved = {"append"}
  Ifaces = 2
  Foreign <- MCForeign
  ArgValues <- MCArgValues
  ReturnValues <- MCReturnValues
  Thrown <- MCThrown
  Seqids = {0, 1}
  Nothing = Nothing
INVARIANTS TypeOK Matched SuccessMeansDone
PROPERTIES ImplementsRpc
