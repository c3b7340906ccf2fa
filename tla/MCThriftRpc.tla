------------------------------ MODULE MCThriftRpc -----------------------------
(* All methods of the gateway, each argument and result with one value that    *)
(* names its field, so that a value in the wrong place is another value.       *)
EXTENDS ThriftRpc, FiniteSets

HBase == INSTANCE HbaseMethods

Sample(f) ==
  IF f.of \in DOMAIN HBase!StructFields
  THEN [n \in Names(HBase!StructFields[f.of]) |-> n]
  ELSE [n \in {f.name} |-> n]

MCMethods == DOMAIN HBase!MethodArgs
MCArgs == HBase!MethodArgs
MCResults == HBase!MethodResults
MCStructs == HBase!StructFields
MCForeign == {[id |-> 99, ttype |-> "T_STRING", value |-> Nothing],
              [id |-> 1, ttype |-> "T_DOUBLE", value |-> Nothing]}
MCArgValues ==
  [m \in MCMethods |-> {[n \in Names(HBase!MethodArgs[m]) |-> Sample(Named(HBase!MethodArgs[m], n))]}]
MCReturnValues ==
  [m \in MCMethods |-> IF "success" \in Names(HBase!MethodResults[m])
                       THEN {Sample(Named(HBase!MethodResults[m], "success"))}
                       ELSE {Nothing}]
MCThrown == {[n \in {"message"} |-> "message"]}
===============================================================================
