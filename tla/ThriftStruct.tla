----------------------------- MODULE ThriftStruct -----------------------------
(***************************************************************************)
(* How the generated code writes a struct and reads it back: the loops     *)
(* that every read() and write() of Hbase.cpp and Hbase_types.cpp repeats  *)
(* with other fields.  A struct's fields are a set of records.  A value of *)
(* it is a function from the names of the members that are set.  On the    *)
(* wire it is a set of ids with a type and a value: no writer writes an id *)
(* twice, so their order is left out.                                      *)
(***************************************************************************)
EXTENDS Naturals

Field(ttype, of, id, name) ==
  [id |-> id, name |-> name, ttype |-> ttype, of |-> of, optional |-> FALSE]

Binary(id, name) == Field("T_STRING", "Text", id, name)
String(id, name) == Field("T_STRING", "string", id, name)
Byte(id, name) == Field("T_BYTE", "byte", id, name)
Bool(id, name) == Field("T_BOOL", "bool", id, name)
I32(id, name) == Field("T_I32", "i32", id, name)
I64(id, name) == Field("T_I64", "i64", id, name)
ListOf(of, id, name) == Field("T_LIST", of, id, name)
MapOf(of, id, name) == Field("T_MAP", of, id, name)
Struct(of, id, name) == Field("T_STRUCT", of, id, name)
Optional(field) == [field EXCEPT !.optional = TRUE]

Names(fields) == {f.name : f \in fields}
Named(fields, name) == CHOOSE f \in fields : f.name = name

\* No two fields of a struct share an id or a name.
WellFormed(fields) ==
  /\ \A f \in fields : f.id \in Nat
  /\ \A f, g \in fields : f.id = g.id \/ f.name = g.name => f = g

\* A value of a struct: only optional members may be missing.
Fits(fields, v) ==
  /\ v = [name \in DOMAIN v |-> v[name]]
  /\ DOMAIN v \subseteq Names(fields)
  /\ \A f \in fields : f.optional \/ f.name \in DOMAIN v

\* A value of a member; one that is a struct has a value of that struct.
Member(structs, f, x) == f.of \in DOMAIN structs => Fits(structs[f.of], x)

-------------------------------------------------------------------------------
OnWire(f, x) == [id |-> f.id, ttype |-> f.ttype, value |-> x]

\* write(): optional members if they are set, the others always (Fits).
Write(fields, v) ==
  {OnWire(f, v[f.name]) : f \in {g \in fields : g.name \in DOMAIN v}}

\* write() of a result: the success value or the first exception that is set.
WriteResult(fields, v) ==
  {OnWire(f, v[f.name]) :
     f \in {g \in fields : /\ g.name \in DOMAIN v
                           /\ \A h \in fields : h.name \in DOMAIN v => g.id <= h.id}}

\* The field's "case" in the read loop takes w; any other field is skipped.
Takes(f, w) == w.id = f.id /\ w.ttype = f.ttype

\* read(): what the fields' cases took; the rest keeps its initial value.
Read(fields, wire) ==
  [name \in {f.name : f \in {g \in fields : \E w \in wire : Takes(g, w)}} |->
     (CHOOSE w \in wire : Takes(Named(fields, name), w)).value]

-------------------------------------------------------------------------------
\* Members that are structs themselves are written and read with their own
\* loops; a list or a map stands for one of its elements.  structs maps the
\* names of structs to their fields.
Encode(structs, fields, v) ==
  [name \in DOMAIN v |->
     LET of == Named(fields, name).of
     IN IF of \in DOMAIN structs THEN Write(structs[of], v[name]) ELSE v[name]]

Decode(structs, fields, v) ==
  [name \in DOMAIN v |->
     LET of == Named(fields, name).of
     IN IF of \in DOMAIN structs THEN Read(structs[of], v[name]) ELSE v[name]]

===============================================================================
