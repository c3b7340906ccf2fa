--------------------------- MODULE MCHBaseRenderer ----------------------------
(* Instances of HBaseRenderer.                                               *)
EXTENDS HBaseRenderer

OneSize == {"small"}
AnyArgc == {1}
MCDocuments == Frames \cup {Null}
===============================================================================
