----------------------------- MODULE MCByteOrder ------------------------------
(* ByteOrder for values of three bytes, an odd number: reverse() leaves the  *)
(* one in the middle alone; the values are in MCByteOrder.cfg.               *)
EXTENDS ByteOrder
===============================================================================
