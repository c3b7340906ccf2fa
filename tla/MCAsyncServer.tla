---------------------------- MODULE MCAsyncServer -----------------------------
(* AsyncServer with one client that reads and one that may stall; the values *)
(* are in MCAsyncServer.cfg.                                                 *)
EXTENDS AsyncServer
===============================================================================
