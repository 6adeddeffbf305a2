--------------------------- MODULE MCClientSession ---------------------------
(* The terminal client and another one.  *)
EXTENDS ClientSession
CONSTANTS repl, web, kim, ada, fact
MCCaller == {repl, web}
MCInspectOnly == {"write_story"}
=============================================================================
