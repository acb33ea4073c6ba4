---------------------------- MODULE MCStoreLock ----------------------------
(***************************************************************************)
(* StoreLock on a small instance: two locked feeds and the imported one.   *)
(***************************************************************************)
EXTENDS StoreLock

MCFeeds    == {"prices", "delivery", "fundamentals"}
MCImported == {"fundamentals"}
MCCounted  == {"prices"}

\* One command-line run and one server run.
MCHost == [a \in Analyses |-> IF a = "evening" THEN "cli" ELSE "web"]

\* Every run belongs to the server.
MCWebHost == [a \in Analyses |-> "web"]
=============================================================================
