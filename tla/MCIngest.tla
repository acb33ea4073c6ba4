------------------------------ MODULE MCIngest ------------------------------
(***************************************************************************)
(* Ingest on a small instance: two trading days around one without a       *)
(* session, and a bonus two sources date and name differently.             *)
(***************************************************************************)
EXTENDS Ingest

MCRank == [s \in {"csv", "exchange", "yahoo"} |->
             CASE s = "csv" -> 3 [] s = "exchange" -> 2 [] s = "yahoo" -> 1]
MCKinds == [k \in {"bonus", "dividend", "split"} |->
              CASE k = "split" -> 1 [] k = "bonus" -> 2 [] k = "dividend" -> 3]

Row(d, k, q, s) == [day |-> d, kind |-> k, ratio |-> q, source |-> s]
MCYahoo == {Row(3, "split", "adjusts", "yahoo")}
MCExchange == {Row(2, "bonus", "adjusts", "exchange"), Row(2, "dividend", "none", "exchange")}
MCModes == {[refetch |-> FALSE, force |-> FALSE], [refetch |-> TRUE, force |-> TRUE]}
MCEvictable == {{}, {u \in Urls : u[1] = "prices"}}
=============================================================================
