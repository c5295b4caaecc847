---------------------------- MODULE MCLogStream -----------------------------
(***************************************************************************)
(* A small instance of LogStream: a pool of two places, a stream of one    *)
(* job, two lines of this job, one of them cut, a line of another job, and *)
(* a line of three-byte characters that is too long for NOTIFY.            *)
(***************************************************************************)
EXTENDS LogStream

MCConns == {"c1", "c2"}
MCLines == {"a1", "a2", "b", "wide"}
MCClients == {"s"}
MCWants == [k \in MCClients |-> {"a1", "a2", "wide"}]
MCChars == [l \in MCLines |-> IF l \in {"a2", "wide"} THEN 7001 ELSE 40]
MCWidth == [l \in MCLines |-> IF l = "wide" THEN 3 ELSE 1]
=============================================================================
