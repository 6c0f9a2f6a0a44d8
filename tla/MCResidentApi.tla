---------------------------- MODULE MCResidentApi ----------------------------
(* A small instance of ResidentApi: a registered thread and room for one      *)
(* more, a message, an answer to the thread's question, and a creation.       *)
EXTENDS ResidentApi

CONSTANTS t1, t2, k1, k2, k3, p1

MCThreads == {t1, t2}
MCExisting == {t1}
MCRequests ==
    {[key |-> k1, payload |-> p1, kind |-> "MESSAGE", thread |-> t1, mid |-> "m1"],
     [key |-> k2, payload |-> p1, kind |-> "CREATE", thread |-> t2, mid |-> "m1"],
     [key |-> k3, payload |-> p1, kind |-> "ANSWER", thread |-> t1, mid |-> "m1"]}
=============================================================================
