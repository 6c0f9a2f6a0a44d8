--------------------------- MODULE MCOutboxDispatch ---------------------------
(***************************************************************************)
(* Model values for model checking OutboxDispatch: two processes that were *)
(* started under one worker id, an event of an agent run, an event without *)
(* a run, and an event no projector supports.                              *)
(***************************************************************************)
EXTENDS OutboxDispatch

CONSTANTS run, bare, bad, p1, p2, w

EveryEvent == {run, bare, bad}
OnlyBad == {bad}
OnlyRun == {run}
OneWorkerId == [p \in Processes |-> w]
=============================================================================
