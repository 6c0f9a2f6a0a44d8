------------------------ MODULE MCReplayVerification ------------------------
(* One agent run of any origin and one operator action, and two            *)
(* verification requests under one idempotency key.                        *)
EXTENDS ReplayVerification, TLC

CONSTANTS turn, action
MCOrigin == turn :> Origins \ {"operator"} @@ action :> {"operator"}
Alike == Permutations(Requests)
\* The two captures write different bundles, so their interleaving changes
\* nothing: the operator acts after the turn, and a release follows both.
\* They meet only under a key, for which one sort of turn is enough.
OneAfterTheOther ==
    /\ run[action].at = "begin" \/ (run[turn].at \in Over /\ origin[turn] = "retry")
    /\ version > 1 => \A r \in Runs : run[r].at \in Over \cup {"begin"}
=============================================================================
