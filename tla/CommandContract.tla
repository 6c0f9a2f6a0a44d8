-------------------------- MODULE CommandContract --------------------------
(***************************************************************************)
(* What an idempotency key promises to the clients of a command, with no   *)
(* sessions, locks or rows: under one key at most one request ever takes   *)
(* effect, once; success is reported only of a request that did, a refusal *)
(* only of one that did not.  An answer may be lost, which tells nothing.  *)
(***************************************************************************)
CONSTANTS Identities, None

VARIABLES
  sent,     \* requests that were submitted, each under an identity
  effect,   \* the request an identity stands for, once one took effect
  told      \* answers given

contractVars == <<sent, effect, told>>

Init ==
  /\ sent = {}
  /\ effect = [i \in Identities |-> None]
  /\ told = {}

\* The messages a client may send are its own affair.
Send ==
  /\ sent \subseteq sent'
  /\ UNCHANGED <<effect, told>>

Tell(m, answer) == told' = told \cup {[message |-> m, answer |-> answer]}

TakeEffect(m) ==
  /\ effect[m.id] = None
  /\ effect' = [effect EXCEPT ![m.id] = m.request]
  /\ Tell(m, "OK") \/ Tell(m, "UNKNOWN")
  /\ UNCHANGED sent

Answer(m) ==
  /\ \/ effect[m.id] = m.request /\ Tell(m, "OK")
     \/ effect[m.id] # m.request /\ Tell(m, "REFUSED")
     \/ Tell(m, "UNKNOWN")
  /\ UNCHANGED <<sent, effect>>

Next == Send \/ \E m \in sent : TakeEffect(m) \/ Answer(m)

Spec == Init /\ [][Next]_contractVars
=============================================================================
