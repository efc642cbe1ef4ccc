--------------------------- MODULE TokenLifecycle ---------------------------
(***************************************************************************)
(* What the batch-token registry promises its clients, with no files, no   *)
(* lock and no journal.  A token is issued once, is usable until one       *)
(* client consumes it or the Coordinator revokes it, and at most one       *)
(* client is ever told that it completed the batch the token stands for.   *)
(***************************************************************************)
CONSTANT Tokens      \* every token string the registry can hand out

VARIABLES
  status,            \* status[t]: where token t is in its life
  printed,           \* the tokens some caller has been handed
  claims,            \* consumed, and the winning client does not know yet
  completed          \* tokens whose consumption was reported as done

vars == <<status, printed, claims, completed>>

Status == {"absent", "active", "consumed", "revoked"}

TypeOK ==
  /\ status \in [Tokens -> Status]
  /\ printed \subseteq Tokens
  /\ claims \subseteq Tokens
  /\ completed \subseteq Tokens

Init ==
  /\ status = [t \in Tokens |-> "absent"]
  /\ printed = {}
  /\ claims = {}
  /\ completed = {}

Issue(t) ==
  /\ status[t] = "absent"
  /\ status' = [status EXCEPT ![t] = "active"]
  /\ UNCHANGED <<printed, claims, completed>>

\* A caller learns a token only once the registry is bound to honour it.
Announce(t) ==
  /\ status[t] # "absent"
  /\ printed' = printed \cup {t}
  /\ UNCHANGED <<status, claims, completed>>

Consume(t) ==
  /\ status[t] = "active"
  /\ status' = [status EXCEPT ![t] = "consumed"]
  /\ claims' = claims \cup {t}
  /\ UNCHANGED <<printed, completed>>

Revoke(t) ==
  /\ status[t] # "absent"
  /\ status' = [status EXCEPT ![t] = "revoked"]
  /\ UNCHANGED <<printed, claims, completed>>

Complete(t) ==
  /\ t \in claims
  /\ claims' = claims \ {t}
  /\ completed' = completed \cup {t}
  /\ UNCHANGED <<status, printed>>

\* The client that won the token dies before it hears so.
Abandon(t) ==
  /\ t \in claims
  /\ claims' = claims \ {t}
  /\ UNCHANGED <<status, printed, completed>>

Next ==
  \E t \in Tokens :
    \/ Issue(t)
    \/ Announce(t)
    \/ Consume(t)
    \/ Revoke(t)
    \/ Complete(t)
    \/ Abandon(t)

Spec == Init /\ [][Next]_vars

-----------------------------------------------------------------------------
\* A token that was won, reported or not, is never usable again, and it is
\* reported at most once (TokenStore.consume: "prevents two remote clients
\* from both completing the same batch").
SingleUse ==
  /\ claims \cap completed = {}
  /\ \A t \in claims \cup completed : status[t] \in {"consumed", "revoked"}

=============================================================================
