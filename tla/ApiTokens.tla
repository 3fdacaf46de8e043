------------------------------ MODULE ApiTokens ------------------------------
(***************************************************************************)
(* API tokens of one user (api/services/token_service.py) and the          *)
(* dependency that lets requests in (api/dependencies.py, RequireUser).    *)
(* A handler's queries and commits are separate steps of its thread.       *)
(***************************************************************************)
EXTENDS Naturals, FiniteSets

CONSTANTS
  Tokens,    \* tokens that may be made, one per create request
  Uses,      \* requests that present a token, each used once
  MaxTokens  \* MAX_TOKENS_PER_USER

ASSUME ApiTokensAssumption == MaxTokens \in Nat \ {0}

VARIABLES
  tokens,   \* rows of user_tokens
  creating, \* the step of each create request
  uses,     \* the local state of the requests that present a token
  active,   \* users.is_active
  peak      \* history: the most create requests ever between count and insert

tokenVars == <<tokens, creating, uses, active, peak>>

Counted == {t \in Tokens : creating[t] = "counted"}

TokenTypeOK ==
  /\ tokens \subseteq Tokens
  /\ creating \in [Tokens -> {"idle", "counted", "made", "refused"}]
  /\ uses \in [Uses -> [pc : {"idle", "found", "touched", "granted", "refused", "error"},
                        token : Tokens]]
  /\ active \in BOOLEAN
  /\ peak \in Nat

TokenInit ==
  /\ tokens = {}
  /\ creating = [t \in Tokens |-> "idle"]
  /\ uses \in [Uses -> [pc : {"idle"}, token : Tokens]]
  /\ active = TRUE
  /\ peak = 0

\* create_token counts ...
CountTokens(t) ==
  /\ creating[t] = "idle"
  /\ creating' = [creating EXCEPT ![t] =
       IF Cardinality(tokens) >= MaxTokens THEN "refused" ELSE "counted"]
  /\ peak' = IF Cardinality(Counted') > peak THEN Cardinality(Counted') ELSE peak
  /\ UNCHANGED <<tokens, uses, active>>

\* ... and inserts.
InsertToken(t) ==
  /\ creating[t] = "counted"
  /\ tokens' = tokens \cup {t}
  /\ creating' = [creating EXCEPT ![t] = "made"]
  /\ UNCHANGED <<uses, active, peak>>

\* delete_token, one read and one write of the same row.
DeleteToken(t) ==
  /\ t \in tokens
  /\ tokens' = tokens \ {t}
  /\ UNCHANGED <<creating, uses, active, peak>>

\* verify_token looks the hash up ...
FindToken(u) ==
  /\ uses[u].pc = "idle"
  /\ creating[uses[u].token] = "made"
  /\ uses' = [uses EXCEPT ![u].pc = IF uses[u].token \in tokens THEN "found" ELSE "refused"]
  /\ UNCHANGED <<tokens, creating, active, peak>>

\* Variant: the row is not written, so nobody notices that it has gone.
TouchToken_ReadOnly(u) ==
  /\ uses[u].pc = "found"
  /\ uses' = [uses EXCEPT ![u].pc = "touched"]
  /\ UNCHANGED <<tokens, creating, active, peak>>

\* ... and stores last_used_at; the update of a row deleted meanwhile matches
\* nothing, and SQLAlchemy raises.
TouchToken(u) ==
  /\ uses[u].pc = "found"
  /\ uses' = [uses EXCEPT ![u].pc = IF uses[u].token \in tokens THEN "touched" ELSE "error"]
  /\ UNCHANGED <<tokens, creating, active, peak>>

\* The user row is read last, and must be active.
LoadUser(u) ==
  /\ uses[u].pc = "touched"
  /\ uses' = [uses EXCEPT ![u].pc = IF active THEN "granted" ELSE "refused"]
  /\ UNCHANGED <<tokens, creating, active, peak>>

\* The administration switches the account off or on, outside this program.
SwitchAccount ==
  /\ active' = ~active
  /\ UNCHANGED <<tokens, creating, uses, peak>>

TokenNext ==
  \/ \E t \in Tokens : CountTokens(t) \/ InsertToken(t) \/ DeleteToken(t)
  \/ \E u \in Uses : FindToken(u) \/ TouchToken(u) \/ LoadUser(u)
  \/ SwitchAccount

TokenSpec == TokenInit /\ [][TokenNext]_tokenVars

-----------------------------------------------------------------------------
(* The limit of tokens per user is a count followed by an insert            *)
(* (token_service.py:39-53).  Requests that overlap can overshoot it, but   *)
(* only by as many as were between the two at once, less one; requests that *)
(* do not overlap keep it.                                                  *)
OvershootIsBounded ==
  Cardinality(tokens) + Cardinality(Counted) + 1 <= MaxTokens + (IF peak = 0 THEN 1 ELSE peak)

(* A revoked token opens nothing, even to a request that had already found  *)
(* it: every grant passes a moment, after its look-up, at which the token   *)
(* was still there, and a user that was active at the end                   *)
(* (token_service.py:92-105, dependencies.py:60-64).                        *)
GrantsWereValid ==
  [][\A u \in Uses :
       /\ uses[u].pc = "found" /\ uses'[u].pc = "touched" => uses[u].token \in tokens
       /\ uses[u].pc # "granted" /\ uses'[u].pc = "granted" => active]_tokenVars

(* What the API tokens promise: the limit per user is exceeded only by as   *)
(* many as create one at once, and a revoked token opens nothing            *)
(* (token_service.py).                                                      *)
ApiTokensHold == [](TokenTypeOK /\ OvershootIsBounded) /\ GrantsWereValid
=============================================================================
