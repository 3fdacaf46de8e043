----------------------------- MODULE LoginCodes -----------------------------
(***************************************************************************)
(* Sign-in by mailed codes (api/services/auth_service.py and               *)
(* api/routers/auth.py).  A code row is unconsumed until a newer code is   *)
(* requested for its address or a login uses it; the first login of an     *)
(* address makes its user row.  Request handlers run in worker threads     *)
(* over one database: every query and every commit is a step, and a        *)
(* transaction is one step from its first write on (SQLite lets one writer *)
(* in at a time).                                                          *)
(***************************************************************************)
EXTENDS Naturals, Sequences, FiniteSetsExt

CONSTANTS
  Emails,   \* addresses
  Logins,   \* requests to /v1/auth/verify-code, each used once
  Lifetime, \* the ten minutes a code lives, in clock ticks
  MaxCodes, \* bound: codes ever requested
  MaxTime   \* bound: clock ticks

ASSUME LoginCodesAssumption ==
  Lifetime \in Nat /\ MaxCodes \in Nat /\ MaxTime \in Nat

VARIABLES
  codes,   \* email_verification_codes in order of created_at
  users,   \* addresses that have a row in users
  logins,  \* the local state of each verification request
  now      \* the clock

loginVars == <<codes, users, logins, now>>

CodeRow == [email : Emails, at : 0 .. MaxTime, consumed : BOOLEAN]

(* code, known: what the request has read so far.  newest, earlier: history, *)
(* the last code issued for the address and the logins that were over when   *)
(* the request read its code.                                                *)
LoginTypeOK ==
  /\ codes \in Seq(CodeRow)
  /\ users \subseteq Emails
  /\ now \in 0 .. MaxTime
  /\ logins \in [Logins -> [pc : {"idle", "matched", "found", "in", "refused", "error"},
                            code : 0 .. MaxCodes, known : BOOLEAN,
                            newest : 0 .. MaxCodes, earlier : SUBSET Logins]]

LoginInit ==
  /\ codes = <<>>
  /\ users = {}
  /\ now = 0
  /\ logins = [r \in Logins |-> [pc |-> "idle", code |-> 0, known |-> FALSE,
                                 newest |-> 0, earlier |-> {}]]

Issued(e) == {i \in DOMAIN codes : codes[i].email = e}
Live(e)   == {i \in Issued(e) : ~codes[i].consumed}

\* upsert_login_code: consumes what is left for the address and adds a row.
RequestCode(e) ==
  /\ Len(codes) < MaxCodes
  /\ codes' = Append([i \in DOMAIN codes |->
                        [codes[i] EXCEPT !.consumed = @ \/ codes[i].email = e]],
                     [email |-> e, at |-> now, consumed |-> FALSE])
  /\ UNCHANGED <<users, logins, now>>

\* Variant: the age of the code is not looked at.
ReadCode_Ageless(r, e, typed) ==
  /\ logins[r].pc = "idle"
  /\ logins' = [logins EXCEPT ![r] =
       [pc |-> IF Live(e) # {} /\ typed = Max(Live(e)) THEN "matched" ELSE "refused",
        code |-> typed, known |-> FALSE, newest |-> Max(Issued(e) \cup {0}),
        earlier |-> {q \in Logins : logins[q].pc = "in"}]]
  /\ UNCHANGED <<codes, users, now>>

\* verify_login_code reads the newest unconsumed row of the address; it is
\* refused unless that row is in time and has the hash of the typed code.
\* (Two codes are taken to differ.)
ReadCode(r, e, typed) ==
  /\ logins[r].pc = "idle"
  /\ LET row == Max(Live(e) \cup {0})
         ok  == row # 0 /\ codes[row].at + Lifetime >= now /\ typed = row
     IN  logins' = [logins EXCEPT ![r] =
           [pc |-> IF ok THEN "matched" ELSE "refused", code |-> typed, known |-> FALSE,
            newest |-> Max(Issued(e) \cup {0}),
            earlier |-> {q \in Logins : logins[q].pc = "in"}]]
  /\ UNCHANGED <<codes, users, now>>

\* get_user_by_email, a query of its own.
FindUser(r) ==
  /\ logins[r].pc = "matched"
  /\ logins' = [logins EXCEPT ![r].pc = "found",
                              ![r].known = codes[logins[r].code].email \in users]
  /\ UNCHANGED <<codes, users, now>>

\* The commit: the code is marked and the user row is updated, or inserted,
\* which the unique address refuses when another login got there first.
CommitLogin(r) ==
  /\ logins[r].pc = "found"
  /\ LET e == codes[logins[r].code].email
     IN  IF e \in users /\ ~logins[r].known
           THEN /\ logins' = [logins EXCEPT ![r].pc = "error"]
                /\ UNCHANGED <<codes, users>>
           ELSE /\ codes' = [codes EXCEPT ![logins[r].code].consumed = TRUE]
                /\ users' = users \cup {e}
                /\ logins' = [logins EXCEPT ![r].pc = "in"]
  /\ UNCHANGED now

ClockTicks ==
  /\ now < MaxTime
  /\ now' = now + 1
  /\ UNCHANGED <<codes, users, logins>>

LoginNext ==
  \/ \E e \in Emails : RequestCode(e)
  \/ \E r \in Logins : \/ \E e \in Emails : \E typed \in 0 .. Len(codes) : ReadCode(r, e, typed)
                       \/ FindUser(r)
                       \/ CommitLogin(r)
  \/ ClockTicks

LoginSpec == LoginInit /\ [][LoginNext]_loginVars

-----------------------------------------------------------------------------
(* Asking for a new code puts an end to the old ones for good: a check that *)
(* begins after a newer code was issued never succeeds with an older one,   *)
(* not even when the newer one has been used up (auth_service.py:127-131).  *)
OldCodesStayDead ==
  \A r \in Logins : logins[r].pc \in {"matched", "found", "in"} =>
    logins[r].code = logins[r].newest

(* A code signs in twice only when the two requests overlap: one that       *)
(* begins after the other is over is refused (auth_service.py:149-165; the  *)
(* mark is not checked again when it is set).                               *)
SecondUseOverlaps ==
  \A r, q \in Logins :
    r # q /\ logins[r].pc = "in" /\ logins[q].pc = "in" /\ logins[r].code = logins[q].code
      => r \notin logins[q].earlier

(* Nobody gets past the check with a code older than its lifetime, and a    *)
(* successful login leaves a user row behind (auth_service.py:159-183).     *)
InTimeOnly ==
  [][\A r \in Logins :
       /\ logins[r].pc = "idle" /\ logins'[r].pc = "matched"
            => now <= codes[logins'[r].code].at + Lifetime
       /\ logins'[r].pc = "in" => codes[logins[r].code].email \in users']_loginVars

(* What the login codes promise: an old code stays dead, only overlapping   *)
(* requests share one, and none is accepted late (auth_service.py,          *)
(* request_login_code and verify_login_code).                               *)
LoginCodesHold == [](LoginTypeOK /\ OldCodesStayDead /\ SecondUseOverlaps) /\ InTimeOnly
=============================================================================
