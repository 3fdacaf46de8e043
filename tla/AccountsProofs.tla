---------------------------- MODULE AccountsProofs ----------------------------
(***************************************************************************)
(* Proofs about what the API keeps for a user (api/services, api/routers): *)
(* login codes, API tokens, the watchlist, scheduled rows and imported     *)
(* positions, the runtime configuration and report rows.  The components   *)
(* share no state; each part stands by itself.                             *)
(***************************************************************************)
EXTENDS LoginCodes, ApiTokens, Watchlist, ScheduledList, RuntimeConfig, ReportRows,
        FiniteSetTheorems, WellFoundedInduction, TLAPS

-----------------------------------------------------------------------------
(* Largest elements.                                                        *)

LEMMA Least ==
  ASSUME NEW S \in SUBSET Nat, S # {}
  PROVE  \E x \in S : \A y \in S : x <= y
<1>1. PICK x \in S : \A y \in S : ~ (<<y, x>> \in OpToRel(<, Nat))
  BY NatLessThanWellFounded, WFMin
<1>2. \A y \in S : ~ (y < x)
  BY <1>1 DEF OpToRel
<1> QED
  BY <1>2

LEMMA Highest ==
  ASSUME NEW S, S # {}, NEW f, NEW bound \in Nat, \A x \in S : f[x] \in 0 .. bound
  PROVE  \E x \in S : \A y \in S : f[y] <= f[x]
<1> DEFINE Gaps == {bound - f[x] : x \in S}
<1>1. Gaps \in SUBSET Nat /\ Gaps # {}
  OBVIOUS
<1>2. PICK g \in Gaps : \A h \in Gaps : g <= h
  BY <1>1, Least
<1>3. PICK x \in S : g = bound - f[x]
  BY <1>2
<1>4. ASSUME NEW y \in S PROVE f[y] <= f[x]
  <2>1. bound - f[x] <= bound - f[y]
    BY <1>2, <1>3
  <2>2. f[x] \in 0 .. bound /\ f[y] \in 0 .. bound
    OBVIOUS
  <2> QED
    BY <2>1, <2>2
<1> QED
  BY <1>4

LEMMA MaxIsGreatest ==
  ASSUME NEW bound \in Nat, NEW S \in SUBSET (0 .. bound), S # {}
  PROVE  Max(S) \in S /\ \A y \in S : y <= Max(S)
<1> DEFINE f == [x \in S |-> x]
<1>1. \A x \in S : f[x] \in 0 .. bound
  OBVIOUS
<1>2. PICK x \in S : \A y \in S : f[y] <= f[x]
  BY <1>1, Highest
<1>3. \A y \in S : x >= y
  BY <1>2
<1>4. Max(S) \in S /\ \A y \in S : Max(S) >= y
  BY <1>3 DEF Max
<1> QED
  BY <1>4

-----------------------------------------------------------------------------
(* Login codes.  Only the newest code of an address is live, and a login    *)
(* that was over when another one read its code has used a different one.   *)

CodeBooks == \A i, j \in 1 .. Len(codes) : codes[i].email = codes[j].email /\ i < j => codes[i].consumed

Matched(r) == logins[r].pc \in {"matched", "found", "in"}

UseBooks(r) ==
  /\ Matched(r) => logins[r].code \in 1 .. Len(codes) /\ logins[r].code = logins[r].newest
  /\ Matched(r) => \A q \in logins[r].earlier : logins[q].pc = "in" /\ logins[q].code # logins[r].code
  /\ logins[r].pc = "in" => codes[logins[r].code].consumed /\ codes[logins[r].code].email \in users

LoginsInductive == LoginTypeOK /\ Len(codes) <= MaxCodes /\ CodeBooks /\ \A r \in Logins : UseBooks(r)

LoginRecord == [pc : {"idle", "matched", "found", "in", "refused", "error"},
                code : 0 .. MaxCodes, known : BOOLEAN,
                newest : 0 .. MaxCodes, earlier : SUBSET Logins]

LEMMA LoginInitCorrect == ASSUME LoginInit PROVE LoginsInductive
<1>1. codes = <<>> /\ Len(codes) = 0 /\ users = {} /\ now = 0
  BY DEF LoginInit
<1>2. 0 \in 0 .. MaxCodes /\ 0 \in 0 .. MaxTime /\ MaxCodes \in Nat
  BY LoginCodesAssumption
<1>3. LoginTypeOK
  BY <1>1, <1>2 DEF LoginInit, LoginTypeOK
<1>4. CodeBooks
  BY <1>1 DEF CodeBooks
<1>5. ASSUME NEW r \in Logins PROVE UseBooks(r)
  BY DEF LoginInit, UseBooks, Matched
<1> QED
  BY <1>1, <1>2, <1>3, <1>4, <1>5 DEF LoginsInductive

LEMMA LoginFacts ==
  ASSUME LoginsInductive
  PROVE  /\ codes \in Seq(CodeRow) /\ Len(codes) \in 0 .. MaxCodes /\ MaxCodes \in Nat /\ CodeBooks
         /\ DOMAIN codes = 1 .. Len(codes) /\ \A i \in 1 .. Len(codes) : codes[i] \in CodeRow
         /\ logins \in [Logins -> LoginRecord] /\ \A r \in Logins : UseBooks(r)
  BY LoginCodesAssumption DEF LoginsInductive, LoginTypeOK, LoginRecord

LEMMA RequestCodeStep == ASSUME LoginsInductive, NEW e \in Emails, RequestCode(e) PROVE LoginsInductive'
<1> DEFINE entry == [email |-> e, at |-> now, consumed |-> FALSE]
           old == [i \in DOMAIN codes |-> [codes[i] EXCEPT !.consumed = @ \/ codes[i].email = e]]
<1>1. /\ Len(codes) < MaxCodes /\ codes' = Append(old, entry) /\ UNCHANGED <<users, logins, now>>
      /\ codes \in Seq(CodeRow) /\ Len(codes) \in Nat /\ MaxCodes \in Nat /\ CodeBooks
      /\ DOMAIN codes = 1 .. Len(codes) /\ \A i \in 1 .. Len(codes) : codes[i] \in CodeRow
  BY LoginFacts DEF RequestCode
<1>2. entry \in CodeRow /\ ~entry.consumed /\ entry.email = e
  BY DEF CodeRow, LoginsInductive, LoginTypeOK
<1>3. \A i \in 1 .. Len(codes) : /\ old[i] \in CodeRow /\ old[i].email = codes[i].email
                                 /\ old[i].consumed = (codes[i].consumed \/ codes[i].email = e)
  BY <1>1 DEF CodeRow
<1> HIDE DEF entry
<1>4. old \in Seq(CodeRow) /\ Len(old) = Len(codes)
  <2>1. old \in [1 .. Len(codes) -> CodeRow]
    BY <1>1, <1>3
  <2> HIDE DEF old
  <2> QED
    BY <2>1, <1>1
<1> HIDE DEF old
<1>5. /\ codes' \in Seq(CodeRow) /\ Len(codes') = Len(codes) + 1
      /\ codes'[Len(codes) + 1] = entry /\ \A i \in 1 .. Len(codes) : codes'[i] = old[i]
  BY <1>1, <1>2, <1>4
<1>6. LoginTypeOK' /\ Len(codes') <= MaxCodes
  BY <1>1, <1>5 DEF LoginsInductive, LoginTypeOK
<1>7. CodeBooks'
  <2> SUFFICES ASSUME NEW i \in 1 .. Len(codes'), NEW j \in 1 .. Len(codes'),
                      codes'[i].email = codes'[j].email, i < j
      PROVE  codes'[i].consumed
    BY DEF CodeBooks
  <2>1. i \in 1 .. Len(codes) /\ (j \in 1 .. Len(codes) \/ j = Len(codes) + 1)
    BY <1>1, <1>5
  <2>2. CASE j \in 1 .. Len(codes)
    BY <2>1, <2>2, <1>1, <1>3, <1>5 DEF CodeBooks
  <2>3. CASE j = Len(codes) + 1
    BY <2>1, <2>3, <1>2, <1>3, <1>5
  <2> QED
    BY <2>1, <2>2, <2>3
<1>8. ASSUME NEW r \in Logins PROVE UseBooks(r)'
  <2>1. UseBooks(r) /\ logins' = logins /\ users' = users
    BY <1>1, LoginFacts
  <2>2. Matched(r) => logins[r].code \in 1 .. Len(codes) /\ logins[r].code \in 1 .. Len(codes')
    BY <2>1, <1>1, <1>5 DEF UseBooks
  <2> QED
    BY <2>1, <2>2, <1>3, <1>5 DEF UseBooks, Matched
<1> QED
  BY <1>6, <1>7, <1>8 DEF LoginsInductive

\* The live code of an address is the newest that was issued for it.
LEMMA LiveIsNewest ==
  ASSUME LoginsInductive, NEW e \in Emails
  PROVE  /\ Max(Live(e) \cup {0}) \in Live(e) \cup {0} /\ Max(Issued(e) \cup {0}) \in 0 .. Len(codes)
         /\ Max(Live(e) \cup {0}) # 0 => Max(Live(e) \cup {0}) = Max(Issued(e) \cup {0})
<1>1. Len(codes) \in Nat /\ DOMAIN codes = 1 .. Len(codes) /\ CodeBooks
  BY LoginFacts
<1>2. /\ Live(e) \cup {0} \in SUBSET (0 .. Len(codes)) /\ Issued(e) \cup {0} \in SUBSET (0 .. Len(codes))
      /\ Live(e) \subseteq Issued(e)
  BY <1>1 DEF Live, Issued
<1>3. /\ Max(Live(e) \cup {0}) \in Live(e) \cup {0} /\ Max(Issued(e) \cup {0}) \in Issued(e) \cup {0}
      /\ \A y \in Issued(e) \cup {0} : y <= Max(Issued(e) \cup {0})
  BY <1>1, <1>2, MaxIsGreatest
<1>4. ASSUME Max(Live(e) \cup {0}) # 0 PROVE Max(Live(e) \cup {0}) = Max(Issued(e) \cup {0})
  <2> DEFINE i == Max(Live(e) \cup {0})
             j == Max(Issued(e) \cup {0})
  <2>1. i \in Live(e) /\ i \in Issued(e) /\ i <= j /\ i \in 1 .. Len(codes) /\ j \in 0 .. Len(codes)
    BY <1>1, <1>2, <1>3, <1>4 DEF Live, Issued
  <2>2. j \in Issued(e) /\ j \in 1 .. Len(codes)
    BY <2>1, <1>1, <1>3
  <2>3. ~codes[i].consumed /\ codes[i].email = e /\ codes[j].email = e
    BY <2>1, <2>2 DEF Live, Issued
  <2>4. ~(i < j)
    BY <2>1, <2>2, <2>3, <1>1 DEF CodeBooks
  <2> QED
    BY <2>1, <2>2, <2>4
<1> QED
  BY <1>2, <1>3, <1>4

LEMMA ReadCodeStep ==
  ASSUME LoginsInductive, NEW r \in Logins, NEW e \in Emails, NEW typed \in 0 .. Len(codes), ReadCode(r, e, typed)
  PROVE  /\ LoginsInductive'
         /\ logins'[r].pc = "matched" => now <= codes[logins'[r].code].at + Lifetime
         /\ \A q \in Logins : q # r => logins'[q] = logins[q]
         /\ logins'[r].pc \in {"matched", "refused"} /\ logins[r].pc = "idle"
<1> DEFINE entry  == Max(Live(e) \cup {0})
           ok     == entry # 0 /\ codes[entry].at + Lifetime >= now /\ typed = entry
           newest == Max(Issued(e) \cup {0})
           over   == {q \in Logins : logins[q].pc = "in"}
           login  == [pc |-> IF ok THEN "matched" ELSE "refused", code |-> typed, known |-> FALSE,
                      newest |-> newest, earlier |-> over]
<1>1. /\ logins[r].pc = "idle" /\ logins' = [logins EXCEPT ![r] = login] /\ UNCHANGED <<codes, users, now>>
      /\ logins \in [Logins -> LoginRecord] /\ Len(codes) \in 0 .. MaxCodes /\ MaxCodes \in Nat
      /\ DOMAIN codes = 1 .. Len(codes)
      /\ \A i \in 1 .. Len(codes) : codes[i] \in CodeRow
  BY LoginFacts DEF ReadCode
<1>2. entry \in Live(e) \cup {0} /\ newest \in 0 .. Len(codes) /\ (entry # 0 => entry = newest)
  BY LiveIsNewest
<1>3. ok => entry \in Live(e) /\ typed = entry /\ typed = newest /\ now <= codes[typed].at + Lifetime
  <2>1. ASSUME ok PROVE entry \in Live(e) /\ typed = entry /\ typed = newest /\ codes[typed].at + Lifetime >= now
    BY <2>1, <1>2
  <2>2. ASSUME ok PROVE codes[typed].at \in Nat /\ now \in Nat /\ Lifetime \in Nat
    <3>1. typed \in 1 .. Len(codes)
      BY <2>1, <2>2, <1>1 DEF Live, Issued
    <3> QED
      BY <3>1, <1>1, LoginCodesAssumption DEF CodeRow, LoginsInductive, LoginTypeOK
  <2> QED
    BY <2>1, <2>2
<1>4. typed \in 0 .. MaxCodes /\ newest \in 0 .. MaxCodes
  BY <1>1, <1>2
<1>5. ok => ~codes[typed].consumed /\ typed \in 1 .. Len(codes)
  BY <1>1, <1>3 DEF Live, Issued
<1> HIDE DEF entry, ok, newest
<1>6. login \in LoginRecord
  BY <1>4 DEF LoginRecord
<1>7. /\ logins' \in [Logins -> LoginRecord] /\ logins'[r] = login
      /\ \A q \in Logins : q # r => logins'[q] = logins[q]
  BY <1>1, <1>6
<1>8. LoginTypeOK'
  BY <1>1, <1>7 DEF LoginsInductive, LoginTypeOK, LoginRecord
<1>9. ASSUME NEW q \in Logins PROVE UseBooks(q)'
  <2>1. CASE q = r
    <3>1. logins'[r].pc = "matched" => ok
      BY <1>7
    <3>2. logins'[r].pc # "in" /\ logins'[r].pc # "found" /\ logins'[r].code = typed
          /\ logins'[r].newest = newest /\ logins'[r].earlier = over
      BY <1>7
    <3>3. ASSUME NEW x \in over, ok PROVE logins'[x].pc = "in" /\ logins'[x].code # typed
      <4>1. x \in Logins /\ logins[x].pc = "in" /\ x # r
        BY <1>1, <3>3
      <4>2. codes[logins[x].code].consumed
        BY <4>1, LoginFacts DEF UseBooks
      <4> QED
        BY <4>1, <4>2, <1>5, <1>7, <3>3
    <3> QED
      BY <2>1, <3>1, <3>2, <3>3, <1>1, <1>3, <1>5 DEF UseBooks, Matched
  <2>2. CASE q # r
    <3>1. UseBooks(q) /\ logins'[q] = logins[q] /\ logins[q] \in LoginRecord
      BY <2>2, <1>1, <1>7, LoginFacts
    <3>2. \A x \in logins[q].earlier : x \in Logins /\ (logins[x].pc = "in" => logins'[x] = logins[x])
      BY <3>1, <1>1, <1>7 DEF LoginRecord
    <3> QED
      BY <3>1, <3>2, <1>1 DEF UseBooks, Matched
  <2> QED
    BY <2>1, <2>2
<1>10. LoginsInductive'
  BY <1>1, <1>8, <1>9 DEF LoginsInductive, CodeBooks
<1>11. logins'[r].pc = "matched" => ok /\ logins'[r].code = typed
  BY <1>7
<1>12. logins'[r].pc \in {"matched", "refused"}
  BY <1>7
<1> QED
  BY <1>1, <1>3, <1>7, <1>10, <1>11, <1>12

LEMMA FindUserStep ==
  ASSUME LoginsInductive, NEW r \in Logins, FindUser(r)
  PROVE  /\ LoginsInductive' /\ UNCHANGED <<codes, users>> /\ logins'[r].pc = "found"
         /\ \A q \in Logins : q # r => logins'[q] = logins[q]
<1> DEFINE known == codes[logins[r].code].email \in users
           login == [logins[r] EXCEPT !.pc = "found", !.known = known]
<1>1. /\ logins[r].pc = "matched" /\ UNCHANGED <<codes, users, now>>
      /\ logins \in [Logins -> LoginRecord] /\ logins[r] \in LoginRecord
      /\ logins' = [logins EXCEPT ![r].pc = "found", ![r].known = known]
  BY LoginFacts DEF FindUser
<1>2. known \in BOOLEAN
  OBVIOUS
<1> HIDE DEF known
<1>3. logins' = [logins EXCEPT ![r] = login]
  BY <1>1
<1>4. /\ login \in LoginRecord /\ login.pc = "found" /\ login.code = logins[r].code
      /\ login.newest = logins[r].newest /\ login.earlier = logins[r].earlier
  BY <1>1, <1>2 DEF LoginRecord
<1> HIDE DEF login
<1>5. /\ logins' \in [Logins -> LoginRecord] /\ logins'[r] = login
      /\ \A q \in Logins : q # r => logins'[q] = logins[q]
  BY <1>1, <1>3, <1>4
<1>6. LoginTypeOK'
  BY <1>1, <1>5 DEF LoginsInductive, LoginTypeOK, LoginRecord
<1>7. ASSUME NEW q \in Logins PROVE UseBooks(q)'
  <2>1. UseBooks(q) /\ UseBooks(r) /\ logins[q] \in LoginRecord
    BY <1>1, LoginFacts
  <2>2. \A x \in Logins : logins[x].pc = "in" => logins'[x] = logins[x]
    BY <1>1, <1>5
  <2>3. logins[q].earlier \subseteq Logins
    BY <2>1 DEF LoginRecord
  <2>4. CASE q = r
    BY <2>1, <2>2, <2>3, <2>4, <1>1, <1>4, <1>5 DEF UseBooks, Matched
  <2>5. CASE q # r
    <3>1. logins'[q] = logins[q]
      BY <2>5, <1>5
    <3> QED
      BY <2>1, <2>2, <2>3, <3>1, <1>1 DEF UseBooks, Matched
  <2> QED
    BY <2>4, <2>5
<1>8. LoginsInductive'
  BY <1>1, <1>6, <1>7 DEF LoginsInductive, CodeBooks
<1> QED
  BY <1>1, <1>4, <1>5, <1>8

\* The commit marks the code, and the address has a user row.
LEMMA CommitLoginStep ==
  ASSUME LoginsInductive, NEW r \in Logins, CommitLogin(r)
  PROVE  /\ LoginsInductive' /\ users \subseteq users'
         /\ logins'[r].pc = "in" => codes[logins[r].code].email \in users'
         /\ logins[r].pc = "found" /\ \A q \in Logins : q # r => logins'[q] = logins[q]
<1> DEFINE at == logins[r].code
           e  == codes[at].email
<1>1. /\ logins[r].pc = "found" /\ UNCHANGED now /\ logins \in [Logins -> LoginRecord]
      /\ logins[r] \in LoginRecord /\ UseBooks(r) /\ at \in 1 .. Len(codes)
      /\ codes \in Seq(CodeRow) /\ codes[at] \in CodeRow /\ e \in Emails
      /\ DOMAIN codes = 1 .. Len(codes) /\ Len(codes) <= MaxCodes
      /\ users \subseteq Emails /\ CodeBooks
  BY LoginFacts DEF CommitLogin, UseBooks, Matched, CodeRow, LoginsInductive, LoginTypeOK
<1>2. \A pc \in {"in", "error"} :
        /\ [logins[r] EXCEPT !.pc = pc] \in LoginRecord
        /\ [logins[r] EXCEPT !.pc = pc].pc = pc /\ [logins[r] EXCEPT !.pc = pc].code = at
        /\ [logins[r] EXCEPT !.pc = pc].newest = logins[r].newest
        /\ [logins[r] EXCEPT !.pc = pc].earlier = logins[r].earlier
  BY <1>1 DEF LoginRecord
<1>3. PICK pc \in {"in", "error"} : logins' = [logins EXCEPT ![r] = [logins[r] EXCEPT !.pc = pc]]
  BY <1>1 DEF CommitLogin
<1>4. /\ logins' \in [Logins -> LoginRecord] /\ logins'[r].pc = pc /\ logins'[r].code = at
      /\ logins'[r].newest = logins[r].newest /\ logins'[r].earlier = logins[r].earlier
      /\ \A q \in Logins : q # r => logins'[q] = logins[q]
  BY <1>1, <1>2, <1>3
<1>5. \/ UNCHANGED <<codes, users>> /\ pc = "error"
      \/ codes' = [codes EXCEPT ![at].consumed = TRUE] /\ users' = users \cup {e}
  <2>1. CASE e \in users /\ ~logins[r].known
    <3>1. logins' = [logins EXCEPT ![r].pc = "error"] /\ UNCHANGED <<codes, users>>
      BY <2>1 DEF CommitLogin
    <3>2. logins'[r].pc = "error"
      BY <3>1, <1>1 DEF LoginRecord
    <3> QED
      BY <3>1, <3>2, <1>4
  <2>2. CASE ~(e \in users /\ ~logins[r].known)
    BY <2>2 DEF CommitLogin
  <2> QED
    BY <2>1, <2>2
<1>6. /\ codes' \in Seq(CodeRow) /\ Len(codes') = Len(codes) /\ users' \subseteq Emails /\ users \subseteq users'
      /\ \A i \in 1 .. Len(codes) : codes'[i].email = codes[i].email /\ (codes[i].consumed => codes'[i].consumed)
      /\ pc = "in" => codes'[at].consumed /\ e \in users'
  <2>1. CASE UNCHANGED <<codes, users>> /\ pc = "error"
    BY <2>1, <1>1
  <2>2. CASE codes' = [codes EXCEPT ![at].consumed = TRUE] /\ users' = users \cup {e}
    <3> DEFINE entry == [codes[at] EXCEPT !.consumed = TRUE]
    <3>1. entry \in CodeRow /\ entry.consumed /\ entry.email = codes[at].email
      BY <1>1 DEF CodeRow
    <3>2. codes' = [codes EXCEPT ![at] = entry]
      BY <2>2
    <3> HIDE DEF entry
    <3>3. /\ codes' \in Seq(CodeRow) /\ Len(codes') = Len(codes) /\ codes'[at] = entry
          /\ \A i \in 1 .. Len(codes) : i # at => codes'[i] = codes[i]
      BY <3>1, <3>2, <1>1
    <3>4. ASSUME NEW i \in 1 .. Len(codes)
          PROVE  codes'[i].email = codes[i].email /\ (codes[i].consumed => codes'[i].consumed)
      BY <3>1, <3>3
    <3> QED
      BY <3>1, <3>3, <3>4, <2>2, <1>1
  <2> QED
    BY <1>5, <2>1, <2>2
<1>7. LoginTypeOK' /\ Len(codes') <= MaxCodes
  BY <1>1, <1>4, <1>6 DEF LoginsInductive, LoginTypeOK, LoginRecord
<1>8. CodeBooks'
  BY <1>1, <1>6 DEF CodeBooks
<1>9. ASSUME NEW q \in Logins PROVE UseBooks(q)'
  <2>1. UseBooks(q) /\ logins[q] \in LoginRecord
    BY <1>1, LoginFacts
  <2>2. \A x \in Logins : logins[x].pc = "in" => logins'[x] = logins[x]
    BY <1>1, <1>4
  <2>3. logins[q].earlier \subseteq Logins
    BY <2>1 DEF LoginRecord
  <2>4. CASE q = r
    <3>1. codes'[at].email = e
      BY <1>1, <1>6
    <3> QED
      BY <2>1, <2>2, <2>3, <2>4, <3>1, <1>1, <1>4, <1>6 DEF UseBooks, Matched
  <2>5. CASE q # r
    <3>1. logins'[q] = logins[q]
      BY <2>5, <1>4
    <3>2. Matched(q) => logins[q].code \in 1 .. Len(codes)
      BY <2>1 DEF UseBooks
    <3> QED
      BY <2>1, <2>2, <2>3, <3>1, <3>2, <1>6 DEF UseBooks, Matched
  <2> QED
    BY <2>4, <2>5
<1> QED
  BY <1>1, <1>4, <1>6, <1>7, <1>8, <1>9 DEF LoginsInductive

LEMMA LoginStep == ASSUME LoginsInductive, [LoginNext]_loginVars PROVE LoginsInductive'
<1>1. ASSUME UNCHANGED <<codes, users, logins>>, now' \in 0 .. MaxTime PROVE LoginsInductive'
  BY <1>1 DEF LoginsInductive, LoginTypeOK, CodeBooks, UseBooks, Matched
<1>2. CASE ClockTicks
  BY <1>1, <1>2, LoginCodesAssumption DEF ClockTicks, LoginsInductive, LoginTypeOK
<1>3. CASE UNCHANGED loginVars
  BY <1>1, <1>3 DEF loginVars, LoginsInductive, LoginTypeOK
<1> QED
  BY <1>2, <1>3, RequestCodeStep, ReadCodeStep, FindUserStep, CommitLoginStep DEF LoginNext

LEMMA InTimeStep ==
  ASSUME LoginsInductive, LoginNext, NEW r \in Logins
  PROVE  /\ logins[r].pc = "idle" /\ logins'[r].pc = "matched"
              => now <= codes[logins'[r].code].at + Lifetime
         /\ logins'[r].pc = "in" => codes[logins[r].code].email \in users'
<1>1. logins[r].pc = "in" => codes[logins[r].code].email \in users
  BY LoginFacts DEF UseBooks
<1>2. CASE UNCHANGED logins /\ users \subseteq users'
  BY <1>1, <1>2
<1>3. ASSUME NEW q \in Logins, NEW e \in Emails, NEW typed \in 0 .. Len(codes), ReadCode(q, e, typed)
      PROVE  /\ logins[r].pc = "idle" /\ logins'[r].pc = "matched"
                  => now <= codes[logins'[r].code].at + Lifetime
             /\ logins'[r].pc = "in" => codes[logins[r].code].email \in users'
  <2>1. users' = users
    BY <1>3 DEF ReadCode
  <2> QED
    BY <2>1, <1>1, <1>3, ReadCodeStep
<1>4. ASSUME NEW q \in Logins, FindUser(q)
      PROVE  /\ logins[r].pc = "idle" /\ logins'[r].pc = "matched"
                  => now <= codes[logins'[r].code].at + Lifetime
             /\ logins'[r].pc = "in" => codes[logins[r].code].email \in users'
  BY <1>1, <1>4, FindUserStep
<1>5. ASSUME NEW q \in Logins, CommitLogin(q)
      PROVE  /\ logins[r].pc = "idle" /\ logins'[r].pc = "matched"
                  => now <= codes[logins'[r].code].at + Lifetime
             /\ logins'[r].pc = "in" => codes[logins[r].code].email \in users'
  <2>1. CASE r = q
    BY <2>1, <1>5, CommitLoginStep
  <2>2. CASE r # q
    BY <2>2, <1>1, <1>5, CommitLoginStep
  <2> QED
    BY <2>1, <2>2
<1> QED
  BY <1>2, <1>3, <1>4, <1>5 DEF LoginNext, RequestCode, ClockTicks

(* However requests for codes and logins overlap, an old code stays dead,   *)
(* two logins share a code only when they overlap, and none is accepted     *)
(* late or without a user row (auth_service.py:127-183).                    *)
THEOREM LoginsCorrect == LoginSpec => LoginCodesHold
<1>1. LoginsInductive /\ [LoginNext]_loginVars => LoginsInductive'
  BY LoginStep
<1>2. LoginsInductive => LoginTypeOK /\ OldCodesStayDead /\ SecondUseOverlaps
  BY DEF LoginsInductive, UseBooks, Matched, OldCodesStayDead, SecondUseOverlaps
<1>3. LoginsInductive /\ [LoginNext]_loginVars =>
        [\A r \in Logins :
           /\ logins[r].pc = "idle" /\ logins'[r].pc = "matched"
                => now <= codes[logins'[r].code].at + Lifetime
           /\ logins'[r].pc = "in" => codes[logins[r].code].email \in users']_loginVars
  BY InTimeStep
<1> QED
  BY <1>1, <1>2, <1>3, LoginInitCorrect, PTL DEF LoginSpec, LoginCodesHold, InTimeOnly

-----------------------------------------------------------------------------
(* API tokens.  Rows and requests between count and insert are bounded     *)
(* together.                                                               *)

TokenPeakInv ==
  /\ IsFiniteSet(tokens) /\ IsFiniteSet(Counted)
  /\ Cardinality(Counted) <= peak

TokensInductive == TokenTypeOK /\ TokenPeakInv /\ OvershootIsBounded

TokenSizes == Cardinality(tokens) \in Nat /\ Cardinality(Counted) \in Nat

LEMMA TokenSizesAreNumbers == ASSUME TokensInductive PROVE TokenSizes
  BY FS_CardinalityType DEF TokensInductive, TokenPeakInv, TokenSizes

LEMMA TokensInitCorrect == ASSUME TokenInit PROVE TokensInductive
<1>1. Counted = {} /\ tokens = {}
  BY DEF TokenInit, Counted
<1>2. TokenTypeOK
  BY DEF TokenInit, TokenTypeOK
<1> QED
  BY <1>1, <1>2, FS_EmptySet, ApiTokensAssumption DEF TokenInit, TokensInductive, TokenPeakInv, OvershootIsBounded

\* Steps that change neither the rows nor the create requests.
LEMMA TokenRowsStay ==
  ASSUME TokensInductive, TokenTypeOK', UNCHANGED <<tokens, creating, peak>>
  PROVE  TokensInductive'
<1>1. Counted' = Counted
  BY DEF Counted
<1> QED
  BY <1>1 DEF TokensInductive, TokenPeakInv, OvershootIsBounded

\* A request that is let through joins the others between count and insert.
LEMMA CountStep == ASSUME TokensInductive, NEW t \in Tokens, CountTokens(t) PROVE TokensInductive'
<1>1. TokenSizes /\ peak \in Nat /\ MaxTokens \in Nat
  BY TokenSizesAreNumbers, ApiTokensAssumption DEF TokensInductive, TokenTypeOK
<1>2. CASE Cardinality(tokens) >= MaxTokens
  <2>1. Counted' = Counted
    BY <1>2 DEF CountTokens, Counted, TokensInductive, TokenTypeOK
  <2>2. peak' = peak
    BY <1>1, <2>1 DEF CountTokens, TokensInductive, TokenPeakInv, TokenSizes
  <2>3. TokenTypeOK'
    BY <1>2, <2>2 DEF CountTokens, TokensInductive, TokenTypeOK
  <2> QED
    BY <2>1, <2>2, <2>3 DEF CountTokens, TokensInductive, TokenPeakInv, OvershootIsBounded
<1>3. CASE ~(Cardinality(tokens) >= MaxTokens)
  <2>1. Counted' = Counted \cup {t} /\ t \notin Counted
    BY <1>3 DEF CountTokens, Counted, TokensInductive, TokenTypeOK
  <2>2. IsFiniteSet(Counted') /\ Cardinality(Counted') = Cardinality(Counted) + 1
    BY <2>1, FS_AddElement DEF TokensInductive, TokenPeakInv
  <2>3. peak' \in Nat /\ Cardinality(Counted') <= peak' /\ peak' > 0
    BY <1>1, <2>2 DEF CountTokens, TokenSizes
  <2>4. TokenTypeOK'
    BY <1>3, <2>3 DEF CountTokens, TokensInductive, TokenTypeOK
  <2>5. Cardinality(tokens) + 1 <= MaxTokens
    BY <1>1, <1>3 DEF TokenSizes
  <2>6. OvershootIsBounded'
    BY <1>1, <2>2, <2>3, <2>5 DEF CountTokens, OvershootIsBounded, TokenSizes
  <2> QED
    BY <2>2, <2>3, <2>4, <2>6 DEF CountTokens, TokensInductive, TokenPeakInv
<1> QED
  BY <1>2, <1>3

LEMMA InsertStep == ASSUME TokensInductive, NEW t \in Tokens, InsertToken(t) PROVE TokensInductive'
<1>1. TokenSizes /\ peak \in Nat /\ MaxTokens \in Nat
  BY TokenSizesAreNumbers, ApiTokensAssumption DEF TokensInductive, TokenTypeOK
<1>2. Counted' = Counted \ {t} /\ t \in Counted
  BY DEF InsertToken, Counted, TokensInductive, TokenTypeOK
<1>3. IsFiniteSet(Counted') /\ Cardinality(Counted') = Cardinality(Counted) - 1
  BY <1>2, FS_RemoveElement DEF TokensInductive, TokenPeakInv
<1>4. /\ IsFiniteSet(tokens') /\ Cardinality(tokens') \in Nat
      /\ Cardinality(tokens') <= Cardinality(tokens) + 1
  <2>1. tokens' = tokens \cup {t} /\ IsFiniteSet(tokens)
    BY DEF InsertToken, TokensInductive, TokenPeakInv
  <2>2. IsFiniteSet(tokens') /\ Cardinality(tokens') = IF t \in tokens THEN Cardinality(tokens) ELSE Cardinality(tokens) + 1
    BY <2>1, FS_AddElement
  <2> QED
    BY <1>1, <2>2 DEF TokenSizes
<1>5. TokenTypeOK'
  BY DEF InsertToken, TokensInductive, TokenTypeOK
<1> QED
  BY <1>1, <1>3, <1>4, <1>5 DEF InsertToken, TokensInductive, TokenPeakInv, OvershootIsBounded, TokenSizes

LEMMA DeleteStep == ASSUME TokensInductive, NEW t \in Tokens, DeleteToken(t) PROVE TokensInductive'
<1>1. TokenSizes /\ peak \in Nat /\ MaxTokens \in Nat
  BY TokenSizesAreNumbers, ApiTokensAssumption DEF TokensInductive, TokenTypeOK
<1>2. Counted' = Counted
  BY DEF DeleteToken, Counted
<1>3. IsFiniteSet(tokens') /\ Cardinality(tokens') = Cardinality(tokens) - 1
  BY FS_RemoveElement DEF DeleteToken, TokensInductive, TokenPeakInv
<1>4. TokenTypeOK'
  BY DEF DeleteToken, TokensInductive, TokenTypeOK
<1> QED
  BY <1>1, <1>2, <1>3, <1>4 DEF DeleteToken, TokensInductive, TokenPeakInv, OvershootIsBounded, TokenSizes

LEMMA UseStep ==
  ASSUME TokensInductive, NEW u \in Uses, FindToken(u) \/ TouchToken(u) \/ LoadUser(u)
  PROVE  TokensInductive'
<1>1. TokenTypeOK'
  BY DEF FindToken, TouchToken, LoadUser, TokensInductive, TokenTypeOK
<1> QED
  BY <1>1, TokenRowsStay DEF FindToken, TouchToken, LoadUser

\* A step of the requests that present tokens grants only what was valid.
GrantsValid(u) ==
  /\ uses[u].pc = "found" /\ uses'[u].pc = "touched" => uses[u].token \in tokens
  /\ uses[u].pc # "granted" /\ uses'[u].pc = "granted" => active

LEMMA GrantStep ==
  ASSUME TokensInductive, TokenNext, NEW u \in Uses
  PROVE  GrantsValid(u)
<1>1. CASE UNCHANGED uses
  BY <1>1 DEF GrantsValid
<1>2. ASSUME NEW v \in Uses, FindToken(v) PROVE GrantsValid(u)
  BY <1>2 DEF FindToken, GrantsValid, TokensInductive, TokenTypeOK
<1>3. ASSUME NEW v \in Uses, TouchToken(v) PROVE GrantsValid(u)
  BY <1>3 DEF TouchToken, GrantsValid, TokensInductive, TokenTypeOK
<1>4. ASSUME NEW v \in Uses, LoadUser(v) PROVE GrantsValid(u)
  BY <1>4 DEF LoadUser, GrantsValid, TokensInductive, TokenTypeOK
<1> QED
  BY <1>1, <1>2, <1>3, <1>4 DEF TokenNext, CountTokens, InsertToken, DeleteToken, SwitchAccount

-----------------------------------------------------------------------------
\* However many requests create, delete and present tokens at once, the limit
\* per user is exceeded only by the overlap, and a revoked token opens nothing
\* (token_service.py:39-105).
THEOREM TokensCorrect == TokenSpec => ApiTokensHold
<1>1. TokenInit => TokensInductive
  BY TokensInitCorrect
<1>2. TokensInductive /\ [TokenNext]_tokenVars => TokensInductive'
  <2> SUFFICES ASSUME TokensInductive, [TokenNext]_tokenVars PROVE TokensInductive'
    OBVIOUS
  <2>1. ASSUME NEW t \in Tokens, CountTokens(t) PROVE TokensInductive'
    BY <2>1, CountStep
  <2>2. ASSUME NEW t \in Tokens, InsertToken(t) PROVE TokensInductive'
    BY <2>2, InsertStep
  <2>3. ASSUME NEW t \in Tokens, DeleteToken(t) PROVE TokensInductive'
    BY <2>3, DeleteStep
  <2>4. ASSUME NEW u \in Uses, FindToken(u) \/ TouchToken(u) \/ LoadUser(u) PROVE TokensInductive'
    BY <2>4, UseStep
  <2>5. CASE SwitchAccount
    BY <2>5, TokenRowsStay DEF SwitchAccount, TokensInductive, TokenTypeOK
  <2>6. CASE UNCHANGED tokenVars
    BY <2>6, TokenRowsStay DEF tokenVars, TokensInductive, TokenTypeOK
  <2> QED
    BY <2>1, <2>2, <2>3, <2>4, <2>5, <2>6 DEF TokenNext
<1>3. TokensInductive => TokenTypeOK /\ OvershootIsBounded
  BY DEF TokensInductive
<1>4. TokensInductive /\ [TokenNext]_tokenVars =>
        [\A u \in Uses :
           /\ uses[u].pc = "found" /\ uses'[u].pc = "touched" => uses[u].token \in tokens
           /\ uses[u].pc # "granted" /\ uses'[u].pc = "granted" => active]_tokenVars
  BY GrantStep DEF GrantsValid
<1> QED
  BY <1>1, <1>2, <1>3, <1>4, PTL DEF TokenSpec, ApiTokensHold, GrantsWereValid

-----------------------------------------------------------------------------
(* The watchlist.  A request counts its results off against the words that  *)
(* resolve: as many symbols are found among the words as were counted, so   *)
(* the next symbol and, at the end, the result of each word exist.  An      *)
(* insert takes one from the requests between check and insert and adds at  *)
(* most one row, so rows and such requests together pass the limit only by  *)
(* the largest crowd there was.                                             *)

Words == Symbols \cup {Unknown}

LEMMA ResolvedCounts ==
  ASSUME NEW words \in Seq(Words), NEW i \in 0 .. Len(words)
  PROVE  /\ Resolved(words, i) \in Nat
         /\ i = 0 => Resolved(words, i) = 0
         /\ i > 0 => Resolved(words, i) = Resolved(words, i - 1) + (IF words[i] # Unknown THEN 1 ELSE 0)
         /\ \A k \in 0 .. i : Resolved(words, k) <= Resolved(words, i)
<1> DEFINE Places(k) == {j \in 1 .. k : words[j] # Unknown}
<1>0. Len(words) \in Nat
  OBVIOUS
<1>1. ASSUME NEW k \in 0 .. Len(words)
      PROVE  IsFiniteSet(Places(k)) /\ Cardinality(Places(k)) \in Nat
  <2>1. IsFiniteSet(1 .. k)
    BY FS_Interval
  <2>2. Places(k) \in SUBSET (1 .. k)
    OBVIOUS
  <2> QED
    BY <2>1, <2>2, FS_Subset, FS_CardinalityType
<1>2. Resolved(words, i) \in Nat
  BY <1>1 DEF Resolved
<1>3. i = 0 => Resolved(words, i) = 0
  <2>1. Places(0) = {}
    OBVIOUS
  <2> QED
    BY <2>1, FS_EmptySet DEF Resolved
<1>4. ASSUME i > 0
      PROVE  Resolved(words, i) = Resolved(words, i - 1) + (IF words[i] # Unknown THEN 1 ELSE 0)
  <2>1. i - 1 \in 0 .. Len(words) /\ i \notin Places(i - 1)
    BY <1>4, <1>0
  <2>2. CASE words[i] = Unknown
    <3>1. Places(i) = Places(i - 1)
      BY <1>4, <2>2, <1>0
    <3>2. Cardinality(Places(i - 1)) \in Nat
      BY <1>1, <2>1
    <3>3. Resolved(words, i) = Resolved(words, i - 1) /\ Resolved(words, i - 1) \in Nat
      BY <3>1, <3>2 DEF Resolved
    <3> QED
      BY <3>3, <2>2
  <2>3. CASE words[i] # Unknown
    <3>1. Places(i) = Places(i - 1) \cup {i}
      BY <1>4, <2>3, <1>0
    <3>2. Cardinality(Places(i - 1) \cup {i}) = Cardinality(Places(i - 1)) + 1
      BY <2>1, <1>1, FS_AddElement
    <3> QED
      BY <3>1, <3>2, <2>3 DEF Resolved
  <2> QED
    BY <2>2, <2>3
<1>5. ASSUME NEW k \in 0 .. i PROVE Resolved(words, k) <= Resolved(words, i)
  <2>1. Places(k) \in SUBSET Places(i)
    OBVIOUS
  <2> QED
    BY <2>1, <1>1, FS_Subset DEF Resolved
<1> HIDE DEF Places
<1> QED
  BY <1>2, <1>3, <1>4, <1>5

(* As many symbols are found among the tokens as were counted.              *)
LEMMA NthIsASymbol ==
  ASSUME NEW words \in Seq(Words), NEW n \in Nat \ {0}, n <= Resolved(words, Len(words))
  PROVE  NthSymbol(words, n) \in Symbols
<1> DEFINE Late == {i \in 0 .. Len(words) : n <= Resolved(words, i)}
<1>0. Len(words) \in Nat /\ DOMAIN words = 1 .. Len(words)
  OBVIOUS
<1>1. Late \in SUBSET Nat /\ Len(words) \in Late
  BY <1>0
<1>2. PICK i \in Late : \A k \in Late : i <= k
  BY <1>1, Least
<1>3. i \in 0 .. Len(words) /\ n <= Resolved(words, i)
  BY <1>2
<1>4. i > 0
  BY <1>3, ResolvedCounts
<1>5. i - 1 \in 0 .. Len(words) /\ i - 1 \notin Late
  BY <1>0, <1>2, <1>3, <1>4
<1>6. Resolved(words, i - 1) \in Nat /\ Resolved(words, i - 1) < n
  <2>1. Resolved(words, i - 1) \in Nat
    BY <1>5, ResolvedCounts
  <2> QED
    BY <1>5, <2>1
<1>7. words[i] # Unknown /\ Resolved(words, i) = n
  <2>1. Resolved(words, i) = Resolved(words, i - 1) + (IF words[i] # Unknown THEN 1 ELSE 0)
    BY <1>3, <1>4, ResolvedCounts
  <2> QED
    BY <2>1, <1>3, <1>6
<1>8. i \in DOMAIN words
  BY <1>0, <1>3, <1>4
<1> DEFINE place == CHOOSE k \in DOMAIN words : words[k] # Unknown /\ Resolved(words, k) = n
<1>9. place \in DOMAIN words /\ words[place] # Unknown
  BY <1>7, <1>8
<1> HIDE DEF place
<1>10. words[place] \in Words
  BY <1>9
<1> QED
  BY <1>9, <1>10 DEF NthSymbol, place, Words

AnswerBooks ==
  \A r \in Adders :
    /\ adds[r].pc = "idle" => adds[r].results = <<>>
    /\ adds[r].pc # "done" => Len(adds[r].results) <= Wanted(r)
    /\ adds[r].pc # "done" => \A k \in DOMAIN adds[r].results : adds[r].results[k] # "invalid"
    /\ adds[r].pc = "checked" => Len(adds[r].results) < Wanted(r)

CrowdBooks == IsFiniteSet(watch) /\ IsFiniteSet(Checked) /\ WatchOvershootBounded

WatchInv == WatchTypeOK /\ AnswerBooks /\ AnswersFit /\ CrowdBooks

AddType == [pc : {"idle", "next", "checked", "done", "crashed"},
            tokens : Seq(Symbols \cup {Unknown}), results : Seq(ItemStatuses)]

(* What a request looks like, apart from the others.                        *)
Fits(a) ==
  /\ a.pc = "idle" => a.results = <<>>
  /\ a.pc # "done" => Len(a.results) <= Resolved(a.tokens, Len(a.tokens))
  /\ a.pc # "done" => \A k \in DOMAIN a.results : a.results[k] # "invalid"
  /\ a.pc = "checked" => Len(a.results) < Resolved(a.tokens, Len(a.tokens))
  /\ a.pc = "done" =>
       /\ DOMAIN a.results = DOMAIN a.tokens
       /\ \A i \in DOMAIN a.tokens : a.results[i] = "invalid" <=> a.tokens[i] = Unknown

LEMMA FitsAll == (AnswerBooks /\ AnswersFit) <=> \A r \in Adders : Fits(adds[r])
  BY DEF AnswerBooks, AnswersFit, Fits, Wanted

LEMMA WatchInitial == WatchInit => WatchInv
<1> SUFFICES ASSUME WatchInit PROVE WatchInv
  OBVIOUS
<1>1. WatchTypeOK
  BY DEF WatchInit, WatchTypeOK
<1>2. ASSUME NEW r \in Adders PROVE Fits(adds[r])
  <2>1. adds[r] = [pc |-> "idle", tokens |-> <<>>, results |-> <<>>]
    BY DEF WatchInit
  <2>2. <<>> \in Seq(Words) /\ Len(<<>>) = 0 /\ 0 \in 0 .. Len(<<>>)
    OBVIOUS
  <2>3. Resolved(<<>>, 0) \in Nat
    BY <2>2, ResolvedCounts
  <2> QED
    BY <2>1, <2>2, <2>3 DEF Fits
<1>3. Checked = {} /\ watch = {} /\ crowd = 0
  BY DEF Checked, WatchInit
<1>4. CrowdBooks
  BY <1>3, FS_EmptySet, WatchlistAssumption DEF CrowdBooks, WatchOvershootBounded
<1> QED
  BY <1>1, <1>2, <1>4, FitsAll DEF WatchInv

(* What one request does to the properties of all.                          *)
LEMMA OneAdds ==
  ASSUME WatchInv, NEW r \in Adders, NEW a \in AddType, Fits(a),
         adds' = [adds EXCEPT ![r] = a]
  PROVE  /\ adds' \in [Adders -> AddType]
         /\ (AnswerBooks /\ AnswersFit)'
         /\ Checked' = IF a.pc = "checked" THEN Checked \cup {r} ELSE Checked \ {r}
<1>1. adds \in [Adders -> AddType]
  BY DEF WatchInv, WatchTypeOK, AddType
<1>2. adds' \in [Adders -> AddType]
  BY <1>1
<1>3. \A q \in Adders : adds'[q] = IF q = r THEN a ELSE adds[q]
  BY <1>1
<1>4. \A q \in Adders : Fits(adds[q])
  BY FitsAll DEF WatchInv
<1>5. \A q \in Adders : Fits(adds'[q])
  BY <1>3, <1>4
<1>6. (AnswerBooks /\ AnswersFit)'
  BY <1>5 DEF AnswerBooks, AnswersFit, Fits, Wanted
<1>7. Checked' = IF a.pc = "checked" THEN Checked \cup {r} ELSE Checked \ {r}
  BY <1>3 DEF Checked
<1> QED
  BY <1>2, <1>6, <1>7

LEMMA RequestKeeps ==
  ASSUME WatchInv, NEW r \in Adders, NEW words \in TokenLists, AddRequest(r, words)
  PROVE  WatchInv'
<1> DEFINE a == [adds[r] EXCEPT !.pc = "next", !.tokens = words]
<1>0. adds[r] \in AddType /\ adds[r].pc = "idle" /\ Fits(adds[r])
  BY FitsAll DEF WatchInv, WatchTypeOK, AddType, AddRequest
<1>1. words \in Seq(Words)
  <2>1. PICK n \in 1 .. MaxBatch : words \in [1 .. n -> Words]
    BY DEF TokenLists, Words
  <2> QED
    BY <2>1
<1>2. a \in AddType /\ a.pc = "next" /\ a.tokens = words /\ a.results = <<>>
  BY <1>0, <1>1 DEF AddType, Words, Fits
<1>3. adds' = [adds EXCEPT ![r] = a]
  BY DEF AddRequest, WatchInv, WatchTypeOK
<1> HIDE DEF a
<1>4. Fits(a)
  <2>1. Resolved(words, Len(words)) \in Nat /\ Len(<<>>) = 0
    BY <1>1, ResolvedCounts
  <2> QED
    BY <1>2, <2>1 DEF Fits
<1>5. /\ adds' \in [Adders -> AddType]
      /\ (AnswerBooks /\ AnswersFit)'
      /\ Checked' = Checked \ {r}
  BY <1>2, <1>3, <1>4, OneAdds
<1>6. Checked' = Checked
  BY <1>0, <1>5 DEF Checked
<1>7. watch' = watch /\ crowd' = crowd
  BY DEF AddRequest
<1>8. WatchTypeOK'
  BY <1>5, <1>7 DEF WatchInv, WatchTypeOK, AddType
<1>9. CrowdBooks'
  BY <1>6, <1>7 DEF WatchInv, CrowdBooks, WatchOvershootBounded
<1> QED
  BY <1>5, <1>8, <1>9 DEF WatchInv

(* A reply of the list service: one more status, never invalid.             *)
LEMMA ReplyFits ==
  ASSUME WatchInv, NEW r \in Adders, NEW status \in ItemStatuses \ {"invalid"},
         adds[r].pc \in {"next", "checked"}, Len(adds[r].results) < Wanted(r),
         Replied(r, "next", status)
  PROVE  /\ adds' \in [Adders -> AddType]
         /\ (AnswerBooks /\ AnswersFit)'
         /\ Checked' = Checked \ {r}
<1> DEFINE longer == Append(adds[r].results, status)
           a == [adds[r] EXCEPT !.pc = "next", !.results = longer]
<1>0. /\ adds[r] \in AddType /\ Fits(adds[r])
      /\ adds[r].results \in Seq(ItemStatuses) /\ adds[r].tokens \in Seq(Words)
  BY FitsAll DEF WatchInv, WatchTypeOK, AddType, Words
<1>1. /\ longer \in Seq(ItemStatuses) /\ Len(longer) = Len(adds[r].results) + 1
      /\ longer[Len(adds[r].results) + 1] = status
      /\ \A k \in 1 .. Len(adds[r].results) : longer[k] = adds[r].results[k]
      /\ DOMAIN longer = 1 .. Len(adds[r].results) + 1
      /\ DOMAIN adds[r].results = 1 .. Len(adds[r].results)
      /\ Len(adds[r].results) \in Nat
  BY <1>0
<1> HIDE DEF longer
<1>2. a \in AddType /\ a.pc = "next" /\ a.tokens = adds[r].tokens /\ a.results = longer
  BY <1>0, <1>1 DEF AddType
<1>3. adds' = [adds EXCEPT ![r] = a]
  BY DEF Replied, WatchInv, WatchTypeOK, longer
<1> HIDE DEF a
<1>4. Resolved(adds[r].tokens, Len(adds[r].tokens)) \in Nat
  BY <1>0, ResolvedCounts
<1>5. Len(longer) <= Resolved(adds[r].tokens, Len(adds[r].tokens))
  BY <1>1, <1>4 DEF Wanted
<1>6. \A k \in DOMAIN longer : longer[k] # "invalid"
  <2>1. \A k \in DOMAIN adds[r].results : adds[r].results[k] # "invalid"
    BY <1>0 DEF Fits
  <2>2. \A k \in 1 .. Len(adds[r].results) + 1 :
          k \in 1 .. Len(adds[r].results) \/ k = Len(adds[r].results) + 1
    BY <1>1
  <2> QED
    BY <1>1, <2>1, <2>2
<1>7. Fits(a)
  BY <1>2, <1>5, <1>6 DEF Fits
<1> QED
  BY <1>2, <1>3, <1>7, OneAdds

LEMMA CheckKeeps == ASSUME WatchInv, NEW r \in Adders, CheckItem(r) PROVE WatchInv'
<1>0. /\ adds[r].pc = "next" /\ Len(adds[r].results) < Wanted(r) /\ watch' = watch
      /\ adds[r] \in AddType /\ Fits(adds[r])
      /\ crowd \in Nat /\ IsFiniteSet(watch) /\ IsFiniteSet(Checked) /\ MaxWatch \in Nat
  BY FitsAll, WatchlistAssumption DEF CheckItem, WatchInv, WatchTypeOK, AddType, CrowdBooks
<1>1. r \notin Checked
  BY <1>0 DEF Checked
<1>2. ASSUME NEW status \in {"failed", "duplicate"}, Replied(r, "next", status), UNCHANGED crowd
      PROVE  WatchInv'
  <2>1. /\ adds' \in [Adders -> AddType]
        /\ (AnswerBooks /\ AnswersFit)'
        /\ Checked' = Checked \ {r}
    BY <1>0, <1>2, ReplyFits DEF ItemStatuses
  <2>2. Checked' = Checked
    BY <2>1, <1>1
  <2>3. WatchTypeOK'
    BY <2>1, <1>0, <1>2 DEF WatchInv, WatchTypeOK, AddType
  <2>4. CrowdBooks'
    BY <2>2, <1>0, <1>2 DEF WatchInv, CrowdBooks, WatchOvershootBounded
  <2> QED
    BY <2>1, <2>3, <2>4 DEF WatchInv
<1>3. ASSUME Cardinality(watch) < MaxWatch, adds' = [adds EXCEPT ![r].pc = "checked"],
             crowd' = IF Cardinality(Checked') > crowd THEN Cardinality(Checked') ELSE crowd
      PROVE  WatchInv'
  <2> DEFINE a == [adds[r] EXCEPT !.pc = "checked"]
  <2>1. a \in AddType /\ a.pc = "checked" /\ a.tokens = adds[r].tokens /\ a.results = adds[r].results
    BY <1>0 DEF AddType
  <2>2. adds' = [adds EXCEPT ![r] = a]
    BY <1>3 DEF WatchInv, WatchTypeOK
  <2> HIDE DEF a
  <2>3. Fits(a)
    BY <1>0, <2>1 DEF Fits, Wanted
  <2>4. /\ adds' \in [Adders -> AddType]
        /\ (AnswerBooks /\ AnswersFit)'
        /\ Checked' = Checked \cup {r}
    BY <2>1, <2>2, <2>3, OneAdds
  <2>5. IsFiniteSet(Checked') /\ Cardinality(Checked') \in Nat /\ Cardinality(Checked') > 0
    <3>1. IsFiniteSet(Checked \cup {r}) /\ Cardinality(Checked \cup {r}) = Cardinality(Checked) + 1
      BY <1>0, <1>1, FS_AddElement
    <3>2. Cardinality(Checked) \in Nat
      BY <1>0, FS_CardinalityType
    <3> QED
      BY <2>4, <3>1, <3>2
  <2>6. crowd' \in Nat /\ crowd' >= Cardinality(Checked') /\ crowd' # 0
    BY <1>0, <1>3, <2>5
  <2>7. WatchTypeOK'
    BY <2>4, <2>6, <1>0 DEF WatchInv, WatchTypeOK, AddType
  <2>8. Cardinality(watch) \in Nat
    BY <1>0, FS_CardinalityType
  <2>9. WatchOvershootBounded'
    BY <1>0, <1>3, <2>5, <2>6, <2>8 DEF WatchOvershootBounded
  <2>10. CrowdBooks'
    BY <1>0, <2>5, <2>9 DEF CrowdBooks
  <2> QED
    BY <2>4, <2>7, <2>10 DEF WatchInv
<1>4. Cardinality(watch) \in Nat
  BY <1>0, FS_CardinalityType
<1>5. \/ Replied(r, "next", "failed") /\ UNCHANGED crowd
      \/ Replied(r, "next", "duplicate") /\ UNCHANGED crowd
      \/ /\ ~(Cardinality(watch) >= MaxWatch)
         /\ adds' = [adds EXCEPT ![r].pc = "checked"]
         /\ crowd' = IF Cardinality(Checked') > crowd THEN Cardinality(Checked') ELSE crowd
  BY DEF CheckItem
<1>6. ~(Cardinality(watch) >= MaxWatch) => Cardinality(watch) < MaxWatch
  BY <1>0, <1>4
<1> QED
  BY <1>2, <1>3, <1>5, <1>6

LEMMA ItemIsASymbol ==
  ASSUME WatchInv, NEW r \in Adders, adds[r].pc = "checked"
  PROVE  Item(r) \in Symbols
<1>1. /\ adds[r].tokens \in Seq(Words) /\ adds[r].results \in Seq(ItemStatuses)
      /\ Len(adds[r].results) < Resolved(adds[r].tokens, Len(adds[r].tokens))
  BY FitsAll DEF WatchInv, WatchTypeOK, Words, Fits
<1>2. Resolved(adds[r].tokens, Len(adds[r].tokens)) \in Nat /\ Len(adds[r].results) \in Nat
  BY <1>1, ResolvedCounts
<1> QED
  BY <1>1, <1>2, NthIsASymbol DEF Item

LEMMA InsertKeeps == ASSUME WatchInv, NEW r \in Adders, InsertItem(r) PROVE WatchInv'
<1>0. /\ adds[r].pc = "checked" /\ crowd' = crowd
      /\ adds[r] \in AddType /\ Fits(adds[r]) /\ Len(adds[r].results) < Wanted(r)
      /\ crowd \in Nat /\ IsFiniteSet(watch) /\ IsFiniteSet(Checked) /\ MaxWatch \in Nat
  BY FitsAll, WatchlistAssumption DEF InsertItem, WatchInv, WatchTypeOK, AddType, CrowdBooks, AnswerBooks
<1>1. r \in Checked
  BY <1>0 DEF Checked
<1>2. /\ IsFiniteSet(Checked \ {r}) /\ Cardinality(Checked \ {r}) = Cardinality(Checked) - 1
      /\ Cardinality(Checked) \in Nat /\ Cardinality(watch) \in Nat
  BY <1>0, <1>1, FS_RemoveElement, FS_CardinalityType
<1>3. CASE Item(r) \in watch
  <2>0. adds' = [adds EXCEPT ![r].pc = "crashed"] /\ watch' = watch
    BY <1>3 DEF InsertItem
  <2> DEFINE a == [adds[r] EXCEPT !.pc = "crashed"]
  <2>1. a \in AddType /\ a.pc = "crashed" /\ a.tokens = adds[r].tokens /\ a.results = adds[r].results
    BY <1>0 DEF AddType
  <2>2. adds' = [adds EXCEPT ![r] = a]
    BY <2>0 DEF WatchInv, WatchTypeOK
  <2> HIDE DEF a
  <2>3. Fits(a)
    BY <1>0, <2>1 DEF Fits, Wanted
  <2>4. /\ adds' \in [Adders -> AddType]
        /\ (AnswerBooks /\ AnswersFit)'
        /\ Checked' = Checked \ {r}
    BY <2>1, <2>2, <2>3, OneAdds
  <2>5. WatchTypeOK'
    BY <2>0, <2>4, <1>0 DEF WatchInv, WatchTypeOK, AddType
  <2>6. WatchOvershootBounded'
    BY <1>0, <1>2, <2>0, <2>4 DEF WatchInv, CrowdBooks, WatchOvershootBounded
  <2>7. CrowdBooks'
    BY <1>0, <1>2, <2>0, <2>4, <2>6 DEF CrowdBooks
  <2> QED
    BY <2>4, <2>5, <2>7 DEF WatchInv
<1>4. CASE Item(r) \notin watch
  <2>0. watch' = watch \cup {Item(r)} /\ Replied(r, "next", "added")
    BY <1>4 DEF InsertItem
  <2>1. /\ adds' \in [Adders -> AddType]
        /\ (AnswerBooks /\ AnswersFit)'
        /\ Checked' = Checked \ {r}
    BY <1>0, <2>0, ReplyFits DEF ItemStatuses
  <2>2. WatchTypeOK'
    BY <1>0, <2>0, <2>1, ItemIsASymbol DEF WatchInv, WatchTypeOK, AddType
  <2>3. IsFiniteSet(watch') /\ Cardinality(watch') = Cardinality(watch) + 1
    BY <1>0, <1>4, <2>0, FS_AddElement
  <2>4. WatchOvershootBounded'
    BY <1>0, <1>2, <2>1, <2>3 DEF WatchInv, CrowdBooks, WatchOvershootBounded
  <2>5. CrowdBooks'
    BY <1>2, <2>1, <2>3, <2>4 DEF CrowdBooks
  <2> QED
    BY <2>1, <2>2, <2>5 DEF WatchInv
<1> QED
  BY <1>3, <1>4

LEMMA AnswerKeeps == ASSUME WatchInv, NEW r \in Adders, AnswerAdd(r) PROVE WatchInv'
<1> DEFINE words == adds[r].tokens
           told == adds[r].results
           final == Answer(words, told)
           a == [adds[r] EXCEPT !.pc = "done", !.results = final]
<1>0. /\ adds[r].pc = "next" /\ Len(told) = Resolved(words, Len(words))
      /\ watch' = watch /\ crowd' = crowd
      /\ adds[r] \in AddType /\ Fits(adds[r])
      /\ words \in Seq(Words) /\ told \in Seq(ItemStatuses)
      /\ \A k \in DOMAIN told : told[k] # "invalid"
  BY FitsAll DEF AnswerAdd, WatchInv, WatchTypeOK, AddType, Fits, Wanted, Words
<1>1. DOMAIN words = 1 .. Len(words) /\ DOMAIN told = 1 .. Len(told) /\ Len(words) \in Nat
  BY <1>0
<1>2. ASSUME NEW i \in 1 .. Len(words), words[i] # Unknown
      PROVE  Resolved(words, i) \in 1 .. Len(told)
  <2>1. i \in 0 .. Len(words) /\ i > 0 /\ i - 1 \in 0 .. Len(words) /\ Len(words) \in 0 .. Len(words)
    BY <1>1
  <2>2. Resolved(words, i) = Resolved(words, i - 1) + 1
    BY <1>0, <1>2, <2>1, ResolvedCounts
  <2>3. Resolved(words, i - 1) \in Nat
    BY <1>0, <2>1, ResolvedCounts
  <2>4. Resolved(words, i) <= Resolved(words, Len(words)) /\ Resolved(words, Len(words)) \in Nat
    BY <1>0, <2>1, ResolvedCounts
  <2> QED
    BY <1>0, <2>2, <2>3, <2>4
<1>3. /\ DOMAIN final = 1 .. Len(words)
      /\ \A i \in 1 .. Len(words) :
           final[i] = IF words[i] = Unknown THEN "invalid" ELSE told[Resolved(words, i)]
  BY <1>1 DEF Answer
<1>4. \A i \in 1 .. Len(words) : final[i] \in ItemStatuses /\ (final[i] = "invalid" <=> words[i] = Unknown)
  <2>1. \A k \in 1 .. Len(told) : told[k] \in ItemStatuses /\ told[k] # "invalid"
    BY <1>0, <1>1
  <2> QED
    BY <1>2, <1>3, <2>1 DEF ItemStatuses
<1>5. final \in Seq(ItemStatuses)
  <2>1. final = [i \in 1 .. Len(words) |-> final[i]]
    BY <1>1 DEF Answer
  <2> HIDE DEF final
  <2>2. final \in [1 .. Len(words) -> ItemStatuses]
    BY <2>1, <1>4
  <2> QED
    BY <2>2, <1>1
<1> HIDE DEF final
<1>6. a \in AddType /\ a.pc = "done" /\ a.tokens = words /\ a.results = final
  BY <1>0, <1>5 DEF AddType
<1>7. adds' = [adds EXCEPT ![r] = a]
  BY DEF AnswerAdd, WatchInv, WatchTypeOK, final
<1> HIDE DEF a
<1>8. Fits(a)
  BY <1>1, <1>3, <1>4, <1>6 DEF Fits
<1>9. /\ adds' \in [Adders -> AddType]
      /\ (AnswerBooks /\ AnswersFit)'
      /\ Checked' = Checked \ {r}
  BY <1>6, <1>7, <1>8, OneAdds
<1>10. Checked' = Checked
  BY <1>0, <1>9 DEF Checked
<1>11. WatchTypeOK'
  BY <1>0, <1>9 DEF WatchInv, WatchTypeOK, AddType
<1>12. CrowdBooks'
  BY <1>0, <1>10 DEF WatchInv, CrowdBooks, WatchOvershootBounded
<1> QED
  BY <1>9, <1>11, <1>12 DEF WatchInv

LEMMA DeleteKeeps == ASSUME WatchInv, NEW s \in Symbols, DeleteItem(s) PROVE WatchInv'
<1>0. s \in watch /\ watch' = watch \ {s} /\ adds' = adds /\ crowd' = crowd
  BY DEF DeleteItem
<1>1. Checked' = Checked
  BY <1>0 DEF Checked
<1>2. WatchTypeOK' /\ AnswerBooks' /\ AnswersFit'
  BY <1>0 DEF WatchInv, WatchTypeOK, AnswerBooks, AnswersFit, Wanted
<1>3. /\ IsFiniteSet(watch') /\ Cardinality(watch') = Cardinality(watch) - 1
      /\ Cardinality(watch) \in Nat /\ Cardinality(Checked) \in Nat
  BY <1>0, FS_RemoveElement, FS_CardinalityType DEF WatchInv, CrowdBooks
<1>4. WatchOvershootBounded'
  BY <1>0, <1>1, <1>3, WatchlistAssumption DEF WatchInv, CrowdBooks, WatchOvershootBounded, WatchTypeOK
<1> QED
  BY <1>1, <1>2, <1>3, <1>4 DEF WatchInv, CrowdBooks

LEMMA WatchKeeps == WatchInv /\ [WatchNext]_watchVars => WatchInv'
<1> SUFFICES ASSUME WatchInv, [WatchNext]_watchVars PROVE WatchInv'
  OBVIOUS
<1>1. CASE UNCHANGED watchVars
  BY <1>1 DEF watchVars, WatchInv, WatchTypeOK, AnswerBooks, AnswersFit, Wanted, CrowdBooks,
              WatchOvershootBounded, Checked
<1>2. CASE WatchNext
  BY <1>2, RequestKeeps, CheckKeeps, InsertKeeps, AnswerKeeps, DeleteKeeps DEF WatchNext
<1> QED
  BY <1>1, <1>2

(* A request goes on from an insert only when it made the row.              *)
LEMMA AddsOnce ==
  ASSUME WatchInv, [WatchNext]_watchVars
  PROVE  [\A r \in Adders : adds[r].pc = "checked" /\ adds'[r].pc = "next"
            => Item(r) \notin watch /\ Item(r) \in watch']_watchVars
<1> SUFFICES ASSUME WatchNext, NEW r \in Adders, adds[r].pc = "checked", adds'[r].pc = "next"
             PROVE  Item(r) \notin watch /\ Item(r) \in watch'
  OBVIOUS
<1>0. adds \in [Adders -> AddType]
  BY DEF WatchInv, WatchTypeOK, AddType
<1>1. ASSUME NEW q \in Adders, NEW words \in TokenLists, AddRequest(q, words)
      PROVE  FALSE
  <2>1. q # r /\ adds'[r] = adds[r]
    BY <1>0, <1>1 DEF AddRequest
  <2> QED
    BY <2>1
<1>2. ASSUME NEW q \in Adders, CheckItem(q) PROVE FALSE
  <2>1. q # r
    BY <1>2 DEF CheckItem
  <2>2. adds'[r] = adds[r]
    BY <1>0, <1>2, <2>1 DEF CheckItem, Replied
  <2> QED
    BY <2>2
<1>3. ASSUME NEW q \in Adders, AnswerAdd(q) PROVE FALSE
  <2>1. q # r /\ adds'[r] = adds[r]
    BY <1>0, <1>3 DEF AnswerAdd
  <2> QED
    BY <2>1
<1>4. ASSUME NEW q \in Adders, InsertItem(q) PROVE Item(r) \notin watch /\ Item(r) \in watch'
  <2>1. q = r
    BY <1>0, <1>4 DEF InsertItem, Replied
  <2>2. Item(r) \notin watch
    <3> SUFFICES ASSUME Item(r) \in watch PROVE FALSE
      OBVIOUS
    <3>1. adds'[r].pc = "crashed"
      BY <1>0, <1>4, <2>1 DEF InsertItem, AddType
    <3> QED
      BY <3>1
  <2> QED
    BY <1>4, <2>1, <2>2 DEF InsertItem
<1>5. ASSUME NEW s \in Symbols, DeleteItem(s) PROVE FALSE
  BY <1>5 DEF DeleteItem
<1> QED
  BY <1>1, <1>2, <1>3, <1>4, <1>5 DEF WatchNext

(* For any symbols, requests, words and limit: each word of a request has   *)
(* its answer, a row is reported as added by the request that made it only, *)
(* and the limit is exceeded only by requests that were between check and   *)
(* insert at the same time (watchlist_service.py:39-85, watchlist.py:45-92).*)
THEOREM WatchlistCorrect == WatchSpec => WatchlistHolds
<1>1. WatchInv => WatchTypeOK /\ AnswersFit /\ WatchOvershootBounded
  BY DEF WatchInv, CrowdBooks
<1>2. WatchSpec => []WatchInv
  BY WatchInitial, WatchKeeps, PTL DEF WatchSpec
<1>3. WatchSpec => AddedOnce
  BY <1>2, AddsOnce, PTL DEF WatchSpec, AddedOnce
<1> QED
  BY <1>1, <1>2, <1>3, PTL DEF WatchlistHolds

-----------------------------------------------------------------------------
(* Scheduled rows.  A create that passed its check counts with the rows;    *)
(* the requests between check and insert are never more than rush.          *)

ListInductive ==
  /\ ListTypeOK /\ RowsOvershootBounded
  /\ IsFiniteSet(rows) /\ IsFiniteSet(InGap) /\ Cardinality(InGap) <= rush

LEMMA RowNumbers ==
  ASSUME ListInductive
  PROVE  Cardinality(rows) \in Nat /\ Cardinality(InGap) \in Nat /\ rush \in Nat /\ MaxRows \in Nat
  BY FS_CardinalityType, ScheduledListAssumption DEF ListInductive, ListTypeOK

LEMMA ListInitCorrect == ASSUME ListInit PROVE ListInductive
<1>1. rows = {} /\ InGap = {} /\ rush = 0
  BY DEF ListInit, InGap
<1>2. ListTypeOK
  BY <1>1 DEF ListInit, ListTypeOK, Nothing, Snapshot
<1> QED
  BY <1>1, <1>2, FS_EmptySet, ScheduledListAssumption DEF ListInductive, RowsOvershootBounded

\* A create is checked against the rows that are there now.
LEMMA CheckCreateStep == ASSUME ListInductive, NEW r \in Creates, CheckCreate(r) PROVE ListInductive'
<1>1. Cardinality(rows) \in Nat /\ Cardinality(InGap) \in Nat /\ rush \in Nat /\ MaxRows \in Nat
  BY RowNumbers
<1>2. r \notin InGap /\ IsFiniteSet(InGap) /\ UNCHANGED <<rows, positions>>
  BY DEF CheckCreate, InGap, ListInductive
<1>3. /\ IsFiniteSet(InGap') /\ Cardinality(InGap') \in Nat
      /\ Cardinality(InGap') = Cardinality(InGap) \/ Cardinality(rows) < MaxRows
      /\ Cardinality(InGap') <= Cardinality(InGap) + 1
  <2>1. CASE Cardinality(rows) >= MaxRows \/ creates[r].symbol \in rows
    <3>1. InGap' = InGap
      BY <2>1 DEF CheckCreate, InGap, ListInductive, ListTypeOK
    <3> QED
      BY <3>1, <1>1, <1>2
  <2>2. CASE ~(Cardinality(rows) >= MaxRows \/ creates[r].symbol \in rows)
    <3>1. InGap' = InGap \cup {r}
      BY <2>2 DEF CheckCreate, InGap, ListInductive, ListTypeOK
    <3>2. IsFiniteSet(InGap') /\ Cardinality(InGap') = Cardinality(InGap) + 1
      BY <3>1, <1>2, FS_AddElement
    <3> QED
      BY <2>2, <3>2, <1>1
  <2> QED
    BY <2>1, <2>2
<1>4. rush' \in Nat /\ Cardinality(InGap') <= rush' /\ rush <= rush'
  BY <1>1, <1>3 DEF CheckCreate
<1>5. ListTypeOK'
  BY <1>4 DEF CheckCreate, ListInductive, ListTypeOK
<1>6. Cardinality(rows) + Cardinality(InGap') <= MaxRows + rush'
  <2>1. Cardinality(rows) + Cardinality(InGap) <= MaxRows + rush
    BY DEF ListInductive, RowsOvershootBounded
  <2> QED
    BY <2>1, <1>1, <1>3, <1>4
<1> QED
  BY <1>2, <1>3, <1>4, <1>5, <1>6 DEF ListInductive, RowsOvershootBounded

LEMMA InsertCreateStep == ASSUME ListInductive, NEW r \in Creates, InsertCreate(r) PROVE ListInductive'
<1>1. Cardinality(rows) \in Nat /\ Cardinality(InGap) \in Nat /\ rush \in Nat /\ MaxRows \in Nat
  BY RowNumbers
<1>2. InGap' = InGap \ {r} /\ r \in InGap
  BY DEF InsertCreate, InGap, ListInductive, ListTypeOK
<1>3. IsFiniteSet(InGap') /\ Cardinality(InGap') = Cardinality(InGap) - 1
  BY <1>2, FS_RemoveElement DEF ListInductive
<1>4. IsFiniteSet(rows') /\ Cardinality(rows') \in Nat /\ Cardinality(rows') <= Cardinality(rows) + 1
  <2>1. rows' = rows \cup {creates[r].symbol} /\ IsFiniteSet(rows)
    BY DEF InsertCreate, ListInductive
  <2>2. /\ IsFiniteSet(rows')
        /\ Cardinality(rows') = IF creates[r].symbol \in rows THEN Cardinality(rows) ELSE Cardinality(rows) + 1
    BY <2>1, FS_AddElement
  <2> QED
    BY <1>1, <2>2
<1>5. ListTypeOK'
  BY DEF InsertCreate, ListInductive, ListTypeOK
<1>6. UNCHANGED rush
  BY DEF InsertCreate
<1> QED
  BY <1>1, <1>3, <1>4, <1>5, <1>6 DEF ListInductive, RowsOvershootBounded

\* What an import makes of the free slots.
LEMMA ImportFills ==
  ASSUME ListInductive, NEW s \in Sources, NEW new \in Snapshot, SyncPositions(s, new, TRUE)
  PROVE  /\ rows \subseteq rows' /\ rows' \subseteq rows \cup new.held
         /\ new.held \subseteq rows' \/ Cardinality(rows') >= MaxRows
         /\ IsFiniteSet(rows') /\ Cardinality(rows') \in Nat
         /\ rows' = rows \/ Cardinality(rows') <= MaxRows
<1> DEFINE missing == new.held \ rows
           free    == IF Cardinality(rows) >= MaxRows THEN 0 ELSE MaxRows - Cardinality(rows)
           fit     == IF Cardinality(missing) < free THEN Cardinality(missing) ELSE free
<1>1. Cardinality(rows) \in Nat /\ MaxRows \in Nat /\ IsFiniteSet(rows)
  BY RowNumbers DEF ListInductive
<1>2. IsFiniteSet(missing) /\ Cardinality(missing) \in Nat
  <2>1. missing \subseteq Stocks
    BY DEF Snapshot
  <2> QED
    BY <2>1, FS_Subset, FS_CardinalityType, ScheduledListAssumption
<1>3. free \in Nat /\ fit \in Nat
  BY <1>1, <1>2
<1>4. PICK made \in SUBSET missing : Cardinality(made) = fit /\ rows' = rows \cup made
  BY DEF SyncPositions, kSubset
<1>5. IsFiniteSet(made) /\ Cardinality(made) \in Nat
  BY <1>2, FS_Subset, FS_CardinalityType
<1>6. IsFiniteSet(rows') /\ Cardinality(rows') = Cardinality(rows) + fit
  <2>1. rows \cap made = {}
    OBVIOUS
  <2>2. /\ IsFiniteSet(rows \cup made)
        /\ Cardinality(rows \cup made) = Cardinality(rows) + Cardinality(made) - Cardinality(rows \cap made)
    BY <1>1, <1>5, FS_Union
  <2>3. Cardinality(rows \cap made) = 0
    BY <2>1, FS_EmptySet
  <2> HIDE DEF fit
  <2> QED
    BY <2>2, <2>3, <1>1, <1>3, <1>4
<1>7. CASE Cardinality(missing) < free
  <2>1. Cardinality(made) = Cardinality(missing)
    BY <1>7, <1>4
  <2>2. made = missing
    BY <2>1, <1>2, FS_Subset
  <2>3. new.held \subseteq rows' /\ rows \subseteq rows' /\ rows' \subseteq rows \cup new.held
    BY <2>2, <1>4
  <2>4. Cardinality(rows') <= MaxRows /\ Cardinality(rows') \in Nat
    BY <1>1, <1>2, <1>6, <1>7
  <2> QED
    BY <2>3, <2>4, <1>6
<1>8. CASE ~(Cardinality(missing) < free)
  <2>1. fit = free /\ Cardinality(rows') = Cardinality(rows) + free
    BY <1>8, <1>6
  <2>2. rows \subseteq rows' /\ rows' \subseteq rows \cup new.held
    BY <1>4
  <2>3. Cardinality(rows') >= MaxRows /\ Cardinality(rows') \in Nat
    BY <2>1, <1>1
  <2>4. rows' = rows \/ Cardinality(rows') <= MaxRows
    <3>1. CASE Cardinality(rows) >= MaxRows
      <4>1. Cardinality(made) = 0
        BY <3>1, <1>4, <2>1
      <4>2. made = {}
        BY <4>1, <1>5, FS_EmptySet
      <4> QED
        BY <4>2, <1>4
    <3>2. CASE ~(Cardinality(rows) >= MaxRows)
      BY <3>2, <2>1, <1>1
    <3> QED
      BY <3>1, <3>2
  <2> QED
    BY <2>2, <2>3, <2>4, <1>6
<1> QED
  BY <1>7, <1>8

LEMMA SyncStep ==
  ASSUME ListInductive, NEW s \in Sources, NEW new \in Snapshot, NEW auto \in BOOLEAN,
         SyncPositions(s, new, auto)
  PROVE  ListInductive'
<1>1. /\ Cardinality(rows) \in Nat /\ Cardinality(InGap) \in Nat /\ rush \in Nat /\ MaxRows \in Nat
      /\ IsFiniteSet(rows)
  BY RowNumbers DEF ListInductive
<1>2. /\ positions' = [positions EXCEPT ![s] = new] /\ UNCHANGED <<creates, rush>> /\ InGap' = InGap
  BY DEF SyncPositions, InGap
<1>3. /\ rows' \subseteq Stocks /\ IsFiniteSet(rows') /\ Cardinality(rows') \in Nat
      /\ rows' = rows \/ Cardinality(rows') <= MaxRows
  <2>1. CASE auto = TRUE
    <3>1. SyncPositions(s, new, TRUE)
      BY <2>1
    <3>2. new.held \subseteq Stocks /\ rows \subseteq Stocks
      BY DEF Snapshot, ListInductive, ListTypeOK
    <3> QED
      BY <3>1, <3>2, ImportFills
  <2>2. CASE auto = FALSE
    <3>1. rows' = rows
      BY <2>2 DEF SyncPositions
    <3> QED
      BY <3>1, <1>1 DEF ListInductive, ListTypeOK
  <2> QED
    BY <2>1, <2>2
<1>4. ListTypeOK'
  BY <1>2, <1>3 DEF ListInductive, ListTypeOK
<1>5. Cardinality(rows') + Cardinality(InGap) <= MaxRows + rush
  <2>1. Cardinality(rows) + Cardinality(InGap) <= MaxRows + rush /\ Cardinality(InGap) <= rush
    BY DEF ListInductive, RowsOvershootBounded
  <2> QED
    BY <2>1, <1>1, <1>3
<1> QED
  BY <1>2, <1>3, <1>4, <1>5 DEF ListInductive, RowsOvershootBounded

LEMMA DeleteRowsStep == ASSUME ListInductive, NEW ids \in SUBSET Stocks, DeleteRows(ids) PROVE ListInductive'
<1>1. Cardinality(rows) \in Nat /\ Cardinality(InGap) \in Nat /\ rush \in Nat /\ MaxRows \in Nat
  BY RowNumbers
<1>2. InGap' = InGap /\ UNCHANGED <<creates, rush, positions>> /\ rows' = rows \ ids
  BY DEF DeleteRows, InGap
<1>3. IsFiniteSet(rows') /\ Cardinality(rows') <= Cardinality(rows) /\ Cardinality(rows') \in Nat
  <2>1. rows' \in SUBSET rows
    BY <1>2
  <2> QED
    BY <2>1, FS_Subset, FS_CardinalityType DEF ListInductive
<1>4. ListTypeOK'
  BY <1>2 DEF ListInductive, ListTypeOK
<1> QED
  BY <1>1, <1>2, <1>3, <1>4 DEF ListInductive, RowsOvershootBounded

LEMMA ListStep == ASSUME ListInductive, [ListNext]_listVars PROVE ListInductive'
<1>1. ASSUME ClearPositions PROVE ListInductive'
  <2>1. InGap' = InGap /\ UNCHANGED <<rows, creates, rush>>
    BY <1>1 DEF ClearPositions, InGap
  <2>2. ListTypeOK'
    BY <1>1 DEF ClearPositions, ListInductive, ListTypeOK, Nothing, Snapshot
  <2> QED
    BY <2>1, <2>2 DEF ListInductive, RowsOvershootBounded
<1>2. CASE UNCHANGED listVars
  BY <1>2 DEF listVars, ListInductive, ListTypeOK, RowsOvershootBounded, InGap
<1> QED
  BY <1>1, <1>2, CheckCreateStep, InsertCreateStep, SyncStep, DeleteRowsStep DEF ListNext

(* However creates and imports overlap, the rows of a user exceed the limit *)
(* only by the creates that overlapped, and an import that schedules covers *)
(* what is held as far as the limit allows (scheduled_service.py:117-200).  *)
THEOREM ScheduledListCorrect == ListSpec => ScheduledListHolds
<1>1. ListInductive /\ [ListNext]_listVars => ListInductive'
  BY ListStep
<1>2. ListInductive => ListTypeOK /\ RowsOvershootBounded
  BY DEF ListInductive
<1>3. ListInductive /\ [ListNext]_listVars =>
        [\A s \in Sources :
           LET new == positions'[s]
           IN  SyncPositions(s, new, TRUE) =>
                 /\ rows \subseteq rows' /\ rows' \subseteq rows \cup new.held
                 /\ new.held \subseteq rows' \/ Cardinality(rows') >= MaxRows]_listVars
  <2> SUFFICES ASSUME ListInductive, [ListNext]_listVars, NEW s \in Sources,
                      SyncPositions(s, positions'[s], TRUE)
      PROVE  /\ rows \subseteq rows' /\ rows' \subseteq rows \cup positions'[s].held
             /\ positions'[s].held \subseteq rows' \/ Cardinality(rows') >= MaxRows
    OBVIOUS
  <2>1. ListInductive'
    BY ListStep
  <2>2. positions'[s] \in Snapshot
    BY <2>1 DEF ListInductive, ListTypeOK
  <2> QED
    BY <2>2, ImportFills
<1> QED
  BY <1>1, <1>2, <1>3, ListInitCorrect, PTL DEF ListSpec, ScheduledListHolds, HeldAreScheduled

-----------------------------------------------------------------------------
(* Runtime configuration.  As long as no other edit was saved, what an edit *)
(* tried is what its update makes of the row there is now; as long as       *)
(* nobody else set the shared copy after a job's graph, the copy is in the  *)
(* language of that job.                                                    *)

EditRecord == [pc : {"idle", "read", "probed", "saved", "refused", "lost"},
               update : Update, tried : Config, stale : BOOLEAN]
AnalysisRecord == [pc : Started \cup {"idle", "failed", "lost"}, quick : AnyModel, deep : AnyModel,
                   asked : Languages \cup {Unset}, got : Speech \cup {Unset}, passed : BOOLEAN]

TriedBooks(e) ==
  edits[e].pc \in {"read", "probed"} /\ ~ edits[e].stale => edits[e].tried = PendingConfig(row, secret, edits[e].update)

\* A job beside a value of the shared copy.
JobBooks(job, copy) ==
  /\ job.pc \in Started =>
       /\ job.quick = Unset <=> job.deep = Unset
       /\ job.quick = Unset => Default.quick = Unset /\ Default.deep = Unset
  /\ job.pc \in HasGraph /\ ~ job.passed => copy = First(job.asked, Default.lang)
  /\ job.pc = "prompted" /\ ~ job.passed => job.got = First(job.asked, Default.lang)

PromptBooks(a) == JobBooks(analyses[a], shared)

ConfigInv ==
  /\ ConfigTypeOK /\ FirstSecretMigrates
  /\ \A e \in Edits : TriedBooks(e)
  /\ \A a \in Analyses : PromptBooks(a)

LEMMA ConfigFacts ==
  ASSUME ConfigInv
  PROVE  /\ secret \in Secrets /\ row \in Row /\ shared \in Speech
         /\ edits \in [Edits -> EditRecord] /\ analyses \in [Analyses -> AnalysisRecord]
         /\ \A e \in Edits : edits[e] \in EditRecord /\ TriedBooks(e)
         /\ \A a \in Analyses : analyses[a] \in AnalysisRecord /\ PromptBooks(a)
  BY DEF ConfigInv, ConfigTypeOK, EditRecord, AnalysisRecord

LEMMA ConfigTypeAgain ==
  ASSUME secret \in Secrets, row \in Row, shared \in Speech,
         edits \in [Edits -> EditRecord], analyses \in [Analyses -> AnalysisRecord]
  PROVE  ConfigTypeOK
  BY DEF ConfigTypeOK, EditRecord, AnalysisRecord

\* What the merge returns.
LEMMA DecryptedType ==
  ASSUME NEW r \in Row, NEW s \in Secrets PROVE Decrypted(r.api, s) \in ApiKeys \cup {Unset}
<1>1. r.api \in {NoKey} \cup [under : Secrets, key : ApiKeys]
  BY DEF Row
<1>2. CASE r.api = NoKey
  BY <1>2 DEF Decrypted, NoKey
<1>3. CASE r.api \in [under : Secrets, key : ApiKeys]
  BY <1>3 DEF Decrypted
<1> QED
  BY <1>1, <1>2, <1>3

LEMMA MergeIsAConfig ==
  ASSUME NEW r \in Row, NEW s \in Secrets, NEW o \in Override, NEW u \in Update
  PROVE  /\ Built(r, s, o) \in Config /\ PendingConfig(r, s, u) \in Config
         /\ Built(r, s, o).quick \in AnyModel /\ Built(r, s, o).deep \in AnyModel
         /\ Built(r, s, o).quick = Unset <=> Built(r, s, o).deep = Unset
         /\ Built(r, s, o).quick = Unset => Default.quick = Unset /\ Default.deep = Unset
<1>1. /\ r.provider \in Providers \cup {Unset} /\ r.quick \in Models \cup {Unset} /\ r.deep \in Models \cup {Unset}
      /\ Decrypted(r.api, s) \in ApiKeys \cup {Unset}
  BY DecryptedType DEF Row
<1>2. NoOverride \in Override
  BY DEF NoOverride, Override
<1>3. ASSUME NEW p \in Override
      PROVE  /\ Built(r, s, p) \in Config
             /\ Built(r, s, p).quick \in AnyModel /\ Built(r, s, p).deep \in AnyModel
             /\ Built(r, s, p).quick = Unset <=> Built(r, s, p).deep = Unset
             /\ Built(r, s, p).quick = Unset => Default.quick = Unset /\ Default.deep = Unset
  <2> DEFINE wanted   == First(p.quick, First(r.quick, Default.quick))
             deep     == First(r.deep, Default.deep)
             provider == First(r.provider, Default.provider)
             api      == First(Decrypted(r.api, s), Default.api)
  <2>1. /\ wanted \in AnyModel /\ (wanted = Unset => Default.quick = Unset)
        /\ deep \in AnyModel /\ (deep = Unset => Default.deep = Unset)
        /\ provider \in Providers /\ api \in ApiKeys \cup {Unset, Default.api}
    BY <1>1 DEF First, AnyModel, Providers, Override
  <2>2. Built(r, s, p) = [provider |-> provider, quick |-> First(wanted, deep), deep |-> First(deep, wanted),
                          api |-> api]
    BY DEF Built
  <2> HIDE DEF wanted, deep, provider, api
  <2>3. /\ First(wanted, deep) \in AnyModel /\ First(deep, wanted) \in AnyModel
        /\ First(wanted, deep) = Unset <=> wanted = Unset /\ deep = Unset
        /\ First(deep, wanted) = Unset <=> wanted = Unset /\ deep = Unset
    BY <2>1 DEF First
  <2> QED
    BY <2>1, <2>2, <2>3 DEF Config
<1>4. PendingConfig(r, s, u) \in Config
  <2> DEFINE c == Built(r, s, NoOverride)
  <2>1. c \in Config
    BY <1>2, <1>3
  <2> HIDE DEF c
  <2>2. PendingConfig(r, s, u) =
          [provider |-> First(u.provider, c.provider),
           quick |-> First(c.quick, First(u.deep, c.deep)), deep |-> First(First(u.deep, c.deep), c.quick),
           api |-> IF u.api = "clear" THEN Unset ELSE First(u.api, c.api)]
    BY DEF PendingConfig, c
  <2> QED
    BY <2>1, <2>2 DEF First, Config, Update, Providers, AnyModel
<1> QED
  BY <1>3, <1>4

LEMMA ClosedIsARecord ==
  /\ \A pc \in {"idle", "saved", "refused", "lost"} : Closed(pc) \in EditRecord /\ Closed(pc).pc = pc
  /\ \A pc \in {"idle", "failed", "lost"} :
       NoAnalysis(pc) \in AnalysisRecord /\ NoAnalysis(pc).pc = pc /\ \A copy : JobBooks(NoAnalysis(pc), copy)
<1>1. ASSUME NEW pc \in {"idle", "saved", "refused", "lost"}
      PROVE  Closed(pc) \in EditRecord /\ Closed(pc).pc = pc
  BY DEF Closed, EditRecord, Update, Config, Providers, AnyModel
<1>2. ASSUME NEW pc \in {"idle", "failed", "lost"}
      PROVE  /\ NoAnalysis(pc) \in AnalysisRecord /\ NoAnalysis(pc).pc = pc
             /\ \A copy : JobBooks(NoAnalysis(pc), copy)
  <2>1. NoAnalysis(pc) \in AnalysisRecord /\ NoAnalysis(pc).pc = pc
    BY DEF NoAnalysis, AnalysisRecord, AnyModel
  <2> QED
    BY <2>1 DEF JobBooks, Started, HasGraph
<1> QED
  BY <1>1, <1>2

LEMMA ConfigInitCorrect == ASSUME ConfigInit PROVE ConfigInv
<1>1. ConfigTypeOK
  <2>1. secret \in Secrets /\ row \in Row /\ shared \in Speech
    BY DEF ConfigInit, Secrets, Row, Speech, Providers
  <2>2. edits \in [Edits -> EditRecord] /\ analyses \in [Analyses -> AnalysisRecord]
    BY ClosedIsARecord DEF ConfigInit
  <2> QED
    BY <2>1, <2>2, ConfigTypeAgain
<1>2. FirstSecretMigrates
  BY DEF ConfigInit, FirstSecretMigrates
<1>3. ASSUME NEW e \in Edits PROVE TriedBooks(e)
  <2>1. edits[e].pc = "idle"
    BY ClosedIsARecord DEF ConfigInit
  <2> QED
    BY <2>1 DEF TriedBooks
<1>4. ASSUME NEW a \in Analyses PROVE PromptBooks(a)
  <2>1. analyses[a] = NoAnalysis("idle")
    BY DEF ConfigInit
  <2> QED
    BY <2>1, ClosedIsARecord DEF PromptBooks
<1> QED
  BY <1>1, <1>2, <1>3, <1>4 DEF ConfigInv

LEMMA ReadProbeStep ==
  ASSUME ConfigInv, NEW e \in Edits, (\E u \in Update : ReadConfig(e, u)) \/ Probe(e)
  PROVE  ConfigInv'
<1>1. PICK next \in EditRecord :
        /\ edits' = [edits EXCEPT ![e] = next]
        /\ next.pc \in {"read", "probed"} /\ ~ next.stale => next.tried = PendingConfig(row, secret, next.update)
  <2>1. ASSUME NEW u \in Update, ReadConfig(e, u)
        PROVE  \E next \in EditRecord :
                 /\ edits' = [edits EXCEPT ![e] = next]
                 /\ next.pc \in {"read", "probed"} /\ ~ next.stale =>
                      next.tried = PendingConfig(row, secret, next.update)
    <3> DEFINE c == PendingConfig(row, secret, u)
               next == [pc |-> "read", update |-> u, tried |-> c, stale |-> FALSE]
    <3>1. c \in Config
      <4>1. NoOverride \in Override
        BY DEF NoOverride, Override
      <4> QED
        BY <4>1, MergeIsAConfig, ConfigFacts
    <3>2. edits' = [edits EXCEPT ![e] = next] /\ c = PendingConfig(row, secret, next.update)
      BY <2>1 DEF ReadConfig
    <3> HIDE DEF c
    <3>3. next \in EditRecord /\ next.tried = c
      BY <3>1 DEF EditRecord
    <3> QED
      BY <3>2, <3>3
  <2>2. ASSUME Probe(e)
        PROVE  \E next \in EditRecord :
                 /\ edits' = [edits EXCEPT ![e] = next]
                 /\ next.pc \in {"read", "probed"} /\ ~ next.stale =>
                      next.tried = PendingConfig(row, secret, next.update)
    <3>1. PICK answer \in {"probed", "refused"} :
            edits' = [edits EXCEPT ![e] = IF answer = "probed" THEN [@ EXCEPT !.pc = answer] ELSE Closed(answer)]
      BY <2>2 DEF Probe
    <3>2. edits[e].pc = "read" /\ edits[e] \in EditRecord /\ TriedBooks(e) /\ edits \in [Edits -> EditRecord]
      BY <2>2, ConfigFacts DEF Probe
    <3>3. CASE answer = "probed"
      <4> DEFINE next == [edits[e] EXCEPT !.pc = "probed"]
      <4>1. edits' = [edits EXCEPT ![e] = next]
        BY <3>1, <3>2, <3>3
      <4>2. /\ next \in EditRecord /\ next.tried = edits[e].tried /\ next.update = edits[e].update
            /\ next.stale = edits[e].stale
        BY <3>2 DEF EditRecord
      <4> HIDE DEF next
      <4> QED
        BY <4>1, <4>2, <3>2 DEF TriedBooks
    <3>4. CASE answer = "refused"
      <4>1. edits' = [edits EXCEPT ![e] = Closed("refused")]
        BY <3>1, <3>2, <3>4
      <4> QED
        BY <4>1, ClosedIsARecord
    <3> QED
      BY <3>3, <3>4
  <2> QED
    BY <2>1, <2>2
<1>2. UNCHANGED <<secret, row, analyses, shared>>
  BY DEF ReadConfig, Probe
<1>3. ConfigTypeOK'
  <2>1. edits' \in [Edits -> EditRecord]
    BY <1>1, ConfigFacts
  <2> QED
    BY <2>1, <1>2, ConfigFacts DEF ConfigTypeOK, EditRecord, AnalysisRecord
<1>4. ASSUME NEW f \in Edits PROVE TriedBooks(f)'
  <2>1. CASE f = e
    <3>1. edits'[f] = next
      BY <2>1, <1>1, ConfigFacts
    <3> QED
      BY <3>1, <1>1, <1>2 DEF TriedBooks, PendingConfig, Built, Decrypted
  <2>2. CASE f # e
    <3>1. edits'[f] = edits[f]
      BY <2>2, <1>1, ConfigFacts
    <3> QED
      BY <3>1, <1>2, ConfigFacts DEF TriedBooks, PendingConfig, Built, Decrypted
  <2> QED
    BY <2>1, <2>2
<1>5. FirstSecretMigrates'
  BY <1>2 DEF ConfigInv, FirstSecretMigrates, Decrypted
<1>6. ASSUME NEW a \in Analyses PROVE PromptBooks(a)'
  BY <1>2, ConfigFacts DEF PromptBooks
<1> QED
  BY <1>3, <1>4, <1>5, <1>6 DEF ConfigInv

LEMMA StoredKeyReadable ==
  ASSUME ConfigInv, NEW u \in Update
  PROVE  LET r == Upserted(row, secret, u)
         IN  /\ r \in Row
             /\ r.api # NoKey /\ Decrypted(r.api, secret) = Unset => r.api.under \in Custom \ {secret}
             /\ Decrypted(r.api, secret) = IF u.api = "clear" THEN Unset ELSE First(u.api, Decrypted(row.api, secret))
<1> DEFINE r == Upserted(row, secret, u)
           api == IF u.api = "clear" THEN NoKey
                  ELSE IF u.api = Unset THEN row.api ELSE [under |-> secret, key |-> u.api]
<1>1. /\ row \in Row /\ secret \in Secrets /\ u.api \in ApiKeys \cup {Unset, "clear"}
      /\ row.api \in {NoKey} \cup [under : Secrets, key : ApiKeys]
      /\ row.api # NoKey /\ Decrypted(row.api, secret) = Unset => row.api.under \in Custom \ {secret}
  BY ConfigFacts DEF Update, Row, ConfigInv, FirstSecretMigrates
<1>2. r = [provider |-> First(u.provider, row.provider), quick |-> row.quick, deep |-> First(u.deep, row.deep), api |-> api]
  BY DEF Upserted
<1>3. /\ api \in {NoKey} \cup [under : Secrets, key : ApiKeys]
      /\ api # NoKey /\ Decrypted(api, secret) = Unset => api.under \in Custom \ {secret}
      /\ Decrypted(api, secret) = IF u.api = "clear" THEN Unset ELSE First(u.api, Decrypted(row.api, secret))
  <2>1. CASE u.api = "clear"
    BY <2>1 DEF Decrypted, NoKey
  <2>2. CASE u.api # "clear" /\ u.api = Unset
    BY <2>2, <1>1 DEF First
  <2>3. CASE u.api # "clear" /\ u.api # Unset
    <3>1. api = [under |-> secret, key |-> u.api] /\ u.api \in ApiKeys
      BY <2>3, <1>1
    <3>2. Decrypted(api, secret) = u.api
      BY <3>1 DEF Decrypted
    <3> QED
      BY <2>3, <3>1, <3>2, <1>1 DEF First
  <2> QED
    BY <2>1, <2>2, <2>3
<1> HIDE DEF api
<1>4. r \in Row /\ r.api = api
  BY <1>1, <1>2, <1>3 DEF Row, Update, First, Providers
<1> QED
  BY <1>3, <1>4

LEMMA SaveConfigStep == ASSUME ConfigInv, NEW e \in Edits, SaveConfig(e) PROVE ConfigInv'
<1>1. /\ row' = Upserted(row, secret, edits[e].update) /\ UNCHANGED <<secret, analyses, shared>>
      /\ edits' = [f \in Edits |->
            IF f = e THEN Closed("saved")
            ELSE IF edits[f].pc \in {"read", "probed"} THEN [edits[f] EXCEPT !.stale = TRUE] ELSE edits[f]]
  BY DEF SaveConfig
<1>2. edits[e].update \in Update
  BY ConfigFacts DEF EditRecord
<1>3. /\ row' \in Row
      /\ row'.api # NoKey /\ Decrypted(row'.api, secret) = Unset => row'.api.under \in Custom \ {secret}
  BY <1>1, <1>2, StoredKeyReadable
<1>4. ASSUME NEW f \in Edits
      PROVE  edits'[f] \in EditRecord /\ (edits'[f].pc \in {"read", "probed"} => edits'[f].stale)
  <2>1. CASE f = e
    <3>1. edits'[f] = Closed("saved")
      BY <2>1, <1>1
    <3> QED
      BY <3>1, ClosedIsARecord
  <2>2. CASE f # e /\ edits[f].pc \in {"read", "probed"}
    <3>1. edits'[f] = [edits[f] EXCEPT !.stale = TRUE] /\ edits[f] \in EditRecord
      BY <2>2, <1>1, ConfigFacts
    <3> QED
      BY <3>1 DEF EditRecord
  <2>3. CASE f # e /\ edits[f].pc \notin {"read", "probed"}
    <3>1. edits'[f] = edits[f] /\ edits[f] \in EditRecord
      BY <2>3, <1>1, ConfigFacts
    <3> QED
      BY <3>1, <2>3
  <2> QED
    BY <2>1, <2>2, <2>3
<1>5. ConfigTypeOK'
  <2>1. edits' \in [Edits -> EditRecord]
    BY <1>1, <1>4
  <2> QED
    BY <2>1, <1>1, <1>3, ConfigFacts DEF ConfigTypeOK, EditRecord, AnalysisRecord
<1>6. ASSUME NEW f \in Edits PROVE TriedBooks(f)'
  BY <1>4 DEF TriedBooks
<1>7. FirstSecretMigrates'
  BY <1>1, <1>3 DEF FirstSecretMigrates, Decrypted
<1>8. ASSUME NEW a \in Analyses PROVE PromptBooks(a)'
  BY <1>1, ConfigFacts DEF PromptBooks
<1> QED
  BY <1>5, <1>6, <1>7, <1>8 DEF ConfigInv

LEMMA ConfigureJobStep ==
  ASSUME ConfigInv, NEW a \in Analyses, NEW o \in Override, ConfigureJob(a, o)
  PROVE  ConfigInv'
<1> DEFINE c   == Built(row, secret, o)
           job == [pc |-> "configured", quick |-> c.quick, deep |-> c.deep, asked |-> o.lang, got |-> Unset,
                   passed |-> FALSE]
<1>1. analyses' = [analyses EXCEPT ![a] = job] /\ UNCHANGED <<secret, row, edits, shared>>
  BY DEF ConfigureJob
<1>2. /\ c.quick \in AnyModel /\ c.deep \in AnyModel /\ (c.quick = Unset <=> c.deep = Unset)
      /\ c.quick = Unset => Default.quick = Unset /\ Default.deep = Unset
  <2>1. [provider |-> Unset, deep |-> Unset, api |-> Unset] \in Update
    BY DEF Update
  <2> QED
    BY <2>1, MergeIsAConfig, ConfigFacts
<1> HIDE DEF c
<1>3. /\ job \in AnalysisRecord /\ job.quick = c.quick /\ job.deep = c.deep /\ job.pc = "configured"
  BY <1>2 DEF AnalysisRecord, Started, Override
<1> HIDE DEF job
<1>4. ConfigTypeOK'
  <2>1. analyses' \in [Analyses -> AnalysisRecord]
    BY <1>1, <1>3, ConfigFacts
  <2> QED
    BY <2>1, <1>1, ConfigFacts DEF ConfigTypeOK, EditRecord, AnalysisRecord
<1>5. ASSUME NEW b \in Analyses PROVE PromptBooks(b)'
  <2>1. CASE b = a
    <3>1. analyses'[b] = job
      BY <2>1, <1>1, ConfigFacts
    <3> QED
      BY <3>1, <1>2, <1>3 DEF PromptBooks, JobBooks, HasGraph
  <2>2. CASE b # a
    <3>1. analyses'[b] = analyses[b]
      BY <2>2, <1>1, ConfigFacts
    <3> QED
      BY <3>1, <1>1, ConfigFacts DEF PromptBooks, JobBooks
  <2> QED
    BY <2>1, <2>2
<1>6. FirstSecretMigrates'
  BY <1>1 DEF ConfigInv, FirstSecretMigrates, Decrypted
<1>7. ASSUME NEW f \in Edits PROVE TriedBooks(f)'
  BY <1>1, ConfigFacts DEF TriedBooks, PendingConfig, Built, Decrypted
<1> QED
  BY <1>4, <1>5, <1>6, <1>7 DEF ConfigInv

\* Whoever sets the shared copy passes all the others.
LEMMA OverwriteStep ==
  ASSUME ConfigInv, NEW lang \in Speech, NEW mine, Overwrite(lang, mine), UNCHANGED <<secret, row, edits>>,
         \A b \in DOMAIN mine : mine[b] \in AnalysisRecord /\ JobBooks(mine[b], lang)
  PROVE  ConfigInv'
<1>1. shared' = lang /\ UNCHANGED <<secret, row, edits>>
  BY DEF Overwrite
<1>2. ASSUME NEW b \in Analyses PROVE analyses'[b] \in AnalysisRecord /\ JobBooks(analyses'[b], lang)
  <2>1. CASE b \in DOMAIN mine
    <3>1. analyses'[b] = mine[b]
      BY <2>1 DEF Overwrite
    <3> QED
      BY <3>1, <2>1
  <2>2. CASE b \notin DOMAIN mine
    <3> DEFINE passed == analyses[b].passed \/ analyses[b].pc \in HasGraph
               next == [analyses[b] EXCEPT !.passed = passed]
    <3>1. passed \in BOOLEAN /\ (analyses[b].pc \in HasGraph => passed) /\ (~ passed => ~ analyses[b].passed)
      OBVIOUS
    <3>2. analyses'[b] = next
      BY <2>2 DEF Overwrite
    <3>3. analyses[b] \in AnalysisRecord /\ JobBooks(analyses[b], shared)
      BY ConfigFacts DEF PromptBooks
    <3> HIDE DEF passed
    <3>4. /\ next \in AnalysisRecord /\ next.pc = analyses[b].pc /\ next.quick = analyses[b].quick
          /\ next.deep = analyses[b].deep /\ next.passed = passed /\ next.asked = analyses[b].asked
          /\ next.got = analyses[b].got
      BY <3>1, <3>3 DEF AnalysisRecord
    <3> HIDE DEF next
    <3> QED
      BY <3>1, <3>2, <3>3, <3>4 DEF JobBooks
  <2> QED
    BY <2>1, <2>2
<1>3. ConfigTypeOK'
  <2>1. analyses' \in [Analyses -> AnalysisRecord]
    <3>1. \E f : analyses' = [b \in Analyses |-> f[b]]
      <4>1. analyses' = [b \in Analyses |-> analyses'[b]]
        BY DEF Overwrite
      <4> QED
        BY <4>1
    <3> QED
      BY <3>1, <1>2
  <2> QED
    BY <2>1, <1>1, ConfigFacts DEF ConfigTypeOK, EditRecord, AnalysisRecord
<1>4. FirstSecretMigrates'
  BY <1>1 DEF ConfigInv, FirstSecretMigrates, Decrypted
<1>5. ASSUME NEW f \in Edits PROVE TriedBooks(f)'
  BY <1>1, ConfigFacts DEF TriedBooks, PendingConfig, Built, Decrypted
<1>6. ASSUME NEW b \in Analyses PROVE PromptBooks(b)'
  BY <1>1, <1>2 DEF PromptBooks
<1> QED
  BY <1>3, <1>4, <1>5, <1>6 DEF ConfigInv

LEMMA BuildGraphStep == ASSUME ConfigInv, NEW a \in Analyses, BuildGraph(a) PROVE ConfigInv'
<1> DEFINE lang == First(analyses[a].asked, Default.lang)
<1>1. /\ analyses[a].pc \in {"configured", "first"} /\ UNCHANGED <<secret, row, edits>>
      /\ analyses[a] \in AnalysisRecord /\ JobBooks(analyses[a], shared)
  BY ConfigFacts DEF BuildGraph, PromptBooks
<1>2. PICK next \in {"failed", "first", "built"} :
        Overwrite(lang, [b \in {a} |-> IF next = "failed" THEN NoAnalysis(next)
                                       ELSE [analyses[b] EXCEPT !.pc = next, !.passed = FALSE]])
  BY DEF BuildGraph
<1> DEFINE job == IF next = "failed" THEN NoAnalysis(next)
                  ELSE [analyses[a] EXCEPT !.pc = next, !.passed = FALSE]
           mine == [b \in {a} |-> job]
<1>3. Overwrite(lang, mine)
  <2>1. mine = [b \in {a} |-> IF next = "failed" THEN NoAnalysis(next)
                              ELSE [analyses[b] EXCEPT !.pc = next, !.passed = FALSE]]
    OBVIOUS
  <2> QED
    BY <2>1, <1>2
<1>4. lang \in Speech
  BY <1>1 DEF AnalysisRecord, First, Speech
<1>5. job \in AnalysisRecord /\ JobBooks(job, lang)
  <2>1. CASE next = "failed"
    BY <2>1, ClosedIsARecord
  <2>2. CASE next # "failed"
    <3>1. job = [analyses[a] EXCEPT !.pc = next, !.passed = FALSE]
      BY <2>2
    <3> HIDE DEF job
    <3>2. /\ job.pc = next /\ job.quick = analyses[a].quick /\ job.deep = analyses[a].deep
          /\ job.asked = analyses[a].asked
      BY <3>1, <1>1 DEF AnalysisRecord
    <3>3. job \in AnalysisRecord
      BY <3>1, <2>2, <1>1, <1>2 DEF AnalysisRecord, Started
    <3> QED
      BY <3>2, <3>3, <2>2, <1>1, <1>2 DEF JobBooks, Started, HasGraph
  <2> QED
    BY <2>1, <2>2
<1> HIDE DEF job, lang
<1>6. \A b \in DOMAIN mine : mine[b] \in AnalysisRecord /\ JobBooks(mine[b], lang)
  BY <1>5
<1> QED
  BY <1>1, <1>3, <1>4, <1>6, OverwriteStep

LEMMA SetElsewhereStep == ASSUME ConfigInv, NEW lang \in Speech, SetElsewhere(lang) PROVE ConfigInv'
<1> DEFINE mine == [b \in {} |-> NoAnalysis("lost")]
<1>1. Overwrite(lang, mine) /\ UNCHANGED <<secret, row, edits>>
  BY DEF SetElsewhere
<1>2. \A b \in DOMAIN mine : mine[b] \in AnalysisRecord /\ JobBooks(mine[b], lang)
  OBVIOUS
<1> QED
  BY <1>1, <1>2, OverwriteStep

LEMMA ReadPromptStep == ASSUME ConfigInv, NEW a \in Analyses, ReadPrompt(a) PROVE ConfigInv'
<1> DEFINE next == [[analyses[a] EXCEPT !.pc = "prompted"] EXCEPT !.got = shared]
<1>1. /\ analyses[a].pc \in HasGraph /\ UNCHANGED <<secret, row, edits, shared>>
      /\ analyses[a] \in AnalysisRecord /\ PromptBooks(a) /\ analyses \in [Analyses -> AnalysisRecord]
      /\ shared \in Speech
  BY ConfigFacts DEF ReadPrompt
<1>2. analyses' = [analyses EXCEPT ![a] = next]
  BY <1>1 DEF ReadPrompt
<1>3. /\ next \in AnalysisRecord /\ next.pc = "prompted" /\ next.quick = analyses[a].quick
      /\ next.deep = analyses[a].deep /\ next.passed = analyses[a].passed
      /\ next.asked = analyses[a].asked /\ next.got = shared
  BY <1>1 DEF AnalysisRecord, Started
<1> HIDE DEF next
<1>4. ConfigTypeOK'
  <2>1. analyses' \in [Analyses -> AnalysisRecord]
    BY <1>1, <1>2, <1>3
  <2> QED
    BY <2>1, <1>1, ConfigFacts DEF ConfigTypeOK, EditRecord, AnalysisRecord
<1>5. ASSUME NEW b \in Analyses PROVE PromptBooks(b)'
  <2>1. CASE b = a
    <3>1. analyses'[b] = next
      BY <2>1, <1>1, <1>2
    <3> QED
      BY <3>1, <2>1, <1>1, <1>3 DEF PromptBooks, JobBooks, Started, HasGraph
  <2>2. CASE b # a
    <3>1. analyses'[b] = analyses[b]
      BY <2>2, <1>1, <1>2
    <3> QED
      BY <3>1, <1>1, ConfigFacts DEF PromptBooks
  <2> QED
    BY <2>1, <2>2
<1>6. FirstSecretMigrates'
  BY <1>1 DEF ConfigInv, FirstSecretMigrates, Decrypted
<1>7. ASSUME NEW f \in Edits PROVE TriedBooks(f)'
  BY <1>1, ConfigFacts DEF TriedBooks, PendingConfig, Built, Decrypted
<1> QED
  BY <1>4, <1>5, <1>6, <1>7 DEF ConfigInv

\* The migration leaves a key that only another custom secret decrypts.
LEMMA MigrationFindsKeys ==
  ASSUME NEW r \in Row, NEW s \in Secrets
  PROVE  LET m == Migrated(r, s)
         IN  m \in Row /\ (m.api # NoKey /\ Decrypted(m.api, s) = Unset => m.api.under \in Custom \ {s})
<1> DEFINE m == Migrated(r, s)
<1>1. r.api \in {NoKey} \cup [under : Secrets, key : ApiKeys]
  BY DEF Row
<1>2. CASE r.api = NoKey
  <2>1. m = r
    BY <1>2 DEF Migrated
  <2> QED
    BY <2>1, <1>2
<1>3. CASE r.api # NoKey
  <2>1. r.api \in [under : Secrets, key : ApiKeys] /\ r.api.key # Unset
    BY <1>1, <1>3, ConfigAssumption
  <2>2. CASE s \in Custom /\ Decrypted(r.api, s) = Unset /\ Decrypted(r.api, "default_secret") # Unset
    <3> DEFINE api == [r.api EXCEPT !.under = s]
    <3>1. m = [r EXCEPT !.api = api]
      BY <1>3, <2>2 DEF Migrated
    <3>2. api \in [under : Secrets, key : ApiKeys] /\ api.under = s /\ api.key = r.api.key
      BY <2>1
    <3> HIDE DEF api
    <3>3. m.api = api /\ m \in Row
      BY <3>1, <3>2 DEF Row
    <3>4. Decrypted(api, s) # Unset
      BY <3>2, <2>1 DEF Decrypted
    <3> QED
      BY <3>3, <3>4
  <2>3. CASE ~ (s \in Custom /\ Decrypted(r.api, s) = Unset /\ Decrypted(r.api, "default_secret") # Unset)
    <3>1. m = r
      BY <2>3 DEF Migrated
    <3>2. Decrypted(r.api, s) = Unset => r.api.under \in Custom \ {s}
      <4>1. CASE s \in Custom
        BY <4>1, <2>1, <2>3 DEF Decrypted, Secrets
      <4>2. CASE s = "default_secret"
        BY <4>2, <2>1, ConfigAssumption DEF Decrypted, Secrets
      <4> QED
        BY <4>1, <4>2 DEF Secrets
    <3> QED
      BY <3>1, <3>2
  <2> QED
    BY <2>2, <2>3
<1> QED
  BY <1>2, <1>3

LEMMA RestartWithStep == ASSUME ConfigInv, NEW s \in Secrets, RestartWith(s) PROVE ConfigInv'
<1>1. /\ secret' = s /\ row' = Migrated(row, s) /\ shared' = Default.lang
      /\ edits' = [e \in Edits |-> IF edits[e].pc \in {"read", "probed"} THEN Closed("lost") ELSE edits[e]]
      /\ analyses' = [a \in Analyses |-> IF analyses[a].pc \in Started \ {"prompted"}
                                           THEN NoAnalysis("lost") ELSE analyses[a]]
  BY DEF RestartWith
<1>2. row' \in Row /\ (row'.api # NoKey /\ Decrypted(row'.api, s) = Unset => row'.api.under \in Custom \ {s})
  BY <1>1, MigrationFindsKeys, ConfigFacts
<1>3. ASSUME NEW e \in Edits PROVE edits'[e] \in EditRecord /\ edits'[e].pc \notin {"read", "probed"}
  <2>1. CASE edits[e].pc \in {"read", "probed"}
    <3>1. edits'[e] = Closed("lost")
      BY <2>1, <1>1
    <3> QED
      BY <3>1, ClosedIsARecord
  <2>2. CASE edits[e].pc \notin {"read", "probed"}
    <3>1. edits'[e] = edits[e]
      BY <2>2, <1>1
    <3> QED
      BY <3>1, <2>2, ConfigFacts
  <2> QED
    BY <2>1, <2>2
<1>4. ASSUME NEW a \in Analyses PROVE analyses'[a] \in AnalysisRecord /\ PromptBooks(a)'
  <2>1. CASE analyses[a].pc \in Started \ {"prompted"}
    <3>1. analyses'[a] = NoAnalysis("lost")
      BY <2>1, <1>1
    <3> QED
      BY <3>1, ClosedIsARecord DEF PromptBooks
  <2>2. CASE analyses[a].pc \notin Started \ {"prompted"}
    <3>1. analyses'[a] = analyses[a]
      BY <2>2, <1>1
    <3> QED
      BY <3>1, <2>2, ConfigFacts DEF PromptBooks, JobBooks, Started, HasGraph
  <2> QED
    BY <2>1, <2>2
<1>5. ConfigTypeOK'
  <2>1. edits' \in [Edits -> EditRecord] /\ analyses' \in [Analyses -> AnalysisRecord]
    BY <1>1, <1>3, <1>4
  <2> QED
    BY <2>1, <1>1, <1>2 DEF ConfigTypeOK, EditRecord, AnalysisRecord, Speech
<1>6. FirstSecretMigrates'
  BY <1>1, <1>2 DEF FirstSecretMigrates, Decrypted
<1>7. ASSUME NEW e \in Edits PROVE TriedBooks(e)'
  BY <1>3 DEF TriedBooks
<1> QED
  BY <1>4, <1>5, <1>6, <1>7 DEF ConfigInv

SavedAsTriedStep ==
  \A e \in Edits :
       edits[e].pc = "probed" /\ edits'[e].pc = "saved" /\ ~edits[e].stale
         => LET c == Built(row', secret, NoOverride)
            IN  /\ c.provider = edits[e].tried.provider
                /\ c.api = IF edits[e].update.api = "clear" THEN Default.api ELSE edits[e].tried.api

\* Only its own save makes an edit saved.
LEMMA SavedIsTried == ASSUME ConfigInv, [ConfigNext]_configVars PROVE SavedAsTriedStep
<1> SUFFICES ASSUME NEW e \in Edits, edits[e].pc = "probed", edits'[e].pc = "saved", ~ edits[e].stale
    PROVE  LET c == Built(row', secret, NoOverride)
           IN  /\ c.provider = edits[e].tried.provider
               /\ c.api = IF edits[e].update.api = "clear" THEN Default.api ELSE edits[e].tried.api
  BY DEF SavedAsTriedStep
<1>1. SaveConfig(e)
  <2>1. ASSUME NEW f \in Edits, NEW u \in Update, ReadConfig(f, u) PROVE edits'[e].pc # "saved"
    BY <2>1, ConfigFacts DEF ReadConfig
  <2>2. ASSUME NEW f \in Edits, Probe(f) PROVE edits'[e].pc # "saved"
    BY <2>2, ConfigFacts DEF Probe
  <2>3. ASSUME NEW f \in Edits, SaveConfig(f), f # e PROVE edits'[e].pc # "saved"
    <3>1. edits'[e] = [edits[e] EXCEPT !.stale = TRUE] /\ edits[e] \in EditRecord
      BY <2>3, ConfigFacts DEF SaveConfig
    <3> QED
      BY <3>1 DEF EditRecord
  <2>4. ASSUME NEW s \in Secrets, RestartWith(s) PROVE edits'[e].pc # "saved"
    <3>1. edits'[e] = Closed("lost")
      BY <2>4 DEF RestartWith
    <3> QED
      BY <3>1, ClosedIsARecord
  <2> QED
    BY <2>1, <2>2, <2>3, <2>4
    DEF ConfigNext, configVars, ConfigureJob, BuildGraph, SetElsewhere, ReadPrompt
<1>2. /\ edits[e].update \in Update /\ edits[e].tried = PendingConfig(row, secret, edits[e].update)
      /\ row' = Upserted(row, secret, edits[e].update)
  BY <1>1, ConfigFacts DEF EditRecord, TriedBooks, SaveConfig
<1>3. Decrypted(row'.api, secret) = IF edits[e].update.api = "clear" THEN Unset
                                    ELSE First(edits[e].update.api, Decrypted(row.api, secret))
  BY <1>2, StoredKeyReadable
<1>4. row'.provider = First(edits[e].update.provider, row.provider)
  BY <1>2 DEF Upserted
<1>5. /\ edits[e].tried.provider = First(edits[e].update.provider, First(row.provider, Default.provider))
      /\ edits[e].tried.api = IF edits[e].update.api = "clear" THEN Unset
                              ELSE First(edits[e].update.api, First(Decrypted(row.api, secret), Default.api))
  BY <1>2 DEF PendingConfig, Built
<1> DEFINE c == Built(row', secret, NoOverride)
<1>6. /\ c.provider = First(row'.provider, Default.provider)
      /\ c.api = First(Decrypted(row'.api, secret), Default.api)
  BY DEF Built
<1>7. First(row'.provider, Default.provider) =
        First(edits[e].update.provider, First(row.provider, Default.provider))
  BY <1>4 DEF First
<1> HIDE DEF c
<1>8. c.api = IF edits[e].update.api = "clear" THEN Default.api ELSE edits[e].tried.api
  BY <1>3, <1>5, <1>6 DEF First
<1> QED
  BY <1>5, <1>6, <1>7, <1>8 DEF c

LEMMA ConfigStep == ASSUME ConfigInv, [ConfigNext]_configVars PROVE ConfigInv'
<1>1. CASE ConfigNext
  <2>1. ASSUME NEW e \in Edits, (\E u \in Update : ReadConfig(e, u)) \/ Probe(e) \/ SaveConfig(e)
        PROVE  ConfigInv'
    BY <2>1, ReadProbeStep, SaveConfigStep
  <2>2. ASSUME NEW a \in Analyses, (\E o \in Override : ConfigureJob(a, o)) \/ BuildGraph(a) \/ ReadPrompt(a)
        PROVE  ConfigInv'
    BY <2>2, ConfigureJobStep, BuildGraphStep, ReadPromptStep
  <2>3. ASSUME NEW lang \in Speech, SetElsewhere(lang) PROVE ConfigInv'
    BY <2>3, SetElsewhereStep
  <2>4. ASSUME NEW s \in Secrets, RestartWith(s) PROVE ConfigInv'
    BY <2>4, RestartWithStep
  <2> QED
    BY <1>1, <2>1, <2>2, <2>3, <2>4 DEF ConfigNext
<1>2. CASE UNCHANGED configVars
  <2>1. UNCHANGED <<secret, row, edits, analyses, shared>>
    BY <1>2 DEF configVars
  <2>2. ConfigTypeOK' /\ FirstSecretMigrates'
    BY <2>1 DEF ConfigInv, ConfigTypeOK, FirstSecretMigrates, Decrypted
  <2>3. \A e \in Edits : TriedBooks(e)'
    BY <2>1 DEF ConfigInv, TriedBooks, PendingConfig, Built, Decrypted
  <2>4. \A a \in Analyses : PromptBooks(a)'
    BY <2>1 DEF ConfigInv, PromptBooks
  <2> QED
    BY <2>2, <2>3, <2>4 DEF ConfigInv
<1> QED
  BY <1>1, <1>2

\* What each job runs with follows from what the user saved and from the
\* process-wide copy as it stands when a prompt is read (main.py:950-985,
\* dataflows/config.py:15-27, trading_graph.py:57-111).
THEOREM ConfigCorrect == ConfigSpec => ConfigHolds
<1>1. ConfigInit => ConfigInv
  BY ConfigInitCorrect
<1>2. ConfigInv /\ [ConfigNext]_configVars => ConfigInv'
  BY ConfigStep
<1>3. ConfigInv => ConfigTypeOK /\ FirstSecretMigrates /\ ModelsComplete /\ ForeignPromptsNeedOverlap
  BY DEF ConfigInv, PromptBooks, JobBooks, ModelsComplete, ForeignPromptsNeedOverlap
<1>4. ConfigInv /\ [ConfigNext]_configVars => SavedAsTriedStep
  BY SavedIsTried
<1>5. ASSUME SavedAsTriedStep
      PROVE  \A e \in Edits :
               edits[e].pc = "probed" /\ edits'[e].pc = "saved" /\ ~edits[e].stale
                 => LET c == Built(row', secret, NoOverride)
                    IN  /\ c.provider = edits[e].tried.provider
                        /\ c.api = IF edits[e].update.api = "clear" THEN Default.api ELSE edits[e].tried.api
  BY <1>5 DEF SavedAsTriedStep
<1>6. ConfigSpec => []ConfigInv
  BY <1>1, <1>2, PTL DEF ConfigSpec
<1>7. ConfigSpec => SavedAsTried
  BY <1>4, <1>5, <1>6, PTL DEF ConfigSpec, SavedAsTried
<1> QED
  BY <1>3, <1>6, <1>7, PTL DEF ConfigHolds

-----------------------------------------------------------------------------
(* Report rows.  Whoever deletes a row leaves its id in erased, and only    *)
(* the save of its run brings a row back, completed and with the request of *)
(* the run.  It is failed later only by those who have given the run up:    *)
(* the timeout, the exception, or a reader who has yet to finalize the row. *)
(* A bound of the creation times and the dates makes the newest and the     *)
(* latest row exist.                                                        *)

ReportRow == [status : {"absent", "pending", "running", "completed", "failed"}, symbol : Tickers \cup {"none"},
              date : Nat, created : Nat]

ReportWriter == [pc : {"none", "init", "run", "save", "saved", "raised", "ended"}, saw : BOOLEAN,
                 symbol : Tickers \cup {"none"}, date : Nat, givenUp : SUBSET {"error", "timeout", "reader"}]

RowsTypeOK ==
  /\ reportRows \in [Reports -> ReportRow]
  /\ writers \in [Reports -> ReportWriter]
  /\ readers \in SUBSET Reports
  /\ batch \in [pc : {"idle", "commit", "done"}, asked : SUBSET Reports, found : SUBSET Reports,
                deleted : SUBSET Reports, missing : SUBSET Reports]

RowsBounded(bound) == \A r \in Reports : reportRows[r].created <= bound /\ reportRows[r].date <= bound

\* What a row and its run have to do with each other, with a reader about to
\* finalize the row or not, and after a deletion or not.
WriterBooks(entry, writer, read, gone) ==
  /\ writer.pc = "none" => entry.status = "absent" /\ ~ gone
  /\ entry.status # "absent" => entry.symbol = writer.symbol /\ entry.date = writer.date
  /\ gone => \/ entry.status = "absent"
             \/ /\ writer.pc \in {"saved", "raised", "ended"} /\ entry.status \in Ended
                /\ entry.status = "failed" => writer.givenUp # {}
  /\ writer.pc = "raised" \/ read => writer.givenUp # {}

RowBooks(r) == WriterBooks(reportRows[r], writers[r], r \in readers, r \in erased)

BatchBooks ==
  /\ batch.pc = "commit" =>
       /\ batch.found \subseteq batch.asked
       /\ \A r \in batch.found : reportRows[r].status # "absent" \/ r \in erased
  /\ BatchIsHonest

RowsInv ==
  /\ RowsTypeOK /\ (\E bound \in Nat : RowsBounded(bound))
  /\ \A r \in Reports : RowBooks(r)
  /\ BatchBooks

LEMMA RowsInitCorrect == ASSUME RowsInit PROVE RowsInv
<1>1. NoRow \in ReportRow /\ NoRow.status = "absent" /\ NoRow.created = 0 /\ NoRow.date = 0
  BY DEF NoRow, ReportRow
<1>2. RowsTypeOK
  <2>1. [pc |-> "none", saw |-> FALSE, symbol |-> "none", date |-> 0, givenUp |-> {}] \in ReportWriter
    BY DEF ReportWriter
  <2> QED
    BY <1>1, <2>1 DEF RowsInit, RowsTypeOK
<1>3. RowsBounded(0)
  BY <1>1 DEF RowsInit, RowsBounded
<1>4. ASSUME NEW r \in Reports PROVE RowBooks(r)
  BY <1>1 DEF RowsInit, RowBooks, WriterBooks
<1>5. BatchBooks
  BY DEF RowsInit, BatchBooks, BatchIsHonest
<1> QED
  BY <1>2, <1>3, <1>4, <1>5 DEF RowsInv

LEMMA NewRowIsNewest ==
  ASSUME RowsInv, NEW r \in Reports, NEW status \in {"pending", "completed"},
         NEW symbol \in Tickers \cup {"none"}, NEW date \in Nat
  PROVE  /\ NewRow(r, status, symbol, date) \in ReportRow
         /\ NewRow(r, status, symbol, date).status = status
         /\ NewRow(r, status, symbol, date).symbol = symbol /\ NewRow(r, status, symbol, date).date = date
<1> DEFINE times == {reportRows[o].created : o \in Rows}
<1>1. PICK bound \in Nat : RowsBounded(bound)
  BY DEF RowsInv
<1>2. {0} \cup times \in SUBSET (0 .. bound) /\ {0} \cup times # {}
  BY <1>1 DEF RowsBounded, Rows, RowsInv, RowsTypeOK, ReportRow
<1>3. Max({0} \cup times) \in {0} \cup times
  BY <1>2, MaxIsGreatest
<1>4. 1 + Max({0} \cup times) \in Nat
  BY <1>2, <1>3
<1> QED
  BY <1>4 DEF NewRow, ReportRow

\* One row and its run change: the row to one that is there, or to none when
\* it was deleted.
LEMMA OneRowChanges ==
  ASSUME RowsInv, NEW r \in Reports, NEW entry \in ReportRow, NEW writer \in ReportWriter,
         reportRows' = [reportRows EXCEPT ![r] = entry], writers' = [writers EXCEPT ![r] = writer], batch' = batch,
         readers' \in SUBSET Reports, \A o \in Reports : o # r => (o \in readers' <=> o \in readers),
         erased \subseteq erased', erased' \subseteq erased \cup {r},
         reportRows[r].status # "absent" /\ entry.status = "absent" => r \in erased',
         WriterBooks(entry, writer, r \in readers', r \in erased')
  PROVE  RowsInv'
<1>1. PICK bound \in Nat : RowsBounded(bound)
  BY DEF RowsInv
<1>2. /\ reportRows \in [Reports -> ReportRow] /\ writers \in [Reports -> ReportWriter]
      /\ entry.created \in Nat /\ entry.date \in Nat
  BY DEF RowsInv, RowsTypeOK, ReportRow
<1>3. /\ reportRows'[r] = entry /\ \A o \in Reports : o # r => reportRows'[o] = reportRows[o]
      /\ writers'[r] = writer /\ \A o \in Reports : o # r => writers'[o] = writers[o]
  BY <1>2
<1>4. RowsTypeOK'
  BY <1>2 DEF RowsInv, RowsTypeOK
<1>5. \E top \in Nat : RowsBounded(top)'
  <2>1. ASSUME NEW o \in Reports
        PROVE  /\ reportRows'[o].created <= bound + entry.created + entry.date
               /\ reportRows'[o].date <= bound + entry.created + entry.date
    <3>1. CASE o = r
      BY <3>1, <1>1, <1>2, <1>3
    <3>2. CASE o # r
      <4>1. /\ reportRows[o].created <= bound /\ reportRows[o].date <= bound
            /\ reportRows[o].created \in Nat /\ reportRows[o].date \in Nat
        BY <1>1, <1>2 DEF RowsBounded, ReportRow
      <4> QED
        BY <4>1, <3>2, <1>1, <1>2, <1>3
    <3> QED
      BY <3>1, <3>2
  <2>2. bound + entry.created + entry.date \in Nat
    BY <1>1, <1>2
  <2> QED
    BY <2>1, <2>2 DEF RowsBounded
<1>6. ASSUME NEW o \in Reports PROVE RowBooks(o)'
  <2>1. CASE o = r
    BY <2>1, <1>3 DEF RowBooks
  <2>2. CASE o # r
    <3>1. /\ reportRows'[o] = reportRows[o] /\ writers'[o] = writers[o]
          /\ o \in readers' <=> o \in readers
          /\ o \in erased' <=> o \in erased
      BY <2>2, <1>3
    <3>2. WriterBooks(reportRows[o], writers[o], o \in readers, o \in erased)
      BY DEF RowsInv, RowBooks
    <3> QED
      BY <3>1, <3>2 DEF RowBooks, WriterBooks
  <2> QED
    BY <2>1, <2>2
<1>7. BatchBooks'
  <2>1. BatchBooks
    BY DEF RowsInv
  <2>2. ASSUME NEW o \in Reports, reportRows[o].status # "absent" \/ o \in erased
        PROVE  reportRows'[o].status # "absent" \/ o \in erased'
    BY <2>2, <1>3
  <2>3. batch.found \subseteq Reports
    BY DEF RowsInv, RowsTypeOK
  <2> QED
    BY <2>1, <2>2, <2>3 DEF BatchBooks, BatchIsHonest
<1> QED
  BY <1>4, <1>5, <1>6, <1>7 DEF RowsInv

LEMMA RowFacts ==
  ASSUME RowsInv, NEW r \in Reports
  PROVE  /\ RowsTypeOK
         /\ reportRows \in [Reports -> ReportRow] /\ reportRows[r] \in ReportRow
         /\ writers \in [Reports -> ReportWriter] /\ writers[r] \in ReportWriter
         /\ reportRows = [reportRows EXCEPT ![r] = reportRows[r]] /\ writers = [writers EXCEPT ![r] = writers[r]]
         /\ readers \in SUBSET Reports
         /\ WriterBooks(reportRows[r], writers[r], r \in readers, r \in erased)
  BY DEF RowsInv, RowsTypeOK, RowBooks

\* SetStatus leaves a missing row missing.
LEMMA StatusIsSet ==
  ASSUME RowsInv, NEW r \in Reports, NEW status \in {"running", "failed"}, SetStatus(r, status)
  PROVE  \E entry \in ReportRow :
           /\ reportRows' = [reportRows EXCEPT ![r] = entry]
           /\ \/ entry = reportRows[r]
              \/ /\ reportRows[r].status # "absent" /\ entry.status = status
                 /\ entry.symbol = reportRows[r].symbol /\ entry.date = reportRows[r].date
<1>1. CASE UNCHANGED reportRows
  BY <1>1, RowFacts
<1>2. CASE r \in Rows /\ reportRows' = [reportRows EXCEPT ![r].status = status]
  <2> DEFINE entry == [reportRows[r] EXCEPT !.status = status]
  <2>1. entry \in ReportRow /\ entry.status = status /\ entry.symbol = reportRows[r].symbol
        /\ entry.date = reportRows[r].date
    BY RowFacts DEF ReportRow
  <2>2. reportRows' = [reportRows EXCEPT ![r] = entry] /\ reportRows[r].status # "absent"
    BY <1>2, RowFacts DEF Rows
  <2> HIDE DEF entry
  <2> QED
    BY <2>1, <2>2
<1> QED
  BY <1>1, <1>2 DEF SetStatus

\* The run moves on.
LEMMA RunMovesOn ==
  ASSUME RowsInv, NEW r \in Reports, NEW from, NEW to \in {"run", "saved", "ended"}, MovesOn(r, from, to)
  PROVE  \E writer \in ReportWriter :
           /\ writers' = [writers EXCEPT ![r] = writer]
           /\ writers[r].pc = from /\ writer.pc = to
           /\ writer.symbol = writers[r].symbol /\ writer.date = writers[r].date /\ writer.givenUp = writers[r].givenUp
<1> DEFINE writer == [writers[r] EXCEPT !.pc = to]
<1>1. /\ writer \in ReportWriter /\ writer.pc = to
      /\ writer.symbol = writers[r].symbol /\ writer.date = writers[r].date /\ writer.givenUp = writers[r].givenUp
  BY RowFacts DEF ReportWriter
<1>2. writers' = [writers EXCEPT ![r] = writer] /\ writers[r].pc = from
  BY RowFacts DEF MovesOn
<1> HIDE DEF writer
<1> QED
  BY <1>1, <1>2

\* Somebody gives the run up.
LEMMA RunIsGivenUp ==
  ASSUME RowsInv, NEW r \in Reports, NEW who \in {"error", "timeout", "reader"}, NEW pc \in {writers[r].pc, "raised"}
  PROVE  LET writer == [writers[r] EXCEPT !.pc = pc, !.givenUp = @ \cup {who}]
         IN  /\ writer \in ReportWriter /\ writer.pc = pc /\ writer.givenUp # {}
             /\ writer.symbol = writers[r].symbol /\ writer.date = writers[r].date
  BY RowFacts DEF ReportWriter

LEMMA InitReportStep ==
  ASSUME RowsInv, NEW r \in Reports, NEW symbol \in Tickers, NEW date \in Dates, InitReport(r, symbol, date)
  PROVE  RowsInv'
<1>1. /\ writers[r].pc = "none" /\ UNCHANGED <<readers, batch, erased>> /\ date \in Nat
      /\ reportRows[r].status = "absent" /\ r \notin erased
  BY RowFacts, RowsAssumption DEF InitReport, WriterBooks
<1>2. PICK inserted \in BOOLEAN :
        /\ reportRows' = IF inserted THEN [reportRows EXCEPT ![r] = NewRow(r, "pending", symbol, date)] ELSE reportRows
        /\ writers' = [writers EXCEPT ![r] = [@ EXCEPT !.pc = IF inserted THEN "init" ELSE "run",
                                                       !.symbol = symbol, !.date = date]]
  BY DEF InitReport
<1> DEFINE entry  == IF inserted THEN NewRow(r, "pending", symbol, date) ELSE reportRows[r]
           writer == [writers[r] EXCEPT !.pc = IF inserted THEN "init" ELSE "run", !.symbol = symbol, !.date = date]
<1>3. reportRows' = [reportRows EXCEPT ![r] = entry] /\ writers' = [writers EXCEPT ![r] = writer]
  BY <1>2, RowFacts
<1>4. /\ writer \in ReportWriter /\ writer.pc \in {"init", "run"} /\ writer.symbol = symbol /\ writer.date = date
      /\ writer.givenUp = writers[r].givenUp
  BY <1>1, RowFacts DEF ReportWriter
<1>5. /\ entry \in ReportRow
      /\ entry.status = "absent" \/ (entry.symbol = symbol /\ entry.date = date)
  BY <1>1, NewRowIsNewest, RowFacts
<1> HIDE DEF entry, writer
<1>6. WriterBooks(entry, writer, r \in readers', r \in erased')
  <2>1. r \notin erased' /\ writer.pc # "none" /\ writer.pc # "raised"
    BY <1>1, <1>4
  <2>2. r \in readers' => writer.givenUp # {}
    BY <1>1, <1>4, RowFacts DEF WriterBooks
  <2> QED
    BY <2>1, <2>2, <1>4, <1>5 DEF WriterBooks
<1> QED
  BY <1>1, <1>3, <1>4, <1>5, <1>6, RowFacts, OneRowChanges

LEMMA UpdatePartialStep == ASSUME RowsInv, NEW r \in Reports, UpdatePartial(r) PROVE RowsInv'
<1>1. PICK entry \in ReportRow :
        /\ reportRows' = [reportRows EXCEPT ![r] = entry]
        /\ \/ entry = reportRows[r]
           \/ /\ reportRows[r].status # "absent" /\ entry.status = "running"
              /\ entry.symbol = reportRows[r].symbol /\ entry.date = reportRows[r].date
  BY StatusIsSet DEF UpdatePartial
<1>2. PICK writer \in ReportWriter :
        /\ writers' = [writers EXCEPT ![r] = writer]
        /\ writers[r].pc = "init" /\ writer.pc = "run"
        /\ writer.symbol = writers[r].symbol /\ writer.date = writers[r].date /\ writer.givenUp = writers[r].givenUp
  BY RunMovesOn DEF UpdatePartial
<1>3. UNCHANGED <<readers, batch, erased>>
  BY DEF UpdatePartial
<1>4. WriterBooks(entry, writer, r \in readers', r \in erased')
  BY <1>1, <1>2, <1>3, RowFacts DEF WriterBooks
<1> QED
  BY <1>1, <1>2, <1>3, <1>4, RowFacts, OneRowChanges

LEMMA FailReportStep == ASSUME RowsInv, NEW r \in Reports, FailReport(r) PROVE RowsInv'
<1>1. PICK entry \in ReportRow :
        /\ reportRows' = [reportRows EXCEPT ![r] = entry]
        /\ \/ entry = reportRows[r]
           \/ /\ reportRows[r].status # "absent" /\ entry.status = "failed"
              /\ entry.symbol = reportRows[r].symbol /\ entry.date = reportRows[r].date
  BY StatusIsSet DEF FailReport
<1>2. PICK writer \in ReportWriter :
        /\ writers' = [writers EXCEPT ![r] = writer]
        /\ writers[r].pc = "raised" /\ writer.pc = "ended"
        /\ writer.symbol = writers[r].symbol /\ writer.date = writers[r].date /\ writer.givenUp = writers[r].givenUp
  BY RunMovesOn DEF FailReport
<1>3. UNCHANGED <<readers, batch, erased>>
  BY DEF FailReport
<1>4. WriterBooks(entry, writer, r \in readers', r \in erased')
  BY <1>1, <1>2, <1>3, RowFacts DEF WriterBooks, Ended
<1> QED
  BY <1>1, <1>2, <1>3, <1>4, RowFacts, OneRowChanges

LEMMA LookForRowStep == ASSUME RowsInv, NEW r \in Reports, LookForRow(r) PROVE RowsInv'
<1> DEFINE saw    == r \in Rows
           writer == [[writers[r] EXCEPT !.pc = "save"] EXCEPT !.saw = saw]
<1>1. saw \in BOOLEAN
  OBVIOUS
<1> HIDE DEF saw
<1>2. /\ writers[r].pc = "run" /\ UNCHANGED <<reportRows, readers, batch, erased>>
      /\ writers' = [writers EXCEPT ![r] = writer]
  BY RowFacts DEF LookForRow, saw
<1>3. /\ writer \in ReportWriter /\ writer.pc = "save" /\ writer.symbol = writers[r].symbol
      /\ writer.date = writers[r].date /\ writer.givenUp = writers[r].givenUp
  BY <1>1, RowFacts DEF ReportWriter
<1> HIDE DEF writer
<1>4. WriterBooks(reportRows[r], writer, r \in readers', r \in erased')
  BY <1>2, <1>3, RowFacts DEF WriterBooks
<1> QED
  BY <1>2, <1>3, <1>4, RowFacts, OneRowChanges

LEMMA CommitReportStep == ASSUME RowsInv, NEW r \in Reports, CommitReport(r) PROVE RowsInv'
<1>1. UNCHANGED <<readers, batch, erased>>
  BY DEF CommitReport
<1>2. PICK writer \in ReportWriter :
        /\ writers' = [writers EXCEPT ![r] = writer]
        /\ writers[r].pc = "save" /\ writer.pc = "saved"
        /\ writer.symbol = writers[r].symbol /\ writer.date = writers[r].date /\ writer.givenUp = writers[r].givenUp
  BY RunMovesOn DEF CommitReport
<1>3. CASE UNCHANGED reportRows
  <2>1. WriterBooks(reportRows[r], writer, r \in readers', r \in erased')
    BY <1>1, <1>2, RowFacts DEF WriterBooks
  <2> QED
    BY <1>1, <1>2, <1>3, <2>1, RowFacts, OneRowChanges
<1>4. CASE /\ writers[r].saw <=> r \in Rows
           /\ reportRows' = [reportRows EXCEPT ![r] = IF writers[r].saw THEN [@ EXCEPT !.status = "completed"]
                                           ELSE NewRow(r, "completed", writers[r].symbol, writers[r].date)]
  <2> DEFINE entry == IF writers[r].saw THEN [reportRows[r] EXCEPT !.status = "completed"]
                      ELSE NewRow(r, "completed", writers[r].symbol, writers[r].date)
  <2>1. reportRows' = [reportRows EXCEPT ![r] = entry]
    BY <1>4, RowFacts
  <2>2. /\ entry \in ReportRow /\ entry.status = "completed"
        /\ entry.symbol = writers[r].symbol /\ entry.date = writers[r].date
    <3>1. CASE writers[r].saw
      <4>1. reportRows[r].symbol = writers[r].symbol /\ reportRows[r].date = writers[r].date
        BY <1>4, <3>1, RowFacts DEF WriterBooks, Rows
      <4> QED
        BY <3>1, <4>1, RowFacts DEF ReportRow
    <3>2. CASE ~ writers[r].saw
      <4>1. writers[r].symbol \in Tickers \cup {"none"} /\ writers[r].date \in Nat
        BY RowFacts DEF ReportWriter
      <4> QED
        BY <3>2, <4>1, NewRowIsNewest
    <3> QED
      BY <3>1, <3>2
  <2> HIDE DEF entry
  <2>3. WriterBooks(entry, writer, r \in readers', r \in erased')
    BY <1>1, <1>2, <2>2, RowFacts DEF WriterBooks, Ended
  <2> QED
    BY <1>1, <1>2, <2>1, <2>2, <2>3, RowFacts, OneRowChanges
<1> QED
  BY <1>3, <1>4 DEF CommitReport

LEMMA EndRunStep == ASSUME RowsInv, NEW r \in Reports, EndRun(r) PROVE RowsInv'
<1>1. UNCHANGED <<reportRows, readers, batch, erased>>
  BY DEF EndRun
<1>2. PICK writer \in ReportWriter :
        /\ writers' = [writers EXCEPT ![r] = writer]
        /\ writers[r].pc \in {"run", "saved"} /\ writer.pc = "ended"
        /\ writer.symbol = writers[r].symbol /\ writer.date = writers[r].date /\ writer.givenUp = writers[r].givenUp
  BY RunMovesOn DEF EndRun
<1>3. WriterBooks(reportRows[r], writer, r \in readers', r \in erased')
  BY <1>1, <1>2, RowFacts DEF WriterBooks
<1> QED
  BY <1>1, <1>2, <1>3, RowFacts, OneRowChanges

LEMMA RaiseRunStep == ASSUME RowsInv, NEW r \in Reports, RaiseRun(r) PROVE RowsInv'
<1> DEFINE writer == [writers[r] EXCEPT !.pc = "raised", !.givenUp = @ \cup {"error"}]
<1>1. /\ writers[r].pc \in {"run", "saved"} /\ UNCHANGED <<reportRows, readers, batch, erased>>
      /\ writers' = [writers EXCEPT ![r] = writer]
  BY RowFacts DEF RaiseRun
<1>2. /\ writer \in ReportWriter /\ writer.pc = "raised" /\ writer.givenUp # {}
      /\ writer.symbol = writers[r].symbol /\ writer.date = writers[r].date
  BY RunIsGivenUp
<1> HIDE DEF writer
<1>3. WriterBooks(reportRows[r], writer, r \in readers', r \in erased')
  BY <1>1, <1>2, RowFacts DEF WriterBooks
<1> QED
  BY <1>1, <1>2, <1>3, RowFacts, OneRowChanges

LEMMA TimeOutRunStep == ASSUME RowsInv, NEW r \in Reports, TimeOutRun(r) PROVE RowsInv'
<1> DEFINE writer == [writers[r] EXCEPT !.pc = writers[r].pc, !.givenUp = @ \cup {"timeout"}]
<1>1. /\ UNCHANGED <<readers, batch, erased>>
      /\ writers' = [writers EXCEPT ![r] = writer]
  BY RowFacts DEF TimeOutRun, ReportWriter
<1>2. /\ writer \in ReportWriter /\ writer.pc = writers[r].pc /\ writer.givenUp # {}
      /\ writer.symbol = writers[r].symbol /\ writer.date = writers[r].date
  BY RunIsGivenUp
<1>3. PICK entry \in ReportRow :
        /\ reportRows' = [reportRows EXCEPT ![r] = entry]
        /\ \/ entry = reportRows[r]
           \/ /\ reportRows[r].status # "absent" /\ entry.status = "failed"
              /\ entry.symbol = reportRows[r].symbol /\ entry.date = reportRows[r].date
  BY StatusIsSet DEF TimeOutRun
<1> HIDE DEF writer
<1>4. WriterBooks(entry, writer, r \in readers', r \in erased')
  BY <1>1, <1>2, <1>3, RowFacts DEF WriterBooks, Ended
<1> QED
  BY <1>1, <1>2, <1>3, <1>4, RowFacts, OneRowChanges

LEMMA ReadActiveStep == ASSUME RowsInv, NEW r \in Reports, ReadActive(r) PROVE RowsInv'
<1> DEFINE writer == [writers[r] EXCEPT !.pc = writers[r].pc, !.givenUp = @ \cup {"reader"}]
<1>1. /\ readers' = readers \cup {r} /\ UNCHANGED <<reportRows, batch, erased>>
      /\ reportRows[r].status # "absent" /\ writers' = [writers EXCEPT ![r] = writer]
  BY RowFacts DEF ReadActive, Rows, ReportWriter
<1>2. /\ writer \in ReportWriter /\ writer.pc = writers[r].pc /\ writer.givenUp # {}
      /\ writer.symbol = writers[r].symbol /\ writer.date = writers[r].date
  BY RunIsGivenUp
<1> HIDE DEF writer
<1>3. WriterBooks(reportRows[r], writer, r \in readers', r \in erased')
  BY <1>1, <1>2, RowFacts DEF WriterBooks
<1>4. readers' \in SUBSET Reports /\ \A o \in Reports : o # r => (o \in readers' <=> o \in readers)
  BY <1>1, RowFacts
<1> QED
  BY <1>1, <1>2, <1>3, <1>4, RowFacts, OneRowChanges

LEMMA FinalizeReadStep == ASSUME RowsInv, NEW r \in Reports, FinalizeRead(r) PROVE RowsInv'
<1>1. r \in readers /\ readers' = readers \ {r} /\ UNCHANGED <<writers, batch, erased>>
  BY DEF FinalizeRead
<1>2. PICK entry \in ReportRow :
        /\ reportRows' = [reportRows EXCEPT ![r] = entry]
        /\ \/ entry = reportRows[r]
           \/ /\ reportRows[r].status # "absent" /\ entry.status = "failed"
              /\ entry.symbol = reportRows[r].symbol /\ entry.date = reportRows[r].date
  BY StatusIsSet DEF FinalizeRead
<1>3. WriterBooks(entry, writers[r], r \in readers', r \in erased')
  BY <1>1, <1>2, RowFacts DEF WriterBooks, Ended
<1>4. readers' \in SUBSET Reports /\ \A o \in Reports : o # r => (o \in readers' <=> o \in readers)
  BY <1>1, RowFacts
<1> QED
  BY <1>1, <1>2, <1>3, <1>4, RowFacts, OneRowChanges

LEMMA NoRowIsARow == NoRow \in ReportRow /\ NoRow.status = "absent" /\ NoRow.created = 0 /\ NoRow.date = 0
  BY DEF NoRow, ReportRow

LEMMA DeleteReportStep == ASSUME RowsInv, NEW r \in Reports, DeleteReport(r) PROVE RowsInv'
<1>1. /\ reportRows[r].status # "absent" /\ reportRows' = [reportRows EXCEPT ![r] = NoRow]
      /\ erased' = erased \cup {r} /\ UNCHANGED <<writers, readers, batch>>
  BY DEF DeleteReport, Rows
<1>2. writers[r].pc # "none"
  BY <1>1, RowFacts DEF WriterBooks
<1>3. WriterBooks(NoRow, writers[r], r \in readers', r \in erased')
  BY <1>1, <1>2, RowFacts, NoRowIsARow DEF WriterBooks
<1> QED
  BY <1>1, <1>2, <1>3, RowFacts, NoRowIsARow, OneRowChanges

LEMMA BatchReadsStep == ASSUME RowsInv, NEW asked \in SUBSET Reports, BatchReads(asked) PROVE RowsInv'
<1> DEFINE found == asked \cap Rows
<1>1. /\ batch' = [pc |-> "commit", asked |-> asked, found |-> found, deleted |-> {}, missing |-> {}]
      /\ UNCHANGED <<reportRows, writers, readers, erased>> /\ RowsTypeOK
  BY DEF BatchReads, RowsInv
<1>2. found \subseteq asked /\ \A r \in found : r \in Reports /\ reportRows[r].status # "absent"
  BY DEF Rows
<1> HIDE DEF found
<1>3. RowsTypeOK'
  BY <1>1, <1>2 DEF RowsTypeOK
<1>4. BatchBooks'
  BY <1>1, <1>2 DEF BatchBooks, BatchIsHonest
<1>5. ASSUME NEW r \in Reports PROVE RowBooks(r)'
  <2>1. RowBooks(r)
    BY DEF RowsInv
  <2> QED
    BY <2>1, <1>1 DEF RowBooks, WriterBooks
<1> QED
  BY <1>1, <1>3, <1>4, <1>5 DEF RowsInv, RowsBounded

LEMMA BatchCommitsStep == ASSUME RowsInv, BatchCommits PROVE RowsInv'
<1> DEFINE found == batch.found
<1>1. /\ batch.pc = "commit" /\ UNCHANGED <<writers, readers>> /\ RowsTypeOK /\ BatchBooks
      /\ reportRows' = [r \in Reports |-> IF r \in found THEN NoRow ELSE reportRows[r]]
      /\ erased' = erased \cup (found \cap Rows)
      /\ batch' = [batch EXCEPT !.pc = "done", !.deleted = found, !.missing = batch.asked \ found]
  BY DEF BatchCommits, RowsInv
<1>2. found \in SUBSET Reports /\ batch.asked \in SUBSET Reports
  BY <1>1 DEF RowsTypeOK
<1>3. /\ batch'.pc = "done" /\ batch'.deleted = found /\ batch'.missing = batch.asked \ found
      /\ batch'.asked = batch.asked
  BY <1>1 DEF RowsTypeOK
<1>4. found \subseteq batch.asked /\ \A r \in found : r \in Rows \/ r \in erased
  BY <1>1, <1>2 DEF BatchBooks, Rows
<1> HIDE DEF found
<1>5. RowsTypeOK'
  <2>1. reportRows' \in [Reports -> ReportRow]
    <3>1. ASSUME NEW r \in Reports PROVE (IF r \in found THEN NoRow ELSE reportRows[r]) \in ReportRow
      BY NoRowIsARow, RowFacts
    <3> QED
      BY <3>1, <1>1
  <2>2. batch' \in [pc : {"idle", "commit", "done"}, asked : SUBSET Reports, found : SUBSET Reports,
                    deleted : SUBSET Reports, missing : SUBSET Reports]
    BY <1>1, <1>2 DEF RowsTypeOK
  <2> QED
    BY <2>1, <2>2, <1>1 DEF RowsTypeOK
<1>6. PICK bound \in Nat : RowsBounded(bound)
  BY DEF RowsInv
<1>7. RowsBounded(bound)'
  <2>1. ASSUME NEW r \in Reports PROVE reportRows'[r].created <= bound /\ reportRows'[r].date <= bound
    <3>1. CASE r \in found
      BY <3>1, <1>1, <1>6, NoRowIsARow
    <3>2. CASE r \notin found
      BY <3>2, <1>1, <1>6 DEF RowsBounded
    <3> QED
      BY <3>1, <3>2
  <2> QED
    BY <2>1 DEF RowsBounded
<1>8. ASSUME NEW r \in Reports PROVE RowBooks(r)'
  <2>1. WriterBooks(reportRows[r], writers[r], r \in readers, r \in erased)
    BY RowFacts
  <2>2. CASE r \in found
    <3>1. writers[r].pc # "none" /\ UNCHANGED <<writers, readers>> /\ reportRows'[r].status = "absent"
      BY <2>1, <2>2, <1>1, <1>4, NoRowIsARow DEF WriterBooks, Rows
    <3> QED
      BY <2>1, <3>1 DEF RowBooks, WriterBooks
  <2>3. CASE r \notin found
    <3>1. /\ reportRows'[r] = reportRows[r] /\ UNCHANGED <<writers, readers>>
          /\ r \in erased' <=> r \in erased
      BY <2>3, <1>1
    <3> QED
      BY <2>1, <3>1 DEF RowBooks, WriterBooks
  <2> QED
    BY <2>2, <2>3
<1>9. BatchBooks'
  BY <1>1, <1>3, <1>4 DEF BatchBooks, BatchIsHonest
<1> QED
  BY <1>5, <1>6, <1>7, <1>8, <1>9 DEF RowsInv

LEMMA RowsStep == ASSUME RowsInv, [RowsNext]_rowVars PROVE RowsInv'
<1>1. CASE RowsNext
  <2>1. ASSUME NEW r \in Reports, NEW symbol \in Tickers, NEW date \in Dates, InitReport(r, symbol, date)
        PROVE  RowsInv'
    BY <2>1, InitReportStep
  <2>2. ASSUME NEW r \in Reports,
               \/ UpdatePartial(r) \/ LookForRow(r) \/ CommitReport(r) \/ EndRun(r)
               \/ RaiseRun(r) \/ FailReport(r) \/ TimeOutRun(r)
        PROVE  RowsInv'
    BY <2>2, UpdatePartialStep, LookForRowStep, CommitReportStep, EndRunStep, RaiseRunStep, FailReportStep,
       TimeOutRunStep
  <2>3. ASSUME NEW r \in Reports, ReadActive(r) \/ FinalizeRead(r) \/ DeleteReport(r) PROVE RowsInv'
    BY <2>3, ReadActiveStep, FinalizeReadStep, DeleteReportStep
  <2>4. ASSUME NEW asked \in SUBSET Reports, BatchReads(asked) PROVE RowsInv'
    BY <2>4, BatchReadsStep
  <2> QED
    BY <1>1, <2>1, <2>2, <2>3, <2>4, BatchCommitsStep DEF RowsNext
<1>2. CASE UNCHANGED rowVars
  <2>1. UNCHANGED <<reportRows, writers, readers, batch, erased>>
    BY <1>2 DEF rowVars
  <2>2. ASSUME NEW r \in Reports PROVE RowBooks(r)'
    <3>1. RowBooks(r)
      BY DEF RowsInv
    <3> QED
      BY <2>1, <3>1 DEF RowBooks, WriterBooks
  <2> QED
    BY <2>1, <2>2 DEF RowsInv, RowsTypeOK, RowsBounded, BatchBooks, BatchIsHonest
<1> QED
  BY <1>1, <1>2

\* Of a set of rows there is a latest one by date and by creation, and it is found.
LEMMA LatestIsFound ==
  ASSUME RowsInv, NEW found \in SUBSET Reports, found # {}
  PROVE  Latest(found) \in found /\ \A o \in found : reportRows[o].created <= reportRows[Latest(found)].created
<1> DEFINE time == [r \in found |-> reportRows[r].created]
<1>1. PICK bound \in Nat : RowsBounded(bound)
  BY DEF RowsInv
<1>2. ASSUME NEW r \in found PROVE time[r] \in 0 .. bound
  <2>1. reportRows[r].created \in Nat /\ reportRows[r].created <= bound
    BY <1>1, RowFacts DEF ReportRow, RowsBounded
  <2> QED
    BY <2>1, <1>1
<1>3. PICK r \in found : \A o \in found : time[o] <= time[r]
  <2> HIDE DEF time
  <2> QED
    BY <1>1, <1>2, Highest
<1>4. \A o \in found : reportRows[o].created <= reportRows[r].created
  BY <1>3
<1> QED
  BY <1>4 DEF Latest

LEMMA LatestDateIsFound ==
  ASSUME RowsInv, NEW found \in SUBSET Reports, found # {}
  PROVE  /\ OfLatestDate(found) \in found
         /\ \A o \in found : reportRows[o].date <= reportRows[OfLatestDate(found)].date
         /\ \A o \in found : reportRows[o].date = reportRows[OfLatestDate(found)].date =>
              reportRows[o].created <= reportRows[OfLatestDate(found)].created
<1> DEFINE date == [r \in found |-> reportRows[r].date]
           last == {r \in found : \A other \in found : reportRows[other].date <= reportRows[r].date}
<1>1. PICK bound \in Nat : RowsBounded(bound)
  BY DEF RowsInv
<1>2. ASSUME NEW r \in found PROVE date[r] \in 0 .. bound
  <2>1. reportRows[r].date \in Nat /\ reportRows[r].date <= bound
    BY <1>1, RowFacts DEF ReportRow, RowsBounded
  <2> QED
    BY <2>1, <1>1
<1>3. PICK r \in found : \A o \in found : date[o] <= date[r]
  <2> HIDE DEF date
  <2> QED
    BY <1>1, <1>2, Highest
<1>4. last \in SUBSET Reports /\ last # {}
  <2>1. r \in last
    BY <1>3
  <2> QED
    BY <2>1
<1>5. /\ OfLatestDate(found) \in last
      /\ \A o \in last : reportRows[o].created <= reportRows[OfLatestDate(found)].created
  BY <1>4, LatestIsFound DEF OfLatestDate
<1>6. ASSUME NEW o \in found, reportRows[o].date = reportRows[OfLatestDate(found)].date PROVE o \in last
  BY <1>5, <1>6
<1> QED
  BY <1>5, <1>6

LEMMA ClosestIsShown == ASSUME RowsInv PROVE BoardShowsClosest
<1> SUFFICES ASSUME NEW symbol \in Tickers, NEW previous \in BoardDays, NEW r \in Selected(symbol, previous)
    PROVE  LET found == {o \in Rows : reportRows[o].symbol = symbol /\ reportRows[o].status = "completed"}
           IN  /\ r \in found
               /\ \A o \in found : reportRows[o].date <= previous =>
                    reportRows[r].date <= previous /\ reportRows[o].date <= reportRows[r].date
               /\ \A o \in found : reportRows[o].date = reportRows[r].date =>
                    reportRows[o].created <= reportRows[r].created
  BY DEF BoardShowsClosest
<1> DEFINE found  == {o \in Rows : reportRows[o].symbol = symbol /\ reportRows[o].status = "completed"}
           exact  == {o \in found : reportRows[o].date = previous}
           before == {o \in found : reportRows[o].date <= previous}
           from   == IF exact # {} THEN exact ELSE IF before # {} THEN before ELSE found
<1>1. found \in SUBSET Reports /\ found # {} /\ r = OfLatestDate(from)
  BY DEF Selected, Rows
<1>2. from \in SUBSET found /\ from # {} /\ from \in SUBSET Reports
  BY <1>1
<1>3. /\ r \in from /\ \A o \in from : reportRows[o].date <= reportRows[r].date
      /\ \A o \in from : reportRows[o].date = reportRows[r].date => reportRows[o].created <= reportRows[r].created
  <2> HIDE DEF from
  <2> QED
    BY <1>1, <1>2, LatestDateIsFound
<1>4. previous \in Int /\ \A o \in found : reportRows[o].date \in Nat
  <2>1. previous \in Int
    BY RowsAssumption DEF BoardDays
  <2> QED
    BY <2>1, <1>1, RowFacts DEF ReportRow
<1>5. ASSUME NEW o \in found, reportRows[o].date <= previous
      PROVE  reportRows[r].date <= previous /\ reportRows[o].date <= reportRows[r].date
  <2>1. o \in before
    BY <1>5
  <2>2. CASE exact # {}
    BY <2>2, <1>3, <1>4, <1>5
  <2>3. CASE exact = {}
    BY <2>1, <2>3, <1>3
  <2> QED
    BY <2>2, <2>3
<1>6. ASSUME NEW o \in found, reportRows[o].date = reportRows[r].date PROVE o \in from
  BY <1>3, <1>6
<1> QED
  BY <1>2, <1>3, <1>5, <1>6

\* The report rows keep their promises: only a run brings its own deleted row
\* back, a batch deletion reports honestly and the board shows the closest
\* report (report_service.py, tracking_board_service.py).
THEOREM ReportRowsCorrect == RowsSpec => []ReportRowsInv
<1>1. RowsInit => RowsInv
  BY RowsInitCorrect
<1>2. RowsInv /\ [RowsNext]_rowVars => RowsInv'
  BY RowsStep
<1>3. RowsInv => ReportRowsInv
  <2>1. ASSUME RowsInv, NEW r \in erased \cap Rows
        PROVE  /\ writers[r].pc \in {"saved", "raised", "ended"}
               /\ reportRows[r].symbol = writers[r].symbol /\ reportRows[r].date = writers[r].date
               /\ reportRows[r].status \in Ended
               /\ reportRows[r].status = "failed" => writers[r].givenUp # {}
    <3>1. r \in Reports /\ r \in erased /\ reportRows[r].status # "absent"
      BY <2>1 DEF Rows
    <3> QED
      BY <2>1, <3>1, RowFacts DEF WriterBooks
  <2>2. ASSUME RowsInv PROVE OnlyRunsReturn
    BY <2>1, <2>2 DEF OnlyRunsReturn
  <2> QED
    BY <2>2, ClosestIsShown DEF RowsInv, BatchBooks, ReportRowsInv
<1> QED
  BY <1>1, <1>2, <1>3, PTL DEF RowsSpec
=============================================================================
