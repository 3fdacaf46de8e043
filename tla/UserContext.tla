----------------------------- MODULE UserContext -----------------------------
(***************************************************************************)
(* The user's situation that an analysis is given (position, cost, limits, *)
(* wishes): put together from what the request says, what the model and    *)
(* the regular expressions find in the user's words, and the imported      *)
(* position (context_utils.py, intent_parser.py, api/main.py).  The model  *)
(* follows one key; a value is the set of the sources it comes from, so    *)
(* that {} is no value.  Every state is one input.                         *)
(***************************************************************************)
EXTENDS Integers

VARIABLES
  key,    \* what the key holds: "number", "text" or "list" (constraints)
  path,   \* how the analysis was started
  raw     \* source -> what it says of the key

contextVars == <<key, path, raw>>

Sources == {"explicit", "parsed", "words", "imported"}
Paths == {"analyze", "analyze without query", "chat by code", "chat by model", "scheduled"}

\* What a source can say: the request's numbers are typed, those of the model
\* are any JSON; the expressions find digits or nothing.
Forms(k, source) ==
  CASE k = "list"                          -> {"absent", "blank", "given"}
    [] k = "text"                          -> {"absent", "blank", "given"}
    [] k = "number" /\ source = "parsed"   -> {"absent", "blank", "bad", "zero", "given"}
    [] k = "number" /\ source # "parsed"   -> {"absent", "zero", "given"}

-----------------------------------------------------------------------------
(* One source. *)

\* normalize_user_context: blanks and text without digits are dropped, zero
\* is a number like any other.
Counts(form) == form \in {"zero", "given"}

Value(source) == IF Counts(raw[source]) THEN {source} ELSE {}

\* _merge_user_context_payload: the first over the second.
Over(a, b) == IF a # {} THEN a ELSE b

-----------------------------------------------------------------------------
(* The user's words. *)

\* parse_intent: of numbers the digits in the text win over the model's, lists
\* are joined, text is the model's.  If the model fails only the words are left.
Inferred(k) ==
  CASE k = "number" -> Over(Value("words"), Value("parsed"))
    [] k = "list"   -> Value("parsed") \cup Value("words")
    [] k = "text"   -> Over(Value("parsed"), Value("words"))

-----------------------------------------------------------------------------
(* The analysis. *)

\* _compose_analysis_user_context: what the route stores in the request.
Composed(inferred) == Over(Value("explicit"), Over(inferred, Value("imported")))

\* The routes: /v1/analyze parses no words itself, the chat takes the model's
\* reading only where no stock code was found in the text, and a scheduled
\* analysis knows the imported position only.
Stored ==
  CASE path = "chat by model" -> Composed(Value("parsed"))
    [] path = "scheduled"     -> Value("imported")
    [] OTHER                  -> Composed({})

\* Variant: the words found when the job runs replace what is stored.
AtRun_WordsFirst(stored, inferred) == Over(inferred, stored)

\* _run_job_inner: what is stored goes over the words that are found now.
AtRun(stored, inferred) == Over(stored, inferred)

\* Words are parsed in the run if the request came without an intent.
Final == IF path = "analyze" THEN AtRun(Stored, Inferred(key)) ELSE Stored

\* The sources that a path reads.
Heard ==
  CASE path = "analyze"       -> Sources
    [] path = "chat by model" -> {"explicit", "parsed", "imported"}
    [] path = "scheduled"     -> {"imported"}
    [] OTHER                  -> {"explicit", "imported"}

ContextInit ==
  /\ key \in {"number", "text", "list"} /\ path \in Paths
  /\ raw \in {r \in [Sources -> {"absent", "blank", "bad", "zero", "given"}] :
                \A s \in Sources : r[s] \in Forms(key, s)}

-----------------------------------------------------------------------------
(* What the request says is what the analysts are told, on every path that  *)
(* takes a request: it stays on top in the merges that follow, the last of  *)
(* which is made when the job runs (main.py:1036-1055, 1650-1655).          *)
ExplicitWins ==
  path # "scheduled" /\ raw["explicit"] \in {"zero", "given"} => Final = {"explicit"}

(* A position of zero is a statement: nothing that a source says and the    *)
(* path reads is lost in the four steps of dropping and merging, zero       *)
(* included, and an empty value never hides a full one                      *)
(* (context_utils.py:91-127, main.py:1022-1033).                            *)
NothingSaidIsLost ==
  (\E s \in Heard : raw[s] \in {"zero", "given"}) => Final # {}

(* The model cannot change a number that stands in the user's text          *)
(* (intent_parser.py:90-97).                                                *)
NumbersAreAsTyped ==
  key = "number" /\ path = "analyze" /\ raw["words"] \in {"zero", "given"} => "parsed" \notin Final

(* The imported position replaces what the user wrote only on the path      *)
(* /v1/analyze; in the chat the user's words go over it                     *)
(* (main.py:1036-1055, analyze.py:48-53).                                   *)
ImportsYieldToWords ==
  path = "chat by model" /\ raw["parsed"] \in {"zero", "given"} => "imported" \notin Final

(* The order of the sources, on every path and for every kind of value      *)
(* (api/main.py, analyze.py, context_utils.py).                             *)
UserContextInv == ExplicitWins /\ NothingSaidIsLost /\ NumbersAreAsTyped /\ ImportsYieldToWords
=============================================================================
