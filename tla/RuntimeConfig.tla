---------------------------- MODULE RuntimeConfig ----------------------------
(***************************************************************************)
(* The configuration an analysis runs with: defaults, the user's row and   *)
(* the request, merged field by field (api/main.py, _build_runtime_config);*)
(* the page that edits the row after trying a new API key upstream         *)
(* (api/routers/config.py); the secret with which the key is stored        *)
(* encrypted and that an operator may change between two starts            *)
(* (api/database.py); and the process-wide copy that every new graph, every*)
(* backtest and every chart overwrite and that the agents of all running   *)
(* jobs read (tradingagents/dataflows/config.py, graph/trading_graph.py:71,*)
(* api/services/backtest_service.py:133, api/routers/market.py:48).        *)
(* One user; his requests and jobs run concurrently.                       *)
(***************************************************************************)
EXTENDS Naturals

CONSTANTS
  Edits,      \* requests to PATCH /v1/config, each used once
  Analyses,   \* jobs, each used once
  Custom,     \* values of TA_APP_SECRET_KEY
  ApiKeys,    \* API keys a user may enter
  Models,     \* model names
  Vendors,    \* LLM providers beside the default one
  Languages,  \* prompt languages a request may ask for
  Default     \* DEFAULT_CONFIG, with what the environment of the server sets

Unset == "unset"

\* What is missing, removed or the built-in secret is not a value one can enter.
ASSUME ConfigAssumption == Unset \notin ApiKeys /\ "default_secret" \notin Custom

VARIABLES
  secret,   \* the secret of the running process
  row,      \* user_llm_configs: provider, the two models, the encrypted key
  edits,    \* the local state of each edit
  analyses, \* the local state of each job
  shared    \* prompt_language in dataflows/config.py

configVars == <<secret, row, edits, analyses, shared>>

Secrets   == Custom \cup {"default_secret"}
Providers == Vendors \cup {Default.provider}
AnyModel  == Models \cup {Unset, Default.quick, Default.deep}
Speech    == Languages \cup {Default.lang}
NoKey     == [under |-> Unset, key |-> Unset]

Row == [provider : Providers \cup {Unset}, quick : Models \cup {Unset},
        deep : Models \cup {Unset},
        api : {NoKey} \cup [under : Secrets, key : ApiKeys]]
Update == [provider : Vendors \cup {Unset}, deep : Models \cup {Unset},
           api : ApiKeys \cup {Unset, "clear"}]
Override == [quick : Models \cup {Unset}, lang : Languages \cup {Unset}]
Config == [provider : Providers, quick : AnyModel, deep : AnyModel,
           api : ApiKeys \cup {Unset, Default.api}]

\* A job that has its configuration, and one that has built a graph as well.
Started == {"configured", "first", "built", "prompted"}
HasGraph == {"first", "built"}

(* stale: history, another edit was saved since this one read the row.     *)
(* passed: history, the copy was set by others after this job set it.      *)
ConfigTypeOK ==
  /\ secret \in Secrets
  /\ row \in Row
  /\ edits \in [Edits -> [pc : {"idle", "read", "probed", "saved", "refused", "lost"},
                          update : Update, tried : Config, stale : BOOLEAN]]
  /\ analyses \in [Analyses -> [pc : Started \cup {"idle", "failed", "lost"}, quick : AnyModel, deep : AnyModel,
                                asked : Languages \cup {Unset}, got : Speech \cup {Unset}, passed : BOOLEAN]]
  /\ shared \in Speech

-----------------------------------------------------------------------------
(* Pure parts. *)

\* decrypt_secret: None under another secret than the one it was stored with.
Decrypted(api, s) == IF api.under = s THEN api.key ELSE Unset

First(value, other) == IF value = Unset THEN other ELSE value

\* _build_runtime_config: request over row over defaults, empty values
\* skipped; a missing model is filled with the other one.
Built(r, s, o) ==
  LET quick == First(o.quick, First(r.quick, Default.quick))
      deep  == First(r.deep, Default.deep)
  IN  [provider |-> First(r.provider, Default.provider),
       quick |-> First(quick, deep), deep |-> First(deep, quick),
       api |-> First(Decrypted(r.api, s), Default.api)]

NoOverride == [quick |-> Unset, lang |-> Unset]

\* _build_pending_runtime_config: the configuration an update would give.
PendingConfig(r, s, u) ==
  LET c    == Built(r, s, NoOverride)
      deep == First(u.deep, c.deep)
  IN  [provider |-> First(u.provider, c.provider),
       quick |-> First(c.quick, deep), deep |-> First(deep, c.quick),
       api |-> IF u.api = "clear" THEN Unset ELSE First(u.api, c.api)]

\* Variant: a row is rebuilt from the update alone.
Upserted_Fresh(r, s, u) ==
  [provider |-> u.provider, quick |-> r.quick, deep |-> u.deep,
   api |-> IF u.api \in {Unset, "clear"} THEN NoKey ELSE [under |-> s, key |-> u.api]]

\* upsert_user_llm_config: fields that are given replace those of the row.
Upserted(r, s, u) ==
  [provider |-> First(u.provider, r.provider), quick |-> r.quick,
   deep |-> First(u.deep, r.deep),
   api |-> IF u.api = "clear" THEN NoKey
           ELSE IF u.api = Unset THEN r.api ELSE [under |-> s, key |-> u.api]]

\* _migrate_api_keys_reencrypt at start: with a custom secret, what only the
\* default secret decrypts is encrypted again; the rest is left as it is.
Migrated(r, s) ==
  IF s \in Custom /\ r.api # NoKey /\ Decrypted(r.api, s) = Unset
     /\ Decrypted(r.api, "default_secret") # Unset
    THEN [r EXCEPT !.api.under = s] ELSE r

-----------------------------------------------------------------------------
\* An edit with nothing in its hands, and an analysis without a configuration.
Closed(pc) ==
  [pc |-> pc, update |-> [provider |-> Unset, deep |-> Unset, api |-> Unset],
   tried |-> [provider |-> Default.provider, quick |-> Unset, deep |-> Unset, api |-> Unset],
   stale |-> FALSE]

NoAnalysis(pc) ==
  [pc |-> pc, quick |-> Unset, deep |-> Unset, asked |-> Unset, got |-> Unset, passed |-> FALSE]

ConfigInit ==
  /\ secret = "default_secret"
  /\ row = [provider |-> Unset, quick |-> Unset, deep |-> Unset, api |-> NoKey]
  /\ edits = [e \in Edits |-> Closed("idle")]
  /\ analyses = [a \in Analyses |-> NoAnalysis("idle")]
  /\ shared = Default.lang

\* update_runtime_config reads the row and builds what it would become.
ReadConfig(e, u) ==
  /\ edits[e].pc = "idle"
  /\ edits' = [edits EXCEPT ![e] =
       [pc |-> "read", update |-> u, tried |-> PendingConfig(row, secret, u), stale |-> FALSE]]
  /\ UNCHANGED <<secret, row, analyses, shared>>

\* With a new API key, a model call tries the pending configuration; when it
\* fails, the request ends with 400 and nothing is stored.  Without a model
\* there is nothing to try.
Probe(e) ==
  /\ edits[e].pc = "read"
  /\ \E answer \in IF edits[e].update.api \in ApiKeys /\ edits[e].tried.quick # Unset
                     THEN {"probed", "refused"} ELSE {"probed"} :
       edits' = [edits EXCEPT ![e] = IF answer = "probed" THEN [@ EXCEPT !.pc = answer]
                                                          ELSE Closed(answer)]
  /\ UNCHANGED <<secret, row, analyses, shared>>

\* The row is read again and stored.
SaveConfig(e) ==
  /\ edits[e].pc = "probed"
  /\ row' = Upserted(row, secret, edits[e].update)
  /\ edits' = [f \in Edits |->
       IF f = e THEN Closed("saved")
       ELSE IF edits[f].pc \in {"read", "probed"} THEN [edits[f] EXCEPT !.stale = TRUE] ELSE edits[f]]
  /\ UNCHANGED <<secret, analyses, shared>>

\* A job merges its configuration.
ConfigureJob(a, o) ==
  /\ analyses[a].pc = "idle"
  /\ LET c == Built(row, secret, o)
     IN  analyses' = [analyses EXCEPT ![a] =
           [pc |-> "configured", quick |-> c.quick, deep |-> c.deep, asked |-> o.lang, got |-> Unset, passed |-> FALSE]]
  /\ UNCHANGED <<secret, row, edits, shared>>

\* Somebody sets the shared copy; who has set it before is passed.
Overwrite(lang, mine) ==
  /\ shared' = lang
  /\ analyses' = [b \in Analyses |->
       IF b \in DOMAIN mine THEN mine[b] ELSE [analyses[b] EXCEPT !.passed = @ \/ analyses[b].pc \in HasGraph]]

\* The constructor of the graph updates the shared copy with all of the job's
\* configuration, and then makes the clients, which may raise.  A job with a
\* query builds a second graph for its horizon.
BuildGraph(a) ==
  /\ analyses[a].pc \in {"configured", "first"}
  /\ \E next \in {"failed", IF analyses[a].pc = "configured" THEN "first" ELSE "built"} :
       Overwrite(First(analyses[a].asked, Default.lang),
                 [b \in {a} |-> IF next = "failed" THEN NoAnalysis(next)
                                ELSE [analyses[b] EXCEPT !.pc = next, !.passed = FALSE]])
  /\ UNCHANGED <<secret, row, edits>>

\* A backtest sets the copy for each of its days, to what its request asks
\* for; a chart sets it to the defaults.
SetElsewhere(lang) ==
  /\ Overwrite(lang, [b \in {} |-> NoAnalysis("lost")])
  /\ UNCHANGED <<secret, row, edits>>

\* The intent parser or an agent looks its prompt up in the language of the
\* shared copy; one prompt of each job is followed.
ReadPrompt(a) ==
  /\ analyses[a].pc \in HasGraph
  /\ analyses' = [analyses EXCEPT ![a].pc = "prompted", ![a].got = shared]
  /\ UNCHANGED <<secret, row, edits, shared>>

\* The process ends and starts again, perhaps with another secret.
RestartWith(s) ==
  /\ secret' = s
  /\ row' = Migrated(row, s)
  /\ edits' = [e \in Edits |->
       IF edits[e].pc \in {"read", "probed"} THEN Closed("lost") ELSE edits[e]]
  /\ analyses' = [a \in Analyses |-> IF analyses[a].pc \in Started \ {"prompted"}
                                       THEN NoAnalysis("lost") ELSE analyses[a]]
  /\ shared' = Default.lang

ConfigNext ==
  \/ \E e \in Edits : (\E u \in Update : ReadConfig(e, u)) \/ Probe(e) \/ SaveConfig(e)
  \/ \E a \in Analyses : (\E o \in Override : ConfigureJob(a, o)) \/ BuildGraph(a) \/ ReadPrompt(a)
  \/ \E lang \in Speech : SetElsewhere(lang)
  \/ \E s \in Secrets : RestartWith(s)

ConfigSpec == ConfigInit /\ [][ConfigNext]_configVars

-----------------------------------------------------------------------------
(* A stored API key stays readable through any sequence of restarts, except *)
(* when one custom secret is exchanged for another or dropped: a first      *)
(* custom secret takes over what the default secret encrypted               *)
(* (database.py:174-239).                                                   *)
FirstSecretMigrates ==
  row.api # NoKey /\ Decrypted(row.api, secret) = Unset => row.api.under \in Custom \ {secret}

(* What an edit stores is what it tried upstream: the saved row gives the   *)
(* provider and the key of the probe, unless another edit was saved while   *)
(* the probe was out (config.py:58-80); an edit that clears the key leaves  *)
(* the server's own, which is never tried (main.py:2885-2907).  The models  *)
(* may differ even so: the probe starts from models already filled up with  *)
(* the old ones (main.py:2879-2895).                                        *)
SavedAsTried ==
  [][\A e \in Edits :
       edits[e].pc = "probed" /\ edits'[e].pc = "saved" /\ ~edits[e].stale
         => LET c == Built(row', secret, NoOverride)
            IN  /\ c.provider = edits[e].tried.provider
                /\ c.api = IF edits[e].update.api = "clear" THEN Default.api ELSE edits[e].tried.api]_configVars

(* A job runs both kinds of agents or none: one model does for both, and    *)
(* what a row or a request leaves empty hides no default (main.py:965-985). *)
ModelsComplete ==
  \A a \in Analyses : analyses[a].pc \in Started =>
    /\ analyses[a].quick = Unset <=> analyses[a].deep = Unset
    /\ analyses[a].quick = Unset => Default.quick = Unset /\ Default.deep = Unset

(* The prompts of a job are in a language it did not ask for only when      *)
(* somebody else set the copy after the job built its last graph and before *)
(* the prompt was read: another job, even one whose clients cannot be made, *)
(* a backtest or a chart (trading_graph.py:71, dataflows/config.py:15-27).  *)
ForeignPromptsNeedOverlap ==
  \A a \in Analyses : analyses[a].pc = "prompted" /\ ~analyses[a].passed =>
    analyses[a].got = First(analyses[a].asked, Default.lang)

(* What the stored configuration promises over restarts, edits and jobs in  *)
(* any order (api/main.py, config.py, database.py, trading_graph.py).       *)
ConfigHolds == [](ConfigTypeOK /\ FirstSecretMigrates /\ ModelsComplete /\ ForeignPromptsNeedOverlap) /\ SavedAsTried
=============================================================================
