----------------------------- MODULE ConfigFile -----------------------------
(***************************************************************************)
(* The user's configuration (config.json), the `ocr config set` and        *)
(* `unset` edits of it (cmd/opencodereview/config_cmd.go), and the         *)
(* resolution of an endpoint from it and from the environment              *)
(* (internal/llm/resolver.go).  Nothing here changes state.                *)
(*                                                                         *)
(* A secret is None, Blank (white space only), or says what it was typed    *)
(* for.  The three protocols that carry a token are one.                   *)
(***************************************************************************)
EXTENDS Naturals

CONSTANTS
  Presets,  \* names of built-in providers
  Ambient,  \* the one that signs with the environment's credentials
  External, \* the one whose credentials are the saved ChatGPT account
  Keyed,    \* those with an environment variable for their key
  Registry, \* Registry[p]: the models suggested for preset p
  Customs,  \* names users give to providers of their own
  Dotted,   \* those of them that contain a dot
  Models, None, Blank

\* What stands for a value of another kind than a name or a model.
Words == {"custom", "manual", "cmd", "token", "bedrock", "bogus", "valid", "bad", "set", "broken",
          "command", "variable", "account", "ocr", "claude", "shell"}

ASSUME ConfigAssumption ==
  /\ Ambient \cup External \cup Keyed \subseteq Presets /\ Dotted \subseteq Customs
  /\ Presets \cap Customs = {} /\ {None, Blank} \cap (Presets \cup Customs \cup Models) = {} /\ None # Blank
  /\ (Presets \cup Customs \cup Models \cup {None, Blank}) \cap Words = {}
  /\ Registry \in [Presets -> SUBSET Models]

Names == Presets \cup Customs
Typed(n) == IF n \in Presets THEN n ELSE "custom"
Secrets == {None, Blank, "custom", "manual"} \cup Presets
Protocols == {"token", "bedrock"}
Given(secret) == secret \notin {None, Blank}

ProviderEntry == [key : Secrets, cmd : {None, Blank, "cmd"}, url : BOOLEAN, proto : Protocols \cup {None, "bogus"},
                  model : Models \cup {None}, models : SUBSET Models, aws : BOOLEAN, aux : {None, "valid", "bad"},
                  unknown : BOOLEAN]
NoEntry == [key |-> None, cmd |-> None, url |-> FALSE, proto |-> None, model |-> None, models |-> {},
            aws |-> FALSE, aux |-> None, unknown |-> FALSE]
LlmConfig == [url : BOOLEAN, token : Secrets, cmd : {None, Blank, "cmd"}, model : Models \cup {None},
              proto : Protocols \cup {None, "bogus"}]
NoLlm == [url |-> FALSE, token |-> None, cmd |-> None, model |-> None, proto |-> None]
IsSection(map, names) == DOMAIN map \subseteq names /\ map \in [DOMAIN map -> ProviderEntry]
IsConfig(cfg) ==
  /\ cfg = [provider |-> cfg.provider, model |-> cfg.model, presets |-> cfg.presets, customs |-> cfg.customs, llm |-> cfg.llm]
  /\ cfg.provider \in Names \cup {None} /\ cfg.model \in Models \cup {None} /\ cfg.llm \in LlmConfig
  /\ IsSection(cfg.presets, Presets) /\ IsSection(cfg.customs, Names)
NoProviders == [n \in {} |-> NoEntry]
EmptyConfig == [provider |-> None, model |-> None, presets |-> NoProviders, customs |-> NoProviders, llm |-> NoLlm]

At(map, n) == IF n \in DOMAIN map THEN map[n] ELSE NoEntry
Put(map, n, e) == [k \in DOMAIN map \cup {n} |-> IF k = n THEN e ELSE map[k]]
Without(map, n) == [k \in DOMAIN map \ {n} |-> map[k]]
Section(n) == IF n \in Presets THEN "presets" ELSE "customs"
EntryOf(cfg, n) == At(cfg[Section(n)], n)
Stored(cfg, n, e) == [cfg EXCEPT ![Section(n)] = Put(@, n, e)]
Activated(cfg, n, model) == [cfg EXCEPT !.provider = n, !.model = model]

---------------------------------------------------------------------------
(* `ocr config set`, `ocr config unset`: each edit is [ok, cfg]; a refused  *)
(* edit saves nothing.                                                      *)

Done(cfg) == [ok |-> TRUE, cfg |-> cfg]
Denied == [ok |-> FALSE, cfg |-> EmptyConfig]

SetProvider(cfg, n) ==
  LET named == Activated(cfg, n, IF cfg.provider = n THEN cfg.model ELSE None) IN
  Done(IF n \in DOMAIN cfg[Section(n)] THEN named ELSE Stored(named, n, NoEntry))

SetModel(cfg, model) ==
  Done(IF cfg.provider = None THEN [cfg EXCEPT !.model = model]
       ELSE Stored(cfg, cfg.provider, [EntryOf(cfg, cfg.provider) EXCEPT !.model = model]))

AcceptsAWS(n, e) == IF e.proto # None THEN e.proto = "bedrock" ELSE n \in Ambient

\* One field of one provider; a new protocol other than bedrock drops the AWS
\* settings nothing would read any more.
FieldAccepted(n, e, field, value) ==
  CASE field = "url" -> value \in BOOLEAN
    [] field = "proto" -> value \in Protocols
    [] field = "aws" -> value \in BOOLEAN /\ AcceptsAWS(n, e)
    [] field = "aux" -> value # "bad"
    [] OTHER -> TRUE
FieldSet(e, field, value) ==
  LET set == [e EXCEPT ![field] = value] IN
  IF field = "proto" /\ value # "bedrock" THEN [set EXCEPT !.aws = FALSE] ELSE set

SetPresetField(cfg, n, field, value) ==
  IF FieldAccepted(n, EntryOf(cfg, n), field, value)
  THEN Done(Stored(cfg, n, FieldSet(EntryOf(cfg, n), field, value))) ELSE Denied

\* A dotted name must have been created or selected before, so must any name
\* before one of its auxiliary fields.
SetCustomField(cfg, n, field, value) ==
  IF (n \in Dotted \/ field = "aux") /\ n \notin DOMAIN cfg.customs THEN Denied
  ELSE SetPresetField(cfg, n, field, value)

SetProviderField(cfg, section, n, field, value) ==
  CASE n \notin Presets -> SetCustomField(cfg, n, field, value)
    [] section = "providers" -> SetPresetField(cfg, n, field, value)
    [] OTHER -> Denied

SetLlm(cfg, field, value) ==
  IF field = "proto" /\ value # "token" THEN Denied ELSE Done([cfg EXCEPT !.llm[field] = value])

UnsetProvider(cfg) == Done(Activated(cfg, None, None))

DeleteCustomProvider(cfg, n) ==
  IF n \notin DOMAIN cfg.customs THEN Denied
  ELSE LET gone == [cfg EXCEPT !.customs = Without(@, n)] IN
       Done(IF cfg.provider = n THEN Activated(gone, None, None) ELSE gone)

---------------------------------------------------------------------------
(* Resolution.  env: whether the global overrides parse, what the key       *)
(* variables of the presets hold, which other sources are complete, what a  *)
(* credential command does, and whether a ChatGPT account is signed in.     *)
(* opts: the provider and the model named for this run.                     *)

Source == {"none", "no model", "complete", "bad"}
Environment == [overrides : BOOLEAN, keyVar : {None, Blank, "set"}, ocr : Source, claude : Source,
                shell : Source \ {"bad"}, command : BOOLEAN, account : BOOLEAN]
Options == [provider : Names \cup {None}, model : Models \cup {None}]

\* What a strategy ends with: an endpoint, a refusal, or nothing to offer.
\* ran: it ran the credential command.
Outcome == [end : {"endpoint", "refused", "nothing"}, why : STRING, ran : BOOLEAN, provider : Names \cup {None},
            model : Models \cup {None}, secret : Secrets \cup {"command", "variable", "account", "ocr", "claude", "shell"},
            ambient : BOOLEAN, url : BOOLEAN]
Nothing == [end |-> "nothing", why |-> "", ran |-> FALSE, provider |-> None, model |-> None, secret |-> None, ambient |-> FALSE,
            url |-> FALSE]
Refusal(why) == [Nothing EXCEPT !.end = "refused", !.why = why]
Endpoint(provider, model, secret) ==
  [Nothing EXCEPT !.end = "endpoint", !.provider = provider, !.model = model, !.secret = secret, !.url = TRUE]
FirstOf(a, b) == IF a # None THEN a ELSE b

\* The credential command runs here and nowhere else: last, when all else holds.
RunCommand(endpoint, env) ==
  IF env.command THEN [endpoint EXCEPT !.ran = TRUE] ELSE [Refusal("command") EXCEPT !.ran = TRUE]

ResolveChatGPT(cfg, e, opts, env) ==
  LET own == FirstOf(opts.model, FirstOf(e.model, cfg.model))
      model == IF own # None THEN own ELSE CHOOSE m \in Models : TRUE IN
  IF e.url \/ e.proto # None \/ e.key # None \/ e.cmd # None \/ e.aux = "bad" THEN Refusal("override")
  ELSE IF env.account THEN Endpoint(cfg.provider, model, "account") ELSE Refusal("account")

Credential(n, e, env) ==
  CASE Given(e.key) -> e.key
    [] ~Given(e.key) /\ Given(e.cmd) -> "command"
    [] ~Given(e.key) /\ ~Given(e.cmd) /\ n \in Keyed /\ Given(env.keyVar) -> "variable"
    [] OTHER -> None

InForce(n, e) == IF e.proto = None /\ n \in Presets THEN IF n \in Ambient THEN "bedrock" ELSE "token" ELSE e.proto

ProviderRefusal(n, e, opts, model, env) ==
  LET proto == InForce(n, e) listed == e.models \cup (IF n \in Presets THEN Registry[n] ELSE {}) IN
  CASE proto = None -> "protocol missing"
    [] proto = "bogus" -> "protocol unknown"
    [] n \notin Presets /\ proto = "token" /\ ~e.url -> "url missing"
    [] proto = "token" /\ Credential(n, e, env) = None -> "no credential"
    [] n \notin Presets /\ proto = "token" /\ opts.model # None /\ listed # {} /\ opts.model \notin listed -> "model unavailable"
    [] model = None -> "no model"
    [] e.aux = "bad" -> "bad setting"
    [] OTHER -> ""

TryProviderConfig(cfg, opts, env) ==
  LET n == cfg.provider e == EntryOf(cfg, n)
      model == FirstOf(opts.model, FirstOf(e.model, cfg.model))
      why == ProviderRefusal(n, e, opts, model, env)
      signs == InForce(n, e) = "bedrock"
      secret == Credential(n, e, env)
      endpoint == [Endpoint(n, model, secret) EXCEPT !.ambient = signs, !.url = e.url \/ n \in Presets \ Ambient] IN
  CASE n \notin DOMAIN cfg[Section(n)] -> Refusal("not configured")
    [] n \in DOMAIN cfg[Section(n)] /\ n \in External -> ResolveChatGPT(cfg, e, opts, env)
    [] n \in DOMAIN cfg[Section(n)] /\ n \notin External /\ why # "" -> Refusal(why)
    [] OTHER -> IF secret # "command" THEN endpoint
                ELSE IF signs THEN [endpoint EXCEPT !.secret = None] ELSE RunCommand(endpoint, env)

TryLegacyLlmConfig(cfg, opts, env) ==
  LET model == FirstOf(opts.model, cfg.llm.model)
      secret == IF Given(cfg.llm.token) THEN cfg.llm.token ELSE IF Given(cfg.llm.cmd) THEN "command" ELSE None IN
  CASE ~cfg.llm.url \/ model = None \/ secret = None -> Nothing
    [] cfg.llm.url /\ model # None /\ secret # None /\ cfg.llm.proto \in {"bedrock", "bogus"} -> Refusal("protocol unknown")
    [] OTHER -> IF secret = "command" THEN RunCommand(Endpoint(None, model, secret), env) ELSE Endpoint(None, model, secret)

(* Mutated: the remembered model stays. *)
TryOCRConfigSticky(cfg, opts, env) ==
  LET named == [cfg EXCEPT !.provider = FirstOf(opts.provider, @)] IN
  IF named.provider # None THEN TryProviderConfig(named, opts, env) ELSE TryLegacyLlmConfig(named, opts, env)

\* A model named for one provider does not follow a run that names another.
TryOCRConfig(cfg, opts, env) ==
  LET named == IF opts.provider \in {None, cfg.provider} THEN cfg ELSE Activated(cfg, opts.provider, None) IN
  IF named.provider # None THEN TryProviderConfig(named, opts, env) ELSE TryLegacyLlmConfig(named, opts, env)

\* The variables of one source: a run's own model makes up for a missing one.
TryVariables(source, label, opts) ==
  CASE source = "none" \/ (source = "no model" /\ opts.model = None) -> Nothing
    [] source = "bad" -> Refusal("environment")
    [] OTHER -> Endpoint(None, FirstOf(opts.model, CHOOSE m \in Models : TRUE), label)
TryOCREnv(opts, env) == TryVariables(env.ocr, "ocr", opts)
TryCCEnv(opts, env) == TryVariables(env.claude, "claude", opts)
TryShellRC(opts, env) == TryVariables(env.shell, "shell", opts)

\* The overrides are parsed before any source is asked.  A source that refuses
\* ends the search; one whose endpoint lacks a URL or a token is passed over.
Settles(outcome) ==
  outcome.end = "refused" \/ (outcome.end = "endpoint" /\ (outcome.ambient \/ (outcome.url /\ outcome.secret # None)))

ResolveEndpoint(cfg, opts, env) ==
  LET file == TryOCRConfig(cfg, opts, env)
      search == <<file, TryOCREnv(opts, env), TryCCEnv(opts, env), TryShellRC(opts, env), Refusal("unconfigured")>>
      first == CHOOSE i \in 1..5 : Settles(search[i]) /\ \A j \in 1..(i - 1) : ~Settles(search[j]) IN
  IF ~env.overrides THEN Refusal("overrides") ELSE IF opts.provider # None THEN file ELSE search[first]
=============================================================================
