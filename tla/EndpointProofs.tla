---------------------------- MODULE EndpointProofs ----------------------------
(***************************************************************************)
(* The endpoint of a run: how it comes to be configured and is resolved,   *)
(* for any presets, names, models, environments and start files; and what  *)
(* the retry report says of the requests to it and how many places a run   *)
(* holds, for any requests, any limit and any number of retries, over      *)
(* every client.                                                           *)
(***************************************************************************)
EXTENDS ConfigWizard, Requests, FiniteSetTheorems, TLAPS

(* A configuration the program itself may have saved.                        *)
Fit(cfg) == IsConfig(cfg) /\ KeysAtHome(cfg) /\ ActiveIn(cfg)

(* What a screen and a form are made of, who owns the entries of a tab, and  *)
(* what a secret typed into one of them was typed for.                       *)
Screens ==
  {"closed", "list", "model", "name", "key", "delete model", "delete provider", "create", "edit", "manual"}
Fields == [masked : BOOLEAN, orig : Secrets, val : Secrets]
Owners(tab) == IF tab = "presets" THEN Presets ELSE Names
HomeOf(tab, n) == IF tab = "presets" THEN n ELSE "custom"

(* The inductive invariant.  The file, and the two objects of a wizard: they *)
(* may differ once a save failed, but never in the manual endpoint, which    *)
(* only the last step changes.                                               *)
FilesFit ==
  /\ disk = Broken \/ Fit(disk)
  /\ Fit(held) /\ Fit(shown) /\ held.llm = shown.llm
  /\ same \in BOOLEAN /\ (same => held = shown)
  /\ ShownIsSaved
  /\ listed \subseteq Names
  /\ keyVar \in {None, Blank, "set"} /\ kind \in {"none", "provider", "model"}

Typing ==
  /\ ui \in [at : Screens, tab : Tabs, who : Names \cup {None}, row : Models \cup {None}, key : Fields]
  /\ form \in [step : 1..5, name : Names \cup {None}, target : Names \cup {None}, proto : Protocols, url : BOOLEAN,
               model : Models \cup {None}, token : Fields]

(* Where the user may be, and whose models and key are worked on there.      *)
Where ==
  /\ kind = "none" <=> ui.at = "closed"
  /\ kind = "model" => /\ ui.at \in {"model", "name", "delete model"}
                       /\ held.provider = ui.who /\ ui.tab = Section(ui.who)
  /\ ui.at \in {"model", "name", "key", "delete model"} => ui.who \in Owners(ui.tab)
  /\ ui.at \in {"key", "delete model"} => ui.row \in Models
  /\ ui.at \in {"delete provider", "create", "edit"} => ui.tab = "customs"
  /\ ui.at \in {"delete provider", "edit"} => ui.who \in Names

(* A key field holds what was typed for this provider or was loaded from it; *)
(* a step of the manual form is past only with what it asked for.            *)
Homed(f, home) == f.val \in {None, home} /\ (f.masked => f.orig \in {Blank, home})
AtForms ==
  /\ ui.at = "key" => Homed(ui.key, HomeOf(ui.tab, ui.who)) /\ (~ui.key.masked => ui.key.orig = None)
  /\ ui.at = "create" => ~ui.key.masked
  /\ ui.at \in {"create", "edit"} => Homed(ui.key, "custom") /\ (form.step > 1 => form.name \in Names)
  /\ ui.at = "edit" => form.target \in Names /\ form.name \in Names
  /\ ui.at = "manual" =>
       /\ Homed(form.token, "manual") /\ form.token.orig \in {None, Blank, "manual"}
       /\ form.step > 3 => form.model \in Models
       /\ form.step > 4 => ManualToken(form.token) # None \/ Given(shown.llm.cmd)

(* A promise is about a file that can be read.                               *)
Promised == chosen # None => Sound /\ ChoiceTakesEffect

WizardInv == FilesFit /\ Typing /\ Where /\ AtForms /\ Promised

(* The entries of a section. *)

(* A provider nobody configured has an entry of the right shape. *)
LEMMA NoEntryFits == NoEntry \in ProviderEntry
BY DEF NoEntry, ProviderEntry, Secrets

(* What is read of a section is an entry, also where there is none. *)
LEMMA AtFits ==
  ASSUME NEW map, NEW names, IsSection(map, names), NEW n
  PROVE  At(map, n) \in ProviderEntry
BY NoEntryFits DEF At, IsSection

(* An entry that is put into a section is there, and the others stay. *)
LEMMA PutFacts ==
  ASSUME NEW map, NEW names, IsSection(map, names), NEW n \in names, NEW e \in ProviderEntry
  PROVE  /\ IsSection(Put(map, n, e), names)
         /\ DOMAIN Put(map, n, e) = DOMAIN map \cup {n} /\ Put(map, n, e)[n] = e
         /\ \A k \in DOMAIN map : k # n => Put(map, n, e)[k] = map[k]
BY DEF Put, IsSection

(* An entry that is taken out of a section is gone, and the others stay. *)
LEMMA WithoutFacts ==
  ASSUME NEW map, NEW names, IsSection(map, names), NEW n
  PROVE  /\ IsSection(Without(map, n), names)
         /\ DOMAIN Without(map, n) = DOMAIN map \ {n}
         /\ \A k \in DOMAIN map \ {n} : Without(map, n)[k] = map[k]
BY DEF Without, IsSection

(* A configuration is its five parts, and an edit replaces one of them. *)
Config(p, m, a, b, l) == [provider |-> p, model |-> m, presets |-> a, customs |-> b, llm |-> l]
Whole(cfg) == cfg = Config(cfg.provider, cfg.model, cfg.presets, cfg.customs, cfg.llm)

(* A configuration has the parts it was made from. *)
LEMMA ConfigParts ==
  ASSUME NEW p, NEW m, NEW a, NEW b, NEW l
  PROVE  LET new == Config(p, m, a, b, l) IN
         /\ Whole(new) /\ new.provider = p /\ new.model = m /\ new.presets = a /\ new.customs = b /\ new.llm = l
         /\ new["presets"] = a /\ new["customs"] = b
BY DEF Config, Whole

(* Replacing one part makes the configuration with that part. *)
LEMMA ConfigExcept ==
  ASSUME NEW p, NEW m, NEW a, NEW b, NEW l, NEW k
  PROVE  /\ [Config(p, m, a, b, l) EXCEPT !.provider = k] = Config(k, m, a, b, l)
         /\ [Config(p, m, a, b, l) EXCEPT !.model = k] = Config(p, k, a, b, l)
         /\ [Config(p, m, a, b, l) EXCEPT !.presets = k] = Config(p, m, k, b, l)
         /\ [Config(p, m, a, b, l) EXCEPT !.customs = k] = Config(p, m, a, k, l)
         /\ [Config(p, m, a, b, l) EXCEPT !.llm = k] = Config(p, m, a, b, k)
<1>1. [Config(p, m, a, b, l) EXCEPT !.provider = k] = Config(k, m, a, b, l)  BY DEF Config
<1>2. [Config(p, m, a, b, l) EXCEPT !.model = k] = Config(p, k, a, b, l)     BY DEF Config
<1>3. [Config(p, m, a, b, l) EXCEPT !.presets = k] = Config(p, m, k, b, l)   BY DEF Config
<1>4. [Config(p, m, a, b, l) EXCEPT !.customs = k] = Config(p, m, a, k, l)   BY DEF Config
<1>5. [Config(p, m, a, b, l) EXCEPT !.llm = k] = Config(p, m, a, b, k)       BY DEF Config
<1> QED BY <1>1, <1>2, <1>3, <1>4, <1>5

(* The same of any configuration. *)
LEMMA WholeExcept ==
  ASSUME NEW cfg, Whole(cfg), NEW k
  PROVE  /\ [cfg EXCEPT !.provider = k] = Config(k, cfg.model, cfg.presets, cfg.customs, cfg.llm)
         /\ [cfg EXCEPT !.model = k] = Config(cfg.provider, k, cfg.presets, cfg.customs, cfg.llm)
         /\ [cfg EXCEPT !.presets = k] = Config(cfg.provider, cfg.model, k, cfg.customs, cfg.llm)
         /\ [cfg EXCEPT !.customs = k] = Config(cfg.provider, cfg.model, cfg.presets, k, cfg.llm)
         /\ [cfg EXCEPT !.llm = k] = Config(cfg.provider, cfg.model, cfg.presets, cfg.customs, k)
<1> DEFINE p == cfg.provider  m == cfg.model  a == cfg.presets  b == cfg.customs  l == cfg.llm
<1>1. cfg = Config(p, m, a, b, l)
  BY DEF Whole
<1> HIDE DEF p, m, a, b, l
<1>2. /\ [cfg EXCEPT !.provider = k] = Config(k, m, a, b, l)
      /\ [cfg EXCEPT !.model = k] = Config(p, k, a, b, l)
      /\ [cfg EXCEPT !.presets = k] = Config(p, m, k, b, l)
      /\ [cfg EXCEPT !.customs = k] = Config(p, m, a, k, l)
      /\ [cfg EXCEPT !.llm = k] = Config(p, m, a, b, k)
  BY ONLY <1>1, ConfigExcept
<1> QED BY <1>2 DEF p, m, a, b, l

(* The same of a section, chosen by its name. *)
LEMMA WholeSection ==
  ASSUME NEW cfg, Whole(cfg), NEW tab \in Tabs, NEW k
  PROVE  [cfg EXCEPT ![tab] = k] = Config(cfg.provider, cfg.model, IF tab = "presets" THEN k ELSE cfg.presets,
                                          IF tab = "customs" THEN k ELSE cfg.customs, cfg.llm)
<1>1. CASE tab = "presets"
  BY ONLY <1>1, Whole(cfg), WholeExcept
<1>2. CASE tab = "customs"
  BY ONLY <1>2, Whole(cfg), WholeExcept
<1> QED BY <1>1, <1>2 DEF Tabs

(* Naming the active provider replaces it and the model, and nothing else. *)
LEMMA ActivatedWhole ==
  ASSUME NEW cfg, Whole(cfg), NEW n, NEW m
  PROVE  Activated(cfg, n, m) = Config(n, m, cfg.presets, cfg.customs, cfg.llm)
<1>1. Activated(cfg, n, m) = [[cfg EXCEPT !.provider = n] EXCEPT !.model = m]
  BY DEF Activated
<1> DEFINE named == Config(n, cfg.model, cfg.presets, cfg.customs, cfg.llm)
<1>2. [cfg EXCEPT !.provider = n] = named
  BY WholeExcept
<1>3. /\ Whole(named) /\ named.presets = cfg.presets /\ named.customs = cfg.customs /\ named.llm = cfg.llm
      /\ named.provider = n
  BY ConfigParts
<1> HIDE DEF named
<1>4. [named EXCEPT !.model = m] = Config(named.provider, m, named.presets, named.customs, named.llm)
  BY <1>3, WholeExcept
<1> QED BY <1>1, <1>2, <1>3, <1>4

(* What makes a configuration, part by part. *)
LEMMA ConfigOf ==
  ASSUME NEW cfg
  PROVE  /\ IsConfig(cfg) => Whole(cfg)
         /\ IsConfig(cfg) <=> /\ Whole(cfg) /\ cfg.provider \in Names \cup {None} /\ cfg.model \in Models \cup {None}
                             /\ cfg.llm \in LlmConfig /\ IsSection(cfg.presets, Presets) /\ IsSection(cfg.customs, Names)
BY DEF IsConfig, Whole, Config

(* The parts of a configuration. *)
LEMMA Parts ==
  ASSUME NEW cfg, IsConfig(cfg)
  PROVE  /\ DOMAIN cfg = {"provider", "model", "presets", "customs", "llm"}
         /\ cfg.provider \in Names \cup {None} /\ cfg.model \in Models \cup {None} /\ cfg.llm \in LlmConfig
         /\ \A tab \in Tabs : IsSection(cfg[tab], Owners(tab))
         /\ \A tab \in Tabs : \A n : At(cfg[tab], n) \in ProviderEntry
<1>1. /\ DOMAIN cfg = {"provider", "model", "presets", "customs", "llm"}
      /\ cfg.provider \in Names \cup {None} /\ cfg.model \in Models \cup {None} /\ cfg.llm \in LlmConfig
  BY DEF IsConfig
<1>2. \A tab \in Tabs : IsSection(cfg[tab], Owners(tab))
  BY DEF IsConfig, Tabs, Owners
<1> QED BY <1>1, <1>2, AtFits

(* An entry put into a section leaves a fit configuration, when its key is of that provider. *)
LEMMA PutFits ==
  ASSUME NEW cfg, IsConfig(cfg), KeysAtHome(cfg), NEW tab \in Tabs, NEW n \in Owners(tab),
         ActiveIn(cfg) \/ (cfg.provider = n /\ tab = Section(n)),
         NEW e \in ProviderEntry, e.key \in {None, Blank, HomeOf(tab, n)}
  PROVE  LET new == [cfg EXCEPT ![tab] = Put(@, n, e)] IN
         /\ Fit(new)
         /\ new.provider = cfg.provider /\ new.model = cfg.model /\ new.llm = cfg.llm
         /\ new[tab] = Put(cfg[tab], n, e) /\ \A other \in Tabs : other # tab => new[other] = cfg[other]
<1> DEFINE new == [cfg EXCEPT ![tab] = Put(@, n, e)]
<1>1. IsSection(cfg[tab], Owners(tab)) /\ IsConfig(cfg) /\ Whole(cfg)
  BY Parts, ConfigOf DEF Fit
<1>2. /\ IsSection(Put(cfg[tab], n, e), Owners(tab)) /\ DOMAIN Put(cfg[tab], n, e) = DOMAIN cfg[tab] \cup {n}
      /\ Put(cfg[tab], n, e)[n] = e /\ \A k \in DOMAIN cfg[tab] : k # n => Put(cfg[tab], n, e)[k] = cfg[tab][k]
  <2>1. /\ IsSection(Put(cfg[tab], n, e), Owners(tab)) /\ DOMAIN Put(cfg[tab], n, e) = DOMAIN cfg[tab] \cup {n}
        /\ Put(cfg[tab], n, e)[n] = e
    BY ONLY <1>1, PutFacts, n \in Owners(tab), e \in ProviderEntry
  <2>2. \A k \in DOMAIN cfg[tab] : k # n => Put(cfg[tab], n, e)[k] = cfg[tab][k]
    BY DEF Put
  <2> QED BY <2>1, <2>2
<1>a. new = Config(cfg.provider, cfg.model, IF tab = "presets" THEN Put(cfg[tab], n, e) ELSE cfg.presets,
                   IF tab = "customs" THEN Put(cfg[tab], n, e) ELSE cfg.customs, cfg.llm)
  BY <1>1, WholeSection
<1> HIDE DEF new
<1>b. Whole(new) /\ new.provider = cfg.provider /\ new.model = cfg.model /\ new.llm = cfg.llm
      /\ new["presets"] = (IF tab = "presets" THEN Put(cfg[tab], n, e) ELSE cfg.presets)
      /\ new["customs"] = (IF tab = "customs" THEN Put(cfg[tab], n, e) ELSE cfg.customs)
  BY <1>a, ConfigParts
<1>3. new[tab] = Put(cfg[tab], n, e) /\ \A other \in Tabs : other # tab => new[other] = cfg[other]
  BY <1>b DEF Tabs
<1>4. IsConfig(new)
  BY <1>1, <1>2, <1>b, ConfigOf DEF Tabs, Owners
<1>5. KeysAtHome(new)
  BY <1>2, <1>3, <1>b DEF Fit, KeysAtHome, Tabs, HomeOf
<1>6. ActiveIn(new)
  BY <1>2, <1>3, <1>b DEF Fit, ActiveIn, Clash, Tabs, Section
<1> QED BY <1>3, <1>4, <1>5, <1>6, <1>b DEF Fit, new

(* Naming the active provider leaves a configuration, with its sections. *)
LEMMA ActivatedFacts ==
  ASSUME NEW cfg, IsConfig(cfg), NEW n \in Names \cup {None}, NEW m \in Models \cup {None}
  PROVE  LET new == Activated(cfg, n, m) IN
         /\ IsConfig(new) /\ new.provider = n /\ new.model = m
         /\ new.presets = cfg.presets /\ new.customs = cfg.customs /\ new.llm = cfg.llm
<1> DEFINE new == Activated(cfg, n, m)
<1>1. new = Config(n, m, cfg.presets, cfg.customs, cfg.llm)
  BY ConfigOf, ActivatedWhole
<1> HIDE DEF new
<1>2. /\ Whole(new) /\ new.provider = n /\ new.model = m
      /\ new.presets = cfg.presets /\ new.customs = cfg.customs /\ new.llm = cfg.llm
  BY <1>1, ConfigParts
<1>3. IsConfig(new)
  BY <1>2, ConfigOf
<1> QED BY <1>2, <1>3 DEF new

(* It leaves a fit one when the provider has an entry. *)
LEMMA ActivatedFits ==
  ASSUME NEW cfg, IsConfig(cfg), KeysAtHome(cfg), NEW n \in Names \cup {None}, NEW m \in Models \cup {None},
         n = None \/ n \in DOMAIN cfg[Section(n)] \/ n \in DOMAIN cfg.customs
  PROVE  Fit(Activated(cfg, n, m))
<1> DEFINE new == Activated(cfg, n, m)
<1>1. /\ IsConfig(new) /\ new.provider = n /\ new.model = m
      /\ new.presets = cfg.presets /\ new.customs = cfg.customs /\ new.llm = cfg.llm
  BY ActivatedFacts
<1> HIDE DEF new
<1>2. KeysAtHome(new) /\ ActiveIn(new)
  BY <1>1 DEF KeysAtHome, ActiveIn, Clash, Section, Names
<1> QED BY <1>1, <1>2 DEF Fit, new

(* The model of a fit configuration may be replaced by any other. *)
LEMMA ModelFits ==
  ASSUME NEW cfg, Fit(cfg), NEW m \in Models \cup {None}
  PROVE  LET new == [cfg EXCEPT !.model = m] IN
         /\ Fit(new) /\ new.provider = cfg.provider /\ new.model = m /\ new.llm = cfg.llm
         /\ new.presets = cfg.presets /\ new.customs = cfg.customs
<1> DEFINE new == [cfg EXCEPT !.model = m]
<1>a. Whole(cfg) /\ new = Config(cfg.provider, m, cfg.presets, cfg.customs, cfg.llm)
  BY ConfigOf, WholeExcept DEF Fit
<1> HIDE DEF new
<1>b. /\ Whole(new) /\ new.provider = cfg.provider /\ new.model = m /\ new.llm = cfg.llm
      /\ new.presets = cfg.presets /\ new.customs = cfg.customs
  BY <1>a, ConfigParts
<1>1. /\ IsConfig(new) /\ new.provider = cfg.provider /\ new.model = m /\ new.llm = cfg.llm
      /\ new.presets = cfg.presets /\ new.customs = cfg.customs
  BY <1>b, ConfigOf DEF Fit
<1>2. KeysAtHome(new) /\ ActiveIn(new)
  BY <1>1 DEF Fit, KeysAtHome, ActiveIn, Clash, Section
<1> QED BY <1>1, <1>2 DEF Fit, new

(* The active provider goes with its custom entry. *)
LEMMA DroppedFits ==
  ASSUME NEW cfg, Fit(cfg), NEW n, NEW m \in Models \cup {None}
  PROVE  LET gone == [cfg EXCEPT !.customs = Without(@, n)]
             new == IF cfg.provider = n THEN Activated(gone, None, None) ELSE gone IN
         /\ Fit(new) /\ new.llm = cfg.llm /\ new.presets = cfg.presets /\ new.customs = Without(cfg.customs, n)
         /\ cfg.provider # n => new.provider = cfg.provider
<1> DEFINE gone == [cfg EXCEPT !.customs = Without(@, n)]
<1>1. IsSection(cfg.customs, Names) /\ IsConfig(cfg)
  BY DEF Fit, IsConfig
<1>2. /\ IsSection(Without(cfg.customs, n), Names) /\ DOMAIN Without(cfg.customs, n) = DOMAIN cfg.customs \ {n}
      /\ \A k \in DOMAIN cfg.customs \ {n} : Without(cfg.customs, n)[k] = cfg.customs[k]
  BY <1>1, WithoutFacts
<1>a. gone = Config(cfg.provider, cfg.model, cfg.presets, Without(cfg.customs, n), cfg.llm)
  BY <1>1, ConfigOf, WholeExcept
<1> HIDE DEF gone
<1>3. /\ Whole(gone) /\ gone.provider = cfg.provider /\ gone.model = cfg.model /\ gone.llm = cfg.llm
      /\ gone.presets = cfg.presets /\ gone.customs = Without(cfg.customs, n)
  BY <1>a, ConfigParts
<1>4. IsConfig(gone) /\ KeysAtHome(gone)
  BY <1>1, <1>2, <1>3, ConfigOf DEF Fit, KeysAtHome
<1>5. CASE cfg.provider = n
  <2>1. Fit(Activated(gone, None, None))
    BY <1>4, ActivatedFits
  <2>2. LET new == Activated(gone, None, None) IN
        new.presets = gone.presets /\ new.customs = gone.customs /\ new.llm = gone.llm
    BY <1>4, ActivatedFacts
  <2>3. Fit(Activated(gone, None, None)) /\ Activated(gone, None, None).llm = cfg.llm
        /\ Activated(gone, None, None).presets = cfg.presets /\ Activated(gone, None, None).customs = Without(cfg.customs, n)
    BY <1>3, <2>1, <2>2
  <2> QED BY <1>5, <2>3 DEF gone
<1>6. CASE cfg.provider # n
  <2>1. ActiveIn(gone)
    BY <1>2, <1>3, <1>6 DEF Fit, ActiveIn, Clash, Section
  <2> QED BY <1>3, <1>4, <1>6, <2>1 DEF Fit, gone
<1> QED BY <1>5, <1>6
(* A field of an entry that is accepted leaves an entry, and no secret but the one typed. *)
LEMMA FieldSetFits ==
  ASSUME NEW e \in ProviderEntry, NEW n \in Names, NEW fv \in FieldValues(n), FieldAccepted(n, e, fv[1], fv[2])
  PROVE  FieldSet(e, fv[1], fv[2]) \in ProviderEntry /\ FieldSet(e, fv[1], fv[2]).key \in {e.key, Typed(n)}
<1>1. CASE fv = <<"key", Typed(n)>>
  <2>1. FieldSet(e, fv[1], fv[2]) = [e EXCEPT !.key = Typed(n)]
    BY <1>1 DEF FieldSet
  <2>2. Typed(n) \in Secrets
    BY DEF Typed, Secrets
  <2> QED BY <2>1, <2>2 DEF ProviderEntry
<1>2. CASE fv = <<"cmd", "cmd">>
  <2>1. FieldSet(e, fv[1], fv[2]) = [e EXCEPT !.cmd = "cmd"]
    BY <1>2 DEF FieldSet
  <2> QED BY <2>1 DEF ProviderEntry
<1>3. CASE fv[1] = "url"
  <2>1. FieldSet(e, fv[1], fv[2]) = [e EXCEPT !.url = fv[2]] /\ fv[2] \in BOOLEAN
    BY <1>3 DEF FieldSet, FieldAccepted
  <2> QED BY <2>1 DEF ProviderEntry
<1>4. CASE fv[1] = "proto"
  <2>1. fv[2] \in Protocols /\ fv[1] = "proto"
    BY <1>4 DEF FieldAccepted
  <2>2. FieldSet(e, fv[1], fv[2]) \in {[e EXCEPT !.proto = fv[2]], [[e EXCEPT !.proto = fv[2]] EXCEPT !.aws = FALSE]}
    BY <2>1 DEF FieldSet
  <2> QED BY <2>1, <2>2 DEF ProviderEntry
<1>5. CASE fv = <<"aws", TRUE>>
  <2>1. FieldSet(e, fv[1], fv[2]) = [e EXCEPT !.aws = TRUE]
    BY <1>5 DEF FieldSet
  <2> QED BY <2>1 DEF ProviderEntry
<1>6. fv # <<"aux", "bad">>
  BY DEF FieldAccepted
<1>7. \/ fv = <<"key", Typed(n)>> \/ fv = <<"cmd", "cmd">> \/ fv = <<"url", TRUE>> \/ fv = <<"url", Blank>>
      \/ fv = <<"proto", "token">> \/ fv = <<"proto", "bedrock">> \/ fv = <<"proto", "bogus">>
      \/ fv = <<"aws", TRUE>> \/ fv = <<"aux", "bad">>
  BY Zenon DEF FieldValues
<1>a. \A f, v : fv = <<f, v>> => fv[1] = f
  OBVIOUS
<1>8. (fv = <<"url", TRUE>> \/ fv = <<"url", Blank>>) => fv[1] = "url"
  BY ONLY <1>a, Zenon
<1>9. (fv = <<"proto", "token">> \/ fv = <<"proto", "bedrock">> \/ fv = <<"proto", "bogus">>) => fv[1] = "proto"
  OBVIOUS
<1> QED BY ONLY <1>1, <1>2, <1>3, <1>4, <1>5, <1>6, <1>7, <1>8, <1>9

(* The manual endpoint may be replaced by any whose token was typed for it. *)
LEMMA LlmFits ==
  ASSUME NEW cfg, Fit(cfg), NEW l \in LlmConfig, l.token \in {None, Blank, "manual"}
  PROVE  LET new == [cfg EXCEPT !.llm = l] IN
         /\ Fit(new) /\ new.llm = l /\ new.provider = cfg.provider /\ new.model = cfg.model
         /\ new.presets = cfg.presets /\ new.customs = cfg.customs
<1> DEFINE new == [cfg EXCEPT !.llm = l]
<1>1. new = Config(cfg.provider, cfg.model, cfg.presets, cfg.customs, l) /\ IsConfig(cfg)
  BY ConfigOf, WholeExcept DEF Fit
<1> HIDE DEF new
<1>2. /\ Whole(new) /\ new.llm = l /\ new.provider = cfg.provider /\ new.model = cfg.model
      /\ new.presets = cfg.presets /\ new.customs = cfg.customs
  BY <1>1, ConfigParts
<1>3. IsConfig(new)
  BY <1>1, <1>2, ConfigOf
<1>4. KeysAtHome(new) /\ ActiveIn(new)
  BY <1>2 DEF Fit, KeysAtHome, ActiveIn, Clash, Section
<1> QED BY <1>2, <1>3, <1>4 DEF Fit, new

(* `config set llm.*` leaves a fit configuration fit. *)
LEMMA SetLlmFits ==
  ASSUME NEW cfg, Fit(cfg), NEW fv \in LlmValues, SetLlm(cfg, fv[1], fv[2]).ok
  PROVE  Fit(SetLlm(cfg, fv[1], fv[2]).cfg)
<1> DEFINE l == [cfg.llm EXCEPT ![fv[1]] = fv[2]]
<1>a. fv = <<"url", TRUE>> \/ fv = <<"token", "manual">> \/ fv = <<"cmd", "cmd">> \/ fv = <<"proto", "bedrock">>
  BY Zenon DEF LlmValues
<1>b. ~(fv[1] = "proto" /\ fv[2] # "token")
  BY DEF SetLlm, Denied
<1>c. fv # <<"proto", "bedrock">>
  BY <1>b
<1>1. SetLlm(cfg, fv[1], fv[2]).cfg = [cfg EXCEPT !.llm = l]
  BY <1>b DEF SetLlm, Done
<1>2. cfg.llm \in LlmConfig /\ cfg.llm.token \in {None, Blank, "manual"}
  BY DEF Fit, IsConfig, KeysAtHome
<1>3. l \in LlmConfig /\ l.token \in {None, Blank, "manual"}
  <2>1. CASE fv = <<"url", TRUE>>
    BY <1>2, <2>1 DEF LlmConfig
  <2>2. CASE fv = <<"token", "manual">>
    BY <1>2, <2>2 DEF LlmConfig, Secrets
  <2>3. CASE fv = <<"cmd", "cmd">>
    BY <1>2, <2>3 DEF LlmConfig
  <2> QED BY <1>a, <1>c, <2>1, <2>2, <2>3
<1> HIDE DEF l
<1> QED BY <1>1, <1>3, LlmFits

(* What a preset's or another provider's entry is put into. *)
LEMMA StoredFits ==
  ASSUME NEW cfg, Fit(cfg), NEW n \in Names, NEW e \in ProviderEntry, e.key \in {None, Blank, Typed(n)}
  PROVE  LET new == Stored(cfg, n, e) IN
         Fit(new) /\ new.provider = cfg.provider /\ new.model = cfg.model /\ new.llm = cfg.llm
<1>1. Section(n) \in Tabs /\ n \in Owners(Section(n)) /\ Typed(n) = HomeOf(Section(n), n)
  BY DEF Section, Tabs, Owners, Typed, HomeOf
<1>2. IsConfig(cfg) /\ KeysAtHome(cfg) /\ ActiveIn(cfg)
  BY DEF Fit
<1> QED BY <1>1, <1>2, PutFits DEF Stored

(* The entry of a provider has that provider's key or none. *)
LEMMA EntryOfFits ==
  ASSUME NEW cfg, Fit(cfg), NEW n \in Names
  PROVE  EntryOf(cfg, n) \in ProviderEntry /\ EntryOf(cfg, n).key \in {None, Blank, Typed(n)}
<1>1. EntryOf(cfg, n) \in ProviderEntry
  BY Parts DEF Fit, EntryOf, Section, Tabs
<1>2. EntryOf(cfg, n).key \in {None, Blank, Typed(n)}
  BY DEF Fit, KeysAtHome, EntryOf, At, NoEntry, Section, Typed
<1> QED BY <1>1, <1>2

(* Every edit of `ocr config` that is not refused leaves a fit configuration fit. *)
LEMMA SetProviderFits ==
  ASSUME NEW cfg, Fit(cfg), NEW n \in Names
  PROVE  Fit(SetProvider(cfg, n).cfg)
<1> DEFINE model == IF cfg.provider = n THEN cfg.model ELSE None
           named == Activated(cfg, n, model)
<1>1. cfg.provider \in Names \cup {None} /\ cfg.model \in Models \cup {None} /\ IsConfig(cfg) /\ KeysAtHome(cfg)
  BY DEF Fit, IsConfig
<1>2. /\ IsConfig(named) /\ named.provider = n /\ named.presets = cfg.presets /\ named.customs = cfg.customs
      /\ named.llm = cfg.llm
  BY <1>1, ActivatedFacts
<1>3. CASE n \in DOMAIN cfg[Section(n)]
  <2>1. Fit(named)
    BY <1>1, <1>3, ActivatedFits
  <2> QED BY <1>3, <2>1 DEF SetProvider, Done
<1>4. CASE n \notin DOMAIN cfg[Section(n)]
  <2> HIDE DEF named
  <2>1. KeysAtHome(named)
    BY <1>1, <1>2 DEF KeysAtHome
  <2>2. Section(n) \in Tabs /\ n \in Owners(Section(n))
    BY DEF Section, Tabs, Owners
  <2>3. NoEntry \in ProviderEntry /\ NoEntry.key = None
    BY NoEntryFits DEF NoEntry
  <2>4. Fit(Stored(named, n, NoEntry))
    BY <1>2, <2>1, <2>2, <2>3, PutFits DEF Stored
  <2> QED BY <1>4, <2>4 DEF SetProvider, Done, named
<1> QED BY <1>3, <1>4

(* `config set model` leaves a fit configuration fit. *)
LEMMA SetModelFits ==
  ASSUME NEW cfg, Fit(cfg), NEW m \in Models
  PROVE  Fit(SetModel(cfg, m).cfg)
<1>1. CASE cfg.provider = None
  BY <1>1, ModelFits DEF SetModel, Done
<1>2. CASE cfg.provider # None
  <2> DEFINE n == cfg.provider  e == [EntryOf(cfg, n) EXCEPT !.model = m]
  <2>1. n \in Names
    BY <1>2 DEF Fit, IsConfig
  <2>2. e \in ProviderEntry /\ e.key \in {None, Blank, Typed(n)}
    <3>1. EntryOf(cfg, n) \in ProviderEntry /\ EntryOf(cfg, n).key \in {None, Blank, Typed(n)}
      BY <2>1, EntryOfFits
    <3> QED BY <3>1 DEF ProviderEntry
  <2> HIDE DEF e
  <2>3. Fit(Stored(cfg, n, e))
    BY <2>1, <2>2, StoredFits
  <2> QED BY <1>2, <2>3 DEF SetModel, Done, e
<1> QED BY <1>1, <1>2

(* So does the edit of one field of one provider. *)
LEMMA SetFieldFits ==
  ASSUME NEW cfg, Fit(cfg), NEW n \in Names, NEW fv \in FieldValues(n), NEW section,
         SetProviderField(cfg, section, n, fv[1], fv[2]).ok
  PROVE  Fit(SetProviderField(cfg, section, n, fv[1], fv[2]).cfg)
<1> DEFINE e == EntryOf(cfg, n)  new == FieldSet(e, fv[1], fv[2])
<1>1. /\ FieldAccepted(n, e, fv[1], fv[2])
      /\ SetProviderField(cfg, section, n, fv[1], fv[2]).cfg = Stored(cfg, n, new)
  <2> HIDE DEF new
  <2>1. ~Denied.ok
    BY DEF Denied
  <2>2. SetProviderField(cfg, section, n, fv[1], fv[2]) = SetPresetField(cfg, n, fv[1], fv[2])
    BY <2>1 DEF SetProviderField, SetCustomField
  <2>3. FieldAccepted(n, e, fv[1], fv[2])
    BY <2>1, <2>2 DEF SetPresetField
  <2> QED BY <2>2, <2>3 DEF SetPresetField, Done, new
<1>2. e \in ProviderEntry /\ e.key \in {None, Blank, Typed(n)}
  BY EntryOfFits
<1>3. new \in ProviderEntry /\ new.key \in {None, Blank, Typed(n)}
  <2> HIDE DEF e
  <2> QED BY <1>1, <1>2, FieldSetFits
<1> HIDE DEF e, new
<1> QED BY <1>1, <1>3, StoredFits

(* So does every edit of `ocr config` that is not refused. *)
LEMMA EditFits ==
  ASSUME NEW cfg, Fit(cfg), NEW edit \in Edits(cfg), edit.ok
  PROVE  Fit(edit.cfg)
<1>1. CASE \E n \in NamesTyped : edit = SetProvider(cfg, n)
  BY <1>1, SetProviderFits, RunAssumption
<1>2. CASE \E m \in Models : edit = SetModel(cfg, m)
  BY <1>2, SetModelFits
<1>3. CASE \E n \in NamesTyped : \E fv \in FieldValues(n) : \E section \in {"providers", "custom_providers"} :
             edit = SetProviderField(cfg, section, n, fv[1], fv[2])
  BY <1>3, SetFieldFits, RunAssumption
<1>4. CASE \E fv \in LlmValues : edit = SetLlm(cfg, fv[1], fv[2])
  BY <1>4, SetLlmFits
<1>5. CASE edit = UnsetProvider(cfg)
  BY <1>5, ActivatedFits DEF UnsetProvider, Done, Fit
<1>6. CASE \E n \in Customs : edit = DeleteCustomProvider(cfg, n)
  <2>1. PICK n \in Customs : edit = DeleteCustomProvider(cfg, n)
    BY <1>6
  <2>2. n \in DOMAIN cfg.customs
    BY <2>1 DEF DeleteCustomProvider, Denied
  <2> QED BY <2>1, <2>2, DroppedFits DEF DeleteCustomProvider, Done
<1>7. \/ \E n \in NamesTyped : edit = SetProvider(cfg, n)
      \/ \E m \in Models : edit = SetModel(cfg, m)
      \/ \E n \in NamesTyped : \E fv \in FieldValues(n) : \E section \in {"providers", "custom_providers"} :
             edit = SetProviderField(cfg, section, n, fv[1], fv[2])
      \/ \E fv \in LlmValues : edit = SetLlm(cfg, fv[1], fv[2])
      \/ edit = UnsetProvider(cfg)
      \/ \E n \in Customs : edit = DeleteCustomProvider(cfg, n)
  <2> DEFINE SetA == {SetProvider(cfg, n) : n \in NamesTyped}
             SetB == {SetModel(cfg, m) : m \in Models}
             SetC == UNION {FieldEdits(cfg, n) : n \in NamesTyped}
             SetD == {SetLlm(cfg, fv[1], fv[2]) : fv \in LlmValues}
             SetE == {DeleteCustomProvider(cfg, n) : n \in Customs}
  <2>1. Edits(cfg) = SetA \cup SetB \cup SetD \cup {UnsetProvider(cfg)} \cup SetE \cup SetC
    BY DEF Edits
  <2>2. \A n : edit \in FieldEdits(cfg, n) => \E fv \in FieldValues(n) : \E section \in {"providers", "custom_providers"} :
             edit = SetProviderField(cfg, section, n, fv[1], fv[2])
    BY DEF FieldEdits
  <2>3. /\ edit \in SetA => \E n \in NamesTyped : edit = SetProvider(cfg, n)
        /\ edit \in SetB => \E m \in Models : edit = SetModel(cfg, m)
        /\ edit \in SetC => \E n \in NamesTyped : edit \in FieldEdits(cfg, n)
        /\ edit \in SetD => \E fv \in LlmValues : edit = SetLlm(cfg, fv[1], fv[2])
        /\ edit \in SetE => \E n \in Customs : edit = DeleteCustomProvider(cfg, n)
    OBVIOUS
  <2> HIDE DEF SetA, SetB, SetC, SetD, SetE
  <2>4. edit \in SetA \/ edit \in SetB \/ edit \in SetC \/ edit \in SetD \/ edit = UnsetProvider(cfg) \/ edit \in SetE
    BY <2>1
  <2> QED BY ONLY <2>2, <2>3, <2>4, Zenon
<1> QED BY ONLY <1>1, <1>2, <1>3, <1>4, <1>5, <1>6, <1>7

(* The parts of a fit configuration; it is none that was cut short. *)
LEMMA FitParts ==
  ASSUME NEW cfg, Fit(cfg)
  PROVE  /\ IsConfig(cfg) /\ Whole(cfg) /\ KeysAtHome(cfg) /\ ActiveIn(cfg)
         /\ cfg.provider \in Names \cup {None} /\ cfg.model \in Models \cup {None} /\ cfg.llm \in LlmConfig
         /\ DOMAIN cfg.customs \subseteq Names /\ cfg # Broken
<1>1. /\ IsConfig(cfg) /\ Whole(cfg) /\ KeysAtHome(cfg) /\ ActiveIn(cfg)
      /\ cfg.provider \in Names \cup {None} /\ cfg.model \in Models \cup {None} /\ cfg.llm \in LlmConfig
      /\ DOMAIN cfg.customs \subseteq Names
  BY ConfigOf DEF Fit, IsSection
<1>2. Broken.model = "broken"
  BY DEF Broken, EmptyConfig
<1>3. "broken" \notin Models \cup {None}
  BY ConfigAssumption DEF Words
<1> QED BY <1>1, <1>2, <1>3

(* The empty configuration is fit. *)
LEMMA EmptyFits == Fit(EmptyConfig)
<1>1. EmptyConfig = Config(None, None, NoProviders, NoProviders, NoLlm)
  BY DEF EmptyConfig, Config
<1>2. /\ Whole(EmptyConfig) /\ EmptyConfig.provider = None /\ EmptyConfig.model = None
      /\ EmptyConfig.presets = NoProviders /\ EmptyConfig.customs = NoProviders /\ EmptyConfig.llm = NoLlm
  BY <1>1, ConfigParts
<1>3. DOMAIN NoProviders = {} /\ IsSection(NoProviders, Presets) /\ IsSection(NoProviders, Names)
  BY DEF NoProviders, IsSection
<1>4. NoLlm \in LlmConfig /\ NoLlm.token = None
  BY DEF NoLlm, LlmConfig, Secrets
<1>5. IsConfig(EmptyConfig)
  BY <1>2, <1>3, <1>4, ConfigOf
<1>6. KeysAtHome(EmptyConfig) /\ ActiveIn(EmptyConfig)
  BY <1>2, <1>3, <1>4 DEF KeysAtHome, ActiveIn
<1> QED BY <1>5, <1>6 DEF Fit

(* The entry a wizard works on has its provider's key or none. *)
LEMMA RowFits ==
  ASSUME NEW cfg, Fit(cfg), ui.tab \in Tabs
  PROVE  Row(cfg) \in ProviderEntry /\ Row(cfg).key \in {None, Blank, HomeOf(ui.tab, ui.who)}
<1>1. Row(cfg) \in ProviderEntry
  BY Parts DEF Fit, Row
<1>2. Row(cfg).key \in {None, Blank, HomeOf(ui.tab, ui.who)}
  BY DEF Fit, KeysAtHome, Row, At, NoEntry, HomeOf, Tabs
<1> QED BY <1>1, <1>2

(* Writing that entry back leaves a fit configuration that has it. *)
LEMMA WithEntryFits ==
  ASSUME NEW cfg, Fit(cfg), ui.tab \in Tabs, ui.who \in Owners(ui.tab),
         NEW e \in ProviderEntry, e.key \in {None, Blank, HomeOf(ui.tab, ui.who)}
  PROVE  LET new == WithEntry(cfg, e) IN
         /\ Fit(new) /\ new.provider = cfg.provider /\ new.model = cfg.model /\ new.llm = cfg.llm
         /\ new[ui.tab] = Put(cfg[ui.tab], ui.who, e) /\ ui.who \in DOMAIN new[ui.tab]
         /\ \A other \in Tabs : other # ui.tab => new[other] = cfg[other]
<1>1. IsConfig(cfg) /\ KeysAtHome(cfg) /\ ActiveIn(cfg)
  BY DEF Fit
<1>2. LET new == WithEntry(cfg, e) IN
         /\ Fit(new) /\ new.provider = cfg.provider /\ new.model = cfg.model /\ new.llm = cfg.llm
         /\ new[ui.tab] = Put(cfg[ui.tab], ui.who, e)
         /\ \A other \in Tabs : other # ui.tab => new[other] = cfg[other]
  BY <1>1, PutFits DEF WithEntry
<1>3. ui.who \in DOMAIN Put(cfg[ui.tab], ui.who, e)
  BY DEF Put
<1> QED BY <1>2, <1>3

(* So does adding a model to it. *)
LEMMA AddModelFits ==
  ASSUME Fit(shown), ui.tab \in Tabs, ui.who \in Owners(ui.tab), NEW m \in Models
  PROVE  Fit(AddModelTo(m)) /\ AddModelTo(m).provider = shown.provider /\ AddModelTo(m).llm = shown.llm
<1> DEFINE e == [Row(shown) EXCEPT !.models = @ \cup {m}]
<1>1. e \in ProviderEntry /\ e.key \in {None, Blank, HomeOf(ui.tab, ui.who)}
  BY RowFits DEF ProviderEntry
<1> HIDE DEF e
<1>2. LET new == WithEntry(shown, e) IN Fit(new) /\ new.provider = shown.provider /\ new.llm = shown.llm
  BY <1>1, WithEntryFits
<1> QED BY <1>2 DEF AddModelTo, e

(* So does taking a model from it. *)
LEMMA ModelDeletedFits ==
  ASSUME Fit(shown), ui.tab \in Tabs, ui.who \in Owners(ui.tab), NEW m \in Models
  PROVE  Fit(ModelDeleted(m)) /\ ModelDeleted(m).provider = shown.provider /\ ModelDeleted(m).llm = shown.llm
<1> DEFINE e == [Row(shown) EXCEPT !.models = @ \ {m}, !.model = IF @ = m THEN None ELSE @]
           gone == WithEntry(shown, e)
<1>1. e \in ProviderEntry /\ e.key \in {None, Blank, HomeOf(ui.tab, ui.who)}
  BY RowFits DEF ProviderEntry
<1> HIDE DEF e
<1>2. Fit(gone) /\ gone.provider = shown.provider /\ gone.llm = shown.llm
  BY <1>1, WithEntryFits
<1> HIDE DEF gone
<1>3. LET new == [gone EXCEPT !.model = None] IN Fit(new) /\ new.provider = shown.provider /\ new.llm = shown.llm
  BY <1>2, ModelFits
<1> QED BY <1>2, <1>3 DEF ModelDeleted, gone, e

(* A step that touches neither the file nor the objects keeps what is known of them. *)
LEMMA StayKeeps ==
  ASSUME FilesFit, Promised, Stay
  PROVE  FilesFit' /\ Promised'
<1>1. FilesFit'
  BY DEF FilesFit, Stay, ShownIsSaved, Sound
<1>2. Sound' = Sound /\ ChoiceTakesEffect' = ChoiceTakesEffect
  BY DEF Stay, Sound, ChoiceTakesEffect, Elsewhere
<1>3. chosen' = chosen
  BY DEF Stay
<1>4. Promised'
  BY <1>2, <1>3 DEF Promised
<1> QED BY <1>1, <1>4

(* A wizard that ends leaves nothing behind but the file. *)
LEMMA LeaveFits ==
  ASSUME FilesFit, Leave, keyVar' = keyVar, disk' = Broken \/ Fit(disk')
  PROVE  FilesFit' /\ Typing' /\ Where' /\ AtForms'
<1>1. FilesFit'
  BY EmptyFits DEF FilesFit, Leave, ShownIsSaved
<1>2. Typing'
  BY DEF Typing, Leave, Closed, NoForm, NoField, Screens, Tabs, Fields, Secrets, Protocols
<1>3. Where'
  BY DEF Where, Leave, Closed
<1>4. AtForms'
  BY DEF AtForms, Leave, Closed
<1> QED BY <1>1, <1>2, <1>3, <1>4

(* A configuration is what is saved when all but its custom providers is. *)
LEMMA SameButCustoms ==
  ASSUME NEW cfg, Whole(cfg)
  PROVE  [cfg EXCEPT !.customs = cfg.customs] = cfg
BY WholeExcept DEF Whole

(* A save that works: the file, the object shown and the object held agree. *)
LEMMA SavedFits ==
  ASSUME FilesFit, Kept, NEW new, Fit(new), new.llm = shown.llm, SaveShown(new), listed' \subseteq Names
  PROVE  FilesFit'
<1>1. disk' = new /\ shown' = new /\ same' = same /\ held' = (IF same THEN new ELSE held) /\ keyVar' = keyVar /\ kind' = kind
  BY DEF SaveShown, Touched, Kept
<1>2. /\ disk' = Broken \/ Fit(disk')
      /\ Fit(held') /\ Fit(shown') /\ held'.llm = shown'.llm
      /\ same' \in BOOLEAN /\ (same' => held' = shown')
      /\ keyVar' \in {None, Blank, "set"} /\ kind' \in {"none", "provider", "model"}
  BY <1>1 DEF FilesFit
<1>3. ShownIsSaved'
  BY <1>1, SameButCustoms, FitParts DEF ShownIsSaved
<1> QED BY <1>2, <1>3 DEF FilesFit

(* A write that failed, of a file that could be read again. *)
LEMMA RereadFits ==
  ASSUME FilesFit, Kept, kind # "none", NEW new, Fit(new), new.llm = shown.llm, CutShort, disk' # Broken,
         shown' = disk', same' = FALSE, Touched(new), listed' = DOMAIN disk'.customs
  PROVE  FilesFit'
<1>1. disk' = disk /\ disk # Broken /\ Fit(disk)
  BY DEF CutShort, FilesFit
<1>2. held' = (IF same THEN new ELSE held) /\ keyVar' = keyVar /\ kind' = kind
  BY DEF Touched, Kept
<1>3. disk.llm = shown.llm
  <2>1. [shown EXCEPT !.customs = disk.customs] = disk
    BY <1>1 DEF FilesFit, ShownIsSaved, Sound
  <2>2. Whole(shown)
    BY FitParts DEF FilesFit
  <2>3. [shown EXCEPT !.customs = disk.customs] = Config(shown.provider, shown.model, shown.presets, disk.customs, shown.llm)
    BY <2>2, WholeExcept
  <2> QED BY <2>1, <2>3, ConfigParts
<1>4. Fit(held') /\ held'.llm = shown'.llm
  BY <1>1, <1>2, <1>3 DEF FilesFit
<1>5. ShownIsSaved'
  BY <1>1, SameButCustoms, FitParts DEF ShownIsSaved
<1> QED BY <1>1, <1>2, <1>4, <1>5, FitParts DEF FilesFit

(* A write that failed and left nothing to read. *)
LEMMA BrokenFits ==
  ASSUME FilesFit, Kept, disk' = Broken, same' = same, Fit(shown'), Fit(held'), held'.llm = shown'.llm,
         same => held' = shown', listed' \subseteq Names
  PROVE  FilesFit'
BY DEF FilesFit, Kept, ShownIsSaved, Sound

(* A save that failed, either way. *)
LEMMA SaveFailsFits ==
  ASSUME FilesFit, Kept, kind # "none", NEW new, Fit(new), new.llm = shown.llm, SaveFails(new, shown)
  PROVE  FilesFit'
<1>1. CutShort
  BY DEF SaveFails
<1>2. CASE disk' # Broken
  BY <1>1, <1>2, RereadFits DEF SaveFails
<1>3. CASE disk' = Broken
  <2>1. shown' = shown /\ same' = same /\ held' = (IF same THEN shown ELSE held) /\ listed' = listed
    BY <1>3 DEF SaveFails, Touched
  <2> QED BY <1>3, <2>1, BrokenFits DEF FilesFit
<1> QED BY <1>2, <1>3

(* Without a confirmed step nothing is promised. *)
LEMMA NotPromised == ASSUME chosen' = None PROVE Promised'
BY DEF Promised

(* What the fields of a form hold. *)
LEMMA SecretFields ==
  /\ NoField \in Fields /\ ~NoField.masked /\ NoField.orig = None /\ \A home : Homed(NoField, home)
  /\ \A secret \in Secrets : Masked(secret) \in Fields
  /\ \A secret, home : secret \in {None, Blank, home} =>
       Homed(Masked(secret), home) /\ (~Masked(secret).masked => Masked(secret).orig = None)
       /\ Masked(secret).orig \in {None, Blank, home}
<1>1. NoField \in Fields /\ ~NoField.masked /\ NoField.orig = None /\ \A home : Homed(NoField, home)
  BY DEF NoField, Fields, Secrets, Homed
<1>2. \A secret \in Secrets : Masked(secret) \in Fields
  BY <1>1 DEF Masked, Fields, Secrets
<1>3. ASSUME NEW secret, NEW home, secret \in {None, Blank, home}
      PROVE  Homed(Masked(secret), home) /\ (~Masked(secret).masked => Masked(secret).orig = None)
             /\ Masked(secret).orig \in {None, Blank, home}
  BY <1>1, <1>3 DEF Masked, Homed
<1> QED BY <1>1, <1>2, <1>3

(* Typing over a field leaves what was typed, and no secret that was masked. *)
LEMMA TypedFields ==
  ASSUME NEW f \in Fields, NEW secret \in Secrets, NEW home, secret \in {None, home}
  PROVE  /\ TypedOver(f, secret) \in Fields /\ Homed(TypedOver(f, secret), home)
         /\ ~TypedOver(f, secret).masked /\ TypedOver(f, secret).val = secret
         /\ TypedOver(f, secret).orig = (IF f.masked THEN None ELSE f.orig)
<1>1. /\ TypedOver(f, secret) \in Fields
      /\ ~TypedOver(f, secret).masked /\ TypedOver(f, secret).val = secret
      /\ TypedOver(f, secret).orig = (IF f.masked THEN None ELSE f.orig)
  BY DEF TypedOver, Fields, Secrets
<1> QED BY <1>1 DEF Homed

(* A field that is cleared holds no secret anybody can save. *)
LEMMA BareHomed ==
  ASSUME NEW f \in Fields, NEW home
  PROVE  LET bare == [f EXCEPT !.masked = FALSE, !.val = None] IN Homed(bare, home) /\ ~bare.masked /\ bare \in Fields
BY DEF Fields, Secrets, Homed

Forms == [step : 1..5, name : Names \cup {None}, target : Names \cup {None}, proto : Protocols, url : BOOLEAN,
          model : Models \cup {None}, token : Fields]

(* An empty form is a form. *)
LEMMA NoFormTyped == NoForm \in Forms
<1>1. NoField \in Fields
  BY SecretFields
<1> QED BY <1>1 DEF NoForm, Forms, Protocols

(* The parts of the screen and of the form. *)
LEMMA UiParts ==
  ASSUME Typing
  PROVE  /\ ui.at \in Screens /\ ui.tab \in Tabs /\ ui.who \in Names \cup {None} /\ ui.row \in Models \cup {None}
         /\ ui.key \in Fields
         /\ form.step \in 1..5 /\ form.name \in Names \cup {None} /\ form.target \in Names \cup {None}
         /\ form.proto \in Protocols /\ form.url \in BOOLEAN /\ form.model \in Models \cup {None} /\ form.token \in Fields
BY DEF Typing

(* At the models of a provider, the provider and what is listed are known. *)
LEMMA AtModels ==
  ASSUME Typing, FilesFit, Where, ui.at \in {"model", "name", "key", "delete model"}
  PROVE  /\ ui.tab \in Tabs /\ ui.who \in Owners(ui.tab) /\ Fit(shown) /\ Fit(held)
         /\ ModelList \subseteq Models /\ Row(shown).models \subseteq Models
<1>1. ui.tab \in Tabs /\ ui.who \in Owners(ui.tab) /\ Fit(shown) /\ Fit(held)
  BY UiParts DEF Where, FilesFit
<1>2. Row(shown) \in ProviderEntry
  BY <1>1, RowFits
<1>3. Row(shown).models \subseteq Models
  BY <1>2 DEF ProviderEntry
<1>4. Registered \subseteq Models
  BY <1>1, ConfigAssumption DEF Registered, Official, Owners
<1> QED BY <1>1, <1>3, <1>4 DEF ModelList

(* The list of providers and what is entered from it. *)
LEMMA ListedOwner ==
  ASSUME NEW tab \in Tabs, FilesFit, NEW n \in IF tab = "presets" THEN Presets ELSE listed
  PROVE  n \in Owners(tab) /\ n \in Names
BY DEF FilesFit, Owners, Tabs, Names

(* Entering a provider keeps the invariant. *)
LEMMA EnterProviderKeeps ==
  ASSUME WizardInv, HandleEnterProvider
  PROVE  WizardInv'
<1>1. FilesFit' /\ Promised'
  BY StayKeeps DEF WizardInv, HandleEnterProvider
<1>2. PICK tab \in Tabs : \E n \in IF tab = "presets" THEN Presets ELSE listed :
        ui' = [ui EXCEPT !.at = "model", !.tab = tab, !.who = n, !.row = None]
  BY DEF HandleEnterProvider
<1>3. PICK n \in IF tab = "presets" THEN Presets ELSE listed :
        ui' = [ui EXCEPT !.at = "model", !.tab = tab, !.who = n, !.row = None]
  BY <1>2
<1>4. n \in Owners(tab) /\ n \in Names
  BY ListedOwner DEF WizardInv
<1>5. form' = form /\ kind' = kind /\ ui.at = "list"
  BY DEF HandleEnterProvider, Stay
<1>6. Typing'
  BY <1>3, <1>4, <1>5 DEF WizardInv, Typing, Screens
<1>7. ui'.at = "model" /\ ui'.tab = tab /\ ui'.who = n
  BY <1>3 DEF WizardInv, Typing
<1>8. Where'
  BY <1>4, <1>5, <1>7 DEF WizardInv, Where
<1>9. AtForms'
  BY <1>7 DEF AtForms
<1> QED BY <1>1, <1>6, <1>8, <1>9 DEF WizardInv

(* So does the question whether to delete one. *)
LEMMA AskDeleteKeeps ==
  ASSUME WizardInv, AskDelete
  PROVE  WizardInv'
<1>1. FilesFit' /\ Promised'
  BY StayKeeps DEF WizardInv, AskDelete
<1>2. PICK n \in listed : ui' = [ui EXCEPT !.at = "delete provider", !.tab = "customs", !.who = n]
  BY DEF AskDelete
<1>3. n \in Names
  BY DEF WizardInv, FilesFit
<1>4. form' = form /\ kind' = kind /\ ui.at = "list"
  BY DEF AskDelete, Stay
<1>5. Typing'
  BY <1>2, <1>3, <1>4 DEF WizardInv, Typing, Screens, Tabs
<1>6. ui'.at = "delete provider" /\ ui'.tab = "customs" /\ ui'.who = n
  BY <1>2 DEF WizardInv, Typing
<1>7. Where'
  BY <1>3, <1>4, <1>6 DEF WizardInv, Where
<1>8. AtForms'
  BY <1>6 DEF AtForms
<1> QED BY <1>1, <1>5, <1>7, <1>8 DEF WizardInv

(* So does the question for a model's name. *)
LEMMA AskNameKeeps ==
  ASSUME WizardInv, AskName
  PROVE  WizardInv'
<1>1. FilesFit' /\ Promised'
  BY StayKeeps DEF WizardInv, AskName
<1>2. ui' = [ui EXCEPT !.at = "name"] /\ form' = form /\ kind' = kind /\ held' = held /\ ui.at = "model"
  BY DEF AskName, Stay
<1>3. Typing'
  BY <1>2 DEF WizardInv, Typing, Screens
<1>4. ui'.at = "name" /\ ui'.tab = ui.tab /\ ui'.who = ui.who
  BY <1>2 DEF WizardInv, Typing
<1>5. Where'
  BY <1>2, <1>4 DEF WizardInv, Where
<1>6. AtForms'
  BY <1>4 DEF AtForms
<1> QED BY <1>1, <1>3, <1>5, <1>6 DEF WizardInv

(* So does the question whether to delete a model. *)
LEMMA AskDeleteModelKeeps ==
  ASSUME WizardInv, AskDeleteModel
  PROVE  WizardInv'
<1>1. FilesFit' /\ Promised'
  BY StayKeeps DEF WizardInv, AskDeleteModel
<1>2. PICK m \in Row(shown).models \ Registered : ui' = [ui EXCEPT !.at = "delete model", !.row = m]
  BY DEF AskDeleteModel
<1>3. form' = form /\ kind' = kind /\ held' = held /\ ui.at = "model"
  BY DEF AskDeleteModel, Stay
<1>4. m \in Models
  BY <1>3, AtModels DEF WizardInv
<1>5. Typing'
  BY <1>2, <1>3, <1>4 DEF WizardInv, Typing, Screens
<1>6. ui'.at = "delete model" /\ ui'.tab = ui.tab /\ ui'.who = ui.who /\ ui'.row = m
  BY <1>2 DEF WizardInv, Typing
<1>7. Where'
  BY <1>3, <1>4, <1>6 DEF WizardInv, Where
<1>8. AtForms'
  BY <1>6 DEF AtForms
<1> QED BY <1>1, <1>5, <1>7, <1>8 DEF WizardInv

(* The forms. *)
LEMMA EnterCreateKeeps ==
  ASSUME WizardInv, EnterCreate
  PROVE  WizardInv'
<1>1. FilesFit' /\ Promised'
  BY StayKeeps DEF WizardInv, EnterCreate
<1> DEFINE bare == [ui.key EXCEPT !.masked = FALSE, !.val = None]
<1>2. /\ ui' = [ui EXCEPT !.at = "create", !.tab = "customs", !.who = None, !.key = bare]
      /\ form' = NoForm /\ kind' = kind /\ kind = "provider"
  BY DEF EnterCreate, Stay
<1>3. Homed(bare, "custom") /\ ~bare.masked /\ bare \in Fields
  BY UiParts, BareHomed DEF WizardInv
<1> HIDE DEF bare
<1>4. NoForm.step = 1
  BY DEF NoForm
<1>5. Typing'
  BY <1>2, <1>3, NoFormTyped DEF WizardInv, Typing, Screens, Tabs, Forms
<1>6. ui'.at = "create" /\ ui'.tab = "customs" /\ ui'.key = bare
  BY <1>2 DEF WizardInv, Typing
<1>7. Where'
  BY <1>2, <1>6 DEF Where
<1>8. AtForms'
  BY <1>2, <1>3, <1>4, <1>6 DEF AtForms
<1> QED BY <1>1, <1>5, <1>7, <1>8 DEF WizardInv

(* So does opening the form on a custom provider, with its key masked. *)
LEMMA EnterEditKeeps ==
  ASSUME WizardInv, EnterEditCustomProvider
  PROVE  WizardInv'
<1>1. FilesFit' /\ Promised'
  BY StayKeeps DEF WizardInv, EnterEditCustomProvider
<1>2. PICK n \in listed :
        LET e == At(shown.customs, n) IN
        /\ ui' = [ui EXCEPT !.at = "edit", !.tab = "customs", !.who = n, !.key = Masked(e.key)]
        /\ form' = [NoForm EXCEPT !.name = n, !.target = n, !.url = e.url,
                                  !.proto = IF e.proto = "bedrock" THEN "bedrock" ELSE "token"]
  BY DEF EnterEditCustomProvider
<1> DEFINE e == At(shown.customs, n)
<1>3. kind' = kind /\ ui.at = "list"
  BY DEF EnterEditCustomProvider, Stay
<1>4. n \in Names /\ Fit(shown)
  BY DEF WizardInv, FilesFit
<1>5. e \in ProviderEntry /\ e.key \in {None, Blank, "custom"}
  <2>1. e \in ProviderEntry
    BY <1>4, Parts DEF Fit, Tabs
  <2>2. e.key \in {None, Blank, "custom"}
    BY <1>4 DEF Fit, KeysAtHome, At, NoEntry
  <2> QED BY <2>1, <2>2
<1> HIDE DEF e
<1>6. Masked(e.key) \in Fields /\ Homed(Masked(e.key), "custom")
  BY <1>5, SecretFields DEF ProviderEntry
<1>7. ui' = [ui EXCEPT !.at = "edit", !.tab = "customs", !.who = n, !.key = Masked(e.key)]
  BY <1>2 DEF e
<1>8. form' = [NoForm EXCEPT !.name = n, !.target = n, !.url = e.url,
                             !.proto = IF e.proto = "bedrock" THEN "bedrock" ELSE "token"]
  BY <1>2 DEF e
<1>9. e.url \in BOOLEAN
  BY <1>5 DEF ProviderEntry
<1>10. ui' \in [at : Screens, tab : Tabs, who : Names \cup {None}, row : Models \cup {None}, key : Fields]
  BY <1>4, <1>6, <1>7 DEF WizardInv, Typing, Screens, Tabs
<1>a. form' \in Forms /\ form'.name = n /\ form'.target = n
  BY <1>4, <1>8, <1>9, NoFormTyped DEF Forms, Protocols
<1>11. Typing'
  BY <1>10, <1>a DEF Typing, Forms
<1>12. /\ ui'.at = "edit" /\ ui'.tab = "customs" /\ ui'.who = n /\ ui'.key = Masked(e.key)
       /\ form'.name = n /\ form'.target = n
  BY <1>7, <1>a DEF WizardInv, Typing
<1>13. Where'
  BY <1>3, <1>4, <1>12 DEF WizardInv, Where
<1>14. AtForms'
  BY <1>4, <1>6, <1>12 DEF AtForms
<1> QED BY <1>1, <1>11, <1>13, <1>14 DEF WizardInv

(* So does typing into the key field of the form. *)
LEMMA TypeKeyKeeps ==
  ASSUME WizardInv, TypeKey
  PROVE  WizardInv'
<1>1. FilesFit' /\ Promised'
  BY StayKeeps DEF WizardInv, TypeKey
<1>2. PICK secret \in {None, "custom"} : ui' = [ui EXCEPT !.key = TypedOver(@, secret)]
  BY DEF TypeKey
<1> DEFINE key == TypedOver(ui.key, secret)
<1>3. secret \in Secrets /\ ui.key \in Fields
  BY UiParts DEF Secrets, WizardInv
<1>4. key \in Fields /\ ~key.masked /\ Homed(key, "custom")
  BY <1>3, TypedFields
<1> HIDE DEF key
<1>5. ui' = [ui EXCEPT !.key = key] /\ form' = form /\ kind' = kind /\ held' = held /\ ui.at \in {"create", "edit"}
  BY <1>2 DEF TypeKey, Stay, key
<1>6. Typing'
  BY <1>4, <1>5 DEF WizardInv, Typing
<1>7. ui'.at = ui.at /\ ui'.tab = ui.tab /\ ui'.who = ui.who /\ ui'.row = ui.row /\ ui'.key = key
  BY <1>5 DEF WizardInv, Typing
<1>8. Where'
  BY <1>5, <1>7 DEF WizardInv, Where
<1>9. AtForms'
  BY <1>4, <1>5, <1>7 DEF WizardInv, AtForms
<1> QED BY <1>1, <1>6, <1>8, <1>9 DEF WizardInv

(* So does the choice of a protocol. *)
LEMMA ChooseProtocolKeeps ==
  ASSUME WizardInv, ChooseProtocol
  PROVE  WizardInv'
<1>1. FilesFit' /\ Promised'
  BY StayKeeps DEF WizardInv, ChooseProtocol
<1>2. PICK p \in Protocols : form' = [form EXCEPT !.proto = p]
  BY DEF ChooseProtocol
<1>3. ui' = ui /\ kind' = kind /\ held' = held /\ shown' = shown /\ ui.at \in {"create", "edit"}
  BY DEF ChooseProtocol, Stay
<1>4. Typing'
  BY <1>2, <1>3 DEF WizardInv, Typing
<1>5. form'.step = form.step /\ form'.name = form.name /\ form'.target = form.target
  BY <1>2 DEF WizardInv, Typing
<1>6. Where'
  BY <1>3 DEF WizardInv, Where
<1>7. AtForms'
  BY <1>3, <1>5 DEF WizardInv, AtForms
<1> QED BY <1>1, <1>4, <1>6, <1>7 DEF WizardInv

(* So does each step of the form. *)
LEMMA CustomFormKeeps ==
  ASSUME WizardInv, HandleCustomFormEnter
  PROVE  WizardInv'
<1>1. FilesFit' /\ Promised'
  BY StayKeeps DEF WizardInv, HandleCustomFormEnter
<1>2. /\ kind' = kind /\ held' = held /\ shown' = shown /\ ui.at \in {"create", "edit"} /\ form.step < 5
      /\ form.step \in 1..5 /\ form \in Forms /\ ui.key \in Fields
  <2>1. kind' = kind /\ held' = held /\ shown' = shown
    BY DEF HandleCustomFormEnter, Stay
  <2>2. ui.at \in {"create", "edit"} /\ form.step < 5
    BY DEF HandleCustomFormEnter
  <2>3. form \in Forms
    BY DEF WizardInv, Typing, Forms
  <2> QED BY <2>1, <2>2, <2>3, UiParts DEF WizardInv
<1> DEFINE bare == [ui.key EXCEPT !.masked = FALSE, !.val = None]
<1>3. Homed(bare, "custom") /\ ~bare.masked /\ bare \in Fields
  BY <1>2, BareHomed
<1> HIDE DEF bare
<1>4. /\ ui' = ui \/ (ui.at = "create" /\ ui' = [ui EXCEPT !.key = bare])
      /\ \/ \E n \in Names : form' = [form EXCEPT !.name = n, !.step = 2]
         \/ form.step = 2 /\ form' = [form EXCEPT !.step = 3]
         \/ form.step = 3 /\ form' = [form EXCEPT !.url = TRUE, !.step = 4]
         \/ form.step = 4 /\ form' = [form EXCEPT !.step = 5]
  BY RunAssumption DEF HandleCustomFormEnter, bare
<1>5. form' \in Forms /\ form'.target = form.target /\ (form'.name \in Names \/ (form'.name = form.name /\ form.step > 1))
  <2>1. form \in Forms
    BY <1>2
  <2>2. ASSUME NEW n \in Names, form' = [form EXCEPT !.name = n, !.step = 2]
        PROVE  form' \in Forms /\ form'.name = n /\ form'.target = form.target
    <3> DEFINE f == [form EXCEPT !.name = n]
    <3>1. f \in Forms /\ f.name = n /\ f.target = form.target
      BY <2>1 DEF Forms
    <3>2. form' = [f EXCEPT !.step = 2]
      BY <2>2
    <3> HIDE DEF f
    <3> QED BY ONLY <3>1, <3>2 DEF Forms
  <2>3. CASE form.step = 2 /\ form' = [form EXCEPT !.step = 3]
    BY ONLY <2>1, <2>3 DEF Forms
  <2>4. CASE form.step = 3 /\ form' = [form EXCEPT !.url = TRUE, !.step = 4]
    <3> DEFINE f == [form EXCEPT !.url = TRUE]
    <3>1. f \in Forms /\ f.name = form.name /\ f.target = form.target
      BY <2>1 DEF Forms
    <3>2. form' = [f EXCEPT !.step = 4]
      BY <2>4
    <3> HIDE DEF f
    <3> QED BY ONLY <2>4, <3>1, <3>2 DEF Forms
  <2>5. CASE form.step = 4 /\ form' = [form EXCEPT !.step = 5]
    BY ONLY <2>1, <2>5 DEF Forms
  <2> QED BY ONLY <1>4, <2>2, <2>3, <2>4, <2>5
<1>6. /\ ui' \in [at : Screens, tab : Tabs, who : Names \cup {None}, row : Models \cup {None}, key : Fields]
      /\ ui'.at = ui.at /\ ui'.tab = ui.tab /\ ui'.who = ui.who /\ ui'.row = ui.row
      /\ ui'.key = ui.key \/ (ui.at = "create" /\ ui'.key = bare)
  BY <1>3, <1>4 DEF WizardInv, Typing
<1>7. Typing'
  BY <1>5, <1>6 DEF Typing, Forms
<1>8. Where'
  BY <1>2, <1>6 DEF WizardInv, Where
<1>9. AtForms'
  BY <1>2, <1>3, <1>5, <1>6 DEF WizardInv, AtForms
<1> QED BY <1>1, <1>7, <1>8, <1>9 DEF WizardInv

(* So does typing into the key field of a provider: what is typed is for it. *)
LEMMA TypeAPIKeyKeeps ==
  ASSUME WizardInv, TypeAPIKey
  PROVE  WizardInv'
<1>1. FilesFit' /\ Promised'
  BY StayKeeps DEF WizardInv, TypeAPIKey
<1>2. PICK secret \in {None, SecretTyped} : ui' = [ui EXCEPT !.key = TypedOver(@, secret)]
  BY DEF TypeAPIKey
<1> DEFINE key == TypedOver(ui.key, secret)  home == HomeOf(ui.tab, ui.who)
<1>3. ui.at = "key" /\ form' = form /\ kind' = kind /\ held' = held
  BY DEF TypeAPIKey, Stay
<1>4. ui.key \in Fields /\ ui.who \in Owners(ui.tab) /\ ui.tab \in Tabs
  BY <1>3, UiParts DEF WizardInv, Where
<1>5. secret \in Secrets /\ secret \in {None, home}
  BY <1>4 DEF SecretTyped, Official, HomeOf, Owners, Secrets, Tabs
<1>6. key \in Fields /\ ~key.masked /\ Homed(key, home) /\ key.orig = None
  <2>1. ~ui.key.masked => ui.key.orig = None
    BY <1>3 DEF WizardInv, AtForms
  <2> QED BY <1>4, <1>5, <2>1, TypedFields
<1> HIDE DEF key
<1>7. ui' = [ui EXCEPT !.key = key]
  BY <1>2 DEF key
<1>8. Typing'
  BY <1>3, <1>6, <1>7 DEF WizardInv, Typing
<1>9. ui'.at = ui.at /\ ui'.tab = ui.tab /\ ui'.who = ui.who /\ ui'.row = ui.row /\ ui'.key = key
  BY <1>7 DEF WizardInv, Typing
<1>10. Where'
  BY <1>3, <1>9 DEF WizardInv, Where
<1>11. AtForms'
  BY <1>3, <1>6, <1>9 DEF AtForms
<1> QED BY <1>1, <1>8, <1>10, <1>11 DEF WizardInv

(* So does the step to the key field, which loads that provider's key. *)
LEMMA EnterKeyKeeps ==
  ASSUME WizardInv, ui.at = "model", NEW m \in ModelList, Stay, form' = form, kind = "provider",
         ui' = [ui EXCEPT !.at = "key", !.row = m, !.key = Masked(Row(shown).key)]
  PROVE  WizardInv'
<1>1. FilesFit' /\ Promised'
  BY StayKeeps DEF WizardInv
<1>2. /\ ui.tab \in Tabs /\ ui.who \in Owners(ui.tab) /\ m \in Models /\ Fit(shown)
  BY AtModels DEF WizardInv
<1> DEFINE key == Masked(Row(shown).key)  home == HomeOf(ui.tab, ui.who)
<1>3. Row(shown) \in ProviderEntry /\ Row(shown).key \in {None, Blank, home}
  BY <1>2, RowFits
<1>4. key \in Fields /\ Homed(key, home) /\ (~key.masked => key.orig = None)
  <2> HIDE DEF home
  <2> QED BY <1>3, SecretFields DEF ProviderEntry
<1> HIDE DEF key
<1>5. ui' = [ui EXCEPT !.at = "key", !.row = m, !.key = key]
  BY DEF key
<1>6. kind' = kind /\ held' = held
  BY DEF Stay
<1>7. Typing'
  BY <1>2, <1>4, <1>5 DEF WizardInv, Typing, Screens
<1>8. ui'.at = "key" /\ ui'.tab = ui.tab /\ ui'.who = ui.who /\ ui'.row = m /\ ui'.key = key
  BY <1>5 DEF WizardInv, Typing
<1>9. Where'
  BY <1>2, <1>6, <1>8 DEF Where
<1>10. AtForms'
  BY <1>4, <1>8 DEF AtForms
<1> QED BY <1>1, <1>7, <1>9, <1>10 DEF WizardInv

(* So does opening the manual form. *)
LEMMA EnterManualKeeps ==
  ASSUME WizardInv, EnterManual
  PROVE  WizardInv'
<1>1. FilesFit' /\ Promised'
  BY StayKeeps DEF WizardInv, EnterManual
<1>2. ui' = [ui EXCEPT !.at = "manual", !.who = None] /\ ui.at = "list" /\ kind' = kind /\ shown' = shown
  BY DEF EnterManual, Stay
<1>3. PICK known \in {TRUE, shown.llm.url} :
        form' = [NoForm EXCEPT !.token = IF known THEN Masked(shown.llm.token) ELSE NoField]
  BY DEF EnterManual
<1> DEFINE token == IF known THEN Masked(shown.llm.token) ELSE NoField
<1>4. shown.llm.token \in {None, Blank, "manual"} /\ shown.llm.token \in Secrets
  BY DEF WizardInv, FilesFit, Fit, KeysAtHome, Secrets
<1>5. token \in Fields /\ Homed(token, "manual") /\ token.orig \in {None, Blank, "manual"}
  BY <1>4, SecretFields
<1> HIDE DEF token
<1>6. form' = [NoForm EXCEPT !.token = token]
  BY <1>3 DEF token
<1>7. form' \in Forms /\ form'.token = token /\ form'.step = 1
  <2>1. NoForm \in Forms /\ NoForm.step = 1
    BY NoFormTyped DEF NoForm
  <2> QED BY <1>5, <1>6, <2>1 DEF Forms
<1>8. Typing'
  BY <1>2, <1>7 DEF WizardInv, Typing, Forms, Screens
<1>9. ui'.at = "manual"
  BY <1>2 DEF WizardInv, Typing
<1>10. Where'
  BY <1>2, <1>9 DEF WizardInv, Where
<1>11. AtForms'
  BY <1>5, <1>7, <1>9 DEF AtForms
<1> QED BY <1>1, <1>8, <1>10, <1>11 DEF WizardInv

(* So does each of its steps: the last asks for a token or a command. *)
LEMMA ManualFormKeeps ==
  ASSUME WizardInv, HandleManualFormEnter
  PROVE  WizardInv'
<1>1. FilesFit' /\ Promised'
  BY StayKeeps DEF WizardInv, HandleManualFormEnter
<1>2. ui' = ui /\ ui.at = "manual" /\ kind' = kind /\ held' = held /\ shown' = shown
  BY DEF HandleManualFormEnter, Stay
<1>3. /\ form \in Forms /\ Homed(form.token, "manual") /\ form.token.orig \in {None, Blank, "manual"}
      /\ (form.step > 3 => form.model \in Models)
  BY <1>2 DEF WizardInv, Typing, AtForms, Forms
<1> DEFINE Filled(f) ==
      /\ f \in Forms /\ Homed(f.token, "manual") /\ f.token.orig \in {None, Blank, "manual"}
      /\ f.step > 3 => f.model \in Models
      /\ f.step > 4 => ManualToken(f.token) # None \/ Given(shown.llm.cmd)
<1>4. Filled(form')
  <2>1. CASE form.step \in {1, 2} /\ form' = [form EXCEPT !.url = TRUE, !.step = @ + 1]
    <3> DEFINE f == [form EXCEPT !.url = TRUE]
    <3>1. f \in Forms /\ f.token = form.token /\ f.step = form.step
      BY ONLY <1>3 DEF Forms
    <3>2. form' = [f EXCEPT !.step = f.step + 1] /\ form.step \in {1, 2}
      BY <2>1, <3>1
    <3> HIDE DEF f
    <3>3. form' \in Forms /\ form'.token = form.token /\ form'.step \in {2, 3}
      BY ONLY <3>1, <3>2 DEF Forms
    <3> QED BY <1>3, <3>3
  <2>2. CASE form.step = 3 /\ \E m \in Models : form' = [form EXCEPT !.model = m, !.step = 4]
    <3>1. PICK m \in Models : form' = [form EXCEPT !.model = m, !.step = 4]
      BY <2>2
    <3> DEFINE f == [form EXCEPT !.model = m]
    <3>2. f \in Forms /\ f.token = form.token /\ f.model = m
      BY ONLY <1>3, m \in Models DEF Forms
    <3>3. form' = [f EXCEPT !.step = 4]
      BY <3>1
    <3> HIDE DEF f
    <3>4. form' \in Forms /\ form'.token = form.token /\ form'.step = 4 /\ form'.model = m
      BY ONLY <3>2, <3>3 DEF Forms
    <3> QED BY <1>3, <3>4
  <2>3. CASE /\ form.step = 4
             /\ \E field \in {form.token} \cup {TypedOver(form.token, secret) : secret \in {None, "manual"}} :
                  /\ field.masked \/ field.val # None \/ field.orig # None \/ Given(shown.llm.cmd)
                  /\ form' = [form EXCEPT !.token = field, !.step = 5]
    <3>1. PICK field \in {form.token} \cup {TypedOver(form.token, secret) : secret \in {None, "manual"}} :
                  /\ field.masked \/ field.val # None \/ field.orig # None \/ Given(shown.llm.cmd)
                  /\ form' = [form EXCEPT !.token = field, !.step = 5]
      BY <2>3
    <3>2. form.token \in Fields /\ form.model \in Models
      BY <1>3, <2>3 DEF Forms
    <3>3. field \in Fields /\ Homed(field, "manual") /\ field.orig \in {None, Blank, "manual"}
      <4>1. CASE field = form.token
        BY <1>3, <3>2, <4>1
      <4>2. ASSUME NEW secret \in {None, "manual"}, field = TypedOver(form.token, secret)
            PROVE  field \in Fields /\ Homed(field, "manual") /\ field.orig \in {None, Blank, "manual"}
        <5>1. secret \in Secrets
          BY DEF Secrets
        <5> QED BY <1>3, <3>2, <4>2, <5>1, TypedFields
      <4> QED BY <4>1, <4>2
    <3>4. ManualToken(field) # None \/ Given(shown.llm.cmd)
      <4>1. field.masked => field.orig \in {Blank, "manual"}
        BY <3>3 DEF Homed
      <4>2. Blank # None /\ "manual" # None
        BY ConfigAssumption DEF Words
      <4> QED BY <3>1, <4>1, <4>2 DEF ManualToken
    <3> DEFINE f == [form EXCEPT !.token = field]
    <3>5. f \in Forms /\ f.token = field /\ f.model = form.model
      BY ONLY <1>3, <3>3 DEF Forms
    <3>6. form' = [f EXCEPT !.step = 5]
      BY <3>1
    <3> HIDE DEF f
    <3>7. form' \in Forms /\ form'.token = field /\ form'.step = 5 /\ form'.model = form.model
      BY ONLY <3>5, <3>6 DEF Forms
    <3> QED BY <3>2, <3>3, <3>4, <3>7
  <2> HIDE DEF Filled
  <2> QED BY <2>1, <2>2, <2>3 DEF HandleManualFormEnter
<1>5. Typing'
  BY <1>2, <1>4 DEF WizardInv, Typing, Forms
<1>6. Where'
  BY <1>2 DEF WizardInv, Where
<1>7. AtForms'
  BY <1>2, <1>4 DEF AtForms
<1> QED BY <1>1, <1>5, <1>6, <1>7 DEF WizardInv

(* Esc. *)
LEMMA ListKeeps ==
  ASSUME WizardInv, Stay, kind = "provider", form' \in Forms,
         ui' \in {AtList, [AtList EXCEPT !.key = NoField]}
  PROVE  WizardInv'
<1>1. FilesFit' /\ Promised'
  BY StayKeeps DEF WizardInv
<1>2. ui.key \in Fields /\ NoField \in Fields
  BY UiParts, SecretFields DEF WizardInv
<1>3. ui' \in [at : Screens, tab : Tabs, who : Names \cup {None}, row : Models \cup {None}, key : Fields] /\ ui'.at = "list"
  BY <1>2 DEF AtList, Closed, Screens, Tabs
<1>4. Typing'
  BY <1>3 DEF Typing, Forms
<1>5. Where'
  BY <1>3 DEF Where, Stay
<1>6. AtForms'
  BY <1>3 DEF AtForms
<1> QED BY <1>1, <1>4, <1>5, <1>6 DEF WizardInv

(* So does going back to the models. *)
LEMMA ToModelKeeps ==
  ASSUME WizardInv, Stay, form' = form, ui.at \in {"name", "key", "delete model"}, ui' = [ui EXCEPT !.at = "model", !.row = None]
  PROVE  WizardInv'
<1>1. FilesFit' /\ Promised'
  BY StayKeeps DEF WizardInv
<1>2. kind' = kind /\ held' = held
  BY DEF Stay
<1>3. Typing'
  BY DEF WizardInv, Typing, Screens
<1>4. ui'.at = "model" /\ ui'.tab = ui.tab /\ ui'.who = ui.who
  BY DEF WizardInv, Typing
<1>5. Where'
  BY <1>2, <1>4 DEF WizardInv, Where
<1>6. AtForms'
  BY <1>4 DEF AtForms
<1> QED BY <1>1, <1>3, <1>5, <1>6 DEF WizardInv

(* So does Esc, wherever the user is. *)
LEMMA BackKeeps ==
  ASSUME WizardInv, Back
  PROVE  WizardInv'
<1>1. form \in Forms /\ NoForm \in Forms /\ Stay
  BY NoFormTyped DEF WizardInv, Typing, Forms, Back
<1>2. ui.at \in {"delete provider", "create", "edit", "manual"} => kind = "provider"
  BY DEF WizardInv, Where, FilesFit
<1>3. CASE \/ ui.at = "model" /\ kind = "provider" /\ ui' = AtList /\ UNCHANGED form
           \/ ui.at = "delete provider" /\ ui' = AtList /\ UNCHANGED form
           \/ ui.at \in {"create", "edit"} /\ form.step = 1 /\ ui' = [AtList EXCEPT !.key = NoField] /\ form' = NoForm
           \/ ui.at = "manual" /\ form.step = 1 /\ ui' = AtList /\ form' = NoForm
  BY <1>1, <1>2, <1>3, ListKeeps
<1>4. CASE ui.at \in {"name", "key", "delete model"} /\ ui' = [ui EXCEPT !.at = "model", !.row = None] /\ UNCHANGED form
  BY <1>1, <1>4, ToModelKeeps
<1>5. CASE ui.at \in {"create", "edit", "manual"} /\ form.step > 1 /\ form' = [form EXCEPT !.step = @ - 1] /\ UNCHANGED ui
  <2>1. FilesFit' /\ Promised'
    BY <1>1, StayKeeps DEF WizardInv
  <2>2. kind' = kind /\ held' = held /\ shown' = shown /\ ui' = ui /\ ui.at \in {"create", "edit", "manual"}
    BY <1>1, <1>5 DEF Stay
  <2>3. form.step > 1 /\ form' = [form EXCEPT !.step = @ - 1]
    BY <1>5
  <2>4. /\ form' \in Forms /\ form'.step = form.step - 1 /\ form'.name = form.name /\ form'.target = form.target
        /\ form'.model = form.model /\ form'.token = form.token /\ form.step \in 1..5
    BY ONLY <1>1, <2>3 DEF Forms
  <2>5. Typing'
    BY <2>2, <2>4 DEF WizardInv, Typing, Forms
  <2>6. Where'
    BY <2>2 DEF WizardInv, Where
  <2>7. (form'.step > 1 => form.step > 1) /\ (form'.step > 3 => form.step > 3) /\ (form'.step > 4 => form.step > 4)
    BY <2>4
  <2>8. AtForms'
    BY <2>2, <2>4, <2>7 DEF WizardInv, AtForms
  <2> QED BY <2>1, <2>5, <2>6, <2>8 DEF WizardInv
<1> QED BY <1>3, <1>4, <1>5 DEF Back

(* A promise stays while the file does. *)
LEMMA PromiseStays ==
  ASSUME Promised, disk' = disk, keyVar' = keyVar, chosen' = chosen
  PROVE  Promised'
<1>1. Sound' = Sound /\ ChoiceTakesEffect' = ChoiceTakesEffect
  BY DEF Sound, ChoiceTakesEffect, Elsewhere
<1> QED BY <1>1 DEF Promised

(* Opening and leaving a wizard. *)
LEMMA LoadedFits ==
  ASSUME FilesFit, NEW k \in {"provider", "model"}, Loaded(k), disk' = disk, keyVar' = keyVar, listed' \subseteq Names
  PROVE  FilesFit'
<1>1. disk # Broken /\ Fit(disk) /\ kind' = k /\ held' = disk /\ shown' = disk /\ same' = TRUE
  BY DEF Loaded, FilesFit
<1>2. ShownIsSaved'
  BY <1>1, SameButCustoms, FitParts DEF ShownIsSaved
<1> QED BY <1>1, <1>2 DEF FilesFit

(* Opening the wizard of providers keeps the invariant. *)
LEMMA OpenProviderKeeps ==
  ASSUME WizardInv, OpenProviderWizard
  PROVE  WizardInv'
<1>1. Fit(disk) /\ Loaded("provider") /\ disk' = disk /\ keyVar' = keyVar /\ chosen' = chosen /\ listed' = DOMAIN disk.customs
  BY DEF OpenProviderWizard, Loaded, WizardInv, FilesFit
<1>2. FilesFit'
  BY <1>1, LoadedFits, FitParts DEF WizardInv
<1> DEFINE key == IF disk.provider \in Presets THEN Masked(EntryOf(disk, disk.provider).key) ELSE NoField
<1>3. key \in Fields
  <2>1. CASE disk.provider \in Presets
    <3>1. EntryOf(disk, disk.provider) \in ProviderEntry
      BY <1>1, <2>1, EntryOfFits DEF Names
    <3> QED BY <2>1, <3>1, SecretFields DEF ProviderEntry
  <2>2. CASE disk.provider \notin Presets
    BY <2>2, SecretFields
  <2> QED BY <2>1, <2>2
<1>4. ui' = [at |-> "list", tab |-> "presets", who |-> None, row |-> None, key |-> key] /\ form' = NoForm
  BY DEF OpenProviderWizard
<1> HIDE DEF key
<1>5. ui' \in [at : Screens, tab : Tabs, who : Names \cup {None}, row : Models \cup {None}, key : Fields] /\ ui'.at = "list"
  BY <1>3, <1>4 DEF Screens, Tabs
<1>6. Typing'
  BY <1>4, <1>5, NoFormTyped DEF Typing, Forms
<1>7. kind' = "provider"
  BY <1>1 DEF Loaded
<1>8. Where'
  BY <1>5, <1>7 DEF Where
<1>9. AtForms'
  BY <1>5 DEF AtForms
<1> QED BY <1>1, <1>2, <1>6, <1>8, <1>9, PromiseStays DEF WizardInv

(* So does opening the wizard of models, at the active provider. *)
LEMMA OpenModelKeeps ==
  ASSUME WizardInv, OpenModelWizard
  PROVE  WizardInv'
<1>1. Fit(disk) /\ Loaded("model") /\ disk' = disk /\ keyVar' = keyVar /\ chosen' = chosen /\ listed' = {} /\ form' = form
  BY DEF OpenModelWizard, Loaded, WizardInv, FilesFit
<1>2. FilesFit'
  BY <1>1, LoadedFits DEF WizardInv
<1>3. disk.provider \in Names
  BY <1>1, FitParts DEF OpenModelWizard
<1>4. ui' = [Closed EXCEPT !.at = "model", !.tab = Section(disk.provider), !.who = disk.provider]
  BY DEF OpenModelWizard
<1>5. NoField \in Fields /\ Section(disk.provider) \in Tabs /\ disk.provider \in Owners(Section(disk.provider))
  BY <1>3, SecretFields DEF Section, Tabs, Owners
<1>6. /\ ui' \in [at : Screens, tab : Tabs, who : Names \cup {None}, row : Models \cup {None}, key : Fields]
      /\ ui'.at = "model" /\ ui'.tab = Section(disk.provider) /\ ui'.who = disk.provider
  BY <1>3, <1>4, <1>5 DEF Screens, Closed
<1>7. Typing'
  BY <1>1, <1>6 DEF WizardInv, Typing
<1>8. kind' = "model" /\ held' = disk
  BY <1>1 DEF Loaded
<1>9. Where'
  BY <1>5, <1>6, <1>8 DEF Where
<1>10. AtForms'
  BY <1>6 DEF AtForms
<1> QED BY <1>1, <1>2, <1>7, <1>9, <1>10, PromiseStays DEF WizardInv

(* So does Ctrl-C. *)
LEMMA CancelKeeps ==
  ASSUME WizardInv, Cancel
  PROVE  WizardInv'
<1>1. Leave /\ disk' = disk /\ keyVar' = keyVar /\ chosen' = chosen
  BY DEF Cancel
<1> QED BY <1>1, LeaveFits, PromiseStays DEF WizardInv, FilesFit

(* The commands. *)
LEMMA CommandKeeps ==
  ASSUME WizardInv, Command
  PROVE  WizardInv'
<1>1. disk' = Broken \/ Fit(disk')
  BY EditFits DEF Command, WizardInv, FilesFit
<1>2. /\ kind = "none" /\ chosen' = None /\ keyVar' = keyVar /\ kind' = kind /\ held' = held /\ shown' = shown /\ same' = same
      /\ listed' = listed /\ ui' = ui /\ form' = form
  BY DEF Command
<1>3. FilesFit'
  BY <1>1, <1>2 DEF WizardInv, FilesFit, ShownIsSaved
<1>4. Typing' /\ Where' /\ AtForms'
  BY <1>2 DEF WizardInv, Typing, Where, AtForms
<1> QED BY <1>2, <1>3, <1>4, NotPromised DEF WizardInv

(* So does removing a file that was cut short. *)
LEMMA RepairKeeps ==
  ASSUME WizardInv, Repair
  PROVE  WizardInv'
<1>1. /\ kind = "none" /\ disk = Broken /\ disk' = EmptyConfig /\ chosen' = chosen /\ keyVar' = keyVar /\ kind' = kind /\ held' = held
      /\ shown' = shown /\ same' = same /\ listed' = listed /\ ui' = ui /\ form' = form
  BY DEF Repair
<1>2. FilesFit'
  BY <1>1, EmptyFits DEF WizardInv, FilesFit, ShownIsSaved
<1>3. Typing' /\ Where' /\ AtForms'
  BY <1>1 DEF WizardInv, Typing, Where, AtForms
<1>4. chosen = None
  BY <1>1 DEF WizardInv, Promised, Sound
<1> QED BY <1>1, <1>2, <1>3, <1>4, NotPromised DEF WizardInv

(* What is saved of the models. *)
LEMMA HeldProvider ==
  ASSUME FilesFit, NEW new, new.provider = shown.provider, Touched(new)
  PROVE  held'.provider = held.provider
BY DEF FilesFit, Touched

(* A step that ends at the models of the same provider keeps the invariant when the file is sound. *)
LEMMA InModels ==
  ASSUME WizardInv, FilesFit', kind' = kind, form' = form, ui.at \in {"model", "name", "delete model"}, held'.provider = held.provider,
         ui' \in [at : Screens, tab : Tabs, who : Names \cup {None}, row : Models \cup {None}, key : Fields],
         ui'.at \in {"model", "name"}, ui'.tab = ui.tab, ui'.who = ui.who, chosen' = None
  PROVE  WizardInv'
<1>1. Typing'
  BY DEF WizardInv, Typing
<1>2. Where'
  BY DEF WizardInv, Where
<1>3. AtForms'
  BY DEF AtForms
<1> QED BY <1>1, <1>2, <1>3, NotPromised DEF WizardInv

(* Adding a model keeps it, saved or not. *)
LEMMA PersistKeeps ==
  ASSUME WizardInv, NEW k, PersistModel(k)
  PROVE  WizardInv'
<1>1. /\ ui.at = "name" /\ chosen' = None /\ Kept /\ form' = form /\ kind # "none" /\ kind' = kind
  BY DEF PersistModel, WizardInv, Where, Kept
<1>2. PICK m \in Models \ ModelList :
        \/ SaveShown(AddModelTo(m)) /\ listed' = listed /\ ui' = [ui EXCEPT !.at = "model"]
        \/ SaveFails(AddModelTo(m), shown)
  BY DEF PersistModel
<1>3. Fit(AddModelTo(m)) /\ AddModelTo(m).provider = shown.provider /\ AddModelTo(m).llm = shown.llm
  <2>1. ui.tab \in Tabs /\ ui.who \in Owners(ui.tab) /\ Fit(shown)
    BY <1>1, AtModels DEF WizardInv
  <2> QED BY <2>1, AddModelFits
<1>4. FilesFit'
  BY <1>1, <1>2, <1>3, SavedFits, SaveFailsFits DEF WizardInv, FilesFit
<1>5. held'.provider = held.provider
  <2>1. Touched(AddModelTo(m)) \/ Touched(shown)
    BY <1>2 DEF SaveShown, SaveFails
  <2> QED BY <1>3, <2>1, HeldProvider DEF WizardInv
<1>6. /\ ui' \in [at : Screens, tab : Tabs, who : Names \cup {None}, row : Models \cup {None}, key : Fields]
      /\ ui'.at \in {"model", "name"} /\ ui'.tab = ui.tab /\ ui'.who = ui.who
  BY <1>1, <1>2 DEF WizardInv, Typing, Screens, SaveFails
<1> QED BY <1>1, <1>4, <1>5, <1>6, InModels

(* So does deleting one, in either wizard. *)
LEMMA DeleteModelKeeps ==
  ASSUME WizardInv, NEW k, NEW preset, DeleteModel(k, preset)
  PROVE  WizardInv'
<1> DEFINE new == ModelDeleted(ui.row)
<1>1. /\ ui.at = "delete model" /\ chosen' = None /\ Kept /\ form' = form /\ kind # "none" /\ kind' = kind
      /\ ui' = [ui EXCEPT !.at = "model", !.row = None]
  BY DEF DeleteModel, WizardInv, Where, Kept
<1>2. Fit(new) /\ new.provider = shown.provider /\ new.llm = shown.llm
  <2>1. ui.tab \in Tabs /\ ui.who \in Owners(ui.tab) /\ Fit(shown) /\ ui.row \in Models
    BY <1>1, AtModels DEF WizardInv, Where
  <2> QED BY <2>1, ModelDeletedFits
<1>3. \/ SaveShown(new) /\ listed' = listed
      \/ CutShort /\ disk' # Broken /\ shown' = disk' /\ same' = FALSE /\ Touched(new) /\ listed' = DOMAIN disk'.customs
      \/ CutShort /\ disk' = Broken /\ shown' = shown /\ same' = same /\ held' = held /\ listed' = listed
  BY DEF DeleteModel
<1> HIDE DEF new
<1>4. FilesFit'
  <2>1. CASE SaveShown(new) /\ listed' = listed
    BY <1>1, <1>2, <2>1, SavedFits DEF WizardInv, FilesFit
  <2>2. CASE CutShort /\ disk' # Broken /\ shown' = disk' /\ same' = FALSE /\ Touched(new) /\ listed' = DOMAIN disk'.customs
    BY <1>1, <1>2, <2>2, RereadFits DEF WizardInv
  <2>3. CASE CutShort /\ disk' = Broken /\ shown' = shown /\ same' = same /\ held' = held /\ listed' = listed
    BY <1>1, <2>3, BrokenFits DEF WizardInv, FilesFit
  <2> QED BY <1>3, <2>1, <2>2, <2>3
<1>5. held'.provider = held.provider
  <2>1. Touched(new) \/ held' = held
    BY <1>3 DEF SaveShown
  <2> QED BY <1>2, <2>1, HeldProvider DEF WizardInv
<1>6. /\ ui' \in [at : Screens, tab : Tabs, who : Names \cup {None}, row : Models \cup {None}, key : Fields]
      /\ ui'.at \in {"model", "name"} /\ ui'.tab = ui.tab /\ ui'.who = ui.who
  BY <1>1 DEF WizardInv, Typing, Screens
<1> QED BY <1>1, <1>4, <1>5, <1>6, InModels

(* Custom providers deleted, created, renamed. *)
LEMMA CustomsFit ==
  ASSUME NEW cfg, Fit(cfg), NEW p \in Names \cup {None}, NEW m \in Models \cup {None}, NEW customs, IsSection(customs, Names),
         \A n \in DOMAIN customs : customs[n].key \in {None, Blank, "custom"},
         p = None \/ p \in DOMAIN customs \/ (p \in Presets /\ p \in DOMAIN cfg.presets),
         NEW new, new = Config(p, m, cfg.presets, customs, cfg.llm)
  PROVE  Fit(new) /\ new.provider = p /\ new.customs = customs /\ new.presets = cfg.presets /\ new.llm = cfg.llm /\ Whole(new)
<1>1. /\ Whole(new) /\ new.provider = p /\ new.model = m /\ new.presets = cfg.presets /\ new.customs = customs /\ new.llm = cfg.llm
  BY ConfigParts
<1>2. IsConfig(new)
  BY <1>1, ConfigOf DEF Fit
<1>3. KeysAtHome(new)
  BY <1>1 DEF Fit, KeysAtHome
<1>4. ActiveIn(new)
  BY <1>1 DEF ActiveIn, Clash, Section
<1> QED BY <1>1, <1>2, <1>3, <1>4 DEF Fit

(* The active provider of a fit configuration has an entry. *)
LEMMA HomeOfActive ==
  ASSUME NEW cfg, Fit(cfg), cfg.provider # None
  PROVE  cfg.provider \in DOMAIN cfg.customs \/ (cfg.provider \in Presets /\ cfg.provider \in DOMAIN cfg.presets)
BY DEF Fit, ActiveIn, Clash, Section

(* The entry of a custom provider has a key typed for one. *)
LEMMA CustomAt ==
  ASSUME NEW cfg, Fit(cfg), NEW n
  PROVE  At(cfg.customs, n) \in ProviderEntry /\ At(cfg.customs, n).key \in {None, Blank, "custom"}
<1>1. At(cfg.customs, n) \in ProviderEntry
  BY Parts DEF Fit, Tabs
<1>2. At(cfg.customs, n).key \in {None, Blank, "custom"}
  BY DEF Fit, KeysAtHome, At, NoEntry
<1> QED BY <1>1, <1>2

(* Deleting a custom provider keeps the invariant, saved or not. *)
LEMMA ConfirmDeleteKeeps ==
  ASSUME WizardInv, ConfirmDelete
  PROVE  WizardInv'
<1> DEFINE gone == Without(shown.customs, ui.who)
           new == IF shown.provider = ui.who THEN [Activated(shown, None, None) EXCEPT !.customs = gone]
                  ELSE [shown EXCEPT !.customs = gone]
<1>1. /\ ui.at = "delete provider" /\ ui' = AtList /\ chosen' = None /\ Kept /\ form' = form /\ kind # "none" /\ kind' = kind
      /\ kind = "provider"
  BY DEF ConfirmDelete, WizardInv, Where, FilesFit, Kept
<1>2. \/ SaveShown(new) /\ listed' = listed \ {ui.who}
      \/ CutShort /\ disk' # Broken /\ shown' = disk' /\ same' = FALSE /\ listed' = DOMAIN disk'.customs /\ Touched(new)
      \/ CutShort /\ disk' = Broken /\ shown' = new /\ same' = same /\ listed' = listed \ {ui.who} /\ Touched(new)
  BY DEF ConfirmDelete
<1>3. Fit(shown) /\ IsConfig(shown) /\ Whole(shown)
  BY FitParts DEF WizardInv, FilesFit
<1>4. /\ IsSection(gone, Names) /\ DOMAIN gone = DOMAIN shown.customs \ {ui.who}
      /\ \A n \in DOMAIN gone : gone[n].key \in {None, Blank, "custom"}
  <2>1. IsSection(shown.customs, Names)
    BY <1>3 DEF IsConfig
  <2>2. /\ IsSection(gone, Names) /\ DOMAIN gone = DOMAIN shown.customs \ {ui.who}
        /\ \A k \in DOMAIN shown.customs \ {ui.who} : gone[k] = shown.customs[k]
    BY <2>1, WithoutFacts
  <2> HIDE DEF gone
  <2> QED BY <1>3, <2>2 DEF Fit, KeysAtHome
<1> HIDE DEF gone
<1>5. new = IF shown.provider = ui.who THEN Config(None, None, shown.presets, gone, shown.llm)
            ELSE Config(shown.provider, shown.model, shown.presets, gone, shown.llm)
  <2>1. [shown EXCEPT !.customs = gone] = Config(shown.provider, shown.model, shown.presets, gone, shown.llm)
    BY <1>3, WholeExcept
  <2> DEFINE none == Activated(shown, None, None)
  <2>2. none = Config(None, None, shown.presets, shown.customs, shown.llm)
    BY <1>3, ActivatedWhole
  <2> HIDE DEF none
  <2>3. Whole(none) /\ none.provider = None /\ none.model = None /\ none.presets = shown.presets /\ none.llm = shown.llm
    BY <2>2, ConfigParts
  <2>a. [none EXCEPT !.customs = gone] = Config(none.provider, none.model, none.presets, gone, none.llm)
    BY <2>3, WholeExcept
  <2>4. [none EXCEPT !.customs = gone] = Config(None, None, shown.presets, gone, shown.llm)
    BY <2>3, <2>a
  <2> QED BY <2>1, <2>4 DEF none
<1> HIDE DEF new
<1>6. Fit(new) /\ new.llm = shown.llm
  <2>1. CASE shown.provider = ui.who
    <3>1. new = Config(None, None, shown.presets, gone, shown.llm)
      BY <1>5, <2>1
    <3>2. None \in Names \cup {None} /\ None \in Models \cup {None}
      OBVIOUS
    <3> QED BY ONLY <1>3, <1>4, <3>1, <3>2, CustomsFit
  <2>2. CASE shown.provider # ui.who
    <3>1. new = Config(shown.provider, shown.model, shown.presets, gone, shown.llm)
      BY <1>5, <2>2
    <3>2. /\ shown.provider \in Names \cup {None} /\ shown.model \in Models \cup {None}
          /\ shown.provider = None \/ shown.provider \in DOMAIN gone \/ (shown.provider \in Presets /\ shown.provider \in DOMAIN shown.presets)
      BY <1>3, <1>4, <2>2, HomeOfActive DEF IsConfig
    <3> DEFINE p == shown.provider  m == shown.model
    <3>3. p \in Names \cup {None} /\ m \in Models \cup {None} /\ new = Config(p, m, shown.presets, gone, shown.llm)
          /\ (p = None \/ p \in DOMAIN gone \/ (p \in Presets /\ p \in DOMAIN shown.presets))
      BY <3>1, <3>2
    <3> HIDE DEF p, m
    <3> QED BY ONLY <1>3, <1>4, <3>3, CustomsFit
  <2> QED BY <2>1, <2>2
<1>7. FilesFit'
  <2>1. CASE SaveShown(new) /\ listed' = listed \ {ui.who}
    BY <1>1, <1>6, <2>1, SavedFits DEF WizardInv, FilesFit
  <2>2. CASE CutShort /\ disk' # Broken /\ shown' = disk' /\ same' = FALSE /\ listed' = DOMAIN disk'.customs /\ Touched(new)
    BY <1>1, <1>6, <2>2, RereadFits DEF WizardInv
  <2>3. CASE CutShort /\ disk' = Broken /\ shown' = new /\ same' = same /\ listed' = listed \ {ui.who} /\ Touched(new)
    <3>1. held' = IF same THEN new ELSE held
      BY <2>3 DEF Touched
    <3> QED BY <1>1, <1>6, <2>3, <3>1, BrokenFits DEF WizardInv, FilesFit
  <2> QED BY <1>2, <2>1, <2>2, <2>3
<1>8. ui' \in [at : Screens, tab : Tabs, who : Names \cup {None}, row : Models \cup {None}, key : Fields] /\ ui'.at = "list"
  <2>1. ui.key \in Fields
    BY UiParts DEF WizardInv
  <2> QED BY <1>1, <2>1 DEF AtList, Closed, Screens, Tabs
<1>9. Typing'
  BY <1>1, <1>8 DEF WizardInv, Typing
<1>10. Where'
  BY <1>1, <1>8 DEF Where
<1>11. AtForms'
  BY <1>8 DEF AtForms
<1> QED BY <1>1, <1>7, <1>9, <1>10, <1>11, NotPromised DEF WizardInv

(* The form ends at the models of the provider it made. *)
LEMMA MadeKeeps ==
  ASSUME WizardInv, FilesFit', kind = "provider", kind' = kind, form' = NoForm, NEW n \in Names, chosen' = None, ui.tab = "customs",
         ui' = [ui EXCEPT !.at = "model", !.who = n, !.row = None, !.key = NoField]
  PROVE  WizardInv'
<1>1. /\ ui' \in [at : Screens, tab : Tabs, who : Names \cup {None}, row : Models \cup {None}, key : Fields]
      /\ ui'.at = "model" /\ ui'.tab = "customs" /\ ui'.who = n
  <2>1. NoField \in Fields
    BY SecretFields
  <2> QED BY <2>1 DEF WizardInv, Typing, Screens
<1>2. Typing'
  BY <1>1, NoFormTyped DEF Typing, Forms
<1>3. Where'
  BY <1>1 DEF Where, Owners
<1>4. AtForms'
  BY <1>1 DEF AtForms
<1> QED BY <1>2, <1>3, <1>4, NotPromised DEF WizardInv

(* What is saved of a key field was typed for its provider. *)
LEMMA FieldHomed ==
  ASSUME NEW f \in Fields, NEW home, Homed(f, home)
  PROVE  FieldValue(f) \in {None, Blank, home} /\ FieldValue(f) \in Secrets
BY DEF Fields, Homed, FieldValue

(* Creating a custom provider keeps the invariant, saved or not. *)
LEMMA CreateKeeps ==
  ASSUME WizardInv, ApplyCreateCustomProvider
  PROVE  WizardInv'
<1> DEFINE bedrock == form.proto = "bedrock"
           e == [NoEntry EXCEPT !.url = ~bedrock /\ form.url, !.proto = form.proto, !.key = IF bedrock THEN None ELSE FieldValue(ui.key)]
           new == [shown EXCEPT !.customs = Put(@, form.name, e)]
<1>1. /\ ui.at = "create" /\ form.name \notin DOMAIN shown.customs /\ chosen' = None /\ Kept /\ kind # "none" /\ kind' = kind
      /\ kind = "provider" /\ ui.tab = "customs" /\ form.step > 1
  BY DEF ApplyCreateCustomProvider, WizardInv, Where, FilesFit, Kept, Finished
<1>2. \/ /\ SaveShown(new) /\ listed' = DOMAIN new.customs /\ form' = NoForm
         /\ ui' = [ui EXCEPT !.at = "model", !.who = form.name, !.row = None, !.key = NoField]
      \/ CutShort /\ shown' = new /\ Touched(new) /\ UNCHANGED <<same, listed, ui, form>>
  BY DEF ApplyCreateCustomProvider
<1>3. form.name \in Names /\ Fit(shown) /\ Homed(ui.key, "custom") /\ ui.key \in Fields /\ form.proto \in Protocols /\ form.url \in BOOLEAN
  BY <1>1, UiParts DEF WizardInv, AtForms, FilesFit
<1>4. e \in ProviderEntry /\ e.key \in {None, Blank, "custom"}
  <2> DEFINE url == ~bedrock /\ form.url  key == IF bedrock THEN None ELSE FieldValue(ui.key)
  <2>1. key \in Secrets /\ key \in {None, Blank, "custom"} /\ url \in BOOLEAN
    BY <1>3, FieldHomed DEF Secrets
  <2>2. e = [NoEntry EXCEPT !.url = url, !.proto = form.proto, !.key = key]
    OBVIOUS
  <2> HIDE DEF url, key, e
  <2> QED BY <1>3, <2>1, <2>2, NoEntryFits DEF ProviderEntry
<1> HIDE DEF e
<1>5. /\ Fit(new) /\ new.provider = shown.provider /\ new.llm = shown.llm /\ new.model = shown.model
      /\ new.customs = Put(shown.customs, form.name, e) /\ new.presets = shown.presets
  <2>1. IsConfig(shown) /\ KeysAtHome(shown) /\ ActiveIn(shown) /\ "customs" \in Tabs /\ form.name \in Owners("customs")
        /\ HomeOf("customs", form.name) = "custom"
    BY <1>3 DEF Fit, Tabs, Owners, HomeOf
  <2> DEFINE put == [shown EXCEPT !["customs"] = Put(@, form.name, e)]
  <2>2. /\ Fit(put) /\ put.provider = shown.provider /\ put.model = shown.model /\ put.llm = shown.llm
        /\ put["customs"] = Put(shown["customs"], form.name, e) /\ put["presets"] = shown["presets"]
    <3>1. "presets" \in Tabs /\ "presets" # "customs"
      BY DEF Tabs
    <3> HIDE DEF put
    <3>2. LET p == [shown EXCEPT !["customs"] = Put(@, form.name, e)] IN
         /\ Fit(p)
         /\ p.provider = shown.provider /\ p.model = shown.model /\ p.llm = shown.llm
         /\ p["customs"] = Put(shown["customs"], form.name, e) /\ \A other \in Tabs : other # "customs" => p[other] = shown[other]
      BY <1>4, <2>1, PutFits
    <3> QED BY <3>1, <3>2 DEF put
  <2>3. put = new
    OBVIOUS
  <2> HIDE DEF put, new
  <2> QED BY <2>2, <2>3
<1> HIDE DEF new
<1>6. CASE /\ SaveShown(new) /\ listed' = DOMAIN new.customs /\ form' = NoForm
           /\ ui' = [ui EXCEPT !.at = "model", !.who = form.name, !.row = None, !.key = NoField]
  <2>1. FilesFit'
    BY <1>1, <1>5, <1>6, SavedFits, FitParts DEF WizardInv
  <2> QED BY <1>1, <1>3, <1>6, <2>1, MadeKeeps
<1>7. CASE CutShort /\ shown' = new /\ Touched(new) /\ UNCHANGED <<same, listed, ui, form>>
  <2>1. held' = IF same THEN new ELSE held
    BY <1>7 DEF Touched
  <2>2. keyVar' = keyVar /\ disk' \in {disk, Broken}
    BY <1>1, <1>7 DEF Kept, CutShort
  <2>3. ShownIsSaved'
    <3>1. SUFFICES ASSUME disk' # Broken PROVE /\ [new EXCEPT !.customs = disk.customs] = disk
                                               /\ \A n \in DOMAIN disk.customs : n \in DOMAIN new.customs /\ new.customs[n] = disk.customs[n]
      BY <1>7, <2>2 DEF ShownIsSaved, Sound
    <3>2. /\ [shown EXCEPT !.customs = disk.customs] = disk
          /\ \A n \in DOMAIN disk.customs : n \in DOMAIN shown.customs /\ shown.customs[n] = disk.customs[n]
      BY <1>1, <2>2, <3>1 DEF WizardInv, FilesFit, ShownIsSaved, Sound
    <3>3. Whole(shown) /\ Whole(new)
      BY <1>3, <1>5, FitParts
    <3>4. /\ [shown EXCEPT !.customs = disk.customs] = Config(shown.provider, shown.model, shown.presets, disk.customs, shown.llm)
          /\ [new EXCEPT !.customs = disk.customs] = Config(new.provider, new.model, new.presets, disk.customs, new.llm)
      BY <3>3, WholeExcept
    <3>5. [new EXCEPT !.customs = disk.customs] = disk
      BY <1>5, <3>2, <3>4
    <3>6. \A n \in DOMAIN shown.customs : n \in DOMAIN new.customs /\ new.customs[n] = shown.customs[n]
      BY <1>1, <1>5 DEF Put
    <3> QED BY <3>2, <3>5, <3>6
  <2>4. FilesFit'
    BY <1>1, <1>5, <1>7, <2>1, <2>2, <2>3 DEF WizardInv, FilesFit
  <2>5. Typing' /\ Where' /\ AtForms'
    BY <1>1, <1>7 DEF WizardInv, Typing, Where, AtForms
  <2> QED BY <1>1, <2>4, <2>5, NotPromised DEF WizardInv
<1> QED BY <1>2, <1>6, <1>7

(* So does editing one, also under a new name. *)
LEMMA EditKeeps ==
  ASSUME WizardInv, ApplyEditCustomProviderSave
  PROVE  WizardInv'
<1> DEFINE bedrock == form.proto = "bedrock"
           old == At(shown.customs, form.target)
           e == [old EXCEPT !.url = ~bedrock /\ form.url, !.proto = form.proto,
                            !.models = IF old.model = None THEN @ ELSE @ \cup {old.model},
                            !.key = IF bedrock THEN None ELSE IF ui.key.masked THEN @ ELSE ui.key.val]
           renamed == form.name # form.target
           moved == IF renamed THEN Without(shown.customs, form.target) ELSE shown.customs
           kept == IF renamed /\ shown.provider = form.target THEN Activated(shown, form.name, None) ELSE shown
           customs == Put(moved, form.name, e)
           new == [kept EXCEPT !.customs = Put(moved, form.name, e)]
<1>1. /\ ui.at = "edit" /\ chosen' = None /\ Kept /\ kind # "none" /\ kind' = kind /\ kind = "provider" /\ ui.tab = "customs"
      /\ (renamed => form.name \notin DOMAIN shown.customs)
  BY DEF ApplyEditCustomProviderSave, WizardInv, Where, FilesFit, Kept
<1>2. \/ /\ SaveShown(new) /\ listed' = DOMAIN new.customs /\ form' = NoForm
         /\ ui' = [ui EXCEPT !.at = "model", !.who = form.name, !.row = None, !.key = NoField]
      \/ SaveFails(new, shown) /\ UNCHANGED form
  BY DEF ApplyEditCustomProviderSave
<1>3. /\ form.name \in Names /\ form.target \in Names /\ Fit(shown) /\ IsConfig(shown) /\ Whole(shown) /\ Homed(ui.key, "custom")
      /\ ui.key \in Fields /\ form.proto \in Protocols /\ form.url \in BOOLEAN
  BY <1>1, UiParts, FitParts DEF WizardInv, AtForms, FilesFit
<1>4. e \in ProviderEntry /\ e.key \in {None, Blank, "custom"}
  <2>1. old \in ProviderEntry /\ old.key \in {None, Blank, "custom"}
    BY <1>3, CustomAt
  <2> HIDE DEF old
  <2> DEFINE url == ~bedrock /\ form.url
             models == IF old.model = None THEN old.models ELSE old.models \cup {old.model}
             key == IF bedrock THEN None ELSE IF ui.key.masked THEN old.key ELSE ui.key.val
  <2>2. url \in BOOLEAN /\ models \in SUBSET Models
    BY <1>3, <2>1 DEF ProviderEntry
  <2>3. key \in {None, Blank, "custom"} /\ key \in Secrets
    BY <1>3, <2>1 DEF Homed, Secrets
  <2>4. e = [old EXCEPT !.url = url, !.proto = form.proto, !.models = models, !.key = key]
    OBVIOUS
  <2> HIDE DEF url, models, key, e
  <2> QED BY <1>3, <2>1, <2>2, <2>3, <2>4 DEF ProviderEntry
<1> HIDE DEF e
<1>5. /\ IsSection(moved, Names) /\ DOMAIN moved = (IF renamed THEN DOMAIN shown.customs \ {form.target} ELSE DOMAIN shown.customs)
      /\ \A n \in DOMAIN moved : moved[n].key \in {None, Blank, "custom"}
  <2>1. IsSection(shown.customs, Names) /\ \A n \in DOMAIN shown.customs : shown.customs[n].key \in {None, Blank, "custom"}
    BY <1>3 DEF IsConfig, Fit, KeysAtHome
  <2> DEFINE gone == Without(shown.customs, form.target)
  <2>2. /\ IsSection(gone, Names) /\ DOMAIN gone = DOMAIN shown.customs \ {form.target}
        /\ \A k \in DOMAIN shown.customs \ {form.target} : gone[k] = shown.customs[k]
    BY <2>1, WithoutFacts
  <2> HIDE DEF gone
  <2>3. \A n \in DOMAIN gone : gone[n].key \in {None, Blank, "custom"}
    BY <2>1, <2>2
  <2>4. moved = IF renamed THEN gone ELSE shown.customs
    BY DEF gone
  <2> HIDE DEF moved, renamed
  <2> QED BY <2>1, <2>2, <2>3, <2>4
<1> HIDE DEF moved
<1>6. /\ IsSection(customs, Names) /\ DOMAIN customs = DOMAIN moved \cup {form.name}
      /\ \A n \in DOMAIN customs : customs[n].key \in {None, Blank, "custom"}
  <2>1. IsSection(customs, Names) /\ DOMAIN customs = DOMAIN moved \cup {form.name} /\ customs[form.name] = e
    <3>1. form.name \in Names /\ e \in ProviderEntry /\ IsSection(moved, Names)
      BY <1>3, <1>4, <1>5
    <3> DEFINE n == form.name
    <3>2. n \in Names
      BY <3>1
    <3> HIDE DEF n
    <3>3. IsSection(Put(moved, n, e), Names) /\ DOMAIN Put(moved, n, e) = DOMAIN moved \cup {n} /\ Put(moved, n, e)[n] = e
      <4>1. IsSection(Put(moved, n, e), Names)
        BY ONLY <3>1, <3>2, PutFacts
      <4>2. DOMAIN Put(moved, n, e) = DOMAIN moved \cup {n}
        BY DEF Put
      <4>3. Put(moved, n, e)[n] = e
        BY DEF Put
      <4> QED BY <4>1, <4>2, <4>3
    <3> QED BY <3>3 DEF n
  <2>2. \A k \in DOMAIN moved : k # form.name => customs[k] = moved[k]
    BY DEF Put
  <2> HIDE DEF customs
  <2> QED BY <1>4, <1>5, <2>1, <2>2
<1> DEFINE p == IF renamed /\ shown.provider = form.target THEN form.name ELSE shown.provider
           m == IF renamed /\ shown.provider = form.target THEN None ELSE shown.model
<1>7. new = Config(p, m, shown.presets, customs, shown.llm)
  <2>1. kept = Config(p, m, shown.presets, shown.customs, shown.llm)
    <3>1. Activated(shown, form.name, None) = Config(form.name, None, shown.presets, shown.customs, shown.llm)
      BY <1>3, ActivatedWhole
    <3>2. shown = Config(shown.provider, shown.model, shown.presets, shown.customs, shown.llm)
      BY <1>3 DEF Whole
    <3> HIDE DEF renamed
    <3> QED BY <3>1, <3>2
  <2> HIDE DEF kept, p, m
  <2>2. Whole(kept) /\ kept.provider = p /\ kept.model = m /\ kept.presets = shown.presets /\ kept.llm = shown.llm
    BY <2>1, ConfigParts
  <2> HIDE DEF customs
  <2>3. [kept EXCEPT !.customs = customs] = Config(kept.provider, kept.model, kept.presets, customs, kept.llm)
    BY <2>2, WholeExcept
  <2>4. new = [kept EXCEPT !.customs = customs]
    BY DEF customs
  <2> QED BY <2>2, <2>3, <2>4
<1>8. /\ p \in Names \cup {None} /\ m \in Models \cup {None}
      /\ p = None \/ p \in DOMAIN customs \/ (p \in Presets /\ p \in DOMAIN shown.presets)
  <2> HIDE DEF customs
  <2>1. shown.provider \in Names \cup {None} /\ shown.model \in Models \cup {None}
    BY <1>3 DEF IsConfig
  <2>2. shown.provider = None \/ shown.provider \in DOMAIN shown.customs \/ (shown.provider \in Presets /\ shown.provider \in DOMAIN shown.presets)
    BY <1>3, HomeOfActive
  <2> QED BY <1>3, <1>5, <1>6, <2>1, <2>2
<1> HIDE DEF new, customs, p, m, renamed
<1>9. Fit(new) /\ new.customs = customs /\ new.llm = shown.llm
  BY ONLY <1>3, <1>6, <1>7, <1>8, CustomsFit
<1>10. CASE /\ SaveShown(new) /\ listed' = DOMAIN new.customs /\ form' = NoForm
            /\ ui' = [ui EXCEPT !.at = "model", !.who = form.name, !.row = None, !.key = NoField]
  <2>1. FilesFit'
    BY <1>1, <1>9, <1>10, SavedFits, FitParts DEF WizardInv
  <2> QED BY <1>1, <1>3, <1>10, <2>1, MadeKeeps
<1>11. CASE SaveFails(new, shown) /\ UNCHANGED form
  <2>1. FilesFit'
    BY <1>1, <1>9, <1>11, SaveFailsFits DEF WizardInv
  <2>2. ui' = ui
    BY <1>11 DEF SaveFails
  <2>3. Typing' /\ Where'
    BY <1>1, <1>11, <2>2 DEF WizardInv, Typing, Where
  <2>4. AtForms'
    BY <1>1, <1>11, <2>2 DEF WizardInv, AtForms
  <2> QED BY <1>1, <2>1, <2>3, <2>4, NotPromised DEF WizardInv
<1> QED BY <1>2, <1>10, <1>11

(* What the resolver ends with. *)
LEMMA RefusalParts ==
  ASSUME NEW why
  PROVE  /\ Refusal(why).end = "refused" /\ Refusal(why).why = why /\ ~Refusal(why).ran /\ Settles(Refusal(why))
         /\ Nothing.end = "nothing" /\ ~Nothing.ran /\ ~Settles(Nothing)
BY DEF Refusal, Nothing, Settles

(* What an endpoint is made of. *)
LEMMA EndpointParts ==
  ASSUME NEW provider, NEW model, NEW secret
  PROVE  LET r == Endpoint(provider, model, secret) IN
         /\ r.end = "endpoint" /\ ~r.ran /\ r.provider = provider /\ r.model = model /\ r.secret = secret /\ r.url /\ ~r.ambient
         /\ DOMAIN r = {"end", "why", "ran", "provider", "model", "secret", "ambient", "url"}
BY DEF Endpoint, Nothing

(* The same of one that is signed for. *)
LEMMA Signed ==
  ASSUME NEW provider, NEW model, NEW secret, NEW signs, NEW url
  PROVE  LET r == [Endpoint(provider, model, secret) EXCEPT !.ambient = signs, !.url = url] IN
         /\ r.end = "endpoint" /\ ~r.ran /\ r.provider = provider /\ r.model = model /\ r.secret = secret /\ r.url = url /\ r.ambient = signs
         /\ DOMAIN r = {"end", "why", "ran", "provider", "model", "secret", "ambient", "url"}
BY EndpointParts

(* A credential command that runs leaves the endpoint as it was, or refuses it. *)
LEMMA CommandRun ==
  ASSUME NEW endpoint, DOMAIN endpoint = {"end", "why", "ran", "provider", "model", "secret", "ambient", "url"}, NEW env
  PROVE  LET r == RunCommand(endpoint, env) IN
         /\ r.ran = TRUE
         /\ env.command => /\ r.end = endpoint.end /\ r.provider = endpoint.provider /\ r.model = endpoint.model /\ r.secret = endpoint.secret
                           /\ r.url = endpoint.url /\ r.ambient = endpoint.ambient
         /\ ~env.command => r.end = "refused" /\ r.why = "command"
<1>1. Refusal("command").end = "refused" /\ Refusal("command").why = "command" /\ "ran" \in DOMAIN Refusal("command")
  BY DEF Refusal, Nothing
<1> DEFINE a == [endpoint EXCEPT !.ran = TRUE]  b == [Refusal("command") EXCEPT !.ran = TRUE]
<1>2. /\ a.ran = TRUE /\ a.end = endpoint.end /\ a.provider = endpoint.provider /\ a.model = endpoint.model
      /\ a.secret = endpoint.secret /\ a.url = endpoint.url /\ a.ambient = endpoint.ambient
  OBVIOUS
<1>3. b.ran = TRUE /\ b.end = "refused" /\ b.why = "command"
  <2>1. DOMAIN Refusal("command") = {"end", "why", "ran", "provider", "model", "secret", "ambient", "url"}
    BY DEF Refusal, Nothing
  <2> QED BY <1>1, <2>1
<1>4. RunCommand(endpoint, env) = IF env.command THEN a ELSE b
  BY DEF RunCommand
<1> HIDE DEF a, b
<1> QED BY <1>2, <1>3, <1>4

(* The sources are asked in turn until one settles the matter. *)
LEMMA Asked ==
  ASSUME NEW a, NEW b, NEW c, NEW d, NEW e, Settles(e)
  PROVE  LET search == <<a, b, c, d, e>>
             r == search[CHOOSE i \in 1..5 : Settles(search[i]) /\ \A j \in 1..(i - 1) : ~Settles(search[j])] IN
         /\ r \in {a, b, c, d, e} /\ Settles(r)
         /\ Settles(a) => r = a
         /\ (~Settles(a) /\ Settles(b)) => r = b
         /\ ~Settles(a) => r \in {b, c, d, e}
<1> DEFINE search == <<a, b, c, d, e>>
           P(i) == Settles(search[i]) /\ \A j \in 1..(i - 1) : ~Settles(search[j])
           first == CHOOSE i \in 1..5 : P(i)
<1>1. search[1] = a /\ search[2] = b /\ search[3] = c /\ search[4] = d /\ search[5] = e
  OBVIOUS
<1> HIDE DEF search
<1>2. \E i \in 1..5 : P(i)
  <2>1. CASE Settles(a)
    <3>1. P(1)
      BY <1>1, <2>1
    <3> QED BY <3>1
  <2>2. CASE ~Settles(a) /\ Settles(b)
    <3>1. P(2)
      BY <1>1, <2>2
    <3> QED BY <3>1
  <2>3. CASE ~Settles(a) /\ ~Settles(b) /\ Settles(c)
    <3>1. \A j \in 1..2 : j = 1 \/ j = 2
      OBVIOUS
    <3>2. P(3)
      BY <1>1, <2>3, <3>1
    <3> QED BY <3>2
  <2>4. CASE ~Settles(a) /\ ~Settles(b) /\ ~Settles(c) /\ Settles(d)
    <3>1. \A j \in 1..3 : j = 1 \/ j = 2 \/ j = 3
      OBVIOUS
    <3>2. P(4)
      BY <1>1, <2>4, <3>1
    <3> QED BY <3>2
  <2>5. CASE ~Settles(a) /\ ~Settles(b) /\ ~Settles(c) /\ ~Settles(d)
    <3>1. \A j \in 1..4 : j = 1 \/ j = 2 \/ j = 3 \/ j = 4
      OBVIOUS
    <3>2. P(5)
      BY <1>1, <2>5, <3>1
    <3> QED BY <3>2
  <2> QED BY <2>1, <2>2, <2>3, <2>4, <2>5
<1>3. first \in 1..5 /\ P(first)
  <2> HIDE DEF P
  <2> QED BY <1>2
<1> HIDE DEF first
<1>4. Settles(search[first]) /\ search[first] \in {a, b, c, d, e}
  <2>1. first = 1 \/ first = 2 \/ first = 3 \/ first = 4 \/ first = 5
    BY <1>3
  <2> QED BY <1>1, <1>3, <2>1
<1>5. Settles(a) => first = 1
  BY <1>1, <1>3
<1>6. (~Settles(a) /\ Settles(b)) => first = 2
  <2>1. first # 1 => 1 \in 1..(first - 1)
    BY <1>3
  <2>2. (first # 1 /\ first # 2) => 2 \in 1..(first - 1)
    BY <1>3
  <2> QED BY <1>1, <1>3, <2>2
<1>7. ~Settles(a) => search[first] \in {b, c, d, e}
  <2>1. first = 1 \/ first = 2 \/ first = 3 \/ first = 4 \/ first = 5
    BY <1>3
  <2> QED BY <1>1, <1>3, <2>1
<1> QED BY <1>1, <1>4, <1>5, <1>6, <1>7 DEF search, first

(* The saved account serves the provider it belongs to, or is refused. *)
LEMMA AccountOutcome ==
  ASSUME NEW cfg, NEW e \in ProviderEntry, NEW opts, NEW env
  PROVE  LET r == ResolveChatGPT(cfg, e, opts, env)
             own == FirstOf(opts.model, FirstOf(e.model, cfg.model)) IN
         /\ ~r.ran
         /\ \/ r.end = "refused" /\ (r.why = "override" \/ (~env.account /\ r.why = "account"))
            \/ /\ r.end = "endpoint" /\ r.provider = cfg.provider /\ r.secret = "account" /\ r.url /\ e.key = None
               /\ own # None => r.model = own
<1> DEFINE own == FirstOf(opts.model, FirstOf(e.model, cfg.model))
           model == IF own # None THEN own ELSE CHOOSE m \in Models : TRUE
           r == ResolveChatGPT(cfg, e, opts, env)
<1>1. CASE e.url \/ e.proto # None \/ e.key # None \/ e.cmd # None \/ e.aux = "bad"
  <2>1. r = Refusal("override")
    BY <1>1 DEF ResolveChatGPT
  <2> QED BY <2>1, RefusalParts
<1>2. CASE ~(e.url \/ e.proto # None \/ e.key # None \/ e.cmd # None \/ e.aux = "bad") /\ ~env.account
  <2>1. r = Refusal("account")
    BY <1>2 DEF ResolveChatGPT
  <2> QED BY <1>2, <2>1, RefusalParts
<1>3. CASE ~(e.url \/ e.proto # None \/ e.key # None \/ e.cmd # None \/ e.aux = "bad") /\ env.account
  <2>1. r = Endpoint(cfg.provider, model, "account")
    BY <1>3 DEF ResolveChatGPT
  <2> HIDE DEF r, own
  <2>2. /\ r.end = "endpoint" /\ ~r.ran /\ r.provider = cfg.provider /\ r.model = model /\ r.secret = "account" /\ r.url
    BY <2>1, EndpointParts
  <2> QED BY <1>3, <2>2 DEF r, own
<1> QED BY <1>1, <1>2, <1>3

Reasons == {"protocol missing", "protocol unknown", "url missing", "no credential", "model unavailable", "no model", "bad setting"}

Means(why, n, e, opts, model, env) ==
  /\ why \in Reasons \cup {""}
  /\ why = "no credential" => InForce(n, e) = "token" /\ Credential(n, e, env) = None
  /\ why = "model unavailable" => opts.model # None
  /\ why = "no model" => model = None
  /\ why = "" => /\ InForce(n, e) \in Protocols /\ model # None
                 /\ InForce(n, e) = "token" => Credential(n, e, env) # None /\ (n \notin Presets => e.url)

(* Why a provider's entry is refused, and what it has when it is not. *)
LEMMA RefusalReasons ==
  ASSUME NEW n, NEW e \in ProviderEntry, NEW opts, NEW model, NEW env
  PROVE  Means(ProviderRefusal(n, e, opts, model, env), n, e, opts, model, env)
<1>1. InForce(n, e) \in Protocols \cup {None, "bogus"}
  BY DEF InForce, ProviderEntry, Protocols
<1>2. None # "bogus" /\ None # "token" /\ None # "bedrock"
  BY ConfigAssumption DEF Words
<1> QED BY <1>1, <1>2 DEF ProviderRefusal, Reasons, Protocols, Means

(* What a provider's entry ends with. *)
Offered(r, n, configured, e, model, opts, env) ==
  \/ r.end = "refused" /\ ~r.ran /\ r.why = "not configured" /\ ~configured
  \/ r.end = "refused" /\ ~r.ran /\ n \in External /\ (r.why = "override" \/ (~env.account /\ r.why = "account"))
  \/ /\ r.end = "refused" /\ ~r.ran /\ n \notin External /\ r.why \in Reasons
     /\ r.why = "no credential" => InForce(n, e) = "token" /\ Credential(n, e, env) = None
     /\ r.why = "model unavailable" => opts.model # None
     /\ r.why = "no model" => model = None
  \/ r.end = "refused" /\ r.ran /\ r.why = "command" /\ ~env.command
  \/ /\ r.end = "endpoint" /\ ~r.ran /\ n \in External /\ r.provider = n /\ r.secret = "account" /\ r.url /\ e.key = None
     /\ model # None => r.model = model
  \/ /\ r.end = "endpoint" /\ n \notin External /\ r.provider = n /\ r.model = model /\ model # None
     /\ Given(e.key) => r.secret = e.key
     /\ r.ran => r.secret = "command"
     /\ ~r.ambient => r.secret # None /\ (r.url \/ (n \in Ambient /\ ~e.url))

(* What a provider's entry ends with. *)
LEMMA ProviderOutcome ==
  ASSUME NEW cfg, IsConfig(cfg), NEW n \in Names, n = cfg.provider, NEW e, e = EntryOf(cfg, n), NEW opts, NEW env,
         NEW model, model = FirstOf(opts.model, FirstOf(e.model, cfg.model)), NEW configured, configured = (n \in DOMAIN cfg[Section(n)])
  PROVE  Offered(TryProviderConfig(cfg, opts, env), n, configured, e, model, opts, env)
<1> DEFINE why == ProviderRefusal(n, e, opts, model, env)
           signs == InForce(n, e) = "bedrock"
           secret == Credential(n, e, env)
           url == e.url \/ n \in Presets \ Ambient
           endpoint == [Endpoint(n, model, secret) EXCEPT !.ambient = signs, !.url = url]
           r == TryProviderConfig(cfg, opts, env)
<1>1. e \in ProviderEntry
  BY Parts DEF EntryOf, Section, Tabs
<1>2. Given(e.key) => secret = e.key
  BY DEF Credential
<1>3. Given(e.key) => e.key # "command"
  BY <1>1, ConfigAssumption DEF ProviderEntry, Secrets, Words, Given
<1>4. /\ why \in Reasons \cup {""}
      /\ why = "no credential" => InForce(n, e) = "token" /\ secret = None
      /\ why = "model unavailable" => opts.model # None
      /\ why = "no model" => model = None
      /\ why = "" => /\ InForce(n, e) \in Protocols /\ model # None
                     /\ InForce(n, e) = "token" => secret # None /\ (n \notin Presets => e.url)
  <2>1. Means(why, n, e, opts, model, env)
    BY <1>1, RefusalReasons
  <2> HIDE DEF why, secret
  <2>2. secret = Credential(n, e, env)
    BY DEF secret
  <2> QED BY <2>1, <2>2 DEF Means
<1>5. CASE n \notin DOMAIN cfg[Section(n)]
  <2>1. r = Refusal("not configured")
    BY <1>5 DEF TryProviderConfig
  <2> QED BY <1>5, <2>1, RefusalParts DEF Offered
<1>6. CASE n \in DOMAIN cfg[Section(n)] /\ n \in External
  <2>1. r = ResolveChatGPT(cfg, e, opts, env)
    BY <1>6 DEF TryProviderConfig
  <2> HIDE DEF r
  <2>2. /\ ~r.ran
        /\ \/ r.end = "refused" /\ (r.why = "override" \/ (~env.account /\ r.why = "account"))
           \/ /\ r.end = "endpoint" /\ r.provider = cfg.provider /\ r.secret = "account" /\ r.url /\ e.key = None
              /\ model # None => r.model = model
    BY <1>1, <2>1, AccountOutcome
  <2> QED BY <1>6, <2>2 DEF r, Offered
<1>7. CASE n \in DOMAIN cfg[Section(n)] /\ n \notin External /\ why # ""
  <2>1. r = Refusal(why)
    <3> HIDE DEF why
    <3> QED BY <1>7 DEF TryProviderConfig, why
  <2> HIDE DEF why, r
  <2>2. r.end = "refused" /\ ~r.ran /\ r.why = why
    BY <2>1, RefusalParts
  <2> QED BY <1>4, <1>7, <2>2 DEF r, Offered
<1>8. CASE n \in DOMAIN cfg[Section(n)] /\ n \notin External /\ why = ""
  <2>1. r = IF secret # "command" THEN endpoint
            ELSE IF signs THEN [endpoint EXCEPT !.secret = None] ELSE RunCommand(endpoint, env)
    BY <1>8 DEF TryProviderConfig
  <2>2. /\ endpoint.end = "endpoint" /\ ~endpoint.ran /\ endpoint.provider = n /\ endpoint.model = model /\ endpoint.secret = secret
        /\ endpoint.url = url /\ endpoint.ambient = signs
        /\ DOMAIN endpoint = {"end", "why", "ran", "provider", "model", "secret", "ambient", "url"}
    <3> HIDE DEF secret, signs, url
    <3> QED BY Signed
  <2>3. signs \in BOOLEAN /\ url \in BOOLEAN /\ model # None /\ (~signs => secret # None /\ (url \/ (n \in Ambient /\ ~e.url)))
    <3>1. InForce(n, e) \in Protocols /\ model # None /\ (InForce(n, e) = "token" => secret # None /\ (n \notin Presets => e.url))
      BY <1>4, <1>8
    <3>2. e.url \in BOOLEAN
      BY <1>1 DEF ProviderEntry
    <3> HIDE DEF secret
    <3> QED BY <3>1, <3>2 DEF Protocols
  <2> HIDE DEF r, endpoint, secret, signs, url, why
  <2>4. CASE secret # "command"
    <3>1. r = endpoint
      BY <2>1, <2>4
    <3>2. /\ r.end = "endpoint" /\ n \notin External /\ r.provider = n /\ r.model = model /\ model # None
          /\ Given(e.key) => r.secret = e.key
          /\ ~r.ran
          /\ ~r.ambient => r.secret # None /\ (r.url \/ (n \in Ambient /\ ~e.url))
      BY <1>2, <1>8, <2>2, <2>3, <3>1
    <3> QED BY <3>2 DEF r, Offered
  <2>5. CASE secret = "command" /\ signs
    <3> DEFINE b == [endpoint EXCEPT !.secret = None]
    <3>1. b.end = "endpoint" /\ ~b.ran /\ b.provider = n /\ b.model = model /\ b.url = url /\ b.ambient = signs
      BY <2>2
    <3>2. r = b
      BY <2>1, <2>5
    <3> HIDE DEF b
    <3>3. /\ r.end = "endpoint" /\ n \notin External /\ r.provider = n /\ r.model = model /\ model # None
          /\ Given(e.key) => r.secret = e.key
          /\ ~r.ran /\ r.ambient
      BY <1>2, <1>3, <1>8, <2>3, <2>5, <3>1, <3>2
    <3> QED BY <3>3 DEF r, Offered
  <2>6. CASE secret = "command" /\ ~signs
    <3>1. r = RunCommand(endpoint, env)
      BY <2>1, <2>6
    <3>2. /\ r.ran = TRUE
          /\ env.command => /\ r.end = endpoint.end /\ r.provider = endpoint.provider /\ r.model = endpoint.model
                            /\ r.secret = endpoint.secret /\ r.url = endpoint.url /\ r.ambient = endpoint.ambient
          /\ ~env.command => r.end = "refused" /\ r.why = "command"
      BY <2>2, <3>1, CommandRun
    <3>3. CASE env.command
      <4>1. /\ r.end = "endpoint" /\ n \notin External /\ r.provider = n /\ r.model = model /\ model # None
            /\ Given(e.key) => r.secret = e.key
            /\ r.secret = "command"
            /\ ~r.ambient => r.secret # None /\ (r.url \/ (n \in Ambient /\ ~e.url))
        BY <1>2, <1>8, <2>2, <2>3, <2>6, <3>2, <3>3
      <4> QED BY <4>1 DEF r, Offered
    <3>4. CASE ~env.command
      BY <3>2, <3>4 DEF r, Offered
    <3> QED BY <3>3, <3>4
  <2> QED BY <2>4, <2>5, <2>6
<1> QED BY <1>4, <1>5, <1>6, <1>7, <1>8

(* The configuration a run works with: the provider it names replaces the active one. *)
RunFor(cfg, opts) == IF opts.provider \in {None, cfg.provider} THEN cfg ELSE Activated(cfg, opts.provider, None)

(* A run's own provider replaces the active one, with the model remembered for that. *)
LEMMA RunForFacts ==
  ASSUME NEW cfg, IsConfig(cfg), NEW opts \in Options
  PROVE  LET named == RunFor(cfg, opts) IN
         /\ IsConfig(named) /\ named.provider \in Names \cup {None}
         /\ named.provider = (IF opts.provider # None THEN opts.provider ELSE cfg.provider)
         /\ named.presets = cfg.presets /\ named.customs = cfg.customs /\ named.llm = cfg.llm
         /\ named.model # None => named = cfg
<1> DEFINE named == RunFor(cfg, opts)
<1>1. CASE opts.provider \in {None, cfg.provider}
  <2>1. named = cfg
    BY <1>1 DEF RunFor
  <2>2. cfg.provider \in Names \cup {None}
    BY DEF IsConfig
  <2> QED BY <1>1, <2>1, <2>2
<1>2. CASE opts.provider \notin {None, cfg.provider}
  <2>1. opts.provider \in Names \cup {None} /\ opts.provider # None
    BY <1>2 DEF Options
  <2> DEFINE p == opts.provider
  <2>2. named = Activated(cfg, p, None) /\ p \in Names \cup {None}
    BY <1>2, <2>1 DEF RunFor
  <2> HIDE DEF named, p
  <2>3. /\ IsConfig(named) /\ named.provider = p /\ named.model = None
        /\ named.presets = cfg.presets /\ named.customs = cfg.customs /\ named.llm = cfg.llm
    BY <2>2, ActivatedFacts
  <2> QED BY <2>1, <2>3 DEF named, p
<1> QED BY <1>1, <1>2

(* An entry is read from the sections alone. *)
LEMMA EntriesOf ==
  ASSUME NEW a, NEW b, a.presets = b.presets, a.customs = b.customs
  PROVE  \A n : EntryOf(a, n) = EntryOf(b, n)
BY DEF EntryOf, Section

(* What the manual endpoint ends with. *)
ManualOffered(r, llm, model, env) ==
  \/ /\ r.end = "nothing" /\ ~r.ran
     /\ ~llm.url \/ model = None \/ (~Given(llm.token) /\ ~Given(llm.cmd))
  \/ r.end = "refused" /\ ~r.ran /\ r.why = "protocol unknown"
  \/ r.end = "refused" /\ r.ran /\ r.why = "command" /\ ~env.command
  \/ /\ r.end = "endpoint" /\ r.provider = None /\ r.model = model /\ r.secret # None /\ r.url /\ ~r.ambient
     /\ r.ran => r.secret = "command"
     /\ Given(llm.token) => r.secret = llm.token

(* What the manual endpoint ends with. *)
LEMMA LegacyOutcome ==
  ASSUME NEW cfg, IsConfig(cfg), NEW opts, NEW env, NEW model, model = FirstOf(opts.model, cfg.llm.model)
  PROVE  ManualOffered(TryLegacyLlmConfig(cfg, opts, env), cfg.llm, model, env)
<1> DEFINE secret == IF Given(cfg.llm.token) THEN cfg.llm.token ELSE IF Given(cfg.llm.cmd) THEN "command" ELSE None
           r == TryLegacyLlmConfig(cfg, opts, env)
           endpoint == Endpoint(None, model, secret)
<1>1. cfg.llm \in LlmConfig /\ cfg.llm.url \in BOOLEAN /\ cfg.llm.proto \in Protocols \cup {None, "bogus"} /\ None # "command"
  BY ConfigAssumption DEF IsConfig, LlmConfig, Words
<1>2. CASE ~cfg.llm.url \/ model = None \/ secret = None
  <2>1. r = Nothing
    BY <1>2 DEF TryLegacyLlmConfig
  <2>2. secret = None => ~Given(cfg.llm.token) /\ ~Given(cfg.llm.cmd)
    BY <1>1 DEF Given
  <2> HIDE DEF r, secret
  <2>3. r.end = "nothing" /\ ~r.ran
    BY <2>1, RefusalParts
  <2> QED BY <1>2, <2>2, <2>3 DEF r, ManualOffered
<1>3. CASE cfg.llm.url /\ model # None /\ secret # None /\ cfg.llm.proto \in {"bedrock", "bogus"}
  <2>1. r = Refusal("protocol unknown")
    BY <1>3 DEF TryLegacyLlmConfig
  <2> QED BY <2>1, RefusalParts DEF ManualOffered
<1>4. CASE cfg.llm.url /\ model # None /\ secret # None /\ cfg.llm.proto \notin {"bedrock", "bogus"}
  <2>1. r = IF secret = "command" THEN RunCommand(endpoint, env) ELSE endpoint
    BY <1>4 DEF TryLegacyLlmConfig
  <2> HIDE DEF r
  <2>2. Given(cfg.llm.token) => secret = cfg.llm.token
    OBVIOUS
  <2>3. Given(cfg.llm.token) => cfg.llm.token # "command"
    BY <1>1, ConfigAssumption DEF LlmConfig, Secrets, Words, Given
  <2> HIDE DEF secret
  <2>4. /\ endpoint.end = "endpoint" /\ ~endpoint.ran /\ endpoint.provider = None /\ endpoint.model = model /\ endpoint.secret = secret
        /\ endpoint.url /\ ~endpoint.ambient
        /\ DOMAIN endpoint = {"end", "why", "ran", "provider", "model", "secret", "ambient", "url"}
    BY EndpointParts
  <2> HIDE DEF endpoint
  <2>5. CASE secret = "command"
    <3>1. r = RunCommand(endpoint, env)
      BY <2>1, <2>5
    <3>2. /\ r.ran = TRUE
          /\ env.command => /\ r.end = endpoint.end /\ r.provider = endpoint.provider /\ r.model = endpoint.model
                            /\ r.secret = endpoint.secret /\ r.url = endpoint.url /\ r.ambient = endpoint.ambient
          /\ ~env.command => r.end = "refused" /\ r.why = "command"
      BY <2>4, <3>1, CommandRun
    <3>3. CASE env.command
      BY <1>1, <2>2, <2>3, <2>4, <2>5, <3>2, <3>3 DEF r, ManualOffered
    <3>4. CASE ~env.command
      BY <3>2, <3>4 DEF r, ManualOffered
    <3> QED BY <3>3, <3>4
  <2>6. CASE secret # "command"
    <3>1. r = endpoint
      BY <2>1, <2>6
    <3> QED BY <1>4, <2>2, <2>4, <3>1 DEF r, ManualOffered
  <2> QED BY <2>5, <2>6
<1> QED BY <1>2, <1>3, <1>4

(* No source of variables runs a command, and none serves a provider. *)
LEMMA VariablesOutcome ==
  ASSUME NEW source, NEW label, NEW opts
  PROVE  LET r == TryVariables(source, label, opts) IN
         ~r.ran /\ (r.end = "nothing" \/ (r.end = "refused" /\ r.why = "environment") \/ (r.end = "endpoint" /\ r.provider = None))
<1> DEFINE model == FirstOf(opts.model, CHOOSE m \in Models : TRUE)
           r == TryVariables(source, label, opts)
<1>1. r = Nothing \/ r = Refusal("environment") \/ r = Endpoint(None, model, label)
  BY DEF TryVariables
<1> HIDE DEF r, model
<1> QED BY <1>1, RefusalParts, EndpointParts DEF r

(* What a run is given, from the file and from the rest. *)
LEMMA Resolved ==
  ASSUME NEW cfg, NEW opts, NEW env
  PROVE  LET file == TryOCRConfig(cfg, opts, env)  r == ResolveEndpoint(cfg, opts, env) IN
         \/ r.end = "refused" /\ ~r.ran /\ ~env.overrides
         \/ r = file /\ env.overrides
         \/ /\ env.overrides /\ opts.provider = None /\ ~Settles(file) /\ ~r.ran
            /\ r.end = "refused" \/ (r.end = "endpoint" /\ r.provider = None)
<1> DEFINE file == TryOCRConfig(cfg, opts, env)  r == ResolveEndpoint(cfg, opts, env)
           b == TryOCREnv(opts, env)  c == TryCCEnv(opts, env)  d == TryShellRC(opts, env)  e == Refusal("unconfigured")
           search == <<file, b, c, d, e>>
           settled == search[CHOOSE i \in 1..5 : Settles(search[i]) /\ \A j \in 1..(i - 1) : ~Settles(search[j])]
<1>1. CASE ~env.overrides
  <2>1. r = Refusal("overrides")
    BY <1>1 DEF ResolveEndpoint
  <2> QED BY <1>1, <2>1, RefusalParts
<1>2. CASE env.overrides /\ opts.provider # None
  BY <1>2 DEF ResolveEndpoint
<1>3. CASE env.overrides /\ opts.provider = None
  <2>1. r = settled
    BY <1>3 DEF ResolveEndpoint
  <2>2. /\ \A s \in {b, c, d} : ~s.ran /\ (s.end = "nothing" \/ s.end = "refused" \/ (s.end = "endpoint" /\ s.provider = None))
        /\ ~e.ran /\ e.end = "refused" /\ Settles(e)
    <3>1. b = TryVariables(env.ocr, "ocr", opts) /\ c = TryVariables(env.claude, "claude", opts) /\ d = TryVariables(env.shell, "shell", opts)
      BY DEF TryOCREnv, TryCCEnv, TryShellRC
    <3> HIDE DEF b, c, d
    <3> QED BY <3>1, VariablesOutcome, RefusalParts
  <2> HIDE DEF b, c, d, e, file
  <2>3. /\ settled \in {file, b, c, d, e} /\ Settles(settled)
        /\ Settles(file) => settled = file
        /\ ~Settles(file) => settled \in {b, c, d, e}
    BY <2>2, Asked
  <2> HIDE DEF settled, r
  <2>4. r.end \in {"refused", "endpoint"}
    BY <2>1, <2>3 DEF Settles
  <2>5. CASE Settles(file)
    BY <1>3, <2>1, <2>3, <2>5 DEF r, file
  <2>6. CASE ~Settles(file)
    <3>1. ~r.ran /\ (r.end = "refused" \/ (r.end = "endpoint" /\ r.provider = None))
      BY <2>1, <2>2, <2>3, <2>4, <2>6
    <3> QED BY <1>3, <2>6, <3>1 DEF r, file
  <2> QED BY <2>5, <2>6
<1> QED BY <1>1, <1>2, <1>3

(* The file is asked for the provider of the run, or for the manual endpoint. *)
LEMMA FileFacts ==
  ASSUME NEW cfg, IsConfig(cfg), NEW opts \in Options, NEW env
  PROVE  LET named == RunFor(cfg, opts)
             r == TryOCRConfig(cfg, opts, env) IN
         /\ named.provider # None => r = TryProviderConfig(named, opts, env) /\ named.provider \in Names
         /\ named.provider = None => r = TryLegacyLlmConfig(named, opts, env)
<1>1. RunFor(cfg, opts).provider \in Names \cup {None}
  BY RunForFacts
<1> QED BY <1>1 DEF TryOCRConfig, RunFor

(* A credential command runs for an endpoint that uses it, or its failure is what is reported. *)
LEMMA CommandForUse ==
  ASSUME NEW cfg, IsConfig(cfg), NEW opts \in Options, NEW env
  PROVE  LET r == ResolveEndpoint(cfg, opts, env) IN
         r.ran => (r.end = "endpoint" /\ r.secret = "command") \/ (~env.command /\ r.why = "command")
<1> DEFINE named == RunFor(cfg, opts)  file == TryOCRConfig(cfg, opts, env)  r == ResolveEndpoint(cfg, opts, env)
<1>1. IsConfig(named)
  BY RunForFacts
<1>2. file.ran => (file.end = "endpoint" /\ file.secret = "command") \/ (~env.command /\ file.why = "command")
  <2> HIDE DEF named, file
  <2>1. CASE named.provider # None
    <3>1. file = TryProviderConfig(named, opts, env) /\ named.provider \in Names
      BY <2>1, FileFacts DEF named, file
    <3> DEFINE n == named.provider  e == EntryOf(named, n)  model == FirstOf(opts.model, FirstOf(e.model, named.model))
               configured == n \in DOMAIN named[Section(n)]
    <3>2. n \in Names /\ file = TryProviderConfig(named, opts, env)
      BY <3>1
    <3> HIDE DEF model, configured, e, n
    <3>3. Offered(file, n, configured, e, model, opts, env)
      BY <1>1, <3>2, ProviderOutcome DEF model, configured, e, n
    <3> QED BY <3>3 DEF Offered
  <2>2. CASE named.provider = None
    <3>1. file = TryLegacyLlmConfig(named, opts, env)
      BY <2>2, FileFacts DEF named, file
    <3>2. ManualOffered(file, named.llm, FirstOf(opts.model, named.llm.model), env)
      BY <1>1, <3>1, LegacyOutcome
    <3> QED BY <3>2 DEF ManualOffered
  <2> QED BY <2>1, <2>2
<1> HIDE DEF file, r
<1>3. \/ ~r.ran \/ r = file
  BY Resolved DEF file, r
<1> QED BY <1>2, <1>3 DEF r

(* A configured provider is served or refused, whatever other sources are complete. *)
LEMMA NotBypassed ==
  ASSUME NEW cfg, IsConfig(cfg), NEW opts \in Options, NEW env
  PROVE  LET r == ResolveEndpoint(cfg, opts, env)
             n == IF opts.provider # None THEN opts.provider ELSE cfg.provider IN
         (n # None /\ r.end = "endpoint" /\ ~(n \in Ambient /\ ~EntryOf(cfg, n).url)) =>
           /\ r.provider = n
           /\ opts.model # None => r.model = opts.model
           /\ (opts.model = None /\ EntryOf(cfg, n).model = None /\ n \notin External) => n = cfg.provider /\ r.model = cfg.model
<1> DEFINE named == RunFor(cfg, opts)  file == TryOCRConfig(cfg, opts, env)  r == ResolveEndpoint(cfg, opts, env)
           n == IF opts.provider # None THEN opts.provider ELSE cfg.provider
           e == EntryOf(cfg, n)
           model == FirstOf(opts.model, FirstOf(e.model, named.model))
<1>1. SUFFICES ASSUME n # None, r.end = "endpoint", ~(n \in Ambient /\ ~e.url)
      PROVE  /\ r.provider = n
             /\ opts.model # None => r.model = opts.model
             /\ (opts.model = None /\ e.model = None /\ n \notin External) => n = cfg.provider /\ r.model = cfg.model
  OBVIOUS
<1>2. IsConfig(named) /\ named.provider = n /\ n \in Names /\ named.presets = cfg.presets /\ named.customs = cfg.customs
      /\ (named.model # None => named = cfg)
  BY <1>1, RunForFacts
<1>3. EntryOf(named, n) = e
  BY <1>2, EntriesOf
<1>4. file = TryProviderConfig(named, opts, env)
  BY <1>1, <1>2, FileFacts
<1> HIDE DEF named, file, n
<1>5. \/ file.end = "refused"
      \/ /\ file.end = "endpoint" /\ n \in External /\ file.provider = n /\ file.secret = "account" /\ file.url
         /\ model # None => file.model = model
      \/ /\ file.end = "endpoint" /\ n \notin External /\ file.provider = n /\ file.model = model /\ model # None
         /\ ~file.ambient => file.secret # None /\ (file.url \/ (n \in Ambient /\ ~e.url))
  <2> DEFINE configured == n \in DOMAIN named[Section(n)]
  <2> HIDE DEF e, configured, model
  <2>1. model = FirstOf(opts.model, FirstOf(e.model, named.model)) /\ configured = (n \in DOMAIN named[Section(n)])
    BY DEF model, configured
  <2>2. Offered(file, n, configured, e, model, opts, env)
    BY <1>2, <1>3, <1>4, <2>1, ProviderOutcome
  <2> QED BY <2>2 DEF Offered
<1> HIDE DEF r, e, model
<1>6. Settles(file)
  <2>1. "account" # None
    BY ConfigAssumption DEF Words
  <2> QED BY <1>1, <1>5, <2>1 DEF Settles
<1>7. r = file
  BY <1>1, <1>6, Resolved DEF r, file
<1>8. r.provider = n /\ (model # None => r.model = model) /\ (n \notin External => model # None)
  BY <1>1, <1>5, <1>7
<1>9. opts.model # None => model = opts.model
  BY DEF model, FirstOf
<1>10. (opts.model = None /\ e.model = None) => model = named.model
  BY DEF model, FirstOf
<1> QED BY <1>2, <1>8, <1>9, <1>10

(* What the promise of a last step asks, of any file, key variable and promise. *)
Sources(var) == [overrides |-> TRUE, keyVar |-> var, ocr |-> "complete", claude |-> "complete", shell |-> "complete",
                 command |-> TRUE, account |-> TRUE]
Plain == [provider |-> None, model |-> None]
Serves(r, cfg, var, c) ==
  IF r.end = "refused" THEN r.why \in {"protocol missing", "protocol unknown", "url missing", "bad setting", "override"}
                            \/ (r.why = "no credential" /\ (c.by = "model" \/ c.stale \/ var = Blank))
  ELSE \/ /\ r.provider = c.provider /\ r.model = c.model
          /\ c.secret # None => r.secret = c.secret
       \/ c.provider \in Ambient /\ ~EntryOf(cfg, c.provider).url
Takes(cfg, var, c) ==
  (c.secret # Blank /\ ~Clash(cfg, c.provider)) => Serves(ResolveEndpoint(cfg, Plain, Sources(var)), cfg, var, c)

(* The promise, as asked of the file. *)
LEMMA TakesEffect == ChoiceTakesEffect <=> (chosen # None => Takes(disk, keyVar, chosen))
BY DEF ChoiceTakesEffect, Takes, Serves, Sources, Plain, Elsewhere

(* A file that has what was confirmed: the entry, or the manual endpoint. *)
Holds(cfg, var, c) ==
  /\ cfg.provider = c.provider /\ c.model \in Models
  /\ c.provider # None =>
       LET n == c.provider  e == EntryOf(cfg, n) IN
       /\ n \in Names /\ n \in DOMAIN cfg[Section(n)] /\ e.model = c.model /\ e.key = c.secret
       /\ \/ c.by = "model" \/ c.stale \/ c.secret = Blank \/ var = Blank \/ n \in External \/ InForce(n, e) # "token"
          \/ Credential(n, e, Sources(var)) # None
  /\ c.provider = None =>
       /\ cfg.llm.url /\ cfg.llm.model = c.model /\ cfg.llm.token = c.secret
       /\ c.secret # None \/ Given(cfg.llm.cmd)

(* When the file settles nothing another source does. *)
LEMMA PassedOver ==
  ASSUME NEW cfg, NEW var, ~Settles(TryOCRConfig(cfg, Plain, Sources(var)))
  PROVE  ResolveEndpoint(cfg, Plain, Sources(var)).end = "endpoint"
<1> DEFINE env == Sources(var)  model == FirstOf(Plain.model, CHOOSE m \in Models : TRUE)
           file == TryOCRConfig(cfg, Plain, env)  r == ResolveEndpoint(cfg, Plain, env)
           b == TryOCREnv(Plain, env)  c == TryCCEnv(Plain, env)  d == TryShellRC(Plain, env)  e == Refusal("unconfigured")
           search == <<file, b, c, d, e>>
           settled == search[CHOOSE i \in 1..5 : Settles(search[i]) /\ \A j \in 1..(i - 1) : ~Settles(search[j])]
<1>1. env.overrides /\ env.ocr = "complete" /\ Plain.provider = None
  BY DEF Sources, Plain
<1> HIDE DEF env
<1>2. r = settled
  BY <1>1 DEF ResolveEndpoint
<1>3. b = Endpoint(None, model, "ocr")
  BY <1>1 DEF TryOCREnv, TryVariables
<1>4. Settles(e) /\ ~Settles(file)
  BY RefusalParts DEF env
<1>5. b.end = "endpoint" /\ Settles(b)
  <2>1. "ocr" # None
    BY ConfigAssumption DEF Words
  <2> HIDE DEF b, model
  <2>2. b.end = "endpoint" /\ b.secret = "ocr" /\ b.url
    BY <1>3, EndpointParts
  <2> QED BY <2>1, <2>2 DEF Settles
<1> HIDE DEF b, c, d, e, file
<1>6. settled = b
  BY <1>4, <1>5, Asked
<1> QED BY <1>2, <1>5, <1>6 DEF env

(* A file that has what was confirmed is resolved to it. *)
LEMMA HeldServed ==
  ASSUME NEW cfg, IsConfig(cfg), NEW var, NEW c, Holds(cfg, var, c)
  PROVE  Takes(cfg, var, c)
<1> DEFINE env == Sources(var)  file == TryOCRConfig(cfg, Plain, env)  r == ResolveEndpoint(cfg, Plain, env)
<1>1. SUFFICES ASSUME c.secret # Blank PROVE Serves(r, cfg, var, c)
  BY DEF Takes
<1>2. /\ Plain \in Options /\ Plain.provider = None /\ Plain.model = None /\ env.command /\ env.account /\ env.overrides
      /\ RunFor(cfg, Plain) = cfg
  BY DEF Plain, Options, Sources, RunFor
<1>3. c.model # None
  BY ConfigAssumption DEF Holds
<1>4. ~Settles(file) => r.end = "endpoint"
  BY PassedOver
<1>5. Settles(file) => r = file
  <2> HIDE DEF env, file, r
  <2> QED BY <1>2, Resolved DEF file, r
<1>6. CASE c.provider # None
  <2> DEFINE n == c.provider  e == EntryOf(cfg, n)  model == FirstOf(Plain.model, FirstOf(e.model, cfg.model))
             configured == n \in DOMAIN cfg[Section(n)]
  <2>1. /\ n \in Names /\ n = cfg.provider /\ configured /\ e.model = c.model /\ e.key = c.secret
        /\ \/ c.by = "model" \/ c.stale \/ c.secret = Blank \/ var = Blank \/ n \in External \/ InForce(n, e) # "token"
           \/ Credential(n, e, env) # None
    BY <1>6 DEF Holds
  <2>2. model = c.model
    BY <1>2, <1>3, <2>1 DEF FirstOf
  <2>3. file = TryProviderConfig(cfg, Plain, env)
    <3> HIDE DEF env
    <3> QED BY <1>2, <1>6, <2>1, FileFacts
  <2>4. Offered(file, n, configured, e, model, Plain, env)
    <3> HIDE DEF env, file
    <3>1. e = EntryOf(cfg, n) /\ model = FirstOf(Plain.model, FirstOf(e.model, cfg.model)) /\ configured = (n \in DOMAIN cfg[Section(n)])
      OBVIOUS
    <3> HIDE DEF n, e, model, configured
    <3> QED BY <2>1, <2>3, <3>1, ProviderOutcome
  <2> HIDE DEF env, file, r, model, configured, e
  <2>5. CASE file.end = "refused"
    <3>1. file.why \in {"protocol missing", "protocol unknown", "url missing", "bad setting", "override"}
          \/ (file.why = "no credential" /\ (c.by = "model" \/ c.stale \/ var = Blank))
      BY <1>1, <1>2, <1>3, <2>1, <2>2, <2>4, <2>5 DEF Offered, Reasons
    <3>2. r = file
      BY <1>5, <2>5 DEF Settles
    <3> QED BY <2>5, <3>1, <3>2 DEF Serves, r
  <2>6. CASE file.end # "refused"
    <3>1. /\ file.end = "endpoint" /\ file.provider = n /\ file.model = c.model
          /\ c.secret # None => file.secret = c.secret
          /\ Settles(file) \/ (n \in Ambient /\ ~e.url)
      <4>1. "account" # None
        BY ConfigAssumption DEF Words
      <4> QED BY <1>1, <1>3, <2>1, <2>2, <2>4, <2>6, <4>1 DEF Offered, Settles, Given
    <3>2. CASE Settles(file)
      BY <1>5, <2>6, <3>1, <3>2 DEF Serves, r
    <3>3. CASE ~Settles(file)
      BY <1>4, <3>1, <3>3 DEF Serves, r, e
    <3> QED BY <3>2, <3>3
  <2> QED BY <2>5, <2>6
<1>7. CASE c.provider = None
  <2> DEFINE model == FirstOf(Plain.model, cfg.llm.model)
  <2>1. cfg.provider = None /\ cfg.llm.url /\ cfg.llm.model = c.model /\ cfg.llm.token = c.secret /\ (c.secret # None \/ Given(cfg.llm.cmd))
    BY <1>7 DEF Holds
  <2>2. model = c.model
    BY <1>2, <2>1 DEF FirstOf
  <2>3. file = TryLegacyLlmConfig(cfg, Plain, env)
    <3> HIDE DEF env
    <3> QED BY <1>2, <2>1, FileFacts
  <2> HIDE DEF env, file, r
  <2>4. ManualOffered(file, cfg.llm, model, env)
    BY <2>3, LegacyOutcome
  <2> HIDE DEF model
  <2>5. \/ file.end = "refused" /\ file.why = "protocol unknown"
        \/ /\ file.end = "endpoint" /\ file.provider = None /\ file.model = c.model /\ Settles(file)
           /\ c.secret # None => file.secret = c.secret
    BY <1>1, <1>2, <1>3, <2>1, <2>2, <2>4 DEF Given, Settles, ManualOffered
  <2>6. r = file
    BY <1>5, <2>5 DEF Settles
  <2> QED BY <1>7, <2>5, <2>6 DEF Serves, r
<1> QED BY <1>6, <1>7

(* The last step saves and ends. *)
LEMMA ConfirmKeeps ==
  ASSUME WizardInv, NEW new, Fit(new), NEW promise, Takes(new, keyVar, promise), Confirm(new, promise)
  PROVE  WizardInv'
<1>1. Leave /\ keyVar' = keyVar /\ ((disk' = new /\ chosen' = promise) \/ (disk' \in {disk, Broken} /\ chosen' = None))
  BY DEF Confirm, CutShort
<1>2. FilesFit' /\ Typing' /\ Where' /\ AtForms'
  BY <1>1, LeaveFits DEF WizardInv, FilesFit
<1>3. Promised'
  <2>1. CASE chosen' = None
    BY <2>1, NotPromised
  <2>2. CASE disk' = new /\ chosen' = promise
    <3>1. ChoiceTakesEffect'
      BY <1>1, <2>2 DEF ChoiceTakesEffect, Takes, Serves, Sources, Plain, Elsewhere
    <3>2. Sound'
      BY <2>2, FitParts DEF Sound
    <3> QED BY <3>1, <3>2 DEF Promised
  <2> QED BY <1>1, <2>1, <2>2
<1> QED BY <1>2, <1>3 DEF WizardInv

(* A wizard that ends without a save keeps the invariant. *)
LEMMA LeftKeeps ==
  ASSUME WizardInv, Leave, UNCHANGED <<disk, keyVar, edits, faults, chosen>>
  PROVE  WizardInv'
BY LeaveFits, PromiseStays DEF WizardInv, FilesFit

(* A key, a command or a variable is a credential. *)
LEMMA CredentialHad ==
  ASSUME NEW n, NEW e, NEW env, Given(e.key) \/ Given(e.cmd) \/ (n \in Keyed /\ Given(env.keyVar))
  PROVE  Credential(n, e, env) # None
<1>1. "command" # None /\ "variable" # None
  BY ConfigAssumption DEF Words
<1> QED BY <1>1 DEF Credential, Given

(* What a promise is made of. *)
LEMMA PromiseParts ==
  ASSUME NEW n, NEW m, NEW secret
  PROVE  LET c == Promise(n, m, secret) IN
         c.by = kind /\ c.stale = ~same /\ c.provider = n /\ c.model = m /\ c.secret = secret
BY DEF Promise

(* What the last step of a provider wizard puts into the file. *)
LEMMA AppliedFits ==
  ASSUME NEW cfg, Fit(cfg), ui.tab \in Tabs, ui.who \in Owners(ui.tab), NEW m \in Models,
         NEW e \in ProviderEntry, e.key \in {None, Blank, HomeOf(ui.tab, ui.who)}
  PROVE  LET new == Activated(WithEntry(cfg, e), ui.who, m) IN
         /\ Fit(new) /\ new.provider = ui.who /\ new.model = m
         /\ ui.who \in DOMAIN new[ui.tab] /\ new[ui.tab][ui.who] = e
<1> DEFINE w == WithEntry(cfg, e)  n == ui.who  new == Activated(w, n, m)
<1>1. Fit(w) /\ w[ui.tab] = Put(cfg[ui.tab], n, e) /\ n \in DOMAIN w[ui.tab]
  BY WithEntryFits
<1>2. n \in Names /\ m \in Models \cup {None} /\ ui.tab \in {"presets", "customs"} /\ (ui.tab = "presets" => n \in Presets)
  BY DEF Owners, Names, Tabs
<1>3. w[ui.tab][n] = e
  BY <1>1 DEF Put
<1> HIDE DEF w, n
<1>4. IsConfig(w) /\ KeysAtHome(w)
  BY <1>1 DEF Fit
<1>5. n \in DOMAIN w[Section(n)] \/ n \in DOMAIN w.customs
  BY <1>1, <1>2 DEF Section
<1>6. Fit(new)
  BY <1>2, <1>4, <1>5, ActivatedFits
<1>7. new.provider = n /\ new.model = m /\ new.presets = w.presets /\ new.customs = w.customs
  BY <1>2, <1>4, ActivatedFacts
<1> HIDE DEF new
<1>8. new[ui.tab] = w[ui.tab]
  BY <1>2, <1>7
<1> QED BY <1>1, <1>3, <1>6, <1>7, <1>8 DEF new, w, n

(* Applying a preset keeps the invariant: what the last look at its key let pass is served. *)
LEMMA OfficialKeeps ==
  ASSUME WizardInv, kind = "provider", ui.tab = "presets", ui.who \in Presets, NEW m \in Models,
         NEW secret \in {None, Blank, ui.who}, ApplyOfficialProviderConfig(m, secret)
  PROVE  WizardInv'
<1> DEFINE e == [Row(held) EXCEPT !.model = m, !.key = secret]
           new == Activated(WithEntry(held, e), ui.who, m)
           c == Promise(ui.who, m, secret)
<1>1. CASE ~KeyRequirementMet(secret)
  BY <1>1, LeftKeeps DEF ApplyOfficialProviderConfig
<1>2. CASE KeyRequirementMet(secret)
  <2>1. Confirm(new, c)
    BY <1>2 DEF ApplyOfficialProviderConfig
  <2>2. ui.tab \in Tabs /\ ui.who \in Owners(ui.tab) /\ HomeOf(ui.tab, ui.who) = ui.who /\ Fit(held) /\ secret \in Secrets
    BY DEF Tabs, Owners, HomeOf, WizardInv, FilesFit, Secrets
  <2>3. Row(held) \in ProviderEntry
    BY <2>2, RowFits
  <2>4. e \in ProviderEntry /\ e.key = secret /\ e.model = m /\ e.cmd = Row(held).cmd /\ e.proto = Row(held).proto
    BY <2>2, <2>3 DEF ProviderEntry
  <2> HIDE DEF e
  <2>5. Fit(new) /\ new.provider = ui.who /\ new.model = m /\ ui.who \in DOMAIN new[ui.tab] /\ new[ui.tab][ui.who] = e
    BY <2>2, <2>4, AppliedFits
  <2> HIDE DEF new
  <2>6. Section(ui.who) = ui.tab /\ EntryOf(new, ui.who) = e
    BY <2>5 DEF Section, EntryOf, At
  <2>7. \/ secret = Blank \/ keyVar = Blank \/ ui.who \in External \/ InForce(ui.who, e) # "token"
        \/ Credential(ui.who, e, Sources(keyVar)) # None
    <3>1. CASE Given(secret) \/ Given(e.cmd) \/ (ui.who \in Keyed /\ Given(keyVar))
      <4>1. Sources(keyVar).keyVar = keyVar
        BY DEF Sources
      <4> QED BY <2>4, <3>1, <4>1, CredentialHad
    <3>2. CASE UsesExternal(ui.who, Row(held))
      BY <2>4, <3>2 DEF UsesExternal, InForce
    <3>3. \/ Given(secret) \/ secret = Blank \/ Given(e.cmd) \/ UsesExternal(ui.who, Row(held))
          \/ (ui.who \in Keyed /\ (Given(keyVar) \/ keyVar = Blank))
      BY <1>2, <2>4 DEF KeyRequirementMet, Given
    <3> QED BY <3>1, <3>2, <3>3
  <2>8. c.by = kind /\ c.stale = ~same /\ c.provider = ui.who /\ c.model = m /\ c.secret = secret
    BY PromiseParts
  <2> HIDE DEF c
  <2>9. Holds(new, keyVar, c)
    <3>1. ui.who # None /\ ui.who \in Names
      BY ConfigAssumption DEF Names
    <3> QED BY <2>4, <2>5, <2>6, <2>7, <2>8, <3>1 DEF Holds
  <2>10. Takes(new, keyVar, c)
    BY <2>5, <2>9, HeldServed DEF Fit
  <2> QED BY <2>1, <2>5, <2>10, ConfirmKeeps
<1> QED BY <1>1, <1>2

(* So does applying a custom provider: its key step asked for a key or a command. *)
LEMMA CustomKeeps ==
  ASSUME WizardInv, ui.tab = "customs", ui.who \in Names, NEW m \in Models,
         NEW secret \in {None, Blank, "custom"}, same => secret # None \/ Given(Row(held).cmd), ApplyCustomProviderConfig(m, secret)
  PROVE  WizardInv'
<1> DEFINE row == Row(shown)
           e == [Row(held) EXCEPT !.model = m, !.models = (IF row.models # {} THEN row.models ELSE @) \cup {m},
                   !.url = row.url \/ @, !.proto = IF row.proto # None THEN row.proto ELSE @, !.key = secret]
           new == Activated(WithEntry(held, e), ui.who, m)
           c == Promise(ui.who, m, secret)
<1>1. Confirm(new, c)
  BY DEF ApplyCustomProviderConfig
<1>2. ui.tab \in Tabs /\ ui.who \in Owners(ui.tab) /\ HomeOf(ui.tab, ui.who) = "custom" /\ Fit(held) /\ Fit(shown) /\ secret \in Secrets
  BY DEF Tabs, Owners, HomeOf, WizardInv, FilesFit, Secrets
<1>3. Row(held) \in ProviderEntry /\ row \in ProviderEntry
  BY <1>2, RowFits
<1>4. e \in ProviderEntry /\ e.key = secret /\ e.model = m /\ e.cmd = Row(held).cmd
  <2> DEFINE old == Row(held)
             models == (IF row.models # {} THEN row.models ELSE old.models) \cup {m}
             url == row.url \/ old.url
             proto == IF row.proto # None THEN row.proto ELSE old.proto
  <2>1. models \in SUBSET Models /\ url \in BOOLEAN /\ proto \in Protocols \cup {None, "bogus"}
    BY <1>3 DEF ProviderEntry
  <2>2. e = [old EXCEPT !.model = m, !.models = models, !.url = url, !.proto = proto, !.key = secret]
    OBVIOUS
  <2>3. old \in ProviderEntry
    BY <1>3
  <2>4. old.cmd = Row(held).cmd
    OBVIOUS
  <2> HIDE DEF models, url, proto, e, old, row
  <2> QED BY <1>2, <2>1, <2>2, <2>3, <2>4 DEF ProviderEntry
<1> HIDE DEF e, row
<1>5. Fit(new) /\ new.provider = ui.who /\ new.model = m /\ ui.who \in DOMAIN new[ui.tab] /\ new[ui.tab][ui.who] = e
  BY <1>2, <1>4, AppliedFits
<1> HIDE DEF new
<1>6. c.by = kind /\ c.stale = ~same /\ c.provider = ui.who /\ c.model = m /\ c.secret = secret
  BY PromiseParts
<1> HIDE DEF c
<1>7. Takes(new, keyVar, c)
  <2>1. CASE Clash(new, ui.who)
    BY <1>6, <2>1 DEF Takes
  <2>2. CASE ~Clash(new, ui.who)
    <3>1. ui.who \notin Presets
      BY <1>5, <2>2 DEF Clash
    <3>2. Section(ui.who) = ui.tab /\ EntryOf(new, ui.who) = e
      BY <1>5, <3>1 DEF Section, EntryOf, At
    <3>3. ~same \/ secret = Blank \/ Credential(ui.who, e, Sources(keyVar)) # None
      <4>1. (Given(secret) \/ Given(e.cmd)) => Credential(ui.who, e, Sources(keyVar)) # None
        BY <1>4, CredentialHad
      <4> QED BY <1>4, <4>1 DEF Given
    <3>4. Holds(new, keyVar, c)
      <4>1. ui.who # None
        BY ConfigAssumption DEF Names
      <4> QED BY <1>4, <1>5, <1>6, <3>2, <3>3, <4>1 DEF Holds
    <3> QED BY <1>5, <3>4, HeldServed DEF Fit
  <2> QED BY <2>1, <2>2
<1> QED BY <1>1, <1>5, <1>7, ConfirmKeeps

(* So does choosing a model, the last step for a provider without a key of its own. *)
LEMMA SelectModelKeeps ==
  ASSUME WizardInv, SelectModel
  PROVE  WizardInv'
<1>1. kind = "provider" /\ ui.at = "model"
  BY DEF SelectModel
<1>2. ModelList \subseteq Models /\ ui.tab \in Tabs /\ ui.who \in Owners(ui.tab)
  BY <1>1, AtModels DEF WizardInv
<1>3. PICK m \in ModelList :
        IF Official /\ UsesExternal(ui.who, Row(shown))
        THEN ApplyOfficialProviderConfig(m, FieldValue(KeyLeft))
        ELSE /\ ui' = [ui EXCEPT !.at = "key", !.row = m, !.key = Masked(Row(shown).key)]
             /\ Stay /\ UNCHANGED form
  BY DEF SelectModel
<1>4. CASE Official /\ UsesExternal(ui.who, Row(shown))
  <2>1. FieldValue(KeyLeft) = None
    BY DEF FieldValue, KeyLeft, NoField
  <2>2. ui.tab = "presets" /\ ui.who \in Presets /\ m \in Models
    BY <1>2, <1>4 DEF Official, Owners
  <2>3. ApplyOfficialProviderConfig(m, None)
    BY <1>3, <1>4, <2>1
  <2> QED BY <1>1, <2>2, <2>3, OfficialKeeps
<1>5. CASE ~(Official /\ UsesExternal(ui.who, Row(shown)))
  <2>1. Stay /\ form' = form /\ ui' = [ui EXCEPT !.at = "key", !.row = m, !.key = Masked(Row(shown).key)]
    BY <1>3, <1>5
  <2> QED BY <1>1, <2>1, EnterKeyKeeps
<1> QED BY <1>4, <1>5

(* So does confirming the key. *)
LEMMA ConfirmKeyKeeps ==
  ASSUME WizardInv, ConfirmAPIKey
  PROVE  WizardInv'
<1>1. ui.at = "key" /\ APIKeyStepCanConfirm
  BY DEF ConfirmAPIKey
<1>2. /\ kind = "provider" /\ ui.tab \in Tabs /\ ui.who \in Owners(ui.tab) /\ ui.row \in Models /\ ui.key \in Fields
      /\ Homed(ui.key, HomeOf(ui.tab, ui.who)) /\ (~ui.key.masked => ui.key.orig = None)
  BY <1>1, UiParts DEF WizardInv, Where, AtForms, FilesFit
<1> DEFINE secret == FieldValue(ui.key)
<1>3. secret \in {None, Blank, HomeOf(ui.tab, ui.who)}
  BY <1>2, FieldHomed
<1>4. CASE Official
  <2>1. ui.tab = "presets" /\ ui.who \in Presets /\ HomeOf(ui.tab, ui.who) = ui.who /\ ApplyOfficialProviderConfig(ui.row, secret)
    BY <1>2, <1>4 DEF Official, Owners, HomeOf, ConfirmAPIKey
  <2> HIDE DEF secret
  <2> QED BY <1>2, <1>3, <2>1, OfficialKeeps
<1>5. CASE ~Official
  <2>1. ui.tab = "customs" /\ ui.who \in Names /\ HomeOf(ui.tab, ui.who) = "custom" /\ ApplyCustomProviderConfig(ui.row, secret)
    BY <1>2, <1>5 DEF Official, Owners, HomeOf, ConfirmAPIKey, Tabs
  <2>2. same => secret # None \/ Given(Row(held).cmd)
    <3>1. same => held = shown
      BY DEF WizardInv, FilesFit
    <3>2. ui.key.orig # None \/ (~ui.key.masked /\ ui.key.val # None) \/ Given(Row(shown).cmd)
      BY <1>1, <1>5 DEF APIKeyStepCanConfirm
    <3>3. secret # None \/ Given(Row(shown).cmd)
      BY <1>2, <3>2 DEF FieldValue
    <3> QED BY <3>1, <3>3
  <2> HIDE DEF secret
  <2> QED BY <1>2, <1>3, <2>1, <2>2, CustomKeeps
<1> QED BY <1>4, <1>5

(* So does applying the manual endpoint. *)
LEMMA ApplyManualKeeps ==
  ASSUME WizardInv, ApplyManualConfig
  PROVE  WizardInv'
<1> DEFINE token == ManualToken(form.token)
           l == [held.llm EXCEPT !.url = TRUE, !.model = form.model, !.token = token, !.proto = "token"]
           bare == Activated(held, None, None)
           new == [bare EXCEPT !.llm = [@ EXCEPT !.url = TRUE, !.model = form.model, !.token = token, !.proto = "token"]]
           c == Promise(None, form.model, token)
<1>1. Confirm(new, c) /\ ui.at = "manual" /\ form.step = 5
  BY DEF ApplyManualConfig
<1>2. /\ Fit(held) /\ held.llm = shown.llm /\ form.token \in Fields /\ form.model \in Models
      /\ Homed(form.token, "manual") /\ form.token.orig \in {None, Blank, "manual"}
      /\ token # None \/ Given(held.llm.cmd)
  BY <1>1, UiParts DEF WizardInv, FilesFit, AtForms
<1>3. token \in {None, Blank, "manual"} /\ token \in Secrets
  BY <1>2 DEF ManualToken, Homed, Secrets
<1> HIDE DEF token
<1>4. Fit(bare) /\ bare.provider = None /\ bare.llm = held.llm
  <2>1. IsConfig(held) /\ KeysAtHome(held)
    BY <1>2 DEF Fit
  <2> QED BY <2>1, ActivatedFits, ActivatedFacts
<1> HIDE DEF bare
<1>5. held.llm \in LlmConfig
  BY <1>2, FitParts
<1>6. l \in LlmConfig /\ l.url = TRUE /\ l.model = form.model /\ l.token = token /\ l.cmd = held.llm.cmd
  <2> DEFINE old == held.llm
  <2>1. old \in LlmConfig /\ "token" \in Protocols
    BY <1>5 DEF Protocols
  <2>2. l = [old EXCEPT !.url = TRUE, !.model = form.model, !.token = token, !.proto = "token"]
    OBVIOUS
  <2> HIDE DEF old, l
  <2>3. l \in LlmConfig /\ l.url = TRUE /\ l.model = form.model /\ l.token = token /\ l.cmd = old.cmd
    BY <1>2, <1>3, <2>1, <2>2 DEF LlmConfig
  <2> QED BY <2>3 DEF old
<1>7. new = [bare EXCEPT !.llm = l]
  BY <1>4
<1> HIDE DEF l, new
<1>8. Fit(new) /\ new.llm = l /\ new.provider = None
  BY <1>3, <1>4, <1>6, <1>7, LlmFits
<1>9. c.by = kind /\ c.stale = ~same /\ c.provider = None /\ c.model = form.model /\ c.secret = token
  BY PromiseParts
<1> HIDE DEF c
<1>10. Holds(new, keyVar, c)
  BY <1>2, <1>6, <1>8, <1>9 DEF Holds
<1>11. Takes(new, keyVar, c)
  BY <1>8, <1>10, HeldServed DEF Fit
<1> QED BY <1>1, <1>8, <1>11, ConfirmKeeps

(* So does the model chosen in the wizard of models. *)
LEMMA SelectOnlyKeeps ==
  ASSUME WizardInv, SelectModelOnly
  PROVE  WizardInv'
<1>1. kind = "model" /\ ui.at = "model"
  BY DEF SelectModelOnly
<1>2. /\ ui.tab \in Tabs /\ ui.who \in Owners(ui.tab) /\ Fit(held) /\ ModelList \subseteq Models
      /\ held.provider = ui.who /\ ui.tab = Section(ui.who)
  BY <1>1, AtModels DEF WizardInv, Where
<1>3. PICK m \in ModelList :
        LET e == [Row(held) EXCEPT !.model = m, !.models = IF m \in Registered THEN @ ELSE @ \cup {m}] IN
        Confirm([WithEntry(held, e) EXCEPT !.model = m], Promise(ui.who, m, Row(held).key))
  BY DEF SelectModelOnly
<1> DEFINE e == [Row(held) EXCEPT !.model = m, !.models = IF m \in Registered THEN @ ELSE @ \cup {m}]
           w == WithEntry(held, e)
           new == [w EXCEPT !.model = m]
           c == Promise(ui.who, m, Row(held).key)
<1>4. Confirm(new, c) /\ m \in Models /\ m \in Models \cup {None}
  BY <1>2, <1>3
<1>5. Row(held) \in ProviderEntry /\ Row(held).key \in {None, Blank, HomeOf(ui.tab, ui.who)}
  BY <1>2, RowFits
<1>6. e \in ProviderEntry /\ e.key = Row(held).key /\ e.model = m
  BY <1>4, <1>5 DEF ProviderEntry
<1> HIDE DEF e
<1>7. Fit(w) /\ w.provider = held.provider /\ w[ui.tab] = Put(held[ui.tab], ui.who, e) /\ ui.who \in DOMAIN w[ui.tab]
  BY <1>2, <1>5, <1>6, WithEntryFits
<1> HIDE DEF w
<1>8. Fit(new) /\ new.provider = ui.who /\ new.presets = w.presets /\ new.customs = w.customs
  BY <1>2, <1>4, <1>7, ModelFits
<1> HIDE DEF new
<1>9. new[ui.tab] = w[ui.tab] /\ w[ui.tab][ui.who] = e
  BY <1>2, <1>7, <1>8 DEF Put, Tabs
<1>10. EntryOf(new, ui.who) = e /\ ui.who \in DOMAIN new[Section(ui.who)]
  BY <1>2, <1>7, <1>9 DEF EntryOf, At
<1>11. c.by = kind /\ c.stale = ~same /\ c.provider = ui.who /\ c.model = m /\ c.secret = Row(held).key
  BY PromiseParts
<1> HIDE DEF c
<1>12. Holds(new, keyVar, c)
  <2>1. ui.who \in Names /\ ui.who # None
    BY <1>2, ConfigAssumption DEF Owners, Names, Tabs
  <2> QED BY <1>1, <1>4, <1>6, <1>8, <1>10, <1>11, <2>1 DEF Holds
<1>13. Takes(new, keyVar, c)
  BY <1>8, <1>12, HeldServed DEF Fit
<1> QED BY <1>4, <1>8, <1>13, ConfirmKeeps

(* The whole wizard. *)
LEMMA InitHolds == ASSUME ConfigInit PROVE WizardInv
<1>1. PICK start \in Starts : disk = start.file /\ keyVar = start.keyVar
  BY DEF ConfigInit
<1>2. Fit(disk) /\ keyVar \in {None, Blank, "set"}
  BY <1>1, StartAssumption DEF Fit
<1>3. FilesFit
  BY <1>2, EmptyFits DEF ConfigInit, FilesFit, ShownIsSaved
<1>4. Typing
  <2>1. ui \in [at : Screens, tab : Tabs, who : Names \cup {None}, row : Models \cup {None}, key : Fields]
    BY SecretFields DEF ConfigInit, Closed, Screens, Tabs
  <2> QED BY <2>1, NoFormTyped DEF ConfigInit, Typing, Forms
<1>5. Where /\ AtForms
  BY DEF ConfigInit, Closed, Where, AtForms
<1> QED BY <1>3, <1>4, <1>5 DEF WizardInv, Promised, ConfigInit

(* A step of something else keeps the invariant. *)
LEMMA StutterKeeps == ASSUME WizardInv, UNCHANGED configVars PROVE WizardInv'
<1>1. Stay /\ ui' = ui /\ form' = form
  BY DEF configVars, Stay
<1>2. FilesFit' /\ Promised'
  BY <1>1, StayKeeps DEF WizardInv
<1>3. kind' = kind /\ held' = held /\ shown' = shown
  BY <1>1 DEF Stay
<1>4. Typing' /\ Where'
  BY <1>1, <1>3 DEF WizardInv, Typing, Where
<1>5. AtForms'
  BY <1>1, <1>3 DEF WizardInv, AtForms
<1> QED BY <1>2, <1>4, <1>5 DEF WizardInv

(* Every step keeps the invariant. *)
LEMMA NextKeeps == ASSUME WizardInv, [ConfigNext]_configVars PROVE WizardInv'
<1>1. CASE Wizard
  <2>1. CASE Cancel \/ Back
    BY <2>1, CancelKeeps, BackKeeps
  <2>2. CASE HandleEnterProvider \/ AskDelete \/ ConfirmDelete \/ AskName \/ PersistCustomModelName \/ PersistAddedModelName
    BY <2>2, EnterProviderKeeps, AskDeleteKeeps, ConfirmDeleteKeeps, AskNameKeeps, PersistKeeps DEF PersistCustomModelName, PersistAddedModelName
  <2>3. CASE AskDeleteModel \/ ConfirmDeleteCustomModel \/ ConfirmDeleteOfficialModel
             \/ ConfirmDeleteCustomProviderModel \/ ConfirmDeleteOfficialProviderModel
    <3> USE DEF ConfirmDeleteCustomModel, ConfirmDeleteOfficialModel, ConfirmDeleteCustomProviderModel, ConfirmDeleteOfficialProviderModel
    <3> QED BY <2>3, AskDeleteModelKeeps, DeleteModelKeeps
  <2>4. CASE EnterCreate \/ EnterEditCustomProvider \/ TypeKey \/ HandleCustomFormEnter \/ ChooseProtocol
    BY <2>4, EnterCreateKeeps, EnterEditKeeps, TypeKeyKeeps, CustomFormKeeps, ChooseProtocolKeeps
  <2>5. CASE ApplyCreateCustomProvider \/ ApplyEditCustomProviderSave
    BY <2>5, CreateKeeps, EditKeeps
  <2>6. CASE SelectModel \/ TypeAPIKey \/ ConfirmAPIKey
    BY <2>6, SelectModelKeeps, TypeAPIKeyKeeps, ConfirmKeyKeeps
  <2>7. CASE EnterManual \/ HandleManualFormEnter \/ ApplyManualConfig \/ SelectModelOnly
    BY <2>7, EnterManualKeeps, ManualFormKeeps, ApplyManualKeeps, SelectOnlyKeeps
  <2> QED BY <1>1, <2>1, <2>2, <2>3, <2>4, <2>5, <2>6, <2>7 DEF Wizard
<1>2. CASE UNCHANGED configVars
  BY <1>2, StutterKeeps
<1> QED BY <1>1, <1>2, CommandKeeps, RepairKeeps, OpenProviderKeeps, OpenModelKeeps DEF ConfigNext

(* In every state the file is fit or was cut short, the two objects of a wizard
   are fit and agree on what no wizard step saves, every key field holds what
   was typed for the provider it is saved under, and a confirmed choice is what
   is resolved. *)
THEOREM WizardInvariant == ConfigSpec => []WizardInv
BY InitHolds, NextKeeps, PTL DEF ConfigSpec

(* However a wizard was left and whatever of its saves failed: the file is what
   was shown, its active provider has an entry, and every secret is with what it
   was typed for; for any presets, names, models and start files that are sound. *)
THEOREM FileStaysSound == ConfigSpec => []FileSound
<1>1. WizardInv => FileSound
  BY DEF WizardInv, FilesFit, FileSound, KeysStayHome, ActiveConfigured, Fit, Sound
<1> QED BY <1>1, WizardInvariant, PTL

(* What a wizard confirmed is what the resolver serves, a credential command runs
   only for an endpoint that uses it, and a configured provider is never passed
   over for another source; for any environments and options of runs. *)
THEOREM RunsAsChosen == ConfigSpec => []ResolvedAsChosen
<1>1. ASSUME WizardInv PROVE ResolvedAsChosen
  <2>1. ChoiceTakesEffect
    BY <1>1 DEF WizardInv, Promised, ChoiceTakesEffect
  <2>2. Sound => IsConfig(disk)
    BY <1>1 DEF WizardInv, FilesFit, Fit, Sound
  <2>3. CommandOnlyForUse
    BY <2>2, RunAssumption, CommandForUse DEF CommandOnlyForUse
  <2>4. ProviderNotBypassed
    BY <2>2, RunAssumption, NotBypassed DEF ProviderNotBypassed
  <2> QED BY <2>1, <2>3, <2>4 DEF ResolvedAsChosen
<1> QED BY <1>1, WizardInvariant, PTL

(* What the last step keeps of the file. *)
LEMMA KeptAll ==
  ASSUME NEW old, NEW new, new.presets = old.presets, new.customs = old.customs
  PROVE  Keeps(old, new)
BY DEF Keeps, Tabs

(* The same of two configurations with the same sections. *)
LEMMA KeptAlike ==
  ASSUME NEW old, NEW w, NEW new, Keeps(old, w), new.presets = w.presets, new.customs = w.customs
  PROVE  Keeps(old, new)
<1>1. \A tab \in Tabs : new[tab] = w[tab]
  BY DEF Tabs
<1> QED BY <1>1 DEF Keeps

(* An entry written back with its models and its unknown fields keeps the file's. *)
LEMMA EntryKept ==
  ASSUME NEW cfg, Fit(cfg), ui.tab \in Tabs, ui.who \in Owners(ui.tab),
         NEW e \in ProviderEntry, e.key \in {None, Blank, HomeOf(ui.tab, ui.who)},
         Row(cfg).models \subseteq e.models, Row(cfg).unknown => e.unknown
  PROVE  Keeps(cfg, WithEntry(cfg, e))
<1> DEFINE w == WithEntry(cfg, e)
<1>1. w[ui.tab] = Put(cfg[ui.tab], ui.who, e) /\ \A other \in Tabs : other # ui.tab => w[other] = cfg[other]
  BY WithEntryFits
<1> HIDE DEF w
<1>2. \A n \in DOMAIN cfg[ui.tab] : /\ n \in DOMAIN w[ui.tab]
                                    /\ n # ui.who => w[ui.tab][n] = cfg[ui.tab][n]
                                    /\ n = ui.who => w[ui.tab][n] = e /\ cfg[ui.tab][n] = Row(cfg)
  BY <1>1 DEF Put, Row, At
<1>3. ASSUME NEW section \in Tabs, NEW n \in DOMAIN cfg[section]
      PROVE  /\ n \in DOMAIN w[section] /\ cfg[section][n].models \subseteq w[section][n].models
             /\ cfg[section][n].unknown => w[section][n].unknown
  <2>1. CASE section # ui.tab
    <3>1. w[section] = cfg[section]
      BY <1>1, <2>1
    <3> QED BY <3>1
  <2>2. CASE section = ui.tab /\ n # ui.who
    <3>1. w[section][n] = cfg[section][n] /\ n \in DOMAIN w[section]
      BY <1>2, <2>2
    <3> QED BY <3>1
  <2>3. CASE section = ui.tab /\ n = ui.who
    <3>1. w[section][n] = e /\ cfg[section][n] = Row(cfg) /\ n \in DOMAIN w[section]
      BY <1>2, <2>3
    <3> QED BY <3>1
  <2> QED BY <2>1, <2>2, <2>3
<1> QED BY <1>3 DEF Keeps, w

(* So does applying it. *)
LEMMA AppliedKeeps ==
  ASSUME NEW cfg, Fit(cfg), ui.tab \in Tabs, ui.who \in Owners(ui.tab), NEW m \in Models,
         NEW e \in ProviderEntry, e.key \in {None, Blank, HomeOf(ui.tab, ui.who)},
         Row(cfg).models \subseteq e.models, Row(cfg).unknown => e.unknown
  PROVE  Keeps(cfg, Activated(WithEntry(cfg, e), ui.who, m))
<1> DEFINE w == WithEntry(cfg, e)  n == ui.who  new == Activated(w, n, m)
<1>1. Keeps(cfg, w)
  BY EntryKept
<1>2. IsConfig(w)
  BY WithEntryFits DEF Fit
<1>3. n \in Names \cup {None} /\ m \in Models \cup {None}
  BY DEF Owners, Names, Tabs
<1> HIDE DEF w, n
<1>4. new.presets = w.presets /\ new.customs = w.customs
  BY <1>2, <1>3, ActivatedFacts
<1> HIDE DEF new
<1>5. Keeps(cfg, new)
  BY <1>1, <1>4, KeptAlike
<1> QED BY <1>5 DEF new, w, n

(* A last step that saved has saved what it applied. *)
LEMMA Applied ==
  ASSUME NEW new, NEW promise, Confirm(new, promise), disk' \notin {disk, Broken}
  PROVE  disk' = new
BY DEF Confirm, CutShort

(* Applying a preset keeps what the session saved. *)
LEMMA OfficialKept ==
  ASSUME WizardInv, ui.tab = "presets", ui.who \in Presets, NEW m \in Models, NEW secret \in {None, Blank, ui.who},
         ApplyOfficialProviderConfig(m, secret), disk' \notin {disk, Broken}
  PROVE  Keeps(held, disk')
<1> DEFINE e == [Row(held) EXCEPT !.model = m, !.key = secret]
           new == Activated(WithEntry(held, e), ui.who, m)
<1>1. Confirm(new, Promise(ui.who, m, secret))
  BY DEF ApplyOfficialProviderConfig
<1>2. ui.tab \in Tabs /\ ui.who \in Owners(ui.tab) /\ HomeOf(ui.tab, ui.who) = ui.who /\ Fit(held) /\ secret \in Secrets
  BY DEF Tabs, Owners, HomeOf, WizardInv, FilesFit, Secrets
<1>3. Row(held) \in ProviderEntry
  BY <1>2, RowFits
<1>4. e \in ProviderEntry /\ e.key = secret /\ e.models = Row(held).models /\ e.unknown = Row(held).unknown
  BY <1>2, <1>3 DEF ProviderEntry
<1> HIDE DEF e
<1>5. Keeps(held, new)
  BY <1>2, <1>4, AppliedKeeps
<1> HIDE DEF new
<1>6. disk' = new
  BY <1>1, Applied
<1> QED BY <1>5, <1>6

(* So does applying a custom provider, with the models it shows. *)
LEMMA CustomKept ==
  ASSUME WizardInv, ui.tab = "customs", ui.who \in Names, NEW m \in Models, NEW secret \in {None, Blank, "custom"},
         held = shown, ApplyCustomProviderConfig(m, secret), disk' \notin {disk, Broken}
  PROVE  Keeps(held, disk')
<1> DEFINE row == Row(shown)
           e == [Row(held) EXCEPT !.model = m, !.models = (IF row.models # {} THEN row.models ELSE @) \cup {m},
                   !.url = row.url \/ @, !.proto = IF row.proto # None THEN row.proto ELSE @, !.key = secret]
           new == Activated(WithEntry(held, e), ui.who, m)
<1>1. Confirm(new, Promise(ui.who, m, secret))
  BY DEF ApplyCustomProviderConfig
<1>2. ui.tab \in Tabs /\ ui.who \in Owners(ui.tab) /\ HomeOf(ui.tab, ui.who) = "custom" /\ Fit(held) /\ secret \in Secrets
  BY DEF Tabs, Owners, HomeOf, WizardInv, FilesFit, Secrets
<1>3. Row(held) \in ProviderEntry /\ row = Row(held)
  BY <1>2, RowFits DEF Row
<1>4. e \in ProviderEntry /\ e.key = secret /\ Row(held).models \subseteq e.models /\ e.unknown = Row(held).unknown
  <2> DEFINE old == Row(held)
             models == (IF row.models # {} THEN row.models ELSE old.models) \cup {m}
             url == row.url \/ old.url
             proto == IF row.proto # None THEN row.proto ELSE old.proto
  <2>1. models \in SUBSET Models /\ url \in BOOLEAN /\ proto \in Protocols \cup {None, "bogus"} /\ old.models \subseteq models
    BY <1>3 DEF ProviderEntry
  <2>2. e = [old EXCEPT !.model = m, !.models = models, !.url = url, !.proto = proto, !.key = secret]
    OBVIOUS
  <2>3. old \in ProviderEntry
    BY <1>3
  <2> HIDE DEF models, url, proto, e, old, row
  <2>4. e \in ProviderEntry /\ e.key = secret /\ e.models = models /\ e.unknown = old.unknown
    BY <1>2, <2>1, <2>2, <2>3 DEF ProviderEntry
  <2> QED BY <2>1, <2>4 DEF old
<1> HIDE DEF e, row
<1>5. Keeps(held, new)
  BY <1>2, <1>4, AppliedKeeps
<1> HIDE DEF new
<1>6. disk' = new
  BY <1>1, Applied
<1> QED BY <1>5, <1>6

(* So does applying the manual endpoint, which touches no entry. *)
LEMMA ManualKept ==
  ASSUME WizardInv, ApplyManualConfig, disk' \notin {disk, Broken}
  PROVE  Keeps(held, disk')
<1> DEFINE bare == Activated(held, None, None)
           l == [bare.llm EXCEPT !.url = TRUE, !.model = form.model, !.token = ManualToken(form.token), !.proto = "token"]
           new == [bare EXCEPT !.llm = l]
           c == Promise(None, form.model, ManualToken(form.token))
<1>1. Confirm(new, c)
  BY DEF ApplyManualConfig
<1>2. disk' = new
  <2> HIDE DEF new, c
  <2> QED BY <1>1, Applied
<1>3. IsConfig(bare) /\ bare.presets = held.presets /\ bare.customs = held.customs
  <2>1. IsConfig(held)
    BY DEF WizardInv, FilesFit, Fit
  <2> QED BY <2>1, ActivatedFacts
<1> HIDE DEF bare, l
<1>4. new = Config(bare.provider, bare.model, bare.presets, bare.customs, l)
  BY <1>3, ConfigOf, WholeExcept
<1> HIDE DEF new
<1>5. new.presets = held.presets /\ new.customs = held.customs
  BY <1>3, <1>4, ConfigParts
<1> QED BY <1>2, <1>5, KeptAll

(* So does the model chosen in the wizard of models. *)
LEMMA SelectOnlyKept ==
  ASSUME WizardInv, SelectModelOnly, disk' \notin {disk, Broken}
  PROVE  Keeps(held, disk')
<1>1. ui.at = "model" /\ kind = "model"
  BY DEF SelectModelOnly
<1>2. ui.tab \in Tabs /\ ui.who \in Owners(ui.tab) /\ Fit(held) /\ ModelList \subseteq Models
  BY <1>1, AtModels DEF WizardInv
<1>3. PICK m \in ModelList :
        LET e == [Row(held) EXCEPT !.model = m, !.models = IF m \in Registered THEN @ ELSE @ \cup {m}] IN
        Confirm([WithEntry(held, e) EXCEPT !.model = m], Promise(ui.who, m, Row(held).key))
  BY DEF SelectModelOnly
<1> DEFINE e == [Row(held) EXCEPT !.model = m, !.models = IF m \in Registered THEN @ ELSE @ \cup {m}]
           w == WithEntry(held, e)
           new == [w EXCEPT !.model = m]
           c == Promise(ui.who, m, Row(held).key)
<1>4. Confirm(new, c) /\ m \in Models /\ m \in Models \cup {None}
  BY <1>2, <1>3
<1>5. disk' = new
  <2> HIDE DEF new, c
  <2> QED BY <1>4, Applied
<1>6. Row(held) \in ProviderEntry /\ Row(held).key \in {None, Blank, HomeOf(ui.tab, ui.who)}
  BY <1>2, RowFits
<1>7. e \in ProviderEntry /\ e.key = Row(held).key /\ Row(held).models \subseteq e.models /\ e.unknown = Row(held).unknown
  BY <1>4, <1>6 DEF ProviderEntry
<1> HIDE DEF e
<1>8. Keeps(held, w) /\ Fit(w)
  BY <1>2, <1>6, <1>7, EntryKept, WithEntryFits
<1> HIDE DEF w
<1>9. new.presets = w.presets /\ new.customs = w.customs
  BY <1>4, <1>8, ModelFits
<1> HIDE DEF new
<1> QED BY <1>5, <1>8, <1>9, KeptAlike

(* The last step of any wizard that saved keeps what the session saved. *)
LEMMA LastStepKept ==
  ASSUME WizardInv, Wizard, LastStep, same
  PROVE  Keeps(shown, disk')
<1>1. held = shown /\ kind # "none" /\ kind' = "none" /\ disk' \notin {disk, Broken} /\ kind' # kind
  BY DEF WizardInv, FilesFit, LastStep
<1>2. ~Stay /\ ~Kept
  BY <1>1 DEF Stay, Kept
<1>3. SelectModel \/ ConfirmAPIKey \/ ApplyManualConfig \/ SelectModelOnly
  <2>1. ~Cancel /\ ~Back
    BY <1>1, <1>2 DEF Cancel, Back
  <2>2. ~(HandleEnterProvider \/ AskDelete \/ ConfirmDelete \/ AskName \/ PersistCustomModelName \/ PersistAddedModelName)
    BY <1>2 DEF HandleEnterProvider, AskDelete, ConfirmDelete, AskName, PersistCustomModelName, PersistAddedModelName, PersistModel
  <2>3. ~(AskDeleteModel \/ ConfirmDeleteCustomModel \/ ConfirmDeleteOfficialModel
          \/ ConfirmDeleteCustomProviderModel \/ ConfirmDeleteOfficialProviderModel)
    BY <1>2 DEF AskDeleteModel, ConfirmDeleteCustomModel, ConfirmDeleteOfficialModel, ConfirmDeleteCustomProviderModel,
                ConfirmDeleteOfficialProviderModel, DeleteModel
  <2>4. ~(EnterCreate \/ EnterEditCustomProvider \/ TypeKey \/ HandleCustomFormEnter \/ ChooseProtocol
          \/ ApplyCreateCustomProvider \/ ApplyEditCustomProviderSave)
    BY <1>2 DEF EnterCreate, EnterEditCustomProvider, TypeKey, HandleCustomFormEnter, ChooseProtocol,
                ApplyCreateCustomProvider, ApplyEditCustomProviderSave
  <2>5. ~(TypeAPIKey \/ EnterManual \/ HandleManualFormEnter)
    BY <1>2 DEF TypeAPIKey, EnterManual, HandleManualFormEnter
  <2> QED BY <2>1, <2>2, <2>3, <2>4, <2>5 DEF Wizard
<1>4. CASE SelectModel
  <2>1. ui.at = "model"
    BY <1>4 DEF SelectModel
  <2>2. ModelList \subseteq Models /\ ui.tab \in Tabs /\ ui.who \in Owners(ui.tab)
    BY <2>1, AtModels DEF WizardInv
  <2>3. PICK m \in ModelList : Official /\ ApplyOfficialProviderConfig(m, FieldValue(KeyLeft))
    BY <1>2, <1>4 DEF SelectModel
  <2>4. FieldValue(KeyLeft) = None
    BY DEF FieldValue, KeyLeft, NoField
  <2>5. ui.tab = "presets" /\ ui.who \in Presets /\ m \in Models /\ ApplyOfficialProviderConfig(m, None)
    BY <2>2, <2>3, <2>4 DEF Official, Owners
  <2> QED BY <1>1, <2>5, OfficialKept
<1>5. CASE ConfirmAPIKey
  <2> DEFINE secret == FieldValue(ui.key)
  <2>1. ui.at = "key"
    BY <1>5 DEF ConfirmAPIKey
  <2>2. /\ ui.tab \in Tabs /\ ui.who \in Owners(ui.tab) /\ ui.row \in Models /\ ui.key \in Fields
        /\ Homed(ui.key, HomeOf(ui.tab, ui.who))
    BY <2>1, UiParts DEF WizardInv, Where, AtForms
  <2>3. secret \in {None, Blank, HomeOf(ui.tab, ui.who)}
    BY <2>2, FieldHomed
  <2>4. CASE Official
    <3>1. ui.tab = "presets" /\ ui.who \in Presets /\ HomeOf(ui.tab, ui.who) = ui.who /\ ApplyOfficialProviderConfig(ui.row, secret)
      BY <1>5, <2>2, <2>4 DEF Official, Owners, HomeOf, ConfirmAPIKey
    <3> HIDE DEF secret
    <3> QED BY <1>1, <2>2, <2>3, <3>1, OfficialKept
  <2>5. CASE ~Official
    <3>1. ui.tab = "customs" /\ ui.who \in Names /\ HomeOf(ui.tab, ui.who) = "custom" /\ ApplyCustomProviderConfig(ui.row, secret)
      BY <1>5, <2>2, <2>5 DEF Official, Owners, HomeOf, ConfirmAPIKey, Tabs
    <3> HIDE DEF secret
    <3> QED BY <1>1, <2>2, <2>3, <3>1, CustomKept
  <2> QED BY <2>4, <2>5
<1>6. CASE ApplyManualConfig \/ SelectModelOnly
  BY <1>1, <1>6, ManualKept, SelectOnlyKept
<1> QED BY <1>3, <1>4, <1>5, <1>6

(* The command's last save keeps the providers and the models the session saved
   and the fields the program does not know, while command and wizard hold one
   object; for any configuration. *)
THEOREM SessionStaysKept == ConfigSpec => SessionKept
<1>1. ASSUME WizardInv, [ConfigNext]_configVars PROVE [LastStep /\ same => Keeps(shown, disk')]_configVars
  <2>1. CASE Wizard
    BY <1>1, <2>1, LastStepKept
  <2>2. CASE Command \/ Repair \/ OpenProviderWizard \/ OpenModelWizard
    BY <2>2 DEF Command, Repair, OpenProviderWizard, OpenModelWizard, Loaded, LastStep
  <2>3. CASE UNCHANGED configVars
    BY <2>3
  <2> QED BY <1>1, <2>1, <2>2, <2>3 DEF ConfigNext
<1> QED BY <1>1, WizardInvariant, PTL DEF ConfigSpec, SessionKept

---------------------------------------------------------------------------
(* The requests to it.                                                      *)

Errors == {"reset", "refused", "ok", "panic", "cut", "integrity", "json", "status", "foreign", "cancelled", "deadline"}
Classes == {"none", "authentication", "cancelled", "timeout", "network", "unknown", "provider"}
Phases == {"none", "http", "context", "transport", "response_decode", "stream", "response_status"}
Outcomes == {"none", "cancelled", "failed", "recovered", "succeeded"}
Record == [attempts : Seq([class : Classes, phase : Phases]), finalized : BOOLEAN, outcome : Outcomes, violation : BOOLEAN]

(* The entry of a request, its last attempt, and whether it has one.         *)
Recorded(r) == r \in DOMAIN entries
LastFails(e) == e.attempts[Len(e.attempts)] # Success

Types ==
  /\ client \in Kinds
  /\ pc \in [Request -> {"new", "waiting", "calling", "backoff", "returned", "done"}]
  /\ context \in [Request -> {"live", "cancelled", "expired"}]
  /\ call \in [Request -> {1, 2}] /\ left \in [Request -> 0..MaxRetries]
  /\ answer \in [Request -> [status : {0, 200, 401}, err : Errors \cup {"none"}, again : BOOLEAN]]
  /\ reply \in [Request -> Errors \cup {"none", "unusable"}]
  /\ DOMAIN entries \subseteq Request \ Unnamed /\ entries \in [DOMAIN entries -> Record]
  /\ run \in {"running", "dispatched", "joined", "frozen"}

(* No attempt was made before a request is called, and one that is called for *)
(* the first time with all its retries has none; so a client that refuses to  *)
(* work has nothing to report.                                               *)
Untried(r) ==
  /\ pc[r] \in {"new", "waiting"} => call[r] = 1 /\ left[r] = MaxRetries /\ ~Recorded(r)
  /\ pc[r] = "calling" /\ call[r] = 1 /\ left[r] = MaxRetries => ~Recorded(r)
  /\ pc[r] = "backoff" => call[r] = 2 \/ left[r] < MaxRetries

(* Until it is done its entry is open, and it has an attempt.                 *)
Opened(r) == Recorded(r) /\ pc[r] # "done" => Len(entries[r].attempts) > 0 /\ ~entries[r].finalized /\ ~entries[r].violation

(* What the SDK may return to which client, and what of it was seen in the    *)
(* attempt already.                                                          *)
Answered(r) ==
  pc[r] = "returned" =>
    /\ answer[r].err \in Errors
    /\ answer[r].err \in {"status", "foreign"} => client \in {"responses", "responses stream"}
    /\ answer[r].err = "integrity" => client \in Streaming
    /\ answer[r].err \in {"reset", "refused"} /\ Recorded(r) => LastFails(entries[r])

(* Once it is done its entry agrees with what its caller was told.            *)
Told(r) ==
  Recorded(r) /\ pc[r] = "done" =>
    LET e == entries[r] IN
    /\ Len(e.attempts) > 0 /\ e.finalized /\ ~e.violation
    /\ e.outcome = IF context[r] = "cancelled" THEN "cancelled" ELSE IF reply[r] # "ok" THEN "failed"
                   ELSE IF HasErrorAttempt(e) THEN "recovered" ELSE "succeeded"
    /\ reply[r] \notin {"ok", "panic", "foreign"} => HasErrorAttempt(e)
    /\ reply[r] \in {"cut", "json", "integrity", "status"} => LastFails(e)

StateKept(r) == Untried(r) /\ Opened(r) /\ Answered(r) /\ Told(r)

(* The places of the limit are those of the requests in flight.               *)
Places == Limit > 0 => slots = {r \in Request : InFlight(r)} /\ IsFiniteSet(slots) /\ Cardinality(slots) <= Limit

(* When the report is frozen no request can change it any more.              *)
Quiet ==
  /\ run # "running" => \A r \in Request \ Job : pc[r] \in {"new", "done"}
  /\ run \in {"joined", "frozen"} => \A r \in Request : pc[r] \in {"new", "done"}
  /\ report = IF run = "frozen" THEN Freeze(entries) ELSE NoReport

QInv == Types /\ (\A r \in Request : StateKept(r)) /\ Places /\ Quiet
(* Entries that may be written to, with an open one for r if there is one.    *)
OpenAt(es, r) ==
  /\ DOMAIN es \subseteq Request \ Unnamed /\ es \in [DOMAIN es -> Record]
  /\ r \in DOMAIN es => Len(es[r].attempts) > 0 /\ ~es[r].finalized /\ ~es[r].violation
SameBut(es, fs, r) == DOMAIN es \ {r} = DOMAIN fs \ {r} /\ \A x \in DOMAIN es \ {r} : es[x] = fs[x]
Faults == [class : Classes, phase : Phases] \ {Success}

(* The last element of a sequence that is not empty, and what replacing it    *)
(* and adding one more leaves.                                               *)
LEMMA LastFacts ==
  ASSUME NEW S, NEW s \in Seq(S), NEW x \in S
  PROVE  /\ Len(s) \in Nat
         /\ Len(s) > 0 => LET t == [s EXCEPT ![Len(s)] = x] IN t \in Seq(S) /\ Len(t) = Len(s) /\ t[Len(s)] = x
         /\ Append(s, x) \in Seq(S) /\ Len(Append(s, x)) = Len(s) + 1 /\ Append(s, x)[Len(s) + 1] = x
OBVIOUS

(* A sequence that is not empty has a last element.                           *)
LEMMA LastIn == ASSUME NEW S, NEW s \in Seq(S), Len(s) > 0 PROVE s[Len(s)] \in S
OBVIOUS

(* A correction changes the last attempt of r only, and only a success.       *)
LEMMA ReviseFacts ==
  ASSUME NEW es, NEW r, NEW fault \in Faults, OpenAt(es, r)
  PROVE  LET fs == ReviseLastAttempt(es, r, fault) IN
         /\ OpenAt(fs, r) /\ SameBut(fs, es, r) /\ DOMAIN fs = DOMAIN es
         /\ r \in DOMAIN es => LastFails(fs[r])
<1> DEFINE fs == ReviseLastAttempt(es, r, fault)
<1>1. CASE r \notin DOMAIN es
  BY <1>1 DEF OpenAt, SameBut, ReviseLastAttempt
<1>2. CASE r \in DOMAIN es
  <2> DEFINE n == Len(es[r].attempts)
             last == IF es[r].attempts[n] = Success THEN fault ELSE es[r].attempts[n]
             new == [es[r] EXCEPT !.attempts = [es[r].attempts EXCEPT ![n] = last]]
  <2>1. es[r] \in Record /\ n \in Nat /\ n > 0 /\ ~es[r].finalized /\ ~es[r].violation /\ es[r].attempts \in Seq([class : Classes, phase : Phases])
    <3>1. es[r] \in Record /\ Len(es[r].attempts) > 0 /\ ~es[r].finalized /\ ~es[r].violation
      BY <1>2 DEF OpenAt
    <3>2. es[r].attempts \in Seq([class : Classes, phase : Phases])
      BY <3>1 DEF Record
    <3> QED BY <3>1, <3>2
  <2>2. fs = [es EXCEPT ![r] = new]
    BY <1>2, <2>1 DEF ReviseLastAttempt, OpenAt, Record
  <2>3. last \in [class : Classes, phase : Phases] /\ last # Success
    <3>1. es[r].attempts[n] \in [class : Classes, phase : Phases]
      BY <2>1, LastIn
    <3> QED BY <3>1 DEF Faults
  <2> HIDE DEF last
  <2>4. /\ [es[r].attempts EXCEPT ![n] = last] \in Seq([class : Classes, phase : Phases])
        /\ Len([es[r].attempts EXCEPT ![n] = last]) = n /\ [es[r].attempts EXCEPT ![n] = last][n] = last
    BY <2>1, <2>3, LastFacts
  <2>5. new \in Record /\ Len(new.attempts) = n /\ new.attempts[n] = last /\ ~new.finalized /\ ~new.violation
    BY <2>1, <2>4 DEF Record
  <2> HIDE DEF new, n
  <2>6. DOMAIN fs = DOMAIN es /\ fs \in [DOMAIN fs -> Record] /\ fs[r] = new /\ SameBut(fs, es, r)
    BY <1>2, <2>2, <2>5 DEF OpenAt, SameBut
  <2> HIDE DEF fs
  <2>7. OpenAt(fs, r) /\ LastFails(fs[r])
    BY <2>1, <2>3, <2>5, <2>6 DEF OpenAt, LastFails
  <2> QED BY <2>6, <2>7 DEF fs
<1> QED BY <1>1, <1>2
(* An attempt opens the entry of a request that has an identity, or is added  *)
(* to it; it fails as it is classified.                                      *)
LEMMA AttemptFacts ==
  ASSUME NEW r \in Request, NEW a \in [status : {0, 200, 401}, err : Errors \cup {"none"}, again : BOOLEAN], OpenAt(entries, r)
  PROVE  LET es == RecordAttempt(r, a) IN
         /\ OpenAt(es, r) /\ SameBut(es, entries, r)
         /\ r \in DOMAIN es => LastFails(es[r]) = (ClassifyAttempt(a) # Success)
<1> DEFINE es == RecordAttempt(r, a)
           old == IF r \in DOMAIN entries THEN entries[r] ELSE NewEntry
           s == old.attempts
           F == [class : Classes, phase : Phases]
           x == ClassifyAttempt(a)
           new == [old EXCEPT !.attempts = Append(s, x)]
<1>1. x \in F
  BY DEF ClassifyAttempt, Fault, Success, Classes, Phases
<1>2. <<>> \in Seq(F)
  OBVIOUS
<1>3. old \in Record /\ ~old.finalized
  BY <1>2 DEF OpenAt, NewEntry, Record, Outcomes
<1>4. s \in Seq(F)
  BY <1>3 DEF Record
<1> HIDE DEF x
<1>5. Append(s, x) \in Seq(F) /\ Len(Append(s, x)) = Len(s) + 1 /\ Append(s, x)[Len(s) + 1] = x /\ Len(s) \in Nat
  BY <1>1, <1>4, LastFacts
<1>6. new \in Record /\ new.attempts = Append(s, x) /\ ~new.finalized /\ (~old.violation => ~new.violation)
  BY <1>3, <1>5 DEF Record
<1>7. ~old.violation
  BY DEF OpenAt, NewEntry
<1>8. LastFails(new) = (x # Success) /\ Len(new.attempts) > 0
  BY <1>5, <1>6 DEF LastFails
<1>9. CASE ~Named(r)
  <2>1. es = entries /\ r \notin DOMAIN entries
    BY <1>9 DEF RecordAttempt, Named, OpenAt
  <2> QED BY <2>1 DEF SameBut
<1>10. CASE Named(r)
  <2>1. es = [y \in DOMAIN entries \cup {r} |-> IF y = r THEN new ELSE entries[y]]
    BY <1>3, <1>10 DEF RecordAttempt, Entry, With, x
  <2> HIDE DEF new, old, s, es
  <2>2. DOMAIN es = DOMAIN entries \cup {r} /\ es \in [DOMAIN es -> Record] /\ es[r] = new
    BY <1>6, <2>1 DEF OpenAt
  <2>3. SameBut(es, entries, r)
    BY <2>1 DEF SameBut
  <2>4. DOMAIN es \subseteq Request \ Unnamed
    BY <1>10, <2>2 DEF OpenAt, Named
  <2> QED BY <1>6, <1>7, <1>8, <2>2, <2>3, <2>4 DEF OpenAt, x, es
<1> QED BY <1>9, <1>10

(* At the boundary the entry is closed with the outcome its caller sees.      *)
LEMMA FinalizeFacts ==
  ASSUME NEW es, NEW r \in Request, NEW e \in Errors \cup {"unusable"}, OpenAt(es, r)
  PROVE  LET fs == FinalizeRequest(es, r, e) IN
         /\ DOMAIN fs = DOMAIN es /\ fs \in [DOMAIN fs -> Record] /\ SameBut(fs, es, r)
         /\ r \in DOMAIN es =>
              /\ Len(fs[r].attempts) > 0 /\ fs[r].finalized /\ ~fs[r].violation
              /\ fs[r].outcome = IF context[r] = "cancelled" THEN "cancelled" ELSE IF e # "ok" THEN "failed"
                                 ELSE IF HasErrorAttempt(fs[r]) THEN "recovered" ELSE "succeeded"
              /\ e \in Recognized \/ LastFails(es[r]) => LastFails(fs[r])
<1> DEFINE gs == IF e \in Recognized THEN ReviseLastAttempt(es, r, ClassifyBoundaryError(e)) ELSE es
           fs == FinalizeRequest(es, r, e)
<1>1. e \in Recognized => ClassifyBoundaryError(e) \in Faults
  BY DEF Recognized, ClassifyBoundaryError, Faults, Fault, Success, Classes, Phases
<1>2. OpenAt(gs, r) /\ SameBut(gs, es, r) /\ DOMAIN gs = DOMAIN es
  BY <1>1, ReviseFacts DEF SameBut
<1>3. r \in DOMAIN es /\ (e \in Recognized \/ LastFails(es[r])) => LastFails(gs[r])
  BY <1>1, ReviseFacts
<1>4. fs = Finalize(gs, r, e)
  BY DEF FinalizeRequest
<1> HIDE DEF gs, fs
<1>5. CASE r \notin DOMAIN es
  <2>1. fs = gs
    BY <1>2, <1>4, <1>5 DEF Finalize
  <2> QED BY <1>2, <1>5, <2>1 DEF OpenAt, fs
<1>6. CASE r \in DOMAIN es
  <2> DEFINE out == IF context[r] = "cancelled" THEN "cancelled" ELSE IF e # "ok" THEN "failed"
                    ELSE IF HasErrorAttempt(gs[r]) THEN "recovered" ELSE "succeeded"
             new == [gs[r] EXCEPT !.finalized = TRUE, !.outcome = out]
  <2>1. gs[r] \in Record /\ Len(gs[r].attempts) > 0 /\ ~gs[r].finalized /\ ~gs[r].violation
    BY <1>2, <1>6 DEF OpenAt
  <2>2. fs = [gs EXCEPT ![r] = new]
    BY <1>2, <1>4, <1>6, <2>1 DEF Finalize, OpenAt
  <2>3. out \in Outcomes
    BY DEF Outcomes
  <2> HIDE DEF out
  <2>4. new \in Record /\ new.attempts = gs[r].attempts /\ new.finalized /\ ~new.violation /\ new.outcome = out
    BY <2>1, <2>3 DEF Record
  <2> HIDE DEF new
  <2>5. DOMAIN fs = DOMAIN es /\ fs \in [DOMAIN fs -> Record] /\ fs[r] = new /\ SameBut(fs, es, r)
    BY <1>2, <1>6, <2>2, <2>4 DEF OpenAt, SameBut
  <2>6. HasErrorAttempt(new) = HasErrorAttempt(gs[r]) /\ LastFails(new) = LastFails(gs[r])
    BY <2>4 DEF HasErrorAttempt, LastFails
  <2>7. /\ Len(fs[r].attempts) > 0 /\ fs[r].finalized /\ ~fs[r].violation
        /\ fs[r].outcome = IF context[r] = "cancelled" THEN "cancelled" ELSE IF e # "ok" THEN "failed"
                           ELSE IF HasErrorAttempt(fs[r]) THEN "recovered" ELSE "succeeded"
    BY <2>1, <2>4, <2>5, <2>6 DEF out
  <2>8. e \in Recognized \/ LastFails(es[r]) => LastFails(fs[r])
    BY <1>3, <1>6, <2>5, <2>6
  <2> QED BY <2>5, <2>7, <2>8 DEF fs
<1> QED BY <1>5, <1>6

(* A failure in the last attempt is one in some attempt.                      *)
LEMMA LastIsOne == ASSUME NEW e \in Record, Len(e.attempts) > 0, LastFails(e) PROVE HasErrorAttempt(e)
<1>1. e.attempts \in Seq([class : Classes, phase : Phases])
  BY DEF Record
<1>2. Len(e.attempts) \in DOMAIN e.attempts
  BY <1>1
<1> QED BY <1>2 DEF HasErrorAttempt, LastFails
requestVars == <<pc, call, left, answer, reply>>

(* Nothing but request r moved.                                              *)
OnlyMoves(r) ==
  /\ UNCHANGED <<client, context, run, report>>
  /\ \A x \in Request \ {r} : pc'[x] = pc[x] /\ call'[x] = call[x] /\ left'[x] = left[x] /\ answer'[x] = answer[x] /\ reply'[x] = reply[x]
  /\ SameBut(entries', entries, r)

(* A step of one request leaves what is kept of the others.                   *)
LEMMA OthersKept ==
  ASSUME Types, \A x \in Request : StateKept(x), NEW r \in Request, OnlyMoves(r), StateKept(r)'
  PROVE  \A x \in Request : StateKept(x)'
<1> SUFFICES ASSUME NEW x \in Request \ {r} PROVE StateKept(x)'
  OBVIOUS
<1>1. /\ pc'[x] = pc[x] /\ call'[x] = call[x] /\ left'[x] = left[x] /\ answer'[x] = answer[x] /\ reply'[x] = reply[x]
      /\ context'[x] = context[x] /\ client' = client
      /\ Recorded(x)' = Recorded(x) /\ (Recorded(x) => entries'[x] = entries[x])
  BY DEF OnlyMoves, SameBut, Recorded
<1>2. Untried(x)' /\ Opened(x)'
  BY <1>1 DEF StateKept, Untried, Opened
<1>3. Answered(x)'
  BY <1>1 DEF StateKept, Answered, LastFails
<1>4. Told(x)'
  BY <1>1 DEF StateKept, Told
<1> QED BY <1>2, <1>3, <1>4 DEF StateKept

(* A request moves only while the run waits for it.                           *)
LEMMA QuietKept ==
  ASSUME Types, Quiet, NEW r \in Request, OnlyMoves(r),
         pc[r] \notin {"new", "done"} \/ run = "running"
  PROVE  Quiet'
<1>1. run \notin {"joined", "frozen"} /\ (r \in Job \/ run = "running")
  BY DEF Quiet
<1> QED BY <1>1 DEF Quiet, OnlyMoves

(* The entry a request that is not done may be given attempts in is open.     *)
LEMMA EntryOpen == ASSUME Types, NEW r \in Request, StateKept(r), pc[r] # "done" PROVE OpenAt(entries, r)
BY DEF Types, StateKept, Opened, OpenAt, Recorded

(* The places when nothing enters or leaves flight.                          *)
LEMMA PlacesSame ==
  ASSUME Places, NEW r \in Request, OnlyMoves(r), slots' = slots, InFlight(r)' = InFlight(r) \/ Limit = 0
  PROVE  Places'
<1>1. CASE Limit = 0
  BY <1>1 DEF Places
<1>2. CASE InFlight(r)' = InFlight(r)
  <2>1. \A x \in Request : InFlight(x)' = InFlight(x)
    BY <1>2 DEF OnlyMoves, InFlight
  <2> QED BY <2>1 DEF Places
<1> QED BY <1>1, <1>2

(* Before a request is called: it waits, gives up, or gets a place.           *)
LEMMA WaitingSteps ==
  ASSUME QInv, NEW r \in Request, Begin(r) \/ Acquire(r) \/ GiveUp(r), UNCHANGED client
  PROVE  QInv'
<1>a. Types /\ StateKept(r) /\ (\A x \in Request : StateKept(x)) /\ Places /\ Quiet
  BY DEF QInv
<1>1. pc[r] \in {"new", "waiting"} /\ entries' = entries /\ UNCHANGED <<context, call, left, answer, run, report>>
  BY DEF Begin, Acquire, GiveUp
<1>2. /\ pc' \in [Request -> {"new", "waiting", "calling", "backoff", "returned", "done"}]
      /\ pc'[r] \in {"waiting", "calling", "done"} /\ \A x \in Request \ {r} : pc'[x] = pc[x]
  BY <1>a DEF Begin, Acquire, GiveUp, Types
<1>3. /\ reply' \in [Request -> Errors \cup {"none", "unusable"}] /\ \A x \in Request \ {r} : reply'[x] = reply[x]
  <2>1. ContextError(r) \in Errors
    BY DEF ContextError, Errors
  <2> QED BY <1>a, <2>1 DEF Begin, Acquire, GiveUp, Types
<1>4. Types'
  BY <1>a, <1>1, <1>2, <1>3 DEF Types
<1>5. OnlyMoves(r)
  BY <1>1, <1>2, <1>3 DEF OnlyMoves, SameBut
<1>6. ~Recorded(r) /\ ~Recorded(r)'
  BY <1>a, <1>1 DEF StateKept, Untried, Recorded
<1>7. StateKept(r)'
  BY <1>a, <1>1, <1>2, <1>6 DEF StateKept, Untried, Opened, Answered, Told
<1>8. Quiet'
  BY <1>a, <1>1, <1>5, QuietKept DEF Begin, Acquire, GiveUp
<1>9. Places'
  <2>1. CASE slots' = slots /\ (InFlight(r)' = InFlight(r) \/ Limit = 0)
    BY <1>a, <1>5, <2>1, PlacesSame
  <2>2. CASE slots' = slots \cup {r} /\ pc'[r] = "calling" /\ Cardinality(slots) < Limit
    <3> SUFFICES ASSUME Limit > 0 PROVE slots' = {x \in Request : InFlight(x)'} /\ IsFiniteSet(slots') /\ Cardinality(slots') <= Limit
      BY RequestsAssumption DEF Places
    <3>1. slots = {x \in Request : InFlight(x)} /\ IsFiniteSet(slots) /\ r \notin slots
      BY <1>a, <1>1 DEF Places, InFlight
    <3>2. slots' = {x \in Request : InFlight(x)'}
      BY <1>2, <2>2, <3>1 DEF InFlight
    <3>3. IsFiniteSet(slots') /\ Cardinality(slots') = Cardinality(slots) + 1 /\ Cardinality(slots) \in Nat
      BY <2>2, <3>1, FS_AddElement, FS_CardinalityType
    <3> QED BY <2>2, <3>2, <3>3, RequestsAssumption
  <2> QED BY <1>a, <1>1, <1>2, <2>1, <2>2, RequestsAssumption DEF Begin, Acquire, GiveUp, InFlight, Types
<1> QED BY <1>a, <1>4, <1>5, <1>7, <1>8, <1>9, OthersKept DEF QInv
(* An attempt that got no answer, or a refusal, is classified as a failure.   *)
LEMMA Classified ==
  ASSUME NEW a, a.status = 401 \/ (a.status = 0 /\ a.err \in {"reset", "cancelled", "deadline"})
  PROVE  ClassifyAttempt(a) # Success
BY DEF ClassifyAttempt, Fault, Success

(* What one attempt may come to.                                             *)
Seen(a) ==
  /\ a \in [status : {0, 200, 401}, err : Errors, again : BOOLEAN]
  /\ a.err \in {"status", "foreign"} => client \in {"responses", "responses stream"}
  /\ a.err = "integrity" => client \in Streaming
  /\ a.err \in {"reset", "refused"} => ClassifyAttempt(a) # Success
(* Every answer an attempt can get is one of those.                           *)
LEMMA AnswerFacts ==
  ASSUME NEW r \in Request, NEW a, a \in IF Dead(r) THEN {Answer(0, ContextError(r), FALSE)} ELSE Answers
  PROVE  Seen(a)
<1>1. CASE Dead(r)
  <2>1. ContextError(r) \in {"cancelled", "deadline"}
    BY DEF ContextError
  <2> DEFINE e == ContextError(r)
  <2>2. a = Answer(0, e, FALSE)
    BY <1>1
  <2> HIDE DEF e
  <2>3. e \in {"cancelled", "deadline"}
    BY <2>1 DEF e
  <2>4. a \in [status : {0, 200, 401}, err : Errors, again : BOOLEAN] /\ a.err = e
    BY ONLY <2>2, <2>3 DEF Answer, Errors
  <2> QED BY <2>3, <2>4 DEF Seen
<1>2. CASE ~Dead(r)
  <2> DEFINE late == {"panic"} \cup (IF client \in Streaming THEN {"cut", "integrity"} ELSE {"cut", "json"})
                       \cup (IF client \in {"responses", "responses stream"} THEN {"status", "foreign"} ELSE {})
  <2>1. \A e \in late :
          /\ e \in Errors /\ e \notin {"reset", "refused"}
          /\ e \in {"status", "foreign"} => client \in {"responses", "responses stream"}
          /\ e = "integrity" => client \in Streaming
    BY DEF Errors
  <2>2. a \in {Answer(0, "reset", FALSE), Answer(401, "refused", FALSE), Answer(200, "ok", TRUE), Answer(200, "ok", FALSE)}
            \cup {Answer(200, e, FALSE) : e \in late}
    BY <1>2 DEF Answers
  <2> HIDE DEF late
  <2>3. CASE a = Answer(0, "reset", FALSE)
    <3>1. a \in [status : {0, 200, 401}, err : Errors, again : BOOLEAN] /\ a.err = "reset" /\ a.status = 0
      BY ONLY <2>3 DEF Answer, Errors
    <3> QED BY <3>1, Classified DEF Seen
  <2>4. CASE a = Answer(401, "refused", FALSE)
    <3>1. a \in [status : {0, 200, 401}, err : Errors, again : BOOLEAN] /\ a.err = "refused" /\ a.status = 401
      BY ONLY <2>4 DEF Answer, Errors
    <3> QED BY <3>1, Classified DEF Seen
  <2>5. CASE a = Answer(200, "ok", TRUE)
    <3>1. a \in [status : {0, 200, 401}, err : Errors, again : BOOLEAN] /\ a.err = "ok"
      BY ONLY <2>5 DEF Answer, Errors
    <3> QED BY <3>1 DEF Seen
  <2>6. CASE a = Answer(200, "ok", FALSE)
    <3>1. a \in [status : {0, 200, 401}, err : Errors, again : BOOLEAN] /\ a.err = "ok"
      BY ONLY <2>6 DEF Answer, Errors
    <3> QED BY <3>1 DEF Seen
  <2>7. ASSUME NEW e \in late, a = Answer(200, e, FALSE) PROVE Seen(a)
    <3>1. e \in Errors
      BY <2>1
    <3>2. a \in [status : {0, 200, 401}, err : Errors, again : BOOLEAN] /\ a.err = e
      BY ONLY <2>7, <3>1 DEF Answer
    <3> QED BY <2>1, <3>2 DEF Seen
  <2> QED BY <2>2, <2>3, <2>4, <2>5, <2>6, <2>7
<1> QED BY <1>1, <1>2

(* How an attempt and a wait move a request.                                 *)
LEMMA AttemptMoves ==
  ASSUME NEW r \in Request, Attempt(r)
  PROVE  /\ pc[r] = "calling" /\ UNCHANGED <<context, call, reply, slots, run, report>>
         /\ \E a \in IF Dead(r) THEN {Answer(0, ContextError(r), FALSE)} ELSE Answers :
              /\ entries' = RecordAttempt(r, a)
              /\ \/ left[r] > 0 /\ pc' = [pc EXCEPT ![r] = "backoff"] /\ left' = [left EXCEPT ![r] = @ - 1] /\ answer' = answer
                 \/ pc' = [pc EXCEPT ![r] = "returned"] /\ left' = left /\ answer' = [answer EXCEPT ![r] = a]
BY DEF Attempt
(* A wait ends in the next attempt or in the context's error.                *)
LEMMA BackoffMoves ==
  ASSUME NEW r \in Request, Backoff(r)
  PROVE  /\ pc[r] = "backoff" /\ UNCHANGED <<context, call, left, reply, entries, slots, run, report>>
         /\ \/ pc' = [pc EXCEPT ![r] = "returned"] /\ answer' = [answer EXCEPT ![r] = Answer(0, ContextError(r), FALSE)]
            \/ pc' = [pc EXCEPT ![r] = "calling"] /\ answer' = answer
BY DEF Backoff

(* An attempt and the wait before the next one.                              *)
LEMMA TryingSteps ==
  ASSUME QInv, NEW r \in Request, Attempt(r) \/ Backoff(r), UNCHANGED client
  PROVE  QInv'
<1>a. Types /\ StateKept(r) /\ (\A x \in Request : StateKept(x)) /\ Places /\ Quiet
  BY DEF QInv
<1>0. \/ pc[r] = "calling" /\ pc' = [pc EXCEPT ![r] = "backoff"] /\ left[r] > 0 /\ left' = [left EXCEPT ![r] = left[r] - 1]
      \/ pc[r] = "calling" /\ pc' = [pc EXCEPT ![r] = "returned"] /\ left' = left
      \/ pc[r] = "backoff" /\ pc' = [pc EXCEPT ![r] = "returned"] /\ left' = left /\ entries' = entries
      \/ pc[r] = "backoff" /\ pc' = [pc EXCEPT ![r] = "calling"] /\ left' = left /\ entries' = entries
  BY AttemptMoves, BackoffMoves
<1>1. /\ pc[r] \in {"calling", "backoff"} /\ pc'[r] \in {"calling", "backoff", "returned"}
      /\ pc' \in [Request -> {"new", "waiting", "calling", "backoff", "returned", "done"}]
      /\ \A x \in Request \ {r} : pc'[x] = pc[x]
  <2>1. pc \in [Request -> {"new", "waiting", "calling", "backoff", "returned", "done"}]
    BY <1>a DEF Types
  <2> QED BY ONLY <1>0, <2>1, r \in Request
<1>b. UNCHANGED <<context, call, reply, slots, run, report>>
  BY AttemptMoves, BackoffMoves
<1>2. /\ left' \in [Request -> 0..MaxRetries] /\ \A x \in Request \ {r} : left'[x] = left[x]
      /\ left'[r] = left[r] \/ (left[r] > 0 /\ left'[r] = left[r] - 1 /\ pc'[r] = "backoff")
      /\ left[r] \in 0..MaxRetries
  <2>1. left[r] \in 0..MaxRetries /\ left \in [Request -> 0..MaxRetries] /\ MaxRetries \in Nat
    BY <1>a, RequestsAssumption DEF Types
  <2>2. left' = left \/ (left[r] > 0 /\ left' = [left EXCEPT ![r] = left[r] - 1] /\ pc'[r] = "backoff")
    BY <1>a, <1>0 DEF Types
  <2> QED BY ONLY <2>1, <2>2, r \in Request
<1>3. OpenAt(entries, r)
  BY <1>a, <1>1, EntryOpen
<1>4. /\ OpenAt(entries', r) /\ SameBut(entries', entries, r)
      /\ answer' \in [Request -> [status : {0, 200, 401}, err : Errors \cup {"none"}, again : BOOLEAN]]
      /\ \A x \in Request \ {r} : answer'[x] = answer[x]
      /\ Answered(r)'
  <2>1. CASE Attempt(r)
    <3>1. PICK a \in IF Dead(r) THEN {Answer(0, ContextError(r), FALSE)} ELSE Answers :
            /\ entries' = RecordAttempt(r, a)
            /\ \/ pc' = [pc EXCEPT ![r] = "backoff"] /\ answer' = answer
               \/ pc' = [pc EXCEPT ![r] = "returned"] /\ answer' = [answer EXCEPT ![r] = a]
      BY <2>1, AttemptMoves
    <3>2. Seen(a)
      BY AnswerFacts
    <3>3. a \in [status : {0, 200, 401}, err : Errors \cup {"none"}, again : BOOLEAN] /\ a.err \in Errors
      BY <3>2 DEF Seen
    <3>4. /\ OpenAt(entries', r) /\ SameBut(entries', entries, r)
          /\ r \in DOMAIN entries' => LastFails(entries'[r]) = (ClassifyAttempt(a) # Success)
      BY <1>3, <3>1, <3>3, AttemptFacts
    <3>5. /\ answer' \in [Request -> [status : {0, 200, 401}, err : Errors \cup {"none"}, again : BOOLEAN]]
          /\ \A x \in Request \ {r} : answer'[x] = answer[x]
          /\ pc'[r] = "returned" => answer'[r] = a
      BY <1>a, <3>1, <3>3 DEF Types
    <3>6. Answered(r)'
      BY <3>2, <3>3, <3>4, <3>5 DEF Answered, Recorded, Seen
    <3> QED BY <3>4, <3>5, <3>6
  <2>2. CASE Backoff(r)
    <3> DEFINE a == Answer(0, ContextError(r), FALSE)
    <3>1. a \in [status : {0, 200, 401}, err : Errors \cup {"none"}, again : BOOLEAN] /\ a.err \in {"cancelled", "deadline"}
      BY DEF Answer, ContextError, Errors
    <3>2. (pc'[r] = "returned" /\ answer' = [answer EXCEPT ![r] = a]) \/ (pc'[r] = "calling" /\ answer' = answer)
      <4>1. \/ pc' = [pc EXCEPT ![r] = "returned"] /\ answer' = [answer EXCEPT ![r] = a]
            \/ pc' = [pc EXCEPT ![r] = "calling"] /\ answer' = answer
        BY <2>2, BackoffMoves
      <4> HIDE DEF a
      <4> QED BY <1>a, <4>1 DEF Types
    <3> HIDE DEF a
    <3>3. /\ answer' \in [Request -> [status : {0, 200, 401}, err : Errors \cup {"none"}, again : BOOLEAN]]
          /\ \A x \in Request \ {r} : answer'[x] = answer[x]
          /\ pc'[r] = "returned" => answer'[r].err \in {"cancelled", "deadline"}
      BY <1>a, <3>1, <3>2 DEF Types
    <3>4. entries' = entries
      BY <2>2, BackoffMoves
    <3>5. Answered(r)'
      BY <3>3 DEF Answered, Errors
    <3> QED BY <1>3, <3>3, <3>4, <3>5 DEF SameBut
  <2> QED BY <2>1, <2>2
<1>5. Types'
  BY <1>a, <1>1, <1>b, <1>2, <1>4 DEF Types, OpenAt
<1>6. OnlyMoves(r)
  BY <1>1, <1>b, <1>2, <1>4 DEF OnlyMoves
<1>7. Untried(r)'
  <2>1. pc[r] = "calling" => pc'[r] \in {"backoff", "returned"} /\ (pc'[r] = "backoff" => left'[r] = left[r] - 1)
    BY <1>a, <1>0, <1>2 DEF Types
  <2>2. pc[r] = "backoff" => pc'[r] # "backoff" /\ left'[r] = left[r] /\ (call[r] = 2 \/ left[r] < MaxRetries)
    BY <1>a, <1>0 DEF StateKept, Untried, Types
  <2> QED BY <1>1, <1>b, <1>2, <2>1, <2>2, RequestsAssumption DEF Untried
<1>8. Opened(r)' /\ Told(r)'
  BY <1>1, <1>4 DEF Opened, Told, OpenAt, Recorded
<1>9. Quiet'
  BY <1>a, <1>1, <1>6, QuietKept
<1>10. Places'
  BY <1>a, <1>1, <1>b, <1>6, PlacesSame DEF InFlight
<1> QED BY <1>a, <1>4, <1>5, <1>6, <1>7, <1>8, <1>9, <1>10, OthersKept DEF QInv, StateKept

(* A request that ends at the boundary, with an error its entry accounts for, *)
(* leaves its place.                                                         *)
LEMMA Completes ==
  ASSUME QInv, NEW r \in Request, NEW es, NEW e \in Errors \cup {"unusable"}, Complete(r, es, e),
         UNCHANGED <<client, context, run, report>>, InFlight(r), OpenAt(es, r), SameBut(es, entries, r),
         r \in DOMAIN es /\ e \notin {"ok", "panic", "foreign"} => e \in Recognized \/ LastFails(es[r])
  PROVE  QInv'
<1>a. Types /\ StateKept(r) /\ (\A x \in Request : StateKept(x)) /\ Places /\ Quiet
  BY DEF QInv
<1>1. /\ entries' = FinalizeRequest(es, r, e) /\ slots' = slots \ {r}
      /\ pc' = [pc EXCEPT ![r] = "done"] /\ reply' = [reply EXCEPT ![r] = e]
      /\ left' = [left EXCEPT ![r] = 0] /\ answer' = [answer EXCEPT ![r] = NoAnswer] /\ call' = [call EXCEPT ![r] = 1]
  BY DEF Complete
<1>2. /\ DOMAIN entries' = DOMAIN es /\ entries' \in [DOMAIN entries' -> Record] /\ SameBut(entries', es, r)
      /\ r \in DOMAIN es =>
           /\ Len(entries'[r].attempts) > 0 /\ entries'[r].finalized /\ ~entries'[r].violation
           /\ entries'[r].outcome = IF context[r] = "cancelled" THEN "cancelled" ELSE IF e # "ok" THEN "failed"
                                    ELSE IF HasErrorAttempt(entries'[r]) THEN "recovered" ELSE "succeeded"
           /\ e \in Recognized \/ LastFails(es[r]) => LastFails(entries'[r])
  BY <1>1, FinalizeFacts
<1>3. SameBut(entries', entries, r)
  BY <1>2 DEF SameBut
<1>4. NoAnswer \in [status : {0, 200, 401}, err : Errors \cup {"none"}, again : BOOLEAN] /\ 0 \in 0..MaxRetries
  BY RequestsAssumption DEF NoAnswer
<1>5. Types'
  <2>1. DOMAIN entries' \subseteq Request \ Unnamed
    BY <1>2 DEF OpenAt
  <2> QED BY <1>a, <1>1, <1>2, <1>4, <2>1 DEF Types
<1>6. /\ \A x \in Request \ {r} : pc'[x] = pc[x] /\ call'[x] = call[x] /\ left'[x] = left[x] /\ answer'[x] = answer[x] /\ reply'[x] = reply[x]
      /\ pc'[r] = "done" /\ reply'[r] = e
  BY <1>a, <1>1 DEF Types
<1>7. OnlyMoves(r)
  BY <1>3, <1>6 DEF OnlyMoves
<1>8. Told(r)'
  <2> SUFFICES ASSUME r \in DOMAIN entries' PROVE Told(r)'
    BY DEF Told, Recorded
  <2>1. entries'[r] \in Record
    BY <1>2
  <2>2. LastFails(entries'[r]) => HasErrorAttempt(entries'[r])
    BY <1>2, <2>1, LastIsOne
  <2>3. e \notin {"ok", "panic", "foreign"} => LastFails(entries'[r])
    BY <1>2
  <2> QED BY <1>2, <1>6, <2>2, <2>3 DEF Told
<1>9. Untried(r)' /\ Opened(r)' /\ Answered(r)'
  BY <1>6 DEF Untried, Opened, Answered
<1>10. Quiet'
  BY <1>a, <1>7, QuietKept DEF InFlight
<1>11. Places'
  <2> SUFFICES ASSUME Limit > 0 PROVE slots' = {x \in Request : InFlight(x)'} /\ IsFiniteSet(slots') /\ Cardinality(slots') <= Limit
    BY RequestsAssumption DEF Places
  <2>1. slots = {x \in Request : InFlight(x)} /\ IsFiniteSet(slots) /\ Cardinality(slots) <= Limit
    BY <1>a DEF Places
  <2>2. slots' = {x \in Request : InFlight(x)'}
    BY <1>1, <1>6, <2>1 DEF InFlight
  <2>3. IsFiniteSet(slots') /\ Cardinality(slots') <= Cardinality(slots) /\ Cardinality(slots') \in Nat /\ Cardinality(slots) \in Nat
    <3>1. slots' \in SUBSET slots
      BY <1>1
    <3>2. IsFiniteSet(slots') /\ Cardinality(slots') <= Cardinality(slots)
      BY <2>1, <3>1, FS_Subset
    <3> QED BY <2>1, <3>2, FS_CardinalityType
  <2> QED BY <2>1, <2>2, <2>3, RequestsAssumption
<1> QED BY <1>a, <1>5, <1>7, <1>8, <1>9, <1>10, <1>11, OthersKept DEF QInv, StateKept
(* What the SDK surfaces once it has returned.                               *)
LEMMA SurfacedFacts ==
  ASSUME NEW r \in Request, StateKept(r), pc[r] = "returned", NEW e, e \in Surfaced(r)
  PROVE  /\ e \in Errors
         /\ e \in {"status", "foreign"} => client \in {"responses", "responses stream"}
         /\ e = "integrity" => client \in Streaming
         /\ e \in {"reset", "refused"} /\ r \in DOMAIN entries => LastFails(entries[r])
<1>1. CASE e = answer[r].err
  BY <1>1 DEF StateKept, Answered, Recorded
<1>2. CASE e = ContextError(r)
  <2>1. e \in {"cancelled", "deadline"}
    BY <1>2 DEF ContextError
  <2> QED BY <2>1 DEF Errors
<1> QED BY <1>1, <1>2 DEF Surfaced

(* A client that refuses to work ends a request that has no entry.            *)
LEMMA RefuseStep == ASSUME QInv, NEW r \in Request, Refuse(r), UNCHANGED client PROVE QInv'
<1>1. Types /\ StateKept(r) /\ pc[r] = "calling" /\ left[r] = MaxRetries /\ call[r] = 1
  BY DEF QInv, Refuse
<1>2. r \notin DOMAIN entries
  BY <1>1 DEF StateKept, Untried, Recorded
<1>3. OpenAt(entries, r)
  BY <1>1, EntryOpen
<1>4. SameBut(entries, entries, r)
  BY DEF SameBut
<1>5. Complete(r, entries, "unusable") /\ UNCHANGED <<client, context, run, report>>
  BY DEF Refuse
<1> QED BY <1>1, <1>2, <1>3, <1>4, <1>5, Completes DEF InFlight

(* A chat completion that was cut short is called again, with its failure in  *)
(* the attempt and all its retries.                                          *)
LEMMA CallsAgain ==
  ASSUME QInv, NEW r \in Request, NEW es, pc[r] = "returned", UNCHANGED <<client, context, reply, slots, run, report>>,
         pc' = [pc EXCEPT ![r] = "calling"], call' = [call EXCEPT ![r] = 2], left' = [left EXCEPT ![r] = MaxRetries],
         answer' = [answer EXCEPT ![r] = NoAnswer], entries' = es, OpenAt(es, r), SameBut(es, entries, r)
  PROVE  QInv'
<1>a. Types /\ StateKept(r) /\ (\A x \in Request : StateKept(x)) /\ Places /\ Quiet
  BY DEF QInv
<1>1. /\ \A x \in Request \ {r} : pc'[x] = pc[x] /\ call'[x] = call[x] /\ left'[x] = left[x] /\ answer'[x] = answer[x] /\ reply'[x] = reply[x]
      /\ pc'[r] = "calling" /\ call'[r] = 2
  BY <1>a DEF Types
<1>2. NoAnswer \in [status : {0, 200, 401}, err : Errors \cup {"none"}, again : BOOLEAN] /\ MaxRetries \in 0..MaxRetries
  BY RequestsAssumption DEF NoAnswer
<1>3. Types'
  BY <1>a, <1>2 DEF Types, OpenAt
<1>4. OnlyMoves(r)
  BY <1>1 DEF OnlyMoves
<1>5. Untried(r)' /\ Answered(r)' /\ Told(r)'
  <2>1. Untried(r)'
    BY <1>1 DEF Untried
  <2>2. Answered(r)'
    BY <1>1 DEF Answered
  <2>3. Told(r)'
    BY <1>1 DEF Told
  <2> QED BY <2>1, <2>2, <2>3
<1>6. Opened(r)'
  BY DEF Opened, OpenAt, Recorded
<1>7. Quiet'
  BY <1>a, <1>4, QuietKept
<1>8. Places'
  BY <1>a, <1>1, <1>4, PlacesSame DEF InFlight
<1> QED BY <1>a, <1>3, <1>4, <1>5, <1>6, <1>7, <1>8, OthersKept DEF QInv, StateKept

(* Each client's boundary accounts for the error it passes on.               *)
LEMMA ReturnSteps == ASSUME QInv, NEW r \in Request, Return(r), UNCHANGED client PROVE QInv'
<1>a. Types /\ StateKept(r)
  BY DEF QInv
<1>1. pc[r] = "returned" /\ UNCHANGED <<client, context, run, report>> /\ InFlight(r)
  BY DEF Return, ReturnChat, ReturnStream, ReturnPlain, InFlight
<1>2. OpenAt(entries, r) /\ SameBut(entries, entries, r)
  BY <1>a, <1>1, EntryOpen DEF SameBut
<1>3. \A fault \in Faults :
        LET fs == ReviseLastAttempt(entries, r, fault) IN
        OpenAt(fs, r) /\ SameBut(fs, entries, r) /\ (r \in DOMAIN fs => LastFails(fs[r]))
  BY <1>2, ReviseFacts
<1>4. CASE ReturnChat(r)
  <2>1. PICK e \in Surfaced(r) :
          LET revised == IF e = "cut" THEN ReviseLastAttempt(entries, r, ClassifyBoundaryError("cut")) ELSE entries IN
          \/ /\ pc' = [pc EXCEPT ![r] = "calling"] /\ call' = [call EXCEPT ![r] = 2] /\ left' = [left EXCEPT ![r] = MaxRetries]
             /\ answer' = [answer EXCEPT ![r] = NoAnswer] /\ entries' = revised /\ UNCHANGED <<reply, slots>>
          \/ Complete(r, revised, IF Dead(r) /\ e \notin {"ok", "panic"} /\ (e = "cut" \/ call[r] = 2) THEN ContextError(r) ELSE e)
    BY <1>4 DEF ReturnChat
  <2> DEFINE revised == IF e = "cut" THEN ReviseLastAttempt(entries, r, ClassifyBoundaryError("cut")) ELSE entries
             e2 == IF Dead(r) /\ e \notin {"ok", "panic"} /\ (e = "cut" \/ call[r] = 2) THEN ContextError(r) ELSE e
  <2>2. ClassifyBoundaryError("cut") \in Faults
    BY DEF ClassifyBoundaryError, Faults, Fault, Success, Classes, Phases
  <2>3. OpenAt(revised, r) /\ SameBut(revised, entries, r)
    BY <1>2, <1>3, <2>2
  <2>4. e \in Errors /\ e \notin {"status", "foreign", "integrity"} /\ (e \in {"reset", "refused"} /\ r \in DOMAIN entries => LastFails(entries[r]))
    <3>1. client = "chat"
      BY <1>4 DEF ReturnChat
    <3> QED BY <1>a, <1>1, <3>1, SurfacedFacts DEF Streaming
  <2>5. ContextError(r) \in {"cancelled", "deadline"}
    BY DEF ContextError
  <2>6. e2 \in Errors /\ (r \in DOMAIN revised /\ e2 \notin {"ok", "panic", "foreign"} => e2 \in Recognized \/ LastFails(revised[r]))
    BY <2>4, <2>5 DEF Recognized, Errors
  <2>7. CASE Complete(r, revised, e2)
    <3> HIDE DEF revised, e2
    <3> QED BY <1>1, <2>3, <2>6, <2>7, Completes
  <2>8. CASE /\ pc' = [pc EXCEPT ![r] = "calling"] /\ call' = [call EXCEPT ![r] = 2] /\ left' = [left EXCEPT ![r] = MaxRetries]
             /\ answer' = [answer EXCEPT ![r] = NoAnswer] /\ entries' = revised /\ UNCHANGED <<reply, slots>>
    <3> HIDE DEF revised
    <3> QED BY <1>1, <2>3, <2>8, CallsAgain
  <2> QED BY <2>1, <2>7, <2>8
<1>5. CASE ReturnStream(r)
  <2>1. PICK e \in Surfaced(r) :
          Complete(r, IF e \in {"ok", "panic", "foreign"} THEN entries
                      ELSE ReviseLastAttempt(entries, r, IF e = "status" THEN Fault("provider", "response_status") ELSE ClassifyStreamError(e)), e)
    BY <1>5 DEF ReturnStream
  <2> DEFINE fault == IF e = "status" THEN Fault("provider", "response_status") ELSE ClassifyStreamError(e)
             revised == IF e \in {"ok", "panic", "foreign"} THEN entries ELSE ReviseLastAttempt(entries, r, fault)
  <2>2. fault \in Faults
    BY DEF ClassifyStreamError, ClassifyBoundaryError, Faults, Fault, Success, Classes, Phases
  <2>3. e \in Errors
    BY <1>a, <1>1, SurfacedFacts
  <2> HIDE DEF fault
  <2>4. OpenAt(revised, r) /\ SameBut(revised, entries, r) /\ (r \in DOMAIN revised /\ e \notin {"ok", "panic", "foreign"} => LastFails(revised[r]))
    BY <1>2, <1>3, <2>2
  <2>5. Complete(r, revised, e)
    BY <2>1 DEF fault
  <2> HIDE DEF revised
  <2> QED BY <1>1, <2>3, <2>4, <2>5, Completes
<1>6. CASE ReturnPlain(r)
  <2>1. PICK e \in Surfaced(r) :
          Complete(r, IF e = "status" THEN ReviseLastAttempt(entries, r, Fault("provider", "response_status")) ELSE entries, e)
    BY <1>6 DEF ReturnPlain
  <2> DEFINE revised == IF e = "status" THEN ReviseLastAttempt(entries, r, Fault("provider", "response_status")) ELSE entries
  <2>2. Fault("provider", "response_status") \in Faults
    BY DEF Faults, Fault, Success, Classes, Phases
  <2>3. e \in Errors /\ e # "integrity" /\ (e \in {"reset", "refused"} /\ r \in DOMAIN entries => LastFails(entries[r]))
    <3>1. client \in {"responses", "anthropic"}
      BY <1>6 DEF ReturnPlain
    <3> QED BY <1>a, <1>1, <3>1, SurfacedFacts DEF Streaming
  <2>4. OpenAt(revised, r) /\ SameBut(revised, entries, r)
    BY <1>2, <1>3, <2>2
  <2>5. r \in DOMAIN revised /\ e \notin {"ok", "panic", "foreign"} => e \in Recognized \/ LastFails(revised[r])
    BY <1>3, <2>2, <2>3 DEF Recognized, Errors
  <2> HIDE DEF revised
  <2> QED BY <1>1, <2>1, <2>3, <2>4, <2>5, Completes DEF revised
<1> QED BY <1>4, <1>5, <1>6 DEF Return
(* What ends a context leaves every request where it is, and none whose entry *)
(* is closed.                                                                *)
LEMMA ContextSteps ==
  ASSUME QInv, context' \in [Request -> {"live", "cancelled", "expired"}],
         UNCHANGED <<client, pc, call, left, answer, reply, entries, slots, report>>,
         \A r \in Request : pc[r] = "done" => context'[r] = context[r],
         \/ run' = run
         \/ run' = "dispatched" /\ run = "running" /\ \A r \in Request \ Job : pc[r] \in {"new", "done"}
  PROVE  QInv'
<1>1. Types'
  BY DEF QInv, Types
<1>2. ASSUME NEW r \in Request PROVE StateKept(r)'
  <2>1. StateKept(r)
    BY DEF QInv
  <2>2. Untried(r)' /\ Opened(r)' /\ Answered(r)'
    BY <2>1 DEF StateKept, Untried, Opened, Answered, Recorded
  <2>3. Told(r)'
    BY <2>1 DEF StateKept, Told, Recorded
  <2> QED BY <2>2, <2>3 DEF StateKept
<1>3. Places'
  BY DEF QInv, Places, InFlight
<1>4. Quiet'
  BY DEF QInv, Quiet
<1> QED BY <1>1, <1>2, <1>3, <1>4 DEF QInv

(* The run ends its dispatch, waits for the background jobs and freezes.      *)
LEMMA RunSteps ==
  ASSUME QInv, (\E r \in Request : Expire(r)) \/ Interrupt \/ EndDispatch \/ WaitBackground \/ FreezeReport, UNCHANGED client
  PROVE  QInv'
<1>a. Types /\ Quiet
  BY DEF QInv
<1>1. ASSUME NEW r \in Request, Expire(r) PROVE QInv'
  <2>1. /\ context' = [context EXCEPT ![r] = "expired"] /\ pc[r] # "done"
        /\ UNCHANGED <<client, pc, call, left, answer, reply, entries, slots, run, report>>
    BY <1>1 DEF Expire, Cancellable
  <2>2. context' \in [Request -> {"live", "cancelled", "expired"}] /\ \A x \in Request : pc[x] = "done" => context'[x] = context[x]
    BY <1>a, <2>1 DEF Types
  <2> QED BY <2>1, <2>2, ContextSteps
<1>2. CASE Interrupt
  <2>1. /\ context' = [r \in Request |-> IF r \notin Job /\ Cancellable(r) THEN "cancelled" ELSE context[r]]
        /\ UNCHANGED <<client, pc, call, left, answer, reply, entries, slots, run, report>>
    BY <1>2 DEF Interrupt
  <2>2. context' \in [Request -> {"live", "cancelled", "expired"}] /\ \A x \in Request : pc[x] = "done" => context'[x] = context[x]
    BY <1>a, <2>1 DEF Types, Cancellable
  <2> QED BY <2>1, <2>2, ContextSteps
<1>3. CASE EndDispatch
  <2>1. /\ context' = [r \in Request |-> IF r \in Job /\ pc[r] \notin {"new", "done"} THEN "cancelled" ELSE context[r]]
        /\ UNCHANGED <<client, pc, call, left, answer, reply, entries, slots, report>>
        /\ run' = "dispatched" /\ run = "running" /\ \A r \in Request \ Job : pc[r] \in {"new", "done"}
    BY <1>3 DEF EndDispatch
  <2>2. context' \in [Request -> {"live", "cancelled", "expired"}] /\ \A x \in Request : pc[x] = "done" => context'[x] = context[x]
    BY <1>a, <2>1 DEF Types
  <2> QED BY <2>1, <2>2, ContextSteps
<1>4. CASE WaitBackground \/ FreezeReport
  <2>1. UNCHANGED <<client, pc, context, call, left, answer, reply, entries, slots>> /\ run' \in {"joined", "frozen"}
    BY <1>4 DEF WaitBackground, FreezeReport
  <2>2. Types'
    BY <1>a, <2>1 DEF Types
  <2>3. ASSUME NEW r \in Request PROVE StateKept(r)'
    <3>1. StateKept(r)
      BY DEF QInv
    <3>2. Untried(r)' /\ Opened(r)' /\ Answered(r)'
      BY <2>1, <3>1 DEF StateKept, Untried, Opened, Answered, Recorded
    <3>3. Told(r)'
      BY <2>1, <3>1 DEF StateKept, Told, Recorded
    <3> QED BY <3>2, <3>3 DEF StateKept
  <2>4. Places'
    BY <2>1 DEF QInv, Places, InFlight
  <2>5. Quiet'
    <3>1. \A r \in Request : pc'[r] \in {"new", "done"}
      BY <1>4, <1>a, <2>1 DEF WaitBackground, FreezeReport, Quiet
    <3>2. report' = IF run' = "frozen" THEN Freeze(entries') ELSE NoReport
      BY <1>4, <1>a, <2>1 DEF WaitBackground, FreezeReport, Quiet
    <3> QED BY <3>1, <3>2 DEF Quiet
  <2> QED BY <2>2, <2>3, <2>4, <2>5 DEF QInv
<1> QED BY <1>1, <1>2, <1>3, <1>4

(* The run starts in the invariant: no request has begun.                     *)
LEMMA RequestsStart == Init => QInv
<1> SUFFICES ASSUME Init PROVE QInv
  OBVIOUS
<1>1. /\ MaxRetries \in 0..MaxRetries
      /\ NoAnswer \in [status : {0, 200, 401}, err : Errors \cup {"none"}, again : BOOLEAN]
  BY RequestsAssumption DEF NoAnswer
<1>2. DOMAIN entries = {} /\ entries \in [DOMAIN entries -> Record]
  BY DEF Init
<1>3. Types
  BY <1>1, <1>2 DEF Init, Types
<1>4. ASSUME NEW r \in Request PROVE StateKept(r)
  BY <1>2 DEF Init, StateKept, Untried, Opened, Answered, Told, Recorded
<1>5. Places
  <2>1. {r \in Request : InFlight(r)} = {}
    BY DEF Init, InFlight
  <2> QED BY <2>1, FS_EmptySet, RequestsAssumption DEF Init, Places
<1>6. Quiet
  BY DEF Init, Quiet
<1> QED BY <1>3, <1>4, <1>5, <1>6 DEF QInv

(* Every step of a request and of the run keeps it.                           *)
LEMMA RequestsKeep == QInv /\ [Next]_vars => QInv'
<1> SUFFICES ASSUME QInv, [Next]_vars PROVE QInv'
  OBVIOUS
<1>1. ASSUME NEW r \in Request, Begin(r) \/ Acquire(r) \/ GiveUp(r) \/ Serve(r) \/ Refuse(r), UNCHANGED client PROVE QInv'
  BY <1>1, WaitingSteps, TryingSteps, ReturnSteps, RefuseStep DEF Serve
<1>2. CASE ((\E r \in Request : Expire(r)) \/ Interrupt \/ EndDispatch \/ WaitBackground \/ FreezeReport) /\ UNCHANGED client
  BY <1>2, RunSteps
<1>3. CASE UNCHANGED vars
  <2>1. UNCHANGED <<client, pc, context, call, left, answer, reply, entries, slots, run, report>>
    BY <1>3 DEF vars, moving
  <2>2. context' \in [Request -> {"live", "cancelled", "expired"}]
    BY <2>1 DEF QInv, Types
  <2> QED BY <2>1, <2>2, ContextSteps
<1> QED BY <1>1, <1>2, <1>3 DEF Next

(* In every state each entry is open until its request is done and then says  *)
(* what its caller was told, the places are those of the requests in flight,  *)
(* and what is frozen is not written to again.                               *)
THEOREM RequestsInvariant == Spec => []QInv
BY RequestsStart, RequestsKeep, PTL DEF Spec
(* Entries that are all closed as they ended make a report that Freeze's own  *)
(* recount confirms: what it leaves out counts in no total but the first.     *)
LEMMA RecountAgrees ==
  ASSUME NEW es, es \in [DOMAIN es -> Record],
         \A r \in DOMAIN es :
           /\ Len(es[r].attempts) > 0 /\ es[r].finalized /\ ~es[r].violation
           /\ es[r].outcome \in {"cancelled", "failed", IF HasErrorAttempt(es[r]) THEN "recovered" ELSE "succeeded"}
  PROVE  /\ Freeze(es).state # "error"
         /\ \A r \in DOMAIN es : es[r].outcome # "succeeded" => r \in Freeze(es).requests
<1> DEFINE reported == {r \in DOMAIN es : Listed(es[r])}
           rep == BuildReport(es)
<1>1. ASSUME NEW r \in DOMAIN es
      PROVE  es[r].attempts \in Seq([class : Classes, phase : Phases]) /\ Len(es[r].attempts) \in Nat
  <2>1. es[r] \in Record
    OBVIOUS
  <2> QED BY <2>1 DEF Record
<1>2. ~(\E r \in DOMAIN es : es[r].violation \/ ~es[r].finalized \/ es[r].attempts = <<>>)
  BY <1>1
<1>3. rep.requests = reported /\ rep.state = "published"
  BY DEF BuildReport
<1>4. rep.retries = Retries(es, reported)
  <2>1. ASSUME NEW r \in DOMAIN es \ reported PROVE {r} \X (2..Len(es[r].attempts)) = {}
    <3>1. Len(es[r].attempts) = 1
      <4>1. Len(es[r].attempts) \in Nat /\ Len(es[r].attempts) > 0 /\ ~(Len(es[r].attempts) > 1)
        BY <1>1 DEF Listed
      <4>2. PICK n \in Nat : n = Len(es[r].attempts)
        BY ONLY <4>1
      <4>3. n > 0 /\ ~(n > 1)
        BY ONLY <4>1, <4>2
      <4>4. n = 1
        BY ONLY <4>3
      <4> QED BY ONLY <4>2, <4>4
    <3> QED BY <3>1
  <2>2. UNION {{r} \X (2..Len(es[r].attempts)) : r \in DOMAIN es} = UNION {{r} \X (2..Len(es[r].attempts)) : r \in reported}
    <3> DEFINE T(r) == {r} \X (2..Len(es[r].attempts))
    <3>1. \A r \in DOMAIN es \ reported : T(r) = {}
      BY <2>1
    <3> HIDE DEF T
    <3>2. UNION {T(r) : r \in DOMAIN es} = UNION {T(r) : r \in reported}
      BY <3>1
    <3> QED BY <3>2 DEF T
  <2> QED BY <2>2 DEF BuildReport, Retries
<1>5. rep.retried = Cardinality({r \in reported : Len(es[r].attempts) > 1})
  <2>1. {r \in DOMAIN es : Len(es[r].attempts) > 1} = {r \in reported : Len(es[r].attempts) > 1}
    BY DEF Listed
  <2> QED BY <2>1 DEF BuildReport
<1>6. \A outcome \in {"recovered", "failed", "cancelled"} : Ended(es, DOMAIN es, outcome) = Ended(es, reported, outcome)
  <2>1. \A outcome \in {"recovered", "failed", "cancelled"} : {r \in DOMAIN es : es[r].outcome = outcome} = {r \in reported : es[r].outcome = outcome}
    BY DEF Listed
  <2> QED BY <2>1 DEF Ended
<1>7. ValidReport(rep, es)
  <2>1. ASSUME NEW r \in reported
        PROVE  /\ es[r].outcome = "recovered" => HasErrorAttempt(es[r])
               /\ es[r].outcome = "succeeded" => ~HasErrorAttempt(es[r]) /\ Len(es[r].attempts) > 1
    BY DEF Listed
  <2>2. rep.recovered = Ended(es, DOMAIN es, "recovered") /\ rep.failed = Ended(es, DOMAIN es, "failed")
          /\ rep.cancelled = Ended(es, DOMAIN es, "cancelled")
    BY DEF BuildReport
  <2> HIDE DEF rep, reported
  <2> QED BY <1>3, <1>4, <1>5, <1>6, <2>1, <2>2 DEF ValidReport
<1>8. Freeze(es) = IF reported = {} THEN [NoReport EXCEPT !.state = "nothing"] ELSE rep
  <2> HIDE DEF rep, reported
  <2> QED BY <1>2, <1>3, <1>7 DEF Freeze, rep
<1>9. Freeze(es).state # "error" /\ Freeze(es).requests = reported
  BY <1>3, <1>8 DEF NoReport
<1> QED BY <1>9 DEF Listed

(* No interleaving of retries, second calls, cancellations and background     *)
(* jobs makes the report refuse itself; it says of each request what its      *)
(* caller was told, and every place of the limit is given back.               *)
THEOREM ReportTellsAll == Spec => []ReportSound
<1>1. ASSUME QInv, run = "frozen", NEW r \in DOMAIN entries
      PROVE  pc[r] = "done" /\ Told(r) /\ r \in Request /\ entries[r] \in Record /\ Recorded(r)
  <2>1. r \in Request /\ entries[r] \in Record
    BY <1>1 DEF QInv, Types
  <2>2. StateKept(r) /\ pc[r] \in {"new", "done"}
    BY <1>1, <2>1 DEF QInv, Quiet
  <2> QED BY <2>1, <2>2 DEF StateKept, Untried, Recorded
<1>2. ASSUME QInv, run = "frozen"
      PROVE  report.state # "error" /\ \A r \in DOMAIN entries : entries[r].outcome # "succeeded" => r \in report.requests
  <2>1. \A r \in DOMAIN entries :
          /\ Len(entries[r].attempts) > 0 /\ entries[r].finalized /\ ~entries[r].violation
          /\ entries[r].outcome \in {"cancelled", "failed", IF HasErrorAttempt(entries[r]) THEN "recovered" ELSE "succeeded"}
    BY <1>1, <1>2 DEF Told
  <2>2. entries \in [DOMAIN entries -> Record] /\ report = Freeze(entries)
    BY <1>2 DEF QInv, Types, Quiet
  <2> QED BY <2>1, <2>2, RecountAgrees
<1>3. QInv => ReportStands
  <2>1. QInv /\ run # "frozen" => report.state = "none"
    BY DEF QInv, Quiet, NoReport
  <2> QED BY <1>2, <2>1 DEF ReportStands
<1>4. QInv => ReportMatchesCallers
  <2> SUFFICES ASSUME QInv, run = "frozen", NEW r \in DOMAIN entries
               PROVE  LET e == entries[r] last == e.attempts[Len(e.attempts)] IN
                      /\ e.outcome = "failed" <=> reply[r] # "ok" /\ context[r] # "cancelled"
                      /\ reply[r] \notin {"ok", "panic", "foreign"} => HasErrorAttempt(e)
                      /\ reply[r] \in {"cut", "json", "integrity", "status"} => last # Success
                      /\ e.outcome # "succeeded" => r \in report.requests
    BY DEF ReportMatchesCallers
  <2> QED BY <1>1, <1>2 DEF Told, LastFails
<1>5. QInv => PlacesReturned
  BY DEF QInv, Places, PlacesReturned
<1> QED BY <1>3, <1>4, <1>5, RequestsInvariant, PTL DEF ReportSound
=============================================================================
