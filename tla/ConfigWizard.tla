---------------------------- MODULE ConfigWizard ----------------------------
(***************************************************************************)
(* The commands that change config.json: `ocr config set` and `unset`, and *)
(* the wizards of `ocr config provider` and `ocr config model`             *)
(* (provider_tui.go, provider_cmd.go).                                     *)
(*                                                                         *)
(* A wizard is given the configuration its command loaded (held) and saves *)
(* changes as the user makes them.  When a save fails it reads the file    *)
(* again, into an object of its own (shown): from then on the two differ,  *)
(* and the command still applies the user's last step to the one it holds. *)
(* Cursor keys are choices; what is only drawn is left out.                *)
(***************************************************************************)
EXTENDS ConfigFile

CONSTANTS
  Starts,       \* [file, keyVar]: what there may be before the first command
  NamesTyped,   \* names the user types, in a command or in a form
  Environments, Runs, \* the environments and the options of runs the resolver is asked with
  MaxEdits,     \* edits made; checking only
  MaxFaults     \* saves that fail; checking only

\* A custom provider may have the name of a preset.
Clash(cfg, n) == n \in Presets /\ n \in DOMAIN cfg.customs

\* Every secret is with what it was typed for, and the active provider has an entry.
KeysAtHome(cfg) ==
  /\ \A n \in DOMAIN cfg.presets : cfg.presets[n].key \in {None, Blank, n}
  /\ \A n \in DOMAIN cfg.customs : cfg.customs[n].key \in {None, Blank, "custom"}
  /\ cfg.llm.token \in {None, Blank, "manual"}
ActiveIn(cfg) ==
  (cfg.provider # None /\ ~Clash(cfg, cfg.provider)) => cfg.provider \in DOMAIN cfg[Section(cfg.provider)]

ASSUME StartAssumption ==
  \A start \in Starts : /\ IsConfig(start.file) /\ KeysAtHome(start.file) /\ ActiveIn(start.file)
                        /\ start.keyVar \in {None, Blank, "set"}
ASSUME RunAssumption == NamesTyped \subseteq Names /\ Environments \subseteq Environment /\ Runs \subseteq Options

VARIABLES
  disk,   \* config.json, or Broken: cut short by a write that failed
  keyVar, \* the key variable of the presets
  kind,   \* the wizard that runs: "provider", "model", or "none"
  held,   \* the configuration the command holds
  shown,  \* the one its wizard works on
  same,   \* they are one object
  listed, \* the custom providers the wizard lists
  ui,     \* where the user is
  form,   \* the fields of the create and edit form, and of the manual form
  edits, faults,
  chosen  \* what the last confirmed step promised; None once the file changes

configVars == <<disk, keyVar, kind, held, shown, same, listed, ui, form, edits, faults, chosen>>

Broken == [EmptyConfig EXCEPT !.model = "broken"]
NoField == [masked |-> FALSE, orig |-> None, val |-> None]
Masked(secret) == IF secret = None THEN NoField ELSE [masked |-> TRUE, orig |-> secret, val |-> None]
Closed == [at |-> "closed", tab |-> "presets", who |-> None, row |-> None, key |-> NoField]
NoForm == [step |-> 1, name |-> None, target |-> None, proto |-> "token", url |-> FALSE, model |-> None, token |-> NoField]

\* customAPIKeyForSave and result: what a secret field gives.
FieldValue(f) == IF f.masked THEN f.orig ELSE f.val
ManualToken(f) == IF f.masked \/ (f.val = None /\ f.orig # None) THEN f.orig ELSE f.val
TypedOver(f, secret) == [masked |-> FALSE, orig |-> IF f.masked THEN None ELSE f.orig, val |-> secret]

Tabs == {"presets", "customs"}
AtList == [Closed EXCEPT !.at = "list", !.key = ui.key]
Official == ui.tab = "presets"
Row(cfg) == At(cfg[ui.tab], ui.who)
(* Mutated: an entry is written back without the fields the program does not know. *)
WithEntryKnown(cfg, e) == [cfg EXCEPT ![ui.tab] = Put(@, ui.who, [e EXCEPT !.unknown = FALSE])]

WithEntry(cfg, e) == [cfg EXCEPT ![ui.tab] = Put(@, ui.who, e)]
SecretTyped == IF Official THEN ui.who ELSE "custom"
UsesExternal(n, e) ==
  n \in External \/ (IF e.proto # None THEN e.proto = "bedrock" ELSE n \in Ambient)
Registered == IF Official THEN Registry[ui.who] ELSE {}
ModelList == Row(shown).models \cup Registered

AddModelTo(m) == WithEntry(shown, [Row(shown) EXCEPT !.models = @ \cup {m}])
ModelDeleted(m) ==
  LET gone == WithEntry(shown, [Row(shown) EXCEPT !.models = @ \ {m}, !.model = IF @ = m THEN None ELSE @]) IN
  IF shown.provider = ui.who /\ shown.model = m THEN [gone EXCEPT !.model = None] ELSE gone

---------------------------------------------------------------------------
(* Saving what is shown.  The file is rewritten in place: a write may fail  *)
(* before it touches the file or after it has emptied it.                   *)

Touched(new) == held' = IF same THEN new ELSE held
SaveShown(new) ==
  /\ disk' = new /\ shown' = new /\ Touched(new) /\ edits' = edits - 1 /\ edits > 0
  /\ UNCHANGED <<same, faults>>
CutShort == disk' \in {disk, Broken} /\ faults > 0 /\ faults' = faults - 1 /\ edits' = edits

\* reloadConfigAfterSaveFailure; `undo` is what the wizard falls back on when
\* the file cannot be read again.
SaveFails(new, undo) ==
  /\ edits > 0 /\ CutShort
  /\ IF disk' # Broken
     THEN shown' = disk' /\ same' = FALSE /\ Touched(new) /\ listed' = DOMAIN disk'.customs
     ELSE shown' = undo /\ same' = same /\ Touched(undo) /\ listed' = listed
  /\ UNCHANGED ui

Stay == UNCHANGED <<disk, keyVar, kind, held, shown, same, listed, edits, faults, chosen>>
Kept == UNCHANGED <<keyVar, kind>>

---------------------------------------------------------------------------
(* The commands without a wizard.                                           *)

ConfigInit ==
  /\ \E start \in Starts : disk = start.file /\ keyVar = start.keyVar
  /\ kind = "none" /\ held = EmptyConfig /\ shown = EmptyConfig /\ same = TRUE /\ listed = {}
  /\ ui = Closed /\ form = NoForm /\ edits = MaxEdits /\ faults = MaxFaults /\ chosen = None

FieldValues(n) ==
  {<<"key", Typed(n)>>, <<"cmd", "cmd">>, <<"url", TRUE>>, <<"url", Blank>>,
   <<"proto", "token">>, <<"proto", "bedrock">>, <<"proto", "bogus">>, <<"aws", TRUE>>, <<"aux", "bad">>}
LlmValues == {<<"url", TRUE>>, <<"token", "manual">>, <<"cmd", "cmd">>, <<"proto", "bedrock">>}

FieldEdits(cfg, n) ==
  {SetProviderField(cfg, section, n, fv[1], fv[2]) : fv \in FieldValues(n), section \in {"providers", "custom_providers"}}
Edits(cfg) ==
  {SetProvider(cfg, n) : n \in NamesTyped} \cup {SetModel(cfg, m) : m \in Models}
  \cup {SetLlm(cfg, fv[1], fv[2]) : fv \in LlmValues} \cup {UnsetProvider(cfg)} \cup {DeleteCustomProvider(cfg, n) : n \in Customs}
  \cup UNION {FieldEdits(cfg, n) : n \in NamesTyped}

\* A command that cannot parse the file does nothing.
Command ==
  /\ kind = "none" /\ disk # Broken /\ edits > 0
  /\ \E edit \in Edits(disk) :
       /\ edit.ok
       /\ \/ disk' = edit.cfg /\ edits' = edits - 1 /\ faults' = faults
          \/ disk' = Broken /\ faults > 0 /\ faults' = faults - 1 /\ edits' = edits
  /\ chosen' = None
  /\ UNCHANGED <<keyVar, kind, held, shown, same, listed, ui, form>>

Repair ==
  /\ kind = "none" /\ disk = Broken /\ edits > 0 /\ disk' = EmptyConfig /\ edits' = edits - 1
  /\ UNCHANGED <<keyVar, kind, held, shown, same, listed, ui, form, faults, chosen>>

---------------------------------------------------------------------------
(* Opening and leaving.                                                     *)

Loaded(k) == kind = "none" /\ disk # Broken /\ edits > 0 /\ kind' = k /\ held' = disk /\ shown' = disk /\ same' = TRUE

OpenProviderWizard ==
  /\ Loaded("provider")
  /\ ui' = [at |-> "list", tab |-> "presets", who |-> None, row |-> None,
            key |-> IF disk.provider \in Presets THEN Masked(EntryOf(disk, disk.provider).key) ELSE NoField]
  /\ form' = NoForm
  /\ listed' = DOMAIN disk.customs
  /\ UNCHANGED <<disk, keyVar, edits, faults, chosen>>

OpenModelWizard ==
  /\ disk # Broken
  /\ disk.provider # None /\ (disk.provider \in Presets \/ disk.provider \in DOMAIN disk.customs)
  /\ Loaded("model")
  /\ ui' = [Closed EXCEPT !.at = "model", !.tab = Section(disk.provider), !.who = disk.provider]
  /\ listed' = {} /\ UNCHANGED <<disk, keyVar, form, edits, faults, chosen>>

Leave == kind' = "none" /\ ui' = Closed /\ form' = NoForm /\ listed' = {} /\ held' = EmptyConfig /\ shown' = EmptyConfig /\ same' = TRUE

\* Ctrl-C anywhere, Esc on the list or in the model wizard.
Cancel ==
  /\ kind # "none" /\ Leave
  /\ UNCHANGED <<disk, keyVar, edits, faults, chosen>>

\* Esc elsewhere, and `n` to a question.
Back ==
  /\ kind # "none"
  /\ \/ ui.at = "model" /\ kind = "provider" /\ ui' = AtList /\ UNCHANGED form
     \/ ui.at \in {"name", "key", "delete model"} /\ ui' = [ui EXCEPT !.at = "model", !.row = None] /\ UNCHANGED form
     \/ ui.at = "delete provider" /\ ui' = AtList /\ UNCHANGED form
     \/ ui.at \in {"create", "edit", "manual"} /\ form.step > 1 /\ form' = [form EXCEPT !.step = @ - 1] /\ UNCHANGED ui
     \/ ui.at \in {"create", "edit"} /\ form.step = 1 /\ ui' = [AtList EXCEPT !.key = NoField] /\ form' = NoForm
     \/ ui.at = "manual" /\ form.step = 1 /\ ui' = AtList /\ form' = NoForm
  /\ Stay

---------------------------------------------------------------------------
(* The list of providers and the list of models.                            *)

HandleEnterProvider ==
  /\ ui.at = "list"
  /\ \E tab \in Tabs : \E n \in IF tab = "presets" THEN Presets ELSE listed :
       ui' = [ui EXCEPT !.at = "model", !.tab = tab, !.who = n, !.row = None]
  /\ Stay /\ UNCHANGED form

AskDelete ==
  /\ ui.at = "list" /\ \E n \in listed : ui' = [ui EXCEPT !.at = "delete provider", !.tab = "customs", !.who = n]
  /\ Stay /\ UNCHANGED form

\* Unlike the other steps this one takes nothing back when the file cannot be
\* read again.
ConfirmDelete ==
  LET gone == Without(shown.customs, ui.who)
      new == IF shown.provider = ui.who THEN [Activated(shown, None, None) EXCEPT !.customs = gone]
             ELSE [shown EXCEPT !.customs = gone] IN
  /\ ui.at = "delete provider"
  /\ \/ SaveShown(new) /\ listed' = listed \ {ui.who}
     \/ /\ edits > 0 /\ CutShort
        /\ IF disk' # Broken THEN shown' = disk' /\ same' = FALSE /\ listed' = DOMAIN disk'.customs
           ELSE shown' = new /\ same' = same /\ listed' = listed \ {ui.who}
        /\ Touched(new)
  /\ ui' = AtList /\ chosen' = None
  /\ Kept /\ UNCHANGED form

AskName ==
  /\ ui.at = "model" /\ ui' = [ui EXCEPT !.at = "name"] /\ Stay /\ UNCHANGED form

PersistModel(k) ==
  /\ kind = k /\ ui.at = "name"
  /\ \E m \in Models \ ModelList :
       LET new == AddModelTo(m) IN
       \/ SaveShown(new) /\ listed' = listed /\ ui' = [ui EXCEPT !.at = "model"]
       \/ SaveFails(new, shown)
  /\ chosen' = None /\ Kept /\ UNCHANGED form
PersistCustomModelName == PersistModel("provider")
PersistAddedModelName == PersistModel("model")

AskDeleteModel ==
  /\ ui.at = "model"
  /\ \E m \in Row(shown).models \ Registered : ui' = [ui EXCEPT !.at = "delete model", !.row = m]
  /\ Stay /\ UNCHANGED form

DeleteModel(k, preset) ==
  LET new == ModelDeleted(ui.row) IN
  /\ kind = k /\ ui.at = "delete model" /\ (Official <=> preset)
  /\ \/ SaveShown(new) /\ listed' = listed
     \/ /\ edits > 0 /\ CutShort
        /\ IF disk' # Broken THEN shown' = disk' /\ same' = FALSE /\ Touched(new) /\ listed' = DOMAIN disk'.customs
           ELSE shown' = shown /\ same' = same /\ held' = held /\ listed' = listed
  /\ ui' = [ui EXCEPT !.at = "model", !.row = None] /\ chosen' = None
  /\ Kept /\ UNCHANGED form
ConfirmDeleteCustomModel == DeleteModel("provider", FALSE)
ConfirmDeleteOfficialModel == DeleteModel("provider", TRUE)
ConfirmDeleteCustomProviderModel == DeleteModel("model", FALSE)
ConfirmDeleteOfficialProviderModel == DeleteModel("model", TRUE)

---------------------------------------------------------------------------
(* The forms: create or edit a custom provider, and the manual endpoint.    *)

EnterCreate ==
  /\ ui.at = "list" /\ ui' = [ui EXCEPT !.at = "create", !.tab = "customs", !.who = None, !.key = [@ EXCEPT !.masked = FALSE, !.val = None]]
  /\ form' = NoForm
  /\ kind = "provider" /\ Stay

EnterEditCustomProvider ==
  /\ ui.at = "list"
  /\ \E n \in listed :
       LET e == At(shown.customs, n) IN
       /\ ui' = [ui EXCEPT !.at = "edit", !.tab = "customs", !.who = n, !.key = Masked(e.key)]
       /\ form' = [NoForm EXCEPT !.name = n, !.target = n, !.url = e.url,
                   !.proto = IF e.proto = "bedrock" THEN "bedrock" ELSE "token"]
  /\ Stay

TypeKey ==
  /\ ui.at \in {"create", "edit"} /\ form.step = 4
  /\ \E secret \in {None, "custom"} : ui' = [ui EXCEPT !.key = TypedOver(@, secret)]
  /\ Stay /\ UNCHANGED form

\* Enter on the first four fields of the form; the fifth finishes it, as does
\* the protocol when it needs no further field.
HandleCustomFormEnter ==
  /\ ui.at \in {"create", "edit"} /\ form.step < 5 /\ ~(form.step = 2 /\ form.proto = "bedrock")
  /\ \/ /\ form.step = 1 /\ UNCHANGED ui
        /\ \E n \in NamesTyped : /\ n \in DOMAIN shown.customs => ui.at = "edit" /\ n = form.target
                               /\ form' = [form EXCEPT !.name = n, !.step = 2]
     \/ form.step = 2 /\ form' = [form EXCEPT !.step = 3] /\ UNCHANGED ui
     \/ /\ form.step = 3 /\ form' = [form EXCEPT !.url = TRUE, !.step = 4]
        /\ ui' = IF ui.at = "create" THEN [ui EXCEPT !.key = [@ EXCEPT !.masked = FALSE, !.val = None]] ELSE ui
     \/ form.step = 4 /\ form' = [form EXCEPT !.step = 5] /\ UNCHANGED ui
  /\ Stay

ChooseProtocol ==
  /\ ui.at \in {"create", "edit"} /\ form.step = 2
  /\ \E p \in Protocols \ {form.proto} : form' = [form EXCEPT !.proto = p]
  /\ Stay /\ UNCHANGED ui

Finished == form.step = 5 \/ (form.step = 2 /\ form.proto = "bedrock")

\* A failed save leaves the new entry among those shown, and in the object the
\* command holds: nothing is read again or taken back.
ApplyCreateCustomProvider ==
  LET bedrock == form.proto = "bedrock"
      e == [NoEntry EXCEPT !.url = ~bedrock /\ form.url, !.proto = form.proto,
                           !.key = IF bedrock THEN None ELSE FieldValue(ui.key)]
      new == [shown EXCEPT !.customs = Put(@, form.name, e)] IN
  /\ ui.at = "create" /\ Finished /\ form.name \notin DOMAIN shown.customs
  /\ \/ /\ SaveShown(new) /\ listed' = DOMAIN new.customs /\ form' = NoForm
        /\ ui' = [ui EXCEPT !.at = "model", !.who = form.name, !.row = None, !.key = NoField]
     \/ /\ edits > 0 /\ CutShort /\ shown' = new /\ Touched(new) /\ UNCHANGED <<same, listed, ui, form>>
  /\ chosen' = None /\ Kept

ApplyEditCustomProviderSave ==
  LET bedrock == form.proto = "bedrock"
      old == At(shown.customs, form.target)
      e == [old EXCEPT !.url = ~bedrock /\ form.url, !.proto = form.proto,
                       !.models = IF old.model = None THEN @ ELSE @ \cup {old.model},
                       !.key = IF bedrock THEN None ELSE IF ui.key.masked THEN @ ELSE ui.key.val]
      renamed == form.name # form.target
      moved == IF renamed THEN Without(shown.customs, form.target) ELSE shown.customs
      kept == IF renamed /\ shown.provider = form.target THEN Activated(shown, form.name, None) ELSE shown
      new == [kept EXCEPT !.customs = Put(moved, form.name, e)] IN
  /\ ui.at = "edit" /\ Finished
  /\ renamed => form.name \notin DOMAIN shown.customs
  /\ \/ /\ SaveShown(new) /\ listed' = DOMAIN new.customs /\ form' = NoForm
        /\ ui' = [ui EXCEPT !.at = "model", !.who = form.name, !.row = None, !.key = NoField]
     \/ SaveFails(new, shown) /\ UNCHANGED form
  /\ chosen' = None /\ Kept

---------------------------------------------------------------------------
(* The last step: a model, a key, and the command's own save.               *)

\* The command applies the choice to the configuration it holds, saves that
\* one, and ends.
Confirm(new, promise) ==
  /\ edits > 0 /\ Leave
  /\ \/ /\ disk' = new /\ chosen' = promise /\ edits' = edits - 1 /\ faults' = faults
     \/ CutShort /\ chosen' = None
  /\ UNCHANGED keyVar

Promise(n, m, secret) == [by |-> kind, stale |-> ~same, provider |-> n, model |-> m, secret |-> secret]

\* checkAPIKeyRequirement: the last look before the save of a preset.
KeyRequirementMet(secret) ==
  \/ secret # None \/ Given(Row(held).cmd) \/ UsesExternal(ui.who, Row(held))
  \/ ui.who \in Keyed /\ keyVar # None

ApplyOfficialProviderConfig(m, secret) ==
  LET e == [Row(held) EXCEPT !.model = m, !.key = secret] IN
  IF KeyRequirementMet(secret) THEN Confirm(Activated(WithEntry(held, e), ui.who, m), Promise(ui.who, m, secret))
  ELSE Leave /\ UNCHANGED <<disk, keyVar, edits, faults, chosen>>

ApplyCustomProviderConfig(m, secret) ==
  LET row == Row(shown)
      e == [Row(held) EXCEPT !.model = m, !.models = (IF row.models # {} THEN row.models ELSE @) \cup {m},
              !.url = row.url \/ @, !.proto = IF row.proto # None THEN row.proto ELSE @, !.key = secret] IN
  Confirm(Activated(WithEntry(held, e), ui.who, m), Promise(ui.who, m, secret))

(* Mutated: the key field is not dropped. *)
KeyStuck == ui.key

\* The model step ends the wizard for a provider that has no key to collect;
\* the key field, perhaps filled for another provider, is dropped first.
KeyLeft == NoField
SelectModel ==
  /\ kind = "provider" /\ ui.at = "model"
  /\ \E m \in ModelList :
       IF Official /\ UsesExternal(ui.who, Row(shown))
       THEN ApplyOfficialProviderConfig(m, FieldValue(KeyLeft))
       ELSE /\ ui' = [ui EXCEPT !.at = "key", !.row = m, !.key = Masked(Row(shown).key)]
            /\ Stay /\ UNCHANGED form

TypeAPIKey ==
  /\ ui.at = "key"
  /\ \E secret \in {None, SecretTyped} : ui' = [ui EXCEPT !.key = TypedOver(@, secret)]
  /\ Stay /\ UNCHANGED form

APIKeyStepCanConfirm ==
  \/ ui.key.orig # None \/ (~ui.key.masked /\ ui.key.val # None)
  \/ Given(Row(shown).cmd)
  \/ Official /\ (UsesExternal(ui.who, Row(shown)) \/ (ui.who \in Keyed /\ keyVar # None))

ConfirmAPIKey ==
  /\ ui.at = "key" /\ APIKeyStepCanConfirm
  /\ IF Official THEN ApplyOfficialProviderConfig(ui.row, FieldValue(ui.key))
     ELSE ApplyCustomProviderConfig(ui.row, FieldValue(ui.key))

\* The saved token shows when there is a URL, and from the second visit on.
EnterManual ==
  /\ ui.at = "list" /\ ui' = [ui EXCEPT !.at = "manual", !.who = None]
  /\ \E known \in {TRUE, shown.llm.url} : form' = [NoForm EXCEPT !.token = IF known THEN Masked(shown.llm.token) ELSE NoField]
  /\ Stay

\* URL, protocol, model, token; the header is the fifth step.
HandleManualFormEnter ==
  /\ ui.at = "manual" /\ form.step < 5
  /\ \/ form.step \in {1, 2} /\ form' = [form EXCEPT !.url = TRUE, !.step = @ + 1]
     \/ form.step = 3 /\ \E m \in Models : form' = [form EXCEPT !.model = m, !.step = 4]
     \/ /\ form.step = 4
        /\ \E field \in {form.token} \cup {TypedOver(form.token, secret) : secret \in {None, "manual"}} :
             /\ field.masked \/ field.val # None \/ field.orig # None \/ Given(shown.llm.cmd)
             /\ form' = [form EXCEPT !.token = field, !.step = 5]
  /\ Stay /\ UNCHANGED ui

ApplyManualConfig ==
  LET token == ManualToken(form.token) IN
  /\ ui.at = "manual" /\ form.step = 5
  /\ Confirm([Activated(held, None, None) EXCEPT
                !.llm = [@ EXCEPT !.url = TRUE, !.model = form.model, !.token = token, !.proto = "token"]],
             Promise(None, form.model, token))

SelectModelOnly ==
  /\ kind = "model" /\ ui.at = "model"
  /\ \E m \in ModelList :
       LET e == [Row(held) EXCEPT !.model = m, !.models = IF m \in Registered THEN @ ELSE @ \cup {m}] IN
       Confirm([WithEntry(held, e) EXCEPT !.model = m], Promise(ui.who, m, Row(held).key))

Wizard ==
  \/ Cancel \/ Back
  \/ HandleEnterProvider \/ AskDelete \/ ConfirmDelete \/ AskName \/ PersistCustomModelName \/ PersistAddedModelName
  \/ AskDeleteModel \/ ConfirmDeleteCustomModel \/ ConfirmDeleteOfficialModel
  \/ ConfirmDeleteCustomProviderModel \/ ConfirmDeleteOfficialProviderModel
  \/ EnterCreate \/ EnterEditCustomProvider \/ TypeKey \/ HandleCustomFormEnter \/ ChooseProtocol
  \/ ApplyCreateCustomProvider \/ ApplyEditCustomProviderSave
  \/ SelectModel \/ TypeAPIKey \/ ConfirmAPIKey
  \/ EnterManual \/ HandleManualFormEnter \/ ApplyManualConfig \/ SelectModelOnly
ConfigNext == Command \/ Repair \/ OpenProviderWizard \/ OpenModelWizard \/ Wizard

ConfigSpec == ConfigInit /\ [][ConfigNext]_configVars
---------------------------------------------------------------------------
(* Properties.                                                              *)

Sound == disk # Broken

\* What a wizard confirmed is what runs: until the file changes again the
\* resolver either refuses, naming what is wrong in an entry the wizard did not
\* check (`config model` does not ask for a key), or serves the provider, the model and the secret the user
\* chose, whatever other sources are complete (provider_cmd.go applies the
\* choice, resolver.go reads it).  A custom provider named like a preset and
\* a saved secret of white space are known exceptions; so is a credential
\* command the wizard shows and the command's own copy has lost to a deletion
\* that was not saved.
Elsewhere == [overrides |-> TRUE, keyVar |-> keyVar, ocr |-> "complete", claude |-> "complete", shell |-> "complete",
              command |-> TRUE, account |-> TRUE]
ChoiceTakesEffect ==
  (chosen # None /\ chosen.secret # Blank /\ ~Clash(disk, chosen.provider)) =>
    LET r == ResolveEndpoint(disk, [provider |-> None, model |-> None], Elsewhere) IN
    IF r.end = "refused" THEN r.why \in {"protocol missing", "protocol unknown", "url missing", "bad setting", "override"}
                              \/ (r.why = "no credential" /\ (chosen.by = "model" \/ chosen.stale \/ keyVar = Blank))
    ELSE \/ /\ r.provider = chosen.provider /\ r.model = chosen.model
            /\ chosen.secret # None => r.secret = chosen.secret
         \/ chosen.provider \in Ambient /\ ~EntryOf(disk, chosen.provider).url

\* A secret typed for one provider is never saved under another, whichever
\* tabs, forms and steps the user passed through before (handleEnter drops the
\* key field, loadExistingAPIKey refills it).
KeysStayHome == Sound => KeysAtHome(disk)

\* The active provider is one the file configures: deletions, renames, and
\* saves that failed half way never leave a name without an entry, which the
\* resolver would refuse.  (A custom provider named like a preset again.)
ActiveConfigured == Sound => ActiveIn(disk)

\* What the wizard shows is what is saved, also after a save that failed
\* (reloadConfigAfterSaveFailure), but for providers whose creation was not
\* saved: those stay shown, and the next save that works writes them.
ShownIsSaved ==
  (kind # "none" /\ Sound) =>
    /\ [shown EXCEPT !.customs = disk.customs] = disk
    /\ \A n \in DOMAIN disk.customs : n \in DOMAIN shown.customs /\ shown.customs[n] = disk.customs[n]

\* The command's last save keeps what the session saved: the providers and
\* the models the wizard shows, and hand-written fields.
Keeps(old, new) ==
  \A section \in Tabs : \A n \in DOMAIN old[section] :
    /\ n \in DOMAIN new[section]
    /\ old[section][n].models \subseteq new[section][n].models
    /\ old[section][n].unknown => new[section][n].unknown
LastStep == kind # "none" /\ kind' = "none" /\ disk' \notin {disk, Broken}
SessionKept == [][LastStep /\ same => Keeps(shown, disk')]_configVars

\* A credential command, which may prompt the user, runs only for an endpoint
\* that uses what it prints: no other refusal, and no discarded output
\* (tryProviderConfig, tryLegacyLlmConfig, parseEnvOverrides).
CommandOnlyForUse ==
  (kind = "none" /\ Sound) => \A env \in Environments, opts \in Runs :
    LET r == ResolveEndpoint(disk, opts, env) IN
    r.ran => (r.end = "endpoint" /\ r.secret = "command") \/ (~env.command /\ r.why = "command")

\* A configured provider is served or refused, never passed over for another
\* source, and a model remembered for one provider does not follow a run that
\* names another (tryOCRConfig).  A bedrock preset turned to a token protocol
\* without a URL is the exception.
ProviderNotBypassed ==
  (kind = "none" /\ Sound) => \A env \in Environments, opts \in Runs :
    LET r == ResolveEndpoint(disk, opts, env)
        n == IF opts.provider # None THEN opts.provider ELSE disk.provider IN
    (n # None /\ r.end = "endpoint" /\ ~(n \in Ambient /\ ~EntryOf(disk, n).url)) =>
      /\ r.provider = n
      /\ opts.model # None => r.model = opts.model
      /\ (opts.model = None /\ EntryOf(disk, n).model = None /\ n \notin External) => n = disk.provider /\ r.model = disk.model

\* However a wizard was left, the file is one that can be run from: it is what
\* was shown, the active provider is in it and every secret with its owner.
FileSound == KeysStayHome /\ ActiveConfigured /\ ShownIsSaved

\* What a run is given is what was configured, whatever else could serve it.
ResolvedAsChosen == ChoiceTakesEffect /\ CommandOnlyForUse /\ ProviderNotBypassed
=============================================================================
