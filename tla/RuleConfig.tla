----------------------------- MODULE RuleConfig -----------------------------
(***************************************************************************)
(* The rules that a review follows (internal/config/rules): the layers, the  *)
(* sniffing of ".m" files, the file filter, the canonical form that is       *)
(* hashed into a run's identity, and the rules of a group.                   *)
(*                                                                         *)
(* A layer is a sequence of entries [paths, rule, merge], the paths being    *)
(* those its pattern matches, with its include and exclude paths.  A rule    *)
(* file that cannot be read leaves "".  Layer 4 is the embedded one.         *)
(***************************************************************************)
EXTENDS Integers, Sequences, FiniteSets, FiniteSetsExt, SequencesExt

NoLayer == [rules |-> <<>>, include |-> {}, exclude |-> {}]

\* The first entry that matches and says anything.
MatchProjectRuleEntry(layer, path) ==
  LET hits == {i \in DOMAIN layer.rules : path \in layer.rules[i].paths /\ (layer.rules[i].rule # "" \/ layer.rules[i].merge)}
  IN IF hits = {} THEN 0 ELSE Min(hits)

\* Objective-C is told from MATLAB by the first line of a ".m" file, in the
\* tree or at the reviewed commit; one that cannot be read is not told.
SniffsAsObjC(config, path) == path \in config.objc

\* The embedded rules.
SystemResolve(config, path) ==
  LET hits == {i \in DOMAIN config.system.rules : path \in config.system.rules[i].paths} IN
  IF SniffsAsObjC(config, path) THEN "objc"
  ELSE IF hits = {} THEN config.system.default ELSE config.system.rules[Min(hits)].rule

MergeWithSystemRule(config, path, rule) == SelectSeq(<<SystemResolve(config, path), rule>>, LAMBDA r : r # "")

Resolve(config, path) ==
  LET matched == {l \in DOMAIN config.layers : MatchProjectRuleEntry(config.layers[l], path) # 0} IN
  IF matched = {} THEN <<SystemResolve(config, path)>>
  ELSE LET layer == config.layers[Min(matched)]
           entry == layer.rules[MatchProjectRuleEntry(layer, path)]
       IN IF entry.merge THEN MergeWithSystemRule(config, path, entry.rule) ELSE <<entry.rule>>

\* The first layer that filters at all decides what is filtered.
BuildFileFilter(config) ==
  LET filtering == {l \in DOMAIN config.layers : config.layers[l].include # {} \/ config.layers[l].exclude # {}} IN
  IF filtering = {} THEN [include |-> {}, exclude |-> {}]
  ELSE [include |-> config.layers[Min(filtering)].include, exclude |-> config.layers[Min(filtering)].exclude]
Filtered(config, path) ==
  LET f == BuildFileFilter(config) IN
  CASE path \in f.exclude -> "excluded" [] path \in f.include -> "included" [] OTHER -> "open"

(* Mutated: how an entry is combined with the embedded rule is left out.    *)
CanonicalWithoutMerge(config) ==
  [layers |-> FlattenSeq([l \in DOMAIN config.layers |->
                 [i \in DOMAIN config.layers[l].rules |-> <<l, config.layers[l].rules[i].paths, config.layers[l].rules[i].rule>>]]),
   system |-> config.system, filter |-> BuildFileFilter(config)]

\* The fields that are hashed: every entry of every layer in order, the
\* embedded rules, and the filter that applies.
CanonicalConfig(config) ==
  [layers |-> FlattenSeq([l \in DOMAIN config.layers |->
                 [i \in DOMAIN config.layers[l].rules |->
                    <<l, config.layers[l].rules[i].paths, config.layers[l].rules[i].rule, config.layers[l].rules[i].merge>>]]),
   system |-> config.system, filter |-> BuildFileFilter(config)]

(* Checkpoints are reused when the hash is the same: then every file has the  *)
(* same rule and the same filtering.                                          *)
SameHashSameRules(one, other, paths) ==
  (CanonicalConfig(one) = CanonicalConfig(other) /\ one.objc = other.objc) =>
    \A p \in paths : Resolve(one, p) = Resolve(other, p) /\ Filtered(one, p) = Filtered(other, p)

---------------------------------------------------------------------------
(* The layers are read from up to three files.  A rule is its text or names a *)
(* file: "inside" its base, one that "climbs" out of it or is "linked" out of *)
(* it, "elsewhere" by an absolute path, or "gone", which is also what has     *)
(* another extension or is too large.                                         *)

\* Only the project's own rules are confined to the repository.
TryReadRuleFile(entry, confined) ==
  IF entry.ref \in {"climbs", "gone"} \/ (confined /\ entry.ref \in {"linked", "elsewhere"}) THEN "" ELSE entry.rule
ResolveRuleEntries(rules, confined) == [i \in DOMAIN rules |-> [rules[i] EXCEPT !.rule = TryReadRuleFile(rules[i], confined)]]

LoadRuleFile(file, confined) ==
  IF file.state # "read" THEN NoLayer
  ELSE [rules |-> ResolveRuleEntries(file.rules, confined), include |-> file.include, exclude |-> file.exclude]

\* The file of --rule must be there; the project's is ignored outside of it.
Loads(setup) == setup.custom.state \in {"unset", "read"} /\ setup.project.state # "unreadable" /\ setup.global.state # "unreadable"
NewResolver(setup) ==
  [layers |-> <<LoadRuleFile(setup.custom, FALSE), LoadRuleFile(setup.project, TRUE), LoadRuleFile(setup.global, FALSE)>>,
   system |-> setup.system, objc |-> {}]

(* A rule whose file cannot be used is as good as not written, unless it asks *)
(* for the embedded one; the project's rules never hold text from outside of  *)
(* the repository; and a rule file that changed changes the hash.             *)
RulesLoaded(setup, paths) ==
  LET usable(file, refs) ==
        [file EXCEPT !.rules = SelectSeq(@, LAMBDA e : e.merge \/ e.ref \in refs)]
      bare == [setup EXCEPT !.custom = usable(@, {"inline", "inside", "linked", "elsewhere"}), !.project = usable(@, {"inline", "inside"})]
      edit(file) == [file EXCEPT !.rules = [i \in DOMAIN @ |-> IF @[i].ref = "inline" THEN @[i] ELSE [@[i] EXCEPT !.rule = "edited"]]]
      edited == [setup EXCEPT !.custom = edit(@), !.project = edit(@)]
  IN Loads(setup) =>
       /\ \A p \in paths : Resolve(NewResolver(setup), p) = Resolve(NewResolver(bare), p)
       /\ \A i \in DOMAIN setup.project.rules :
            setup.project.rules[i].ref \in {"linked", "elsewhere"} => NewResolver(setup).layers[2].rules[i].rule = ""
       /\ SameHashSameRules(NewResolver(setup), NewResolver(edited), paths)

---------------------------------------------------------------------------
(* resolveGroupSystemRule: one block for each distinct rule, in the order of *)
(* the paths, tagged with its files when there is more than one.             *)

ResolveGroupSystemRule(config, paths) ==
  LET Step(blocks, p) ==
        LET same == {b \in DOMAIN blocks : blocks[b].rule = Resolve(config, p)} IN
        IF Resolve(config, p) = <<"">> THEN blocks
        ELSE IF same # {} THEN [blocks EXCEPT ![Min(same)].paths = Append(@, p)]
        ELSE Append(blocks, [rule |-> Resolve(config, p), paths |-> <<p>>])
  IN FoldLeft(Step, <<>>, paths)

(* Where a prompt holds several rules, each file stands under its own and     *)
(* under no other; where it holds one, that is the rule of every file.        *)
RulesAttributed(config, paths) ==
  LET blocks == ResolveGroupSystemRule(config, paths) IN
  \A i \in DOMAIN paths :
    LET under == {b \in DOMAIN blocks : paths[i] \in ToSet(blocks[b].paths)} IN
    IF Len(blocks) = 1 THEN blocks[1].rule = Resolve(config, paths[i])
    ELSE Cardinality(under) = 1 /\ \A b \in under : blocks[b].rule = Resolve(config, paths[i])
=============================================================================
