--------------------------- MODULE MCConfigWizard ---------------------------
EXTENDS ConfigWizard, TLC
CONSTANTS p, b, g, x, m1, m2

RegistryOf == [n \in {p, b, g} |-> {m1}]
Gateway == [NoEntry EXCEPT !.key = "custom", !.url = TRUE, !.proto = "token", !.model = m2, !.models = {m2}, !.unknown = TRUE]
Files == {
  [EmptyConfig EXCEPT !.provider = x, !.model = m2, !.customs = x :> Gateway],
  [EmptyConfig EXCEPT !.provider = p, !.presets = p :> [NoEntry EXCEPT !.key = p, !.model = m1] @@ b :> [NoEntry EXCEPT !.aws = TRUE],
                      !.customs = b :> [NoEntry EXCEPT !.url = TRUE, !.proto = "token", !.cmd = "cmd"]],
  [EmptyConfig EXCEPT !.presets = p :> [NoEntry EXCEPT !.key = Blank, !.cmd = "cmd", !.aux = "bad"],
                      !.llm = [NoLlm EXCEPT !.url = TRUE, !.model = m2, !.cmd = "cmd"]]}
Plain == [overrides |-> TRUE, keyVar |-> None, ocr |-> "none", claude |-> "none", shell |-> "none", command |-> TRUE, account |-> FALSE]
StartFiles == {[file |-> f, keyVar |-> IF f.provider = p THEN "set" ELSE None] : f \in Files}
SomeEnvironments == {Plain, [Plain EXCEPT !.overrides = FALSE], [Plain EXCEPT !.command = FALSE],
  [Plain EXCEPT !.keyVar = "set", !.ocr = "complete", !.account = TRUE], [Plain EXCEPT !.claude = "no model", !.shell = "complete"]}
SomeRuns == {[provider |-> n, model |-> m] : n \in {None, p, x}, m \in {None, m2}}
=============================================================================
