# A verification project for OpenCodeReview (`ocr`)

TLA+ models of what `ocr` decides, keeps and promises, the TLC instances that
check them, and TLAPS proofs of what matters most. Paths are relative to the root
of the repository (`src/` here); line numbers are in `PROJECT.json`, which maps
every definition to the code it stands for.

## 1. The system

`ocr review` reviews a change, `ocr scan` whole files. Both ask a language model
in conversations that call tools; findings arrive as tool calls (`code_comment`).
`ocr-acp`, a program of its own, starts `ocr` for an editor.

    editor ── ocr-acp: session, prompt, clarification ── starts ──┐
                                                                  ▼
    config.json, accounts.json ── endpoint ──►  reviewCmd ── interruptContextWithForcedExit
                                                   │
    git, svn ── diff ── selection ── rules ──► agent.Run ── groupDiffs ── dispatchSubtasks
                                                   │       goroutine per group: executeGroupSubtask
                                                   ▼       │ rounds: conversation, drain, filter, confirm
    ManifestBuilder      SessionHistory/jsonlWriter        ▼
    (coverage, verdict)  (checkpoints, session_end)  llmloop.Runner ── compression job
                                  │                        │
                                  ▼                        ▼
            next run: replay, ValidateResume      LLM client: retries, concurrency limit,
            viewer, session list, compare, rm     retry report

### Inventory

| component | state it keeps | operations | what is hard | what makes it correct |
|---|---|---|---|---|
| Run manifest `internal/session/manifest.go` | items with state and class, first and pending run failure, input, sealed, frozen, result | SetInput, SetRunFailure, SetPendingFailureCause, RegisterSelected, SealSelected, Mark\*, Finalize | callers on many goroutines, late and conflicting marks, a Finalize that fails half way | a file is decided once; the published manifest equals the items for ever; no order of calls makes a run impossible to close |
| Review dispatch `internal/agent/agent.go` | semaphore, dispatched and failed counters, context, tokens used | Run, registerCoverage, applyResume, dispatchSubtasks, settling, recordContextFailure, finalizeManifest | budget read before blocking, slot versus cancellation, three ways of failing with separate bookkeeping | the verdict and the exit status follow from coverage, no finding is lost, the run ends |
| Review rounds, collector, pool `internal/agent/agent.go`, `internal/tool/comment_collector.go`, `internal/llmloop/pool.go` | one comment list, per-path baselines, pending tasks per group | executeGroupSubtask, executeGroupReviewFilter, Add, RemoveByPathAndIndices, SubmitFor, AwaitKey | positions read before a request and used after it, while others append | a filter removes only what it judged, a confirmed finding stands, nothing escapes the filter or the checkpoint |
| Session file and resume `internal/session/*.go` | buffered writer with a sticky error, records, replayed index | open, write\*Record, WriteSessionEnd, Finalize, loadResumeState, ValidateResume, ReusableItem | kill with a half-full buffer, write errors noticed late, damaged lines, refs that move, chains of resumes | only what the parent stood behind is reused, one input per report, checkpoints durable |
| Conversation and compression `internal/llmloop/{loop,compression}.go` | messages, request and empty-round counters, pending job | RunMainTask, runGraceRound, addNextMessage, runCompression, triggerAsyncCompression, tryApply…, cancelPending… | a summary computed from a snapshot is applied by position to a list that went on | calls stay paired with results, no round lost or doubled, it ends |
| Scan dispatch `internal/scan/{agent,batch}.go` | batches, per-batch snapshot, checkpoints, counters | groupBatches, dispatchBatch, maybeRunDedup, applyDedupGroupsWithCheckpoints, recordBatchCheckpoints | merging over files against per-file checkpoints, cancellation mid-batch, budget mid-batch | no finding lost or doubled, checkpoints restore it, success and omissions reported honestly |
| Signals `cmd/opencodereview/interrupt.go` | buffered signal channel, stopped flag, sync.Once | watcher, stop, forceExit | signals racing stop, stop called from two goroutines | first signal cleans up, second one forces, a late one is harmless |
| Review command `cmd/opencodereview/{review_cmd,shared,output}.go`, `internal/mcp` | the output writer with its hidden file, MCP clients and the tools they registered | executeReviewContext, initMCPClients, emitRunResult, lazyFileWriter Write and Close, Freeze, CloseAll | every step of publishing can fail, any signal may end the process, deferred calls run in reverse | an earlier report is replaced by a whole one or not at all; exit 0 means published and complete; the command ends |
| ChatGPT accounts `internal/chatgptauth` | accounts.json, a lock file, an unverified pending refresh | Login, Credentials, Logout, Clear, Select | processes, crashes and lost answers around a refresh token that serves once; a sign-in that spends minutes without the lock | a session ends only by the user or the issuer; no update is overwritten |
| Configuration `cmd/opencodereview/{config_cmd,provider_cmd,provider_tui}.go`, `internal/llm/resolver.go` | config.json; the command's and the wizard's copies of it | config set and unset, two wizards, LoadAppConfig, saveConfig, ResolveEndpointWithOptions | a failed save splits the two copies; a key field shared by providers; eight sources of an endpoint | what was chosen is what resolves; keys stay with their provider |
| LLM client and retry report `internal/llm/{client,responses_client,concurrency,retry_\*}.go` | attempts and outcomes per request, places of the concurrency limit, the frozen report | CompletionsWithCtx of three clients, RecordAttempt, ReviseLastAttempt, FinalizeRequest, Freeze | failures after HTTP 200, second calls, panics, background requests at the freeze | the report says what callers were told; places come back; the run comes to its report |
| Wire formats `internal/llm/{client,responses_client}.go` | none | build of three request formats, stream accumulation, answers | held-back tool results, replayed thinking | what the loop built can be sent; a stream is whole or refused |
| Diff text `internal/diff/{parser,hunk,resolver,relocation}.go` | none | ParseDiffText, ParseHunks, ResolveLineNumbers, RelocateAcrossFiles | content that reads like a header; code that stands in several places | a diff is read as what it was made from; a comment stands on its evidence |
| Change sets `internal/diff/{git,svn}.go`, `internal/agent/identity.go` | none | workspace, range and commit diffs, untracked files, SVN, pinning | three commands over HEAD, index and tree; branches that move | every change once; a resumed run reviews what it sealed |
| Selection and grouping `internal/agent/{selection,preview,grouping}.go` | none | selectFiles, groupDiffs and its limits, change list, filter | the partition is a model's answer | each selected file in one conversation and told to all others |
| Review rules `internal/config/rules` | none | rule files, layers, merge, filter, canonical form | a hash that stands for a configuration; rules that name files | equal hashes review alike; a project's rules hold no text from outside of it |
| Session readers `internal/session/{list,comments,compare,delete}.go`, `internal/viewer/store.go` | none | list, LoadComments, LoadSession, Compare, rm | five parsers of one format, interleaved tasks | they agree; what is removed is what was shown |
| ACP adapter `acp/` | sessions, turns, pending clarification, the child process | NewSession, Prompt, Cancel, CloseSession, Shutdown, run | cancellation at every step, processes that ignore signals, descendants that hold pipes | a closed session is quiet, first cause reported, every turn answered |
| Repository tools `internal/tool/{filereader,file_read,file_find,code_search,svn_files}.go` | what a run keeps of Subversion's files and names and of its searches | Read, ReadLines, file_read, file_find, code_search over git and SVN | limits that cut an answer, four listings, answers kept while the tree is edited | a window, a search and a listing agree, and say when they were cut |
| Scan enumeration, preview and estimate `internal/scan/{provider,preview,estimate}.go` | none | NewProvider, listFiles, filterByPaths, Enumerate, selectScanItems, estimateCost | selectors through links and in other cases, an index that is not the tree | what a selector leads to is scanned once, as previewed; nothing named is never a clean scan |
| Git runner, argument repair, prompts, flags and the other commands, viewer server, telemetry, delegation, ACP transport, extensions | | | I/O, parsing of flags, text | not modelled, see section 8 |

How they interact: the agent's group goroutines call the manifest builder (under
its mutex), the session writer (under its mutex) and one shared comment
collector (under its mutex); comment tasks run on pool goroutines keyed by
group; a conversation owns at most one background compression, whose request
shares the client's places and its retry collector with the reviews; the context
of the run is the only signal passed downwards, by the command line or by a
deadline. Between runs survive the session file, `config.json` and
`accounts.json`. The adapter knows `ocr` as a process with two pipes.

## 2. Modules

| module | models | state ↔ code | actions ↔ code |
|---|---|---|---|
| `CoverageLedger` | abstract: a ledger of decisions, closed once | — | Plan, Decide, Stop, Close |
| `Manifest` | `ManifestBuilder` | one variable per field | one action per method, accepted or rejected |
| `ManifestProofs` | proofs about `Manifest` | | |
| `ReviewDispatch` | one `ocr review` run over the constant `AllFiles`, the rest of a resume in the constant `Groups` (`Selection` makes them); INSTANCEs `Manifest` | `pc`, `gi`, `sem`, `dispatched`, `subtaskFailed`, `phase[g]`, `outcome[g]`, `tasks`, `comments`, `checkpoint` | main goroutine: LoadFails … Persist; group goroutine: Spend, Submit, FilterRemoves, End, Settle, Release; pool: Deliver; environment: CtxEnd |
| `ReviewDispatchProofs` | proofs about `ReviewDispatch`; INSTANCEs `ManifestProofs` | | |
| `ReviewRounds` | the rounds of group goroutines over one collector | the collector as a set of comments whose ids grow in its order, so that a position on a file is a number of earlier comments on it; `pending[g]` tasks of a group, `stage`, `reviewRound`, `baseline`, `candidates`, `confirmed` | Start, RoundHead, FileComment, Land, EndConversation, ReadCandidates, ApplyFilter, Confirm, Leave, Settle |
| `SessionLog` | the session file over a chain of runs, review or scan | `records` given to the writer, `flushed`, `broken`, `disk` | StartRun (replay, admission), Reuse, Complete, Fail, Panic, RecordBatch, Noise, WriteFails, End, EndDelivered, Crash, Damage |
| `Conversation` | `RunMainTask` and its compression | `messages` as a sequence, `job`, counters | LoopHead, RequestFails, NoToolCalls, ToolCalls, Grace\*, JobEnds, Cancel, SpendBudget |
| `GroupProofs` | proofs about `Conversation` and `ReviewRounds` | | |
| `ScanDispatch` | `scan.dispatchSubtasks`, dedup and checkpoints, over the constant `Batches` (`GroupBatches` of `ScanSource` makes them) | `phase`, `batch`, `next`, `comments`, `merged`, `checkpoint` | NextBatch, ReuseFile, GateFile, Launch, LeaveBatch, EndBatch, Join, Dedup, Record, FinishFile, Land |
| `CheckpointProofs` | proofs about `SessionLog` and `ScanDispatch` | | |
| `Interrupt` | the signal watcher and stop | `channel`, `watcher`, `stopper`, `stage` | Signal, Wait, FirstSignal, Second, Check, ForceExit, EnterStop, StopBody, LeaveStop, Proceed |
| `ReviewCommand` | `ocr review` from its output path to its last deferred call, as the work that `Interrupt` guards; EXTENDS `Interrupt` | `at`, `servers`, `registry`, `offered`, `session`, `result`, `writer`, `temp`, `target`, `printed`, `reports`, `failure` | ResolveOutputWriter … ValidateResumeIdentity, InitMCPClient, NewAgent, Run, EmitRunResult, Emitted, CloseWriter, Rename, CleanupOutputTemp, Return, CloseAll, LeaveCloseAll |
| `ReviewCommandProofs` | proofs about `Interrupt` and `ReviewCommand` | | |
| `TokenStore` | accounts.json, its lock, the calls, the issuer | `disk`, `lock`; per call `pc`, `view`, `answer`; of the issuer `told`, `live`, `spent` | Credentials\* (load, serve, refresh, apply, verify, final), Login\*, Logout, Clear, Select, IssuerAnswers, RequestFails, Crash |
| `TokenStoreProofs` | proofs about `TokenStore` | | |
| `ConfigFile` | config.json as data, its edits, the resolution of an endpoint | — (operators) | `Set…`, `Unset…`, `ResolveEndpoint` |
| `ConfigWizard` | the commands and wizards that change it; EXTENDS `ConfigFile` | `disk`, `held` (the command's copy), `shown` (the wizard's), `same`, `ui`, `form` | one action per key that matters in each step of `provider_tui.go`; Command, Repair |
| `Requests` | the logical requests of a run and the retry report | `pc`, `context`, `answer`, `reply`, `entries` (collector), `slots`, `report` | Begin, Acquire, GiveUp, Attempt, Backoff, Return, Refuse, Expire, Interrupt, EndDispatch, WaitBackground, FreezeReport |
| `EndpointProofs` | proofs about `ConfigWizard` with `ConfigFile`, and about `Requests` | | |
| `Turns` | the ACP adapter and the process it runs | `sessions`, `prompt`, `child`, `closer`, `shutdown` | BeginTurn, Read, Merge, Parsed, Announce, Start, Await, Grace, Killed, Drain, Conclude, Collect, Report, DeliverResult, EndTurn; Cancel, CloseSession, Shutdown, Deadline; Leave, Progress |
| `TurnsProofs` | proofs about `Turns` | | |
| `Wire`, `DiffText`, `Changeset`, `Selection`, `ScanSource`, `RuleConfig`, `SessionViews`, `RepositoryTools` | the pure algorithms of the rows above | — (operators) | `MCAlgorithms` picks their inputs |
| `MC*` | instances for TLC | | |

Granularity. A section under a mutex, or under the lock file, is one action;
what a goroutine does between two blocking points and that others can observe in
parts (the files of a group settled one after the other, the builder's SetInput
and Finalize, the three steps of stop, the two readings of a clarification) is as
many actions. A wizard is one goroutine: an action is a key the user presses,
with every save and reload it causes. The operators whose comment starts with
"Mutated" are plausible bugs, each the counterpart of one definition; no
specification uses them, they exist to show that the property it is paired with
in `PROJECT.json` is able to fail.

Data. A finding is a number with the group that filed it and the file it is
on (`ReviewRounds`), the pair of run and input that
produced it (`SessionLog`), the pair of task and path (`ScanDispatch`), or only
its file (`ReviewDispatch`): as much as the properties of that module tell apart.
A secret is what it was typed for; a grant of the issuer is a number; an answer
of a model is a sequence of kinds of parts; a line of a diff has a kind and, where
it is content, one of a few texts, one of which spells a header; a glob is the
set of paths it matches. Reasons, texts, timestamps and provenance are left out.
Tokens are small numbers. A fingerprint is the pair of a path and a content (no
collisions).

Reference definitions. Each pure algorithm is compared with something simpler:
a parsed diff with the files it was rendered from, a workspace's diff with the
contents of HEAD, index and tree, a resolved comment with the places where its
code stands, a group's prompt with the set of selected files, the comments of a
session with the replay of a resume, two hashes with what two configurations
resolve for every path, the files a scan reads with where its selectors lead on
disk, its batches with the order of the files within a key, a window with the lines between the ends of lines, a run of tools over an
edited tree with the answers of a fresh one.

## 3. What each run checks

| run | properties | shows |
|---|---|---|
| `manifest` | ManifestIsSnapshot, CompleteMeansCovered, CanAlwaysClose, ImplementsLedger | any order of calls, valid or rejected, early or late: decisions are final, a failed Finalize leaves no trace, the frozen manifest never changes; the builder refines `CoverageLedger` |
| `dispatch` | EndIsExplained, OutputComplete, CompletedOnEvidence, Termination | a review under a token budget and a context that ends at any step, with asynchronous comments that may land on another group's file, a reused file, load and persistence failures |
| `review_rounds` | ConfirmedStands, FindingsSettled, RemovesOnlyJudged | two groups, two rounds, one collector, re-filed comments |
| `sessions` | ReuseSound, OneInput, LogHolds | chains of three reviews and of two scans with kills, write failures, damaged lines and moving refs |
| `conversation` | WellPaired, RoundsWhole, Ends | four rounds of up to two calls, a background job that ends at any time or never |
| `scan_dispatch` | CheckpointsWhole, OutcomeHonest, FindingsKept | three batches, two slots, a budget, any grouping of duplicates, a cancellation |
| `interrupt` | LateSignalHarmless, CommandHonest, CommandEnds | the review command in its three formats from its output path to its last deferred call, each step and each write of which may fail, with three signals racing the watcher, the cleanup and stop |
| `accounts` | AccountUsable, NoLostUpdate | two calls at once on two registrations: refresh, sign-in, logout, clear, select, each cut short anywhere |
| `configuration` | FileSound, ResolvedAsChosen, SessionKept | commands and wizards over files as they may be found, one failed save, and what would then be resolved |
| `requests` | ReportSound, RunReports | a review's request and a compression's competing for one place, over each client, with every fault |
| `turns` | QuietAfter, CancelForgets, FirstCauseStands, ToldEnds | two prompts of a session and a child that may ignore everything |
| `algorithms` | ConversationsSent, CommentsOnEvidence, ChangesReviewed, FilesReviewed, RulesHeld, SessionsReadAlike | each pure algorithm against its reference definition over all bounded inputs |

Some properties are conjunctions of named parts, stated where the parts are; some
say more than their names:

* `ImplementsLedger` carries what a reader of a manifest relies on: a file's
  fate changes once, from open to decided; the first run failure is kept; the
  verdict is written once, when nothing is open, and follows from the fates.
  A Finalize that sweeps and then fails its validation must therefore undo the
  sweep.
* `EndIsExplained` relates the failure class of files nobody reviewed to what
  stopped the run (`unknown` may come only from a conversation that ended for a
  reason the code does not classify), and the exit status to the coverage.
* `RemovesOnlyJudged` is the soundness of positional removal: a group's own
  removals and everybody's appends may happen between the reading of positions
  and their use. It holds because files belong to one group and only that group
  removes from them.
* In `SessionLog` the gate on the manifest (`Vouched`) turns out to be a second
  line of defence: with the writers of today, dropping it alone is not enough
  to break `ReuseSound`, since a panic after a checkpoint appends a failure
  that retracts it.
* `AccountUsable`: the refresh token the next refresh would send is one the
  issuer still takes, except after the losses no save can prevent (an answer lost
  on the way, a crash with the answer in hand); and only an ID token that names
  somebody else blocks an account, never an outage of the signing keys.
* `NoLostUpdate` is optimistic concurrency: a sign-in that waited in the browser
  replaces only what it had seen.
* `ChoiceTakesEffect` (in `ResolvedAsChosen`) joins the wizards to the resolver:
  what the last confirmed step promised is what a run then resolves, until the
  file changes again. `CommandOnlyForUse` keeps a credential command, which may
  prompt, from running for an endpoint that is refused or not used.
* `ReportSound` compares the frozen report with what each caller was told. Its
  mutant freezes the report without waiting for the background jobs that were
  cancelled (`WaitForNobody`).
* `QuietAfter`: after a close or shutdown that returned without error no turn of
  the session goes on, and what of a run stays behind is reported. `CancelForgets`:
  a clarification from before a cancellation is never merged into what is said
  later, although the parser may store one after `session/cancel` cleared it;
  endTurn clears it again.
* `CommentsOnEvidence` follows a comment through three resolutions in a row: it
  ends on lines that hold its code, in its own file before any other, or on no
  line.
* `ChangesReviewed` compares parsed diffs with the files they were rendered from,
  git's with content that looks like any header, and Subversion's with content that
  its conversion mistakes for one: such a line is lost, and flips `IsNew` or
  `IsDeleted` of its own file but of no other (`SvnParsed`; section 5). It also
  compares the diff of a workspace with the contents of HEAD, index and tree, and
  includes the pinning of a resumed run: whatever its branches do between admission
  and diff, it reviews the endpoints the session recorded.
* `CommandHonest` is what the command leaves behind: `--output` names the earlier
  file or a whole report; exit 0 has published it and saved the session; what is
  refused leaves nothing; the retry report is published once; the report is in
  place before an MCP server is asked to close; the model is told of the tools
  that a server serves. Every write may fail, to a file or to standard output, and the
  property names what the code does not do about it: a text on standard output may
  lose lines unnoticed, so that exit 0 and the retry report are then not vouched for
  (`LostText`), and a result in SARIF has no place for the retry report
  (`ReportedOnce`). Section 5 lists both.
* `CommentsOnEvidence` also covers what a model sees while it writes: a window of
  `file_read` is the lines asked for under their own numbers and says when it is cut
  (`WindowShown`), a search shows the first matches with those numbers
  (`MatchesShown`), what a query finds can be read (`FilesFound`), and the answers of
  a run agree with its ref, or with each other while somebody edits
  (`AnswersAgree`).
* `FilesReviewed` for a scan: `SelectedIsScanned` finds what a selector leads to
  by relating paths, where the code walks name by name; `ScannedAlike` compares a
  directory as a repository and without git; `ScanIsForeseen` ties the preview
  and the estimate to the run, and the estimate to the sum the budget looks ahead
  with.
* `SessionsReadAlike` holds for sessions whose tasks are not re-located by
  concurrent requests on one file; section 5 says what happens to others.

### Bounds, and why they are enough

* `manifest`: three items so that one can be completed, one failed and one
  open; two classes of each kind plus an invalid one, a valid and an invalid
  mode. The theorems remove the bound.
* `dispatch`: three groups over two slots (`Concurrency`), so that the third waits
  for a slot while both are taken, and is gated by the budget or races a
  cancellation meanwhile: a slot that is not given back leaves it waiting for ever,
  and `Termination` is lost. One group has two files, so that a file can be decided
  differently from its neighbour; one file is reused. Each group may spend the
  whole budget of one (`MaxSpend`, with `GroupingCost` the only bounds on counters;
  the groups' behaviour depends only on the comparison with the budget). The
  comments of the second group (`Commenting`) land on its own file or on one of the
  first (`Refile`). The context is cancelled at any step; that it reaches a
  deadline, which the command never sets, is a case of the model and of the
  theorems, not of this run.
* `review_rounds`: a group of two files and one of one file, two rounds (the
  second is the first that has a past), three comments (`MaxComments`): one to
  stand, one to be removed, one to arrive meanwhile. `ConfirmedCap = 3` (30 in
  the code) stands for the cap that ends a group's rounds early; here it is
  reached when one group files all three.
* `sessions`: `MaxRuns` is three for reviews: a reused result reused again.
  Two files, one with the same content under both inputs. `MaxNoise` records
  without a flush: one, for scans.
* `conversation`: `MaxToolRequestTimes = 4`, one or two calls a round, results of
  size 1 or 3 against limits 6 and 8: a turn can stay under both thresholds,
  land between them, or jump over both; a second job can follow a first.
* `scan_dispatch`: four files in three batches (those `GroupBatches` makes of a key
  with three files and another with one, in twos), two slots, two requests within the
  budget, one file resumed, findings filed within a batch and across batches.
  `SpentBound` caps the token counter just past the budget.
* `interrupt`: `MaxSignals = 3`: one that the watcher takes, one that it waits
  for, one that comes while stop runs; the theorems remove the bound. Two servers
  that publish a tool of the same name, one limited to others, and one under the
  name of a built-in tool. `Lines = 2`: a report that fails at its first line
  or at a later one, in each of the three formats, to a file or to standard output.
  The command runs under a context that never ends (`main.go:27`), so that a parent's
  end (`EndParent`) is a step of `Interrupt` and its theorems only. A reader that
  closes its end of standard output, on which Go ends the process, is not modelled.
* `accounts`: `MaxCalls = 3`, two at once: a call can find what another left
  half done and a third what both did. `MaxGrants = 3`: a sign-in and two
  refreshes, or two sign-ins and one.
* `configuration`: presets with a key, with the environment's credentials and
  with an account, a custom provider with a dot in its name and one named like
  a preset; three starting files (a gateway with fields the program does not
  know, presets beside that namesake, the older `llm` section); `MaxEdits = 2`, so that one edit follows another
  within a wizard or across two; `MaxFaults = 1` failed save. The resolver is
  asked in five environments with six sets of options. The secrets that are told
  apart are one of each preset, one of all custom providers and the manual one, so a
  custom provider's key in the place of another custom provider's would not be seen.
* `requests`: two requests so that one waits for the other's place (`Limit = 1`)
  and one is a background job; `MaxRetries = 1`, twice where a second call
  follows a cut answer.
* `turns`: two prompts of one session, one child; one `session/cancel`
  (`MaxCancels`), one close, one shutdown and a deadline at any step: each
  pair of reasons to stop meets in every order.
* `algorithms`: one and two files, hunks of up to two lines with a look-alike (for
  Subversion a marked line, the null path, and the path of the other file, in a
  working copy and in a revision),
  comments over three files, two untidy files beside an edited one, a history of
  five commits, partitions of four files with `MaxFilesPerGroup = 2` (ten in the
  code), three rule layers over two paths, the
  files of two of them with entries that name files anywhere, session files of up to four checkpoint
  lines and two interleaved tasks, answers of up to three parts; windows over five
  bytes with `MaxLines = 2` (500), three paths of any kind with `MaxCount = 2`
  (100), three tool calls or edits with room for two searches (128) of one line
  each (`CachedAnswer`: 128 KiB) and for small files only (`CachedFile`,
  `CacheBudget`); a directory of four entries under
  one or two selectors, `MaxFileSize = 2` (2 MiB). One instance of
  each case an algorithm distinguishes, and each pair of cases in a row.

Deadlock is checked where a system must not stop; `conversation`, `sessions`,
`interrupt`, `accounts`, `configuration`, `requests` and `turns` end in states
without a next step (a conversation that ended, a chain of full length, a process
that is gone, the bound on calls or edits reached), and a step of `algorithms`
only picks an input. The other systems stop in an explicit stuttering step.

### Fairness

* `ReviewDispatch`: weak fairness of the main goroutine, of the progress of each
  group goroutine and of each comment task. Go schedules runnable goroutines;
  a conversation ends because its rounds are counted and each of its requests
  has a client timeout. Nothing is assumed of the context: it may never end.
* `Conversation`: weak fairness of the loop (an answer or an error arrives, by
  the same timeout), none of the background job and none of cancellation.
* `Interrupt`: weak fairness of the watcher, of the body of stop and of entering
  and leaving it. None of the review, which may hang: that is what the second
  signal is for. `SecondSignalForces` makes an exception for a parent context
  that ends, since the watcher then leaves on its own; the command's never does.
  `ReviewCommand` adds weak
  fairness of the deferred calls and of what calls them: closing the servers has a
  time limit, the rest is local.
* `Requests`: weak fairness of what serves a request (each attempt has a time
  limit), of the end of the dispatch and of the freeze; strong fairness of taking a
  place, which Go's channels give to waiters in order. None of beginning a
  request, of cancellation and of time limits.
* `Turns`: weak fairness of a prompt's goroutine with its timers (grace, kill and
  drain have time limits). None of the child, which may ignore every signal, of
  its descendants, of the client and of the deadline.
* The others claim safety only and have no fairness.

## 4. What is proved

`ManifestProofs`, for any sets of items, classes and modes, under
`ClassAssumption` (callers do not pass the marker that stands for Go's nil):

* `TypeCorrect`: every field keeps its type, and an item carries a class exactly
  when it failed. This is inductive by itself; the key lemma is `SweptType`: the
  class of the sweep is an item class for every run failure. No run checks it
  again: the other theorems rest on it.
* `SnapshotCorrect`: the frozen manifest equals the items. Inductive relative to
  the types: only Finalize writes the result, and every method but a rejected one
  is refused once frozen.
* `CoverageCorrect` follows from those two, `AlwaysClosable` from the types: the
  swept items always satisfy `validateLocked`.
* `DenominatorCorrect`: after the seal no call changes which files are registered
  (manifest.go:509).
* `LedgerImplemented`: `Spec` implements `CoverageLedger`. Each accepted call maps
  to a Plan, Decide, Stop or Close, a rejected call and the other setters to a
  stutter; a sweep that validates closes the ledger with the verdict
  (`VerdictOfSwept`).

`ReviewDispatchProofs`, for any change, any grouping of it, any limits and
budget, and any interleaving of the main goroutine, the groups and the
asynchronous comments, under `ChangeAssumption` (the selection is a sequence of
files), `PartitionAssumption` (each file that is not reused is in one group, which
`FilesReviewed` checks of `groupDiffs`) and `ConcurrencyAssumption`:

* `CallsTheBuilder`: the module makes only calls that `Manifest` is specified for:
  a review implements the builder's specification, and with it the abstract ledger.
* `ManifestOfReview`: what `ManifestProofs` says of the builder therefore holds of
  every review: a published manifest is covered as it says, no file is added after
  the seal, and it implements `CoverageLedger`.
* `Inductive`: the invariant `Inv`, one lemma for each part. No part is inductive by
  itself: that a file was completed on evidence (`Founded`) needs, for the final
  sweep, that a run which stops short of a file knows why (`Caused`), and that
  needs which files can still be open at each place of the main goroutine
  (`Marked`). That a run loses every file only if every file failed (`Ended`) needs
  that no file is counted as failed twice (`Accounted`, a count of what the groups
  still owe).
* `OutputIsComplete`, `CompletedHasEvidence` and `EndIsTold` follow.

`GroupProofs`, first about one conversation, for any number of rounds, of calls in
a turn, of sizes and thresholds, under `LimitAssumption` and `SizeAssumption`:

* `Inductive`: the conversation is whole, and so is what a job holds of it: the
  snapshot is the conversation of the first a rounds, its summary stands for the
  same rounds, and what was appended since is the rest. That a summary applied by
  position is right is nothing about the conversation alone. `Compressed` is the lemma
  on what a compression makes of any conversation.
* `CallsArePaired` and `RoundsAreWhole` follow.

then about the rounds of all groups, for any number of groups, files, rounds and
comments on any file, under `GroupsAssumption`, `PartitionAssumption` and
`RoundsAssumption`:

* `RoundsInvariant`: `RoundsInv` accounts for the collector. A position is the number
  of comments before it on its file, and stays what it was when others append and
  when this group, which alone removes from the file, removes behind its baseline.
  So the first comments of a file up to the baseline are those its group has
  accounted for (`AllCounted`), a candidate still stands where it was read
  (`Shown`), what was confirmed is among the first (`Confirmed`), and a group that
  is between rounds has confirmed all it filed (`Judged`).
* `ConfirmedIsKept`, `FilterRemovesJudged` and `NothingUnjudged` follow.

`CheckpointProofs`, about the session file, for any files and inputs, chains of
runs of any length, and a kill, a failed write or a damaged line at any point,
under `BoundAssumption` and `ChangedAssumption`:

* `Inductive`: `Inv` says what a record of a run may say (`Logged`), what the file
  keeps of the records when the run is over (`OnDisk`), and what the run that
  resumes is offered of them (`Offered`). A chain of any length needs no more: what a
  run offers the next depends on its own file only.
* `ReuseIsSound`, `InputIsOne` and `LogIsHeld` follow.

and about the dispatch of a scan, for any batches, filing of findings, slots,
budget and grouping of duplicates, under `BatchesAssumption` (each file is at one
place of one batch; `BatchesWhole` checks it of `groupBatches`) and `ScanAssumption`:

* `ScanInvariant`: the files that were started are those the loop is past
  (`Progress`); what a batch waited for, or was cut short by, before its comments were
  merged (`Waited`); a finding is in the pool or in one comment (`Single`); behind
  `batchStart` stand the comments of the batch, as filed or as merged, and then the
  merged checkpoints have them all (`Fresh`); the batches that are over have
  their checkpoints (`Recorded`). The last is not inductive without the others: that
  nothing arrives for a batch after its checkpoints rests on what was waited for.
* `CheckpointsAreWhole`, `OutcomeIsHonest` and `NoFindingIsLost` follow. The lemma
  they share, `RejoinedKeeps`, is about any list and any grouping that names each id
  once: the merged list stands for the same findings and doubles none.

`ReviewCommandProofs`, about the signal handler, for any number of signals, under
`SignalAssumption`:

* `HandlerInvariant`: the strengthening `IInv`. `LateSignalHarmless` is not
  inductive: it needs that a late signal in the channel or in the watcher's
  hands means that `stopped` is set, and that the watcher is past its check only
  with an early signal (`LateMeansStopped`). `ForcedBySecond` needs that signals
  in the channel and in hand were sent (`SentCovers`).
* `LateSignalsHarmless` and `ForcedOnlyBySecond` follow.

and about the command, for any servers, each format and a report of any length,
any write of which may fail,
under `LinesAssumption` (a report has at least one piece) and `ServersAssumption`
too:

* `CommandInvariant`: the strengthening `CInv`. That a target is whole says
  nothing of how it came to be, so `CInv` says for each place of the command how
  many pieces the writer was given (`Amount`, `Given`), what the close, the rename
  and the removal leave (`Open`, `Closed`), what was reported (`Reported`) and
  what the error is made of (`Failing`).
* `CommandHandlesSignals`: composition. A step of the command is a step of the
  handler or leaves its variables alone, so the handler's invariant holds of it.
* `CommandReportsHonestly`: what `CommandHonest` says of the output file, the
  exit status and the retry report, with its two exceptions. `Reported` says at each
  place which exit the retry report took (`Exit`): the result, a result that was
  lost, the failure record, or none under SARIF.
* `RegisteredAreServed`: while the review runs, each tool that is registered belongs
  to a server that is open, publishes it and may offer it, and none hides a built-in
  tool.
* `CommandIsHonest`: `CommandHonest`. What is left is that the model is told of each
  registered tool once: `Collected` keeps what was collected when the review began, and
  `OffersTell` finds of the offers of one name the first (`FirstOffer`), since there is
  a least number in a set of them (`Least`, from the library's `WFMin`).

`TokenStoreProofs`, for any calls, registrations and grants, under
`TokenAssumption`:

* `StoreInvariant`: a call in the critical section holds the lock and its view is
  the file (`Holds`). A sign-in in the browser holds nothing, so `Holds` alone
  does not cover it: `Saw` adds that each account is as it saw it or has a higher
  revision, which is what lets `Unchanged` compare revisions.
* `NoUpdateLost`: `NoLostUpdate`, from that invariant, action by action.
* `UsableInvariant`: no grant is in two accounts (`Apart`), only an answer that
  names somebody else blocks one (`Sound`), and a session is one the issuer takes,
  or one no save could have kept, or in the hands of the call that holds the lock
  (`Kept`), which needs what such a call has at each place (`Stage`). That two
  accounts share no grant is what keeps the refresh of one from costing the other
  its session.
* `AccountStaysUsable`: `AccountUsable`.

`EndpointProofs`, first about the commands and wizards that configure an endpoint,
for any presets, names, models, start files, environments and options of runs, any
number of edits and of saves that fail, under `ConfigAssumption`, `RunAssumption` and
`StartAssumption`. The last says that a start file is sound in what the theorem
goes on to claim of later ones, secrets with their owners and an active provider
that has an entry, as no command can repair what somebody wrote by hand.

* `WizardInvariant`: the strengthening `WizardInv`. `FileSound` speaks of the file
  and of what is shown; it is not inductive, since the command's last step writes a
  third object. So `FilesFit` says the same of the copy the command holds, and
  that after a failed save the two copies still agree in the manual endpoint, which only
  the last step changes. A secret stays at home if the field it is saved from
  held it for that provider: `AtForms` says what each key field may hold at each
  step, which needs `Where` (whose models and key each step works on) and `Typing`.
  That a confirmed choice takes effect is kept as `Promised`.
* `FileStaysSound` (`FileSound`) and `RunsAsChosen` (`ResolvedAsChosen`) follow. The
  second rests on lemmas that need no state: `Resolved` says what the resolver may
  return for any configuration, run and environment: which strategy answered, with
  whose secret, after which checks; from it `CommandForUse` and `NotBypassed` are
  proved of every configuration, and `TakesEffect` of one that holds what was
  promised.
* `SessionStaysKept` (`SessionKept`): a step that ends a wizard with a save writes
  the command's copy with one entry changed, and that entry keeps its models and
  the fields the program does not know.

then about the requests of a run, for any requests, limit and number of retries,
over every client, under `RequestsAssumption`:

* `RequestsInvariant`: the entry of a request is open until it is done (`Opened`)
  and then agrees with what its caller got (`Told`), which needs what each client may
  return after which attempt (`Answered`, `Untried`); the places are those of the
  requests in flight (`Places`); after the freeze no request writes (`Quiet`).
* `ReportTellsAll`: `ReportSound`.

`TurnsProofs`, for any sessions, prompts and callers, under `NotAPrompt`:

* `Inductive`: the record of a turn and of its process tell place by place what was
  started and why it was stopped (`Told`); a turn under way is the one its session
  has (`TurnHeld`), so that a closer and the shutdown see it (`ClosersSee`,
  `ShutdownSees`); what is pending is of the current era unless a stopped turn will
  clear it (`PendingTold`), which is why endTurn has to.
* `ClosedStaysQuiet`, `TurnsLeaveNothing` (`QuietAfter`), `CancellationForgets` and
  `FirstCauseIsTold` follow.

Each of these invariants was first checked by TLC on the instance of its run.

Only model-checked:

* every liveness property (`Termination`, `Ends`, `CommandEnds`, `RunReports`,
  `ToldEnds`): liveness under fairness, and ENABLED, are beyond the prover in use;
* what the pure algorithms compute (the six properties of `algorithms`): folds over
  data. A least element is at hand (`Least`), but that a recursive function is what
  its equation says takes a theorem with an operator as a parameter, which the
  provers cannot instantiate. Of these, what the proofs above assume as
  the partition of files into groups and into batches is checked by `FilesReviewed`.

No module here declares a RECURSIVE operator.

## 5. Divergences noticed

Where the code does something else than one of its comments, or than a user is
likely to expect. The models follow the code; no run depends on these.

Configuration and accounts

* A failed save in the wizard leaves its parent command with the file's older
  copy (`provider_tui.go:1726`, comment `:1723`): the command then writes over
  what the wizard later saved, and may save a provider without the credential
  command that the wizard showed for it. `applyCreateCustomProvider` does not take its
  changes back when the save fails, its siblings do.
* A custom provider for Bedrock cannot pass the step that asks for its key. A
  custom provider may take the name of a preset in the wizard, which `config set`
  refuses (`config_cmd.go:1029`). A key of blanks is accepted by the wizard and
  ignored by the resolver. A Bedrock preset with a bearer protocol and no URL is
  passed over for the environment's endpoint.
* `saveConfig` truncates in place and takes no lock: a crash or two commands at
  once lose the file's content.

Changes and comments

* In an SVN diff the lines of a property change count as insertions. The conversion
  keeps no hunk state (`svn.go:96-103`): a removed line `-- x` or an added line
  `++ x` whose x contains `(nonexistent)` (for a removed one also `(revision 0)`), or
  names a path that the working copy added or deleted, is replaced by the header of a
  new or deleted file, and its file is read as one. `svn_test.go:15` tries no such line.
* When `git diff HEAD` is empty the staged diff stands in: changes that the tree
  has taken back are shown. A file removed from the index only is listed as deleted
  and as new. After `git mv o n` with a new untracked `o`, asking for the diff of
  `o` answers with the rename's.
* A comment may be re-filed on a deleted file, as `/dev/null`, since the diffs
  looked through keep deletions (`agent.go:2188`), though `loop.go:46` keeps it to
  files that are reviewed.
* A branch that moves between the diff and the recording of a fresh run's
  identity is recorded at the later commit. A resumed review of SVN revisions is
  refused, as its identity is asked of git.

Tools and scans

* `code_search` splits what git prints at colons: the matches of a path with a colon
  are dropped, or shown under another name (`code_search.go:258`).
* Searches whose answer is not above 128 KiB are kept for the run: in a working tree that changes meanwhile
  `file_read` shows the new lines and a repeated search the old ones.
* `file_find` cuts at a hundred files without saying so, and lists a path that is
  unmerged once for each stage, where the scan drops the repetitions
  (`scan/provider.go:200`).
* `--path` of a link that git lists scans nothing and succeeds, although links are
  followed (`scan/provider.go:306`) in a directory without git; so does a link to
  the root. With it goes the promise of `:316` that a selector which names
  nothing must not pass for a clean scan.

Runs and their reports

* Files of a group over budget that already hold a comment are marked completed
  (`agent.go:801`), and a group may be dispatched after the budget is spent
  (`agent.go:702`), where `shared_flags.go:60` says that no further group is.
* A later round that fails breaks before `AwaitKey` (`agent.go:1508`) where
  `pool.go:81` speaks of one drain per round.
* The active zone is compressed with the rest when every round fits
  (`compression.go:147`, comment `:130`). A turn without tool calls skips the
  token check (`loop.go:482`). The warning is "over 80%" in one place
  (`loop.go:905`) and "at least" in another (`:954`). The two parsers of tool
  arguments that a comment wants in sync differ (`client.go:1584`).
* A scan batch cut short before any of its files completed does not wait for its
  comments (`scan/agent.go:633`, comment `:586`); findings on reused files are in
  no checkpoint (`:644`, comment `:626`); the budget is read before the slot is
  taken (`:721`, comment `:680`); a scan cancelled after its last launch returns
  no error (`:784`, comment `:677`); its goroutines do not recover (`:746`).
* `CollectToolDefs` (`mcp/provider.go:99`) may offer a tool with the schema of a
  server that was limited to others while calls go to a second server of the
  same tool.
* A report in text on standard output ignores errors of writing
  (`shared.go:771`, called at `:980`): the command exits 0 though lines of it, and
  with them the retry report, may be missing. A result in SARIF carries no retry
  report (`shared.go:966`), and since it was emitted the failure record gets none
  either (`review_cmd.go:332`), against "never duplicated and never silently dropped"
  (`output.go:694`). A JSON result that could not be written takes the retry report
  with it too; the command then fails.

Readers and the editor

* The viewer keeps the comments of a checkpoint that a later record retracts
  (`viewer/store.go`), the command line drops them. Concurrent re-location
  requests on one file may be shown with each other's answers and tokens
  (`store.go:310`).
* `session/cancel` between the two readings of a clarification
  (`slash.go:31`) makes the second one nil, which is dereferenced. `Dereference`
  of `Turns` is that step.
* A close whose context is already over leaves an idle session "closing" for
  good. A turn whose result is being sent when the client cancels answers with
  the run's error.

## 6. Hazards

`PROJECT.json` lists them with their lines and the properties that would catch
each. The one without a property is `slash.go:31` above: the code meets it, and
a property that forbids it does not hold. Beside the list stand
`manifest.go:509`, a registration after the seal (`DenominatorCorrect`);
`provider_tui.go:1881`, the key field that the wizard's providers share
(`FileSound`); `client.go:718`, a completion that fails after HTTP 200
(`ReportSound`); `code_search.go:74`, answers kept while the tree changes
(`CommentsOnEvidence`); `scan/provider.go:331`, a selector that names nothing in its
own spelling (`FilesReviewed`); `agent.go:1508` and `scan/agent.go:746` of section 5.

## 7. Plan

Done, in this order: `Manifest` with its abstraction and proofs (every other part
reports to it), `ReviewDispatch` composing it, `ReviewRounds`, `SessionLog`,
`Conversation`, `ScanDispatch`, `Interrupt` with its proofs; then what feeds a
review and what it leaves: `TokenStore`, `ConfigFile` and `ConfigWizard`,
`Requests`, `Wire`, `DiffText`, `Changeset`, `Selection`, `ScanSource`,
`RuleConfig`, `SessionViews`, `RepositoryTools`, `Turns`, and `ReviewCommand`
composing `Interrupt`.

Then theorems: the safety of every module with a state of its own. Of the 40
properties the runs check 29 are stated by a theorem; of the other 11, five are
liveness and six rest on folds (section 4).

Left, in the order of their worth:

* lemmas on the algorithms that need no induction, as those on `ResolveEndpoint`:
  that a replacement keeps the lines around it, what a selection admits;
* the partition assumptions as theorems of `GroupDiffs` and `GroupBatches`, once a
  prover is at hand that can instantiate the induction theorems.

Then, as a model: a crash in the middle of `saveConfig`.

## 8. Not modelled, and why

* Git and SVN subprocesses, HTTP, the pipes to MCP servers: I/O. A request
  answers or fails, a command's answer is chosen by `Changeset`. The runner's
  semaphore is held for one command at a time, never while waiting for another.
* The model: any answer, any tool call, any grouping of duplicates.
* Argument repair, fuzzy matching, token counting: string algorithms; their
  results are inputs. Of the tools: glob patterns, time limits, the walk of a
  plain directory, the cut of a long line.
* Prompts, templates, tables, SARIF, colours, telemetry, flags, delegation texts,
  the viewer's pages and its server: wording and views, on which no decision of
  the modelled parts depends.
* `ScanDispatch` takes the batches of a scan and the estimates of files as constants,
  which `ScanSource` computes. The gates of a selection are in `Selection`, once for
  both.
* Panics elsewhere than in a conversation or a request; a panic in the settling
  loop would leave the rest of the group to the sweep (`Manifest` covers the calls
  it makes).
* The optional plan phase and project summary: no shared state but tokens and
  warnings. Provenance fields of the manifest, which no decision reads.
* The framing of JSON-RPC, resource links and the model that reads an intent:
  an intent is read or refused.
* Editor extensions, website, installers, examples: other programs.

## 9. Running

    tlc -workers 2 -config MCManifest.cfg MCManifest      # and the other cfgs
    for m in *Proofs.tla; do tlapm $m; done               # two of them take some minutes

`PROJECT.json` names for every run its module and cfg, for every property a
mutant of a mapped definition that breaks it, for every definition its lines.
The largest instance (`configuration`) has about 1.3 million states.
