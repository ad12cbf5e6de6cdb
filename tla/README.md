# TLA+ models of revoco and recoup

This directory holds TLA+ models of the revoco control plane, their TLC
configurations and TLAPS proofs. revoco (`src/src/revoco`, Python) sits between
AI agents and the tools they call: it authorizes each call against signed
delegations and a policy, plans the undo before the call runs, journals it,
records everything in a hash chain, and takes the effects back when an operator
asks. recoup (`src/recoup`, Go and Python) compiles policies into bundles that an
enforcer evaluates out of process, keeps a transparency log of the decisions, and
analyses what was recorded.

Paths below are relative to `src/src/revoco` unless they start with `recoup/`.

Contents: [inventory](#inventory), [modules and code](#modules-and-code),
[runs](#runs), [bounds](#bounds), [fairness](#fairness), [proofs](#proofs),
[where code and text disagree](#where-code-and-text-disagree),
[not modelled](#not-modelled), [plan](#plan).

## Inventory

### Components that keep state

| Component | State | Operations | What makes it correct |
|---|---|---|---|
| Reversal engine (`reversal/model.py`, `engine.py`) | journal: entries PLANNED, COMMITTED, ABANDONED, REVERSED, REVERSAL_FAILED, EXPIRED, each with a plan whose arguments get bound over time | plan, open_journal, commit, abandon, reverse, reverse_cascade, expire_stale | no inverse runs with an argument missing or a step out of order; one undo per commit; REVERSED means complete; what expired stays lost |
| Authority engine (`authority/`) | delegations, actions, revocations | issue_root_delegation, sub_delegate, record_action, revoke, reconstruct_chain, descendant_delegations | authority only narrows along a chain, in scope and time; what is recorded under a revoked chain never acts |
| Control plane (`controlplane.py`) | verdicts, arguments, strikes, quarantine, hooks | authorize, confirm, abandon, undo, undo_all, contain | answer and journal agree wherever a stage raises; a quarantined actor gets nothing; a containment report tells what still stands |
| Detectors (`detect.py`) | windows of recent actions and verdicts, committed effects per grant | evaluate_action, evaluate_chain, evaluate_constraints, evaluate_reversibility | a threshold is passed by no more than the calls in flight together |
| Irreversibility budget (`reversal/budget.py`) | spent per grant | check, commit, refund, reset | one grant does not accumulate more one-way exposure than its ceiling |
| Session budget (`gate/session.py`, `gate/engine.py`) | totals per session | budget branch of a rule, commit_budget, release_budget | the total covers what stands |
| Inverse registry (`reversal/registry.py`) | exact names, globs in order of registration | register, get, classify | an exact name decides over globs, globs in order, the latest spec of a pattern |
| Ledger and store (`ledger.py`, `store/sqlite.py`, `evidence.py`) | chain in memory; tables `ledger`, `journal`, `drills` | prepare, append_prebuilt, append_ledger, load, verify_integrity, merkle_root, startup_report | the chain is unbroken, memory never ahead of disk, an append that returned is never lost, a published head holds the ledger to its past |
| MCP proxy (`mcp/proxy.py`) | pending calls by JSON-RPC id, stranded calls | client loop (main thread), upstream pump (daemon thread), shutdown | each planned call is resolved once, or reported as stranded |
| Drills (`drills.py`) | register: newest result and newest pass of each tool | drill, record, due, drill_due, classify_hook, report, attest | a proof is earned, fresh, lost when the inverse breaks, regained when it heals, and told the same way everywhere |
| Validation runs (`validation.py`) | suites of results per target | run, compare | a chain of clean reports hides no lost proof |
| Working tree (`adapters/workspace.py`) | files, the agent's git index, the snapshots of the commands in flight | take_tree, restore_tree, executor | an undo brings back what was there and removes only what came later |
| Enforcer (`recoup/cmd/recoup-enforcer`) | bundle, counters, journal file with one previous generation, in-memory log | Load, Evaluate, decide, Append, rotate, proof | the same verdict as the gate; counters, journal and log tell one story |
| Transparency log (`recoup/internal/translog`, `recoup-verify`) | leaves | Append, root, inclusion, consistency, Verify* | a proof verifies exactly if the log has the leaf, or the prefix |

### Components without state of their own

Scope attenuation (`authority/scope.py`), the gate's first match (`gate/`), the
bundle compiler and prover (`recoup/recoup/bundle.py`, `prove.py`), the shell
classifier (`reversal/shell.py`), the recoverability horizon
(`reversal/horizon.py`), traffic analysis (`recoup/recoup/analyse.py`) and
on-chain finality (`recoup/recoup/finality.py`) are functions of state kept
elsewhere. Each is modelled together with the state it reads, because what can be
wrong about them is mostly how several of them, each with a filter of its own,
speak of one thing. Reports and surfaces: evidence packs, console, command line,
demo, benchmark. Data: the adapters other than the working tree, which are
catalogues of inverse specifications (`adapters/`, `reversal/registry.py`); a plan
is right only for the shape its specification has.

### How they interact

1. `authorize` records the signed action, walks its chain, asks the classify
   hooks (among them the drill register's) and the gate, checks both budgets,
   runs the detectors, plans the undo and opens a journal entry. No lock spans
   these steps.
2. The agent runs the tool, then calls `confirm` (commit the entry, debit the
   session, debit the grant: three critical sections) or `abandon`. In a proxied
   session the proxy makes these calls from two threads.
3. `undo` reverses one entry and credits both accounts. `undo_all` and `contain`
   reverse through `reverse_cascade` and credit none. `contain` first revokes a
   subtree of delegations.
4. Every event goes through `ControlPlane._append`: prepare the entry, write it
   (with the journal row, for some events) in one transaction, mirror it in memory.
5. A scheduler calls `expire_stale` and `DrillRunner.drill_due`; on a restart the
   ledger and the drill register are rebuilt from the tables, the journal is not.
6. A shell command is classified by its text; unless it is read-only or leaves the
   root, a specification is derived for it whose snapshot is a git tree of the
   workspace and whose inverse restores it.
7. Out of process, an enforcer evaluates the compiled bundle for each request,
   counts, journals and logs it; its journal feeds the analysis, its log the
   offline verifier.

### What is hard

- *Interleavings*: everything between `authorize` and `confirm`; two responders
  over the same actions; threads of one process, and processes of one file, that
  extend one chain; the proxy's two threads; the enforcer's three locks; commands
  and restores that overlap in one tree.
- *Partial failure*: a sequenced undo that fails half way; a cascade that meets
  closed gates; a store that refuses a row after the effect happened; a stage of
  `authorize` that raises; a rotation that fails between close and open; a git
  command that fails in a restore.
- *Crash and restart*: between transaction and mirror; during a drill; of an
  enforcer whose log is in memory only.
- *Ordering*: undo order against confirm order; answers out of order and ids used
  again; rows read back in another order than they were recorded.
- *Time*: undo windows that close unseen; proofs that must be renewed before
  they lapse, under a throttle; grants that expire between two hops.
- *Counters*: checks and debits apart from one another; strikes that earn strikes;
  credits to an account that changed meanwhile.
- *Agreement*: two evaluators of one policy; five views of one journal; four
  reports of one register.

Each is listed at its line under `hazards` in `PROJECT.json`, with the properties
that watch it.

## Modules and code

| Module | Models | EXTENDS |
|---|---|---|
| `Reversibility` | postures and inverse specifications (`reversal/model.py`) | |
| `UndoRights` | abstract: a right to undo that commits grant, undos use up, and abandoning or expiring loses | |
| `ReversalJournal` | the engine's journal (`reversal/engine.py`) | `Reversibility`, refines `UndoRights` |
| `Catalogues` | the inverse specifications that ship (`adapters/`, `reversal/registry.py`) | `Reversibility` |
| `RecoveryHorizon` | what operators are told of it (`reversal/horizon.py`, `undoable()`, `detect.py`, `evidence.py`) | `ReversalJournal` |
| `Containment` | agents, revocation and responders over one journal (`controlplane.py`, `authority/engine.py`, `reverse_cascade`) | `ReversalJournal` |
| `AuthorityChain` | grants, scopes, the chain walk and its detectors (`authority/`, `detect.py`) | `Reversibility` |
| `AuthorizePipeline` | the stages of `authorize`, strikes, quarantine, fatigue, fan-out (`controlplane.py`, `detect.py`) | `Reversibility` |
| `ExposureBudget` | both accounts (`reversal/budget.py`, `gate/session.py`, `controlplane.py`) | `Reversibility` |
| `PolicyDecision` | registry, gate, bundle, Go evaluator, prover (`reversal/registry.py`, `gate/`, `recoup/recoup/bundle.py`, `prove.py`, `recoup/internal/decision`) | `Reversibility` |
| `EstateAnalysis` | analysis of recorded traffic (`recoup/recoup/analyse.py`) | `PolicyDecision`, `OnChainFinality` |
| `OnChainFinality` | postures of on-chain actions (`recoup/recoup/finality.py`) | |
| `EvidenceLog` | abstract: an append-only chain with acknowledged entries | |
| `DurableLedger` | chain, store and `_append` (`ledger.py`, `store/sqlite.py`) | refines `EvidenceLog` |
| `EvidencePack` | integrity checks, heads, roots and the startup report (`ledger.py`, `evidence.py`, `store/sqlite.py`) | `DurableLedger` |
| `CallBook` | abstract: how each call stands, what may be settled, reported and answered, and what may be missing at the end | |
| `McpProxy` | the proxy's threads, shutdown and exit (`mcp/proxy.py`) | refines `CallBook` |
| `DrillRegister` | drills, register, proof gate and schedule (`drills.py`, drills table) | |
| `DrillReports` | report, coverage, status, attestation, startup freshness (`drills.py`, `store/sqlite.py`) | `DrillRegister` |
| `ValidationRuns` | suites and their comparison (`validation.py`) | `DrillReports` |
| `Enforcer` | the enforcer's server and journal (`recoup/cmd/recoup-enforcer`, `recoup/internal/journal`) | |
| `MerkleLog` | log, proofs, verifiers (`recoup/internal/translog`, `recoup/cmd/recoup-verify`) | |
| `EnforcerAudit` | served and forged proofs | `Enforcer`, `MerkleLog` |
| `ShellReach` | the command classifier (`reversal/shell.py`) | |
| `GuardedWorkspace` | commands and restores in a git tree (`adapters/workspace.py`) | `ReversalJournal`, `ShellReach` |

`XMC` gives a module its small instances; `X_proofs` holds the theorems about it.
An operator with "Fault:" in its comment is a plausible mistake kept beside the
definition it would replace; no action uses one.

**ReversalJournal.** One critical section of the engine's RLock is one action
(`reverse` holds the lock while the executor runs). A plan is a record: posture,
which arguments of the inverse are bound, unresolved, or deferred to the call's
result. `PlanFor` is `plan`, with a snapshot that may miss arguments and a hook
that may lower the posture; a tool that is not registered may get a derived
specification. `Commit` binds from the result, and, as in the code, looks at no
state, so a repeated or late confirm is in the model. `Reverse` picks the set of
steps that took effect (`Executable`: critical failures abort, later steps that
need a missing result are skipped). `ExpireStale` and `ReverseExpired` are the two
ways to EXPIRED. `applied`, `runs`, `undone` and `commits` count what happened and
guide no action.

**Catalogues.** A constant: every specification of every surface as far as the
engine looks at it, that is posture, what each inverse call reads, gates by phase,
window. `ReversalJournalMC` reduces the windows and gates to small ones and takes one
specification of each shape that is left.

**RecoveryHorizon.** No state of its own but `blind`, the entries whose snapshot
failed; a reader that merely leaves fields out captures as little, and nothing notes
it. Each view is the filter the code applies, over each state the journal
reaches; the properties compare them with what `Reverse` would do in that state,
and, for deadlines, with what it will do in the states that follow.

**Containment.** The agent's part of a call is `RecordAction`, `Allow` or
`Refuse`, `Execute` or `ExecuteFails`, `Confirm`. A responder's `contain` is the
sequence the code runs: read the subtree, `Revoke` grant by grant, `Collect` the
actions, `Select` the committed ones newest first, then `CascadeReverse` or
`CascadeSkip` one by one, `Report`. `undo_all` reads the subtree and starts at
`Collect`. `UndoOne` is a single undo by anyone. Signatures and scope checks are
taken to succeed here; `SubDelegate` looks at no revocation, as in the code. In
`reverse_cascade` an entry that another responder took or whose gate closed raises
and is counted as skipped.

**AuthorityChain.** `IssueRoot`, `SubDelegate`, `Revoke`, `RecordAction`, `Judge`,
`Tick`. A chain is the least set of grants that holds the leaf and the parent of
each member. `Judge` is `reconstruct_chain` and the detectors that read scopes:
only the leaf's scope and expiry are compared with the call, caps are folded over
the chain, floors too. That this is enough is the subject of the properties.

**AuthorizePipeline.** `Begin` takes a call's request; each stage that reads or
changes shared state is an action: `Record`, `Examine` (the detectors that look at
past actions and strikes), `Conclude` (the count of irreversible effects, the
verdict, the entry opened and perhaps abandoned), `Finalize` (strikes, the append of
the verdict); `Raise` and `EngineFailure` are an exception in a stage and what
`fail_closed` answers to it. Gate, budgets and chain walk answer freely. Strikes,
quarantine, consent fatigue and the fan-out of irreversible calls are modelled in full.

**PolicyDecision.** `Register`, `Load`, `Compile`, `Serve`. A pattern is its pieces
(run, character, class with its ranges), and is translated twice: by CPython's `fnmatch`
(`PyTranslate`, which drops empty ranges) and by `fnmatch.go` (`GoTranslate`, which keeps
a class as it stands, and `Compiles`, which refuses an empty range); `Matches` and
`FnMatch` are what the two accept. A condition is what it evaluates to on the call. Three
evaluators read the same rules: `GateVerdict` (Python gate on the live registry),
`BundleVerdict` (recoup's reference) and `GoVerdict`, with their own matchers.
`Unreachable`, `Holes` and `DirectHoles` are the prover's report over its witnesses.
`PolicyAssumption` says what a witness is: a name its pattern matches, and which no
other pattern matches unless it covers all of the first one, and that some name
matches no pattern but `*`. The prover makes such names up from the patterns.

**EstateAnalysis, OnChainFinality.** `Record` appends a line to a journal;
inventory, dependencies, consequence, suggested policy and replay are functions of
the lines, and the suggestion is fed back to `PolicyDecision`'s evaluator. Recorded names
go into it as they are, and may be patterns there: an agent "*" and an agent named
"unattributed" are among the lines.
`OnChainFinality` is a table of chains and functions of an action's
confirmations; its facts are checked over all of them within the same run.

**ExposureBudget.** `MatchBudgetRule` or `FallThrough`, then `CheckExposure`, are
the part of `authorize` that reads the accounts; `ConfirmJournal`,
`DebitSession`, `DebitExposure` are `confirm`; `Undo`, `Release`, `Refund` are
`undo`; `CascadeUndo` stands for `undo_all` and `contain`; `Reset` is a human's
re-authorization. Both engine calls change the entry before they write to the ledger,
and the write may raise: a confirm then ends with the effect standing and neither
account debited (`ConfirmJournal` with `written` false, counted in `lapsed`), an undo
with the effect gone and neither credited (it is a `CascadeUndo`). Money is counted in whole hundredths of weight times risk; the
code uses floats, and rounding is not modelled. `Price` is
`ReversalPlan`'s weight, surcharge and minimal risk.

**DurableLedger, EvidencePack.** `Prepare`, `Persist`, `Mirror` are the three
critical sections of `_append`. The engine's own lock is held across an append it
emits (`Transition` .. `Unlock`). `Persist` succeeds only for a seq not on file
(the table's primary key), inserts the row and, for events that carry plan and
state, the journal row, in one transaction. `Crash` loses what is in memory,
`Restart` reloads the chain by ascending seq and no journal. Hashes are unique
numbers, so a link is intact exactly if it names its predecessor's number.
`EvidencePack` adds recomputed hashes, Merkle roots, head comparison over chains
that have grown or were damaged (a row changed, dropped, moved), and the startup report.
`Levels` are the rounds of the Merkle tree, `MerkleRoot` the last of them.

**McpProxy.** The main thread reads, authorizes, registers, writes; the pump
reads, resolves, forwards. The map's lock covers one look-up or update, so those
are the steps. `Leave`, `Strand`, `AbandonStranded`, `Exit` are `run`'s end and
`_shutdown`; `PumpDies` is an exception out of `confirm`. The server answers in
any order, fails, hangs, exits, or sends requests of its own.

**DrillRegister, DrillReports, ValidationRuns.** A drill of a tool is judged from
one *sight*: whether the call has an undo path, how many of the three `verify`
calls succeeded, what the forward call moved, what became of the undo, and what is
wrong after it. `Outcome` goes through `drill`'s returns in order. A drill lasts
one tick and its `at` is its start. `Persist` then `Ingest` are `record`. `Due` is
the set of lists the sort allows, cut at `max_batch`; `BeginPass` computes it once
per pass as `drill_due` does. `Restart` rebuilds the register from rows in order of
`at`. Ages beyond every limit are one age (`Old`). The reports are the filters the
code applies to register and table; a history of suites is a sequence of results
with, for each, the earlier suite it is compared with.

**Enforcer, MerkleLog, EnforcerAudit.** A request passes the counters, the journal
and the log in three critical sections (`Decide`, `JournalAppend`, `LogAppend`). A journal
file is the sequence of its pieces, so a torn line and what is glued to it are
seen. Every disk operation may fail: `EncodeFails` leaves the encoder its error, with
which `StillBroken` drops what follows, and `RotateFails` leaves a closed file. A crash
loses counters and log. A hash is the
term it was computed from, so equal hashes have equal inputs. The audit checks
each proof the server answers with, and, apart from any server, every proof that
can be put together from the hashes of a log.

**ShellReach, GuardedWorkspace.** A command is the sequence of fragments it is split
into; a fragment says which list names its program, whether words stand before it, how
its arguments are spelled and whether an opaque or escape pattern matches it, and,
besides, what the shell sees there and the classifier does not: redirects behind a
digit, programs behind a single `&`, lines taken for a heredoc. `GuardedWorkspace` runs it
fragment by fragment in a tree whose files hold the name of their last writer. One of
them holds the ignore rules, so that a command that writes it changes what git sees
(`Unignored`). `Snapshot` is `take_tree` with the scratch index; the restore is three steps, `RestoreBegin`
(list what is present), `RestoreCheckout` and `RestoreRemove` (unlink what was
listed and is not in the tree), held apart so that a command may write in between.
`Stage` is the agent's own `git add`.

## Runs

Passing runs. Each property is a conjunction of named parts; the names in brackets
are those parts.

| Run | What it shows |
|---|---|
| `journal` | One entry of each shape of specification that ships (`Catalogues`), and of five an integrator may write (a sequenced undo with a gate and a window, a snapshot undo, a versioned upload, a tool without undo, a derived command), under any order of engine calls. Steps stay in order over retries (`StepsInOrder`); no inverse runs with a hole in its arguments (`ArgumentsBound`); an undo is paid for by a commit and REVERSED is complete (`UndoesAreWhole`); what was reversed, abandoned or found expired runs nothing until a new commit revives it (`ImplementsUndoRights`); horizon, `undoable()` and journal health say what `reverse` would do, and a readiness report on any surface that the registry covers is "ready" only if every undoable action can be undone (`ViewsTellTruth`); what they forecast comes true, and a window that closes is noticed (`DeadlinesHold`). |
| `contain` | Two responders, two actions, a two-level tree, a gate and a window: full containment means everything selected is undone (`ContainedMeansUndone`); revoked authority never acts (`RevokedAuthorityNeverActs`); what escapes a full containment was in flight, had failed, or was found past its window before (`OnlyInFlightEscapes`); one undo and one credit per action, newest first (`UndoneOnceInOrder`); a cascade never gets stuck, every step of it brings its report nearer, and it loses none of its selection (`CascadesEnd`). |
| `ledger` | Two threads and a second process on one file, refused transactions, one crash: `ChainSound` (chain on disk intact, memory never ahead), `JournalIsBacked`; packs verify, heads and roots pin the past, damaged copies are found, the startup report describes the file (`PublishedHeadsHold`); and the whole is an `EvidenceLog` (`ImplementsEvidenceLog`). |
| `budget` | One grant and one session, three calls, up to two in flight, confirmed up to twice, with undos, a cascade, ledger failures and renewals: a serial caller stays under the ceiling (`SerialWithinCeiling`); otherwise the overshoot is one charge for each further call in flight and each repeated confirm (`OvershootBounded`); what stands exceeds an account by no more than one charge for each confirm that a ledger failure cut short, and equals it where nothing disturbed it (`BooksBalance`). The two calls with the same price are symmetric. |
| `proxy` | Four calls, one without an id and one that uses an id again: whatever the threads do they keep a call book, so that no call is settled twice (`ImplementsCallBook`); the journal is truthful, no answer without a record, nothing lost at exit but the one call in the pump's hands (`CallsAreAccounted`); answered calls get resolved and the session ends (`ProxyMakesProgress`). |
| `drills` | Two tools, five surroundings, a scheduled pass, a drill by hand, a restart or a refused row: a proof is earned and restarts change no verdict (`RegisterKeepsProofs`); proofs do not lapse behind the schedule, and report, coverage, attestation, gate and startup report agree about them (`ProofsStayFreshAndToldRight`); a broken inverse is demoted and a working one is proven (`VerdictsFollowTheWorld`); and, over all histories of three suites, a chain of clean reports keeps every proof (`CleanReportsKeepProofs`). |
| `chain` | Three grants among a human and two agents, with wildcards, caps, floors and lifetimes, a revocation and time: what is allowed is within every ancestor's scope and lifetime (`AuthorityNarrows`), what was revoked when the action was recorded never acts (`RevokedNeverActs`), and issuing and walking agree (`IssuedGrantsVerify`). |
| `pipeline` | Three calls of two actors, stage by stage, one exception anywhere, open and closed: quarantine holds and is earned (`QuarantineIsSound`); the fan-out limit is passed by no more than the calls in flight, and a burst of approvals is seen (`DetectorsCount`); the entry fits the answer (`JournalMatchesAnswer`). |
| `policy` | Every policy of up to two of eleven rules over every registry of up to two specs: look-ups follow the latest registration (`LatestSpecDecides`); gate and bundle give one verdict, the enforcer gives it too, or misses a rule whose pattern has an empty range and never applies one the gate would not; no claimed identity moves it (`VerdictsAgree`); what the prover reports is true on every call, and no hole is missed (`ReportIsRight`). And for every journal of up to three lines, and every on-chain action: the analyses agree with the gate, and an on-chain action has time left exactly while something can be done, with one exception (`AnalysesAreRight`). |
| `enforcer` | Five requests, a disk failure and a crash: the numbers of `/v1/stats`, the log and both generations of the journal tell one story (`BooksAgree`; of `by_effect` only what is not allowed is told apart); receipts and pinned heads are decided rightly, at every size up to 17 leaves (`HonestAnswersHold`); no proof that can be put together from a log's hashes shows what is not in it (`ForgedProofsFail`). |
| `workspace` | Two of the command lines in one tree, overlapping one another and the restores, with staging and git failures: an undisturbed undo restores exactly what the ignore rules of the snapshot and of the restore let it see, and what was undone stays undone (`UndoIsWhole`); a command called read-only writes nothing, one called local nothing outside, if the classifier reads all that runs (`ReachHolds`). Two of the lines it does not read; they are undone like the others. |

One run expects a violation: `workspace_tracked`, see
[below](#where-code-and-text-disagree).

Deadlock is checked in `journal`, `budget` and `drills`, which never stop: a gate
flips, a human renews, the clock ticks. The other models really stop, when all calls
are resolved, the ids or rows are used up, or the proxy has exited; they set
`CHECK_DEADLOCK FALSE`.

## Bounds

| Constant | Value | Why it is enough |
|---|---|---|
| `MaxSteps` | 3 (`journal`), 1 elsewhere | a critical step between two others, and a step that reads an earlier one's result; the other models look at whole undos |
| `MaxTime` | 3 (`journal`), 2 (`contain`), 1 (`chain`, `pipeline`), 0 (`workspace`) | both windows (1 and 2) close and a later commit opens another; in `contain` a window closes before and during a cascade; a grant of lifetime 1 expires and one of 2 does not; the fatigue window of 1 holds both ticks; commands in a tree have no window |
| `MaxCommits` | 2 (`journal`), 1 (`contain`, `workspace`) | a repeated confirm after every terminal state; the others look at calls that are confirmed once |
| `MaxRuns` | 3 (`journal`, `contain`), 1 (`workspace`) | a failed undo, its retry, and one more; one run per party that may undo an action |
| `Entries` | 1 (`journal`), 2 (`contain`, `workspace`) | entries do not touch each other in the engine; order and set of a cascade, and overlaps in a tree, need two |
| `HookAnswers` | `{"reversible"}` (`contain`) | postures only decide whether there is a plan, which `journal` varies |
| `MaxScope` | 3 (`contain`) | grants and responders together: both grants with one responder, or one grant with two |
| `MaxRows`, `MaxCrashes` | 3, 1 | two threads and another process contend for one seq and for the next; a crash at every step |
| `Ceiling`, `Limit` | 14000, 2 | a one-way call at full risk costs 10000 and a payment 4000: one of each fits exactly, the third call does not |
| `MaxInFlight`, `MaxConfirms` | 2, 2 | the first overshoot and the first repeated confirm |
| `Calls`, `Ids`, `ServerIds` (`proxy`) | 4, 2, 1 | an answer that overtakes another, an id used again, a call without one; the server asks under one of the clients' ids |
| `StaleAfter`, `RefreshAt`, `Period` | 5, 2, 1 | the slowest renewal: a proof that falls due just after a pass began, one pass over the other tool, the pause, one pass over both. `ScheduleHasRoom` holds with equality (`InstanceHasRoom`), and with `StaleAfter` 4 a proof lapses |
| `MaxBatch` | 2 | every tool fits; with 1, `ProofsStayFresh` is false, see below |
| `WorldsOf` | 3 and 4 sights | between them each way a drill ends; both tools can pass, and fail alike |
| `MaxChanges`, `MaxManual`, `MaxTroubles`, `MaxDowntime` | 1 | break or heal once, one overlapping drill, one restart or refused row |
| `Targets`, `Verdicts`, `MaxSuites` | 2, 3, 3 | a chain of two reports with a gap in the middle, and a report across targets |
| `Grants`, `MaxRoots`, `MaxChainDepth` | 3, 1, 2 | a chain one hop longer than the walk accepts; a fork; a cap left out between two that state it |
| `Ttls`, `MaxRevocations` (`chain`) | `{1, 2}`, 1 | a child asks for more time than its parent has; one revocation at each place of the chain and moment of the call |
| `RogueStrikes`, `FanoutLimit`, `BurstCount` | 2 | each reached by two calls while the third is at any stage |
| `MaxTroubles` (`pipeline`) | 1 | one exception in each stage, or in the append that reports one |
| `MaxRules`, `MaxSpecs`, `RoleCap` | 2, 2, 6 | a rule that hides another, an exact name and a glob or two globs; two roles give 4 combinations, so none is cut off |
| `MaxLines` | 3 | a tool seen twice and a torn line between |
| `Requests`, `MaxSize` (`enforcer`) | 5, 3 | a generation fills, a second begins, and a sixth piece comes from a torn line |
| `MaxFaults`, `MaxRestarts` | 1 | each disk operation fails at each size, a crash at each step |
| `MaxGrown`, `MaxClaimed`, `MaxPath` | 17, 4, 3 | trees of four levels and one leaf more; every proof of up to three hashes for claims of up to four leaves |
| `Files`, `MaxWritten` (`workspace`) | 4, 1 | a source file, the rule file, one that is ignored once a command has rewritten the rules and need not be there at first, one outside; a fragment writes or deletes one of them |
| `Rules` | 2 versions | an undo meets rules that were added since its snapshot, and, behind the undo of another command, rules that were taken away |

Symmetry is used in `chain` (the two agents), `pipeline` (the calls), `enforcer`
(the requests) and `workspace` (the commands): nothing tells them apart, no
`CHOOSE` picks one of them, and these runs check no liveness.

## Fairness

- `journal`: weak fairness of the clock and of `ExpireStale`, which a deployment
  calls on a schedule. Nothing is assumed of callers or gates.
- `proxy`: weak fairness of the two threads. The client and the server may stop.
- `drills`: weak fairness of the clock, of the scheduled pass, and of a drill
  that was begun. Nobody has to drill by hand, and the world need not heal.
- The other runs check safety only. That a containment ends is said without
  fairness (`CascadesEnd`): a guard of the responder always holds (`CanRespond`, made
  of the operators the actions themselves use), only its own steps move it, and each
  leaves fewer to take (`StepsToGo`). Whoever schedules it brings it to its report.

## Proofs

All theorems hold for every value of the constants that meets the module's
named assumption (well-formed specifications, parent links within the set of
grants, finitely many calls, and the like). The assumptions are evaluated by TLC in
every run of the module.

**Reversal_proofs: journal.** `TypeCorrect`, then `JournalInvariant` from
`JournalInv`. The properties alone are not inductive: `ArgumentsBound` needs that
an undoable plan lists every argument it lacks as unresolved or deferred;
`UndoesAreWhole` needs that an entry that can be reversed has a commit no
undo has used. From it: `StepsStayInOrder`, `ArgumentsStayBound` and `UndoesStayWhole`. The argument is per entry: one predicate
over an entry and its counters, and one lemma for each operation on it.

`JournalKeepsRights`, `ContainmentKeepsRights` and `WorkspaceKeepsRights` show that the journal,
and the two systems that share one among agents and responders, or between commands and
restores, implement `UndoRights`. The mapping is `RightTo` of the entry's state, the
domain of its plan, and the two counters of steps and successes. Planning is a stutter, a commit grants, an undo that
succeeds uses the right up with every step of the plan and one that fails attempts it, and the
sweep loses all stale rights in one step. The engine's operations are those steps
(`StepsAreRightful`); of containment's own, only the refusal, which plans and abandons at
once, is no operation of the engine and loses a right that was never granted
(`JournalSteps`, `RefusalIsRightful`).

**Reversal_proofs: horizon.** `ViewsHold`: each view is the filter of what `reverse`
would do, from `JournalInv` and one fact more, that a plan which can be undone comes
of a specification which can be (`HorizonInv`). `ForecastComesTrue` is the action
property: a tick takes from the open entries what was announced as closing soon, nothing
before the time to the first close, and the sweep takes nothing that was still open.

**Reversal_proofs: containment.** `AuthorityInvariant`: an action recorded under a revoked
chain keeps one, since revocations only grow and parent links are fixed; from it
`RevokedNeverActs`. `Chain` is the least parent-closed set that holds the grant, so
this needs no assumption on the shape of the parent links. `ContainmentInvariant`
adds, for every entry, which phases of its agent go with which states of it
(`AgentInv`) and that one undo has one author (`CreditInv`); and for every responder,
that what it selected is in its report or still to do, in order (`CascadeInv`), and
that what acts under a grant it revoked was collected, selected, or in flight when it
selected (`CaughtInv`). None of the four holds without the others: that a collected
grant has nothing left to catch rests on the revocation before it, and that a skipped
entry is no loss to a report rests on the authors of undos. The proof splits each step into
who takes it and who stands by; a bystander needs only what no step may do: unconfirm
an action, let one act under a revoked grant, take an undo back. From it
`ContainedStaysUndone`, `OnlyInFlightEscaped` and `UndoneOnceInOrderForGood`, for any
number of agents, responders, grants and plans. `AccountInv` adds that what is
still to do is there once and not in the report: the report's counts then add up to what
was selected.

`CascadesAlwaysEnd` proves `CascadesEnd`, the end of a containment as a safety property, for
finitely many grants, entries and responders (`FiniteAssumption`). That a responder can
go on has a reason in each phase. While it revokes or collects, some grant is left with none of its
ancestors left: grants are issued only under grants that exist, so the order of issue is
well founded, although the parent links in `ParentOf` need not be (`WalkInv`). What it
collects can be listed in some order, and what it selects newest first with ties kept,
since a finite set with a strict order is listed by counting predecessors
(`SortExists`). In the cascade the engine refuses, finds the window closed or executes, and
for the last the model's cap on runs must not be what stops it: every entry keeps a run for
each responder that has not tried it (`RoomInv`), which is what `Cardinality(Responders) <=
MaxRuns` and the guard of `UndoOne` are for. `MovesAreNearer` then shows that each step
lowers `StepsToGo`, which starts at no more than twice the grants, the entries and two.

**Reversal_proofs: workspace.** `WorkspaceInvariant`, from which `RestoresStayWhole`, for any
commands and files, and any ignore rules that they may write. Its parts: a tree holds what
git sees of the disk of that time under the rules of that time (`TreesInv`); what a snapshot holds of a command was written before it
(`OriginInv`); a restore in progress keeps what it has yet to take away in its list
(`RestoringInv`), which is why the list is made before the checkout, and why what it owes
depends on the rules of both moments (`Owed`); and what an undone
command wrote is on no disk and in no later snapshot (`GoneInv`), unless a command planned
between it and its undo began to be undone, or was, after it (`Spoiled`). `ReversedIsGone`
alone is not inductive: the checkout of a spoiling restore brings back a file before any
undo is recorded, so `Spoiled` counts the restore as soon as it has begun, and the later
snapshots must be clean for a checkout from one of them to be clean. `ReachesAlwaysHold` is the
action property: a readable command that is called local stays inside the directory
(`CwdInv`), and each fragment of a command is no worse than the command, given what
`Readable` asks of each (`ReadableFragment`). Both rest on
`WorkspaceAssumption`, which no other theorem of the module cites: the tools are the
reaches, each with the kind `command_classifier` gives it, and a local command is undone by
one step. That the shell writes only where `WritesIn` says stays a premise: it is what
"the lists are right about the programs they name" means.

**AuthorityChain_proofs.** Here grants are issued while the system runs. A chain is
defined as the least parent-closed set, which gives a rule of induction along it
without induction over data (`ChainInduction`): what holds of the leaf and passes
from a grant to its parent holds of all the chain. The invariant: every grant was
checked against its parent when it was issued and expires no later; an allowed action
has no blocking finding; an action recorded without power stays so. Containment of
scopes composes along the chain, caps by the fold, so `AuthorityOnlyNarrows`,
`RevokedStaysPowerless` and `IssuedGrantsStayValid` hold for chains of any length.

**AuthorizePipeline_proofs.** The invariant lists, for each stage, which verdicts,
entries and answers a call can have there, keeps who was in quarantine at the
beginning of a call barred, and bounds each actor's strikes by the number of its
refusals that no person chose. From it `QuarantineStaysSound` and
`JournalKeepsMatching`, for any number of calls, actors and exceptions.
`DetectorsAlwaysCount` adds `DetectorInv`: the committed one-way effects of a grant and
its one-way calls in flight together stay below the limit plus the most that were ever in
flight at once; a call is recorded once; and a call of high risk that the detectors let
pass, or that was allowed, had no burst of low ones before it.

**Records_proofs.** The chain, its packs, the enforcer's books and its log. `LedgerInvariant`: a prepared row follows a prefix of
its process's chain, and at most one thread of a process has stored a row that
memory does not hold; both are needed for `Mirror` to keep memory a prefix of the
file. From it `ChainStaysSound`, `JournalStaysBacked`, and the refinement
`LedgerImplementsLog`, for any number of processes, threads and crashes. `HeadsHold` is
about what is published of such a chain. A journal row is the latest of its id, and hashes are minted once
(`EvidenceInv`). A Merkle root determines its leaves: two trees with one root are
equally deep, since a leaf is no pair (`NoDeeper`), and equal level by level, down to the
leaves (`SameLeaves`). So a head or root pins each entry below it, and each damaged copy is
told from the chain.

`BooksAlwaysAgree` is about the enforcer, for any requests, rotation size, disk failures
and crashes. `EnforcerInv`: what each counter counts is a set of requests in certain stages, and a
request moves from one of these sets to another in each step; the lines written in this life are
the end of all that was ever written; and the writer's own arithmetic (`WriterInv`): the
offset it keeps is that of the file, but after a start, when the file may be counted twice, so a
file is full at half of its size at the earliest, and but for the torn line of a write that failed,
after which nothing more is written in that life.

`HonestAnswersAlwaysHold` and `ForgeriesAlwaysFail` are about the transparency log, for trees of
any size and proofs of any length. Roots, proofs and the verifier's loop are recursive functions
of a size; that they exist, and so satisfy their equations, is shown by induction first
(`RootOfIs`, `InclusionIs`, `ConsistencyIs`, `ConsumeIs`, `StripIs`). The verifier works on the
bits of two counters and knows no tree: the lemma that ties the two is that its loop on
a tree is its loop on the half the leaf is in, and one round more (`ClimbSplit`). Completeness and
soundness of both proofs then follow by induction over the size, soundness because slices
of one length with one root are equal (`RootsTell`) and, where the claimed size is free, because
what is hashed into a subtree's root is a subtree's root (`SubtreesBelow`). `AuditInv` adds what the
machine contributes: the index in a receipt stays that of its verdict.

**ExposureBudget_proofs.** `AccountsTyped`; `BudgetInvariant`: a serial caller's
call that passed the check still fits when it is charged, because no other call
of the grant is in flight; from it `CeilingHoldsSerially`. For callers that overlap,
`OvershootIsBounded`: what is spent, and the price of what passed the check and is not
charged yet, are at most the ceiling, one largest charge for each further caller, and
what is confirmed again. `BooksAlwaysBalance` keeps, for each call, what it owes at its
stage (`CallInv`), less what a confirm that raised left undebited (`Undebited`,
`Uncharged`), so that each account covers the sum of what its calls owe, and equals
it for calls that nothing disturbed. A sum over a set of calls is a recursive function
over its subsets; a few lemmas (`SumSplit` and its like) take it apart.

**McpProxy_proofs.** `CallsAreOwned`: a planned call is in one place only, the
main thread, the map under its id, the pump, or the list being abandoned; from
it `ResolvedForGood`. `CallsStayAccounted` follows each call on: what the server
has, what waits in its queue, what the pump holds and what the client has read are
disjoint; of two calls with one id let through, the first was answered
before the second (the client's duty), so a message under an id cannot resolve
another call than its own unless the server used that id for a request; and a call
the main thread has written is registered, settled or in the pump's hand.

`ProxyKeepsCallBook`: the proxy implements `CallBook`. The mapping reads the journal, the
effects, the stranded calls and the answers; a call is doubtful when the server used its
id, and the book is closed when the process is gone. What a step of the book asks for is what the
accounts say before the step (a stranded call is open, an answer belongs to a settled call)
or after it (what was committed has its effect, what is lost at the end is the pump's).

**DrillRegister_proofs.** The table is read back in the order of start, memory is
written in the order of recording, and the invariant says that the two agree for a
tool whose drills do not overlap: one worker at most drills it, every row is older
than the drill, and the register is what the table gives, or lacks only the row
just stored. From it `RegisterKeepsProofsForGood`.

`ReportsAlwaysAgree` adds one fact about the table, that a tool
with a pass has a row (`TabledInv`): the readers' filters then agree. `ProofsNeverLapse` is the schedule's promise, under
`ScheduleHasRoom` only (a hypothesis of the theorem, which the run's instance meets with no
tick to spare): the invariant bounds the age of a proof by what is still ahead of its
tool, the rest of the pass if it is in it, else the rest of the pass, the pause, and a whole
pass (`Waiting`). `CleanChainsKeepProofs` is about any history of suites: the walk back to
the suite that last had a tool is a recursive function, which exists by induction over the
suites, and what a clean comparison keeps is passed along it.

**PolicyDecision_proofs.** `LatestDecides`: the dictionary and the list of globs hold the
latest registration of each pattern, in the order of those registrations (`RegistryInv`),
so both look-ups return what a search of the history would. `OneVerdict`: on a bundle that
was built from the policy (`BundleInv`) gate and bundle reach the same rule; CPython drops
nothing of a pattern without an empty range, so there the enforcer's table is the same
(`GoTableIs`) and its verdict too, and elsewhere its table is empty, so that it matches no
more than the others. `ReportHolds`: the prover tries finitely many calls; for
every call one of them is its shadow, matched by the rule that decides the call and by no
rule the call is not matched by. So a rule no witness reaches decides nothing, and a hole
has a witness. `AnalysesStayRight` is about journals of any length and any lines: `VerdictIs`
gives what a suggested policy answers, `ReplayIs` what it answers to a recorded call, whose own
agent's clause lets it through unless its tool needs approval, where no recorded name has a wildcard
(`Literal`); the rows of the replay part the
changes (`TotalCounts`). That a tool of one agent is in one clause needs that agents are
listed once (`ListIs`). The facts about transactions are linear arithmetic over five chains,
but for the deadline, which grows with the blocks that are missing.

Induction. The prover has no induction over data, but first-order induction is
enough: a set of naturals with 0 and the successor of each member is `Nat`, which follows
from the well-foundedness of the numbers (`NaturalsInduct`). Sums over sets, levels of a
tree and walks through a history are recursive functions here, and what they
compute is shown by induction over the set of the sizes for which it holds.

Only model-checked: all liveness (`DeadlinesHold` but for its forecast,
`ProxyMakesProgress`, `VerdictsFollowTheWorld`), which is out of the prover's reach.

## Where code and text disagree

With a run:

- `workspace_tracked`: a file that is tracked although an ignore rule matches it is
  in no snapshot, since `take_tree` starts from an empty scratch index; the restore
  lists what is present with the agent's own index, which has the file, and unlinks
  it. "Anything present now and absent from the snapshot was created after it"
  (`adapters/workspace.py:141`) does not hold.

Met while modelling, part of the models, without a run of their own.

Engine and journal:

- A failed sequenced undo, retried, executes again the steps that had taken
  effect (`engine.py:545-565`); `StepsInOrder` counts them, none is forbidden.
- A posture degraded to COMPENSABLE is still planned with the specification's
  kind (`engine.py:371`, against the comment at 324-326).
- A derived specification is planned with the call's arguments and undone by what the
  registry holds for its tool, which is nothing (`engine.py:190-191` against 425 and
  590): its steps may read no earlier result, and its deferred arguments stay out of
  `undoable()`.
- `abandon` takes an entry in any state (`engine.py:497-503`), also one whose action
  ran, against "never ran".
- The receipt of an undo carries no plan, so the journal row keeps reading committed
  (`controlplane.py:265`, `store/sqlite.py:85-87`).
- The horizon counts committed idempotent entries as open, calls a plan broken for a
  snapshot the undo does not need, and reports a failed undo as terminal though
  `reverse` retries it. `ViewsTellTruth` states each exception.

Control plane:

- An action between `authorize` and `confirm` when `contain` selects keeps its effect
  under a report of full containment (`controlplane.py:805`); the comment says
  nothing new lands while the rollback runs (779-780).
- Entries the sweep has expired, or whose undo failed earlier, are not selected
  by `contain` and do not keep it from reporting full containment;
  `OnlyInFlightEscapes` names them.
- A cascade goes by the time of commit, not of snapshot; for overlapping commands in
  one tree the two differ. `ReversedIsGone` states the condition.
- The order of `descendant_delegations` is depth-first, where it says breadth-first;
  and it iterates over dictionaries that concurrent calls grow, without their lock
  (`authority/engine.py:287`).
- With `fail_closed` off, an engine failure answers "allowed" without an action id,
  to a quarantined actor too. `QuarantineIsSound` speaks of the closed setting.
- An append that raises in `open_journal` leaves a planned entry that nobody abandons.
- A refusal for a budget is a strike (`controlplane.py:584`), and so is each refusal
  for the quarantine itself.
- A ledger that cannot be written raises out of `commit` and `reverse` after the
  transition (`reversal/engine.py:492-494`, 676): the entry is COMMITTED and nothing was
  debited, or REVERSED and nothing credited, where `controlplane.py:665-666` says that
  "budgets and the journal reflect completed work". Undoing the undebited call credits
  its price all the same. `BooksBalance` allows one charge for each such confirm.
- An undo that overtakes its confirm credits accounts before they are debited; the
  floor at zero swallows the credit. A refund reaches an account that was reset since
  the charge and erases exposure of the new period (`budget.py:281`, against 4-5).

Authority:

- A chain may be issued deeper than the 64 hops the walk accepts; its leaf never
  verifies. The walk looks at the leaf's expiry only; `NotOutlived` shows that this
  is enough. A cap that an argument does not compare with (NaN) does not bind.

Ledger, store, evidence:

- Of two threads that prepare the same seq one gets a `StoreError` after the engine
  has changed the entry: the transition is never in the ledger
  (`controlplane.py:250`; `reversal/model.py:892-893` says every transition is).
- The journal table is never read back (`controlplane.py:193`), so undo paths the
  startup report counts do not survive the restart; a pack made then shows the
  ledger's entries and no reversals (`evidence.py:295`).

Proxy:

- A request of the server under a pending call's id confirms that call
  (`mcp/proxy.py:251`, `docs/MCP.md:37-39`).
- The pump is a daemon thread: at exit it may hold one popped call that no report
  names. After an exception out of `confirm` it is dead, and the session goes on
  without answers. A result with `isError` confirms like a success.

Drills and validation:

- A tool whose last drill was NOT_DRILLABLE is never due again (`drills.py:686`),
  and the proof gate treats its undoable calls as irreversible from then on,
  although the hook's comment speaks of evidence that is bad or stale
  (`drills.py:645`). `WorkingIsProven` exempts it.
- With `max_batch` smaller than the catalogue, a canary that keeps failing sorts
  first in every batch and ageing proofs lapse behind it (`drills.py:717`).
- The startup report's stale list leaves out a tool whose newest drill failed while
  its last pass is fresh: stale is not all that is demoted.

Policy, prover, analysis:

- Combinations of roles are cut at a cap while the report stays "complete"
  (`recoup/recoup/prove.py:138-153`), and what is directly reachable ignores the tools
  of registered globs (188 against 249-255). `UnreachableIsTrue` and
  `HolesAreReported` state both conditions.
- A verdict "redact" lets the call go on in the control plane, and is not allowed in
  the enforcer. A posture no evaluator knows gets one verdict all the same.
- `fnmatch.go` follows CPython in all but empty ranges, against "the whole point of this
  package is that the two runtimes do not differ" (20-22): in CPython 3.11 `[az-b]` is
  `[a]` and `[!z-a]` any character; Go's `regexp` refuses both, and `FnMatch` then matches
  nothing (98-109). A deny rule with such a pattern holds in the gate and is skipped by the
  enforcer, "the worst direction" of 16-17. `SameVerdict` states the condition (`Orderly`)
  and what is left without it.
- The analysis writes recorded tools, actions and agent ids into a policy as patterns
  (`analyse.py:189`, 202-206): an agent "*" opens its clause to every caller, a tool whose
  name has a bracket is not covered by its own clause, and an agent named "unattributed"
  beside calls without an id gives two clauses of one id, so that the suggestion does not
  load. `SuggestionIsTight` holds up to what the names take in as patterns, `ReplayIsExact`
  under `Literal`.
- The analysis suggests rules that cover calls that were refused, replays traffic
  without its threat scores, takes a tool's posture from its last call in one report
  and from any in another, and gives idempotent calls the weight of unknown ones.

Enforcer and log:

- `json.Encoder` keeps its first write error, and only a rotation makes another encoder:
  after one failed write every entry of that life is dropped, and the file, which no
  longer grows, is never rotated (`recoup/internal/journal/journal.go:117`). If the write
  left part of a line, the first line of the next life is glued to it and lost, which
  nothing counts (97-99: "so the loss is visible instead of silent"). A rotation that fails after
  the close leaves a closed file and drops everything from then on (129); the first
  append after a start counts the file's size twice. `BytesAgree` and `RecentIsKept` are
  stated around them.
- The log is in memory: after a restart no receipt of the life before can be proved.
- `recoup-verify` takes index and size of an inclusion claim from the receipt, and
  the old root from the server when none is given; an old size of 0 accepts any
  proof. `ForgedProofsFail` states these exceptions.
- A pending transaction on a chain without replacement is called irreversible, and
  compensable once confirmations come (`recoup/recoup/finality.py:79`).
  `time_to_irreversibility` gives it the time to the final block all the same (145; 12.8 s
  on Solana), against "Seconds until nothing can be done about this, or None if that has
  passed" (132). `FinalityIsHonest` names the exception.

Commands and workspace:

- "`ls && rm -rf ~` must not be classified by `ls`", and "the most severe part decides"
  (`reversal/shell.py:62-65`), hold of what the classifier sees. `_navigates_away` looks at
  the first word only (460), so `if true; then cd ..; rm src; fi` and `{ cd ..; rm src; }`
  are local and write outside. A redirect behind a digit is none (478), so `ls 2> src` is
  read-only; of several, the first decides, and before the arguments are looked at, so
  `rm /x > log` is local. A single `&` does not split (299), nor do the pattern of a case
  and a process substitution: `ls & rm -rf src`, `case x in x) rm src;; esac` and
  `cat <(rm src)` are read-only. Behind `cat <<< word` or `<<A-B` the lines that the shell
  runs are dropped as a heredoc (289, 346), and so is a substitution in one. A variable, and
  a path glued to an option, is never checked. Some programs that write are listed as
  read-only (`sed`, `tee`, `find`, `awk`). `Readable`, and the premise on the lists, say
  what `ReachHolds` promises besides.
- Git reads `.gitignore` from the tree, at the snapshot (`adapters/workspace.py:110`) and again
  at the restore (130), before the checkout has put it back. A command that adds `out` to
  it and creates `out/x` leaves `out/x` behind after an undo that nobody disturbed, against
  "an undo that leaves half the change behind is the residue this project exists to name"
  (29-33); where a rule was taken away in between, the undo unlinks the files it had hidden, which were
  there before, against 141. `Promised` leaves both out.
- A restore goes on when `git ls-files` fails, and then removes nothing.

## Not modelled

- *Text*: the threat scanner, obfuscation and calibration, redaction, regular
  expressions, tokenising of commands, and intent drift (ASI06), because their
  questions are about strings and statistics; what a text scores is a number of the
  call. ASI08 is, like ASI06, MEDIUM and blocks nothing.
- *Patterns*: two texts of a class that the translations read apart and no sequence of
  ranges tells: `[:` inside a class, which Go takes for the start of a named class, and an
  empty range in front of a `!` (`[z-a!b]`), which CPython then takes for a negation.
- *Conditions of rules*: a condition is the value it has on the call; the comparison
  operators over JSON values are not modelled.
- *Cryptography* (`core/crypto.py`): signatures hold or do not, hashes do not collide.
- *Data*: of the adapters' catalogues the argument names, residues and notes, which are facts
  about vendors' APIs. Shapes are in `Catalogues`, and the proofs hold for any specification
  that meets `ToolsAssumption`.
- *Surfaces*: console, command lines, demo, benchmark and its corpus, recoup's
  intelligence report and fixtures, the workstation script; of evidence packs the
  counts, control map and wording. None changes state.
- *Runtime*: the interpreter's error when a dictionary changes during iteration
  (`authority/engine.py:287`), floating-point rounding in the budgets, HTTP and
  request parsing of the enforcer, file modes and symbolic links in the tree, schema
  migration of the store.

## Plan

What is left, in this order:

1. Larger instances: two grants and two sessions in `budget`, three tools with a
   throttle in `drills`, policies of three rules.
2. The comparison operators of conditions over a small domain of values, in both
   evaluators.
