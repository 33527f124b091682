# A TLA+ model of attach-guard

attach-guard stands between a coding agent (or a shell, or a CI job) and the
package managers.  Before `npm install foo` runs, a hook hands the command line to
the guard; the guard parses it, asks a provider about every package it names, and
answers `allow`, `ask` or `deny`, with a rewritten command when it would rather
have an older version installed.

This directory holds TLA+ modules translated from the Go and shell sources, TLC
configurations that model-check them on small instances, and theorems about them
that TLAPS checks for every value of the constants.  `PROJECT.json` says, for
each definition, which lines of the source it stands for.

## 1. The system

### Components

| component | source | state it keeps | operations | model |
|---|---|---|---|---|
| policy engine | `internal/policy` | none | `Evaluate`, `ShouldAutoRewrite` | `Policy`, `PolicyReview` |
| version selection | `internal/versionselect` | loop variables of one call | `Select` | `Selection`, `SelectorPromise`, `VersionSelect` |
| command evaluation | `internal/cli` | local variables of one call, the audit log | `Evaluate` | `Evaluator` |
| rewriting | `internal/rewrite` | none | `Command` | `Evaluator` (`Rewrite`): which package is pinned to which version, not the text |
| command line parser | `internal/parser` | none | `ParseAll`, `LooksLikeInstall` | `Tokens`, `Prefixes`, `Heuristic`, `CommandLine`: over tokens |
| package manager parsers | `internal/parser/{npm,pnpm,yarn,pip,gomod,cargo,spec,parseutil}` | none | `Parse` | `PackageArgs`, within `CommandLine` |
| Socket provider | `internal/provider/socket` | HTTP clients | `IsAvailable`, `GetPackageScore`, `ListVersions` | `ListVersions`: `VersionOrder`, `VersionChain`, `SocketList`; the answers of the others |
| Open Score providers | `internal/provider/openscore` | HTTP client, or a command | the same | `OpenScore`, within `Session` |
| configuration | `internal/config` | two files, and the plugin's | `Load`, `Validate`, `Write` | `ConfigLayers`, within `Session` |
| audit log | `internal/audit` | one append-only file | `Log` | `Session` (several processes), `Evaluator` (one call) |
| program and hooks | `cmd/attach-guard`, `internal/hook`, `plugin/hooks/hooks.json` | none | `hook`, `codex-hook`, `evaluate`, `config` | `Session`, which implements `Gate` |
| agent wrapper | `cmd/attach-guard` (`run`) | one child process, one goroutine | `cmdRun`, `executeAgent` | `AgentRun` |
| environment detection | `internal/envdetect` | none | `DetectMode`, `IsCI` | `Session` (`DetectMode`) |
| plugin bootstrap | `plugin/hooks/bootstrap.sh` | the binary in the plugin directory | one run of the script | `Bootstrap` |
| shared types | `pkg/api` | none | none | records of the modules |
| mock provider | `internal/provider/mock.go` | none | none | not modelled: used by tests only |

### How they interact

```
agent --Bash tool call--> hooks.json --> bootstrap.sh hook --exec--> attach-guard hook
                                                                          |
   config.Load --> Evaluator.Evaluate <----------- command line ----------+
                     |   parser.ParseAll / LooksLikeInstall
                     |   provider.IsAvailable                (once)
                     |   per package:  Selector.Select
                     |                   provider.GetPackageScore | ListVersions
                     |                   Engine.Evaluate       (per version)
                     |   rewrite.Command
                     |   audit.Log
                     +--> answer --> hook output
```

All calls are synchronous and inside one process; that process is short-lived, and
there are several at a time (one for each command of the agent, plus those that
people start).  They share the plugin directory, the configuration files and the
audit log, and nothing else.

### What is hard about it, and what makes each part correct

* **Policy engine.** A chain of early returns over scores, alerts, verdicts, age,
  lists and settings.  Correct when the answers are *ordered*: worse evidence is
  never answered more mildly, waiting never hardens an answer, CI is never milder
  than a local session with settings in that order, and one outage gets one
  answer, whichever layer notices it.
* **Version selection.** One pass over the candidates maintains two "first ones"
  while it looks for a third.  Correct when the pass selects what looking at the
  whole list at once would select.
* **Command evaluation.** Three loops contribute to one decision; consent for an
  older version depends on the shape of the whole command, the mode and the
  configuration; `selectedVersions` is keyed by name although a name may occur
  twice.  Correct when the answer is exactly the worst of its grounds, and when
  `allow` implies that everything that is about to be installed was judged and allowed.
* **Bootstrap.** Runs at the same time share one path without a lock, may be killed
  anywhere, and what one leaves the next one finds.  Correct when nothing is executed that was
  not built or verified, a hook fails only for what its host lacks and not for what other runs do, and
  an installed binary stays.  The script has no lock, so it can promise this only until two downloads overlap.
* **Parsers.** A line may reach a package manager through wrappers, shells, substitutions
  and segments, and may name another registry before, within or after the command.  Correct when no
  installation passes unseen, none is judged by a namesake of another registry, whatever is not
  read is marked as such, and a line that only mentions an installation passes.  The code does not promise all of this: what it
  leaves out is in section 4.
* **Providers.** Lists are assembled from several requests, each of which may
  fail.  Correct when the list comes in the order in which versions would be installed, when
  only a failure leaves a gap in it, and when the policy judges a candidate no more mildly than
  anything that was reported for it.
* **Configuration and audit log.** Files that other processes read while they are
  written.  Correct when a hook decides by one edition of the configuration or refuses, and when what
  was judged stands in the log as a whole entry before it is installed.
* **Hooks.** The agents take most failures of a hook for permission.  Correct when no failure,
  in whatever step, lets a command run, and when between the answer and the installation only what the
  hook could not know of may change.
* **Agent wrapper.** One signal, handled by two processes and a goroutine that ends after the
  first.  Correct when the agent only runs hardened, is not left behind, and the program's exit code is the agent's.

The file `PROJECT.json` lists every hazard at its line.

## 2. Modules

| module | models | as |
|---|---|---|
| `Policy` | `internal/policy/policy.go` | operators only: `PolicyDecision` is `Engine.Evaluate` with all its early returns in the order of the code |
| `PolicyReview` | the engine in a changing world | evidence worsens, time passes, the provider goes down or up, the session moves to CI or back; after each step the engine runs again |
| `Selection` | what `Select` returns, as a function of the whole answer | operators only; `AnswerOne` is the evaluator's answer to a line with one package |
| `SelectorPromise` | the abstract specification of `Select` | the provider answers, then one outcome is delivered |
| `VersionSelect` | `Select` as the code runs it | every early return and every branch of the loop is an action |
| `Evaluator` | `Evaluator.Evaluate` | each early answer, each way an iteration over the packages may end, the conclusion and the audit entry are actions |
| `Tokens` | the tokens of a line | records and operators |
| `ParsedCommands` | `ParsedCommand` of `pkg/api/types.go` | the record that the parser returns and the evaluator reads |
| `PackageArgs` | the argument loops of the six package managers' parsers | one iteration (`Argument`), and what is returned after the last one (`Outcome`) |
| `Prefixes` | the words and flags of wrappers that parser and heuristics look for | operators and recursive functions |
| `Heuristic` | `LooksLikeInstall` and what it calls | operators and recursive functions |
| `CommandLine` | `ParseAll` and the functions it calls, which call one another | their calls are on a stack, and each step is one iteration of the innermost one: the next segment, one prefix less, the next substitution, one argument of a package manager, ... |
| `VersionOrder` | how the Socket provider compares and orders versions | operators only |
| `VersionChain` | the comparisons as `sort.Slice` calls them | the next pair shares a version with the last one |
| `SocketList` | `Provider.ListVersions` and what it calls | the request for the list, each goroutine's start and end, the score of each npm version, each line of a batch; every request may fail |
| `OpenScore` | `internal/provider/openscore` | operators only: each way an exchange may end, and the verdict it amounts to |
| `ConfigLayers` | `internal/config`, `newProviderFromConfig` | operators only: the layers, the environment, validation, what a cut writing leaves |
| `Session` | the hook processes, the agents around them, the files they share | each hook's steps, its time limit, the agent's decision, the installation, publication, the writing of the configuration with a crash |
| `Gate` | the abstract specification of `Session` | a command is barred, granted or escapes, and runs |
| `AgentRun` | `attach-guard run` | the main goroutine's steps, the forwarding goroutine, the child, interrupts at any moment |
| `Bootstrap` | `bootstrap.sh` | the steps between which another run can change the shared file are actions of one run; `Kill` may strike anywhere |
| `MC...` | small instances | the values of the constants |
| `...Proofs` | theorems | section 5 |

**Composition.**

* `Evaluator` extends `Selection`, which extends `Policy`.  It takes a call of `Select`
  as one step whose result is `Promised(request, answer)` for some answer of
  the provider; `VersionSelect` shows (by TLC and by proof) that the loop in the
  code delivers exactly that, by implementing `SelectorPromise`.
* `Session` extends `Selection`, `ConfigLayers` and `OpenScore`.  It takes the evaluation of a command as one
  step, `AnswerOne`; the property `AnswersAsOne` of `Evaluator` shows that `Evaluate` answers a line
  with one package just so.  What several packages on a line amount to is `Evaluator`'s.
* `Session` implements `Gate` under the refinement mapping at its end (`Promise`): the stage of a command
  follows from what its hook found out, before the agent has heard of it.
* `CommandLine` extends `PackageArgs` and `Prefixes`.  The heuristics are two operators among its constants (`Looks`,
  `LooksTokens`), so that what is proved of the parser holds whatever they answer; the runs give them the
  definitions of `Heuristic`.  `AreCommands` (`ParsedCommands`) is the seam between parser and evaluator: `Evaluator` assumes it of
  the commands it is handed (`LinesAssumption`), and it is the first part of `ArgumentsAreAccounted`, which is checked
  and proved of `CommandLine`.
* `SocketList` extends `VersionOrder` and `Policy`: what its lists amount to is measured by the
  decisions of the engine that will read them.
* `Bootstrap` and `AgentRun` start the other parts and share no state with them but files that they only read
  or replace; they stand alone.

**Abstractions.**

* Scores are integers (the code has `float64`; it only compares them).  Names stand for
  themselves up to letter case, because both lists are searched with `EqualFold`.
* Reasons and other wording are left out, except *which* candidate a
  `RejectedReason` is about.
* Alerts are reduced to whether one is of category malware and whether one is
  critical or high: the engine asks nothing else.
* In `Evaluator` a command line is the result of parsing: commands with a package manager, packages
  and two flags, what the `LooksLike` heuristics return, and whether it has the
  shape that may be rewritten.  An unpinned specification resolves to the
  newest version of the list, a range included.
* In `CommandLine` a line is a sequence of tokens: words, flags with or without a value, assignments, operators,
  redirections.  A quoted text that a shell would run carries the tokens it
  consists of, and so does a substitution.  A specification is of one of six classes: plain, exact (one version), range (an
  operator), tag (a word or a part of a version without an operator, as `foo@next` or `foo@1.x`), local, remote.  Yarn and Go
  match the form of one version, the other parsers take for exact whatever has no operator (`OneVersion`, `AnyVersion`).
  Each line carries beside its tokens what the shell does with it.  This ground truth is
  external to the code and is given by `MCCommandLine` together with the line, piece by piece.
* In `Session` a command names at most one package, versions are numbers in the order of
  publication, and the answer of a provider is one of `Exchanges`.  A file is the settings it holds, or does not parse; a writing
  that is cut leaves the settings before the cut, perhaps with a number that lost its last digit.  A piece
  of the log is an entry, its newline, or part of an entry.
* In `AgentRun` an argument is the sequence of its parts between `=`, the environment a set of
  names with values, a signal one interrupt; the channel has the capacity that the code gives it.
* `unsupported` sources and Open Score's lists (there are none) are answers of the
  provider: `Replies` restricts what each kind of provider can answer.
* In `VersionOrder` a version is what parsing it yields, together with whether it parses.  The texts of
  identifiers are numbers in the order of strings.  Where the sort is free to choose (ties, and
  maps ranged over in any order) every outcome is a behaviour.
* In `SocketList` a response is what is read from it.  An artifact is two scores and a set of alerts; a line that does not
  parse is a failure of the batch, since the code then drops what it has parsed.  `Config.grayMin > 0`
  (`ConfigAssumption`): with a threshold of zero a candidate without scores would be acceptable.
* A file in `Bootstrap` has one of three contents: complete with the expected
  checksum, complete with another one, or incomplete.  `go build` is one step,
  since it renames its result into place (it does when its work directory is on
  the same file system).  `Kill` ends the script together with its `curl`, as a signal
  to the process group does.
* `Bootstrap.host` says what the machine offers: a platform with binaries, the Go source, a token or a `HOME` to look for one.
  `raced` remembers that two runs have installed at the same time.  No action reads it; the properties say with it how far
  the promise of a script without a lock goes (`Orderly`), and the finding `bootstrap_concurrent` what happens beyond.

Names such as `SwappedModes`, `ConsentIgnoresShape` or `RemoveThenBuild` belong to
variants that do not occur in any specification: each is the neighbour of a
definition with one plausible mistake, and TLC finds a property violated when it takes
the place of that definition.  `PROJECT.json` ("mutants") pairs them.

## 3. Runs

From this directory, `tlc -config X.cfg M`.

| run | module, configuration | states | question |
|---|---|---|---|
| `policy_review` | `MCPolicyReview` | 24 192 | Do the engine's answers stay in order while evidence, time, availability and mode change? |
| `version_select` | `MCVersionSelect` | 11 840 | Does the pass over the candidates select the best and implement the abstract selection? |
| `evaluator` | `MCEvaluator` | 25 094 | Is the answer the worst ground, is `allow` safe, is a rewrite judged, is every call answered? |
| `command_line` | `MCCommandLine` | 211 016 | Which installations in a line are noticed and judged as the ones they are, and only those? After each argument, is all that was read accounted for? |
| `version_chain` | `MCVersionChain` | 18 937 | Do the comparisons agree with Semantic Versioning and PEP 440, and can a sort rely on them? |
| `socket_list` | `MCSocketList` | 92 167 | Whichever requests fail and in whatever order answers come: is the list in order, without any version but those whose own request failed missing in between, judged no more mildly than reported, and returned at all? |
| `session` | `MCSession` | 272 185 | Hooks, agents, files, providers and the registry together: is no failure taken for permission, what is installed unasked and by whose leave, does the log stay whole, is `Gate` implemented? |
| `agent_run` | `MCAgentRun` | 64 977 | Does the agent only run hardened, whichever occurrence of a flag it reads, is it never left behind, does it get the interrupt, is its exit code reported? |
| `repeated_flags` | `MCAgentRun`, `RepeatedFlags.cfg` | about 3 700 until the violation | section 4 |
| `bootstrap` | `MCBootstrap` | 262 442 | Runs in any order, killed anywhere, on every host: until two downloads have overlapped, are only verified bytes executed, does what is installed stay, do hooks fail for their host alone?  Does every run end? |
| `bootstrap_concurrent` | `MCBootstrap`, `ConcurrentBootstrap.cfg` | about 16 000 until the violation | section 4 |
| `bare_install` | `MCCommandLine`, `BareInstall.cfg` | 25 | section 4 |

**Properties.**

* `policy_review`: `WorseEvidenceIsNeverMilder`, `WaitingNeverHardens`, `CIIsNeverMilder` are action
  properties that compare the answers before and after a step; `OutageLayersAgree`
  compares the answers of two layers.
* `version_select`: `KeepsPromise` is the specification `PromiseSpec` of `SelectorPromise`, a refinement:
  the variables `request`, `reply` and `outcome` are shared and the loop's own are
  hidden.  `SelectionIsBest` says the same to a reader who trusts no operator of `Selection`:
  no candidate passed over is better.
* `evaluator`: `AnswerIsWorstGround` bounds the answer from below and above by the grounds that
  packages and sources give.  `InstallsOnlyAllowed` and `RewriteIsJudged` are about what the
  command that is handed back would install, with or without rewriting.  `AnswersAsOne` is the seam to
  `Session`, `Answered` the liveness of the call.
* `command_line`: `InstallsAreNoticed`: what the shell would install is among the packages parsed, or
  the line is refused, and where more is installed than was read, a command says so.  Behind a wrapper that the parser does not know this
  holds only if nothing else of the line was parsed (`Overlooked`), and for what `xargs` and the like run not at all: section 4.
  `ForeignIsNotJudged`: what yarn, pip, go and cargo get from elsewhere is not answered for a namesake.  (npm's and pnpm's parsers
  list it, `MindsSources`.)
  `PinnedAsAsked`: a package counts as pinned if and only if the line asks for one exact version of it, or its command is marked; of npm,
  pnpm, pip and cargo also if it asks for a tag.  What is exact is not the code's classification but what the line was built to ask for, be it in the package or by a
  `--version` somewhere behind it.  `ArgumentsAreAccounted` needs no
  ground truth: after each argument, the command that the loop would return if the line ended there lists every word after the verb, but the values of flags that take one, or is
  marked as not read in full; it lists nothing else, and of yarn, pip, go and cargo nothing once another source was named; and there is a command if the verb comes first
  and a word follows it that is no flag's value.  `MentionsAreNoInstalls`: a line that only mentions an installation passes.
* `version_chain`: `OrdersLikeStandard` compares the chains of `if` and `switch` with the sort keys
  by which the two standards define their order; `ChainIsOrdered` is transitivity, for versions of every
  shape, also those for which the order is not the standard's.
* `socket_list`: `GapsAreFailures`: a version that is missing from the list although an older one is there is one of a Go module whose own request
  failed.  Like `ListIsOrdered` it is said of registries in which all versions can be compared.  `ListIsOrdered` is about the slots that the goroutines fill.
  `ListIsNoMilder` asks the engine twice: about each artifact that was reported, and about the candidate.
  `ListReturned` is liveness.
* `session`: `FailureIsNoPermission`, `AllowedInstallsAreJudged`, `InstallsAreOnRecord` and `EveryHookEnds` follow a command
  from the hook's start to the installation.  `AllowedInstallsAreJudged` starts from what is installed without anybody being asked, and
  says of all of it whether the hook reached the provider or found it unavailable, or did neither, and what then allowed it.
  `ConfigIsOfOneEdition` compares the settings of a hook that read whole files with the highest layer
  that gives each a value, and says nothing of torn ones (of which `FailureIsNoPermission` says that the line is not let through for them); `EndpointIsChecked` covers the way out of `Load` that
  skips validation.  `KeepsPromise` is the refinement of `Gate`.
* `agent_run`: `AgentIsHardened` is about the arguments and the environment that the child gets, whatever the spellings of
  those given.  It looks at the values of all occurrences of a flag, not at the one that the wrapper reads, and leaves out only what the
  caller repeats (`Once`), which is the finding `repeated_flags`.  `AgentNotAbandoned` and `SuccessIsReal` are about interrupts before the program
  listens, after the goroutine has ended and after the child has; `FirstInterruptArrives` and `EndsWithAgent` are liveness.
* `bootstrap`: `OrderlyRunsAreVerified`, `ExecutableIsVerified`, `InstalledStays` and `HookFailsForTheHost` hold until two runs that
  download have overlapped (`Orderly`), and for good where the binary is built; `RunsEnd` always.  A hook may block on a platform
  without binaries, and end in an error without a token and `HOME`.

Type correctness and the inductive invariants are proved (section 5) rather than run.

**Bounds and why they are enough.**

* `policy_review`: the engine compares scores with 50 and 70 and ages with 48, so one value on each
  side of every threshold (49, 60, 70; 47, 48, no date) gives every outcome of every
  comparison; all verdicts and all sets of alerts are there; four configurations include a misspelt setting, a
  minimum age of 0, and CI milder than local.
* `version_select`: lists of at most three candidates, from eight kinds (each decision, one
  that depends on the mode, each deprecated or not).  Two indices are remembered during
  the loop, and three candidates allow each of them before, at and after the other.
  The theorems have no bound.
* `evaluator`: two commands and two packages each, the smallest in which an earlier ground can be
  forgotten at either loop, a name can occur twice and a source can follow packages; lists of
  at most two, so that a selected version may be the newest or not; five configurations, one or more per
  kind of provider; the modes `claude` and `ci`, since `Evaluate` only tells CI from the others
  (codex and shell take the path of claude).
* `command_line`: every package manager with up to three arguments of every kind after its verb, up to two where a flag stands
  in front of the verb: a flag, its value and what follows is the longest dependence between arguments.  Up to two
  wrappers around a command, so that each is within each; substitutions nested up to six deep, where the code
  follows four; two commands in a chain, either of them behind a known wrapper, an unknown one or a filter.
* `version_chain`: every shape of version over the numbers 0 and 1: up to two identifiers, two phases of
  prereleases (the third differs from them by its rank alone), releases of one and two numbers, with and without post and development parts, and one
  version of a later epoch.  Each comparison looks at two versions, transitivity at three: a pair and the next one.
* `socket_list`: registries of at most four releases out of five or six (stable ones, a patch to an older
  line published later, a prerelease, one that does not parse or a pseudo-version) with three candidates, so that one is cut off; two slots of
  the semaphore, so that one goroutine waits; at most three artifacts in a batch (`MaxLines`) for any of the candidates: a good one,
  one with a bad score, one with malware, so that the worst of two differs from either and a candidate may have none.
* `session`: two hooks at a time, which is what it takes to mix two entries; three versions of one package of which the second is no
  good, so that what is installed late may be better or worse than what was judged; one writing of the user's file, cut off before the first
  setting, after the second or in front of a number (`MCCuts`), or anywhere by leaving what does not parse.  There is a start for every provider, every early return
  of `Load`, every runtime and every kind of command (`MCStarts`); every combination of these would be the product of
  parts that do not touch one another.
* `agent_run`: lists of up to three spellings (Claude Code) and two (Codex, whose spellings are more), so that a
  flag may lack its value, take another flag for it, or occur twice with different ones; two interrupts, since the goroutine ends after
  the first; the exit codes 0, 3 and -1, which stands for a child ended by a signal; every state of the platform's setup.
* `bootstrap`: two runs that may install, on top of whatever an earlier one has left at the path, and two hooks: a run that
  is killed after another was, one that repairs what they left; hooks before, between and after.  Every interleaving is explored, the
  overlapping downloads included.

`CHECK_DEADLOCK FALSE` is set where the system stops: a call that was answered, a script, hook or agent that
ended.  `policy_review` runs forever and is checked for deadlock.

**Fairness.**

* `VersionSelect`: `WF(Local)`.  Between the calls of the provider `Select` is sequential code.  The
  provider's answer is not assumed.
* `Evaluator`: `WF(Local)`, and `WF` of `Select` for every provider but the local scorer: the HTTP
  clients have timeouts, `openscore/local.go` waits for its command without one (hazard "liveness" at
  `local.go:52`), so `Answered` excludes it.
* `SocketList`: `WF(Step)` and, for each goroutine that holds a slot, `WF` of its request: the HTTP client has a timeout
  of ten seconds.  `WF` of *some* goroutine getting a free slot, as a channel promises; not of a certain one.
* `Session`: for each hook `WF` of its steps, except while it waits for the local scorer, and `WF(TimeOut)`: `hooks.json` gives
  a hook of Claude Code 30 seconds.  Nothing makes the agent decide or install, the registry publish, or anybody write a file.
* `AgentRun`: `WF(Main)` and `WF(Forwarder)`, both sequential code.  `Main` is not enabled while it waits for the child, and nothing makes the agent end
  or an interrupt come.
* `Bootstrap`: `WF(Work(r))` for each run: both transfers have a `--max-time`, and `go build`, which may fetch modules without one,
  is assumed to end.
  Nothing makes a run start, and nothing makes one be killed.
* `PolicyReview`, `CommandLine` and `VersionChain` state no fairness: their properties are about safety.

**What is assumed of the world outside.**  An agent blocks a command whose hook exits with 2 or answers `deny`; it does not block one whose
hook exits with another code than 0 and 2 or is stopped for its time (`AgentDecides`, `TimeOut`).  A write of an entry to a file opened for
appending is one step, which may also be cut short or fail: that one `write` of a long entry is not split by another process is
assumed, not shown.  Of signals only the interrupt is modelled, which is what the wrapper listens for; SIGTERM and SIGHUP end it by default.
`go build` renames its result into place.  The ground truth of `CommandLine` is what a POSIX
shell does.

## 4. Where the code and its documentation disagree

Each of these is a run with one property, the documented statement, which TLC violates.

| run | documented | what the code does |
|---|---|---|
| `bootstrap_concurrent` | `plugin/hooks/bootstrap.sh:112`: verify, refuse to run unverified | `curl` writes to the final path; of two runs that download at the same time one may execute what the other is still writing |
| `repeated_flags` | `docs/HOW_ATTACH_RUN_WRAPS.md:55-59`, `README.md:307`: the wrapper refuses to start with a permission mode other than `default` or `plan` | `flagValue` (`main.go:399-410`) returns the first occurrence: with `--permission-mode plan --permission-mode=acceptEdits` the agent is started with both |
| `bare_install` | `internal/parser/npm/npm.go:107` and `docs/plans/2026-05-05-attach-guard-cli-tests-inspection.md:61`: `npm install` without packages is not guarded, it passes through | nothing is parsed, so the heuristics are asked (`evaluate.go:47`); they find `npm` followed by `install` (`parser.go:587-594`), and the line is denied |

Other statements are broader than the code, by reading the two side by side; no run is spent on them:

* `README.md:420`, every decision is logged: answers given before the provider is checked return before the logger is
  reached, and an error of the logger is dropped (action `Log`).
* `README.md:335`, the allowlist always allows: a failed lookup of a pinned version denies before the lists are consulted
  (`ReturnProviderError`, `PackageFailed`).
* `README.md:336`, the denylist always denies: a source that the provider does not cover is answered with `ask` before the
  lists are consulted (`select.go:79`).
* `README.md:405`, direct rewrites return `ask` in Claude Code: with `auto_rewrite_unpinned.local` the answer is `allow` (`PackageSelected`).
* `docs/ARCHITECTURE.md:115`, in CI rewrites are denied unless enabled: they are answered with `ask` (`PackageSelected`).
* `docs/ARCHITECTURE.md:94`, a malware alert denies: the list of npm versions has scores but no alerts (`socket.go:247`), so an unpinned version
  with good scores is allowed.
* `socket.go:192`, versions come in the package manager's precedence order: npm versions come by time of publication, and neither
  the tag `latest` nor prereleases are looked at (`socket.go:828`); post releases of a prerelease that have a development part are
  all ordered below those that have none, `1.0a1.post1.dev0` below `1.0a1.post0` (`socket.go:1552`); and when the
  request for the newest Go version's time fails, the version is dropped (`socket.go:429`).  `GapsAreFailures` says that
  this is the only way a comparable version goes missing.
* `README.md:304`, Codex `danger-full-access` is rejected: a second `--sandbox` is not looked at, for the same reason as a second
  `--permission-mode` (`FlagValue`).
* `plugin/hooks/bootstrap.sh:20`, in hook mode errors emit JSON or exit with 2: where no token is given and `HOME` is not set, line 164
  ends the script with 1 (nounset); so does a list of checksums without the entry in line 115 (errexit, `pipefail`), but there only
  for a run that installs.  Claude Code takes a 1 for no objection (`ResolveToken`, `FetchChecksums`).
* `parser.go:160-163`, every install in a chain is caught: the heuristics are asked about a line only if nothing of it was parsed
  (`evaluate.go:43-47`), and the parser itself suspects substitutions and yarn alone (`parser.go:142-148`).  In `npm install foo && strace
  npm install evil` only `foo` is seen (`Overlooked`).  `xargs npm install x`, and what other filters run, is not seen at all.
* `spec.go:45`, true for exact versions: also for tags and parts of versions, `foo@next` or `foo@1.x`; pip's `==1.*` counts as pinned, and so does any value
  of cargo's `--version`, `^1` included (`cargo.go:202`).  The provider is then asked about that text.
* `select.go:23`, reason of the first *newer* rejected candidate: when deprecated versions are skipped, the version selected for
  review may report its own reason (`RejectCandidate`).

Other edges the properties state as they are.  The parsers of npm and pnpm list a package whatever `--registry` says (`npm.go:19-35`,
`parser_test.go:126` expects it), and also a directory, a URL or a repository, so that it is judged by its name in the public registry.  A registry set outside of a substitution is
not known within it (`parser.go:178-182`); of the variables that `export` sets only yarn's are kept.  A line that names `attach-guard` anywhere is
taken for a call of the guard itself and passes unjudged (`main.go:764-770`, the third case of `AllowedInstallsAreJudged`).  A script that is run
by its name with the words of an installation as its arguments is refused as an unknown wrapper; it is not among the lines of
`MentionsAreNoInstalls`.

## 5. Proofs

`tlapm M.tla` proves every obligation of

| module | about | results |
|---|---|---|
| `PolicyReviewProofs` | `PolicyReview` | `TypeCorrect`, `NeverMilder`, `WaitingHelps`, `OutageAnswered`, `StricterInCIHolds` |
| `SelectionProofs` | operators of `Selection` | lemmas: what `Newest` and `Best` return |
| `VersionSelectProofs` | `VersionSelect` | `TypeCorrect`, `BestSelected`, `PromiseKept` |
| `EvaluatorProofs` | `Evaluator` | `TypeCorrect`, `Invariance`, `WorstGroundAnswered`, `OnlyAllowedInstalled`, `RewriteJudged`, `OneIsAnswered` |
| `EvaluatorProofs` | `CommandLine` | `ArgumentsAccounted`, `DepthBounded` |
| `BootstrapProofs` | `Bootstrap` | `VerifiedRuns`, `CommitPoint`, `HooksReachGuard`, `StaysInstalled`, `BuildsGetAlong` |
| `AgentRunProofs` | `AgentRun` | `TypeCorrect`, `OutlivesAgent`, `CodeIsAgents`, `RunsHardened` |
| `SessionProofs` | `Session` and `Gate` | `FailsClosed`, `Documented`, `GateKept`, `UnaskedIsJudged`, `ConfigIsWhole`, `EndpointsAreUsable` |
| `SocketProofs` | `SocketList` and `VersionChain` | `JudgedByTheWorst`, `NewestFirst`, `OnlyFailuresLeaveGaps`, `ComparisonsAreOrders`, `ComparisonsAreStandard` |

**From which assumptions.** Only those that the modules declare about their constants: thresholds
and scores are integers, ages natural numbers or `NoDate`, lists are sequences, `NoVersion` is no version,
parsed commands are well-formed, a command pins a version that exists, an argument of the agent has at least one
part (`InvocationsAssumption`), a registry is finite and has no version twice (`ReleasesAssumption`), artifacts have integer
scores (`ArtifactsAssumption`), parsing yields natural numbers and a bound of them (`SemverAssumption`, `PEP440Assumption`).  The theorems of
`BootstrapProofs` assume nothing about the order of runs: that they hold until two downloads have overlapped is part of what they state.
The number of versions, packages, commands, runs, hooks, writings, interrupts, candidates, goroutines and lines of a response, the length
of versions and of lists of arguments, and the thresholds are arbitrary.

**Along which argument.**

* `PolicyReview`.  The invariant is `TypeOK` and that `decision` is the engine's answer for the current
  evidence.  `NeverMilder` then is a fact about the operator, `EvidenceMonotone`: by cases on the early
  returns, each test that fires for the milder evidence also fires, or one before it does, for the worse.
* `VersionSelect`.  `LoopInv` is inductive.  It needs all of its parts: that nothing passed was allowed
  is what makes `ReturnAllowed` pick the newest allowed, and that `firstRejected` is the newest live
  candidate passed is what equates the reported reason with the abstract one.  At the end it equates
  the outcome with `Promised`, so each step implements `Deliver`, `ProviderAnswers` or stutters.
* `Evaluator`.  The properties speak of the finished call, so they are not inductive.  `SoFar` relates the
  running decision, the evaluations, `selectedVersions` and `anyRewritten` at every point of
  the loops: every package behind the cursor has an evaluation, `overall` is the worst of
  their grounds, and a selected version was judged for its name.  `TypeOK /\ SoFar` is
  inductive.  One lemma per action shows what it contributes; the shared end of an iteration (`Record`) is handled once.
* `AnswersAsOne`.  `AsOne` adds for a line with one package that nothing has been gathered while the cursor is on it, and that afterwards
  every variable has the value that one reply of the provider gives it (`LeftBy`); at the end this is `AnswerOne`.
* `CommandLine`.  `ParseInv` says of every call on the stack what it holds, by the place where it waits (`IsCall`), and of the results
  that they are commands.  At most three calls replace the innermost one in a step, so each action has a lemma that what it pushes is
  as `IsCall` says (`...Keeps`), and the rest of the stack is as it was.  The content is in the calls of the package managers.  `ReadInv` adds to
  what the property says of the command so far what the next argument can still change: that a flag which awaits its value is the last
  argument, that the verb stands at some `v` behind flags and their values only, that a source after it has disqualified the loop unless it
  still awaits its value, that each package listed is one of the words after `v`, and that the loop is among the arguments if the verb came first.  One lemma for each package manager (`GoIteration`, `NodeIteration`,
  `PipIteration`, `YarnIteration`, `CargoIteration`) shows which of a few effects an iteration has, by the kind of the argument; from there on the
  proof no longer looks at package managers until a loop ends (`OutcomeReads`: yarn's last flag, cargo's `--version`).
  Nothing is assumed of the tokens: a token may be anything.
* `Bootstrap`.  As long as not `raced`, `Safe` is inductive: at most one run is installing (`OneInstalls`), a file may only be
  written while it is not executable and only by that run, so that what `Verify` saw is
  still there in `MakeExecutable` and `Exec` (`Committed`), and no hook has ended for another reason than its host (`HooksEnd`).  `raced` never
  becomes false again, and a step that starts a second installation makes it true.  Where nothing is downloaded another invariant holds, raced or not
  (`BuildsGetAlong`): no file is ever written in place, and each step that touches the binary replaces it by a built one (`Replacing`).
* `AgentRun`.  The invariant follows the main goroutine: what it has done by each point says how far child, goroutine and channel can be.
  For `RunsHardened`, `Prepared` says which checks have been passed, and that arguments and environment are what the functions of the
  code made of those given.  The rest is about these functions, for lists of any length: a required flag that is not found is added in front (`ClaudeHardened`, `CodexHardened`), what is
  there is as required or the invocation is refused, all values of a flag that occurs once are the one value that was read (`ValueRead`), and appending overrides to an environment leaves one value of each name.
* `Session`, failing closed.  `IInv` is `Shape` and, for each hook, `Course(h)`: a hook that exits with 0 has the result
  of a finished evaluation and the output formatted from it, a granted one was permitted by that, and code 1, which an agent would not stop for, only comes from the subcommand.  Nothing is
  assumed of files, providers or the configuration, which is why the theorem holds for every crash.
* `Session`, the log.  `RInv` says that the log is a sequence of pieces in which entries are whole, and that a hook
  past its writing has its entry in it or knows that it has not (`Noted`).  Appending keeps what is there in its place.
* `Session`, the configuration.  `LInv` says that what stands in a file that is not being written is among the editions, and
  that a hook that loaded it has, setting by setting, the highest layer's value (`OfOneEdition`); a provider that talks to a
  server was created from a checked endpoint (`Usable`), also on the way out of `Load` that skips validation.
* `Session` implements `Gate`.  `BInv` bounds what a hook knows: what it saw was published, what it answered with lies in `0..seen`,
  and so does the version pinned once there is an answer.  There is one lemma for each action of `Gate` (`Bars`, `Grants`,
  `Escapes`, `Runs`, `Stutters`), and each action of `Session` is shown to take the mapping through one of them.
* `AllowedInstallsAreJudged`.  `JInv` adds, for each hook that permits, why it does not need to look or why its answer is the one it is (`Justified`): `Target` for what
  would be installed, `Told` for what a scorer said.  It meets the installation's version by `BInv`.
* `SocketList`, scores.  `ScoresInv` says of the lines read so far that what is kept for a version is as bad as each of them (`Kept`), however the
  lines are shuffled.  The engine's answer to worse scores and more alerts is not milder, hence `JudgedByTheWorst`.
* `SocketList`, order and gaps.  `OrderInv` relates the list to one of the `Orderings` of the registry: its entries are picked from it in
  its order (`Picks`), all of them except the slots whose request failed.  That the filled slots, taken by rank (`NthFilled`), are in order, each once and
  none left out, is `Ranking`; that an ordering is newest first is `OrderIsNewestFirst`, from the comparison and the tie-breaks of each registry.
* `VersionChain`.  Three comparisons among three versions are `Coherent` if they can come from a weak order.  Numbers cohere, lists of coherent comparisons cohere under
  `Lexicographic` (`ListsCohere`), and so does one comparison after another (`ThenCoheres`), of which the chains of `if` and
  `switch` are built.  For the standards, two keys compare as at their first difference (`KeysCompare`), and part by part (`PartByPart`); each part is shown to
  compare as the code does: padding with zeros as trimming them (`ReleaseKeys`), the ranks as the values given to what is missing (`SuffixesByRank`).
  The exception, two post releases of prereleases, is where this last lemma fails.

**Only model-checked.**

* Liveness (`Answered`, `ListReturned`, `RunsEnd`, `EveryHookEnds`, `FirstInterruptArrives`, `EndsWithAgent`), which is beyond TLAPS together with `ENABLED`.
* `CommandLine`: `InstallsAreNoticed`, `ForeignIsNotJudged`, `PinnedAsAsked`, `MentionsAreNoInstalls`.  They compare the commands found
  with what the shell would install, which is given with each line: to prove them for every line, a semantics of the shell would have to
  stand beside the parser.  The heuristics are recursive operators over tokens that contain tokens, of which the prover knows nothing.
  `ArgumentsAreAccounted` is the part of them that the tokens alone decide.

## 6. What is not modelled, and what is left

Not modelled:

* The cutting of a line's text into tokens (`tokenize.go`): quotes, escapes, here documents.  It is work on single characters; `CommandLine`
  starts from its result.
* The texts of versions, specifications, JSON and YAML, of reasons and of the rewritten command: parsing and formatting without control.
* `GetPackageScore` and `IsAvailable` of the Socket provider beyond their answers (a score, an error, unavailable); each is one request.
* The environment that `bootstrap.sh` hands on, which only reaches `Session` as variables; the installer scripts and the packaging; usage, version and printing.
* The mock provider, which only tests use.
* That npm's list is in the order of publication and without alerts (hazard at `socket.go:247`) is what the code does: there is no property it
  could keep, and section 4 says what the documentation says of it.

Left for later: `Select` over the lists of `SocketList` instead of any list; sessions whose commands name several packages.
