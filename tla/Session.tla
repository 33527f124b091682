------------------------------- MODULE Session ------------------------------
(***************************************************************************)
(* The program around the evaluator (cmd/attach-guard, internal/hook,      *)
(* internal/config, internal/audit): for every shell command the agent     *)
(* starts a hook process, which reads its input, loads the configuration,  *)
(* evaluates, appends to the audit log and answers; the agent then asks,   *)
(* refuses or runs the command.  Meanwhile "attach-guard config" may write *)
(* the user's configuration file and the registry may publish.             *)
(*                                                                         *)
(* A command is [runtime, readable, tool, self, installs, pinned, direct,  *)
(* name], runtime being "claude", "codex" or "evaluate", the subcommand    *)
(* that only prints its answer.  It names at most one package; what many   *)
(* packages amount to is Evaluator's.  pinned is the version named, or 0;  *)
(* the setting npm stands for the one of its package manager.  Versions    *)
(* are numbered in the order of their publication.                         *)
(***************************************************************************)
EXTENDS ConfigLayers, OpenScore, Selection, SequencesExt

CONSTANTS Hooks,        \* hook processes
          Starts,       \* [env, plugin, local, user, commands, published, edits]:
                        \*   the environment, the files at the start, the command
                        \*   of each hook, how many versions exist, and a bound on
                        \*   how often the user's file is written
          Edits,        \* configurations "attach-guard config" may write
          Cuts,         \* where the writing of a file may be cut
          Releases,     \* the versions of the package, in order of publication
          Responses     \* decisions a scorer gives, with the reason or not

ASSUME SessionAssumption ==
    /\ Len(Releases) \in Nat
    /\ \A s \in Starts :
          /\ s.edits \in Nat /\ s.published \in 1..Len(Releases)
          /\ \A h \in Hooks : s.commands[h].pinned \in 0..s.published

VARIABLES env, plugin, local,  \* fixed while the agent runs
          user,       \* the user's file
          editing,    \* the configuration being written, or Nobody
          clean,      \* no writing is under way or was cut short
          editions,   \* the settings the user's file held as a whole so far
          edits,      \* how many writings may still be started
          published,  \* versions 1..published exist
          job,        \* of every hook, see NewJob
          log         \* the audit log, a sequence of pieces of text

fixed == <<env, plugin, local>>
file == <<user, editing, clean, editions, edits>>
vars == <<fixed, file, published, job, log>>

Nobody == <<>>
NoResult == [kind |-> "none", decision |-> "deny", install |-> 0]
Decided(d) == [kind |-> "answer", decision |-> d, install |-> 0]

NewJob(c) ==
    [cmd |-> c, pc |-> "read", cfg |-> DefaultConfig, fromClean |-> FALSE, provider |-> "none",
     reach |-> "none",        \* what IsAvailable said of it, "available" or "unavailable"
     seen |-> 0,              \* the versions that existed then
     told |-> "none",         \* the decision a scorer's response gave
     result |-> NoResult, unwritten |-> <<>>, unlogged |-> FALSE,
     code |-> 0, permission |-> "none", updated |-> 0,
     asked |-> FALSE, late |-> FALSE, installed |-> 0]

Init ==
    \E s \in Starts :
       /\ env = s.env /\ plugin = s.plugin /\ local = s.local /\ user = s.user
       /\ editing = Nobody /\ clean = TRUE /\ edits = s.edits
       /\ editions = {user.values}
       /\ published = s.published
       /\ job = [h \in Hooks |-> NewJob(s.commands[h])]
       /\ log = <<>>

-----------------------------------------------------------------------------
(* The steps of a hook process. *)

Ends(h) == job[h].pc \in {"exited", "refused", "unguarded", "granted", "ran"}

(* The job of a hook is replaced. *)
Put(h, j) == job' = [job EXCEPT ![h] = j]
At(h, pc) == job[h].pc = pc
Runtime(h) == job[h].cmd.runtime

DetectMode == IF env.ci THEN "ci" ELSE "shell"
Mode(h) == IF Runtime(h) = "evaluate" THEN DetectMode ELSE Runtime(h)

PlainFailureCode(h) == 1

(* Exit code 2 makes the agent block the command; the subcommand exits     *)
(* with 1.                                                                 *)
FailureCode(h) == IF Runtime(h) = "evaluate" THEN 1 ELSE 2

Fail(h) == Put(h, [NewJob(job[h].cmd) EXCEPT !.pc = "exited", !.code = FailureCode(h)])

(* FormatHookOutput of the two runtimes; Codex knows no "ask", so such an  *)
(* answer is a denial.  The subcommand prints the answer.                  *)
CodexAsksNobody(h, result) ==
    [permission |-> IF Runtime(h) = "codex" /\ result.decision = "ask" THEN "none"
                    ELSE result.decision,
     updated |-> IF result.decision \in {"allow", "ask"} THEN result.install ELSE 0]

DropsUpdatedInput(h, result) ==
    [permission |-> IF Runtime(h) = "codex" /\ result.decision = "ask" THEN "deny"
                    ELSE result.decision,
     updated |-> IF result.decision = "ask" THEN result.install ELSE 0]

FormatHookOutput(h, result) ==
    [permission |-> IF Runtime(h) # "codex" THEN result.decision
                    ELSE IF result.decision = "ask" THEN "deny"
                    ELSE IF result.decision = "allow" /\ result.install = 0 THEN "none"
                    ELSE result.decision,
     updated |-> IF result.decision = "allow" \/ (result.decision = "ask" /\ Runtime(h) # "codex")
                 THEN result.install ELSE 0]

(* The answer to a command that is not looked at. *)
Pass(h) ==
    Put(h, [job[h] EXCEPT !.pc = "answer", !.result = Decided("allow"), !.seen = published])

(* The subcommand reads its arguments instead of a hook's input. *)
ReadHookInput(h) ==
    /\ At(h, "read")
    /\ LET c == job[h].cmd IN
       IF ~c.readable THEN Fail(h)
       ELSE IF Runtime(h) # "evaluate" /\ (c.tool # "Bash" \/ c.self) THEN Pass(h)
       ELSE Put(h, [job[h] EXCEPT !.pc = "load"])
    /\ UNCHANGED <<fixed, file, published, log>>

PassWithoutToken(h) ==
    /\ At(h, "load")
    /\ LET loaded == Load(env, plugin, user, local)
           provider == NewProvider(loaded.cfg, env)
       IN IF ~loaded.ok \/ provider = "error" THEN Fail(h)
          ELSE IF provider = "unavailable" THEN Pass(h)
          ELSE Put(h, [job[h] EXCEPT !.pc = "evaluate", !.cfg = loaded.cfg,
                                    !.fromClean = clean, !.provider = provider])
    /\ UNCHANGED <<fixed, file, published, log>>

LoadConfigAndProvider(h) ==
    /\ At(h, "load")
    /\ LET loaded == Load(env, plugin, user, local)
           provider == NewProvider(loaded.cfg, env)
       IN IF ~loaded.ok \/ provider = "error" THEN Fail(h)
          ELSE Put(h, [job[h] EXCEPT !.pc = "evaluate", !.cfg = loaded.cfg,
                                    !.fromClean = clean, !.provider = provider])
    /\ UNCHANGED <<fixed, file, published, log>>

PassThrough(h) ==
    /\ At(h, "evaluate")
    /\ ~job[h].cmd.installs \/ ~job[h].cfg.npm
    /\ Pass(h)
    /\ UNCHANGED <<fixed, file, published, log>>

Request(h) ==
    [cfg |-> PolicyOf(job[h].cfg), name |-> job[h].cmd.name, mode |-> Mode(h),
     pinned |-> job[h].cmd.pinned # 0]

IsAvailable(provider) ==
    CASE provider = "unavailable" -> {FALSE}
      [] provider \in {"socket", "open-score-local"} -> BOOLEAN
      [] OTHER -> {TRUE}

Verdict(verdict) == [deprecated |-> FALSE, evidence |-> VerdictEvidence(verdict)]

(* The versions published by now, newest first. *)
Listed == [i \in 1..published |-> Releases[published + 1 - i]]

Ok(list, told) == [reply |-> [kind |-> "ok", list |-> list], told |-> told]
NotOk(reply) == [reply |-> reply, told |-> "none"]

Exchanges(h) ==
    LET pinned == job[h].cmd.pinned
        ends == IF job[h].provider = "open-score-local" THEN LocalEnds ELSE RemoteEnds
    IN IF job[h].provider = "mock" THEN {NotOk(ProviderError)}
       ELSE IF job[h].provider = "socket"
       THEN {NotOk(ProviderError), NotOk(Unsupported),
             Ok(IF pinned = 0 THEN Listed ELSE <<Releases[pinned]>>, "none")}
       ELSE IF pinned = 0 THEN {NotOk(Unsupported)}
       ELSE {Ok(<<Verdict(GetPackageScore(end, response))>>,
                IF end = "read" THEN response.decision ELSE "none") :
                end \in ends, response \in Responses}

Reach(available) == IF available THEN "available" ELSE "unavailable"

(* The evaluation of the package; install turns from a place in the list   *)
(* into the version there.                                                 *)
Judge(h) ==
    /\ At(h, "evaluate")
    /\ job[h].cmd.installs /\ job[h].cfg.npm
    /\ \E available \in IsAvailable(job[h].provider), exchange \in Exchanges(h) :
          LET answer == AnswerOne(Request(h), available, exchange.reply, job[h].cmd.direct)
              version == IF answer.install = 0 THEN 0 ELSE published + 1 - answer.install
          IN IF answer.kind = "error" THEN Fail(h)
             ELSE Put(h, [job[h] EXCEPT
                             !.pc = "log", !.reach = Reach(available), !.seen = published,
                             !.told = IF available THEN exchange.told ELSE "none",
                             !.result = [answer EXCEPT !.install = version],
                             !.unwritten = <<"entry", "newline">>])
    /\ UNCHANGED <<fixed, file, published, log>>

Piece(h, what) == [hook |-> h, what |-> what]

LogInTwoWrites(h) ==
    /\ At(h, "log")
    /\ LET left == job[h].unwritten IN
       /\ log' = Append(log, Piece(h, Head(left)))
       /\ Put(h, [job[h] EXCEPT !.pc = IF Len(left) = 1 THEN "answer" ELSE "log",
                                !.unwritten = Tail(left)])
    /\ UNCHANGED <<fixed, file, published>>

(* Logger.Log opens the file to append and writes the entry and its        *)
(* newline at once.  The write may be cut short or fail; Evaluate drops    *)
(* the error.                                                              *)
Log(h) ==
    /\ At(h, "log")
    /\ \/ /\ log' = log \o [i \in DOMAIN job[h].unwritten |-> Piece(h, job[h].unwritten[i])]
          /\ Put(h, [job[h] EXCEPT !.pc = "answer", !.unwritten = <<>>])
       \/ /\ log' \in {log, Append(log, Piece(h, "cut"))}
          /\ Put(h, [job[h] EXCEPT !.pc = "answer", !.unlogged = TRUE])
    /\ UNCHANGED <<fixed, file, published>>

Answer(h) ==
    /\ At(h, "answer")
    /\ LET output == FormatHookOutput(h, job[h].result) IN
       Put(h, [job[h] EXCEPT !.pc = "exited", !.permission = output.permission,
                             !.updated = output.updated])
    /\ UNCHANGED <<fixed, file, published, log>>

HookStep(h) ==
    \/ ReadHookInput(h) \/ LoadConfigAndProvider(h) \/ PassThrough(h)
    \/ Judge(h) \/ Log(h) \/ Answer(h)

-----------------------------------------------------------------------------
(* The agents.  hooks.json gives a hook of Claude Code 30 seconds; one     *)
(* that is stopped for it does not block the command, as one that exits    *)
(* with another code than 0 and 2 does not.                                *)

TimeOutOfRequestsOnly(h) ==
    /\ Runtime(h) = "claude" /\ At(h, "evaluate") /\ job[h].provider # "open-score-local"
    /\ Put(h, [NewJob(job[h].cmd) EXCEPT !.pc = "unguarded", !.late = TRUE])
    /\ UNCHANGED <<fixed, file, published, log>>

TimeOut(h) ==
    /\ Runtime(h) = "claude"
    /\ job[h].pc \in {"read", "load", "evaluate", "log", "answer"}
    /\ Put(h, [NewJob(job[h].cmd) EXCEPT !.pc = "unguarded", !.late = TRUE])
    /\ UNCHANGED <<fixed, file, published, log>>

Refuse(h) == Put(h, [job[h] EXCEPT !.pc = "refused"])
Permit(h) == Put(h, [job[h] EXCEPT !.pc = "granted"])
PermitAsked(h) == Put(h, [job[h] EXCEPT !.pc = "granted", !.asked = TRUE])

AgentDecides(h) ==
    /\ At(h, "exited") /\ Runtime(h) # "evaluate"
    /\ CASE job[h].code = 2 -> Refuse(h)
         [] job[h].code = 1 -> Permit(h)
         [] job[h].code = 0 /\ job[h].permission = "deny" -> Refuse(h)
         [] job[h].code = 0 /\ job[h].permission = "ask" -> Refuse(h) \/ PermitAsked(h)
         [] OTHER -> Permit(h)
    /\ UNCHANGED <<fixed, file, published, log>>

(* Without a version the newest one there is by now is installed.          *)
Install(h) ==
    /\ job[h].pc \in {"granted", "unguarded"}
    /\ LET exact == IF job[h].updated # 0 THEN job[h].updated ELSE job[h].cmd.pinned
           version == IF exact # 0 THEN exact ELSE published
       IN Put(h, [job[h] EXCEPT !.pc = "ran",
                                !.installed = IF job[h].cmd.installs THEN version ELSE 0])
    /\ UNCHANGED <<fixed, file, published, log>>

-----------------------------------------------------------------------------
Publish ==
    /\ published < Len(Releases)
    /\ published' = published + 1
    /\ UNCHANGED <<fixed, file, job, log>>

(* config init and config platform: the configuration is checked, the file *)
(* emptied, and then written.                                              *)
BeginWrite ==
    /\ env.home
    /\ editing = Nobody /\ edits > 0
    /\ \E cfg \in Edits : Valid(cfg) /\ editing' = Written(cfg)
    /\ user' = EmptyFile
    /\ clean' = FALSE
    /\ edits' = edits - 1
    /\ UNCHANGED <<fixed, editions, published, job, log>>

EndWrite ==
    /\ editing # Nobody
    /\ user' = File(editing)
    /\ clean' = TRUE
    /\ editing' = Nobody
    /\ editions' = editions \cup {editing}
    /\ UNCHANGED <<fixed, edits, published, job, log>>

(* A crash or a full disk leaves part of the file, for good or until the   *)
(* next writing.                                                           *)
CutWrite ==
    /\ editing # Nobody
    /\ user' \in Torn(editing, Cuts)
    /\ editing' = Nobody
    /\ UNCHANGED <<fixed, clean, editions, edits, published, job, log>>

-----------------------------------------------------------------------------
Next ==
    \/ \E h \in Hooks : HookStep(h) \/ TimeOut(h) \/ AgentDecides(h) \/ Install(h)
    \/ Publish
    \/ BeginWrite \/ EndWrite \/ CutWrite

(* A hook is sequential code that nothing blocks, but for the local        *)
(* scorer, which is waited for without a limit of its own; a hook of       *)
(* Claude Code is stopped after its 30 seconds.                            *)
WaitsForScorer(h) == At(h, "evaluate") /\ job[h].provider = "open-score-local"

Spec ==
    /\ Init /\ [][Next]_vars
    /\ \A h \in Hooks :
          /\ WF_vars(~WaitsForScorer(h) /\ HookStep(h))
          /\ WF_vars(TimeOut(h))

-----------------------------------------------------------------------------
(* Properties *)

(* The points of a hook's way. *)
Pcs == {"read", "load", "evaluate", "log", "answer", "exited", "refused", "unguarded",
        "granted", "ran"}

(* The hooks fail closed (main.go:31-35): a command whose hook could not   *)
(* read its input, load a configuration, find a provider or finish the     *)
(* evaluation never runs, whatever the state of the files it read, and one *)
(* that was answered runs only as answered.                                *)
Permitted(h) ==
    \/ job[h].result.decision = "allow"
    \/ job[h].result.decision = "ask" /\ job[h].asked

FailureIsNoPermission ==
    \A h \in Hooks :
       job[h].pc \in {"granted", "ran"} /\ ~job[h].late =>
          job[h].result.kind = "answer" /\ Permitted(h)

(* What a hook that ran to its end lets install without anybody being      *)
(* asked it has judged and allowed under its configuration, rewritten or   *)
(* as typed, or a scorer's response says it is fine, or it is on the       *)
(* allowlist, or the settings allow what the scorer knows nothing of or    *)
(* what it does not tell; or it was published after the hook looked.  The  *)
(* exact version of a rewritten line is not overtaken.  Nobody looks at    *)
(* three things only: the calls of other tools than the shell, a command   *)
(* that names attach-guard itself (main.go:764-770), and a package manager *)
(* that is switched off (evaluate.go:79-104); and without the provider     *)
(* (evaluate.go:131) the settings must allow it.                           *)
AllowedInstallsAreJudged ==
    \A h \in Hooks :
       LET j == job[h] IN
       j.pc = "ran" /\ j.cmd.installs /\ ~j.asked /\ ~j.late =>
          \/ j.reach = "none" /\ (j.cmd.tool # "Bash" \/ j.cmd.self \/ ~j.cfg.npm)
          \/ /\ j.reach = "unavailable" /\ j.updated = 0
             /\ \/ j.cmd.name \in j.cfg.allowlist
                \/ /\ j.cmd.name \notin j.cfg.denylist
                   /\ ByMode(Request(h).cfg.unavailable, Mode(h)) = "allow"
          \/ /\ j.reach = "available" /\ j.provider = "socket"
             /\ Decide(Request(h), Releases[j.installed]) = "allow"
          \/ /\ j.reach = "available" /\ j.provider # "socket" /\ j.installed = j.cmd.pinned
             /\ \/ j.cmd.name \in j.cfg.allowlist
                \/ j.told = "ALLOW"
                \/ j.told = "UNKNOWN" /\ ByMode(Request(h).cfg.unknown, Mode(h)) = "allow"
                \/ /\ j.told \notin {"ALLOW", "ASK", "DENY"}
                   /\ ByMode(Request(h).cfg.unavailable, Mode(h)) = "allow"
          \/ /\ j.reach = "available" /\ j.updated = 0 /\ j.cmd.pinned = 0
             /\ j.installed > j.seen

(* The layers, the highest first.                                          *)
Layers(edition) ==
    <<local.values, edition, IF env.pluginDir THEN plugin.values ELSE <<>>, DefaultConfig>>

Highest(layers, s) ==
    LET holding == {i \in DOMAIN layers : s \in DOMAIN layers[i]}
    IN layers[CHOOSE i \in holding : \A k \in holding : i <= k][s]

Overridden ==
    (IF env.logPath # "" THEN {"logPath"} ELSE {})
    \cup (IF env.provider # "" THEN {"kind"} ELSE {})
    \cup (IF env.endpoint # "" THEN {"kind", "endpoint", "tokenEnv"} ELSE {})
    \cup (IF env.bin # "" THEN {"kind", "command"} ELSE {})

(* A hook that reads the user's file while no writing is under way, and    *)
(* when the last one was not cut short, decides by one edition of it:      *)
(* every setting that no variable overrides has the value of the highest   *)
(* layer that gives it one (config.go:111-117), never of another edition.  *)
(* It says nothing of a file that a writing left torn.                     *)
ConfigIsOfOneEdition ==
    \A h \in Hooks :
       env.home /\ job[h].provider # "none" /\ job[h].fromClean =>
          \E edition \in editions :
             \A s \in DOMAIN DefaultConfig \ Overridden :
                job[h].cfg[s] = Highest(Layers(edition), s)

(* No provider sends requests to an endpoint that is no usable URL or      *)
(* waits a negative time, also where Load returns before it validates.     *)
EndpointIsChecked ==
    \A h \in Hooks :
       job[h].provider \in {"open-score-http", "platform"} =>
          /\ job[h].cfg.endpoint \notin {"", "bad"}
          /\ \A t \in job[h].cfg.timeout : t >= 0

(* Concurrent hooks do not mix their entries (audit.go:48-83): between two *)
(* pieces of text there is a newline, unless the first was cut short.      *)
EntriesAreWhole ==
    \A i \in DOMAIN log :
       /\ log[i].what = "entry" => i + 1 \in DOMAIN log /\ log[i + 1] = Piece(log[i].hook, "newline")
       /\ log[i].what = "newline" => i > 1 /\ log[i - 1] = Piece(log[i].hook, "entry")

(* What was looked at and installed stands in the log first, as an entry   *)
(* that ends its line, unless the log could not be written                 *)
(* (evaluate.go:264); its line may begin with what another hook's cut      *)
(* writing has left.                                                       *)
InstallsAreOnRecord ==
    /\ EntriesAreWhole
    /\ \A h \in Hooks :
          job[h].pc = "ran" /\ job[h].reach # "none" /\ ~job[h].late /\ ~job[h].unlogged =>
             \E i \in DOMAIN log : log[i] = Piece(h, "entry")

(* Every hook comes to an end, the local scorer's answer permitting, and   *)
(* one of Claude Code in any case.                                         *)
EveryHookEnds ==
    \A h \in Hooks :
       At(h, "read") ~> Ends(h) \/ (Runtime(h) # "claude" /\ WaitsForScorer(h))

-----------------------------------------------------------------------------
(* The session implements Gate: the stage of a command follows from what   *)
(* its hook found out, before the agent has heard of it.                   *)
Stage(h) ==
    LET j == job[h] IN
    CASE j.pc \in {"refused", "ran", "unguarded"} ->
            IF j.pc = "refused" THEN "barred" ELSE j.pc
      [] j.pc = "granted" -> IF Permitted(h) THEN "granted" ELSE "barred"
      [] j.pc = "exited" ->
            IF j.code # 0 \/ j.result.decision = "deny" \/ Runtime(h) = "evaluate" THEN "barred"
            ELSE IF j.result.decision = "allow" THEN "granted"
            ELSE IF Runtime(h) = "codex" THEN "barred" ELSE "waiting"
      [] OTHER -> "waiting"

GrantOf(h) ==
    LET j == job[h] IN
    IF Stage(h) \notin {"granted", "ran"} \/ j.late THEN {}
    ELSE IF ~j.cmd.installs THEN {0}
    ELSE IF j.result.install # 0 THEN {j.result.install}
    ELSE IF j.cmd.pinned # 0 THEN {j.cmd.pinned}
    ELSE {j.seen}

Promise ==
    INSTANCE Gate WITH
       stage <- [h \in Hooks |-> Stage(h)],
       grant <- [h \in Hooks |-> GrantOf(h)],
       known <- [h \in Hooks |-> IF GrantOf(h) = {} THEN 0 ELSE job[h].seen],
       installed <- [h \in Hooks |-> job[h].installed]

KeepsPromise == Promise!Spec
=============================================================================
