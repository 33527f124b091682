------------------------------ MODULE AgentRun ------------------------------
(***************************************************************************)
(* attach-guard run: the arguments of the agent are validated and          *)
(* hardened, the setup of the platform is checked, and the agent runs as a *)
(* child whose end the program waits for while a goroutine forwards an     *)
(* interrupt.                                                              *)
(*                                                                         *)
(* An argument is the sequence of its parts between "=": <<"--settings">>, *)
(* <<"--permission-mode", "plan">>, <<"-c", "sandbox_mode", "read-only">>. *)
(* Assignments are taken as normalizeConfigAssignment leaves them.         *)
(***************************************************************************)
EXTENDS Integers, FiniteSetsExt, SequencesExt

CONSTANTS Invocations,   \* [agent, args, dryRun, setup, pluginEnv, pluginNear, env]
          Codes,         \* exit codes of an agent, -1 for one ended by a signal
          HookKeys,      \* the assignable keys that begin with "hooks."
          MaxInterrupts  \* bound on the interrupts sent

(* An argument has a part at least, the empty string being one.            *)
ASSUME InvocationsAssumption == \A i \in Invocations : i.args \in Seq(Seq(STRING) \ {<<>>})
ASSUME CodesAssumption == Codes \subseteq Int
ASSUME HookKeysAssumption == "hooks.PreToolUse" \in HookKeys
ASSUME InterruptsAssumption == MaxInterrupts \in Nat

VARIABLES inv,        \* this invocation
          pc,         \* of the main goroutine
          argv, env,  \* what the agent is started with
          child,      \* "none", "running", "ended" (not waited for yet), "reaped",
                      \* "lost" (ended, but its status cannot be had)
          childCode,
          notified,   \* whether signal.Notify is in force
          signals,    \* number of values in the channel, of capacity one
          forwarder,  \* the goroutine: "none", "waiting", "ended"
          delivered,  \* interrupts the program has sent to the running agent
          done,       \* whether the channel done is closed
          raised,     \* interrupts sent to the program so far
          code,       \* the exit code, NoCode before
          killedAt    \* where an interrupt ended the program, or "never"

setting == <<inv, argv, env>>
watch == <<notified, signals, forwarder, delivered, done>>
vars == <<inv, pc, argv, env, child, childCode, notified, signals, forwarder,
          delivered, done, raised, code, killedAt>>

NoCode == -2
KilledBySignal == 130

-----------------------------------------------------------------------------
(* Arguments *)

HasBoolFlag(args, name) == \E i \in DOMAIN args : Head(args[i]) = name

(* A flag counts with a value after "=", or with another argument after it.*)
Occurrences(args, name) ==
    {i \in DOMAIN args : Head(args[i]) = name /\ (Len(args[i]) > 1 \/ i < Len(args))}

ValueAt(args, i) == IF Len(args[i]) > 1 THEN Tail(args[i]) ELSE args[i + 1]

Values(args, name) == {ValueAt(args, i) : i \in Occurrences(args, name)}

(* The first occurrence is the one looked at.                              *)
FlagValue(args, name) ==
    LET at == Occurrences(args, name)
    IN IF at = {} THEN <<>> ELSE ValueAt(args, Min(at))

HasFlagWithValue(args, name) == FlagValue(args, name) # <<>>

CodexConfigValues(args) == Values(args, "-c") \cup Values(args, "--config")

HasCodexConfigKey(args, key) ==
    \E v \in CodexConfigValues(args) : v[1] = key /\ Len(v) > 1

ValidClaudeArgs(args) ==
    /\ ~HasBoolFlag(args, "--dangerously-skip-permissions")
    /\ ~HasFlagWithValue(args, "--settings")
    /\ FlagValue(args, "--permission-mode") \in {<<>>, <<"default">>, <<"plan">>}

DangerousAssignments == {<<"sandbox_mode", "danger-full-access">>,
                         <<"default_permissions", ":danger-full-access">>,
                         <<"sandbox_workspace_write.network_access", "true">>}

ValidCodexArgs(args) ==
    /\ ~HasBoolFlag(args, "--dangerously-bypass-approvals-and-sandbox")
    /\ ~HasBoolFlag(args, "--yolo")
    /\ FlagValue(args, "--sandbox") # <<"danger-full-access">>
    /\ CodexConfigValues(args) \cap DangerousAssignments = {}

ValidInvocation(i) ==
    \/ i.agent = "claude" /\ ValidClaudeArgs(i.args)
    \/ i.agent = "codex" /\ ValidCodexArgs(i.args)

HardenedSettings == <<"hardened settings">>

Unless(present, extra) == IF present THEN <<>> ELSE extra

(* The directory that the environment names, if it names one; else the     *)
(* first one found next to the working directory or the program.           *)
LocalClaudePluginDir(i) ==
    \/ i.pluginEnv = "plugin directory"
    \/ i.pluginEnv = "unset" /\ i.pluginNear

HardenedClaudeArgs(args, plugin) ==
    <<<<"--settings">>, HardenedSettings>>
      \o Unless(~plugin \/ HasFlagWithValue(args, "--plugin-dir"), <<<<"--plugin-dir">>, <<"plugin">>>>)
      \o Unless(HasFlagWithValue(args, "--permission-mode"), <<<<"--permission-mode">>, <<"default">>>>)
      \o args

HasCodexHookConfig(args) ==
    \E v \in CodexConfigValues(args) :
       \/ v[1] \in HookKeys
       \/ v[1] = "features.hooks" /\ Len(v) > 1

HardenedCodexArgs(args) ==
    Unless(\/ HasFlagWithValue(args, "--sandbox")
           \/ HasCodexConfigKey(args, "sandbox_mode")
           \/ HasCodexConfigKey(args, "default_permissions"),
           <<<<"--sandbox">>, <<"workspace-write">>>>)
      \o Unless(\/ HasFlagWithValue(args, "--ask-for-approval")
                \/ HasFlagWithValue(args, "-a")
                \/ HasCodexConfigKey(args, "approval_policy"),
                <<<<"--ask-for-approval">>, <<"on-request">>>>)
      \o Unless(HasCodexConfigKey(args, "sandbox_workspace_write.network_access"),
                <<<<"-c">>, <<"sandbox_workspace_write.network_access", "false">>>>)
      \o Unless(HasCodexHookConfig(args),
                <<<<"-c">>, <<"features.hooks", "true">>, <<"-c">>, <<"hooks.PreToolUse", "guard">>>>)
      \o args

WrappedAgentCommand(i) ==
    IF i.agent = "claude" THEN HardenedClaudeArgs(i.args, LocalClaudePluginDir(i))
    ELSE HardenedCodexArgs(i.args)

-----------------------------------------------------------------------------
(* Environment: the entries, as <<key, value>>.  Their order is left out:  *)
(* nothing depends on it once every entry of a key has the same value.     *)

Overrides(agent) ==
    [ATTACH_API_URL |-> "setup", ATTACH_API_KEY |-> "setup",
     ATTACH_SCORE_API_URL |-> "setup", ATTACH_SCORE_API_KEY |-> "setup",
     ATTACH_GUARD_PROVIDER |-> "open-score",
     ATTACH_RUNTIME_KIND |-> IF agent = "claude" THEN "claude_code" ELSE agent,
     ATTACH_GUARD_ACTIVE |-> "1", ATTACH_GUARD_AGENT_COMMAND |-> agent,
     ATTACH_GUARD_PLATFORM_SETUP |-> "1"]

Entries(keys, overrides) == {<<k, overrides[k]>> : k \in keys}

AppendUnseenOnly(base, overrides) ==
    base \cup Entries(DOMAIN overrides \ {e[1] : e \in base}, overrides)

(* Every entry of an overridden key is replaced; the keys not seen follow. *)
WithEnv(base, overrides) ==
    LET keys == DOMAIN overrides
        unseen == keys \ {e[1] : e \in base}
    IN {IF e[1] \in keys THEN <<e[1], overrides[e[1]]>> ELSE e : e \in base}
       \cup Entries(unseen, overrides)

-----------------------------------------------------------------------------
Init ==
    /\ inv \in Invocations
    /\ pc = "args"
    /\ argv = <<>> /\ env = {}
    /\ child = "none" /\ childCode = NoCode
    /\ notified = FALSE /\ signals = 0 /\ forwarder = "none"
    /\ delivered = 0 /\ done = FALSE /\ raised = 0
    /\ code = NoCode /\ killedAt = "never"

Finish(c) ==
    /\ pc' = "exited"
    /\ code' = c

RefuseArgs ==
    /\ pc = "args"
    /\ ~ValidInvocation(inv)
    /\ Finish(1)
    /\ UNCHANGED <<setting, child, childCode, watch, raised, killedAt>>

DryRun ==
    /\ pc = "args"
    /\ ValidInvocation(inv)
    /\ inv.dryRun
    /\ Finish(0)
    /\ UNCHANGED <<setting, child, childCode, watch, raised, killedAt>>

WrapCommand ==
    /\ pc = "args"
    /\ ValidInvocation(inv)
    /\ ~inv.dryRun
    /\ argv' = WrappedAgentCommand(inv)
    /\ pc' = "load"
    /\ UNCHANGED <<inv, env, child, childCode, watch, raised, code, killedAt>>

(* platform.Load: the file is there, parses, is complete and names a URL   *)
(* that may be used, or the program ends.                                  *)
LoadSetup ==
    /\ pc = "load"
    /\ IF inv.setup = "usable" THEN pc' = "verify" /\ UNCHANGED code ELSE Finish(1)
    /\ UNCHANGED <<setting, child, childCode, watch, raised, killedAt>>

(* platform.Verify: only a 2xx answer is accepted; no answer within five   *)
(* seconds is an error like any other.                                     *)
VerifySetup ==
    /\ pc = "verify"
    /\ \E answer \in {"accepted", "rejected", "other status", "unreachable"} :
          IF answer = "accepted"
          THEN pc' = "start" /\ env' = WithEnv(inv.env, Overrides(inv.agent)) /\ UNCHANGED code
          ELSE Finish(1) /\ UNCHANGED env
    /\ UNCHANGED <<inv, argv, child, childCode, watch, raised, killedAt>>

StartAgent ==
    /\ pc = "start"
    /\ \/ child' = "running" /\ pc' = "notify" /\ UNCHANGED code
       \/ Finish(1) /\ UNCHANGED child
    /\ UNCHANGED <<setting, childCode, watch, raised, killedAt>>

Notify ==
    /\ pc = "notify"
    /\ notified' = TRUE
    /\ pc' = "go"
    /\ UNCHANGED <<setting, child, childCode, signals, forwarder, delivered, done, raised, code, killedAt>>

StartForwarder ==
    /\ pc = "go"
    /\ forwarder' = "waiting"
    /\ pc' = "wait"
    /\ UNCHANGED <<setting, child, childCode, notified, signals, delivered, done, raised, code, killedAt>>

WaitForForwarder ==
    /\ pc = "wait"
    /\ forwarder = "ended"
    /\ child = "ended"
    /\ child' \in {"reaped", "lost"}
    /\ pc' = "close"
    /\ UNCHANGED <<setting, childCode, watch, raised, code, killedAt>>

(* cmd.Wait returns the status of the agent, or an error instead of it.    *)
WaitReturns ==
    /\ pc = "wait"
    /\ child = "ended"
    /\ child' \in {"reaped", "lost"}
    /\ pc' = "close"
    /\ UNCHANGED <<setting, childCode, watch, raised, code, killedAt>>

CloseDone ==
    /\ pc = "close"
    /\ done' = TRUE
    /\ pc' = "return"
    /\ UNCHANGED <<setting, child, childCode, notified, signals, forwarder, delivered,
                   raised, code, killedAt>>

(* The deferred signal.Stop: from here an interrupt ends the program.      *)
Return ==
    /\ pc = "return"
    /\ notified' = FALSE
    /\ pc' = "exit"
    /\ UNCHANGED <<setting, child, childCode, signals, forwarder, delivered, done,
                   raised, code, killedAt>>

ExitWithSuccess ==
    /\ pc = "exit"
    /\ Finish(IF delivered > 0 THEN 0 ELSE childCode)
    /\ UNCHANGED <<setting, child, childCode, watch, raised, killedAt>>

Exit ==
    /\ pc = "exit"
    /\ Finish(IF child = "lost" THEN 1 ELSE childCode)
    /\ UNCHANGED <<setting, child, childCode, watch, raised, killedAt>>

Main == RefuseArgs \/ DryRun \/ WrapCommand \/ LoadSetup \/ VerifySetup
          \/ StartAgent \/ Notify \/ StartForwarder \/ WaitReturns
          \/ CloseDone \/ Return \/ Exit

-----------------------------------------------------------------------------
ForwardThenStop ==
    /\ forwarder = "waiting"
    /\ signals = 1
    /\ signals' = 0
    /\ delivered' = IF child = "running" THEN delivered + 1 ELSE delivered
    /\ forwarder' = "ended"
    /\ notified' = FALSE
    /\ UNCHANGED <<setting, pc, child, childCode, done, raised, code, killedAt>>

ForwardToNobody ==
    /\ forwarder = "waiting"
    /\ signals = 1
    /\ signals' = 0
    /\ forwarder' = "ended"
    /\ UNCHANGED <<setting, pc, child, childCode, notified, delivered, done, raised, code, killedAt>>

(* The goroutine takes one signal and ends; a process that has been waited *)
(* for is not signalled.                                                   *)
ForwardInterrupt ==
    /\ forwarder = "waiting"
    /\ signals = 1
    /\ signals' = 0
    /\ delivered' = IF child = "running" THEN delivered + 1 ELSE delivered
    /\ forwarder' = "ended"
    /\ UNCHANGED <<setting, pc, child, childCode, notified, done, raised, code, killedAt>>

EndForwarder ==
    /\ forwarder = "waiting"
    /\ done
    /\ forwarder' = "ended"
    /\ UNCHANGED <<setting, pc, child, childCode, notified, signals, delivered, done, raised, code, killedAt>>

Forwarder == ForwardInterrupt \/ EndForwarder

(* Somebody interrupts the program.  With Notify in force the signal goes  *)
(* to the channel, or nowhere when that is full; else it ends the program. *)
Interrupt ==
    /\ raised < MaxInterrupts
    /\ pc # "exited"
    /\ raised' = raised + 1
    /\ IF notified
       THEN signals' = 1 /\ UNCHANGED <<pc, code, killedAt>>
       ELSE Finish(KilledBySignal) /\ killedAt' = pc /\ UNCHANGED signals
    /\ UNCHANGED <<setting, child, childCode, notified, forwarder, delivered, done>>

AgentEnds ==
    /\ child = "running"
    /\ child' = "ended"
    /\ childCode' \in Codes
    /\ UNCHANGED <<setting, pc, watch, raised, code, killedAt>>

Next == Main \/ Forwarder \/ Interrupt \/ AgentEnds

(* The program's two goroutines are scheduled.  Nothing makes the agent    *)
(* end and nobody has to interrupt.                                        *)
Spec == Init /\ [][Next]_vars /\ WF_vars(Main) /\ WF_vars(Forwarder)

-----------------------------------------------------------------------------
(* Properties *)

TypeOK ==
    /\ inv \in Invocations
    /\ pc \in {"args", "load", "verify", "start", "notify", "go", "wait", "close", "return",
              "exit", "exited"}
    /\ child \in {"none", "running", "ended", "reaped", "lost"}
    /\ childCode \in Codes \cup {NoCode}
    /\ notified \in BOOLEAN /\ done \in BOOLEAN
    /\ signals \in {0, 1}
    /\ forwarder \in {"none", "waiting", "ended"}
    /\ delivered \in {0, 1}
    /\ raised \in Nat
    /\ code \in Codes \cup {NoCode, 0, 1, KilledBySignal}

Once(args, name) == \A i, j \in Occurrences(args, name) : i = j

(* An agent only runs hardened (README.md:301-306), whichever occurrence   *)
(* of a flag it goes by: all values that its argument list gives for a     *)
(* flag are looked at, not the one the wrapper read.  The settings are the *)
(* wrapper's only; the permission mode and the sandbox are set and, unless *)
(* the caller repeats the flag, to permitted values only; no assignment    *)
(* lifts the sandbox or opens the network; the guard's hook is configured  *)
(* unless the caller configures hooks; and the guard's variables have the  *)
(* guard's values only.  What a repeated flag does is the subject of       *)
(* RefusedModesNeverStart.                                                 *)
AgentIsHardened ==
    child # "none" =>
        /\ inv.setup = "usable" /\ ~inv.dryRun
        /\ \A k \in DOMAIN Overrides(inv.agent) :
              {e[2] : e \in {e \in env : e[1] = k}} = {Overrides(inv.agent)[k]}
        /\ inv.agent = "claude" =>
              /\ Values(argv, "--settings") = {HardenedSettings}
              /\ Values(argv, "--permission-mode") # {}
              /\ Once(inv.args, "--permission-mode") =>
                    Values(argv, "--permission-mode") \subseteq {<<"default">>, <<"plan">>}
        /\ inv.agent = "codex" =>
              /\ \/ Values(argv, "--sandbox") # {}
                 \/ HasCodexConfigKey(argv, "sandbox_mode")
                 \/ HasCodexConfigKey(argv, "default_permissions")
              /\ Once(inv.args, "--sandbox") =>
                    <<"danger-full-access">> \notin Values(argv, "--sandbox")
              /\ HasCodexConfigKey(argv, "sandbox_workspace_write.network_access")
              /\ CodexConfigValues(argv) \cap DangerousAssignments = {}
              /\ \/ HasCodexHookConfig(inv.args)
                 \/ {<<"features.hooks", "true">>, <<"hooks.PreToolUse", "guard">>}
                       \subseteq CodexConfigValues(argv)

(* The wrapper refuses to start if the user passes a permission mode other *)
(* than default or plan (docs/HOW_ATTACH_RUN_WRAPS.md:55-59).  It looks at *)
(* the first occurrence of the flag only (main.go:399-410), and passes all *)
(* of them on.                                                             *)
RefusedModesNeverStart ==
    child # "none" /\ inv.agent = "claude" =>
        Values(inv.args, "--permission-mode") \subseteq {<<"default">>, <<"plan">>}

(* Once it listens for interrupts the program does not end before the      *)
(* agent does (main.go:159-176): only an interrupt between Start and       *)
(* Notify leaves an agent behind.                                          *)
AgentNotAbandoned ==
    pc = "exited" /\ child \in {"running", "ended"} => killedAt = "notify"

(* Success is reported for an agent that has ended with success, or for    *)
(* the command that was only printed (main.go:120-123, 176-184); and the   *)
(* agent's exit code is reported whenever it could be had and no interrupt *)
(* ended the program after it had stopped listening.                       *)
SuccessIsReal ==
    /\ code = 0 => inv.dryRun \/ (child = "reaped" /\ childCode = 0)
    /\ child = "reaped" /\ pc = "exited" /\ killedAt = "never" => code = childCode

(* The first interrupt reaches the agent or finds it ended                 *)
(* (main.go:165-173).  Of later ones the code promises nothing.            *)
FirstInterruptArrives ==
    (signals = 1 /\ delivered = 0 /\ child = "running")
        ~> (delivered = 1 \/ child # "running")

(* When the agent ends the program returns (main.go:175-184): it waits     *)
(* neither for the goroutine nor for a further signal.                     *)
EndsWithAgent == (child = "ended" /\ notified) ~> (pc = "exited")
=============================================================================
