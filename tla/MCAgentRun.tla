----------------------------- MODULE MCAgentRun -----------------------------
(***************************************************************************)
(* Argument lists of at most three arguments over the spellings that the     *)
(* wrapper knows, and every state of the platform's setup.                 *)
(***************************************************************************)
EXTENDS AgentRun

ClaudeArgs == {<<"--settings">>, <<"--settings", "{}">>, <<"--permission-mode">>,
               <<"--permission-mode", "plan">>, <<"--permission-mode", "acceptEdits">>,
               <<"--dangerously-skip-permissions">>, <<"--plugin-dir">>, <<"plan">>}

CodexArgs == {<<"--sandbox">>, <<"--sandbox", "danger-full-access">>, <<"read-only">>, <<"--yolo">>,
              <<"-a">>, <<"--ask-for-approval", "never">>, <<"-c">>,
              <<"-c", "sandbox_mode", "danger-full-access">>, <<"sandbox_mode", "read-only">>,
              <<"--config", "sandbox_workspace_write.network_access", "true">>,
              <<"-c", "approval_policy", "never">>, <<"hooks.Stop", "other">>}

UpToTwo(S) == {<<>>} \cup {<<a>> : a \in S} \cup {<<a, b>> : a, b \in S}
UpToThree(S) == UpToTwo(S) \cup {<<a, b, c>> : a, b, c \in S}

PlainEnv == {<<"PATH", "bin">>}
PresetEnv == {<<"ATTACH_GUARD_PROVIDER", "mock">>, <<"PATH", "bin">>, <<"ATTACH_GUARD_PROVIDER", "socket">>}

Invoked(agent, lists, dry, setups, plugins, near, envs) ==
    [agent : agent, args : lists, dryRun : dry, setup : setups,
     pluginEnv : plugins, pluginNear : near, env : envs]

MCInvocations ==
    Invoked({"claude"}, UpToThree(ClaudeArgs), {FALSE}, {"usable"}, {"unset"}, {TRUE}, {PlainEnv})
    \cup Invoked({"codex"}, UpToTwo(CodexArgs), {FALSE}, {"usable"}, {"unset"}, {FALSE}, {PlainEnv})
    \cup Invoked({"claude", "codex"}, {<<>>}, BOOLEAN,
                 {"usable", "missing", "unparsable", "incomplete", "insecure"},
                 {"off", "no plugin directory", "plugin directory"}, {FALSE}, {PlainEnv, PresetEnv})
    \cup Invoked({"other"}, {<<>>}, {FALSE}, {"usable"}, {"off"}, {FALSE}, {PlainEnv})
MCCodes == {-1, 0, 3}
MCHookKeys == {"hooks.PreToolUse", "hooks.Stop"}
=============================================================================
