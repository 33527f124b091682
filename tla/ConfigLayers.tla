---------------------------- MODULE ConfigLayers ----------------------------
(***************************************************************************)
(* internal/config: what Load makes of the layers below one another, what  *)
(* Write leaves in a file, and which provider the program builds from it.  *)
(*                                                                         *)
(* A configuration is a record with one field for each setting.  A file is *)
(* [parses, values] with the settings it holds; a missing file, like an    *)
(* empty one, holds none.  An endpoint is "" (none), "bad" (no URL that    *)
(* may be used) or anything else; timeout is the set of the values given.  *)
(***************************************************************************)
EXTENDS Integers, Sequences, TLC

DefaultConfig ==
    [kind |-> "open-score", command |-> "attach-open-score", endpoint |-> "",
     tokenEnv |-> "ATTACH_OPEN_SCORE_API_TOKEN", timeout |-> {},
     denyKnownMalware |-> TRUE, minSupplyChain |-> 70, minOverall |-> 70,
     grayMin |-> 50, minAge |-> 48,
     unavailableLocal |-> "ask", unavailableCI |-> "deny",
     unknownLocal |-> "ask", unknownCI |-> "deny",
     autoRewriteLocal |-> FALSE, autoRewriteCI |-> FALSE,
     allowlist |-> {}, denylist |-> {},
     npm |-> TRUE, pnpm |-> TRUE, pip |-> TRUE, go |-> TRUE, cargo |-> TRUE,
     logPath |-> "~/.attach-guard/audit.jsonl"]

Settings == DOMAIN DefaultConfig

PlatformConfig(endpoint, tokenEnv) ==
    [DefaultConfig EXCEPT !.kind = "platform", !.endpoint = endpoint,
                          !.tokenEnv = tokenEnv, !.command = ""]

(* The order in which Write puts the settings into the file. *)
FieldOrder ==
    <<"kind", "tokenEnv", "endpoint", "command", "timeout", "denyKnownMalware",
      "minSupplyChain", "minOverall", "grayMin", "minAge", "unavailableLocal",
      "unavailableCI", "unknownLocal", "unknownCI", "autoRewriteLocal", "autoRewriteCI",
      "allowlist", "denylist", "npm", "pnpm", "pip", "go", "cargo", "logPath">>

File(values) == [parses |-> TRUE, values |-> values]
EmptyFile == File(<<>>)
Unparsable == [parses |-> FALSE, values |-> <<>>]

Held(f, fields) == [s \in DOMAIN f \cap fields |-> f[s]]

(* yaml.Marshal leaves out the optional settings of the provider when they *)
(* are empty.                                                              *)
Written(cfg) ==
    LET empty == {s \in {"endpoint", "command"} : cfg[s] = ""}
                   \cup (IF cfg.timeout = {} THEN {"timeout"} ELSE {})
    IN Held(cfg, DOMAIN cfg \ empty)

(* What is left of a file whose writing is cut short after n settings: the *)
(* settings before the cut, the next one perhaps without the last digit of *)
(* its number, or something that does not parse.                           *)
Numbers == {"minSupplyChain", "minOverall", "grayMin", "minAge"}

Torn(values, cuts) ==
    {Unparsable} \cup
    UNION { LET kept == Held(values, {FieldOrder[i] : i \in 1..n})
                next == {FieldOrder[i] : i \in {n + 1} \cap DOMAIN FieldOrder} \cap Numbers
            IN {File(kept)} \cup {File((s :> values[s] \div 10) @@ kept) : s \in next \cap DOMAIN values}
          : n \in cuts }

-----------------------------------------------------------------------------
(* mergeFromFile: the settings in the file replace the ones so far. *)
Merge(cfg, file) ==
    LET held == DOMAIN file.values
    IN [s \in Settings |-> IF s \in held THEN file.values[s] ELSE cfg[s]]

(* Variables that are unset or empty are "". *)
ApplyEnvOverrides(cfg, env) ==
    LET logged == IF env.logPath # "" THEN [cfg EXCEPT !.logPath = env.logPath] ELSE cfg
        kinded == IF env.provider # "" THEN [logged EXCEPT !.kind = env.provider] ELSE logged
        hosted == IF env.endpoint # ""
                  THEN [kinded EXCEPT !.kind = "open-score", !.endpoint = env.endpoint,
                                      !.tokenEnv = "ATTACH_OPEN_SCORE_API_TOKEN"]
                  ELSE kinded
    IN IF env.bin # "" THEN [hosted EXCEPT !.kind = "open-score", !.command = env.bin] ELSE hosted

Valid(cfg) ==
    cfg.kind \in {"open-score", "platform"} =>
        /\ cfg.kind = "platform" => cfg.endpoint # ""
        /\ cfg.endpoint # "bad"
        /\ \A t \in cfg.timeout : t > 0

(* Load: a file that does not parse or settings that are not valid are an  *)
(* error; without a home directory what there is after the plugin's file   *)
(* is returned as it is.                                                   *)
LoadError == [ok |-> FALSE, cfg |-> DefaultConfig]
Loaded(cfg) == [ok |-> TRUE, cfg |-> cfg]

LoadLocalFirst(env, plugin, global, local) ==
    LET base == IF env.pluginDir THEN Merge(DefaultConfig, plugin) ELSE DefaultConfig
        cfg == ApplyEnvOverrides(Merge(Merge(base, local), global), env)
    IN IF env.pluginDir /\ ~plugin.parses THEN LoadError
       ELSE IF ~env.home THEN Loaded(base)
       ELSE IF ~global.parses \/ ~local.parses \/ ~Valid(cfg) THEN LoadError
       ELSE Loaded(cfg)

Load(env, plugin, global, local) ==
    LET base == IF env.pluginDir THEN Merge(DefaultConfig, plugin) ELSE DefaultConfig
        cfg == ApplyEnvOverrides(Merge(Merge(base, global), local), env)
    IN IF env.pluginDir /\ ~plugin.parses THEN LoadError
       ELSE IF ~env.home THEN Loaded(base)
       ELSE IF ~global.parses \/ ~local.parses \/ ~Valid(cfg) THEN LoadError
       ELSE Loaded(cfg)

NewProviderTrusting(cfg, env) ==
    CASE cfg.kind = "socket" ->
           IF cfg.tokenEnv \in env.tokens THEN "socket" ELSE "unavailable"
      [] cfg.kind = "open-score" /\ cfg.endpoint = "" -> "open-score-local"
      [] cfg.kind = "open-score" /\ cfg.endpoint # "" -> "open-score-http"
      [] cfg.kind = "platform" -> "platform"
      [] cfg.kind = "mock" -> "mock"
      [] OTHER -> "error"

(* newProviderFromConfig.  Both HTTP providers check the endpoint again.   *)
NewProvider(cfg, env) ==
    LET usable == /\ cfg.endpoint \notin {"", "bad"}
                  /\ \A t \in cfg.timeout : t >= 0
    IN CASE cfg.kind = "socket" ->
              IF cfg.tokenEnv \in env.tokens THEN "socket" ELSE "unavailable"
         [] cfg.kind = "open-score" /\ cfg.endpoint = "" -> "open-score-local"
         [] cfg.kind = "open-score" /\ usable -> "open-score-http"
         [] cfg.kind = "platform" /\ usable -> "platform"
         [] cfg.kind = "mock" -> "mock"
         [] OTHER -> "error"

(* The part of the configuration that the policy engine reads. *)
PolicyOf(cfg) ==
    [denyKnownMalware |-> cfg.denyKnownMalware, minSupplyChain |-> cfg.minSupplyChain,
     minOverall |-> cfg.minOverall, grayMin |-> cfg.grayMin, minAge |-> cfg.minAge,
     unavailable |-> [local |-> cfg.unavailableLocal, ci |-> cfg.unavailableCI],
     unknown |-> [local |-> cfg.unknownLocal, ci |-> cfg.unknownCI],
     autoRewrite |-> [local |-> cfg.autoRewriteLocal, ci |-> cfg.autoRewriteCI],
     allowlist |-> cfg.allowlist, denylist |-> cfg.denylist]
=============================================================================
