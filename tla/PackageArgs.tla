---------------------------- MODULE PackageArgs -----------------------------
(***************************************************************************)
(* The argument loops of internal/parser/{npm,pnpm,yarn,pip,gomod,cargo}:  *)
(* which tokens after the package manager's name become packages, and      *)
(* which make the command one that was not read in full.                   *)
(*                                                                         *)
(* Each loop takes one token after the other.  Its state is                *)
(*   phase     "flags" before the action, "args" after it, "workspace" and *)
(*             "global" within these subcommands of yarn, "deferred" when  *)
(*             such a subcommand adds, "nil" when it is no installation    *)
(*   pending   the flag whose value is the next token, "maybe" when the    *)
(*             next token may be an unknown flag's value, or ""            *)
(*   packages, unparsed, nonLocal  of the ParsedCommand                    *)
(*   disq      disqualify: no further package is listed                    *)
(*   version   cargo's --version was given                                 *)
(***************************************************************************)
EXTENDS ParsedCommands, Tokens

Begin == [phase |-> "flags", pending |-> "", packages |-> <<>>, unparsed |-> FALSE,
          nonLocal |-> FALSE, disq |-> FALSE, version |-> FALSE]

Command(pm, s) ==
    [pm |-> pm, packages |-> s.packages, unparsed |-> s.unparsed, nonLocal |-> s.nonLocal]
Installation(pm, s) == IF s.phase = "args" THEN Command(pm, s) ELSE NoCommand

Await(s, flag) == [s EXCEPT !.pending = flag]
AwaitsAlways(s, tok, values) == Await(s, tok.w)
AwaitIf(s, tok, values) == IF Named(tok, values) THEN Await(s, tok.w) ELSE s
Proceed(s) == [s EXCEPT !.pending = ""]
Enter(s, phase) == [s EXCEPT !.phase = phase]
Skips(s) == s

Unread(s) == [s EXCEPT !.unparsed = TRUE]
UnreadNonLocal(s) == [s EXCEPT !.unparsed = TRUE, !.nonLocal = TRUE]

(* What a parser takes for one version: yarn and go match its form, npm,   *)
(* pnpm, pip and cargo any version without a range's operator.             *)
OneVersion == {"exact"}
AnyVersion == {"exact", "tag"}
List(s, tok, pinning) ==
    [s EXCEPT !.packages = Append(@, [name |-> tok.w, pinned |-> tok.cls \in pinning])]

KeepsListed(s) == [UnreadNonLocal(s) EXCEPT !.disq = TRUE]

(* The packages come from somewhere else than the registry. *)
Disqualify(s) == [UnreadNonLocal(s) EXCEPT !.disq = TRUE, !.packages = <<>>]

-----------------------------------------------------------------------------
(* npm and pnpm.  Every word after the verb is a package, a path, a URL or  *)
(* a git repository too, and whatever registry a flag names.               *)

NodeVerbs == {"install", "i", "add"}
NpmGlobals == {"--prefix", "--registry", "--userconfig", "--cache", "--loglevel",
               "--workspace", "-w"}
NpmValues == {"--save-prefix", "--tag", "--registry"}
PnpmGlobals == {"--filter", "--dir", "-C"}
PnpmValues == {"--filter", "--registry", "--tag"}

NodeArgument(globals, values, s, tok) ==
    CASE s.phase = "nil" -> s
      [] s.phase # "nil" /\ s.pending # "" -> Proceed(s)
      [] s.phase = "flags" /\ s.pending = "" ->
            IF IsFlag(tok) THEN AwaitIf(s, tok, globals)
            ELSE Enter(s, IF tok.w \in NodeVerbs THEN "args" ELSE "nil")
      [] s.phase = "args" /\ s.pending = "" ->
            IF IsFlag(tok) THEN AwaitIf(s, tok, values) ELSE List(s, tok, AnyVersion)

(* Without packages the lock file decides, which is not guarded. *)
WithPackages(cmd) == IF cmd.packages # <<>> THEN cmd ELSE NoCommand

-----------------------------------------------------------------------------
(* pip *)

PipValues == {"-i", "--index-url", "--extra-index-url", "-p", "--python", "-c",
              "--constraint", "-f", "--find-links", "--no-binary", "--only-binary",
              "--platform", "--python-version", "--implementation", "--abi", "-r",
              "--requirement", "-t", "--target", "--root", "--prefix", "--proxy"}
PipSources == {"-i", "--index-url", "--extra-index-url", "--proxy"}
PipLinks == {"-f", "--find-links"}
PipBooleans == {"-U", "--upgrade", "-e", "--editable", "--no-deps", "--user",
                "--force-reinstall", "--no-cache-dir"}
PipNonLocalBooleans == {"--no-index", "--pre"}
PipUnread == {"-c", "--constraint", "-r", "--requirement"}

PipTakes(s, flag, blank) ==
    LET t == IF flag \in PipSources \/ (flag \in PipLinks /\ ~blank) THEN Disqualify(s) ELSE s
    IN IF s.phase = "args" /\ flag \in PipUnread THEN UnreadNonLocal(t) ELSE t

(* An unknown long flag may name another source.  Before the action it may *)
(* also have a value.                                                      *)
PipUnknown(s, tok) ==
    IF tok.kind # "long" THEN s
    ELSE IF s.phase = "flags" /\ tok.val = NoVal THEN Await(Disqualify(s), "maybe")
    ELSE Disqualify(s)

PipFlag(s, tok) ==
    LET is(flags) == Named(tok, flags) \/ Assigned(tok, flags) IN
    CASE is(PipBooleans) -> s
      [] is(PipNonLocalBooleans) -> Disqualify(s)
      [] Assigned(tok, PipValues) -> PipTakes(s, tok.w, tok.val = "")
      [] Named(tok, PipValues) -> Await(s, tok.w)
      [] OTHER -> PipUnknown(s, tok)

PipRequirement(s, tok) ==
    CASE s.disq \/ tok.cls = "local" -> Unread(s)
      [] ~s.disq /\ tok.cls \in {"remote", "range"} -> UnreadNonLocal(s)
      [] ~s.disq /\ tok.cls \notin {"local", "remote", "range"} -> List(s, tok, AnyVersion)

PipArgument(s, tok) ==
    LET awaited == s.pending # "" /\ ~(s.pending = "maybe" /\ (IsFlag(tok) \/ tok.w = "install"))
        t == Proceed(s)
    IN CASE s.phase = "nil" -> s
         [] s.phase # "nil" /\ awaited ->
               IF s.pending = "maybe" THEN t ELSE PipTakes(t, s.pending, tok.w = "")
         [] s.phase # "nil" /\ ~awaited /\ IsFlag(tok) -> PipFlag(t, tok)
         [] s.phase = "flags" /\ ~awaited /\ ~IsFlag(tok) ->
               Enter(t, IF tok.w = "install" THEN "args" ELSE "nil")
         [] s.phase = "args" /\ ~awaited /\ ~IsFlag(tok) -> PipRequirement(t, tok)

-----------------------------------------------------------------------------
(* yarn *)

YarnValues == {"--mode", "--mutex", "--tag"}
YarnSources == {"--cache-folder", "--cwd", "--npm-registry-server", "--npmRegistryServer",
                "--registry", "--use-yarnrc"}
YarnBooleans == {"-D", "--dev", "-E", "--exact", "-i", "--interactive", "-O", "--optional",
                 "-P", "--peer", "-T", "--tilde", "-W", "--ignore-scripts",
                 "--ignore-workspace-root-check", "--immutable", "--json", "--prod",
                 "--production", "--refresh-lockfile", "--silent", "--verbose"}
YarnCaches == {"--cached", "--check-cache", "--immutable-cache", "--offline",
               "--prefer-offline"}
YarnStops == {"add", "workspace", "global"}

(* consumeFlag.  A flag that changes the source, or is not known, leaves no *)
(* package to be asked about.                                              *)
YarnFlag(s, tok) ==
    CASE Named(tok, YarnSources) -> Await(Disqualify(s), tok.w)
      [] Named(tok, YarnValues) -> Await(s, tok.w)
      [] \/ Assigned(tok, YarnValues \cup YarnBooleans \cup YarnCaches)
         \/ Named(tok, YarnBooleans) -> s
      [] tok.kind = "long" /\ tok.val = NoVal
            /\ tok.w \notin YarnSources \cup YarnValues \cup YarnBooleans \cup YarnCaches ->
            Await(Disqualify(s), "maybe")
      [] OTHER -> Disqualify(s)

(* The packages of a workspace or of the global directory are not read.    *)
YarnAction(s, tok) ==
    CASE tok.w = "add" /\ s.phase = "flags" -> Enter(s, "args")
      [] tok.w = "add" /\ s.phase = "global" -> Enter(UnreadNonLocal(s), "deferred")
      [] tok.w = "workspace" /\ s.phase = "flags" -> Enter(s, "workspace")
      [] tok.w = "global" /\ s.phase = "flags" -> Enter(s, "global")
      [] OTHER -> Enter(s, "nil")

YarnPackage(s, tok) ==
    CASE s.disq -> Unread(s)
      [] ~s.disq /\ tok.cls \in {"local", "remote"} -> Disqualify(s)
      [] ~s.disq /\ tok.cls \notin {"local", "remote"} -> List(s, tok, OneVersion)

YarnArgument(s, tok) ==
    LET stops == s.phase = "flags" /\ tok.w \in YarnStops
        awaited == s.pending # "" /\ ~(s.pending = "maybe" /\ (IsFlag(tok) \/ stops))
        t == Proceed(s)
    IN CASE s.phase \in {"nil", "deferred"} -> s
         [] s.phase = "workspace" -> Enter(s, "global")
         [] s.phase = "global" -> YarnAction(s, tok)
         [] s.phase \in {"flags", "args"} /\ awaited -> t
         [] s.phase \in {"flags", "args"} /\ ~awaited /\ IsFlag(tok) -> YarnFlag(t, tok)
         [] s.phase = "flags" /\ ~awaited /\ ~IsFlag(tok) -> YarnAction(t, tok)
         [] s.phase = "args" /\ ~awaited /\ ~IsFlag(tok) -> YarnPackage(t, tok)

(* The value of the last flag may be missing. *)
YarnEnd(s) == IF s.pending \in YarnValues THEN Unread(s) ELSE s

YarnCommand(s) ==
    IF s.phase = "deferred" \/ (s.phase = "args" /\ (s.packages # <<>> \/ s.unparsed))
    THEN Command("yarn", s)
    ELSE NoCommand

-----------------------------------------------------------------------------
(* go *)

GoArgument(s, tok) ==
    CASE s.phase = "nil" -> s
      [] s.phase = "flags" /\ s.pending # "" -> Proceed(s)
      [] s.phase = "flags" /\ s.pending = "" /\ IsFlag(tok) -> AwaitIf(s, tok, {"-C"})
      [] s.phase = "flags" /\ s.pending = "" /\ ~IsFlag(tok) ->
            Enter(s, IF tok.w \in {"get", "install"} THEN "args" ELSE "nil")
      [] s.phase = "args" /\ IsFlag(tok) -> s
      [] s.phase = "args" /\ ~IsFlag(tok) /\ tok.cls = "local" -> Unread(s)
      [] s.phase = "args" /\ ~IsFlag(tok) /\ tok.cls \in {"range", "tag"} -> UnreadNonLocal(s)
      [] s.phase = "args" /\ ~IsFlag(tok) /\ tok.cls \notin {"local", "range", "tag"} ->
            List(s, tok, OneVersion)

-----------------------------------------------------------------------------
(* cargo *)

CargoVerbs == {"add", "install"}
CargoGlobals == {"--color", "--config", "-Z"}
CargoValues == {"-F", "--features", "--rename", "--manifest-path", "--registry", "-p",
                "--package", "--target-dir", "--branch", "--tag", "--rev", "--git", "--path",
                "--version", "--root"}
CargoBooleans == {"--optional", "--dev", "--build", "--public", "--no-default-features",
                  "--dry-run", "--offline", "--locked", "--frozen", "-q", "--quiet", "-v",
                  "--verbose", "--force", "-f", "--no-track", "--list", "--debug", "--release"}

CargoUnknown(tok) == tok.kind = "long" /\ tok.w \notin CargoValues \cup CargoBooleans

(* Before the action: the values of the flags that cargo itself takes.     *)
CargoGlobalFlag(s, tok) ==
    LET t == IF CargoUnknown(tok) THEN Disqualify(s) ELSE s IN
    CASE \/ Assigned(tok, CargoGlobals \cup CargoBooleans)
         \/ Named(tok, CargoBooleans) -> s
      [] Named(tok, CargoGlobals) -> Await(s, tok.w)
      [] tok.kind = "long" /\ tok.val = NoVal
            /\ tok.w \notin CargoGlobals \cup CargoBooleans -> Await(t, "maybe")
      [] OTHER -> t

(* Any version that --version names pins, a range as well.                 *)
CargoTakes(s, flag, blank) ==
    CASE flag \in {"--git", "--registry"} -> Disqualify(s)
      [] flag = "--path" -> [Unread(s) EXCEPT !.disq = TRUE, !.packages = <<>>]
      [] flag = "--version" -> [s EXCEPT !.version = ~blank]
      [] OTHER -> s

CargoFlag(s, tok) ==
    CASE Assigned(tok, CargoValues) -> CargoTakes(s, tok.w, tok.val = "")
      [] Named(tok, CargoValues) -> Await(s, tok.w)
      [] CargoUnknown(tok) -> Disqualify(s)
      [] OTHER -> s

CargoPackage(s, tok) ==
    CASE s.disq -> Unread(s)
      [] ~s.disq /\ tok.cls = "range" -> UnreadNonLocal(s)
      [] ~s.disq /\ tok.cls # "range" -> List(s, tok, AnyVersion)

CargoArgument(s, tok) ==
    LET maybe == s.pending = "maybe"
        awaited == s.pending # "" /\ ~(maybe /\ (IsFlag(tok) \/ tok.w \in CargoVerbs))
        t == Proceed(s)
    IN CASE s.phase = "nil" -> s
         [] s.phase = "flags" /\ awaited -> IF maybe THEN Disqualify(t) ELSE t
         [] s.phase = "flags" /\ ~awaited /\ IsFlag(tok) -> CargoGlobalFlag(t, tok)
         [] s.phase = "flags" /\ ~awaited /\ ~IsFlag(tok) ->
               Enter(t, IF tok.w \in CargoVerbs THEN "args" ELSE "nil")
         [] s.phase = "args" /\ awaited -> CargoTakes(t, s.pending, tok.w = "")
         [] s.phase = "args" /\ ~awaited /\ IsFlag(tok) -> CargoFlag(t, tok)
         [] s.phase = "args" /\ ~awaited /\ ~IsFlag(tok) -> CargoPackage(t, tok)

PinsTheFirst(s) ==
    IF s.version /\ s.packages # <<>> THEN [s EXCEPT !.packages[1].pinned = TRUE] ELSE s

(* --version is the version of the one package there is.                   *)
CargoVersion(s) ==
    CASE s.version /\ Len(s.packages) = 1 -> [s EXCEPT !.packages[1].pinned = TRUE]
      [] s.version /\ Len(s.packages) # 1 -> UnreadNonLocal(s)
      [] ~s.version -> s

-----------------------------------------------------------------------------

(* One iteration of the loop of a package manager's parser, and what the   *)
(* parser returns after the last one.                                      *)
Managers == {"npm", "pnpm", "yarn", "pip", "pip3", "go", "cargo"}

Argument(pm, s, tok) ==
    CASE pm = "npm" -> NodeArgument(NpmGlobals, NpmValues, s, tok)
      [] pm = "pnpm" -> NodeArgument(PnpmGlobals, PnpmValues, s, tok)
      [] pm = "yarn" -> YarnArgument(s, tok)
      [] pm \in {"pip", "pip3"} -> PipArgument(s, tok)
      [] pm = "go" -> GoArgument(s, tok)
      [] pm = "cargo" -> CargoArgument(s, tok)

Outcome(pm, s) ==
    CASE pm \in {"npm", "pnpm"} -> WithPackages(Installation(pm, s))
      [] pm = "yarn" -> YarnCommand(YarnEnd(s))
      [] pm \in {"pip", "pip3", "go"} -> Installation(pm, s)
      [] pm = "cargo" -> Installation(pm, CargoVersion(s))
=============================================================================
