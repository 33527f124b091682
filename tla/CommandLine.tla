----------------------------- MODULE CommandLine -----------------------------
(***************************************************************************)
(* ParseAll of internal/parser/parser.go: which installations a command    *)
(* line contains.  The line is split at the shell's operators; a segment   *)
(* loses the commands that only run another command (sudo, env, a shell    *)
(* with -c, uv pip, python -m pip, ...), is split again, and what is left  *)
(* goes to the package managers' parsers.  The command substitutions of a  *)
(* segment are lines of their own.  A setting that names another registry  *)
(* is kept for the segments after it.                                      *)
(*                                                                         *)
(* The code's functions call each other and themselves; here their calls   *)
(* are on a stack, and a step is one iteration of the innermost one.       *)
(***************************************************************************)
EXTENDS PackageArgs, Prefixes

(* The lines that the hook is asked about: their tokens, and what the      *)
(* shell does when it runs the line (external to the code, for the         *)
(* properties): a set of installations                                     *)
(*   pm, name                                                              *)
(*   asks    "any" version, one "exact" version, a "range" or a "tag"      *)
(*   public  the package comes from the public registry                    *)
(*   read    FALSE if a redirection, a substitution or a file tells more   *)
(*           about it, or the command's parser does not read such words    *)
(*   via     the command that runs it is "known" to the parser, another    *)
(*           "wrapper" that runs its arguments (strace), or a "filter"     *)
(*           that the heuristic passes over (NonWrappers: xargs)           *)
CONSTANTS CommandLines,
          Looks(_, _, _),       \* LooksLike of Heuristic, for a line
          LooksTokens(_, _, _)  \* LooksLikeTokens, for the tokens of a command

VARIABLES commandLine,  \* the command line, NoLine before it is read
          calls,        \* the calls under way, the innermost first
          results       \* the installations that were found

parsing == <<commandLine, calls, results>>

-----------------------------------------------------------------------------
(* The settings that name another registry: the package managers of which. *)

PipKeys == {"PIP_INDEX_URL", "PIP_EXTRA_INDEX_URL", "PIP_PROXY", "PIP_FIND_LINKS",
            "PIP_REQUIREMENT", "PIP_CONSTRAINT", "PIP_NO_INDEX"}
YarnKeys == {"NPM_CONFIG_REGISTRY", "YARN_NPM_AUTH_TOKEN", "YARN_NPM_CONFIG_REGISTRY",
             "YARN_NPM_REGISTRY_SERVER", "YARN_NPM_AUTH_IDENT", "YARN_RC_FILENAME",
             "YARN_REGISTRY"}

(* "public" is a list of proxies that begins with proxy.golang.org.        *)
AssignedSource(tok) ==
    CASE tok.w \in PipKeys /\ tok.val # "" -> {"pip"}
      [] tok.w \in {"GOPRIVATE", "GONOPROXY"} /\ tok.val # "" -> {"go"}
      [] tok.w = "GOPROXY" /\ tok.val \notin {"", "public"} -> {"go"}
      [] tok.w \in YarnKeys /\ tok.val # "" -> {"yarn"}
      [] OTHER -> {}

(* exportedSourceOverrideContext: of the exports only yarn's are kept.     *)
ExportedSource(tokens) ==
    LET words == StripRedirections(tokens).tokens
        names(tok) == tok.w \in YarnKeys /\ (tok.kind = "assign" => tok.val # "")
    IN IF /\ words # <<>> /\ IsWord(Head(words), {"export"})
          /\ \E i \in 2..Len(words) : ~IsFlag(words[i]) /\ names(words[i])
       THEN {"yarn"} ELSE {}

(* yarn config set <registry> <url>                                        *)
SetsRegistry(tokens) ==
    LET k == AfterFlags(tokens, 2, {"--cwd", "--mutex", "--use-yarnrc"}) IN
    /\ IsWord(Head(tokens), {"yarn"}) /\ Len(tokens) >= 5 /\ k + 3 <= Len(tokens)
    /\ IsWord(tokens[k], {"config"}) /\ IsWord(tokens[k + 1], {"set"})
    /\ IsWord(tokens[k + 2], {"registry", "npmRegistryServer"}) /\ tokens[k + 3].w # ""

-----------------------------------------------------------------------------
(* unwrapPrefixes *)

Discard(r, k) ==
    [r EXCEPT !.discarded = @ \o SubSeq(r.tokens, 1, Min({k - 1, Len(r.tokens)})),
              !.tokens = From(@, k)]
DiscardFlags(r, values) == Discard(r, AfterFlags(r.tokens, 2, values))
Assign(r) == [Discard(r, 2) EXCEPT !.source = @ \cup AssignedSource(Head(r.tokens))]

(* The flags and assignments of env.  -S splits its value into more.       *)
IsEnvArgument(tok) == IsFlag(tok) \/ tok.kind = "assign"
EnvArgument(r) ==
    LET tok == Head(r.tokens) IN
    CASE tok.kind = "assign" -> Assign(r)
      [] Named(tok, EnvSplits) /\ Len(r.tokens) > 1 ->
            [Discard(r, 2) EXCEPT !.tokens = Retokenize(Head(@)) \o Tail(@)]
      [] Named(tok, EnvValues \ EnvSplits) -> Discard(r, 3)
      [] OTHER -> Discard(r, 2)

(* The index of a shell's -c, 0 if a script or nothing comes first.        *)
ShellC(tokens) ==
    LET n == Len(tokens)
        c[k \in 2..(n + 2)] ==
            CASE k > n -> 0
              [] k <= n /\ Named(tokens[k], ShellCs) -> k
              [] k <= n /\ Named(tokens[k], ShellValues) -> c[k + 2]
              [] k <= n /\ IsFlag(tokens[k]) /\ ~Named(tokens[k], ShellCs \cup ShellValues) ->
                    c[k + 1]
              [] OTHER -> 0
    IN c[2]

(* The tokens after the command string are the shell's own arguments.      *)
EntersShell(r) == ShellC(r.tokens) \notin {0, Len(r.tokens)}
EnterShell(r) ==
    LET k == ShellC(r.tokens) IN
    [r EXCEPT !.discarded = @ \o SubSeq(r.tokens, 1, k) \o From(r.tokens, k + 2),
              !.tokens = Retokenize(r.tokens[k + 1])]

EnterPython(r) ==
    LET k == PythonPip(r.tokens) IN
    [Discard(r, k) EXCEPT !.tokens = <<Word("pip")>> \o @]

(* command -v only tells where a command is.                               *)
Introspects(tokens) ==
    /\ IsWord(Head(tokens), {"command"}) /\ Len(tokens) > 1 /\ Named(tokens[2], {"-v", "-V"})

(* One prefix less, or r as it is where there is none.                     *)
Unwrap(r) ==
    LET is(words) == IsWord(Head(r.tokens), words) IN
    CASE is({"sudo"}) -> DiscardFlags(r, {"-u", "--user"})
      [] is({"env"}) -> [Discard(r, 2) EXCEPT !.env = TRUE]
      [] is(Shells) /\ EntersShell(r) -> EnterShell(r)
      [] is({"uv"}) /\ UVPip(r.tokens) # 0 -> Discard(r, UVPip(r.tokens))
      [] is(PythonBinaries) /\ PythonPip(r.tokens) # 0 -> EnterPython(r)
      [] Introspects(r.tokens) -> Discard(r, Len(r.tokens) + 1)
      [] is({"command", "time", "nice", "npx"}) /\ ~Introspects(r.tokens) ->
            DiscardFlags(r, {"-n", "--package", "-p"})
      [] Head(r.tokens).kind = "assign" -> Assign(r)
      [] OTHER -> r

UnwrapPrefix(r) ==
    CASE r.env /\ r.tokens # <<>> /\ IsEnvArgument(Head(r.tokens)) -> EnvArgument(r)
      [] r.env /\ (r.tokens # <<>> => ~IsEnvArgument(Head(r.tokens))) -> [r EXCEPT !.env = FALSE]
      [] ~r.env /\ r.tokens # <<>> -> Unwrap(r)
      [] ~r.env /\ r.tokens = <<>> -> r

(* yarnRegistryConfigMutation *)
RegistrySet(segments) ==
    \E i \in DOMAIN segments : \E k \in DOMAIN segments[i] : SetsRegistry(From(segments[i], k))

(* segmentSourceOverrideContext of a segment, which unwraps to "tokens".   *)
SegmentSource(segment, tokens) ==
    ExportedSource(segment)
        \cup (IF RegistrySet(Segments(PrepareTokens(tokens).tokens)) THEN {"yarn"} ELSE {})

-----------------------------------------------------------------------------

Suspicious(pm) == [pm |-> pm, packages |-> <<>>, unparsed |-> TRUE, nonLocal |-> TRUE]

(* suspiciousPackageManager: the first package manager the line names.     *)
SuspiciousPM(tokens) ==
    LET words(segment) == StripRedirections(segment).tokens
        named(segment) == SelectSeq(words(segment), LAMBDA tok : IsWord(tok, PMs))
        pms == FlattenSeq([i \in DOMAIN Segments(tokens) |-> named(Segments(tokens)[i])])
    IN IF pms = <<>> THEN "dynamic-shell" ELSE Head(pms).w

(* The command of uv, after its flags or after "--".                       *)
UVCommand(tokens, i, values) ==
    LET n == Len(tokens)
        command[k \in i..(n + 2)] ==
            CASE k > n -> n + 1
              [] k <= n /\ ~IsFlag(tokens[k]) -> k
              [] k <= n /\ Named(tokens[k], {"--"}) -> k + 1
              [] k <= n /\ Named(tokens[k], values) -> command[k + 2]
              [] OTHER -> command[k + 1]
    IN command[i]

UVRunValues == {"--with", "--with-editable", "--with-requirements", "--python", "-p", "--project",
                "--directory", "--config-file", "--cache-dir", "--env-file"}

(* uvRunLooksLikePackageManagerInstall *)
UVRunLooks(tokens, i) ==
    LET run == From(tokens, UVCommand(tokens, i, UVRunValues)) IN
    LooksTokens(run, 0, PMs) \/ LooksTokens(run, 0, YarnPMs)

UVManualReview(tokens) ==
    LET k == UVCommand(tokens, 2, UVValues) IN
    /\ IsWord(Head(tokens), {"uv"}) /\ k <= Len(tokens)
    /\ \/ IsWord(tokens[k], {"add", "sync"})
       \/ IsWord(tokens[k], {"run"}) /\ UVRunLooks(tokens, k + 1)

ApplySourceOverride(cmd, inherited) ==
    IF (IF cmd.pm = "pip3" THEN "pip" ELSE cmd.pm) \in inherited
    THEN [cmd EXCEPT !.packages = <<>>, !.unparsed = TRUE, !.nonLocal = TRUE]
    ELSE cmd

Marked(cmd, inherited, info) ==
    IF cmd = NoCommand THEN NoCommand
    ELSE ApplyShellInfo(ApplySourceOverride(cmd, inherited), info)

Found(cmd) == IF cmd = NoCommand THEN <<>> ELSE <<cmd>>

(* A command that no parser knows, but that looks like an installation.    *)
Suspected(tokens, depth) ==
    CASE StripRedirections(tokens).tokens = <<>> -> <<>>
      [] /\ StripRedirections(tokens).tokens # <<>>
         /\ HasAnySubs(tokens) /\ LooksTokens(tokens, depth, PMs) ->
            << Suspicious(SuspiciousPM(tokens)) >>
      [] OTHER -> IF LooksTokens(tokens, depth, YarnPMs) THEN << Suspicious("yarn") >> ELSE <<>>

SuspectedLine(tokens, depth) ==
    IF Looks(tokens, depth, PMs) THEN << Suspicious(SuspiciousPM(tokens)) >> ELSE <<>>

-----------------------------------------------------------------------------
(* The calls.  "depth" counts the substitutions around the command.        *)

SegmentLoop(segments, inherited, depth) ==
    [at |-> "segments", todo |-> segments, inherited |-> inherited, depth |-> depth]

(* A segment is unwrapped to be parsed (parseSegmentAllWithContext), and    *)
(* once more for the sources that it sets, after which the loop goes on.   *)
Unwrapping(at, segment, tokens, loop) ==
    [at |-> at, segment |-> segment, loop |-> loop, tokens |-> tokens, env |-> FALSE,
     source |-> {}, discarded |-> <<>>]

Substitutions(tokens, depth) ==
    [at |-> "substitutions", depth |-> depth,
     todo |-> IF depth >= MaxCommandSubstitutionDepth THEN <<>>
              ELSE FlattenSeq([i \in DOMAIN tokens |-> tokens[i].subs])]

TokensCall(at, tokens, inherited, depth) ==
    [at |-> at, tokens |-> tokens, inherited |-> inherited, depth |-> depth]

(* A package manager's loop has taken k of its arguments.                  *)
Arguments(info, inherited) ==
    [at |-> "arguments", pm |-> Head(info.tokens).w, args |-> Tail(info.tokens), k |-> 0,
     state |-> Begin, inherited |-> inherited, info |-> info]

(* What was looked at is suspected if nothing is found after "from".       *)
Doubt(tokens, depth, from, isLine) ==
    [at |-> "doubt", tokens |-> tokens, depth |-> depth, from |-> from, isLine |-> isLine]

-----------------------------------------------------------------------------

NoLine == [tokens |-> <<>>, installs |-> {}]

InitParse == commandLine = NoLine /\ calls = <<>> /\ results = <<>>

(* ParseAll is called once in a run of the program.                        *)
ReadLine(l) ==
    /\ commandLine = NoLine
    /\ commandLine' = l
    /\ calls' = << SegmentLoop(Segments(l.tokens), {}, 0) >>
    /\ UNCHANGED results

At(places) == calls # <<>> /\ Head(calls).at \in places
Call == Head(calls)
Continue(inner) == calls' = inner \o Tail(calls)
Return(found) == Continue(<<>>) /\ results' = results \o found

(* The loop of ParseAll, and that of parseUnwrappedTokensAll.              *)
NextSegment ==
    /\ At({"segments"}) /\ Call.todo # <<>>
    /\ LET segment == Head(Call.todo)
           loop == [Call EXCEPT !.todo = Tail(@)]
       IN Continue(<< Unwrapping("segment", segment, segment, loop),
                      Unwrapping("source", segment, StripRedirections(segment).tokens, loop) >>)
    /\ UNCHANGED <<commandLine, results>>

(* parseCommandSubstitutionsAll: the line of a substitution starts afresh. *)
NextSubstitution ==
    /\ At({"substitutions"}) /\ Call.todo # <<>>
    /\ LET l == Head(Call.todo) IN
       Continue(<< SegmentLoop(Segments(l), {}, Call.depth + 1),
                   Doubt(l, Call.depth + 1, Len(results), TRUE),
                   [Call EXCEPT !.todo = Tail(@)] >>)
    /\ UNCHANGED <<commandLine, results>>

EndLoop == At({"segments", "substitutions"}) /\ Call.todo = <<>> /\ Return(<<>>)
           /\ UNCHANGED commandLine

StripPrefix ==
    /\ At({"segment", "source"}) /\ UnwrapPrefix(Call) # Call
    /\ Continue(<< UnwrapPrefix(Call) >>)
    /\ UNCHANGED <<commandLine, results>>

ParseSegment ==
    /\ At({"segment"}) /\ UnwrapPrefix(Call) = Call
    /\ LET depth == Call.loop.depth  inherited == Call.loop.inherited \cup Call.source
           run == TokensCall("tokens", Call.tokens, inherited, depth)
       IN Continue(<< Substitutions(Call.discarded, depth) >>
                      \o (IF Call.tokens = <<>> THEN <<>> ELSE <<run>>))
    /\ UNCHANGED <<commandLine, results>>

InheritSource ==
    /\ At({"source"}) /\ UnwrapPrefix(Call) = Call
    /\ Continue(<< [Call.loop EXCEPT !.inherited = @ \cup SegmentSource(Call.segment, Call.tokens)] >>)
    /\ UNCHANGED <<commandLine, results>>

(* parseUnwrappedTokensAll: several commands, or one.                      *)
ParseTokens ==
    /\ At({"tokens"})
    /\ LET segments == Segments(Call.tokens) IN
       Continue(IF Len(segments) > 1
                THEN << SegmentLoop(segments, Call.inherited, Call.depth) >>
                ELSE << Substitutions(Call.tokens, Call.depth), [Call EXCEPT !.at = "command"],
                        Doubt(Call.tokens, Call.depth, Len(results), FALSE) >>)
    /\ UNCHANGED <<commandLine, results>>

(* The parser for the command's first word.                                *)
ParseCommand ==
    LET info == PrepareTokens(Call.tokens)
        named(words) == info.tokens # <<>> /\ Head(info.tokens).w \in words
        review == info.tokens # <<>> /\ UVManualReview(info.tokens)
    IN /\ At({"command"})
       /\ \/ named(Managers) /\ Continue(<< Arguments(info, Call.inherited) >>)
             /\ UNCHANGED results
          \/ ~named(Managers) /\ review
             /\ Return(Found(Marked(Suspicious("uv"), Call.inherited, info)))
          \/ ~named(Managers) /\ ~review /\ Return(<<>>)
       /\ UNCHANGED commandLine

ReadArgument ==
    /\ At({"arguments"}) /\ Call.k < Len(Call.args)
    /\ Continue(<< [Call EXCEPT !.k = @ + 1,
                                !.state = Argument(Call.pm, @, Call.args[Call.k + 1])] >>)
    /\ UNCHANGED <<commandLine, results>>

(* The command that a loop would return if it ended now.                   *)
CommandOf(call) == Marked(Outcome(call.pm, call.state), call.inherited, call.info)

EndCommand ==
    /\ At({"arguments"}) /\ Call.k >= Len(Call.args)
    /\ Return(Found(CommandOf(Call)))
    /\ UNCHANGED commandLine

Suspect ==
    /\ At({"doubt"})
    /\ Return(CASE Len(results) > Call.from -> <<>>
                [] Len(results) <= Call.from /\ Call.isLine -> SuspectedLine(Call.tokens, Call.depth)
                [] Len(results) <= Call.from /\ ~Call.isLine -> Suspected(Call.tokens, Call.depth))
    /\ UNCHANGED commandLine

ParseNext ==
    \/ \E l \in CommandLines : ReadLine(l)
    \/ NextSegment \/ NextSubstitution \/ EndLoop
    \/ StripPrefix \/ ParseSegment \/ InheritSource
    \/ ParseTokens \/ ParseCommand \/ ReadArgument \/ EndCommand \/ Suspect

ParseSpec == InitParse /\ [][ParseNext]_parsing

-----------------------------------------------------------------------------

Parsed == commandLine # NoLine /\ calls = <<>>

(* evaluate.go asks the heuristics about lines without any result.         *)
Refused == results = <<>> /\ Looks(commandLine.tokens, 0, PMs)

ListsPackage(cmd, x) ==
    cmd.pm = x.pm /\ \E k \in DOMAIN cmd.packages : cmd.packages[k].name = x.name

(* An installation that is left to Refused, while another one of the line  *)
(* was found: evaluate.go asks the heuristics about a line without any     *)
(* result only, and suspiciousYarnInstall alone about every command.       *)
Overlooked(x) ==
    /\ x.via = "wrapper" /\ x.pm # "yarn"
    /\ \E y \in commandLine.installs : y.via = "known"

(* Every installation that the shell would carry out, within the wrappers, *)
(* shells and substitutions that the parser knows and after whatever       *)
(* flags, is listed in the command found for it, or the line cannot pass   *)
(* unseen: a command is marked as not read in full, or the line looks like *)
(* an installation and is refused.  Behind a wrapper that the parser does  *)
(* not know this holds unless the line has an installation it does know    *)
(* (Overlooked), and nothing is said of what a filter such as xargs runs.  *)
(* What is installed by something else than the command's words marks a    *)
(* command, which is then not rewritten.                                   *)
InstallsAreNoticed ==
    Parsed /\ ~Refused => \A x \in commandLine.installs : x.via # "filter" /\ ~Overlooked(x) =>
        /\ \E i \in DOMAIN results :
              \/ ListsPackage(results[i], x) \/ results[i].nonLocal
              \/ results[i].unparsed /\ ~x.public
        /\ ~x.read => \E i \in DOMAIN results : results[i].unparsed

(* The parsers that look where packages come from; those of npm and pnpm   *)
(* list a package whatever its source (parser_test.go expects it of npm    *)
(* --registry).                                                            *)
MindsSources(pm) == pm \notin {"npm", "pnpm"}

(* A package of yarn, pip, go or cargo that comes from somewhere else than *)
(* the public registry is never listed, since the score of its namesake    *)
(* there would be asked for, wherever the other source was named: before,  *)
(* after or around the command, or in an earlier segment of the line.      *)
ForeignIsNotJudged ==
    Parsed => \A x \in commandLine.installs : ~x.public /\ MindsSources(x.pm) =>
        \A i \in DOMAIN results : ~ListsPackage(results[i], x)

(* A listed package counts as pinned if the shell is asked for one exact   *)
(* version, wherever that version is written, and does not for any version *)
(* or a range of them, unless the command is marked: a pinned one is asked *)
(* about as it is, and only for another is a version selected.  A tag that *)
(* the package manager resolves counts as pinned too for npm, pnpm, pip    *)
(* and cargo (with a range given to cargo's --version), though it is no    *)
(* exact version: the provider is then asked about the tag as written.     *)
PinnedAsAsked ==
    Parsed => \A i \in DOMAIN results : \A k \in DOMAIN results[i].packages :
        LET pkg == results[i].packages[k] IN
        \A x \in commandLine.installs : ListsPackage(results[i], x) /\ x.name = pkg.name =>
            \/ results[i].nonLocal
            \/ pkg.pinned = \/ x.asks = "exact"
                            \/ x.asks = "tag" /\ x.pm \notin {"yarn", "go"}

-----------------------------------------------------------------------------

Verbs(pm) ==
    CASE pm \in {"npm", "pnpm"} -> NodeVerbs
      [] pm = "yarn" -> {"add"}
      [] pm \in {"pip", "pip3"} -> {"install"}
      [] pm = "go" -> {"get", "install"}
      [] pm = "cargo" -> CargoVerbs

(* The flags whose value, if it is not blank, is another source than the   *)
(* public registry, and those that name one without a value.               *)
SourceFlags(pm) ==
    CASE pm \in {"npm", "pnpm"} -> {"--registry"}
      [] pm = "yarn" -> YarnSources
      [] pm \in {"pip", "pip3"} -> PipSources \cup PipLinks
      [] pm = "go" -> {}
      [] pm = "cargo" -> {"--git", "--registry", "--path"}
SourceBooleans(pm) == IF pm \in {"pip", "pip3"} THEN {"--no-index"} ELSE {}

(* The flags that take the next token as their value, before the verb and  *)
(* after it.                                                               *)
GlobalValues(pm) ==
    CASE pm = "npm" -> NpmGlobals
      [] pm = "pnpm" -> PnpmGlobals
      [] pm = "yarn" -> YarnValues \cup YarnSources
      [] pm \in {"pip", "pip3"} -> PipValues
      [] pm = "go" -> {"-C"}
      [] pm = "cargo" -> CargoGlobals
ArgumentValues(pm) ==
    CASE pm = "npm" -> NpmValues
      [] pm = "pnpm" -> PnpmValues
      [] pm = "yarn" -> YarnValues \cup YarnSources
      [] pm \in {"pip", "pip3"} -> PipValues
      [] pm = "go" -> {}
      [] pm = "cargo" -> CargoValues

(* A flag before the verb that is not known may have a value.              *)
IsUnknown(pm, tok) ==
    /\ tok.kind = "long" /\ tok.val = NoVal
    /\ CASE pm = "yarn" -> tok.w \notin YarnBooleans \cup YarnCaches
         [] pm \in {"pip", "pip3"} -> tok.w \notin PipBooleans \cup PipNonLocalBooleans
         [] pm = "cargo" -> tok.w \notin CargoBooleans
         [] OTHER -> FALSE

(* The token at i may be the value of the flag before it, where the verb   *)
(* is still to come and where it was read.                                 *)
MayBeGlobal(pm, args, i) ==
    /\ i > 1
    /\ Named(args[i - 1], GlobalValues(pm)) \/ IsUnknown(pm, args[i - 1])
MayBeValue(pm, args, i) == i > 1 /\ Named(args[i - 1], ArgumentValues(pm))

NamesSource(pm, args, i) ==
    /\ \/ Named(args[i], SourceFlags(pm)) /\ args[i + 1].w # ""
       \/ Assigned(args[i], SourceFlags(pm)) /\ args[i].val # ""
       \/ Named(args[i], SourceBooleans(pm)) \/ Assigned(args[i], SourceBooleans(pm))
    /\ ~MayBeValue(pm, args, i)

(* The verb is at v, after nothing but flags and their values.             *)
VerbAt(pm, args, v) ==
    /\ ~IsFlag(args[v]) /\ args[v].w \in Verbs(pm)
    /\ \A i \in 1..(v - 1) : IsFlag(args[i]) \/ MayBeGlobal(pm, args, i)

(* No word after the verb passes unseen, but the values of flags.          *)
WordsAreNoticed(cmd, pm, args, v, k) ==
    cmd.unparsed \/ \A i \in (v + 1)..k :
        \/ IsFlag(args[i]) \/ MayBeValue(pm, args, i)
        \/ \E m \in DOMAIN cmd.packages : cmd.packages[m].name = args[i].w

(* What is listed is a word after the verb, for yarn, pip and go one that  *)
(* asks the registry, and pinned as written there or by cargo's --version. *)
IsArgument(pkg, pm, args, v, k) ==
    \E i \in (v + 1)..k :
        /\ ~IsFlag(args[i]) /\ pkg.name = args[i].w
        /\ pm \in {"yarn", "pip", "pip3"} => args[i].cls \notin {"local", "remote"}
        /\ pm = "go" => args[i].cls # "local"
        /\ args[i].cls = "exact" => pkg.pinned
        /\ pkg.pinned => \/ args[i].cls = "exact"
                         \/ args[i].cls = "tag" /\ pm \notin {"yarn", "go"}
                         \/ /\ pm = "cargo"
                            /\ \E j \in (v + 1)..k : IsFlag(args[j]) /\ args[j].w = "--version"

(* A source that was named leaves nothing to be judged, but of npm and     *)
(* pnpm; the flag at k still waits for its value.                          *)
SourcesListNothing(cmd, pm, args, v, k) ==
    cmd.packages # <<>> /\ MindsSources(pm) =>
        \A i \in (v + 1)..(k - 1) : ~NamesSource(pm, args, i)

(* If the verb comes first, nothing but flags and their values follow it.  *)
VerbFirst(pm, args, k) == k >= 1 /\ ~IsFlag(args[1]) /\ args[1].w \in Verbs(pm)
AsksForNothing(pm, args, k) ==
    VerbFirst(pm, args, k) => \A i \in 2..k : IsFlag(args[i]) \/ MayBeValue(pm, args, i)

Accounted(call) ==
    LET cmd == CommandOf(call)  pm == call.pm  args == call.args  k == call.k IN
    \/ cmd = NoCommand /\ AsksForNothing(pm, args, k)
    \/ cmd.unparsed /\ cmd.packages = <<>>
    \/ /\ ~call.info.substituted
       /\ (IF pm = "pip3" THEN "pip" ELSE pm) \notin call.inherited
       /\ \E v \in 1..k :
             /\ VerbAt(pm, args, v)
             /\ WordsAreNoticed(cmd, pm, args, v, k)
             /\ \A m \in DOMAIN cmd.packages : IsArgument(cmd.packages[m], pm, args, v, k)
             /\ SourcesListNothing(cmd, pm, args, v, k)

(* Whatever the arguments of a package manager are, and however many of    *)
(* them its loop has taken: the command it returns is one that the         *)
(* evaluator can take (AreCommands), no word after the verb passes unseen  *)
(* but the values of the flags that take one, nothing is listed but words  *)
(* after the verb (of yarn, pip and go none that names another source than *)
(* the registry), and of yarn, pip, go and cargo nothing at all where a    *)
(* flag after the verb named another source.  npm's and pnpm's parsers     *)
(* list every word.  And a loop does return a command if the verb comes    *)
(* first and a word follows that is no flag's value.                       *)
ArgumentsAreAccounted ==
    /\ AreCommands(results)
    /\ \A i \in DOMAIN calls : calls[i].at = "arguments" => Accounted(calls[i])

-----------------------------------------------------------------------------

(* What a line only mentions, as the text that a command prints, as the    *)
(* arguments of a script that bash is given or by "command -v", is no      *)
(* installation, and the line is allowed.  (A script that is run by its    *)
(* name with such arguments is taken for an unknown wrapper and refused.)  *)
MentionsAreNoInstalls ==
    Parsed /\ commandLine.installs = {} => results = <<>> /\ ~Refused

(* npm.go says of npm install without a package, which installs what       *)
(* package.json lists, that it is not guarded: such a line is allowed.     *)
BareInstallsPass ==
    /\ Parsed /\ commandLine.installs = {}
    /\ Len(commandLine.tokens) = 2 /\ IsWord(commandLine.tokens[1], {"npm", "pnpm"})
    => results = <<>> /\ ~Refused
=============================================================================
