------------------------------ MODULE Heuristic ------------------------------
(***************************************************************************)
(* The heuristics of internal/parser/parser.go: whether a line that the    *)
(* parsers do not understand looks like an installation.  "depth" counts   *)
(* the command lines within command lines.                                 *)
(***************************************************************************)
EXTENDS Prefixes

InstallVerbs == {"install", "i", "add", "get"}
NonWrappers == {"echo", "printf", "cat", "grep", "awk", "sed", "head", "tail", "tee", "wc",
                "sort", "cut", "tr", "xargs", "find", "less", "more", "vi", "vim", "nano",
                "ruby", "perl", "node"}
IsVerb(tok) == IsWord(tok, InstallVerbs)

-----------------------------------------------------------------------------

(* Whether the flag at j takes the token after it along.                   *)
MaySkip(args, j) == j < Len(args) /\ ~IsFlag(args[j + 1]) /\ ~IsVerb(args[j + 1])

(* A verb after nothing but flags; "assigned" flags take a value too.      *)
VerbFollows(args, assigned) ==
    LET found[j \in 1..(Len(args) + 2)] ==
            /\ j <= Len(args)
            /\ \/ IsVerb(args[j]) \/ HasSubs(args[j])
               \/ /\ IsFlag(args[j])
                  /\ found[IF MaySkip(args, j) /\ (assigned \/ args[j].val = NoVal)
                           THEN j + 2 ELSE j + 1]
    IN found[1]

(* looksLikeYarnInstallArgs, the subcommands that add included.            *)
YarnLooks(args) ==
    LET found[j \in 1..(Len(args) + 2)] ==
            /\ j <= Len(args)
            /\ \/ IsVerb(args[j]) \/ HasSubs(args[j])
               \/ /\ IsFlag(args[j])
                  /\ found[IF MaySkip(args, j) /\ args[j].val = NoVal THEN j + 2 ELSE j + 1]
               \/ IsWord(args[j], {"global"}) /\ VerbFollows(From(args, j + 1), FALSE)
               \/ /\ IsWord(args[j], {"workspace"}) /\ j < Len(args)
                  /\ HasSubs(args[j + 1]) \/ VerbFollows(From(args, j + 2), FALSE)
    IN found[1]

(* What follows a substitution in the place of the command.                *)
DynamicLooks(rest) ==
    LET found[j \in 1..(Len(rest) + 2)] ==
            /\ j <= Len(rest) /\ rest[j].kind # "op"
            /\ \/ ~IsFlag(rest[j])
               \/ found[IF MaySkip(rest, j) /\ rest[j + 1].kind # "op" THEN j + 2 ELSE j + 1]
    IN rest = <<>> \/ found[1]

-----------------------------------------------------------------------------
RECURSIVE LooksLike(_, _, _), LooksLikeTokens(_, _, _)

StopsAtDepth(tokens, depth, pms) ==
    /\ depth < MaxCommandSubstitutionDepth
    /\ \E i \in DOMAIN tokens : \E k \in DOMAIN tokens[i].subs :
          LooksLike(tokens[i].subs[k], depth + 1, pms)

SubstitutionsLook(tokens, depth, pms) ==
    IF depth >= MaxCommandSubstitutionDepth THEN HasAnySubs(tokens)
    ELSE \E i \in DOMAIN tokens : \E k \in DOMAIN tokens[i].subs :
            LooksLike(tokens[i].subs[k], depth + 1, pms)

LooksLike(line, depth, pms) ==
    \E i \in DOMAIN Segments(line) :
        \/ SubstitutionsLook(Segments(line)[i], depth, pms)
        \/ LooksLikeTokens(StripRedirections(Segments(line)[i]).tokens, depth, pms)

ScriptsLook(tokens, depth, pms) ==
    LET k == AfterFlags(tokens, 2, ShellValues) IN
    /\ k <= Len(tokens)
    /\ \/ LooksLike(Retokenize(tokens[k]), depth + 1, pms)
       \/ LooksLikeTokens(From(tokens, k), depth, pms)

(* A shell reads its flags, then the command line if one of them is -c.    *)
ShellLooks(tokens, depth, pms) ==
    LET k == AfterFlags(tokens, 2, ShellValues) IN
    /\ \E i \in 2..(k - 1) : Named(tokens[i], ShellCs)
    /\ k <= Len(tokens)
    /\ LooksLike(Retokenize(tokens[k]), depth + 1, pms)

RECURSIVE EnvLooks(_, _, _)
EnvLooks(tokens, depth, pms) ==
    CASE tokens = <<>> -> FALSE
      [] tokens # <<>> /\ Named(Head(tokens), EnvSplits) ->
            /\ Len(tokens) > 1
            /\ LooksLikeTokens(StripRedirections(Retokenize(tokens[2]) \o From(tokens, 3)).tokens,
                               depth, pms)
      [] tokens # <<>> /\ IsFlag(Head(tokens)) /\ ~Named(Head(tokens), EnvSplits) ->
            EnvLooks(From(tokens, IF Named(Head(tokens), EnvValues) THEN 3 ELSE 2), depth, pms)
      [] tokens # <<>> /\ Head(tokens).kind = "assign" -> EnvLooks(Tail(tokens), depth, pms)
      [] OTHER -> LooksLikeTokens(tokens, depth, pms)

(* A command that is not known may be one more wrapper.                    *)
CommandLooks(tokens, depth, pms) ==
    LET rest == Tail(tokens)
        is(words) == IsWord(Head(tokens), words)
    IN CASE is(pms) -> IF is(YarnPMs) THEN YarnLooks(rest) ELSE VerbFollows(rest, TRUE)
         [] is(Shells) -> ShellLooks(tokens, depth, pms)
         [] is({"env"}) -> EnvLooks(rest, depth, pms)
         [] is({"uv"}) ->
               UVPip(tokens) # 0 /\ LooksLikeTokens(From(tokens, UVPip(tokens)), depth, pms)
         [] is(PythonBinaries) ->
               /\ PythonPip(tokens) # 0
               /\ LooksLikeTokens(<<Word("pip")>> \o From(tokens, PythonPip(tokens)), depth, pms)
         [] is(NonWrappers \cup {"attach-guard"}) -> FALSE
         [] is({"command"}) /\ rest # <<>> /\ Named(rest[1], {"-v", "-V"}) -> FALSE
         [] Head(tokens).kind = "assign" -> LooksLikeTokens(rest, depth, pms)
         [] OTHER -> LooksLikeTokens(From(tokens, AfterFlags(tokens, 2, {})), depth, pms)

LooksLikeTokens(tokens, depth, pms) ==
    /\ tokens # <<>>
    /\ \/ HasSubs(Head(tokens)) /\ DynamicLooks(Tail(tokens))
       \/ CommandLooks(tokens, depth, pms)
=============================================================================
