------------------------------- MODULE Prefixes -------------------------------
(***************************************************************************)
(* The words that internal/parser/parser.go knows beside the package       *)
(* managers' arguments: the commands that only run another command, and    *)
(* their flags.  unwrapPrefixes and the heuristics look for the same ones. *)
(***************************************************************************)
EXTENDS Tokens

MaxCommandSubstitutionDepth == 4

PMs == {"npm", "pnpm", "pip", "pip3", "go", "cargo"}
YarnPMs == {"yarn"}
Shells == {"bash", "sh", "zsh"}
PythonBinaries == {"python", "python3", "python3.12"}

ShellCs == {"-c", "-lc"}
ShellValues == {"-o", "-O", "--rcfile", "--init-file"}
EnvSplits == {"-S", "--split-string"}
EnvValues == {"-C", "--chdir", "-P", "--path", "-u", "--unset"} \cup EnvSplits
UVValues == {"-p", "--project", "--directory", "--python", "--config-file", "--cache-dir"}
PythonNoValues == {"-b", "-B", "-d", "-E", "-i", "-I", "-O", "-P", "-q", "-s", "-S", "-u",
                   "-v", "-x"}
HashPycsModes == {"default", "always", "never"}

IsWord(tok, words) == tok.kind = "word" /\ tok.w \in words

(* unwrapUVPipTokens: the index of "pip", 0 if uv does something else.     *)
UVPip(tokens) ==
    LET n == Len(tokens)
        pip[k \in 2..(n + 2)] ==
            CASE k > n -> 0
              [] k <= n /\ ~IsFlag(tokens[k]) -> IF IsWord(tokens[k], {"pip"}) THEN k ELSE 0
              [] k <= n /\ IsFlag(tokens[k]) ->
                    IF \/ Named(tokens[k], UVValues)
                       \/ /\ tokens[k].kind = "long" /\ tokens[k].val = NoVal
                          /\ k < n /\ ~IsFlag(tokens[k + 1]) /\ ~IsWord(tokens[k + 1], {"pip"})
                    THEN pip[k + 2] ELSE pip[k + 1]
    IN pip[2]

(* unwrapPythonModulePipTokens: the index after the module's name, if that *)
(* is "pip".                                                               *)
PythonPip(tokens) ==
    LET n == Len(tokens)
        module[k \in 2..(n + 2)] ==
            CASE k > n -> 0
              [] k <= n /\ Named(tokens[k], {"-m"}) ->
                    IF k < n /\ IsWord(tokens[k + 1], {"pip"}) THEN k + 2 ELSE 0
              [] k <= n /\ tokens[k].w = "-m" /\ tokens[k].val = "pip" -> k + 1
              [] k <= n /\ Named(tokens[k], {"-W", "-X"}) -> IF k < n THEN module[k + 2] ELSE 0
              [] k <= n /\ Named(tokens[k], {"--check-hash-based-pycs"}) ->
                    IF k < n /\ IsWord(tokens[k + 1], HashPycsModes) THEN module[k + 2] ELSE 0
              [] k <= n /\ Named(tokens[k], PythonNoValues) -> module[k + 1]
              [] OTHER -> 0
    IN IF n < 3 THEN 0 ELSE module[2]
=============================================================================
