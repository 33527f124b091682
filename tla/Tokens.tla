------------------------------- MODULE Tokens -------------------------------
(***************************************************************************)
(* The tokens that internal/parser works on, as far as the code tells them *)
(* apart.  A token is a record                                             *)
(*                                                                         *)
(*   kind  "word", "short" or "long" (flags), "assign" (NAME=value), "op"  *)
(*         (a shell operator), "redirect" (a redirection operator)         *)
(*   w     the word, the flag's name, the variable's name                  *)
(*   val   what follows "=", NoVal where there is none, "" if it is blank  *)
(*   cls   of a package specification: "plain", "exact" (one version),     *)
(*         "range" (versions by an operator, or what no parser reads),     *)
(*         "tag" (a version without an operator that the package manager   *)
(*         itself resolves: foo@next or foo@1.x of npm, foo==1.* of pip,   *)
(*         foo@=1 of cargo, foo@v1 of go), "local" (a path or a file),     *)
(*         "remote" (a URL or another source than the registry)            *)
(*   text  the tokens that the word splits into when it is read as a       *)
(*         command line again, <<>> for the word itself                    *)
(*   subs  the command lines of its active command substitutions           *)
(*                                                                         *)
(* Words stand for their base names.                                       *)
(***************************************************************************)
EXTENDS Naturals, SequencesExt

NoVal == "none"

Token(kind, w) ==
    [kind |-> kind, w |-> w, val |-> NoVal, cls |-> "plain", text |-> <<>>, subs |-> <<>>]
Word(w) == Token("word", w)

IsFlag(tok) == tok.kind \in {"short", "long"}
HasSubs(tok) == tok.subs # <<>>
HasAnySubs(tokens) == \E i \in DOMAIN tokens : HasSubs(tokens[i])

Retokenize(tok) == IF tok.text = <<>> THEN <<tok>> ELSE tok.text

From(tokens, i) == SubSeq(tokens, i, Len(tokens))

(* A flag without a value attached, and SplitLongFlagAssignment. *)
Named(tok, flags) == IsFlag(tok) /\ tok.val = NoVal /\ tok.w \in flags
Assigned(tok, flags) == tok.kind = "long" /\ tok.val # NoVal /\ tok.w \in flags

(* The index after the flags that start at i, those of values with the     *)
(* token that follows them.                                                *)
AfterFlags(tokens, i, values) ==
    LET after[k \in i..(Len(tokens) + 2)] ==
            IF k > Len(tokens) THEN Len(tokens) + 1
            ELSE IF ~IsFlag(tokens[k]) THEN k
            ELSE IF Named(tokens[k], values) THEN after[k + 2]
            ELSE after[k + 1]
    IN after[i]

(* commandSegmentsWithOperators: the runs of tokens between operators.     *)
Segments(tokens) ==
    LET add(runs, tok) ==
            IF tok.kind = "op" THEN Append(runs, <<>>)
            ELSE Append(Front(runs), Append(Last(runs), tok))
    IN SelectSeq(FoldLeft(add, << <<>> >>, tokens), LAMBDA run : run # <<>>)

-----------------------------------------------------------------------------
(* shell_syntax.go *)

(* A redirection takes the token after it along. *)
StripRedirections(tokens) ==
    LET strip(s, tok) ==
            IF s.target THEN [s EXCEPT !.target = FALSE]
            ELSE IF tok.kind = "redirect" THEN [s EXCEPT !.target = TRUE, !.redirected = TRUE]
            ELSE [s EXCEPT !.tokens = Append(@, tok)]
    IN FoldLeft(strip, [tokens |-> <<>>, target |-> FALSE, redirected |-> FALSE], tokens)

(* What a substitution yields is not known: the token becomes a placeholder,*)
(* a flag with the substitution in its value keeps its name.               *)
DynamicShellToken(tok) ==
    IF IsFlag(tok) /\ tok.val # NoVal THEN [tok EXCEPT !.subs = <<>>, !.val = "dynamic"]
    ELSE Word("dynamic")

PrepareTokens(tokens) ==
    LET stripped == StripRedirections(tokens) IN
    [tokens |-> [i \in DOMAIN stripped.tokens |->
                    IF HasSubs(stripped.tokens[i]) THEN DynamicShellToken(stripped.tokens[i])
                    ELSE stripped.tokens[i]],
     redirected |-> stripped.redirected,
     substituted |-> HasAnySubs(stripped.tokens)]

(* applyShellTokenInfo *)
ApplyShellInfo(cmd, info) ==
    IF info.substituted
    THEN [cmd EXCEPT !.packages = <<>>, !.unparsed = TRUE, !.nonLocal = TRUE]
    ELSE IF info.redirected THEN [cmd EXCEPT !.unparsed = TRUE]
    ELSE cmd
=============================================================================
