---------------------------- MODULE MCCommandLine ----------------------------
(* The lines of a small instance, built up together with what the shell    *)
(* does with them: every package manager with up to three arguments of     *)
(* every kind after its verb and a flag before it; some of these commands  *)
(* within one or two wrappers, in chains with others, wrapped or not, and  *)
(* within up to six nested substitutions; and lines that only mention an   *)
(* installation.                                                           *)
EXTENDS CommandLine, Heuristic

Flag(w) == Token(IF w \in {"-m", "-c", "-lc", "-o", "-C", "-W", "-u", "-S", "-n", "-v", "-r",
                           "-q", "-D", "-i", "-f"} THEN "short" ELSE "long", w)
Valued(w, v) == [Flag(w) EXCEPT !.val = v]
Setting(w, v) == [Token("assign", w) EXCEPT !.val = v]
Spec0(w, cls) == [Word(w) EXCEPT !.cls = cls]
Text(tokens) == [Word("text") EXCEPT !.text = tokens]
Sub(tokens) == [Word("sub") EXCEPT !.subs = <<tokens>>]
And == Token("op", "&&")

(* A piece of a command: its tokens, the packages it names, whether it     *)
(* names another source for all of them, and the version it asks for them. *)
Piece(tokens) == [tokens |-> tokens, adds |-> {}, elsewhere |-> FALSE, asks |-> "any"]
Elsewhere(tokens) == [Piece(tokens) EXCEPT !.elsewhere = TRUE]
Pkg(name) == [name |-> name, asks |-> "any", public |-> TRUE, read |-> TRUE]
Names(tok, pkg) == [Piece(<<tok>>) EXCEPT !.adds = {pkg}]
Foo == Names(Word("foo"), Pkg("foo"))
Bar == Names(Spec0("bar", "exact"), [Pkg("bar") EXCEPT !.asks = "exact"])
Own == Names(Word("own"), Pkg("own"))
Range0 == Names(Spec0("baz", "range"), [Pkg("baz") EXCEPT !.asks = "range"])
Unread0 == Names(Spec0("baz", "range"), [Pkg("baz") EXCEPT !.asks = "range", !.read = FALSE])
Tag0 == Names(Spec0("qux", "tag"), [Pkg("qux") EXCEPT !.asks = "tag"])
UnreadTag == Names(Spec0("qux", "tag"), [Pkg("qux") EXCEPT !.asks = "tag", !.read = FALSE])
Version(v, asks) == [Piece(<<Flag("--version"), Word(v)>>) EXCEPT !.asks = asks]
Dir == Names(Spec0("dir", "local"), [Pkg("dir") EXCEPT !.public = FALSE, !.read = FALSE])
Git == Names(Spec0("git", "remote"), [Pkg("git") EXCEPT !.public = FALSE, !.read = FALSE])
File(flag) == [Piece(<<Flag(flag), Word("listed.txt")>>) EXCEPT
                  !.adds = {[Pkg("listed") EXCEPT !.read = FALSE]}]

(* npm and pnpm read these like any package. *)
Read(piece) == [piece EXCEPT !.adds = {[x EXCEPT !.read = TRUE] : x \in @}]
Node == {Foo, Bar, Range0, Tag0, Read(Dir), Read(Git), Piece(<<Flag("-D")>>),
         Piece(<<Flag("--tag"), Word("next")>>), Piece(<<Valued("--tag", "next")>>),
         Elsewhere(<<Flag("--registry"), Word("url")>>), Elsewhere(<<Valued("--registry", "url")>>)}
ArgumentPieces ==
    [npm |-> Node, pnpm |-> Node,
     yarn |-> {Foo, Bar, Range0, Tag0, Git, Piece(<<Flag("--tag"), Word("next")>>),
               Elsewhere(<<Flag("--registry"), Word("url")>>),
               Elsewhere(<<Valued("--registry", "url")>>), Piece(<<Flag("--offline")>>),
               Piece(<<Flag("-D")>>)},
     pip |-> {Foo, Bar, Unread0, Tag0, Dir, Git, File("-r"), Piece(<<Flag("--upgrade")>>),
              Elsewhere(<<Flag("-i"), Word("url")>>), Elsewhere(<<Valued("--index-url", "url")>>),
              Elsewhere(<<Flag("-f"), Word("url")>>)},
     pip3 |-> {Foo, Bar, Elsewhere(<<Valued("--find-links", "url")>>),
               Piece(<<Valued("--find-links", "")>>), Piece(<<Flag("-f"), Word("")>>),
               Elsewhere(<<Flag("--no-index")>>), Piece(<<Flag("--pre")>>)},
     go |-> {Foo, Bar, Unread0, UnreadTag, Dir, Piece(<<Flag("-u")>>)},
     cargo |-> {Foo, Bar, Unread0, Tag0, Piece(<<Flag("-q")>>), Elsewhere(<<Flag("--git"), Word("url")>>),
                Elsewhere(<<Flag("--path"), Word("dir")>>), Piece(<<Flag("--unknown")>>),
                Version("1.0.0", "exact"), Version("^1", "tag")}]
NodeGlobals == {Piece(<<>>), Piece(<<Flag("--silent")>>)}
Globals ==
    [npm |-> NodeGlobals \cup {Piece(<<Flag("--prefix"), Word("app")>>),
                               Elsewhere(<<Flag("--registry"), Word("url")>>)},
     pnpm |-> NodeGlobals \cup {Piece(<<Flag("--filter"), Word("app")>>)},
     yarn |-> NodeGlobals \cup {Elsewhere(<<Flag("--cwd"), Word("app")>>),
                                Piece(<<Word("workspace"), Word("app")>>), Piece(<<Word("global")>>),
                                Piece(<<Flag("--unknown"), Word("value")>>)},
     pip |-> {Piece(<<>>), Piece(<<Flag("-q")>>), Elsewhere(<<Flag("-i"), Word("url")>>),
              Elsewhere(<<Flag("-f"), Word("url")>>), Piece(<<Flag("--unknown"), Word("value")>>)},
     pip3 |-> {Piece(<<>>), Elsewhere(<<Flag("--no-index")>>)},
     go |-> {Piece(<<>>), Piece(<<Flag("-C"), Word("app")>>)},
     cargo |-> {Piece(<<>>), Piece(<<Flag("--color"), Word("always")>>),
                Piece(<<Flag("--unknown"), Word("value")>>),
                Piece(<<Flag("--features"), Word("value")>>)}]
Verb == [npm |-> "i", pnpm |-> "add", yarn |-> "add", pip |-> "install", pip3 |-> "install",
         go |-> "get", cargo |-> "add"]

(* A package's own version, or else the last one that a flag asks for.     *)
Asked(p, pieces) ==
    LET flags == SelectSeq(pieces, LAMBDA q : q.asks # "any")
    IN IF p.asks # "any" \/ flags = <<>> THEN p.asks ELSE Last(flags).asks

TheCommand(pm, global, pieces) ==
    LET ps == <<global>> \o pieces
        any(b(_)) == \E i \in DOMAIN ps : b(ps[i])
    IN [tokens |-> <<Word(pm)>> \o global.tokens \o <<Word(Verb[pm])>>
                       \o FlattenSeq([i \in DOMAIN pieces |-> pieces[i].tokens]),
        installs |-> { [pm |-> pm, name |-> p.name, asks |-> Asked(p, pieces), via |-> "known",
                        public |-> p.public /\ ~any(LAMBDA q : q.elsewhere),
                        read |-> p.read] :
                       p \in UNION {ps[i].adds : i \in DOMAIN ps} }]
Simple(pm, pieces) == TheCommand(pm, Piece(<<>>), pieces)

(* Up to three arguments after the verb, two where a flag comes before it, *)
(* and of pnpm, whose loop is npm's.                                       *)
Commands ==
    {l \in UNION { {Simple(pm, p) :
                        p \in BoundedSeq(ArgumentPieces[pm], IF pm = "pnpm" THEN 2 ELSE 3)}
                   \cup {TheCommand(pm, g, p) : g \in Globals[pm], p \in BoundedSeq(ArgumentPieces[pm], 2)} :
                   pm \in DOMAIN ArgumentPieces } : l.installs # {}}

-----------------------------------------------------------------------------
Cores == {Simple(pm, <<Foo, Bar>>) : pm \in DOMAIN ArgumentPieces \ {"pip3"}}
             \cup {Simple("pip", <<Elsewhere(<<Flag("-i"), Word("url")>>), Own>>),
                   Simple("yarn", <<Foo>>)}

After(tokens, l) == [l EXCEPT !.tokens = tokens \o @]
Run(l) == Text(l.tokens)
Moved(pm, l) ==
    [l EXCEPT !.installs = {[x EXCEPT !.public = @ /\ x.pm # pm] : x \in @}]
Hidden(l) == [l EXCEPT !.installs = {[x EXCEPT !.read = FALSE] : x \in @}]
Through(tokens, via, l) ==
    [After(tokens, l) EXCEPT !.installs = {[x EXCEPT !.via = via] : x \in @}]
Traced(l) == Through(<<Word("strace"), Flag("-q")>>, "wrapper", l)

(* In front of one command. *)
Fronts == { <<Word("sudo"), Flag("-u"), Word("root")>>, <<Word("env"), Setting("A", "1")>>,
            <<Word("env"), Flag("-u"), Word("A")>>, <<Word("nice"), Flag("-n"), Word("5")>>,
            <<Word("time")>>, <<Word("npx"), Flag("--yes")>>, <<Setting("A", "1")>> }
Settings == { [pm |-> "pip", set |-> Setting("PIP_INDEX_URL", "url")],
              [pm |-> "go", set |-> Setting("GOPROXY", "url")],
              [pm |-> "yarn", set |-> Setting("YARN_REGISTRY", "url")] }

IsOne(l) == \A i \in DOMAIN l.tokens : l.tokens[i].kind # "op"
IsBare(l) == IsOne(l) /\ \A i \in DOMAIN l.tokens : l.tokens[i].text = <<>>

(* The shell substitutes before it sets anything, and what is set in front *)
(* of a substitution is not known within it (parser.go starts afresh).     *)
MayMove(l) == \A i \in DOMAIN l.tokens : ~HasSubs(l.tokens[i])
Around(l) ==
    (IF IsOne(l)
     THEN {After(f, l) : f \in Fronts} \cup {Traced(l)}
          \cup {After(<<Setting("GOPROXY", "public")>>, l)}
          \cup {[l EXCEPT !.tokens = <<Word("env"), Flag("-S"), Run(l)>>]}
     ELSE {})
    \cup
    (IF IsOne(l) /\ MayMove(l)
     THEN {Moved(s.pm, After(<<s.set>>, l)) : s \in Settings}
          \cup {Moved(s.pm, After(<<Word("env"), s.set>>, l)) : s \in Settings}
     ELSE {})
    \cup
    (IF IsBare(l) /\ MayMove(l)
     THEN {Hidden([l EXCEPT !.tokens = @ \o <<Token("redirect", ">"), Word("log")>>])}
     ELSE {})
    \cup
    (IF MayMove(l)
     THEN {Moved("yarn", After(<<Word("export"), Setting("YARN_REGISTRY", "url"), And>>, l)),
           Moved("yarn", After(<<Word("yarn"), Flag("--cwd"), Word("app"), Word("config"),
                                 Word("set"), Word("registry"), Word("url"), And>>, l))}
     ELSE {})
    \cup {[l EXCEPT !.tokens = <<Word("bash"), Flag("-o"), Word("pipefail"), Flag("-lc"), Run(l)>>],
          [l EXCEPT !.tokens = <<Word("sh"), Flag("-c"), Run(l), Word("arg")>>],
          [l EXCEPT !.tokens = <<Word("echo"), Sub(l.tokens)>>],
          [l EXCEPT !.tokens = <<Word("sh"), Flag("-c"), Word("script"), Sub(l.tokens)>>],
          [l EXCEPT !.tokens = <<Word("cd"), Word("app"), And>> \o @ \o <<And, Word("ls")>>]}

PipForms(l) ==
    IF IsWord(Head(l.tokens), {"pip"})
    THEN {After(<<Word("uv"), Flag("--project"), Word("app")>>, l),
          After(<<Word("python"), Flag("-W"), Word("ignore"), Flag("-m")>>, l)}
    ELSE {}

Once == UNION {Around(l) \cup PipForms(l) : l \in Cores}
Twice == UNION {Around(l) : l \in Once}

RECURSIVE Nested(_, _)
Nested(l, n) == IF n = 0 THEN l ELSE [Nested(l, n - 1) EXCEPT !.tokens = <<Word("echo"), Sub(@)>>]

(* One command after the other, behind wrappers that the parser does not   *)
(* know or a filter too.                                                   *)
Then(l, m) == [tokens |-> l.tokens \o <<And>> \o m.tokens, installs |-> l.installs \cup m.installs]
Chained ==
    LET others == Cores \cup {Traced(l) : l \in Cores}
                      \cup {Through(<<Word("xargs")>>, "filter", l) : l \in Cores}
    IN {Then(l, m) : l \in Cores, m \in others} \cup {Then(l, m) : l \in others, m \in Cores}

(* A substitution gives more arguments, or the command itself.             *)
Dynamic ==
    {[l EXCEPT !.tokens = Append(@, Sub(<<Word("cat"), Word("listed.txt")>>)),
               !.installs = @ \cup {[pm |-> Head(l.tokens).w, name |-> "listed", asks |-> "any",
                                     public |-> TRUE, read |-> FALSE, via |-> "known"]}] : l \in Cores}
    \cup {Hidden([l EXCEPT !.tokens = <<Sub(<<Word("printf"), Head(@)>>)>> \o Tail(@)]) : l \in Cores}

UVLine(tokens) == [tokens |-> <<Word("uv"), Flag("--project"), Word("app")>> \o tokens,
                   installs |-> {[pm |-> "uv", name |-> "foo", asks |-> "any", public |-> TRUE,
                                  read |-> FALSE, via |-> "known"]}]
UV == {UVLine(<<Word("add"), Word("foo")>>)}
      \cup {UVLine(<<Word("run"), Flag("--with"), Word("x"), Flag("--")>> \o l.tokens) : l \in Cores}

Mention(tokens) == [tokens |-> tokens, installs |-> {}]
Mentions ==
    UNION { {Mention(<<Word("echo")>> \o l.tokens), Mention(<<Word("echo"), Run(l)>>),
             Mention(<<Word("bash"), Word("script.sh")>> \o l.tokens),
             Mention(<<Word("sudo"), Word("echo"), Run(l), Token("redirect", ">"), Word("log")>>),
             Mention(<<Word("env"), Flag("-S"), Text(<<Word("grep")>> \o l.tokens)>>),
             Mention(<<Word("sh"), Flag("-c"), Word("ls")>> \o l.tokens),
             Mention(<<Word("attach-guard"), Word("evaluate")>> \o l.tokens),
             Mention(<<Word("command"), Flag("-v"), Head(l.tokens)>>),
             Mention(<<Head(l.tokens), Word("list"), Word("install")>>),
             Mention(<<Word("uv"), Word("run"), Word("python"), Flag("-m"), Word("pytest")>>)} :
            l \in Cores }

MCLines == Commands \cup Cores \cup Once \cup Twice \cup Chained \cup Dynamic \cup UV \cup Mentions
               \cup {Nested(l, n) : l \in Cores, n \in 1..6}

(* npm install and pnpm install without a package. *)
BareLines == {Mention(<<Word(pm), Word("install")>>) : pm \in {"npm", "pnpm"}}
=============================================================================
