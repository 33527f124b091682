------------------------------ MODULE MCSession -----------------------------
(* Small instances of Session: two hooks at a time, three versions of one  *)
(* package of which the second is no good, one writing of the user's file, *)
(* and for every provider and every early end of Load a start.             *)
EXTENDS Session

CONSTANTS h1, h2, foo

Env == [pluginDir |-> FALSE, home |-> TRUE, ci |-> FALSE, logPath |-> "", provider |-> "",
        endpoint |-> "", bin |-> "", tokens |-> {}]
Socket == [Env EXCEPT !.provider = "socket", !.tokens = {"ATTACH_OPEN_SCORE_API_TOKEN"}]

Install1(runtime) ==
    [runtime |-> runtime, readable |-> TRUE, tool |-> "Bash", self |-> FALSE, installs |-> TRUE,
     pinned |-> 0, direct |-> TRUE, name |-> foo]
Pinned(runtime) == [Install1(runtime) EXCEPT !.pinned = 1]
Wrapped(runtime) == [Install1(runtime) EXCEPT !.direct = FALSE]
Plain(runtime) == [Install1(runtime) EXCEPT !.installs = FALSE]
Unreadable(runtime) == [Install1(runtime) EXCEPT !.readable = FALSE]
Other(runtime) == [Install1(runtime) EXCEPT !.tool = "Read"]
Self(runtime) == [Install1(runtime) EXCEPT !.self = TRUE]

Start(e, p, l, u, c1, c2) ==
    [env |-> e, plugin |-> p, local |-> l, user |-> u, commands |-> (h1 :> c1 @@ h2 :> c2),
     published |-> 2, edits |-> 0]
Edited(s) == [s EXCEPT !.edits = 1]
Publishing(s) == [s EXCEPT !.published = 1]

AutoRewrite == File([autoRewriteLocal |-> TRUE, minOverall |-> 60])

MCStarts ==
    { Publishing(Start(Socket, EmptyFile, AutoRewrite, EmptyFile, Install1("claude"), Wrapped("codex"))),
      Publishing(Start(Socket, EmptyFile, EmptyFile, AutoRewrite, Install1("codex"), Pinned("claude"))),
      Edited(Start(Socket, EmptyFile, EmptyFile, AutoRewrite, Install1("codex"), Other("claude"))),
      Publishing(Start([Socket EXCEPT !.ci = TRUE], EmptyFile, EmptyFile, EmptyFile,
                       Install1("evaluate"), Other("claude"))),
      Start([Socket EXCEPT !.tokens = {}], EmptyFile,
            File([unavailableLocal |-> "allow"]), EmptyFile, Install1("claude"), Self("codex")),
      Start(Env, EmptyFile, EmptyFile, File([npm |-> FALSE]), Pinned("claude"), Pinned("evaluate")),
      Start([Env EXCEPT !.provider = "mock"], EmptyFile, EmptyFile, EmptyFile, Install1("codex"),
            Pinned("claude")),
      Start([Env EXCEPT !.bin = "scorer", !.logPath = "log"], EmptyFile, EmptyFile, EmptyFile,
            Pinned("codex"), Plain("claude")),
      Start([Env EXCEPT !.endpoint = "https"], EmptyFile, File([timeout |-> {5}, unknownLocal |-> "allow"]),
            EmptyFile, Install1("claude"), Pinned("codex")),
      Start([Env EXCEPT !.endpoint = "https"], EmptyFile,
            File([unavailableLocal |-> "allow"]),
            File([allowlist |-> {foo}]), Pinned("codex"), Pinned("evaluate")),
      Start(Env, EmptyFile, Unparsable, EmptyFile, Pinned("codex"), Unreadable("claude")),
      Start([Env EXCEPT !.pluginDir = TRUE, !.home = FALSE, !.endpoint = "https"],
            File([kind |-> "platform", endpoint |-> "bad"]), EmptyFile, EmptyFile,
            Pinned("claude"), Unreadable("evaluate")),
      Start([Env EXCEPT !.pluginDir = TRUE, !.home = FALSE],
            File([kind |-> "platform", endpoint |-> "https", timeout |-> {0}]),
            EmptyFile, EmptyFile, Pinned("claude"), Pinned("codex")),
      Start([Env EXCEPT !.pluginDir = TRUE], Unparsable, EmptyFile, EmptyFile,
            Pinned("claude"), Pinned("evaluate")),
      Edited(Start([Env EXCEPT !.pluginDir = TRUE],
                   File([kind |-> "platform", endpoint |-> "https", grayMin |-> 40]),
                   File([grayMin |-> 30]), EmptyFile, Pinned("codex"), Plain("evaluate"))) }

MCEdits == {DefaultConfig, PlatformConfig("https", "TOKEN"), PlatformConfig("bad", "TOKEN")}
MCCuts == {0, 2, 6}

Release(sc) ==
    [deprecated |-> FALSE,
     evidence |-> [sc |-> sc, ov |-> 90, verdict |-> "none", alerts |-> {}, age |-> NoDate]]
MCReleases == <<Release(90), Release(20), Release(60)>>

MCResponses == [decision : {"ALLOW", "ASK", "DENY", "UNKNOWN", "?"}, unavailable : BOOLEAN]

MCVersions == {MCReleases[i] : i \in DOMAIN MCReleases}
=============================================================================
