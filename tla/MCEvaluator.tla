----------------------------- MODULE MCEvaluator ----------------------------
(* Small instances of Evaluator: command lines of at most two commands and *)
(* two packages each, with the shapes that the code tells apart, against   *)
(* every kind of provider; lists of at most two candidates.                *)
EXTENDS Evaluator

CONSTANTS foo, bar, banned, trusted

On(x) == [local |-> x, ci |-> x]

Default == [denyKnownMalware |-> TRUE, minSupplyChain |-> 70, minOverall |-> 70,
            grayMin |-> 50, minAge |-> 48,
            unavailable |-> [local |-> "ask", ci |-> "deny"],
            unknown |-> [local |-> "ask", ci |-> "deny"],
            autoRewrite |-> On(FALSE),
            allowlist |-> {trusted}, denylist |-> {banned},
            provider |-> "socket", enabled |-> Switched \ {"cargo"}]

MCConfigs ==
    { Default,
      [Default EXCEPT !.autoRewrite = On(TRUE), !.unavailable = On("allow")],
      [Default EXCEPT !.provider = "open-score-http"],
      [Default EXCEPT !.provider = "open-score-local", !.unavailable = On("allow")],
      [Default EXCEPT !.provider = "platform", !.unknown = On("allow")] }

Info(sc, verdict, old) ==
    [deprecated |-> old,
     evidence |-> [sc |-> sc, ov |-> 90, verdict |-> verdict, alerts |-> {}, age |-> NoDate]]

Good == Info(90, "none", FALSE)
Gray == Info(60, "none", FALSE)
Bad == Info(20, "none", FALSE)
Old == Info(90, "none", TRUE)

MCVersions ==
    {Good, Gray, Bad, Old} \cup
    {Info(0, v, FALSE) : v \in {"ALLOW", "ASK", "OUTAGE"}}

Unpinned(n) == [name |-> n, pinned |-> FALSE]
Pinned(n) == [name |-> n, pinned |-> TRUE]
Command(pm, pkgs) == [pm |-> pm, packages |-> pkgs, unparsed |-> FALSE, nonLocal |-> FALSE]
Unread(cmd, isLocal) == [cmd EXCEPT !.unparsed = TRUE, !.nonLocal = ~isLocal]

Typed(cmds) == [cmds |-> cmds, install |-> FALSE, yarn |-> FALSE, direct |-> TRUE]
Wrapped(cmds) == [Typed(cmds) EXCEPT !.direct = FALSE]

MCLines ==
    [cmds : {<<>>}, install : BOOLEAN, yarn : BOOLEAN, direct : {FALSE}]
    \cup
    { Typed(<<Command("npm", <<Unpinned(foo), Unpinned(bar)>>)>>),
      Typed(<<Command("pnpm", <<Unpinned(foo), Pinned(foo)>>)>>),
      Typed(<<Command("npm", <<Unpinned(banned), Pinned(trusted)>>)>>),
      Typed(<<Command("pip3", <<Pinned(trusted)>>)>>),
      Typed(<<Command("npm", <<Unpinned(foo)>>)>>),
      Wrapped(<<Command("pip", <<Unpinned(foo)>>)>>),
      Typed(<<Unread(Command("npm", <<>>), TRUE)>>),
      Typed(<<Unread(Command("go", <<Unpinned(foo)>>), TRUE)>>),
      Typed(<<Unread(Command("go", <<Pinned(foo)>>), FALSE), Command("npm", <<Unpinned(bar)>>)>>),
      Typed(<<Command("npm", <<Unpinned(foo), Pinned(bar)>>), Command("pip", <<Unpinned(bar)>>)>>),
      Typed(<<Command("cargo", <<Unpinned(foo)>>), Command("npm", <<Pinned(bar)>>)>>),
      Typed(<<Command("cargo", <<Unpinned(foo)>>)>>),
      Typed(<<Command("yarn", <<Pinned(foo)>>)>>),
      Typed(<<Unread(Command("yarn", <<>>), TRUE)>>),
      Typed(<<Unread(Command("uv", <<>>), FALSE)>>),
      [Typed(<<Command("npm", <<Pinned(foo)>>)>>) EXCEPT !.yarn = TRUE] }
=============================================================================
