---------------------------- MODULE MCSocketList ----------------------------
(* Small registries with stable versions, a prerelease, one that does not  *)
(* parse or a pseudo-version, and a patch to an older line that was        *)
(* published after a newer version.                                        *)
EXTENDS SocketList

MCConfig ==
    [denyKnownMalware |-> TRUE, minSupplyChain |-> 70, minOverall |-> 70,
     grayMin |-> 50, minAge |-> 48,
     unavailable |-> [local |-> "ask", ci |-> "deny"],
     unknown |-> [local |-> "ask", ci |-> "deny"]]

Published(v, t) == [version |-> v, published |-> t, deprecated |-> FALSE]

Semver(minor, patch, n) ==
    [ok |-> TRUE, text |-> n, pseudo |-> FALSE, major |-> 1, minor |-> minor, patch |-> patch,
     pre |-> <<>>]
WithPre(v) == [v EXCEPT !.pre = <<[numeric |-> TRUE, value |-> 1]>>]
Pseudo(v) == [WithPre(v) EXCEPT !.pseudo = TRUE]
Unparsed(v) == [v EXCEPT !.ok = FALSE]

PEP440(minor) ==
    [ok |-> TRUE, text |-> minor, pseudo |-> FALSE, epoch |-> 0, release |-> <<1, minor>>,
     prePhase |-> 0, preNum |-> 0, hasPost |-> FALSE, postNum |-> 0, hasDev |-> FALSE,
     devNum |-> 0]
Alpha(v) == [v EXCEPT !.prePhase = 1, !.text = 10 + v.text]
Post(v) == [v EXCEPT !.hasPost = TRUE, !.text = 20 + v.text]

SemverReleases(other) ==
    { Published(Semver(0, 0, 1), 50), Published(Semver(0, 1, 2), 900),
      Published(Semver(1, 0, 3), 100), Published(Semver(2, 0, 4), 980),
      Published(WithPre(Semver(3, 0, 5)), 500), Published(other, 0) }

MCReleases ==
    [npm |-> SemverReleases(Semver(4, 0, 6)),
     cargo |-> SemverReleases(Unparsed(Semver(4, 0, 6))),
     go |-> SemverReleases(Pseudo(Semver(4, 0, 6))),
     pypi |-> { Published(PEP440(0), 900), Published(Post(PEP440(0)), 100),
                Published(PEP440(1), 980), Published(Alpha(PEP440(2)), 500),
                Published(Unparsed(PEP440(3)), 0) }]

MCArtifacts ==
    { [sc |-> 90, ov |-> 90, alerts |-> {}], [sc |-> 20, ov |-> 90, alerts |-> {}],
      [sc |-> 90, ov |-> 90, alerts |-> {"malware"}] }
=============================================================================
