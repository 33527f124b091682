--------------------------- MODULE MCVersionSelect --------------------------
(* A small instance of VersionSelect: the default configuration, one piece *)
(* of evidence for each decision and one whose decision depends on the     *)
(* mode, each deprecated or not, in lists of at most three.                *)
EXTENDS VersionSelect

CONSTANTS plain, trusted, banned

MCConfig ==
    [denyKnownMalware |-> TRUE, minSupplyChain |-> 70, minOverall |-> 70,
     grayMin |-> 50, minAge |-> 48,
     unavailable |-> [local |-> "ask", ci |-> "deny"],
     unknown |-> [local |-> "ask", ci |-> "deny"],
     autoRewrite |-> [local |-> FALSE, ci |-> FALSE],
     allowlist |-> {trusted}, denylist |-> {banned}]

Clean == [sc |-> 90, ov |-> 90, verdict |-> "none", alerts |-> {}, age |-> 100]

MCEvidence ==
    { Clean,
      [Clean EXCEPT !.ov = 60],
      [Clean EXCEPT !.age = 10],
      [Clean EXCEPT !.verdict = "UNKNOWN", !.age = NoDate] }

MCVersions == [deprecated : BOOLEAN, evidence : MCEvidence]

MCRequests ==
    [cfg : {MCConfig}, name : {plain}, mode : {"claude", "ci"}, pinned : BOOLEAN]
    \cup [cfg : {MCConfig}, name : {trusted, banned}, mode : {"claude"}, pinned : {FALSE}]
=============================================================================
