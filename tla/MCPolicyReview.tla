--------------------------- MODULE MCPolicyReview ---------------------------
(* The small instance of PolicyReview: the default configuration and ones  *)
(* that differ from it where the engine looks.  Scores are the defaults    *)
(* 50/70 and one value below, between and above; ages lie on both sides of *)
(* the 48 hours.                                                           *)
EXTENDS PolicyReview

CONSTANTS plain, trusted, banned

DefaultCfg ==
    [denyKnownMalware |-> TRUE, minSupplyChain |-> 70, minOverall |-> 70,
     grayMin |-> 50, minAge |-> 48,
     unavailable |-> [local |-> "ask", ci |-> "deny"],
     unknown |-> [local |-> "ask", ci |-> "deny"],
     autoRewrite |-> [local |-> FALSE, ci |-> FALSE],
     allowlist |-> {trusted}, denylist |-> {banned}]

MCConfigs ==
    { DefaultCfg,
      [DefaultCfg EXCEPT !.denyKnownMalware = FALSE, !.minAge = 0],
      [DefaultCfg EXCEPT !.unavailable.local = "allow",
                         !.unknown.local = "allow", !.unknown.ci = "ask"],
      [DefaultCfg EXCEPT !.unavailable.ci = "Deny", !.unknown.ci = "allow",
                         !.unknown.local = "deny"] }

MCScores == {49, 60, 70}
MCAges == {NoDate, 47, 48}
=============================================================================
