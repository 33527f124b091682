------------------------------- MODULE Policy -------------------------------
(***************************************************************************)
(* The decision engine of internal/policy: what Engine.Evaluate answers    *)
(* for one version of one package.                                         *)
(*                                                                         *)
(* A configuration is a record with the fields of PolicyConfig that the    *)
(* engine reads.  The evidence about a version is a record                 *)
(*                                                                         *)
(*   sc, ov   supply-chain and overall score                               *)
(*   verdict  the provider's verdict, "none" when ProviderVerdict is nil,  *)
(*            "OUTAGE" for UNKNOWN carrying reason provider-unavailable,   *)
(*            "OTHER" for a string the engine does not recognise           *)
(*   alerts   a subset of AlertKinds: whether some alert is of category    *)
(*            malware, whether some alert is critical or high              *)
(*   age      hours since publication, NoDate when PublishedAt is zero     *)
(*                                                                         *)
(* Package names stand for themselves up to letter case (isAllowed and     *)
(* isDenied use EqualFold).  The reason strings are left out: every one is *)
(* non-empty, which is all that the callers test.                          *)
(***************************************************************************)
EXTENDS Integers

Decisions == {"allow", "ask", "deny"}
Modes == {"claude", "codex", "shell", "ci"}
Verdicts == {"none", "ALLOW", "ASK", "DENY", "UNKNOWN", "OUTAGE", "OTHER"}
AlertKinds == {"malware", "severe"}
NoDate == -1

EvidenceType == [sc : Int, ov : Int, verdict : Verdicts,
                 alerts : SUBSET AlertKinds, age : Nat \cup {NoDate}]

(* The order of severity: a missing key of the Go map ranks 0. *)
Rank(d) == IF d = "deny" THEN 2 ELSE IF d = "ask" THEN 1 ELSE 0

LatestDecision(a, b) == b

WorseDecision(a, b) == IF Rank(b) > Rank(a) THEN b ELSE a

-----------------------------------------------------------------------------
(* Settings that differ between CI and every other mode. *)

SwappedModes(setting, mode) == IF mode = "ci" THEN setting.local ELSE setting.ci

ByMode(setting, mode) == IF mode = "ci" THEN setting.ci ELSE setting.local

ShouldAutoRewrite(cfg, mode) == ByMode(cfg.autoRewrite, mode)

(* Anything but "deny" and "allow", a misspelt setting included, is "ask". *)
ConfiguredDecision(behavior) ==
    IF behavior \in {"deny", "allow"} THEN behavior ELSE "ask"

HandleProviderUnavailable(cfg, mode) ==
    ConfiguredDecision(ByMode(cfg.unavailable, mode))

-----------------------------------------------------------------------------
OutageIsUnknown(cfg, mode, ev) ==
    LET output == ConfiguredDecision(ByMode(cfg.unknown, mode)) IN
    IF output = "allow" /\ "severe" \in ev.alerts THEN "ask"
    ELSE output

(* An UNKNOWN verdict: an outage is handled as one, otherwise the setting  *)
(* decides and a severe alert turns "allow" into "ask".                    *)
HandleUnknownVerdict(cfg, mode, ev) ==
    LET output == ConfiguredDecision(ByMode(cfg.unknown, mode)) IN
    IF ev.verdict = "OUTAGE" THEN HandleProviderUnavailable(cfg, mode)
    ELSE IF output = "allow" /\ "severe" \in ev.alerts THEN "ask"
    ELSE output

EvaluateProviderVerdict(cfg, mode, ev) ==
    CASE ev.verdict = "DENY" -> "deny"
      [] ev.verdict = "ASK" -> "ask"
      [] ev.verdict \in {"UNKNOWN", "OUTAGE"} -> HandleUnknownVerdict(cfg, mode, ev)
      [] ev.verdict = "ALLOW" -> IF "severe" \in ev.alerts THEN "ask" ELSE "allow"
      [] OTHER -> "ask"

AlertsBeforeThresholds(cfg, ev) ==
    IF "severe" \in ev.alerts THEN "ask"
    ELSE IF ev.sc < cfg.grayMin THEN "deny"
    ELSE IF ev.sc < cfg.minSupplyChain \/ ev.ov < cfg.minOverall THEN "ask"
    ELSE "allow"

(* The thresholds, used only when the provider gives no verdict. *)
EvaluateScores(cfg, ev) ==
    IF ev.sc < cfg.grayMin THEN "deny"
    ELSE IF ev.sc < cfg.minSupplyChain \/ ev.ov < cfg.minOverall THEN "ask"
    ELSE IF "severe" \in ev.alerts THEN "ask"
    ELSE "allow"

TooOld(cfg, ev) ==
    /\ cfg.minAge > 0
    /\ ev.age # NoDate
    /\ ev.age >= cfg.minAge

TooNew(cfg, ev) ==
    /\ cfg.minAge > 0
    /\ ev.age # NoDate
    /\ ev.age < cfg.minAge

KnownMalware(cfg, ev) == cfg.denyKnownMalware /\ "malware" \in ev.alerts

(* Engine.Evaluate with a reachable provider. *)
EvaluateEvidence(cfg, mode, ev) ==
    IF KnownMalware(cfg, ev) \/ TooNew(cfg, ev) THEN "deny"
    ELSE IF ev.verdict # "none" THEN EvaluateProviderVerdict(cfg, mode, ev)
    ELSE EvaluateScores(cfg, ev)

(* Engine.Evaluate: the lists come first, then availability, then the      *)
(* evidence.                                                               *)
PolicyDecision(cfg, name, mode, available, ev) ==
    IF name \in cfg.allowlist THEN "allow"
    ELSE IF name \in cfg.denylist THEN "deny"
    ELSE IF ~available THEN HandleProviderUnavailable(cfg, mode)
    ELSE EvaluateEvidence(cfg, mode, ev)
=============================================================================
