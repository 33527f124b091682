---------------------------- MODULE PolicyReview ----------------------------
(***************************************************************************)
(* The same pinned package reviewed again and again by the engine while    *)
(* what is known about it changes: its scores drop, alerts are disclosed,  *)
(* the provider's verdict hardens, the provider goes down and comes back,  *)
(* time passes, and the session is CI or not.  Every step of the           *)
(* environment is followed by a new run of Engine.Evaluate, so decision is *)
(* always the answer for the current evidence.                             *)
(***************************************************************************)
EXTENDS Policy

CONSTANTS Configs,   \* the configurations considered
          Names,     \* package names
          Sessions,  \* the modes a review runs in
          Scores,    \* the scores a provider may give
          Ages       \* ages in hours (and NoDate)

ASSUME ConfigsAssumption ==
    \A k \in Configs : {k.minSupplyChain, k.minOverall, k.grayMin, k.minAge} \subseteq Int
ASSUME SessionsAssumption == Sessions \subseteq Modes
ASSUME ScoresAssumption == Scores \subseteq Int
ASSUME AgesAssumption == Ages \subseteq Nat \cup {NoDate}

VARIABLES cfg, name, mode, available, evidence, decision

vars == <<cfg, name, mode, available, evidence, decision>>

Evidence == [sc : Scores, ov : Scores, verdict : Verdicts,
             alerts : SUBSET AlertKinds, age : Ages]

(* Every review gets one of the three decisions.                           *)
TypeOK ==
    /\ cfg \in Configs
    /\ name \in Names
    /\ mode \in Sessions
    /\ available \in BOOLEAN
    /\ evidence \in Evidence
    /\ decision \in Decisions

Init ==
    /\ cfg \in Configs
    /\ name \in Names
    /\ mode \in Sessions
    /\ available = TRUE
    /\ evidence \in Evidence
    /\ decision = PolicyDecision(cfg, name, mode, available, evidence)

Review == decision' = PolicyDecision(cfg, name, mode', available', evidence')

(* The provider reports lower scores, further alerts or a harder verdict. *)
Worsens(old, new) ==
    /\ new.sc <= old.sc
    /\ new.ov <= old.ov
    /\ old.alerts \subseteq new.alerts
    /\ \/ new.verdict = old.verdict
       \/ <<old.verdict, new.verdict>> \in
             {<<"ALLOW", "ASK">>, <<"ALLOW", "DENY">>, <<"ASK", "DENY">>}
    /\ new.age = old.age

EvidenceWorsens ==
    /\ available
    /\ \E ev \in Evidence :
          /\ Worsens(evidence, ev)
          /\ evidence' = ev
    /\ UNCHANGED <<cfg, name, mode, available>>
    /\ Review

TimePasses ==
    /\ evidence.age # NoDate
    /\ \E a \in Ages :
          /\ a > evidence.age
          /\ evidence' = [evidence EXCEPT !.age = a]
    /\ UNCHANGED <<cfg, name, mode, available>>
    /\ Review

ProviderFlips ==
    /\ available' = ~available
    /\ UNCHANGED <<cfg, name, mode, evidence>>
    /\ Review

SessionChanges ==
    /\ mode' \in Sessions \ {mode}
    /\ UNCHANGED <<cfg, name, available, evidence>>
    /\ Review

Next == EvidenceWorsens \/ TimePasses \/ ProviderFlips \/ SessionChanges

Spec == Init /\ [][Next]_vars

-----------------------------------------------------------------------------
(* Properties *)

Milder(d, e) == Rank(d) < Rank(e)

(* Worse evidence never gets a milder answer: no combination of the early  *)
(* returns of policy.go:44-121 lets a lower score, a further alert or a    *)
(* harder verdict turn a deny into an ask or an ask into an allow.         *)
WorseEvidenceIsNeverMilder ==
    [][EvidenceWorsens => ~Milder(decision', decision)]_vars

(* Waiting never makes the answer stricter: the minimum age is the only    *)
(* check that reads the clock (policy.go:70-81).                           *)
WaitingNeverHardens ==
    [][TimePasses => ~Milder(decision, decision')]_vars

StricterInCI(setting) ==
    Rank(ConfiguredDecision(setting.ci)) >= Rank(ConfiguredDecision(setting.local))

(* With settings that are no milder in CI than locally, as the defaults    *)
(* are, moving a review into CI never gives a milder answer, whichever of  *)
(* the two settings decides (policy.go:165-168 and 199-202).               *)
CIIsNeverMilder ==
    [][ /\ StricterInCI(cfg.unavailable)
        /\ StricterInCI(cfg.unknown)
        /\ mode # "ci" /\ mode' = "ci"
        => ~Milder(decision', decision) ]_vars

(* An outage gets the same answer whichever layer notices it: the check of *)
(* IsAvailable before the packages are evaluated, or the open-score        *)
(* clients that turn a failed request into an UNKNOWN verdict with reason  *)
(* provider-unavailable, and neither alerts nor a date.                    *)
OutageLayersAgree ==
    evidence.verdict = "OUTAGE" /\ evidence.alerts = {} /\ evidence.age = NoDate
        => decision = PolicyDecision(cfg, name, mode, ~available, evidence)
=============================================================================
