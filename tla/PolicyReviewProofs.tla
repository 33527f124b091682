------------------------- MODULE PolicyReviewProofs -------------------------
(***************************************************************************)
(* Proofs about the decision engine for every configuration and every      *)
(* evidence, whatever the thresholds and settings are.                     *)
(***************************************************************************)
EXTENDS PolicyReview, TLAPS

(* Whatever it is asked, the engine gives one of the three decisions.      *)
LEMMA ConfiguredType ==
    ASSUME NEW b
    PROVE  ConfiguredDecision(b) \in Decisions
BY DEF ConfiguredDecision, Decisions

(* So does the part of the engine that looks at the evidence.              *)
LEMMA EvidenceDecisionType ==
    ASSUME NEW k, NEW m, NEW ev
    PROVE  EvaluateEvidence(k, m, ev) \in Decisions
<1>1. HandleUnknownVerdict(k, m, ev) \in Decisions
  BY ConfiguredType DEF HandleUnknownVerdict, HandleProviderUnavailable, Decisions
<1>2. EvaluateProviderVerdict(k, m, ev) \in Decisions
  <2>1. CASE ev.verdict \in {"UNKNOWN", "OUTAGE"}
    BY <1>1, <2>1 DEF EvaluateProviderVerdict
  <2>2. CASE ev.verdict \notin {"UNKNOWN", "OUTAGE"}
    BY <2>2 DEF EvaluateProviderVerdict, Decisions
  <2>3. QED
    BY <2>1, <2>2
<1>3. EvaluateScores(k, ev) \in Decisions
  BY DEF EvaluateScores, Decisions
<1>4. QED
  BY <1>2, <1>3 DEF EvaluateEvidence, Decisions

(* And so does the engine as a whole.                                      *)
LEMMA DecisionType ==
    ASSUME NEW k, NEW n, NEW m, NEW a, NEW ev
    PROVE  PolicyDecision(k, n, m, a, ev) \in Decisions
BY EvidenceDecisionType, ConfiguredType
   DEF PolicyDecision, HandleProviderUnavailable, Decisions

(* The types are inductive by themselves.                                  *)
LEMMA InitType == Init => TypeOK
BY DecisionType DEF Init, TypeOK

(* Every step keeps the types.                                             *)
LEMMA StepType == TypeOK /\ [Next]_vars => TypeOK'
<1> SUFFICES ASSUME TypeOK, [Next]_vars
             PROVE  TypeOK'
  OBVIOUS
<1>1. CASE UNCHANGED vars
  BY <1>1 DEF vars, TypeOK
<1>2. CASE EvidenceWorsens
  BY <1>2, DecisionType DEF EvidenceWorsens, Review, TypeOK
<1>3. CASE TimePasses
  <2>1. PICK a \in Ages : evidence' = [evidence EXCEPT !.age = a]
    BY <1>3 DEF TimePasses
  <2>2. evidence' \in Evidence
    BY <2>1 DEF TypeOK, Evidence
  <2>3. QED
    BY <1>3, <2>2, DecisionType DEF TimePasses, Review, TypeOK
<1>4. CASE ProviderFlips
  BY <1>4, DecisionType DEF ProviderFlips, Review, TypeOK
<1>5. CASE SessionChanges
  BY <1>5, DecisionType DEF SessionChanges, Review, TypeOK
<1>6. QED
  BY <1>1, <1>2, <1>3, <1>4, <1>5 DEF Next

(* The decision in force is the engine's answer for what is known.         *)
UpToDate == decision = PolicyDecision(cfg, name, mode, available, evidence)

(* Every step of the environment is followed by a new review.              *)
LEMMA StepUpToDate == UpToDate /\ [Next]_vars => UpToDate'
BY DEF UpToDate, Next, vars, EvidenceWorsens, TimePasses, ProviderFlips, SessionChanges, Review

IInv == TypeOK /\ UpToDate

(* The engine is a function of what it is given, so the decision never     *)
(* lags behind the evidence.                                               *)
THEOREM Invariance == Spec => []IInv
<1>1. Init => IInv
  BY InitType DEF IInv, UpToDate, Init
<1>2. IInv /\ [Next]_vars => IInv'
  BY StepType, StepUpToDate DEF IInv
<1>3. QED
  BY <1>1, <1>2, PTL DEF Spec

(* Every review ends in one of the three decisions.                        *)
THEOREM TypeCorrect == Spec => []TypeOK
<1>1. IInv => TypeOK
  BY DEF IInv
<1>2. QED
  BY <1>1, Invariance, PTL

-----------------------------------------------------------------------------
(* The engine's verdict on evidence is monotone: what worsens the evidence *)
(* never makes the decision milder.                                        *)
LEMMA EvidenceMonotone ==
    ASSUME NEW k \in Configs, NEW m, NEW old \in Evidence, NEW new \in Evidence,
           Worsens(old, new)
    PROVE  Rank(EvaluateEvidence(k, m, old)) <= Rank(EvaluateEvidence(k, m, new))
<1>1. /\ {old.sc, old.ov, new.sc, new.ov} \subseteq Int
      /\ {k.minSupplyChain, k.minOverall, k.grayMin, k.minAge} \subseteq Int
      /\ new.sc <= old.sc /\ new.ov <= old.ov /\ old.alerts \subseteq new.alerts
      /\ new.age = old.age
      /\ \/ new.verdict = old.verdict
         \/ <<old.verdict, new.verdict>> \in
               {<<"ALLOW", "ASK">>, <<"ALLOW", "DENY">>, <<"ASK", "DENY">>}
  BY ConfigsAssumption, ScoresAssumption DEF Evidence, Worsens
<1>2. \A d : Rank(d) \in 0..2 /\ Rank(d) <= Rank("deny") /\ Rank("allow") <= Rank(d)
  BY DEF Rank
<1>3. CASE KnownMalware(k, new) \/ TooNew(k, new)
  BY <1>2, <1>3 DEF EvaluateEvidence
<1>4. CASE ~(KnownMalware(k, new) \/ TooNew(k, new))
  <2>1. ~(KnownMalware(k, old) \/ TooNew(k, old))
    BY <1>1, <1>4 DEF KnownMalware, TooNew
  <2>2. (old.verdict = "none") <=> (new.verdict = "none")
    BY <1>1
  <2>3. CASE new.verdict = "none"
    <3>1. Rank(EvaluateScores(k, old)) <= Rank(EvaluateScores(k, new))
      <4>1. CASE new.sc < k.grayMin
        BY <1>2, <4>1 DEF EvaluateScores
      <4>2. CASE ~(new.sc < k.grayMin)
        <5>1. ~(old.sc < k.grayMin)
          BY <1>1, <4>2
        <5>2. EvaluateScores(k, old) \in {"ask", "allow"}
              /\ EvaluateScores(k, new) \in {"ask", "allow"}
          BY <4>2, <5>1 DEF EvaluateScores
        <5>3. EvaluateScores(k, old) = "ask" => EvaluateScores(k, new) = "ask"
          BY <1>1, <4>2, <5>1 DEF EvaluateScores
        <5>4. QED
          BY <5>2, <5>3 DEF Rank
      <4>3. QED
        BY <4>1, <4>2
    <3>2. QED
      BY <1>4, <2>1, <2>2, <2>3, <3>1 DEF EvaluateEvidence
  <2>4. CASE new.verdict # "none"
    <3>1. /\ EvaluateEvidence(k, m, old) = EvaluateProviderVerdict(k, m, old)
          /\ EvaluateEvidence(k, m, new) = EvaluateProviderVerdict(k, m, new)
      BY <1>4, <2>1, <2>2, <2>4 DEF EvaluateEvidence
    <3>2. CASE new.verdict = "DENY"
      <4>1. EvaluateProviderVerdict(k, m, new) = "deny"
        BY <3>2 DEF EvaluateProviderVerdict
      <4>2. QED
        BY <1>2, <3>1, <4>1
    <3>3. CASE new.verdict # "DENY" /\ new.verdict # old.verdict
      <4>1. old.verdict = "ALLOW" /\ new.verdict = "ASK"
        BY <1>1, <3>3
      <4>2. EvaluateProviderVerdict(k, m, old) \in {"ask", "allow"}
            /\ EvaluateProviderVerdict(k, m, new) = "ask"
        BY <4>1 DEF EvaluateProviderVerdict
      <4>3. QED
        BY <3>1, <4>2 DEF Rank
    <3>4. CASE new.verdict = old.verdict
      <4>1. CASE new.verdict \in {"UNKNOWN", "OUTAGE"}
        <5>1. /\ EvaluateProviderVerdict(k, m, old) = HandleUnknownVerdict(k, m, old)
              /\ EvaluateProviderVerdict(k, m, new) = HandleUnknownVerdict(k, m, new)
          BY <3>4, <4>1 DEF EvaluateProviderVerdict
        <5>2. Rank(HandleUnknownVerdict(k, m, old)) <= Rank(HandleUnknownVerdict(k, m, new))
          BY <1>1, <3>4 DEF HandleUnknownVerdict, Rank
        <5>3. QED
          BY <3>1, <5>1, <5>2
      <4>2. CASE new.verdict \notin {"UNKNOWN", "OUTAGE"}
        BY <1>1, <3>1, <3>4, <4>2 DEF EvaluateProviderVerdict, Rank
      <4>3. QED
        BY <4>1, <4>2
    <3>5. QED
      BY <3>2, <3>3, <3>4
  <2>5. QED
    BY <2>3, <2>4
<1>5. QED
  BY <1>3, <1>4

(* For every configuration, worse evidence never gets a milder answer.     *)
THEOREM NeverMilder == Spec => WorseEvidenceIsNeverMilder
<1>1. ASSUME IInv, EvidenceWorsens
      PROVE  ~Milder(decision', decision)
  <2>1. PICK ev \in Evidence : Worsens(evidence, ev) /\ evidence' = ev
    BY <1>1 DEF EvidenceWorsens
  <2>2. /\ decision = PolicyDecision(cfg, name, mode, available, evidence)
        /\ decision' = PolicyDecision(cfg, name, mode, available, ev)
        /\ cfg \in Configs /\ evidence \in Evidence
    BY <1>1, <2>1 DEF IInv, UpToDate, TypeOK, EvidenceWorsens, Review
  <2>3. Rank(EvaluateEvidence(cfg, mode, evidence)) <= Rank(EvaluateEvidence(cfg, mode, ev))
    BY <2>1, <2>2, EvidenceMonotone
  <2>4. \A d : Rank(d) \in 0..2
    BY DEF Rank
  <2>5. Rank(decision) <= Rank(decision')
    BY <2>2, <2>3, <2>4 DEF PolicyDecision
  <2>6. QED
    BY <2>4, <2>5 DEF Milder
<1>2. IInv /\ [Next]_vars => [EvidenceWorsens => ~Milder(decision', decision)]_vars
  BY <1>1
<1>3. QED
  BY <1>2, Invariance, PTL DEF Spec, WorseEvidenceIsNeverMilder

(* For every minimum age, waiting never makes the answer stricter.         *)
THEOREM WaitingHelps == Spec => WaitingNeverHardens
<1>1. ASSUME IInv, TimePasses
      PROVE  ~Milder(decision, decision')
  <2>1. PICK a \in Ages : a > evidence.age /\ evidence' = [evidence EXCEPT !.age = a]
    BY <1>1 DEF TimePasses
  <2> DEFINE ev == [evidence EXCEPT !.age = a]
  <2>2. /\ decision = PolicyDecision(cfg, name, mode, available, evidence)
        /\ decision' = PolicyDecision(cfg, name, mode, available, ev)
        /\ cfg.minAge \in Int /\ evidence \in Evidence
    BY <1>1, <2>1, ConfigsAssumption DEF IInv, UpToDate, TypeOK, TimePasses, Review
  <2>3. /\ ev.sc = evidence.sc /\ ev.ov = evidence.ov /\ ev.alerts = evidence.alerts
        /\ ev.verdict = evidence.verdict /\ ev.age = a
        /\ a \in Int /\ evidence.age \in Int /\ evidence.age # NoDate
    BY <1>1, <2>2, AgesAssumption DEF Evidence, TimePasses, NoDate
  <2>4. TooNew(cfg, ev) => TooNew(cfg, evidence)
    BY <2>1, <2>2, <2>3 DEF TooNew
  <2>5. /\ KnownMalware(cfg, ev) <=> KnownMalware(cfg, evidence)
        /\ EvaluateScores(cfg, ev) = EvaluateScores(cfg, evidence)
        /\ EvaluateProviderVerdict(cfg, mode, ev) = EvaluateProviderVerdict(cfg, mode, evidence)
    BY <2>3 DEF KnownMalware, EvaluateScores, EvaluateProviderVerdict, HandleUnknownVerdict
  <2>6. EvaluateEvidence(cfg, mode, evidence) = "deny"
        \/ EvaluateEvidence(cfg, mode, ev) = EvaluateEvidence(cfg, mode, evidence)
    BY <2>3, <2>4, <2>5 DEF EvaluateEvidence
  <2>7. \A d : Rank(d) \in 0..2 /\ Rank(d) <= Rank("deny")
    BY DEF Rank
  <2>8. Rank(decision') <= Rank(decision)
    BY <2>2, <2>6, <2>7 DEF PolicyDecision
  <2>9. QED
    BY <2>7, <2>8 DEF Milder
<1>2. IInv /\ [Next]_vars => [TimePasses => ~Milder(decision, decision')]_vars
  BY <1>1
<1>3. QED
  BY <1>2, Invariance, PTL DEF Spec, WaitingNeverHardens

(* For every configuration, an outage gets the same answer whichever layer *)
(* notices it.                                                             *)
THEOREM OutageAnswered == Spec => []OutageLayersAgree
<1>1. ASSUME IInv
      PROVE  OutageLayersAgree
  <2> SUFFICES ASSUME evidence.verdict = "OUTAGE", evidence.alerts = {}, evidence.age = NoDate
               PROVE  decision = PolicyDecision(cfg, name, mode, ~available, evidence)
    BY DEF OutageLayersAgree
  <2>1. EvaluateEvidence(cfg, mode, evidence) = HandleProviderUnavailable(cfg, mode)
    <3>1. ~KnownMalware(cfg, evidence) /\ ~TooNew(cfg, evidence)
      BY DEF KnownMalware, TooNew
    <3>2. EvaluateProviderVerdict(cfg, mode, evidence) = HandleUnknownVerdict(cfg, mode, evidence)
      BY DEF EvaluateProviderVerdict
    <3>3. QED
      BY <3>1, <3>2 DEF EvaluateEvidence, HandleUnknownVerdict
  <2>2. QED
    BY <1>1, <2>1 DEF IInv, UpToDate, PolicyDecision
<1>2. QED
  BY <1>1, Invariance, PTL

(* For every configuration whose two settings are no milder in CI, moving  *)
(* a review into CI never gives a milder answer.                           *)
THEOREM StricterInCIHolds == Spec => CIIsNeverMilder
<1>1. ASSUME IInv, [Next]_vars, StricterInCI(cfg.unavailable), StricterInCI(cfg.unknown),
             mode # "ci", mode' = "ci"
      PROVE  ~Milder(decision', decision)
  <2>1. SessionChanges
    BY <1>1 DEF Next, vars, EvidenceWorsens, TimePasses, ProviderFlips
  <2>2. /\ decision = PolicyDecision(cfg, name, mode, available, evidence)
        /\ decision' = PolicyDecision(cfg, name, "ci", available, evidence)
    BY <1>1, <2>1 DEF IInv, UpToDate, SessionChanges, Review
  <2>3. \A d : Rank(d) \in 0..2 /\ (Rank(d) = 0 <=> d \notin {"ask", "deny"})
               /\ (Rank(d) = 2 <=> d = "deny")
    BY DEF Rank
  <2>4. /\ HandleProviderUnavailable(cfg, mode) = ConfiguredDecision(cfg.unavailable.local)
        /\ HandleProviderUnavailable(cfg, "ci") = ConfiguredDecision(cfg.unavailable.ci)
        /\ ByMode(cfg.unknown, mode) = cfg.unknown.local
        /\ ByMode(cfg.unknown, "ci") = cfg.unknown.ci
    BY <1>1 DEF HandleProviderUnavailable, ByMode
  <2>5. Rank(HandleProviderUnavailable(cfg, mode)) <= Rank(HandleProviderUnavailable(cfg, "ci"))
    BY <1>1, <2>3, <2>4 DEF StricterInCI
  <2>6. Rank(HandleUnknownVerdict(cfg, mode, evidence))
           <= Rank(HandleUnknownVerdict(cfg, "ci", evidence))
    <3>1. Rank(ConfiguredDecision(cfg.unknown.local)) <= Rank(ConfiguredDecision(cfg.unknown.ci))
      BY <1>1, <2>3 DEF StricterInCI
    <3>2. ConfiguredDecision(cfg.unknown.local) \in Decisions
          /\ ConfiguredDecision(cfg.unknown.ci) \in Decisions
      BY ConfiguredType
    <3>3. Rank("allow") = 0 /\ Rank("ask") = 1 /\ Rank("deny") = 2
      BY DEF Rank
    <3>4. QED
      BY <2>3, <2>4, <2>5, <3>1, <3>2, <3>3 DEF HandleUnknownVerdict, Decisions
  <2>7. Rank(EvaluateProviderVerdict(cfg, mode, evidence))
           <= Rank(EvaluateProviderVerdict(cfg, "ci", evidence))
    <3>1. CASE evidence.verdict \in {"UNKNOWN", "OUTAGE"}
      BY <2>6, <3>1 DEF EvaluateProviderVerdict
    <3>2. CASE evidence.verdict \notin {"UNKNOWN", "OUTAGE"}
      <4>1. EvaluateProviderVerdict(cfg, mode, evidence)
               = EvaluateProviderVerdict(cfg, "ci", evidence)
        BY <3>2 DEF EvaluateProviderVerdict
      <4>2. QED
        BY <2>3, <4>1
    <3>3. QED
      BY <3>1, <3>2
  <2>8. Rank(EvaluateEvidence(cfg, mode, evidence)) <= Rank(EvaluateEvidence(cfg, "ci", evidence))
    BY <2>3, <2>7 DEF EvaluateEvidence
  <2>9. Rank(decision) <= Rank(decision')
    BY <2>2, <2>3, <2>5, <2>8 DEF PolicyDecision
  <2>10. QED
    BY <2>3, <2>9 DEF Milder
<1>2. IInv /\ [Next]_vars =>
         [ /\ StricterInCI(cfg.unavailable)
           /\ StricterInCI(cfg.unknown)
           /\ mode # "ci" /\ mode' = "ci"
           => ~Milder(decision', decision) ]_vars
  BY <1>1
<1>3. QED
  BY <1>2, Invariance, PTL DEF Spec, CIIsNeverMilder
=============================================================================
