--------------------------- MODULE SelectionProofs --------------------------
(***************************************************************************)
(* Facts about the operators of Selection, for every configuration, every  *)
(* set of version infos and every length of the candidate list.            *)
(***************************************************************************)
EXTENDS Selection, SequenceTheorems, FiniteSetTheorems, WellFoundedInduction, TLAPS

(* A function on 1..n into the version infos is a sequence of length n.    *)
LEMMA TupleIsSequence ==
    ASSUME NEW n \in Nat, NEW list \in [1..n -> Versions]
    PROVE  /\ list \in Seq(Versions)
           /\ Len(list) = n
           /\ DOMAIN list = 1..Len(list)
BY SeqDef

(* Every list a provider returns is a sequence of version infos.           *)
LEMMA ListsAreSequences ==
    ASSUME NEW list \in Lists
    PROVE  /\ list \in Seq(Versions)
           /\ Len(list) \in 0..MaxCandidates
           /\ DOMAIN list = 1..Len(list)
<1>1. PICK n \in 0..MaxCandidates : list \in [1..n -> Versions]
  BY DEF Lists
<1>2. n \in Nat
  BY MaxCandidatesAssumption
<1>3. QED
  BY <1>1, <1>2, TupleIsSequence

(* What a successful answer looks like.                                    *)
LEMMA AnswerType ==
    ASSUME NEW r, r.pinned \in BOOLEAN, NEW a \in Answers(r), a.kind = "ok"
    PROVE  /\ a.list \in Seq(Versions)
           /\ DOMAIN a.list = 1..Len(a.list)
           /\ ~r.pinned => Len(a.list) \in 0..MaxCandidates
           /\ r.pinned => Len(a.list) = 1
<1>1. a.list \in (IF r.pinned THEN [1..1 -> Versions] ELSE Lists)
  BY DEF Answers, Unsupported, ProviderError
<1>2. CASE r.pinned
  <2>1. a.list \in [1..1 -> Versions]
    BY <1>1, <1>2
  <2>2. QED
    BY <1>2, <2>1, TupleIsSequence
<1>3. CASE ~r.pinned
  BY <1>1, <1>3, ListsAreSequences
<1>4. QED
  BY <1>2, <1>3

(* The engine answers with one of the three decisions.                     *)
LEMMA DecisionType ==
    ASSUME NEW cfg, NEW name, NEW mode, NEW available, NEW ev
    PROVE  PolicyDecision(cfg, name, mode, available, ev) \in Decisions
BY DEF PolicyDecision, Decisions, HandleProviderUnavailable, ConfiguredDecision,
       EvaluateEvidence, EvaluateProviderVerdict, HandleUnknownVerdict, EvaluateScores

(* The decision on a candidate is one of the three.                        *)
LEMMA DecideType ==
    ASSUME NEW r, NEW v
    PROVE  Decide(r, v) \in Decisions
BY DecisionType DEF Decide

-----------------------------------------------------------------------------
(* Newest picks the least element of a set of indices that has one.        *)
LEMMA NewestIsLeast ==
    ASSUME NEW S \in SUBSET Nat, NEW m \in S, \A j \in S : m <= j
    PROVE  Newest(S) = m
<1>1. \A k \in S : (\A j \in S : k <= j) => k = m
  OBVIOUS
<1>2. QED
  BY <1>1 DEF Newest

(* A set of natural numbers that is not empty has a least element, because *)
(* the intervals 0..n, ordered by strict inclusion, are well-founded.      *)
LEMMA LeastExists ==
    ASSUME NEW S \in SUBSET Nat, S # {}
    PROVE  \E m \in S : \A k \in S : m <= k
<1> DEFINE T == {0..n : n \in S}
<1>1. T \subseteq FiniteSubsetsOf(Nat)
  <2>1. \A n \in S : 0..n \in SUBSET Nat /\ IsFiniteSet(0..n)
    BY FS_Interval
  <2>2. QED
    BY <2>1 DEF FiniteSubsetsOf
<1>2. T # {}
  OBVIOUS
<1>3. PICK x \in T : \A y \in T : <<y, x>> \notin StrictSubsetOrdering(Nat)
  <2> HIDE DEF T
  <2> QED
    BY <1>1, <1>2, WFMin, FS_StrictSubsetOrderingWellFounded
<1>4. PICK m \in S : x = 0..m
  OBVIOUS
<1>5. ASSUME NEW k \in S, k < m
      PROVE  FALSE
  <2>1. m \in 0..m /\ m \notin 0..k
    BY <1>5
  <2>2. 0..k \subseteq 0..m /\ 0..k # 0..m /\ 0..k \in SUBSET Nat /\ 0..m \in SUBSET Nat
    BY <1>5, <2>1
  <2>3. <<0..k, 0..m>> \in StrictSubsetOrdering(Nat)
    BY <2>2 DEF StrictSubsetOrdering
  <2>4. QED
    BY <2>3, <1>3, <1>4
<1>6. QED
  BY <1>5

(* The newest of a non-empty set of candidates is one of them.             *)
LEMMA NewestInSet ==
    ASSUME NEW S \in SUBSET Nat, S # {}
    PROVE  Newest(S) \in S
BY LeastExists, NewestIsLeast

(* Every index of a list is judged with one of the three decisions.        *)
LEMMA JudgedParts ==
    ASSUME NEW r, NEW list, DOMAIN list \subseteq Nat
    PROVE  /\ Live(list) \in SUBSET Nat
           /\ Rejected(r, list) = Live(list) \ Judged(r, list, "allow")
           /\ \A d : Judged(r, list, d) \subseteq Live(list)
           /\ \A k \in Live(list) :
                 \/ k \in Judged(r, list, "allow")
                 \/ k \in Judged(r, list, "ask")
                 \/ k \in Judged(r, list, "deny")
BY DecideType DEF Live, Judged, Rejected, Decisions

(* What Select says it selected is a version of the provider's answer, and *)
(* the decision that comes with it is the engine's decision about that     *)
(* version; unless WasRewritten holds it is the newest one.                *)
LEMMA SelectedIsOffered ==
    ASSUME NEW r, r.pinned \in BOOLEAN, NEW a \in Answers(r),
           Promised(r, a).kind = "selected"
    PROVE  LET out == Promised(r, a) IN
           /\ out.index \in DOMAIN a.list
           /\ a.list[out.index] \in Versions /\ a.list[1] \in Versions
           /\ out.decision = Decide(r, a.list[out.index])
           /\ ~WasRewritten(out) \/ r.pinned => out.index = 1
<1>1. a.kind = "ok"
  BY DEF Answers, Promised, Unsupported, ProviderError, UnsupportedSource, SelectError, Failed
<1>2. /\ a.list \in Seq(Versions) /\ DOMAIN a.list = 1..Len(a.list) /\ Len(a.list) \in Nat
      /\ r.pinned => Len(a.list) = 1
  BY <1>1, AnswerType, LenProperties
<1>3. CASE r.pinned
  <2>1. Promised(r, a) = Selected(1, Decide(r, a.list[1]), 0)
    BY <1>1, <1>3 DEF Promised
  <2>2. 1 \in DOMAIN a.list
    <3>1. Len(a.list) = 1 /\ DOMAIN a.list = 1..Len(a.list)
      BY <1>2, <1>3
    <3>2. DOMAIN a.list = 1..1
      BY <3>1
    <3>3. QED
      BY <3>2
  <2>3. a.list[1] \in Versions
    BY <1>2, <2>2, ElementOfSeq
  <2>4. QED
    BY <2>1, <2>2, <2>3 DEF Selected
<1>4. CASE ~r.pinned
  <2> DEFINE allowed == Judged(r, a.list, "allow")
             asked == Judged(r, a.list, "ask")
             pick == IF allowed # {} THEN Newest(allowed) ELSE Newest(asked)
  <2>1. Promised(r, a) = Best(r, a.list)
    BY <1>1, <1>4 DEF Promised
  <2>2. ~(allowed = {} /\ asked = {})
    BY <2>1 DEF Best, Failed
  <2>3. PICK rej : Promised(r, a) = Selected(pick, Decide(r, a.list[pick]), rej)
    BY <2>1, <2>2 DEF Best
  <2>4. allowed \in SUBSET Nat /\ asked \in SUBSET Nat
    BY <1>2, JudgedParts
  <2>5. pick \in DOMAIN a.list
    BY <2>2, <2>4, NewestInSet DEF Judged, Live
  <2>6. a.list[pick] \in Versions /\ a.list[1] \in Versions
    BY <1>2, <2>5, ElementOfSeq
  <2>7. ~(pick > 1) => pick = 1
    BY <1>2, <2>5
  <2> HIDE DEF pick
  <2>8. QED
    BY <2>3, <2>5, <2>6, <2>7, <1>4 DEF Selected, WasRewritten
<1>5. QED
  BY <1>3, <1>4
=============================================================================
