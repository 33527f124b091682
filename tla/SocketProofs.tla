---------------------------- MODULE SocketProofs ----------------------------
(***************************************************************************)
(* Proofs about the Socket provider: the list of candidates, for every     *)
(* registry, any number of candidates and goroutines, and any answer to a  *)
(* batch; and the comparisons of versions, for all lengths and numbers.    *)
(***************************************************************************)
EXTENDS SocketList, VersionChain, FiniteSetTheorems, TLAPS

Artifact == [sc : Int, ov : Int, alerts : SUBSET AlertKinds]

(* One artifact is as bad as another in every respect.                     *)
AsBad(s, a) == s.sc <= a.sc /\ s.ov <= a.ov /\ a.alerts \subseteq s.alerts

(* The score of a version covers those lines of the answer that are about  *)
(* it.                                                                     *)
Covers(v, s, read) == \A line \in read : line.version = v => AsBad(s, line.artifact)

Reports(v, read) == \E line \in read : line.version = v

(* What the parser of the batch has kept covers the lines it has read.     *)
Kept(read) ==
    /\ \A v \in DOMAIN scored : Reports(v, read)
    /\ \A line \in read : line.artifact \in Artifact /\ line.version \in DOMAIN scored
    /\ \A v \in DOMAIN scored : scored[v] \in Artifact /\ Covers(v, scored[v], read)

ScoresInv ==
    /\ \A line \in lines : line.artifact \in Artifact
    /\ unread \subseteq lines
    /\ pc \in {"start", "info", "score"} => DOMAIN scored = {}
    /\ eco # "npm" /\ pc # "done" => list = <<>>
    /\ pc = "parse" => Kept(lines \ unread)
    /\ pc = "merge" => DOMAIN scored = {} \/ Kept(lines)
    /\ eco # "npm" /\ pc = "done" =>
          \A k \in DOMAIN list :
             \/ list[k].score = Unscored
             \/ /\ list[k].score \in Artifact
                /\ Reports(list[k].version, lines)
                /\ Covers(list[k].version, list[k].score, lines)

-----------------------------------------------------------------------------
(* The policy                                                              *)

LEMMA RankRange == \A d : Rank(d) \in 0..2 /\ Rank(d) <= Rank("deny")
BY DEF Rank

(* Nothing at all is known of the score: the policy denies.                *)
LEMMA UnscoredIsDenied ==
    ASSUME NEW e, e.score = Unscored
    PROVE  Judgement(EvidenceOf(e)) = "deny"
<1>1. EvidenceOf(e).sc = 0 /\ EvidenceOf(e).verdict = "none"
  BY DEF EvidenceOf, Unscored
<1>2. EvaluateScores(Config, EvidenceOf(e)) = "deny"
  BY <1>1, ConfigAssumption DEF EvaluateScores
<1>3. QED
  BY <1>1, <1>2 DEF Judgement, EvaluateEvidence

(* What is as bad as a line is judged no more mildly than it, whenever the *)
(* candidate was published.                                                *)
LEMMA WorseIsNoMilder ==
    ASSUME NEW e, e.score \in Artifact, NEW line, line.artifact \in Artifact,
           AsBad(e.score, line.artifact)
    PROVE  Rank(Judgement(Reported(line))) <= Rank(Judgement(EvidenceOf(e)))
<1> DEFINE old == Reported(line)
           new == EvidenceOf(e)
<1>1. /\ old.sc \in Int /\ old.ov \in Int /\ new.sc \in Int /\ new.ov \in Int
      /\ new.sc <= old.sc /\ new.ov <= old.ov /\ old.alerts \subseteq new.alerts
      /\ old.verdict = "none" /\ new.verdict = "none" /\ old.age = NoDate
  BY DEF Reported, EvidenceOf, AsBad, Artifact
<1> HIDE DEF old, new
<1>2. CASE KnownMalware(Config, new) \/ TooNew(Config, new)
  BY <1>2, RankRange DEF EvaluateEvidence, Judgement, old, new
<1>3. CASE ~(KnownMalware(Config, new) \/ TooNew(Config, new))
  <2>1. ~(KnownMalware(Config, old) \/ TooNew(Config, old))
    BY <1>1, <1>3 DEF KnownMalware, TooNew
  <2>2. Rank(EvaluateScores(Config, old)) <= Rank(EvaluateScores(Config, new))
    <3>1. CASE new.sc < Config.grayMin
      BY <3>1, RankRange DEF EvaluateScores
    <3>2. CASE ~(new.sc < Config.grayMin)
      <4>1. ~(old.sc < Config.grayMin)
        BY <1>1, <3>2, ConfigAssumption
      <4>2. /\ EvaluateScores(Config, old) \in {"ask", "allow"}
            /\ EvaluateScores(Config, new) \in {"ask", "allow"}
        BY <3>2, <4>1 DEF EvaluateScores
      <4>3. EvaluateScores(Config, old) = "ask" => EvaluateScores(Config, new) = "ask"
        BY <1>1, <3>2, <4>1, ConfigAssumption DEF EvaluateScores
      <4>4. QED
        BY <4>2, <4>3 DEF Rank
    <3>3. QED
      BY <3>1, <3>2
  <2>3. QED
    BY <1>1, <1>3, <2>1, <2>2 DEF EvaluateEvidence, Judgement, old, new
<1>4. QED
  BY <1>2, <1>3

-----------------------------------------------------------------------------
(* The batch                                                               *)

(* Aggregating a line into what is kept covers that line as well.          *)
LEMMA AggregateCovers ==
    ASSUME NEW read, NEW line, line.artifact \in Artifact, Kept(read),
           NEW v \in DOMAIN scored \cup {line.version}
    PROVE  LET s == IF v = line.version THEN Aggregate(v, line.artifact) ELSE scored[v]
           IN s \in Artifact /\ Covers(v, s, read \cup {line})
<1> DEFINE a == line.artifact
           s == IF v = line.version THEN Aggregate(v, a) ELSE scored[v]
<1>1. CASE v # line.version
  BY <1>1 DEF Kept, Covers
<1>2. CASE v = line.version /\ v \notin DOMAIN scored
  <2>1. s = a /\ ~Reports(v, read)
    BY <1>2 DEF Aggregate, Kept, Reports
  <2>2. AsBad(a, a)
    BY DEF AsBad, Artifact
  <2>3. QED
    BY <1>2, <2>1, <2>2 DEF Covers, Reports
<1>3. CASE v = line.version /\ v \in DOMAIN scored
  <2>1. PICK old \in Artifact : old = scored[v]
    BY <1>3 DEF Kept
  <2>2. s = [sc |-> Min2(old.sc, a.sc), ov |-> Min2(old.ov, a.ov),
             alerts |-> old.alerts \cup a.alerts]
    BY <1>3, <2>1 DEF Aggregate
  <2> HIDE DEF s
  <2>3. s \in Artifact /\ AsBad(s, old) /\ AsBad(s, a)
    BY <2>1, <2>2 DEF Artifact, AsBad, Min2
  <2>4. Covers(v, old, read)
    BY <1>3, <2>1 DEF Kept
  <2>5. \A b \in Artifact : AsBad(old, b) => AsBad(s, b)
    BY <2>1, <2>3 DEF AsBad, Artifact
  <2>6. Covers(v, s, read)
    BY <2>4, <2>5 DEF Covers, Kept
  <2>7. Covers(v, s, read \cup {line})
    BY <2>3, <2>6 DEF Covers
  <2>8. QED
    BY <2>3, <2>7 DEF s
<1>4. QED
  BY <1>1, <1>2, <1>3

(* Nothing is kept of no lines.                                            *)
LEMMA NothingKept == DOMAIN scored = {} => Kept({})
BY DEF Kept

-----------------------------------------------------------------------------
LEMMA InitScores == Init => ScoresInv
BY DEF Init, ScoresInv

(* Each step keeps the scores covered.                                     *)
LEMMA StepScores == ScoresInv /\ [Next]_vars => ScoresInv'
<1> SUFFICES ASSUME ScoresInv, [Next]_vars
             PROVE  ScoresInv'
  OBVIOUS
<1>1. CASE UNCHANGED vars
  BY <1>1 DEF vars, world, ScoresInv, Kept, Covers, Reports
<1>2. CASE RegistryFails
  BY <1>2 DEF RegistryFails, world, ScoresInv, Kept, Covers, Reports
<1>3. CASE OrderVersions
  BY <1>3 DEF OrderVersions, world, ScoresInv, Kept, Covers, Reports
<1>4. CASE JoinInfos
  BY <1>4 DEF JoinInfos, world, ScoresInv, Kept, Covers, Reports
<1>5. CASE NoCandidates
  BY <1>5 DEF NoCandidates, world, ScoresInv, Kept, Covers, Reports
<1>6. CASE ScoreNextNPM
  <2>1. \A line \in lines' : line.artifact \in Artifact
    <3>1. \/ lines' = lines
          \/ \E a \in Artifacts : \E v : lines' = lines \cup {[version |-> v, artifact |-> a]}
      BY <1>6 DEF ScoreNextNPM
    <3>2. \A a \in Artifacts : a \in Artifact
      BY ArtifactsAssumption DEF Artifact
    <3>3. QED
      BY <3>1, <3>2 DEF ScoresInv
  <2>2. unread' \subseteq lines'
    BY <1>6 DEF ScoreNextNPM, ScoresInv
  <2>3. QED
    BY <1>6, <2>1, <2>2 DEF ScoreNextNPM, world, ScoresInv
<1>7. CASE BatchArrives
  <2>1. \A line \in lines' : line.artifact \in Artifact
    BY <1>7, ArtifactsAssumption DEF BatchArrives, kSubset, Artifact
  <2>2. Kept({})' /\ lines' \ unread' = {}
    BY <1>7 DEF BatchArrives, Batched, ScoresInv, Kept, Covers
  <2>3. QED
    BY <1>7, <2>1, <2>2 DEF BatchArrives, Batched, world, ScoresInv
<1>8. CASE ParseLine
  <2>1. PICK line \in unread :
           /\ unread' = unread \ {line}
           /\ scored' = [v \in DOMAIN scored \cup {line.version} |->
                           IF v = line.version THEN Aggregate(v, line.artifact) ELSE scored[v]]
    BY <1>8 DEF ParseLine
  <2> DEFINE read == lines \ unread
  <2>2. line.artifact \in Artifact /\ Kept(read) /\ pc = "parse"
    BY <1>8, <2>1 DEF ParseLine, ScoresInv
  <2>3. lines' \ unread' = read \cup {line}
    BY <1>8, <2>1 DEF ParseLine, ScoresInv
  <2> HIDE DEF read
  <2>4. \A v \in DOMAIN scored' :
           scored'[v] \in Artifact /\ Covers(v, scored'[v], read \cup {line})
    BY <2>1, <2>2, AggregateCovers
  <2>5. \A v \in DOMAIN scored' : Reports(v, read \cup {line})
    BY <2>1, <2>2 DEF Kept, Reports
  <2>6. \A l \in read \cup {line} : l.artifact \in Artifact /\ l.version \in DOMAIN scored'
    BY <2>1, <2>2 DEF Kept
  <2>7. Kept(lines \ unread)'
    BY <2>3, <2>4, <2>5, <2>6 DEF Kept
  <2>8. QED
    BY <1>8, <2>1, <2>2, <2>7 DEF ParseLine, world, ScoresInv
<1>9. CASE BatchFails
  BY <1>9 DEF BatchFails, Batched, world, ScoresInv
<1>10. CASE BatchParsed
  <2>1. Kept(lines) /\ Kept(lines)' /\ lines' = lines /\ unread' = {}
    BY <1>10 DEF BatchParsed, ScoresInv, Kept, Covers, Reports
  <2>2. QED
    BY <1>10, <2>1 DEF BatchParsed, world, ScoresInv
<1>11. CASE MergeScores
  <2>1. ASSUME NEW k \in DOMAIN list'
        PROVE  \/ list'[k].score = Unscored
               \/ /\ list'[k].score \in Artifact
                  /\ Reports(list'[k].version, lines)
                  /\ Covers(list'[k].version, list'[k].score, lines)
    <3> DEFINE v == ordered[k].version
    <3>1. /\ list'[k].version = v
          /\ list'[k].score = IF v \in DOMAIN scored THEN scored[v] ELSE Unscored
      BY <1>11, <2>1 DEF MergeScores, Listed
    <3>2. CASE v \notin DOMAIN scored
      BY <3>1, <3>2
    <3>3. CASE v \in DOMAIN scored
      BY <1>11, <3>1, <3>3 DEF MergeScores, ScoresInv, Kept
    <3>4. QED
      BY <3>2, <3>3
  <2>2. QED
    BY <1>11, <2>1 DEF MergeScores, world, ScoresInv, Covers, Reports
<1>12. ASSUME NEW k \in DOMAIN info, AcquireSlot(k) \/ Fetch(k)
       PROVE  ScoresInv'
  BY <1>12 DEF AcquireSlot, Fetch, InfoArrives, InfoFails, world, ScoresInv
<1>13. QED
  BY <1>1, <1>2, <1>3, <1>4, <1>5, <1>6, <1>7, <1>8, <1>9, <1>10, <1>11, <1>12 DEF Next, Step

(* Whatever the batch answers, in whatever order its lines are parsed and  *)
(* wherever it breaks off, a candidate is judged no more mildly than any   *)
(* artifact reported for it, and one without a report is denied.           *)
THEOREM JudgedByTheWorst == Spec => []ListIsNoMilder
<1>1. ASSUME ScoresInv
      PROVE  ListIsNoMilder
  <2> SUFFICES ASSUME eco # "npm", Done, NEW k \in DOMAIN list
               PROVE  /\ \A line \in lines :
                            line.version = list[k].version =>
                               Rank(Judgement(Reported(line)))
                                  <= Rank(Judgement(EvidenceOf(list[k])))
                      /\ (\A line \in lines : line.version # list[k].version) =>
                            Judgement(EvidenceOf(list[k])) = "deny"
    BY DEF ListIsNoMilder, NoMilder
  <2>1. CASE list[k].score = Unscored
    BY <2>1, UnscoredIsDenied, RankRange
  <2>2. CASE list[k].score # Unscored
    <3>1. /\ list[k].score \in Artifact
          /\ Reports(list[k].version, lines)
          /\ Covers(list[k].version, list[k].score, lines)
      BY <1>1, <2>2 DEF ScoresInv, Done
    <3>2. ASSUME NEW line \in lines, line.version = list[k].version
          PROVE  Rank(Judgement(Reported(line))) <= Rank(Judgement(EvidenceOf(list[k])))
      <4>1. line.artifact \in Artifact /\ AsBad(list[k].score, line.artifact)
        BY <1>1, <3>1, <3>2 DEF ScoresInv, Covers
      <4>2. QED
        BY <3>1, <4>1, WorseIsNoMilder
    <3>3. QED
      BY <3>1, <3>2 DEF Reports
  <2>3. QED
    BY <2>1, <2>2
<1>2. QED
  BY <1>1, InitScores, StepScores, PTL DEF Spec

-----------------------------------------------------------------------------
(* Sequences of the elements of a finite set                               *)

IsList(q) == \E n \in Nat : DOMAIN q = 1..n

LEMMA Enumerated ==
    ASSUME NEW X, IsFiniteSet(X), NEW s \in SetToSeqs(X)
    PROVE  /\ s \in Seq(X)
           /\ IsList(s)
           /\ \A i, j \in DOMAIN s : i # j => s[i] # s[j]
           /\ \A k \in DOMAIN s : s[k] \in X
           /\ \A e \in X : \E k \in DOMAIN s : s[k] = e
<1> DEFINE n == Cardinality(X)
<1>1. n \in Nat /\ s \in [1..n -> X] /\ \A i, j \in 1..n : i # j => s[i] # s[j]
  BY FS_CardinalityType DEF SetToSeqs
<1>2. IsFiniteSet(1..n) /\ Cardinality(1..n) = n
  BY <1>1, FS_Interval
<1> HIDE DEF n
<1>3. s \in Injection(1..n, X)
  BY <1>1 DEF Injection, IsInjective
<1>4. s \in Surjection(1..n, X)
  BY <1>2, <1>3, FS_Injection DEF n
<1>5. QED
  BY <1>1, <1>4 DEF Surjection, IsList

(* The n-th element of a set of positions.                                 *)
LEMMA Ranking ==
    ASSUME NEW m \in Nat, NEW S \in SUBSET (1..m)
    PROVE  LET nth(n) == CHOOSE k \in S : Cardinality({j \in S : j <= k}) = n IN
           /\ Cardinality(S) \in Nat
           /\ \A n \in 1..Cardinality(S) : nth(n) \in S
           /\ \A i, j \in 1..Cardinality(S) : i < j => nth(i) < nth(j)
           /\ \A k \in S : \E n \in 1..Cardinality(S) : nth(n) = k
<1> DEFINE nth(n) == CHOOSE k \in S : Cardinality({j \in S : j <= k}) = n
           upto(k) == {j \in S : j <= k}
           N == Cardinality(S)
           r == [k \in S |-> Cardinality(upto(k))]
<1>1. IsFiniteSet(S) /\ N \in Nat
  <2>1. IsFiniteSet(1..m)
    BY FS_Interval
  <2>2. IsFiniteSet(S)
    BY <2>1, FS_Subset
  <2>3. QED
    BY <2>2, FS_CardinalityType
<1>2. \A k \in S : IsFiniteSet(upto(k)) /\ Cardinality(upto(k)) \in 1..N
  <2> TAKE k \in S
  <2>1. IsFiniteSet(upto(k)) /\ Cardinality(upto(k)) <= N /\ Cardinality(upto(k)) \in Nat
    BY <1>1, FS_Subset, FS_CardinalityType
  <2>2. upto(k) # {}
    OBVIOUS
  <2>3. Cardinality(upto(k)) # 0
    BY <2>1, <2>2, FS_EmptySet
  <2>4. QED
    BY <1>1, <2>1, <2>3
<1>3. \A i, j \in S : i < j => r[i] < r[j]
  <2> TAKE i, j \in S
  <2> HAVE i < j
  <2>1. upto(i) \in SUBSET upto(j) /\ upto(i) # upto(j)
    <3>1. i \in Int /\ j \in Int /\ S \subseteq Int
      OBVIOUS
    <3>2. j \in upto(j) /\ j \notin upto(i)
      BY <3>1
    <3>3. \A k \in S : k <= i => k <= j
      BY <3>1
    <3>4. upto(i) \subseteq upto(j)
      BY <3>3
    <3>5. QED
      BY <3>2, <3>4
  <2>2. Cardinality(upto(i)) <= Cardinality(upto(j)) /\ Cardinality(upto(i)) # Cardinality(upto(j))
    BY <1>2, <2>1, FS_Subset
  <2>3. QED
    BY <1>2, <2>2
<1>4. r \in [S -> 1..N]
  BY <1>2
<1> HIDE DEF N, r
<1>5. \A i, j \in S : r[i] = r[j] => i = j
  BY <1>3, <1>4
<1>6. r \in Injection(S, 1..N)
  BY <1>4, <1>5 DEF Injection, IsInjective
<1>7. IsFiniteSet(1..N) /\ Cardinality(1..N) = N
  BY <1>1, FS_Interval
<1>8. r \in Surjection(S, 1..N)
  BY <1>6, <1>7, FS_Injection DEF N
<1>9. \A n \in 1..N : nth(n) \in S /\ r[nth(n)] = n
  <2> TAKE n \in 1..N
  <2>1. \E k \in S : r[k] = n
    BY <1>8 DEF Surjection
  <2>2. QED
    BY <2>1 DEF r
<1> HIDE DEF nth
<1>10. \A i, j \in 1..N : i < j => nth(i) < nth(j)
  <2> TAKE i, j \in 1..N
  <2> HAVE i < j
  <2>1. PICK a \in S, b \in S : nth(i) = a /\ nth(j) = b /\ r[a] = i /\ r[b] = j
    BY <1>9
  <2>2. /\ a \in Int /\ b \in Int /\ i \in Int /\ j \in Int
        /\ ~(j < i) /\ i # j
    BY <1>1
  <2>3. ~(b < a) /\ a # b
    BY <1>3, <2>1, <2>2
  <2>4. QED
    BY <2>1, <2>2, <2>3
<1>11. \A k \in S : \E n \in 1..N : nth(n) = k
  BY <1>4, <1>5, <1>9
<1>12. QED
  BY <1>1, <1>9, <1>10, <1>11 DEF N, nth

-----------------------------------------------------------------------------
(* The orders                                                              *)

InWorld ==
    /\ eco \in {"npm", "pypi", "go", "cargo"}
    /\ IsFiniteSet(registry)
    /\ \A a, b \in registry : a.version = b.version => a = b

(* What the registry answers: for Go, without the times.                   *)
Answered == IF eco = "go" THEN {Dated(e.version, NoTime) : e \in registry} ELSE registry

Regular(X) == \A e \in X : e.version.ok /\ ~e.version.pseudo

(* The order of an ecosystem enumerates one set of the releases, newest    *)
(* first if all of it are versions that compare.                           *)
LEMMA OrderIsNewestFirst ==
    ASSUME eco \in {"npm", "pypi", "go", "cargo"}
    PROVE  \E X \in SUBSET Answered :
              \A s \in Orderings :
                 /\ s \in SetToSeqs(X)
                 /\ \A k \in DOMAIN s : s[k] \in X
                 /\ Regular(X) =>
                       \A j, k \in DOMAIN s : j < k => ~Newer(s[k], s[j])
<1>1. ASSUME NEW X, NEW s \in SetToSeqs(X)
      PROVE  \A k \in DOMAIN s : s[k] \in X
  BY DEF SetToSeqs
<1> DEFINE R == Answered
           parsed == Parsed(R)
<1>2. CASE eco = "npm"
  <2>1. \A s \in Orderings :
           /\ s \in SetToSeqs(R)
           /\ \A j, k \in DOMAIN s : j < k => ~Newer(s[k], s[j])
    BY <1>2 DEF Orderings, OrderNPMVersions, Sorted, Newer, Answered
  <2>2. QED
    BY <1>1, <2>1
<1>3. CASE eco = "pypi"
  <2> DEFINE stable == {e \in parsed : ~IsPEP440Prerelease(e.version)}
  <2>1. Orderings = IF stable # {} THEN Sorted(stable, ByPEP440)
                    ELSE IF parsed # {} THEN Sorted(parsed, ByPEP440)
                    ELSE Sorted(R, ByPublishedAt)
    BY <1>3 DEF Orderings, OrderPyPIVersions, Answered
  <2>3. \A a, b : Newer(a, b) <=> ByPEP440(a, b)
    BY <1>3 DEF Newer
  <2>4. CASE stable # {}
    BY <1>1, <2>1, <2>3, <2>4 DEF Sorted, Parsed
  <2>5. CASE stable = {} /\ parsed # {}
    BY <1>1, <2>1, <2>3, <2>5 DEF Sorted, Parsed
  <2>6. CASE stable = {} /\ parsed = {}
    BY <1>1, <2>1, <2>6 DEF Sorted, Parsed, Regular
  <2>7. QED
    BY <2>4, <2>5, <2>6
<1>4. CASE eco = "cargo"
  <2> DEFINE stable == {e \in parsed : e.version.pre = <<>>}
  <2>1. Orderings = IF stable # {} THEN Sorted(stable, BySemver)
                    ELSE IF parsed # {} THEN Sorted(parsed, BySemver)
                    ELSE Sorted(R, ByPublishedAt)
    BY <1>4 DEF Orderings, OrderCargoVersions, Answered
  <2>3. \A a, b : Newer(a, b) <=> BySemver(a, b)
    BY <1>4 DEF Newer
  <2>4. CASE stable # {}
    BY <1>1, <2>1, <2>3, <2>4 DEF Sorted, Parsed
  <2>5. CASE stable = {} /\ parsed # {}
    BY <1>1, <2>1, <2>3, <2>5 DEF Sorted, Parsed
  <2>6. CASE stable = {} /\ parsed = {}
    BY <1>1, <2>1, <2>6 DEF Sorted, Parsed, Regular
  <2>7. QED
    BY <2>4, <2>5, <2>6
<1>5. CASE eco = "go"
  <2> DEFINE tagged == {e \in parsed : ~e.version.pseudo}
             stable == {e \in tagged : e.version.pre = <<>>}
  <2>1. Orderings = IF stable # {} THEN Sorted(stable, BySemver)
                    ELSE IF tagged # {} THEN Sorted(tagged, BySemver)
                    ELSE IF parsed # {} THEN Sorted(parsed, ByPublishedAt)
                    ELSE Sorted(R, ByPublishedAt)
    BY <1>5 DEF Orderings, OrderGoVersions, Answered
  <2>3. \A a, b : Newer(a, b) <=> BySemver(a, b)
    BY <1>5 DEF Newer
  <2>4. CASE stable # {}
    BY <1>1, <2>1, <2>3, <2>4 DEF Sorted, Parsed
  <2>5. CASE stable = {} /\ tagged # {}
    BY <1>1, <2>1, <2>3, <2>5 DEF Sorted, Parsed
  <2>6. CASE stable = {} /\ tagged = {} /\ parsed # {}
    <3>1. Orderings = Sorted(parsed, ByPublishedAt)
      BY <2>1, <2>6
    <3>2. ~Regular(parsed)
      BY <2>6 DEF Regular
    <3>3. \A s \in Orderings : s \in SetToSeqs(parsed) /\ \A k \in DOMAIN s : s[k] \in parsed
      BY <1>1, <3>1 DEF Sorted
    <3>4. parsed \in SUBSET Answered
      BY DEF Parsed
    <3>5. QED
      BY <3>2, <3>3, <3>4
  <2>7. CASE stable = {} /\ tagged = {} /\ parsed = {}
    BY <1>1, <2>1, <2>7 DEF Sorted, Parsed, Regular
  <2>8. QED
    BY <2>4, <2>5, <2>6, <2>7
<1>6. QED
  BY <1>2, <1>3, <1>4, <1>5

(* Two candidates of which the order sees the same.                        *)
Alike(a, b) == a.version = b.version /\ (eco # "go" => a.published = b.published)

LEMMA AlikeAreOrderedAlike ==
    ASSUME eco \in {"npm", "pypi", "go", "cargo"},
           NEW a, NEW b, NEW c, NEW d, Alike(a, b), Alike(c, d)
    PROVE  Newer(a, c) <=> Newer(b, d)
BY DEF Alike, Newer, ByPEP440, BySemver

LEMMA AnsweredFacts ==
    ASSUME InWorld
    PROVE  /\ IsFiniteSet(Answered)
           /\ \A a, b \in Answered : a.version = b.version => a = b
           /\ \A a \in Answered : \E e \in registry : Alike(e, a)
<1>1. CASE eco = "go"
  <2> DEFINE f == [e \in registry |-> Dated(e.version, NoTime)]
  <2>1. f \in Surjection(registry, Answered)
    BY <1>1 DEF Surjection, Answered
  <2>2. IsFiniteSet(Answered)
    BY <2>1, FS_Surjection DEF InWorld
  <2>3. \A a \in Answered : \E e \in registry : a = Dated(e.version, NoTime) /\ e.version = a.version
    BY <1>1 DEF Answered, Dated
  <2>4. QED
    BY <1>1, <2>2, <2>3 DEF Alike, InWorld
<1>2. CASE eco # "go"
  BY <1>2 DEF InWorld, Answered, Alike
<1>3. QED
  BY <1>1, <1>2

(* The list that the order makes, before any of it is left out.            *)
LEMMA OrderedFacts ==
    ASSUME InWorld, NEW s \in Orderings
    PROVE  /\ IsList(s) /\ \E S : s \in Seq(S)
           /\ \A j, k \in DOMAIN s : j # k => s[j].version # s[k].version
           /\ \A k \in DOMAIN s : Alike(Release(s[k].version), s[k])
           /\ Offered = {s[k].version : k \in DOMAIN s}
           /\ Comparable => \A j, k \in DOMAIN s : j < k => ~Newer(s[k], s[j])
<1>1. PICK X \in SUBSET Answered :
              \A t \in Orderings :
                 /\ t \in SetToSeqs(X)
                 /\ \A k \in DOMAIN t : t[k] \in X
                 /\ Regular(X) =>
                       \A j, k \in DOMAIN t : j < k => ~Newer(t[k], t[j])
  BY OrderIsNewestFirst DEF InWorld
<1>2. IsFiniteSet(X)
  BY AnsweredFacts, FS_Subset
<1>3. \A t \in Orderings :
         /\ t \in Seq(X) /\ IsList(t)
         /\ \A i, j \in DOMAIN t : i # j => t[i] # t[j]
         /\ \A k \in DOMAIN t : t[k] \in X
         /\ \A e \in X : \E k \in DOMAIN t : t[k] = e
  BY <1>1, <1>2, Enumerated
<1>4. \A t \in Orderings : {t[k].version : k \in DOMAIN t} = {e.version : e \in X}
  BY <1>3
<1>5. Offered = {e.version : e \in X}
  <2> DEFINE versions == {e.version : e \in X}
  <2>1. \A t \in Orderings : {t[k].version : k \in DOMAIN t} = versions
    BY <1>4
  <2> HIDE DEF versions
  <2>2. {{t[k].version : k \in DOMAIN t} : t \in Orderings} = {versions}
    BY <2>1
  <2>3. QED
    BY <2>2 DEF Offered, versions
<1>6. Comparable => Regular(X)
  BY <1>5 DEF Comparable, Regular
<1>7. \A j, k \in DOMAIN s : j # k => s[j].version # s[k].version
  BY <1>3, AnsweredFacts
<1>8. ASSUME NEW k \in DOMAIN s
      PROVE  Alike(Release(s[k].version), s[k])
  <2>1. PICK e \in registry : Alike(e, s[k])
    BY <1>3, AnsweredFacts
  <2>2. \A d \in registry : d.version = s[k].version => d = e
    BY <2>1 DEF InWorld, Alike
  <2>3. Release(s[k].version) = e
    BY <2>1, <2>2 DEF Release, Alike
  <2>4. QED
    BY <2>1, <2>3
<1>9. QED
  BY <1>1, <1>3, <1>4, <1>5, <1>6, <1>7, <1>8

(* The first of it.                                                        *)
LEMMA CappedFacts ==
    ASSUME NEW S, NEW s \in Seq(S)
    PROVE  /\ DOMAIN Capped(s) \subseteq DOMAIN s
           /\ IsList(Capped(s))
           /\ \A k \in DOMAIN Capped(s) : Capped(s)[k] = s[k]
           /\ \A j \in DOMAIN Capped(s), k \in DOMAIN s \ DOMAIN Capped(s) : j < k
<1> DEFINE n == IF Len(s) < MaxCandidates THEN Len(s) ELSE MaxCandidates
<1>1. n \in Nat /\ n <= Len(s) /\ Len(s) \in Nat /\ DOMAIN s = 1..Len(s)
  BY BoundsAssumption
<1>2. Capped(s) = [k \in 1..n |-> s[k]]
  <2>1. Capped(s) = SubSeq(s, 1, n)
    BY DEF Capped
  <2> HIDE DEF n
  <2>2. QED
    BY <1>1, <2>1
<1> HIDE DEF n
<1>3. QED
  BY <1>1, <1>2 DEF IsList

-----------------------------------------------------------------------------
(* The list                                                                *)

(* The positions that reach the list.                                      *)
Retained(s) == IF eco = "go" THEN Filled ELSE DOMAIN Capped(s)

(* The candidates are those of the order that were retained, in its order. *)
Picks(s, f) ==
    /\ f \in [DOMAIN ordered -> Retained(s)]
    /\ \A i, j \in DOMAIN ordered : i < j => f[i] < f[j]
    /\ \A k \in Retained(s) : \E j \in DOMAIN ordered : f[j] = k
    /\ \A j \in DOMAIN ordered : Alike(ordered[j], s[f[j]])

(* The slots of the goroutines, one for each candidate.                    *)
Fetches(s) ==
    /\ DOMAIN ordered = DOMAIN Capped(s)
    /\ \A k \in DOMAIN ordered : info[k] = "found" => Alike(ordered[k], s[k])

Candidates(s) ==
    /\ candidates = Capped(s)
    /\ eco = "go" => DOMAIN info = DOMAIN Capped(s)
    /\ pc = "info" => eco = "go" /\ Fetches(s)
    /\ pc # "info" =>
          /\ eco = "go" => \A k \in DOMAIN info : info[k] \in {"found", "failed"}
          /\ \E f : Picks(s, f)

Ordered == {"info", "score", "parse", "merge", "done"}

LengthsOK ==
    /\ IsList(ordered) /\ IsList(list)
    /\ eco # "npm" /\ pc # "done" => DOMAIN list = {}
    /\ pc \in {"start", "info"} => DOMAIN list = {}
    /\ pc \in {"score", "done"} => DOMAIN list \subseteq DOMAIN ordered
    /\ pc = "done" => DOMAIN list = DOMAIN ordered

OrderInv ==
    /\ InWorld
    /\ pc \in Ordered \cup {"start", "error", "unsupported"}
    /\ pc \in Ordered => \E s \in Orderings : Candidates(s)
    /\ LengthsOK
    /\ pc \in {"score", "done"} => \A k \in DOMAIN list : Alike(list[k], ordered[k])

(* Candidates picked in its order are in the order of the whole.           *)
LEMMA PickedInOrder ==
    ASSUME InWorld, NEW s \in Orderings, NEW f, Picks(s, f),
           eco = "go" => DOMAIN info = DOMAIN Capped(s)
    PROVE  \A j, k \in DOMAIN ordered : j < k =>
              /\ ordered[j].version # ordered[k].version
              /\ Comparable => ~Newer(ordered[k], ordered[j])
<1> SUFFICES ASSUME NEW j \in DOMAIN ordered, NEW k \in DOMAIN ordered, j < k
             PROVE  /\ ordered[j].version # ordered[k].version
                    /\ Comparable => ~Newer(ordered[k], ordered[j])
  OBVIOUS
<1>1. PICK a \in Retained(s), b \in Retained(s) :
         a < b /\ Alike(ordered[j], s[a]) /\ Alike(ordered[k], s[b])
  BY DEF Picks
<1>2. a \in DOMAIN s /\ b \in DOMAIN s /\ DOMAIN s \subseteq Int
  BY OrderedFacts, CappedFacts DEF Retained, Filled, IsList
<1>3. a # b
  BY <1>1, <1>2
<1>4. s[a].version # s[b].version /\ (Comparable => ~Newer(s[b], s[a]))
  BY <1>1, <1>2, <1>3, OrderedFacts
<1>5. QED
  BY <1>1, <1>4, AlikeAreOrderedAlike DEF Alike, InWorld

LEMMA OrderInvImpliesOrdered == OrderInv => ListIsOrdered
<1> SUFFICES ASSUME OrderInv, Done, Comparable,
                    NEW j \in DOMAIN list, NEW k \in DOMAIN list, j < k
             PROVE  list[j].version # list[k].version /\ ~Newer(list[k], list[j])
  BY DEF ListIsOrdered
<1>1. PICK s \in Orderings : Candidates(s)
  BY DEF OrderInv, Done, Ordered
<1>2. PICK f : Picks(s, f)
  BY <1>1 DEF Candidates, Done
<1>3. j \in DOMAIN ordered /\ k \in DOMAIN ordered
  BY DEF OrderInv, LengthsOK, Done
<1>4. ordered[j].version # ordered[k].version /\ ~Newer(ordered[k], ordered[j])
  BY <1>1, <1>2, <1>3, PickedInOrder DEF Candidates, OrderInv
<1>5. Alike(list[j], ordered[j]) /\ Alike(list[k], ordered[k])
  BY DEF OrderInv, Done
<1>6. QED
  BY <1>4, <1>5, AlikeAreOrderedAlike DEF Alike, OrderInv, InWorld

LEMMA OrderInvImpliesGaps == OrderInv => GapsAreFailures
<1> SUFFICES ASSUME OrderInv, Done, Comparable,
                    NEW v \in Offered \ ListedVersions, NEW u \in ListedVersions,
                    Newer(Release(v), Release(u))
             PROVE  eco = "go" /\ InfoFailed(v)
  BY DEF GapsAreFailures
<1>1. PICK s \in Orderings : Candidates(s)
  BY DEF OrderInv, Done, Ordered
<1>2. PICK f : Picks(s, f)
  BY <1>1 DEF Candidates, Done
<1>3. InWorld
  BY DEF OrderInv
<1>4. DOMAIN Capped(s) \subseteq DOMAIN s /\ Retained(s) \subseteq DOMAIN Capped(s)
  BY <1>1, <1>3, OrderedFacts, CappedFacts DEF Candidates, Retained, Filled
<1>5. ListedVersions = {s[k].version : k \in Retained(s)}
  <2>1. \A k \in DOMAIN ordered : list[k].version = ordered[k].version
    BY DEF OrderInv, LengthsOK, Done, Alike
  <2>2. ListedVersions = {ordered[k].version : k \in DOMAIN ordered}
    BY <2>1 DEF ListedVersions, OrderInv, LengthsOK, Done
  <2>3. \A j \in DOMAIN ordered : f[j] \in Retained(s) /\ ordered[j].version = s[f[j]].version
    BY <1>2 DEF Picks, Alike
  <2>4. \A k \in Retained(s) : \E j \in DOMAIN ordered : s[k].version = ordered[j].version
    BY <1>2, <2>3 DEF Picks
  <2>5. QED
    BY <2>2, <2>3, <2>4
<1>6. PICK k \in DOMAIN Capped(s) \ Retained(s) : v = s[k].version
  <2>1. PICK b \in DOMAIN s : v = s[b].version
    BY <1>3, OrderedFacts
  <2>2. b \notin Retained(s)
    BY <1>5, <2>1
  <2>3. PICK a \in Retained(s) : Newer(Release(v), Release(s[a].version))
    BY <1>5
  <2>4. a \in DOMAIN Capped(s) /\ a \in DOMAIN s
    BY <1>4
  <2>5. Newer(s[b], s[a])
    BY <1>3, <2>1, <2>3, <2>4, OrderedFacts, AlikeAreOrderedAlike DEF InWorld
  <2>6. ~(a < b)
    BY <1>3, <2>1, <2>4, <2>5, OrderedFacts
  <2>7. b \in DOMAIN Capped(s)
    BY <1>3, <2>1, <2>4, <2>6, OrderedFacts, CappedFacts
  <2>8. QED
    BY <2>1, <2>2, <2>7
<1>7. eco = "go"
  BY <1>6 DEF Retained
<1>8. k \in DOMAIN info /\ info[k] = "failed"
  BY <1>1, <1>6, <1>7 DEF Candidates, Retained, Filled, Done
<1>9. candidates[k].version = v
  BY <1>1, <1>3, <1>6, OrderedFacts, CappedFacts DEF Candidates
<1>10. QED
  BY <1>7, <1>8, <1>9 DEF InfoFailed

LEMMA InitOrder == Init => OrderInv
<1> SUFFICES ASSUME Init
             PROVE  OrderInv
  OBVIOUS
<1>1. InWorld
  <2>1. registry \in SUBSET Releases[eco] /\ eco \in Ecosystems
    BY DEF Init
  <2>2. IsFiniteSet(registry)
    BY <2>1, ReleasesAssumption, FS_Subset
  <2>3. QED
    BY <2>1, <2>2, ReleasesAssumption, EcosystemsAssumption DEF InWorld
<1>2. IsList(<<>>) /\ DOMAIN <<>> = {}
  BY DEF IsList
<1>3. QED
  BY <1>1, <1>2 DEF Init, OrderInv, LengthsOK, Ordered

(* What no step touches.                                                   *)
LEMMA WorldKept ==
    ASSUME UNCHANGED world
    PROVE  /\ InWorld' <=> InWorld
           /\ Orderings' = Orderings
           /\ \A a, b : Alike(a, b)' <=> Alike(a, b)
BY DEF world, InWorld, Orderings, Alike

(* A step that leaves the candidates alone.                                *)
LEMMA CandidatesKept ==
    ASSUME UNCHANGED <<world, candidates, ordered, info>>, NEW s, Candidates(s), pc # "info", pc' # "info"
    PROVE  Candidates(s)'
BY DEF Candidates, world, Picks, Retained, Filled, Alike, Capped

(* The slots that are filled, in order, are the candidates picked.         *)
LEMMA JoinPicks ==
    ASSUME JoinInfos, InWorld, NEW s \in Orderings, Candidates(s)
    PROVE  Candidates(s)' /\ IsList(ordered)'
<1>1. PICK m \in Nat : DOMAIN info = 1..m
  BY OrderedFacts, CappedFacts DEF Candidates, JoinInfos, IsList
<1>2. Filled \in SUBSET (1..m)
  BY <1>1 DEF Filled
<1> DEFINE N == Cardinality(Filled)
           f == [n \in 1..N |-> NthFilled(n)]
<1>3. /\ N \in Nat
      /\ \A n \in 1..N : NthFilled(n) \in Filled
      /\ \A i, j \in 1..N : i < j => NthFilled(i) < NthFilled(j)
      /\ \A k \in Filled : \E n \in 1..N : NthFilled(n) = k
  BY <1>2, Ranking DEF NthFilled
<1>4. /\ ordered' = [n \in 1..N |-> ordered[NthFilled(n)]]
      /\ pc = "info" /\ pc' = "score" /\ UNCHANGED world /\ info' = info
      /\ candidates' = candidates
      /\ \A k \in DOMAIN info : info[k] \in {"found", "failed"}
  BY DEF JoinInfos
<1>5. eco = "go" /\ Fetches(s) /\ DOMAIN info = DOMAIN Capped(s)
  BY <1>4 DEF Candidates
<1>6. Retained(s)' = Filled
  BY <1>4, <1>5 DEF Retained, Filled, world
<1>7. PICK g : g \in [1..N -> Filled] /\ \A n \in 1..N : g[n] = NthFilled(n)
  <2>1. f \in [1..N -> Filled] /\ \A n \in 1..N : f[n] = NthFilled(n)
    BY <1>3
  <2>2. QED
    BY <2>1
<1>8. Filled \subseteq DOMAIN ordered
  BY <1>5 DEF Fetches, Filled
<1> HIDE DEF N, f
<1>9. \A n \in 1..N : Alike(ordered'[n], s[g[n]])
  BY <1>3, <1>4, <1>5, <1>7, <1>8 DEF Fetches, Filled
<1>10. DOMAIN ordered' = 1..N
  BY <1>4
<1>11. eco' = eco
  BY <1>4 DEF world
<1>12. Picks(s, g)'
  <2>1. /\ g \in [DOMAIN ordered' -> Filled]
        /\ \A i, j \in DOMAIN ordered' : i < j => g[i] < g[j]
        /\ \A k \in Filled : \E j \in DOMAIN ordered' : g[j] = k
    BY <1>3, <1>7, <1>10
  <2>2. \A j \in DOMAIN ordered' : Alike(ordered'[j], s[g[j]])
    BY <1>9, <1>10
  <2>3. QED
    BY <1>6, <1>11, <2>1, <2>2 DEF Picks, Alike
<1>13. Capped(s)' = Capped(s) /\ eco' = eco
  BY <1>4 DEF Capped, world
<1>14. Candidates(s)'
  BY <1>4, <1>5, <1>12, <1>13 DEF Candidates
<1>15. QED
  BY <1>3, <1>10, <1>14 DEF IsList

(* A sequence that one element is appended to.                             *)
LEMMA Appended ==
    ASSUME NEW q, NEW n \in Nat, DOMAIN q = 1..n, NEW e
    PROVE  /\ IsList(Append(q, e))
           /\ Len(q) = n
           /\ DOMAIN Append(q, e) = 1..(n + 1)
           /\ \A k \in 1..n : Append(q, e)[k] = q[k]
           /\ Append(q, e)[n + 1] = e
BY DEF IsList

(* Every step keeps the candidates and the list in order.                  *)
LEMMA StepOrder == OrderInv /\ [Next]_vars => OrderInv'
<1> SUFFICES ASSUME OrderInv, [Next]_vars
             PROVE  OrderInv'
  OBVIOUS
<1>1. CASE UNCHANGED vars
  <2>1. InWorld' /\ Orderings' = Orderings
    BY <1>1, WorldKept DEF vars, OrderInv
  <2>2. \A s : Candidates(s)' <=> Candidates(s)
    BY <1>1 DEF vars, world, Candidates, Picks, Retained, Filled, Fetches, Alike, Capped
  <2>3. QED
    BY <1>1, <2>1, <2>2 DEF vars, world, OrderInv, LengthsOK, Alike
<1>2. CASE RegistryFails
  <2>1. InWorld' /\ pc' \in {"error", "unsupported"}
    BY <1>2, WorldKept DEF RegistryFails, OrderInv
  <2>2. QED
    BY <1>2, <2>1 DEF RegistryFails, OrderInv, LengthsOK, Ordered
<1>3. CASE OrderVersions
  <2>1. PICK s \in Orderings :
           /\ candidates' = Capped(s)
           /\ IF eco = "go"
              THEN /\ ordered' = [k \in DOMAIN Capped(s) |-> EmptySlot]
                   /\ info' = [k \in DOMAIN Capped(s) |-> "waiting"]
              ELSE ordered' = Capped(s) /\ UNCHANGED info
    BY <1>3 DEF OrderVersions
  <2>2. /\ InWorld' /\ Orderings' = Orderings /\ UNCHANGED world
        /\ pc = "start" /\ pc' = (IF eco = "go" THEN "info" ELSE "score") /\ list' = list
    BY <1>3, WorldKept DEF OrderVersions, OrderInv
  <2>3. /\ DOMAIN Capped(s) \subseteq DOMAIN s /\ IsList(Capped(s))
        /\ \A k \in DOMAIN Capped(s) : Capped(s)[k] = s[k]
    BY OrderedFacts, CappedFacts DEF OrderInv
  <2>4. Capped(s)' = Capped(s) /\ eco' = eco
    BY <2>2 DEF Capped, world
  <2>5. CASE eco = "go"
    <3>1. /\ ordered' = [k \in DOMAIN Capped(s) |-> EmptySlot]
          /\ info' = [k \in DOMAIN Capped(s) |-> "waiting"]
      BY <2>1, <2>5
    <3>2. /\ DOMAIN ordered' = DOMAIN Capped(s) /\ DOMAIN info' = DOMAIN Capped(s)
          /\ \A k \in DOMAIN ordered' : info'[k] # "found"
      BY <3>1
    <3>3. Fetches(s)'
      BY <2>4, <3>2 DEF Fetches
    <3>4. pc' = "info" /\ candidates' = Capped(s)
      BY <2>1, <2>2, <2>5
    <3>5. Candidates(s)'
      BY <2>4, <2>5, <3>2, <3>3, <3>4 DEF Candidates
    <3>6. LengthsOK'
      BY <2>2, <2>3, <3>2, <3>4 DEF OrderInv, LengthsOK, IsList
    <3>7. QED
      BY <2>2, <3>4, <3>5, <3>6 DEF OrderInv, Ordered
  <2>6. CASE eco # "go"
    <3>1. PICK g : g = [k \in DOMAIN Capped(s) |-> k]
      OBVIOUS
    <3>2. Retained(s)' = DOMAIN Capped(s)
      BY <2>4, <2>6 DEF Retained
    <3>3. ordered' = Capped(s) /\ candidates' = Capped(s) /\ pc' = "score"
      BY <2>1, <2>2, <2>6
    <3>4. Picks(s, g)'
      BY <2>3, <3>1, <3>2, <3>3 DEF Picks, Alike
    <3>5. Candidates(s)'
      BY <2>4, <2>6, <3>3, <3>4 DEF Candidates
    <3>6. QED
      BY <2>2, <2>3, <2>6, <3>3, <3>5 DEF OrderInv, LengthsOK, Ordered
  <2>7. QED
    BY <2>5, <2>6
<1>4. CASE JoinInfos
  <2>1. PICK s \in Orderings : Candidates(s)
    BY <1>4 DEF JoinInfos, OrderInv, Ordered
  <2>2. Candidates(s)' /\ IsList(ordered)'
    BY <1>4, <2>1, JoinPicks DEF OrderInv
  <2>3. InWorld' /\ Orderings' = Orderings /\ pc = "info" /\ pc' = "score" /\ list' = list
    BY <1>4, WorldKept DEF JoinInfos, OrderInv
  <2>4. QED
    BY <2>1, <2>2, <2>3 DEF OrderInv, LengthsOK, Ordered
<1>5. ASSUME UNCHANGED <<world, candidates, ordered, info>>, pc \in Ordered \ {"info"}, pc' \in Ordered \ {"info"}
      PROVE  /\ InWorld' /\ pc' \in Ordered
             /\ \E s \in Orderings' : Candidates(s)'
             /\ IsList(ordered)'
  <2>1. PICK s \in Orderings : Candidates(s)
    BY <1>5 DEF OrderInv
  <2>2. Candidates(s)'
    BY <1>5, <2>1, CandidatesKept
  <2>3. QED
    BY <1>5, <2>2, WorldKept DEF OrderInv, LengthsOK
<1>6. CASE NoCandidates
  <2>1. pc' = "done" /\ pc = "score" /\ UNCHANGED <<world, candidates, ordered, info, list>> /\ ordered = <<>>
    BY <1>6 DEF NoCandidates
  <2>2. DOMAIN list \subseteq DOMAIN ordered /\ DOMAIN ordered = {}
    BY <2>1 DEF OrderInv, LengthsOK
  <2>3. QED
    BY <1>5, <2>1, <2>2 DEF OrderInv, LengthsOK, Ordered
<1>7. CASE ScoreNextNPM
  <2>1. PICK e : /\ Alike(e, ordered[Len(list) + 1])
                 /\ list' = Append(list, e)
    <3> DEFINE c == ordered[Len(list) + 1]
    <3>1. \E a : list' = Append(list, Listed(c, a))
      BY <1>7 DEF ScoreNextNPM
    <3>2. \A a : Alike(Listed(c, a), c)
      BY DEF Alike, Listed
    <3>3. QED
      BY <3>1, <3>2
  <2>2. PICK n \in Nat, m \in Nat : DOMAIN list = 1..n /\ DOMAIN ordered = 1..m
    BY DEF OrderInv, LengthsOK, IsList
  <2>3. /\ pc = "score" /\ eco = "npm" /\ UNCHANGED <<world, candidates, ordered, info>>
        /\ Len(list) < Len(ordered)
        /\ pc' = IF Len(list') = Len(ordered) THEN "done" ELSE "score"
    BY <1>7 DEF ScoreNextNPM
  <2>4. /\ IsList(list') /\ DOMAIN list' = 1..(n + 1) /\ Len(list) = n
        /\ \A k \in 1..n : list'[k] = list[k]
        /\ list'[n + 1] = e
    BY <2>1, <2>2, Appended
  <2>5. Len(list') = n + 1 /\ Len(ordered) = m
    BY <2>2, <2>4, Appended
  <2>6. \A k \in DOMAIN list' : Alike(list'[k], ordered[k])
    BY <2>1, <2>2, <2>3, <2>4 DEF OrderInv
  <2>7. \A k \in DOMAIN list' : Alike(list[k], ordered[k])'
    BY <2>3, <2>6 DEF Alike, world
  <2>8. LengthsOK'
    BY <2>2, <2>3, <2>4, <2>5 DEF LengthsOK, OrderInv, world
  <2>9. pc' \in Ordered \ {"info"} /\ pc \in Ordered \ {"info"}
    BY <2>3 DEF Ordered
  <2>10. QED
    BY <1>5, <2>3, <2>7, <2>8, <2>9 DEF OrderInv
<1>8. CASE BatchArrives \/ ParseLine \/ BatchFails \/ BatchParsed
  <2>1. /\ UNCHANGED <<world, candidates, ordered, info, list>>
        /\ pc \in {"score", "parse"} /\ pc' \in {"parse", "merge"}
    BY <1>8 DEF BatchArrives, ParseLine, BatchFails, BatchParsed, Batched
  <2>2. QED
    BY <1>5, <2>1 DEF OrderInv, LengthsOK, Ordered, world
<1>9. CASE MergeScores
  <2>1. /\ UNCHANGED <<world, candidates, ordered, info>> /\ pc = "merge" /\ pc' = "done"
        /\ DOMAIN list' = DOMAIN ordered
        /\ \A k \in DOMAIN ordered : Alike(list'[k], ordered[k])
    BY <1>9 DEF MergeScores, Listed, Alike
  <2>2. \A k \in DOMAIN list' : Alike(list[k], ordered[k])'
    BY <2>1 DEF Alike, world
  <2>3. LengthsOK'
    BY <2>1 DEF LengthsOK, OrderInv, IsList
  <2>4. QED
    BY <1>5, <2>1, <2>2, <2>3 DEF OrderInv, Ordered
<1>10. ASSUME NEW k \in DOMAIN info, AcquireSlot(k) \/ Fetch(k)
       PROVE  OrderInv'
  <2>1. PICK s \in Orderings : Candidates(s)
    BY <1>10 DEF AcquireSlot, Fetch, InfoArrives, InfoFails, OrderInv, Ordered
  <2>2. /\ pc = "info" /\ pc' = "info" /\ list' = list /\ UNCHANGED world
        /\ candidates' = candidates
        /\ DOMAIN info' = DOMAIN info
        /\ DOMAIN ordered' = DOMAIN ordered
    BY <1>10 DEF AcquireSlot, Fetch, InfoArrives, InfoFails
  <2>3. /\ eco = "go" /\ eco' = eco /\ Capped(s)' = Capped(s)
        /\ Fetches(s) /\ DOMAIN info = DOMAIN ordered
    BY <2>1, <2>2 DEF Candidates, Fetches, world, Capped
  <2>4. \A j \in DOMAIN ordered : info'[j] = "found" => Alike(ordered'[j], s[j])
    <3>1. CASE AcquireSlot(k) \/ InfoFails(k)
      BY <2>3, <3>1 DEF AcquireSlot, InfoFails, Fetches
    <3>2. CASE InfoArrives(k)
      <4>1. /\ info' = [info EXCEPT ![k] = "found"]
            /\ ordered' = [ordered EXCEPT ![k] = ProxyInfo(candidates[k].version)]
        BY <3>2 DEF InfoArrives
      <4>2. ProxyInfo(candidates[k].version).version = candidates[k].version
        BY DEF ProxyInfo, Dated
      <4>3. candidates[k] = s[k]
        BY <2>1, <2>3, OrderedFacts, CappedFacts DEF Candidates, Fetches, OrderInv
      <4>4. Alike(ordered'[k], s[k])
        BY <2>3, <4>1, <4>2, <4>3 DEF Alike
      <4>5. \A j \in DOMAIN ordered \ {k} : info'[j] = info[j] /\ ordered'[j] = ordered[j]
        BY <2>3, <4>1
      <4>6. QED
        BY <2>3, <4>4, <4>5 DEF Fetches
    <3>3. QED
      BY <1>10, <3>1, <3>2 DEF Fetch
  <2>5. Fetches(s)'
    BY <2>2, <2>3, <2>4 DEF Fetches, Alike
  <2>6. Candidates(s)'
    BY <2>1, <2>2, <2>3, <2>5 DEF Candidates
  <2>7. InWorld' /\ Orderings' = Orderings
    BY <2>2, WorldKept DEF OrderInv
  <2>8. LengthsOK'
    BY <2>2, <2>3 DEF OrderInv, LengthsOK, IsList
  <2>9. QED
    BY <2>2, <2>6, <2>7, <2>8 DEF OrderInv
<1>11. QED
  BY <1>1, <1>2, <1>3, <1>4, <1>6, <1>7, <1>8, <1>9, <1>10 DEF Next, Step

(* Whatever order the goroutines of a Go module finish in, and whichever   *)
(* of the requests fail, candidates that all compare come newest first,    *)
(* none twice (socket.go:405-457).                                         *)
THEOREM NewestFirst == Spec => []ListIsOrdered
<1>1. QED
  BY InitOrder, StepOrder, OrderInvImpliesOrdered, PTL DEF Spec

(* If all that is offered compares, a version that is missing although an  *)
(* older one is listed is one whose own request failed (socket.go:429-457).*)
THEOREM OnlyFailuresLeaveGaps == Spec => []GapsAreFailures
<1>1. QED
  BY InitOrder, StepOrder, OrderInvImpliesGaps, PTL DEF Spec

-----------------------------------------------------------------------------
(* The comparisons.  Of three versions a, b and c, the comparisons of a    *)
(* and b, of b and c and of a and c cohere if they can come from a weak    *)
(* order.                                                                  *)

Signs == {-1, 0, 1}

Coherent(x, y, z) ==
    /\ x \in Signs /\ y \in Signs /\ z \in Signs
    /\ x = 0 => z = y
    /\ y = 0 => z = x
    /\ x = y => z = x

LEMMA IntsCohere ==
    ASSUME NEW a \in Int, NEW b \in Int, NEW c \in Int
    PROVE  Coherent(CompareInts(a, b), CompareInts(b, c), CompareInts(a, c))
BY DEF Coherent, Signs, CompareInts

(* The smallest of a set of positions.                                     *)
LEMMA FirstPosition ==
    ASSUME NEW n \in Nat, NEW S \in SUBSET (1..n), S # {}
    PROVE  LET first == CHOOSE k \in S : \A j \in S : k <= j
           IN first \in S /\ \A j \in S : first <= j
<1> DEFINE nth(m) == CHOOSE k \in S : Cardinality({j \in S : j <= k}) = m
<1>1. PICK N \in Nat :
         /\ \A m \in 1..N : nth(m) \in S
         /\ \A i, j \in 1..N : i < j => nth(i) < nth(j)
         /\ \A k \in S : \E m \in 1..N : nth(m) = k
  BY Ranking
<1> HIDE DEF nth
<1>2. PICK f : f = [m \in 1..N |-> nth(m)]
  OBVIOUS
<1>3. /\ \A m \in 1..N : f[m] \in S
      /\ \A i, j \in 1..N : i < j => f[i] < f[j]
      /\ \A k \in S : \E m \in 1..N : f[m] = k
  BY <1>1, <1>2
<1>4. 1 \in 1..N
  <2>1. PICK e \in S : TRUE
    OBVIOUS
  <2>2. PICK m \in 1..N : f[m] = e
    BY <1>3
  <2>3. QED
    BY <2>2
<1>5. \A k \in S : f[1] <= k
  <2> TAKE k \in S
  <2>1. PICK m \in 1..N : f[m] = k
    BY <1>3
  <2>2. m = 1 \/ f[1] < f[m]
    BY <1>3, <1>4
  <2>3. f[1] \in Int /\ f[m] \in Int
    <3>1. \A i \in S : i \in Int
      OBVIOUS
    <3>2. QED
      BY <1>3, <1>4, <2>1, <3>1
  <2>4. QED
    BY <2>1, <2>2, <2>3
<1>6. f[1] \in S
  BY <1>3, <1>4
<1>7. QED
  BY <1>5, <1>6

IsComparison(cmps, n) == n \in Nat /\ DOMAIN cmps = 1..n /\ \A k \in 1..n : cmps[k] \in Signs

(* A lexicographic comparison is decided by the first that is not a tie.   *)
LEMMA FirstDecides ==
    ASSUME NEW n, NEW cmps, IsComparison(cmps, n)
    PROVE  /\ Lexicographic(cmps) \in Signs
           /\ Lexicographic(cmps) = 0 <=> \A k \in 1..n : cmps[k] = 0
           /\ Lexicographic(cmps) # 0 =>
                 \E k \in 1..n : cmps[k] = Lexicographic(cmps) /\ \A j \in 1..n : j < k => cmps[j] = 0
           /\ \A k \in 1..n : cmps[k] # 0 /\ (\A j \in 1..n : j < k => cmps[j] = 0) =>
                 Lexicographic(cmps) = cmps[k]
<1> DEFINE decisive == {k \in DOMAIN cmps : cmps[k] # 0}
           first == CHOOSE k \in decisive : \A j \in decisive : k <= j
<1>1. n \in Nat /\ decisive \in SUBSET (1..n) /\ DOMAIN cmps = 1..n
  BY DEF IsComparison
<1>2. Lexicographic(cmps) = IF decisive = {} THEN 0 ELSE cmps[first]
  BY DEF Lexicographic
<1>3. decisive # {} => first \in decisive /\ \A j \in decisive : first <= j
  BY <1>1, FirstPosition
<1> HIDE DEF first
<1>4. CASE decisive = {}
  BY <1>1, <1>2, <1>4 DEF Signs
<1>5. CASE decisive # {}
  <2>1. first \in 1..n /\ cmps[first] # 0 /\ cmps[first] \in Signs
    BY <1>1, <1>3, <1>5 DEF IsComparison
  <2>2. \A j \in 1..n : j < first => cmps[j] = 0
    BY <1>1, <1>3, <1>5, <2>1
  <2>3. ASSUME NEW k \in 1..n, cmps[k] # 0, \A j \in 1..n : j < k => cmps[j] = 0
        PROVE  first = k
    <3>1. first <= k /\ ~(first < k)
      BY <1>1, <1>3, <1>5, <2>1, <2>3
    <3>2. QED
      BY <2>1, <3>1
  <2>4. QED
    BY <1>2, <1>5, <2>1, <2>2, <2>3
<1>6. QED
  BY <1>4, <1>5

(* Three lists of comparisons that cohere place by place cohere.           *)
LEMMA ListsCohere ==
    ASSUME NEW n, NEW X, NEW Y, NEW Z,
           IsComparison(X, n), IsComparison(Y, n), IsComparison(Z, n),
           \A k \in 1..n : Coherent(X[k], Y[k], Z[k])
    PROVE  Coherent(Lexicographic(X), Lexicographic(Y), Lexicographic(Z))
<1> DEFINE x == Lexicographic(X)
           y == Lexicographic(Y)
           z == Lexicographic(Z)
           Decides(W, k) == W[k] # 0 /\ \A j \in 1..n : j < k => W[j] = 0
<1>1. ASSUME NEW W, IsComparison(W, n)
      PROVE  /\ Lexicographic(W) \in Signs
             /\ Lexicographic(W) = 0 <=> \A k \in 1..n : W[k] = 0
             /\ Lexicographic(W) # 0 => \E k \in 1..n : Decides(W, k)
             /\ \A k \in 1..n : Decides(W, k) => Lexicographic(W) = W[k]
  BY <1>1, FirstDecides
<1>2. x \in Signs /\ y \in Signs /\ z \in Signs /\ n \in Nat
  BY <1>1 DEF IsComparison
<1>3. ASSUME x = 0
      PROVE  z = y
  <2>1. \A k \in 1..n : Z[k] = Y[k]
    BY <1>1, <1>3 DEF Coherent
  <2>2. CASE y = 0
    BY <1>1, <2>1, <2>2
  <2>3. CASE y # 0
    BY <1>1, <2>1, <2>3
  <2>4. QED
    BY <2>2, <2>3
<1>4. ASSUME y = 0
      PROVE  z = x
  <2>1. \A k \in 1..n : Z[k] = X[k]
    BY <1>1, <1>4 DEF Coherent
  <2>2. CASE x = 0
    BY <1>1, <2>1, <2>2
  <2>3. CASE x # 0
    BY <1>1, <2>1, <2>3
  <2>4. QED
    BY <2>2, <2>3
<1>5. ASSUME x = y, x # 0
      PROVE  z = x
  <2>1. PICK i \in 1..n, j \in 1..n : Decides(X, i) /\ Decides(Y, j)
    BY <1>1, <1>5
  <2>2. X[i] = x /\ Y[j] = x
    BY <1>1, <1>5, <2>1
  <2>3. \A k \in 1..n : X[k] = 0 /\ Y[k] = 0 => Z[k] = 0
    BY DEF Coherent
  <2>4. CASE i < j
    <3>1. Y[i] = 0 /\ \A k \in 1..n : k < i => X[k] = 0 /\ Y[k] = 0
      BY <2>1, <2>4
    <3>2. Z[i] = x
      BY <2>2, <3>1 DEF Coherent
    <3>3. Decides(Z, i)
      BY <1>5, <2>3, <3>1, <3>2
    <3>4. QED
      BY <1>1, <3>2, <3>3
  <2>5. CASE j < i
    <3>1. X[j] = 0 /\ \A k \in 1..n : k < j => X[k] = 0 /\ Y[k] = 0
      BY <2>1, <2>5
    <3>2. Z[j] = x
      BY <2>2, <3>1 DEF Coherent
    <3>3. Decides(Z, j)
      BY <1>5, <2>3, <3>1, <3>2
    <3>4. QED
      BY <1>1, <3>2, <3>3
  <2>6. CASE i = j
    <3>1. Z[i] = x
      BY <2>2, <2>6 DEF Coherent
    <3>2. Decides(Z, i)
      BY <1>5, <2>1, <2>3, <2>6, <3>1
    <3>3. QED
      BY <1>1, <3>1, <3>2
  <2>7. QED
    BY <2>4, <2>5, <2>6
<1>6. QED
  BY <1>2, <1>3, <1>4, <1>5 DEF Coherent

(* What follows the decisive place of a comparison does not matter.        *)
LEMMA PrefixDecides ==
    ASSUME NEW m, NEW n, NEW F, NEW G, IsComparison(F, m), IsComparison(G, n), m <= n,
           \A k \in 1..m : G[k] = F[k],
           (\A k \in 1..m : F[k] = 0) => \A k \in 1..n : G[k] = 0
    PROVE  Lexicographic(F) = Lexicographic(G)
<1>1. m \in Nat /\ n \in Nat /\ \A k \in 1..m : k \in 1..n
  BY DEF IsComparison
<1>2. CASE Lexicographic(F) = 0
  <2>1. \A k \in 1..n : G[k] = 0
    BY <1>2, FirstDecides
  <2>2. QED
    BY <1>2, <2>1, FirstDecides
<1>3. CASE Lexicographic(F) # 0
  <2>1. PICK k \in 1..m : F[k] = Lexicographic(F) /\ \A j \in 1..m : j < k => F[j] = 0
    BY <1>3, FirstDecides
  <2>2. k \in 1..n /\ G[k] = Lexicographic(F)
    BY <1>1, <2>1
  <2>3. \A j \in 1..n : j < k => j \in 1..m
    BY <1>1
  <2>4. \A j \in 1..n : j < k => G[j] = 0
    BY <2>1, <2>3
  <2>5. QED
    BY <1>3, <2>2, <2>4, FirstDecides
<1>4. QED
  BY <1>2, <1>3

Then(x, y) == IF x # 0 THEN x ELSE y

LEMMA TwoDecide ==
    ASSUME NEW a \in Signs, NEW b \in Signs
    PROVE  Lexicographic(<<a, b>>) = Then(a, b)
<1>1. PICK t : t = <<a, b>>
  OBVIOUS
<1>2. DOMAIN t = 1..2 /\ t[1] = a /\ t[2] = b
  BY <1>1
<1>3. IsComparison(t, 2)
  BY <1>2 DEF IsComparison
<1>4. Lexicographic(t) = Then(a, b)
  <2>1. CASE a # 0
    BY <1>2, <1>3, <2>1, FirstDecides DEF Then
  <2>2. CASE a = 0 /\ b # 0
    BY <1>2, <1>3, <2>2, FirstDecides DEF Then
  <2>3. CASE a = 0 /\ b = 0
    BY <1>2, <1>3, <2>3, FirstDecides DEF Then
  <2>4. QED
    BY <2>1, <2>2, <2>3
<1>5. QED
  BY <1>1, <1>4

LEMMA FourDecide ==
    ASSUME NEW a \in Signs, NEW b \in Signs, NEW c \in Signs, NEW d \in Signs
    PROVE  Lexicographic(<<a, b, c, d>>) = Then(a, Then(b, Then(c, d)))
<1>1. PICK t : t = <<a, b, c, d>>
  OBVIOUS
<1>2. DOMAIN t = 1..4 /\ t[1] = a /\ t[2] = b /\ t[3] = c /\ t[4] = d
  BY <1>1
<1>3. IsComparison(t, 4)
  BY <1>2 DEF IsComparison
<1>4. Lexicographic(t) = Then(a, Then(b, Then(c, d)))
  <2>1. CASE a # 0
    BY <1>2, <1>3, <2>1, FirstDecides DEF Then
  <2>2. CASE a = 0 /\ b # 0
    BY <1>2, <1>3, <2>2, FirstDecides DEF Then
  <2>3. CASE a = 0 /\ b = 0 /\ c # 0
    BY <1>2, <1>3, <2>3, FirstDecides DEF Then
  <2>4. CASE a = 0 /\ b = 0 /\ c = 0 /\ d # 0
    BY <1>2, <1>3, <2>4, FirstDecides DEF Then
  <2>5. CASE a = 0 /\ b = 0 /\ c = 0 /\ d = 0
    <3>1. \A k \in 1..4 : t[k] = 0
      BY <1>2, <2>5
    <3>2. QED
      BY <1>3, <2>5, <3>1, FirstDecides DEF Then
  <2>6. QED
    BY <2>1, <2>2, <2>3, <2>4, <2>5
<1>5. QED
  BY <1>1, <1>4

(* One comparison after another coheres; the later one only has to where   *)
(* the earlier one is a tie.                                               *)
LEMMA ThenCoheres ==
    ASSUME NEW x1, NEW y1, NEW z1, Coherent(x1, y1, z1),
           NEW x2 \in Signs, NEW y2 \in Signs, NEW z2 \in Signs,
           x1 = 0 /\ y1 = 0 => Coherent(x2, y2, z2)
    PROVE  Coherent(Then(x1, x2), Then(y1, y2), Then(z1, z2))
BY DEF Coherent, Then, Signs

-----------------------------------------------------------------------------
(* The comparison of releases coheres, whatever their lengths.             *)
Places(l, r, n) == [k \in 1..n |-> CompareInts(At(l, k), At(r, k))]

LEMMA PlacesCompare ==
    ASSUME NEW l \in Seq(Nat), NEW r \in Seq(Nat), NEW n \in Nat
    PROVE  /\ IsComparison(Places(l, r, n), n)
           /\ n >= Longer(l, r) => CompareIntSlices(l, r) = Lexicographic(Places(l, r, n))
<1>1. \A k \in Nat : At(l, k) \in Nat /\ At(r, k) \in Nat
  BY DEF At
<1>2. \A m \in Nat : IsComparison(Places(l, r, m), m)
  BY <1>1 DEF IsComparison, Places, CompareInts, Signs
<1>3. ASSUME n >= Longer(l, r)
      PROVE  CompareIntSlices(l, r) = Lexicographic(Places(l, r, n))
  <2>1. PICK m \in Nat : m = Longer(l, r)
    BY DEF Longer
  <2>2. CompareIntSlices(l, r) = Lexicographic(Places(l, r, m))
    BY <2>1 DEF CompareIntSlices, Places
  <2>3. \A k \in 1..n \ 1..m : At(l, k) = 0 /\ At(r, k) = 0
    BY <2>1 DEF At, Longer
  <2>4. \A k \in 1..n \ 1..m : Places(l, r, n)[k] = 0
    BY <2>3 DEF Places, CompareInts
  <2>5. m <= n /\ \A k \in 1..m : Places(l, r, n)[k] = Places(l, r, m)[k]
    BY <1>3, <2>1 DEF Places
  <2>6. (\A k \in 1..m : Places(l, r, m)[k] = 0) => \A k \in 1..n : Places(l, r, n)[k] = 0
    BY <2>4, <2>5
  <2>7. Lexicographic(Places(l, r, m)) = Lexicographic(Places(l, r, n))
    BY <1>2, <2>5, <2>6, PrefixDecides
  <2>8. QED
    BY <2>2, <2>7
<1>4. QED
  BY <1>2, <1>3

LEMMA SlicesCohere ==
    ASSUME NEW a \in Seq(Nat), NEW b \in Seq(Nat), NEW c \in Seq(Nat)
    PROVE  Coherent(CompareIntSlices(a, b), CompareIntSlices(b, c), CompareIntSlices(a, c))
<1>1. PICK n \in Nat : n >= Longer(a, b) /\ n >= Longer(b, c) /\ n >= Longer(a, c)
  <2>1. Len(a) + Len(b) + Len(c) \in Nat
    OBVIOUS
  <2>2. QED
    BY <2>1 DEF Longer
<1>2. /\ IsComparison(Places(a, b, n), n) /\ IsComparison(Places(b, c, n), n)
      /\ IsComparison(Places(a, c, n), n)
      /\ CompareIntSlices(a, b) = Lexicographic(Places(a, b, n))
      /\ CompareIntSlices(b, c) = Lexicographic(Places(b, c, n))
      /\ CompareIntSlices(a, c) = Lexicographic(Places(a, c, n))
  BY <1>1, PlacesCompare
<1>3. \A k \in 1..n : Coherent(Places(a, b, n)[k], Places(b, c, n)[k], Places(a, c, n)[k])
  <2> TAKE k \in 1..n
  <2>1. At(a, k) \in Int /\ At(b, k) \in Int /\ At(c, k) \in Int
    BY DEF At
  <2>2. QED
    BY <2>1, IntsCohere DEF Places
<1>4. QED
  BY <1>2, <1>3, ListsCohere

-----------------------------------------------------------------------------
(* Semantic versions                                                       *)
Identifier == [numeric : BOOLEAN, value : Nat]

(* The comparison at one place of two prereleases: one that has run out is *)
(* the lower one.                                                          *)
PlaceOf(l, r, k) ==
    IF k <= Len(l) /\ k <= Len(r) THEN CompareSemverIdentifier(l[k], r[k])
    ELSE IF k <= Len(l) THEN 1
    ELSE IF k <= Len(r) THEN -1
    ELSE 0

PlacesOf(l, r, n) == [k \in 1..n |-> PlaceOf(l, r, k)]

LEMMA IdentifiersCohere ==
    ASSUME NEW a \in Identifier, NEW b \in Identifier, NEW c \in Identifier
    PROVE  Coherent(CompareSemverIdentifier(a, b), CompareSemverIdentifier(b, c),
                    CompareSemverIdentifier(a, c))
BY DEF Identifier, CompareSemverIdentifier, CompareInts, Coherent, Signs

(* One sequence after another.                                             *)
LEMMA Joined ==
    ASSUME NEW S, NEW A \in Seq(S), NEW B \in Seq(S)
    PROVE  /\ A \o B \in Seq(S) /\ Len(A) \in Nat /\ Len(B) \in Nat
           /\ Len(A \o B) = Len(A) + Len(B)
           /\ DOMAIN A = 1..Len(A) /\ DOMAIN B = 1..Len(B)
           /\ DOMAIN (A \o B) = 1..(Len(A) + Len(B))
           /\ \A i \in 1..Len(A) : (A \o B)[i] = A[i]
           /\ \A i \in 1..Len(B) : (A \o B)[Len(A) + i] = B[i]
OBVIOUS

LEMMA OneMore ==
    ASSUME NEW S, NEW m \in Nat, NEW H \in [1..m -> S], NEW e \in S
    PROVE  /\ DOMAIN (H \o <<e>>) = 1..(m + 1)
           /\ \A k \in 1..m : (H \o <<e>>)[k] = H[k]
           /\ (H \o <<e>>)[m + 1] = e
<1>1. PICK A \in Seq(S), B \in Seq(S) : A = H /\ B = <<e>>
  <2>1. H \in Seq(S)
    OBVIOUS
  <2>2. <<e>> \in Seq(S)
    OBVIOUS
  <2>3. QED
    BY <2>1, <2>2, Zenon
<1>2. Len(A) = m /\ Len(B) = 1 /\ B[1] = e
  BY <1>1
<1> DEFINE C == A \o B
<1>3. /\ DOMAIN C = 1..(Len(A) + Len(B))
      /\ \A i \in 1..Len(A) : C[i] = A[i]
      /\ \A i \in 1..Len(B) : C[Len(A) + i] = B[i]
  BY Joined
<1> HIDE DEF C
<1>4. DOMAIN C = 1..(m + 1) /\ (\A k \in 1..m : C[k] = A[k]) /\ C[m + 1] = e
  BY <1>2, <1>3
<1>5. C = H \o <<e>>
  BY <1>1 DEF C
<1>6. QED
  BY <1>1, <1>4, <1>5

LEMMA PlacesOfCompare ==
    ASSUME NEW l \in Seq(Identifier), NEW r \in Seq(Identifier), NEW n \in Nat
    PROVE  /\ IsComparison(PlacesOf(l, r, n), n)
           /\ n > Longer(l, r) /\ l # <<>> /\ r # <<>> =>
                 ComparePrereleases(l, r) = Lexicographic(PlacesOf(l, r, n))
<1>1. \A k \in 1..n : PlaceOf(l, r, k) \in Signs
  <2> TAKE k \in 1..n
  <2>1. CASE k <= Len(l) /\ k <= Len(r)
    <3>1. l[k] \in Identifier /\ r[k] \in Identifier
      BY <2>1
    <3>2. CompareSemverIdentifier(l[k], r[k]) \in Signs
      BY <3>1, IdentifiersCohere DEF Coherent
    <3>3. QED
      BY <2>1, <3>2 DEF PlaceOf
  <2>2. CASE ~(k <= Len(l) /\ k <= Len(r))
    BY <2>2 DEF PlaceOf, Signs
  <2>3. QED
    BY <2>1, <2>2
<1>2. IsComparison(PlacesOf(l, r, n), n)
  BY <1>1 DEF IsComparison, PlacesOf
<1>3. ASSUME n > Longer(l, r), l # <<>>, r # <<>>
      PROVE  ComparePrereleases(l, r) = Lexicographic(PlacesOf(l, r, n))
  <2>1. PICK m \in Nat : m = Shorter(l, r)
    BY DEF Shorter
  <2>2. m <= Len(l) /\ m <= Len(r) /\ (m = Len(l) \/ m = Len(r)) /\ m + 1 <= n
    BY <1>3, <2>1 DEF Shorter, Longer
  <2>3. PICK F : F = [k \in 1..m |-> CompareSemverIdentifier(l[k], r[k])]
                      \o <<CompareInts(Len(l), Len(r))>>
    OBVIOUS
  <2>4. ComparePrereleases(l, r) = Lexicographic(F)
    BY <1>3, <2>1, <2>3 DEF ComparePrereleases
  <2>5. /\ DOMAIN F = 1..(m + 1)
        /\ \A k \in 1..m : F[k] = CompareSemverIdentifier(l[k], r[k])
        /\ F[m + 1] = CompareInts(Len(l), Len(r))
    <3>1. PICK H : H = [k \in 1..m |-> CompareSemverIdentifier(l[k], r[k])]
      OBVIOUS
    <3>2. \A k \in 1..m : l[k] \in Identifier /\ r[k] \in Identifier
      BY <2>2
    <3>3. H \in [1..m -> Signs] /\ CompareInts(Len(l), Len(r)) \in Signs
      BY <3>1, <3>2, IdentifiersCohere DEF Coherent, CompareInts, Signs
    <3>4. F = H \o <<CompareInts(Len(l), Len(r))>>
      BY <2>3, <3>1
    <3>5. QED
      BY <3>1, <3>3, <3>4, OneMore
  <2>6. \A k \in 1..m : PlaceOf(l, r, k) = F[k]
    BY <2>2, <2>5 DEF PlaceOf
  <2>7. PlaceOf(l, r, m + 1) = F[m + 1]
    BY <2>2, <2>5 DEF PlaceOf, CompareInts
  <2>8. \A k \in 1..(m + 1) : F[k] = PlaceOf(l, r, k) /\ F[k] \in Signs
    BY <1>1, <2>2, <2>6, <2>7
  <2>9. IsComparison(F, m + 1)
    BY <2>5, <2>8 DEF IsComparison
  <2>10. F[m + 1] = 0 => \A k \in 1..n : k > m + 1 => PlaceOf(l, r, k) = 0
    BY <2>2, <2>5 DEF PlaceOf, CompareInts
  <2>11. (\A k \in 1..(m + 1) : F[k] = 0) => \A k \in 1..n : PlaceOf(l, r, k) = 0
    BY <2>8, <2>10
  <2>12. Lexicographic(F) = Lexicographic(PlacesOf(l, r, n))
    <3>1. \A k \in 1..(m + 1) : PlacesOf(l, r, n)[k] = F[k]
      BY <2>2, <2>8 DEF PlacesOf
    <3>2. (\A k \in 1..(m + 1) : F[k] = 0) => \A k \in 1..n : PlacesOf(l, r, n)[k] = 0
      BY <2>11 DEF PlacesOf
    <3>3. QED
      BY <1>2, <2>2, <2>9, <3>1, <3>2, PrefixDecides
  <2>13. QED
    BY <2>4, <2>12
<1>4. QED
  BY <1>2, <1>3

(* Two prereleases of which one is none: that one is the higher.           *)
Final(p) == IF p = <<>> THEN 1 ELSE 0

LEMMA PrereleasesCohere ==
    ASSUME NEW a \in Seq(Identifier), NEW b \in Seq(Identifier), NEW c \in Seq(Identifier)
    PROVE  Coherent(ComparePrereleases(a, b), ComparePrereleases(b, c), ComparePrereleases(a, c))
<1>1. PICK n \in Nat : n > Longer(a, b) /\ n > Longer(b, c) /\ n > Longer(a, c)
  <2>1. Len(a) + Len(b) + Len(c) + 1 \in Nat
    OBVIOUS
  <2>2. QED
    BY <2>1 DEF Longer
<1> DEFINE Both(l, r) == IF l = <<>> \/ r = <<>> THEN 0 ELSE Lexicographic(PlacesOf(l, r, n))
<1>2. ASSUME NEW l \in Seq(Identifier), NEW r \in Seq(Identifier), n > Longer(l, r)
      PROVE  /\ ComparePrereleases(l, r) = Then(CompareInts(Final(l), Final(r)), Both(l, r))
             /\ Both(l, r) \in Signs
  <2>1. CASE l = <<>> \/ r = <<>>
    <3>1. ComparePrereleases(l, r) = CompareInts(Len(r), Len(l))
      BY <2>1 DEF ComparePrereleases
    <3>2. /\ Len(l) \in Nat /\ Len(r) \in Nat
          /\ Len(l) = 0 <=> l = <<>>
          /\ Len(r) = 0 <=> r = <<>>
      OBVIOUS
    <3>3. CompareInts(Len(r), Len(l)) = CompareInts(Final(l), Final(r))
      BY <2>1, <3>2 DEF CompareInts, Final
    <3>4. QED
      BY <2>1, <3>1, <3>3 DEF Then, Signs
  <2>2. CASE l # <<>> /\ r # <<>>
    <3>1. ComparePrereleases(l, r) = Lexicographic(PlacesOf(l, r, n))
          /\ IsComparison(PlacesOf(l, r, n), n)
      BY <1>2, <2>2, PlacesOfCompare
    <3>2. Lexicographic(PlacesOf(l, r, n)) \in Signs
      BY <3>1, FirstDecides
    <3>3. QED
      BY <2>2, <3>1, <3>2 DEF Then, Final, CompareInts
  <2>3. QED
    BY <2>1, <2>2
<1>3. Coherent(CompareInts(Final(a), Final(b)), CompareInts(Final(b), Final(c)),
               CompareInts(Final(a), Final(c)))
  BY IntsCohere DEF Final
<1>4. ASSUME CompareInts(Final(a), Final(b)) = 0, CompareInts(Final(b), Final(c)) = 0
      PROVE  Coherent(Both(a, b), Both(b, c), Both(a, c))
  <2>1. CASE a = <<>>
    <3>1. b = <<>> /\ c = <<>>
      BY <1>4, <2>1 DEF Final, CompareInts
    <3>2. QED
      BY <2>1, <3>1 DEF Coherent, Signs
  <2>2. CASE a # <<>>
    <3>1. b # <<>> /\ c # <<>>
      BY <1>4, <2>2 DEF Final, CompareInts
    <3>2. \A k \in 1..n : Coherent(PlaceOf(a, b, k), PlaceOf(b, c, k), PlaceOf(a, c, k))
      <4> TAKE k \in 1..n
      <4>1. CASE k <= Len(a) /\ k <= Len(b) /\ k <= Len(c)
        <5>1. a[k] \in Identifier /\ b[k] \in Identifier /\ c[k] \in Identifier
          BY <4>1
        <5>2. QED
          BY <4>1, <5>1, IdentifiersCohere DEF PlaceOf
      <4>2. CASE ~(k <= Len(a) /\ k <= Len(b) /\ k <= Len(c))
        <5>1. \A l, r \in Seq(Identifier) : PlaceOf(l, r, k) \in Signs
          BY PlacesOfCompare DEF IsComparison, PlacesOf
        <5>2. PlaceOf(a, b, k) \in Signs /\ PlaceOf(b, c, k) \in Signs /\ PlaceOf(a, c, k) \in Signs
          BY <5>1
        <5>3. QED
          BY <4>2, <5>2 DEF PlaceOf, Coherent, Signs
      <4>3. QED
        BY <4>1, <4>2
    <3>3. \A k \in 1..n : Coherent(PlacesOf(a, b, n)[k], PlacesOf(b, c, n)[k], PlacesOf(a, c, n)[k])
      BY <3>2 DEF PlacesOf
    <3>4. QED
      BY <2>2, <3>1, <3>3, PlacesOfCompare, ListsCohere
  <2>3. QED
    BY <2>1, <2>2
<1> HIDE DEF Both
<1>5. QED
  BY <1>1, <1>2, <1>3, <1>4, ThenCoheres

IsSemver(v) ==
    v.major \in Nat /\ v.minor \in Nat /\ v.patch \in Nat /\ v.pre \in Seq(Identifier)

LEMMA SemverCoheres ==
    ASSUME NEW a, NEW b, NEW c, IsSemver(a), IsSemver(b), IsSemver(c)
    PROVE  Coherent(CompareSemverVersions(a, b), CompareSemverVersions(b, c),
                    CompareSemverVersions(a, c))
<1> DEFINE ma(l, r) == CompareInts(l.major, r.major)
           mi(l, r) == CompareInts(l.minor, r.minor)
           pa(l, r) == CompareInts(l.patch, r.patch)
           pr(l, r) == ComparePrereleases(l.pre, r.pre)
<1>1. /\ Coherent(ma(a, b), ma(b, c), ma(a, c))
      /\ Coherent(mi(a, b), mi(b, c), mi(a, c))
      /\ Coherent(pa(a, b), pa(b, c), pa(a, c))
      /\ Coherent(pr(a, b), pr(b, c), pr(a, c))
  <2>1. /\ {a.major, b.major, c.major} \subseteq Int
        /\ {a.minor, b.minor, c.minor} \subseteq Int
        /\ {a.patch, b.patch, c.patch} \subseteq Int
    BY DEF IsSemver
  <2>2. Coherent(ma(a, b), ma(b, c), ma(a, c))
    BY <2>1, IntsCohere
  <2>3. Coherent(mi(a, b), mi(b, c), mi(a, c))
    BY <2>1, IntsCohere
  <2>4. Coherent(pa(a, b), pa(b, c), pa(a, c))
    BY <2>1, IntsCohere
  <2>5. a.pre \in Seq(Identifier) /\ b.pre \in Seq(Identifier) /\ c.pre \in Seq(Identifier)
    BY DEF IsSemver
  <2>6. Coherent(pr(a, b), pr(b, c), pr(a, c))
    BY <2>5, PrereleasesCohere
  <2>7. QED
    BY <2>2, <2>3, <2>4, <2>6
<1>2. \A l, r : CompareSemverVersions(l, r) = Lexicographic(<<ma(l, r), mi(l, r), pa(l, r), pr(l, r)>>)
  BY DEF CompareSemverVersions
<1> HIDE DEF ma, mi, pa, pr
<1> DEFINE two(l, r) == Then(pa(l, r), pr(l, r))
           three(l, r) == Then(mi(l, r), two(l, r))
<1>3. /\ CompareSemverVersions(a, b) = Then(ma(a, b), three(a, b))
      /\ CompareSemverVersions(b, c) = Then(ma(b, c), three(b, c))
      /\ CompareSemverVersions(a, c) = Then(ma(a, c), three(a, c))
  <2>1. ASSUME NEW l, NEW r, ma(l, r) \in Signs, mi(l, r) \in Signs, pa(l, r) \in Signs,
               pr(l, r) \in Signs
        PROVE  CompareSemverVersions(l, r) = Then(ma(l, r), three(l, r))
    <3>1. Lexicographic(<<ma(l, r), mi(l, r), pa(l, r), pr(l, r)>>) = Then(ma(l, r), three(l, r))
      BY <2>1, FourDecide
    <3>2. QED
      BY <1>2, <3>1
  <2>2. QED
    BY <1>1, <2>1 DEF Coherent
<1>4. Coherent(two(a, b), two(b, c), two(a, c))
  BY <1>1, ThenCoheres DEF Coherent
<1> HIDE DEF two
<1>5. Coherent(three(a, b), three(b, c), three(a, c))
  BY <1>1, <1>4, ThenCoheres DEF Coherent
<1> HIDE DEF three
<1>6. QED
  BY <1>1, <1>3, <1>5, ThenCoheres DEF Coherent

-----------------------------------------------------------------------------
(* PEP 440 versions                                                        *)
IsPEP440(v) ==
    /\ v.epoch \in Nat /\ v.release \in Seq(Nat)
    /\ v.prePhase \in 0..3 /\ v.hasPost \in BOOLEAN /\ v.hasDev \in BOOLEAN
    /\ v.preNum \in Nat /\ v.postNum \in Nat /\ v.devNum \in Nat

Dev(l, r) == CompareInts(l.devNum, r.devNum)
PostNum(l, r) == CompareInts(l.postNum, r.postNum)
PreNum(l, r) == CompareInts(l.preNum, r.preNum)

LEMMA NumbersCohere ==
    ASSUME NEW a, NEW b, NEW c, IsPEP440(a), IsPEP440(b), IsPEP440(c)
    PROVE  /\ Coherent(Dev(a, b), Dev(b, c), Dev(a, c))
           /\ Coherent(PostNum(a, b), PostNum(b, c), PostNum(a, c))
           /\ Coherent(PreNum(a, b), PreNum(b, c), PreNum(a, c))
<1>1. /\ a.devNum \in Int /\ b.devNum \in Int /\ c.devNum \in Int
      /\ a.postNum \in Int /\ b.postNum \in Int /\ c.postNum \in Int
      /\ a.preNum \in Int /\ b.preNum \in Int /\ c.preNum \in Int
  BY DEF IsPEP440
<1>2. Coherent(Dev(a, b), Dev(b, c), Dev(a, c))
  BY <1>1, IntsCohere DEF Dev
<1>3. Coherent(PostNum(a, b), PostNum(b, c), PostNum(a, c))
  BY <1>1, IntsCohere DEF PostNum
<1>4. Coherent(PreNum(a, b), PreNum(b, c), PreNum(a, c))
  BY <1>1, IntsCohere DEF PreNum
<1>5. QED
  BY <1>2, <1>3, <1>4

(* What follows a prerelease of the same phase and number.                 *)
SuffixOf(l, r) ==
    CASE PEP440PreSuffixRank(l) = 0 -> Dev(l, r)
      [] PEP440PreSuffixRank(l) = 1 -> 0
      [] PEP440PreSuffixRank(l) = 2 -> Lexicographic(<<PostNum(l, r), Dev(l, r)>>)
      [] PEP440PreSuffixRank(l) = 3 -> PostNum(l, r)

SuffixRanks(l, r) == CompareInts(PEP440PreSuffixRank(l), PEP440PreSuffixRank(r))

LEMMA PreSuffixAsThen ==
    ASSUME NEW l, NEW r, IsPEP440(l), IsPEP440(r)
    PROVE  /\ Lexicographic(<<PostNum(l, r), Dev(l, r)>>) = Then(PostNum(l, r), Dev(l, r))
           /\ SuffixOf(l, r) \in Signs
           /\ ComparePEP440PreSuffix(l, r) = Then(SuffixRanks(l, r), SuffixOf(l, r))
<1>1. PostNum(l, r) \in Signs /\ Dev(l, r) \in Signs /\ SuffixRanks(l, r) \in Signs
  BY DEF PostNum, Dev, SuffixRanks, CompareInts, Signs
<1>2. Lexicographic(<<PostNum(l, r), Dev(l, r)>>) = Then(PostNum(l, r), Dev(l, r))
  BY <1>1, TwoDecide
<1>3. SuffixOf(l, r) \in Signs
  <2>1. Then(PostNum(l, r), Dev(l, r)) \in Signs /\ 0 \in Signs
    BY <1>1 DEF Then, Signs
  <2>2. PEP440PreSuffixRank(l) \in {0, 1, 2, 3}
    BY DEF PEP440PreSuffixRank
  <2>3. QED
    BY <1>1, <1>2, <2>1, <2>2 DEF SuffixOf
<1>4. ComparePEP440PreSuffix(l, r) = Lexicographic(<<SuffixRanks(l, r), SuffixOf(l, r)>>)
  BY DEF ComparePEP440PreSuffix, SuffixRanks, SuffixOf, PostNum, Dev
<1>5. QED
  BY <1>1, <1>2, <1>3, <1>4, TwoDecide

LEMMA PreSuffixesCohere ==
    ASSUME NEW a, NEW b, NEW c, IsPEP440(a), IsPEP440(b), IsPEP440(c)
    PROVE  Coherent(ComparePEP440PreSuffix(a, b), ComparePEP440PreSuffix(b, c),
                    ComparePEP440PreSuffix(a, c))
<1>1. \A v : PEP440PreSuffixRank(v) \in 0..3
  BY DEF PEP440PreSuffixRank
<1>2. Coherent(SuffixRanks(a, b), SuffixRanks(b, c), SuffixRanks(a, c))
  BY <1>1, IntsCohere DEF SuffixRanks
<1>3. ASSUME NEW l, NEW r, IsPEP440(l), IsPEP440(r)
      PROVE  /\ Lexicographic(<<PostNum(l, r), Dev(l, r)>>) = Then(PostNum(l, r), Dev(l, r))
             /\ SuffixOf(l, r) \in Signs
             /\ ComparePEP440PreSuffix(l, r) = Then(SuffixRanks(l, r), SuffixOf(l, r))
  BY <1>3, PreSuffixAsThen
<1>4. ASSUME SuffixRanks(a, b) = 0, SuffixRanks(b, c) = 0
      PROVE  Coherent(SuffixOf(a, b), SuffixOf(b, c), SuffixOf(a, c))
  <2>1. PEP440PreSuffixRank(b) = PEP440PreSuffixRank(a) /\ PEP440PreSuffixRank(c) = PEP440PreSuffixRank(a)
    BY <1>1, <1>4 DEF SuffixRanks, CompareInts
  <2>2. CASE PEP440PreSuffixRank(a) = 0
    BY <2>1, <2>2, NumbersCohere DEF SuffixOf
  <2>3. CASE PEP440PreSuffixRank(a) = 1
    BY <2>1, <2>3 DEF SuffixOf, Coherent, Signs
  <2>4. CASE PEP440PreSuffixRank(a) = 2
    <3>1. /\ SuffixOf(a, b) = Then(PostNum(a, b), Dev(a, b))
          /\ SuffixOf(b, c) = Then(PostNum(b, c), Dev(b, c))
          /\ SuffixOf(a, c) = Then(PostNum(a, c), Dev(a, c))
      BY <1>3, <2>1, <2>4 DEF SuffixOf
    <3>2. Coherent(Then(PostNum(a, b), Dev(a, b)), Then(PostNum(b, c), Dev(b, c)),
                   Then(PostNum(a, c), Dev(a, c)))
      BY NumbersCohere, ThenCoheres DEF Coherent
    <3>3. QED
      BY <3>1, <3>2
  <2>5. CASE PEP440PreSuffixRank(a) = 3
    BY <2>1, <2>5, NumbersCohere DEF SuffixOf
  <2>6. QED
    BY <1>1, <2>2, <2>3, <2>4, <2>5
<1>5. /\ ComparePEP440PreSuffix(a, b) = Then(SuffixRanks(a, b), SuffixOf(a, b))
      /\ ComparePEP440PreSuffix(b, c) = Then(SuffixRanks(b, c), SuffixOf(b, c))
      /\ ComparePEP440PreSuffix(a, c) = Then(SuffixRanks(a, c), SuffixOf(a, c))
      /\ SuffixOf(a, b) \in Signs /\ SuffixOf(b, c) \in Signs /\ SuffixOf(a, c) \in Signs
  BY <1>3
<1>6. Coherent(Then(SuffixRanks(a, b), SuffixOf(a, b)), Then(SuffixRanks(b, c), SuffixOf(b, c)),
               Then(SuffixRanks(a, c), SuffixOf(a, c)))
  BY <1>2, <1>4, <1>5, ThenCoheres
<1>7. QED
  BY <1>5, <1>6

LEMMA PostSuffixesCohere ==
    ASSUME NEW a, NEW b, NEW c, IsPEP440(a), IsPEP440(b), IsPEP440(c)
    PROVE  Coherent(ComparePEP440PostSuffix(a, b), ComparePEP440PostSuffix(b, c),
                    ComparePEP440PostSuffix(a, c))
<1>1. /\ a.devNum \in Int /\ b.devNum \in Int /\ c.devNum \in Int
      /\ a.hasDev \in BOOLEAN /\ b.hasDev \in BOOLEAN /\ c.hasDev \in BOOLEAN
  BY DEF IsPEP440
<1>2. Coherent(CompareInts(a.devNum, b.devNum), CompareInts(b.devNum, c.devNum),
               CompareInts(a.devNum, c.devNum))
  BY <1>1, IntsCohere
<1>3. QED
  BY <1>1, <1>2 DEF ComparePEP440PostSuffix, Coherent, Signs

(* The last of the four comparisons, by rank.                              *)
RankedOf(l, r) ==
    CASE PEP440Rank(l) = 0 -> Dev(l, r)
      [] PEP440Rank(l) \in 1..3 -> Lexicographic(<<PreNum(l, r), ComparePEP440PreSuffix(l, r)>>)
      [] PEP440Rank(l) = 4 -> 0
      [] PEP440Rank(l) = 5 -> Lexicographic(<<PostNum(l, r), ComparePEP440PostSuffix(l, r)>>)

Ranks(l, r) == CompareInts(PEP440Rank(l), PEP440Rank(r))

LEMMA RankedFacts ==
    ASSUME NEW l, NEW r, IsPEP440(l), IsPEP440(r)
    PROVE  /\ PEP440Rank(l) \in 0..5
           /\ RankedOf(l, r) \in Signs
           /\ PEP440Rank(l) \in 1..3 =>
                 RankedOf(l, r) = Then(PreNum(l, r), ComparePEP440PreSuffix(l, r))
           /\ PEP440Rank(l) = 5 =>
                 RankedOf(l, r) = Then(PostNum(l, r), ComparePEP440PostSuffix(l, r))
<1>1. /\ PreNum(l, r) \in Signs /\ PostNum(l, r) \in Signs /\ Dev(l, r) \in Signs
      /\ ComparePEP440PreSuffix(l, r) \in Signs /\ ComparePEP440PostSuffix(l, r) \in Signs
  BY NumbersCohere, PreSuffixesCohere, PostSuffixesCohere DEF Coherent
<1>2. /\ Lexicographic(<<PreNum(l, r), ComparePEP440PreSuffix(l, r)>>)
            = Then(PreNum(l, r), ComparePEP440PreSuffix(l, r))
      /\ Lexicographic(<<PostNum(l, r), ComparePEP440PostSuffix(l, r)>>)
            = Then(PostNum(l, r), ComparePEP440PostSuffix(l, r))
  BY <1>1, TwoDecide
<1>3. PEP440Rank(l) \in 0..5
  BY DEF PEP440Rank, HasPre, IsPEP440
<1>4. /\ PEP440Rank(l) = 0 => RankedOf(l, r) = Dev(l, r)
      /\ PEP440Rank(l) \in 1..3 => RankedOf(l, r) = Then(PreNum(l, r), ComparePEP440PreSuffix(l, r))
      /\ PEP440Rank(l) = 4 => RankedOf(l, r) = 0
      /\ PEP440Rank(l) = 5 => RankedOf(l, r) = Then(PostNum(l, r), ComparePEP440PostSuffix(l, r))
  BY <1>2 DEF RankedOf
<1>5. RankedOf(l, r) \in Signs
  BY <1>1, <1>3, <1>4 DEF Then, Signs
<1>6. QED
  BY <1>3, <1>4, <1>5

LEMMA RankedCohere ==
    ASSUME NEW a, NEW b, NEW c, IsPEP440(a), IsPEP440(b), IsPEP440(c),
           Ranks(a, b) = 0, Ranks(b, c) = 0
    PROVE  Coherent(RankedOf(a, b), RankedOf(b, c), RankedOf(a, c))
<1>1. PEP440Rank(b) = PEP440Rank(a) /\ PEP440Rank(c) = PEP440Rank(a) /\ PEP440Rank(a) \in 0..5
  BY RankedFacts DEF Ranks, CompareInts
<1>2. CASE PEP440Rank(a) = 0
  BY <1>1, <1>2, NumbersCohere DEF RankedOf
<1>3. CASE PEP440Rank(a) \in 1..3
  <2>1. Coherent(Then(PreNum(a, b), ComparePEP440PreSuffix(a, b)),
                 Then(PreNum(b, c), ComparePEP440PreSuffix(b, c)),
                 Then(PreNum(a, c), ComparePEP440PreSuffix(a, c)))
    BY NumbersCohere, PreSuffixesCohere, ThenCoheres DEF Coherent
  <2>2. QED
    BY <1>1, <1>3, <2>1, RankedFacts
<1>4. CASE PEP440Rank(a) = 4
  BY <1>1, <1>4 DEF RankedOf, Coherent, Signs
<1>5. CASE PEP440Rank(a) = 5
  <2>1. Coherent(Then(PostNum(a, b), ComparePEP440PostSuffix(a, b)),
                 Then(PostNum(b, c), ComparePEP440PostSuffix(b, c)),
                 Then(PostNum(a, c), ComparePEP440PostSuffix(a, c)))
    BY NumbersCohere, PostSuffixesCohere, ThenCoheres DEF Coherent
  <2>2. QED
    BY <1>1, <1>5, <2>1, RankedFacts
<1>6. QED
  BY <1>1, <1>2, <1>3, <1>4, <1>5

LEMMA PEP440Coheres ==
    ASSUME NEW a, NEW b, NEW c, IsPEP440(a), IsPEP440(b), IsPEP440(c)
    PROVE  Coherent(ComparePEP440Versions(a, b), ComparePEP440Versions(b, c),
                    ComparePEP440Versions(a, c))
<1> DEFINE ep(l, r) == CompareInts(l.epoch, r.epoch)
           re(l, r) == CompareIntSlices(l.release, r.release)
           two(l, r) == Then(Ranks(l, r), RankedOf(l, r))
           three(l, r) == Then(re(l, r), two(l, r))
<1>1. Coherent(ep(a, b), ep(b, c), ep(a, c))
  <2>1. a.epoch \in Int /\ b.epoch \in Int /\ c.epoch \in Int
    BY DEF IsPEP440
  <2>2. QED
    BY <2>1, IntsCohere
<1>2. Coherent(re(a, b), re(b, c), re(a, c))
  <2>1. a.release \in Seq(Nat) /\ b.release \in Seq(Nat) /\ c.release \in Seq(Nat)
    BY DEF IsPEP440
  <2>2. QED
    BY <2>1, SlicesCohere
<1>3. Coherent(Ranks(a, b), Ranks(b, c), Ranks(a, c))
  <2>1. PEP440Rank(a) \in Int /\ PEP440Rank(b) \in Int /\ PEP440Rank(c) \in Int
    BY RankedFacts
  <2>2. QED
    BY <2>1, IntsCohere DEF Ranks
<1>4. \A l, r : ComparePEP440Versions(l, r)
                   = Lexicographic(<<ep(l, r), re(l, r), Ranks(l, r), RankedOf(l, r)>>)
  BY DEF ComparePEP440Versions, Ranks, RankedOf, Dev, PreNum, PostNum
<1> HIDE DEF ep, re
<1>5. ASSUME NEW l, NEW r, ep(l, r) \in Signs, re(l, r) \in Signs, Ranks(l, r) \in Signs,
             RankedOf(l, r) \in Signs
      PROVE  ComparePEP440Versions(l, r) = Then(ep(l, r), three(l, r))
  <2>1. Lexicographic(<<ep(l, r), re(l, r), Ranks(l, r), RankedOf(l, r)>>) = Then(ep(l, r), three(l, r))
    BY <1>5, FourDecide
  <2>2. QED
    BY <1>4, <2>1
<1>6. RankedOf(a, b) \in Signs /\ RankedOf(b, c) \in Signs /\ RankedOf(a, c) \in Signs
  BY RankedFacts
<1>7. /\ ComparePEP440Versions(a, b) = Then(ep(a, b), three(a, b))
      /\ ComparePEP440Versions(b, c) = Then(ep(b, c), three(b, c))
      /\ ComparePEP440Versions(a, c) = Then(ep(a, c), three(a, c))
  BY <1>1, <1>2, <1>3, <1>5, <1>6 DEF Coherent
<1>8. Coherent(two(a, b), two(b, c), two(a, c))
  BY <1>3, <1>6, RankedCohere, ThenCoheres
<1> HIDE DEF two
<1>9. Coherent(three(a, b), three(b, c), three(a, c))
  BY <1>2, <1>8, ThenCoheres DEF Coherent
<1> HIDE DEF three
<1>10. QED
  BY <1>1, <1>7, <1>9, ThenCoheres DEF Coherent

-----------------------------------------------------------------------------
(* The chain of comparisons                                                *)
LEMMA PoolTyped ==
    /\ \A v \in SemverVersions : IsSemver(v)
    /\ \A v \in PEP440Versions : IsPEP440(v)
BY SemverAssumption, PEP440Assumption DEF IsSemver, Identifier, IsPEP440

(* The versions compared are versions.                                     *)
ChainInv ==
    /\ semver \in BOOLEAN
    /\ one \in Pool /\ other \in Pool

LEMMA ComparesCoherently ==
    ASSUME semver \in BOOLEAN,
           NEW a \in Pool, NEW b \in Pool, NEW c \in Pool
    PROVE  Coherent(Compare(a, b), Compare(b, c), Compare(a, c))
<1>1. CASE semver
  <2>1. IsSemver(a) /\ IsSemver(b) /\ IsSemver(c)
    BY <1>1, PoolTyped DEF Pool
  <2>2. QED
    BY <1>1, <2>1, SemverCoheres DEF Compare
<1>2. CASE ~semver
  <2>1. IsPEP440(a) /\ IsPEP440(b) /\ IsPEP440(c)
    BY <1>2, PoolTyped DEF Pool
  <2>2. QED
    BY <1>2, <2>1, PEP440Coheres DEF Compare
<1>3. QED
  BY <1>1, <1>2

(* Both comparisons (socket.go:1344-1387, 1463-1570) are weak orders on    *)
(* versions of every length and all numbers, as sort.Slice requires.       *)
THEOREM ComparisonsAreOrders == Chain => ChainIsOrdered
<1>1. FirstPair => ChainInv
  BY DEF FirstPair, ChainInv
<1>2. ChainInv /\ [NextPair]_pair => ChainInv'
  BY DEF ChainInv, NextPair, pair, Pool
<1>3. ChainInv /\ [NextPair]_pair
        => [Compare(one, other) >= 0 /\ Compare(one', other') >= 0
              => Compare(one, other') >= 0]_pair
  <2>1. ASSUME ChainInv, NextPair
        PROVE  Compare(one, other) >= 0 /\ Compare(one', other') >= 0
                 => Compare(one, other') >= 0
    <3>1. one' = other /\ other' \in Pool
      BY <2>1 DEF NextPair
    <3>2. PICK c \in Pool : c = other'
      BY <3>1
    <3>3. Coherent(Compare(one, other), Compare(other, c), Compare(one, c))
      BY <2>1, ComparesCoherently DEF ChainInv
    <3>4. /\ Compare(one', other') = Compare(other, c)
          /\ Compare(one, other') = Compare(one, c)
      BY <3>1, <3>2
    <3>5. QED
      BY <3>3, <3>4 DEF Coherent, Signs
  <2>2. QED
    BY <2>1
<1>4. QED
  BY <1>1, <1>2, <1>3, PTL DEF Chain, ChainIsOrdered

-----------------------------------------------------------------------------
(* Keys.  Two keys compare as they do at the first position where they     *)
(* differ.                                                                 *)
Differ(x, y, k) ==
    /\ k \in Nat \ {0} /\ KeyAt(x, k) # KeyAt(y, k)
    /\ \A j \in Nat \ {0} : j < k => KeyAt(x, j) = KeyAt(y, j)

Agree(x, y) == \A k \in Nat \ {0} : KeyAt(x, k) = KeyAt(y, k)

LEMMA KeysCompare ==
    ASSUME NEW x \in Seq(Int), NEW y \in Seq(Int)
    PROVE  /\ Agree(x, y) => CompareKeys(x, y) = 0
           /\ \A k : Differ(x, y, k) =>
                 CompareKeys(x, y) = CompareInts(KeyAt(x, k), KeyAt(y, k))
           /\ ~Agree(x, y) => \E k : Differ(x, y, k)
           /\ CompareKeys(x, y) \in Signs
<1> DEFINE differ == {k \in 1..Longer(x, y) : KeyAt(x, k) # KeyAt(y, k)}
           first == CHOOSE k \in differ : \A j \in differ : k <= j
<1>1. CompareKeys(x, y) =
        IF differ = {} THEN 0
        ELSE IF KeyAt(x, first) < KeyAt(y, first) THEN -1 ELSE 1
  BY DEF CompareKeys
<1>2. \A k : KeyAt(x, k) \in Int /\ KeyAt(y, k) \in Int
  BY DEF KeyAt
<1>3. PICK n \in Nat : n = Longer(x, y)
  BY DEF Longer
<1>4. \A k \in Nat \ {0} : k \in differ <=> KeyAt(x, k) # KeyAt(y, k)
  BY <1>3 DEF KeyAt, Longer
<1>5. differ \in SUBSET (1..n)
  BY <1>3
<1>6. differ # {} => first \in differ /\ \A j \in differ : first <= j
  BY <1>3, <1>5, FirstPosition
<1>7. \A k \in differ : k \in Nat \ {0}
  BY <1>5
<1> HIDE DEF differ, first
<1>8. Agree(x, y) => differ = {}
  BY <1>4, <1>7 DEF Agree
<1>9. ~Agree(x, y) => Differ(x, y, first)
  <2>1. SUFFICES ASSUME ~Agree(x, y)
                 PROVE  Differ(x, y, first)
    OBVIOUS
  <2>2. differ # {}
    BY <1>4, <2>1 DEF Agree
  <2>3. first \in Nat \ {0} /\ first \in differ
    BY <1>6, <1>7, <2>2
  <2>4. \A j \in Nat \ {0} : j < first => j \notin differ
    BY <1>6, <2>2, <2>3
  <2>5. QED
    BY <1>4, <2>3, <2>4 DEF Differ
<1>10. ASSUME NEW k, Differ(x, y, k)
       PROVE  first = k /\ differ # {}
  <2>1. k \in differ
    BY <1>4, <1>10 DEF Differ
  <2>2. first <= k /\ first \in differ
    BY <1>6, <2>1
  <2>3. ~(first < k)
    BY <1>4, <1>7, <1>10, <2>2 DEF Differ
  <2>4. QED
    BY <1>7, <1>10, <2>1, <2>2, <2>3 DEF Differ
<1>11. ASSUME NEW k, Differ(x, y, k)
       PROVE  CompareKeys(x, y) = CompareInts(KeyAt(x, k), KeyAt(y, k))
  <2>1. KeyAt(x, k) # KeyAt(y, k)
    BY <1>11 DEF Differ
  <2>2. QED
    BY <1>1, <1>2, <1>10, <1>11, <2>1 DEF CompareInts
<1>12. CompareKeys(x, y) \in Signs
  BY <1>1 DEF Signs
<1>13. QED
  BY <1>1, <1>8, <1>9, <1>11, <1>12

LEMMA KeyOfJoined ==
    ASSUME NEW x \in Seq(Int), NEW y \in Seq(Int)
    PROVE  /\ x \o y \in Seq(Int) /\ Len(x) \in Nat
           /\ \A k \in 1..Len(x) : KeyAt(x \o y, k) = KeyAt(x, k)
           /\ \A k \in Nat \ {0} : KeyAt(x \o y, Len(x) + k) = KeyAt(y, k)
<1>1. PICK z : z = x \o y
  OBVIOUS
<1>2. /\ z \in Seq(Int) /\ Len(x) \in Nat /\ Len(y) \in Nat
      /\ DOMAIN x = 1..Len(x) /\ DOMAIN y = 1..Len(y) /\ DOMAIN z = 1..(Len(x) + Len(y))
      /\ \A i \in 1..Len(x) : z[i] = x[i]
      /\ \A i \in 1..Len(y) : z[Len(x) + i] = y[i]
  BY <1>1, Joined
<1>3. \A k \in 1..Len(x) : KeyAt(z, k) = KeyAt(x, k)
  BY <1>2 DEF KeyAt
<1>4. \A k \in Nat \ {0} : KeyAt(z, Len(x) + k) = KeyAt(y, k)
  BY <1>2 DEF KeyAt
<1>5. QED
  BY <1>1, <1>2, <1>3, <1>4

(* Keys made of two parts compare part by part if the first parts are of   *)
(* the same length or differ before either runs out.                       *)
LEMMA PartByPart ==
    ASSUME NEW x1 \in Seq(Int), NEW y1 \in Seq(Int), NEW x2 \in Seq(Int), NEW y2 \in Seq(Int),
           \/ Len(x1) = Len(y1)
           \/ \E k \in Nat \ {0} : k <= Len(x1) /\ k <= Len(y1) /\ x1[k] # y1[k]
    PROVE  CompareKeys(x1 \o x2, y1 \o y2)
              = Then(CompareKeys(x1, y1), CompareKeys(x2, y2))
<1>1. PICK x, y : x = x1 \o x2 /\ y = y1 \o y2
  OBVIOUS
<1>2. /\ Len(x1) \in Nat /\ Len(y1) \in Nat
      /\ \A k \in 1..Len(x1) : KeyAt(x, k) = KeyAt(x1, k)
      /\ \A k \in 1..Len(y1) : KeyAt(y, k) = KeyAt(y1, k)
      /\ \A k \in Nat \ {0} : KeyAt(x, Len(x1) + k) = KeyAt(x2, k)
      /\ \A k \in Nat \ {0} : KeyAt(y, Len(y1) + k) = KeyAt(y2, k)
      /\ x \in Seq(Int) /\ y \in Seq(Int)
  <2>1. /\ x1 \o x2 \in Seq(Int) /\ Len(x1) \in Nat
        /\ \A k \in 1..Len(x1) : KeyAt(x1 \o x2, k) = KeyAt(x1, k)
        /\ \A k \in Nat \ {0} : KeyAt(x1 \o x2, Len(x1) + k) = KeyAt(x2, k)
    BY KeyOfJoined
  <2>2. /\ y1 \o y2 \in Seq(Int) /\ Len(y1) \in Nat
        /\ \A k \in 1..Len(y1) : KeyAt(y1 \o y2, k) = KeyAt(y1, k)
        /\ \A k \in Nat \ {0} : KeyAt(y1 \o y2, Len(y1) + k) = KeyAt(y2, k)
    BY KeyOfJoined
  <2>3. QED
    BY <1>1, <2>1, <2>2, Zenon
<1>3. \A k \in Nat \ {0} : /\ k <= Len(x1) => KeyAt(x1, k) = x1[k]
                           /\ k > Len(x1) => KeyAt(x1, k) = -2
                           /\ k <= Len(y1) => KeyAt(y1, k) = y1[k]
                           /\ k > Len(y1) => KeyAt(y1, k) = -2
  BY DEF KeyAt
<1>4. CASE ~Agree(x1, y1)
  <2>1. PICK k : Differ(x1, y1, k)
    BY <1>4, KeysCompare
  <2>2. k \in Nat \ {0} /\ k <= Len(x1) /\ k <= Len(y1)
    <3>0. Len(x1) \in Nat /\ Len(y1) \in Nat
      OBVIOUS
    <3>1. k \in Nat \ {0} /\ (k <= Len(x1) \/ k <= Len(y1))
      <4>1. k \in Nat \ {0} /\ KeyAt(x1, k) # KeyAt(y1, k)
        BY <2>1 DEF Differ
      <4>2. k > Len(x1) /\ k > Len(y1) => KeyAt(x1, k) = -2 /\ KeyAt(y1, k) = -2
        BY <1>3, <4>1
      <4>3. QED
        BY <3>0, <4>1, <4>2
    <3>2. CASE Len(x1) = Len(y1)
      BY <3>1, <3>2
    <3>3. ASSUME NEW i \in Nat \ {0}, i <= Len(x1), i <= Len(y1), x1[i] # y1[i]
          PROVE  k <= Len(x1) /\ k <= Len(y1)
      <4>1. ~(i < k)
        BY <1>3, <2>1, <3>3 DEF Differ
      <4>2. QED
        BY <3>0, <3>1, <3>3, <4>1
    <3>4. QED
      BY <3>1, <3>2, <3>3
  <2>3. KeyAt(x, k) = KeyAt(x1, k) /\ KeyAt(y, k) = KeyAt(y1, k)
    <3>1. k \in 1..Len(x1) /\ k \in 1..Len(y1)
      BY <2>2
    <3>2. QED
      BY <1>2, <3>1, Zenon
  <2>4. \A j \in Nat \ {0} : j < k => /\ KeyAt(x, j) = KeyAt(x1, j)
                                      /\ KeyAt(y, j) = KeyAt(y1, j)
    <3>1. \A j \in Nat \ {0} : j < k => j \in 1..Len(x1) /\ j \in 1..Len(y1)
      BY <2>2
    <3>2. QED
      BY <1>2, <3>1, Zenon
  <2>5. Differ(x, y, k)
    BY <2>1, <2>3, <2>4 DEF Differ
  <2>6. /\ CompareKeys(x, y) = CompareInts(KeyAt(x1, k), KeyAt(y1, k))
        /\ CompareKeys(x1, y1) = CompareInts(KeyAt(x1, k), KeyAt(y1, k))
    BY <1>2, <2>1, <2>3, <2>5, KeysCompare
  <2>7. CompareInts(KeyAt(x1, k), KeyAt(y1, k)) # 0
    <3>1. KeyAt(x1, k) \in Int /\ KeyAt(y1, k) \in Int
      BY DEF KeyAt
    <3>2. QED
      BY <2>1, <3>1 DEF Differ, CompareInts
  <2>8. QED
    BY <1>1, <2>6, <2>7 DEF Then
<1>5. CASE Agree(x1, y1)
  <2>1. Len(x1) = Len(y1)
    BY <1>3, <1>5 DEF Agree
  <2>2. CompareKeys(x1, y1) = 0
    BY <1>5, KeysCompare
  <2>3. \A k \in 1..Len(x1) : KeyAt(x, k) = KeyAt(y, k)
    BY <1>2, <1>5, <2>1 DEF Agree
  <2>4. \A k \in Nat \ {0} : k \notin 1..Len(x1) =>
           /\ k - Len(x1) \in Nat \ {0}
           /\ KeyAt(x, k) = KeyAt(x2, k - Len(x1))
           /\ KeyAt(y, k) = KeyAt(y2, k - Len(x1))
    <3> SUFFICES ASSUME NEW k \in Nat \ {0}, k \notin 1..Len(x1)
                 PROVE  /\ k - Len(x1) \in Nat \ {0}
                        /\ KeyAt(x, k) = KeyAt(x2, k - Len(x1))
                        /\ KeyAt(y, k) = KeyAt(y2, k - Len(x1))
      OBVIOUS
    <3>1. PICK j : j = k - Len(x1)
      OBVIOUS
    <3>2. j \in Nat \ {0} /\ k = Len(x1) + j
      BY <1>2, <3>1
    <3>3. QED
      BY <1>2, <2>1, <3>1, <3>2
  <2>5. CASE Agree(x2, y2)
    <3>1. \A k \in Nat \ {0} : KeyAt(x, k) = KeyAt(y, k)
      BY <2>3, <2>4, <2>5 DEF Agree
    <3>2. CompareKeys(x, y) = 0 /\ CompareKeys(x2, y2) = 0
      BY <1>2, <2>5, <3>1, KeysCompare DEF Agree
    <3>3. QED
      BY <1>1, <2>2, <3>2 DEF Then
  <2>6. CASE ~Agree(x2, y2)
    <3>1. PICK k : Differ(x2, y2, k)
      BY <2>6, KeysCompare
    <3>2. PICK i \in Nat \ {0} : i = Len(x1) + k
      BY <1>2, <3>1 DEF Differ
    <3>3. KeyAt(x, i) = KeyAt(x2, k) /\ KeyAt(y, i) = KeyAt(y2, k)
      BY <1>2, <2>1, <3>1, <3>2 DEF Differ
    <3>4. \A j \in Nat \ {0} : j < i => KeyAt(x, j) = KeyAt(y, j)
      <4> SUFFICES ASSUME NEW j \in Nat \ {0}, j < i, j \notin 1..Len(x1)
                   PROVE  KeyAt(x, j) = KeyAt(y, j)
        BY <2>3
      <4>1. PICK m : m = j - Len(x1)
        OBVIOUS
      <4>2. m \in Nat \ {0} /\ k \in Nat /\ m < k
        BY <1>2, <2>4, <3>1, <3>2, <4>1 DEF Differ
      <4>3. QED
        BY <2>4, <3>1, <4>1, <4>2 DEF Differ
    <3>5. Differ(x, y, i)
      BY <3>1, <3>3, <3>4 DEF Differ
    <3>6. CompareKeys(x, y) = CompareKeys(x2, y2)
      BY <1>2, <3>1, <3>3, <3>5, KeysCompare
    <3>7. QED
      BY <1>1, <2>2, <3>6 DEF Then
  <2>7. QED
    BY <2>5, <2>6
<1>6. QED
  BY <1>4, <1>5

(* Keys of one, three and four numbers.                                    *)
LEMMA OneNumber ==
    ASSUME NEW a \in Int, NEW b \in Int
    PROVE  /\ <<a>> \in Seq(Int) /\ Len(<<a>>) = 1
           /\ CompareKeys(<<a>>, <<b>>) = CompareInts(a, b)
<1>1. PICK x, y : x = <<a>> /\ y = <<b>>
  OBVIOUS
<1>2. /\ x \in Seq(Int) /\ y \in Seq(Int) /\ Len(x) = 1 /\ Len(y) = 1
      /\ DOMAIN x = 1..1 /\ DOMAIN y = 1..1 /\ x[1] = a /\ y[1] = b
  BY <1>1
<1>3. /\ KeyAt(x, 1) = a /\ KeyAt(y, 1) = b
      /\ \A k \in Nat \ {0} : k # 1 => KeyAt(x, k) = KeyAt(y, k)
  BY <1>2 DEF KeyAt
<1>4. CompareKeys(x, y) = CompareInts(a, b)
  <2>1. CASE a = b
    BY <1>2, <1>3, <2>1, KeysCompare DEF Agree, CompareInts
  <2>2. CASE a # b
    BY <1>2, <1>3, <2>2, KeysCompare DEF Differ
  <2>3. QED
    BY <2>1, <2>2
<1>5. QED
  BY <1>1, <1>2, <1>4, Zenon

LEMMA ThreeNumbers ==
    ASSUME NEW a1 \in Int, NEW a2 \in Int, NEW a3 \in Int,
           NEW b1 \in Int, NEW b2 \in Int, NEW b3 \in Int
    PROVE  /\ <<a1, a2, a3>> \in Seq(Int) /\ Len(<<a1, a2, a3>>) = 3
           /\ CompareKeys(<<a1, a2, a3>>, <<b1, b2, b3>>)
                 = Then(CompareInts(a1, b1), Then(CompareInts(a2, b2), CompareInts(a3, b3)))
<1>1. PICK x, y : x = <<a1, a2, a3>> /\ y = <<b1, b2, b3>>
  OBVIOUS
<1>2. /\ x \in Seq(Int) /\ y \in Seq(Int) /\ Len(x) = 3 /\ Len(y) = 3
      /\ DOMAIN x = 1..3 /\ DOMAIN y = 1..3
      /\ x[1] = a1 /\ x[2] = a2 /\ x[3] = a3 /\ y[1] = b1 /\ y[2] = b2 /\ y[3] = b3
  BY <1>1
<1>3. /\ KeyAt(x, 1) = a1 /\ KeyAt(x, 2) = a2 /\ KeyAt(x, 3) = a3
      /\ KeyAt(y, 1) = b1 /\ KeyAt(y, 2) = b2 /\ KeyAt(y, 3) = b3
      /\ \A k \in Nat \ {0} : k \notin {1, 2, 3} => KeyAt(x, k) = KeyAt(y, k)
  BY <1>2 DEF KeyAt
<1>4. CompareKeys(x, y) = Then(CompareInts(a1, b1), Then(CompareInts(a2, b2), CompareInts(a3, b3)))
  <2>1. CASE a1 # b1
    <3>1. Differ(x, y, 1)
      BY <1>3, <2>1 DEF Differ
    <3>2. QED
      BY <1>2, <1>3, <2>1, <3>1, KeysCompare DEF Then, CompareInts
  <2>2. CASE a1 = b1 /\ a2 # b2
    <3>1. Differ(x, y, 2)
      BY <1>3, <2>2 DEF Differ
    <3>2. QED
      BY <1>2, <1>3, <2>2, <3>1, KeysCompare DEF Then, CompareInts
  <2>3. CASE a1 = b1 /\ a2 = b2 /\ a3 # b3
    <3>1. Differ(x, y, 3)
      BY <1>3, <2>3 DEF Differ
    <3>2. QED
      BY <1>2, <1>3, <2>3, <3>1, KeysCompare DEF Then, CompareInts
  <2>4. CASE a1 = b1 /\ a2 = b2 /\ a3 = b3
    <3>1. Agree(x, y)
      BY <1>3, <2>4 DEF Agree
    <3>2. QED
      BY <1>2, <2>4, <3>1, KeysCompare DEF Then, CompareInts
  <2>5. QED
    BY <2>1, <2>2, <2>3, <2>4
<1>5. QED
  BY <1>1, <1>2, <1>4, Zenon

LEMMA FourNumbers ==
    ASSUME NEW a1 \in Int, NEW a2 \in Int, NEW a3 \in Int, NEW a4 \in Int,
           NEW b1 \in Int, NEW b2 \in Int, NEW b3 \in Int, NEW b4 \in Int
    PROVE  /\ <<a1, a2, a3, a4>> \in Seq(Int)
           /\ CompareKeys(<<a1, a2, a3, a4>>, <<b1, b2, b3, b4>>)
                 = Then(CompareInts(a1, b1), Then(CompareInts(a2, b2),
                        Then(CompareInts(a3, b3), CompareInts(a4, b4))))
<1>1. PICK x, y : x = <<a1, a2, a3, a4>> /\ y = <<b1, b2, b3, b4>>
  OBVIOUS
<1>2. /\ x \in Seq(Int) /\ y \in Seq(Int)
      /\ DOMAIN x = 1..4 /\ DOMAIN y = 1..4
      /\ x[1] = a1 /\ x[2] = a2 /\ x[3] = a3 /\ x[4] = a4
      /\ y[1] = b1 /\ y[2] = b2 /\ y[3] = b3 /\ y[4] = b4
  BY <1>1
<1>3. /\ KeyAt(x, 1) = a1 /\ KeyAt(x, 2) = a2 /\ KeyAt(x, 3) = a3 /\ KeyAt(x, 4) = a4
      /\ KeyAt(y, 1) = b1 /\ KeyAt(y, 2) = b2 /\ KeyAt(y, 3) = b3 /\ KeyAt(y, 4) = b4
      /\ \A k \in Nat \ {0} : k \notin {1, 2, 3, 4} => KeyAt(x, k) = KeyAt(y, k)
  BY <1>2 DEF KeyAt
<1>4. CompareKeys(x, y) = Then(CompareInts(a1, b1), Then(CompareInts(a2, b2),
                               Then(CompareInts(a3, b3), CompareInts(a4, b4))))
  <2>1. CASE a1 # b1
    <3>1. Differ(x, y, 1)
      BY <1>3, <2>1 DEF Differ
    <3>2. QED
      BY <1>2, <1>3, <2>1, <3>1, KeysCompare DEF Then, CompareInts
  <2>2. CASE a1 = b1 /\ a2 # b2
    <3>1. Differ(x, y, 2)
      BY <1>3, <2>2 DEF Differ
    <3>2. QED
      BY <1>2, <1>3, <2>2, <3>1, KeysCompare DEF Then, CompareInts
  <2>3. CASE a1 = b1 /\ a2 = b2 /\ a3 # b3
    <3>1. Differ(x, y, 3)
      BY <1>3, <2>3 DEF Differ
    <3>2. QED
      BY <1>2, <1>3, <2>3, <3>1, KeysCompare DEF Then, CompareInts
  <2>4. CASE a1 = b1 /\ a2 = b2 /\ a3 = b3 /\ a4 # b4
    <3>1. Differ(x, y, 4)
      BY <1>3, <2>4 DEF Differ
    <3>2. QED
      BY <1>2, <1>3, <2>4, <3>1, KeysCompare DEF Then, CompareInts
  <2>5. CASE a1 = b1 /\ a2 = b2 /\ a3 = b3 /\ a4 = b4
    <3>1. Agree(x, y)
      BY <1>3, <2>5 DEF Agree
    <3>2. QED
      BY <1>2, <2>5, <3>1, KeysCompare DEF Then, CompareInts
  <2>6. QED
    BY <2>1, <2>2, <2>3, <2>4, <2>5
<1>5. QED
  BY <1>1, <1>2, <1>4, Zenon

-----------------------------------------------------------------------------
(* The order of Semantic Versioning                                        *)
Below(pre) == \A k \in DOMAIN pre : pre[k].value < Infinity

LEMMA PrereleaseKeys ==
    ASSUME NEW l \in Seq(Identifier), NEW r \in Seq(Identifier), Below(l), Below(r)
    PROVE  /\ PrereleaseKey(l) \in Seq(Int) /\ PrereleaseKey(r) \in Seq(Int)
           /\ ComparePrereleases(l, r) = CompareKeys(PrereleaseKey(l), PrereleaseKey(r))
<1> DEFINE Value(e) == IF e.numeric THEN e.value ELSE Infinity + e.value
<1>1. ASSUME NEW p \in Seq(Identifier), Below(p)
      PROVE  /\ PrereleaseKey(p) \in Seq(Int)
             /\ \A k \in 1..Len(p) : /\ KeyAt(PrereleaseKey(p), k) = Value(p[k])
                                     /\ Value(p[k]) \in Nat /\ Value(p[k]) < 2 * Infinity
             /\ p # <<>> => \A k \in Nat \ {0} : k > Len(p) => KeyAt(PrereleaseKey(p), k) = -2
             /\ p = <<>> => KeyAt(PrereleaseKey(p), 1) = 2 * Infinity
             /\ p = <<>> => \A k \in Nat \ {0} : k # 1 => KeyAt(PrereleaseKey(p), k) = -2
  <2>1. \A k \in 1..Len(p) : Value(p[k]) \in Nat /\ Value(p[k]) < 2 * Infinity
    <3> TAKE k \in 1..Len(p)
    <3>1. p[k] \in Identifier /\ p[k].value < Infinity
      BY <1>1 DEF Below
    <3>2. p[k].value \in Nat /\ p[k].value < Infinity /\ Infinity \in Nat
      BY <3>1, InfinityAssumption DEF Identifier
    <3>3. QED
      BY <3>2
  <2>2. CASE p = <<>>
    <3>1. PICK x : x = <<2 * Infinity>>
      OBVIOUS
    <3>2. x \in Seq(Int) /\ DOMAIN x = 1..1 /\ x[1] = 2 * Infinity
      BY <3>1, InfinityAssumption
    <3>3. PrereleaseKey(p) = x
      BY <2>2, <3>1 DEF PrereleaseKey
    <3>4. QED
      BY <2>2, <3>2, <3>3 DEF KeyAt
  <2>3. CASE p # <<>>
    <3>1. PICK x : x = [k \in 1..Len(p) |-> Value(p[k])]
      OBVIOUS
    <3>2. x \in Seq(Int) /\ DOMAIN x = 1..Len(p) /\ \A k \in 1..Len(p) : x[k] = Value(p[k])
      BY <2>1, <3>1
    <3>3. PrereleaseKey(p) = x
      BY <2>3, <3>1 DEF PrereleaseKey
    <3>4. QED
      BY <2>1, <2>3, <3>2, <3>3 DEF KeyAt
  <2>4. QED
    BY <2>2, <2>3
<1>2. PICK x \in Seq(Int), y \in Seq(Int) : x = PrereleaseKey(l) /\ y = PrereleaseKey(r)
  BY <1>1
<1>3. ComparePrereleases(l, r) = CompareKeys(x, y)
  <2>1. CASE l = <<>> /\ r = <<>>
    <3>1. x = y
      BY <1>2, <2>1
    <3>2. CompareKeys(x, y) = 0
      BY <3>1, KeysCompare DEF Agree
    <3>3. QED
      BY <2>1, <3>2 DEF ComparePrereleases, CompareInts
  <2>2. CASE l = <<>> /\ r # <<>>
    <3>1. KeyAt(x, 1) = 2 * Infinity /\ KeyAt(y, 1) \in Int /\ KeyAt(y, 1) < 2 * Infinity
      <4>1. 1 \in 1..Len(r)
        BY <2>2
      <4>2. KeyAt(PrereleaseKey(r), 1) \in Nat /\ KeyAt(PrereleaseKey(r), 1) < 2 * Infinity
        BY <1>1, <4>1
      <4>3. KeyAt(PrereleaseKey(l), 1) = 2 * Infinity
        BY <1>1, <2>2
      <4>4. QED
        BY <1>2, <4>2, <4>3
    <3>2. Differ(x, y, 1)
      BY <3>1, InfinityAssumption DEF Differ
    <3>3. CompareKeys(x, y) = 1
      BY <3>1, <3>2, KeysCompare, InfinityAssumption DEF CompareInts
    <3>4. QED
      BY <2>2, <3>3 DEF ComparePrereleases, CompareInts
  <2>3. CASE l # <<>> /\ r = <<>>
    <3>1. KeyAt(y, 1) = 2 * Infinity /\ KeyAt(x, 1) \in Int /\ KeyAt(x, 1) < 2 * Infinity
      <4>1. 1 \in 1..Len(l)
        BY <2>3
      <4>2. KeyAt(PrereleaseKey(l), 1) \in Nat /\ KeyAt(PrereleaseKey(l), 1) < 2 * Infinity
        BY <1>1, <4>1
      <4>3. KeyAt(PrereleaseKey(r), 1) = 2 * Infinity
        BY <1>1, <2>3
      <4>4. QED
        BY <1>2, <4>2, <4>3
    <3>2. Differ(x, y, 1)
      BY <3>1, InfinityAssumption DEF Differ
    <3>3. CompareKeys(x, y) = -1
      BY <3>1, <3>2, KeysCompare, InfinityAssumption DEF CompareInts
    <3>4. QED
      BY <2>3, <3>3 DEF ComparePrereleases, CompareInts
  <2>4. CASE l # <<>> /\ r # <<>>
    <3>1. PICK n \in Nat : n > Longer(l, r)
      <4>1. Longer(l, r) + 1 \in Nat /\ Longer(l, r) + 1 > Longer(l, r)
        BY DEF Longer
      <4>2. QED
        BY <4>1
    <3>2. PICK C : C = PlacesOf(l, r, n)
      OBVIOUS
    <3>3. IsComparison(C, n) /\ ComparePrereleases(l, r) = Lexicographic(C)
      BY <2>4, <3>1, <3>2, PlacesOfCompare
    <3>4. \A k \in Nat \ {0} : CompareInts(KeyAt(x, k), KeyAt(y, k)) = PlaceOf(l, r, k)
      <4> TAKE k \in Nat \ {0}
      <4>1. CASE k <= Len(l) /\ k <= Len(r)
        <5>1. k \in 1..Len(l) /\ k \in 1..Len(r)
          BY <4>1
        <5>2. KeyAt(x, k) = Value(l[k]) /\ KeyAt(y, k) = Value(r[k])
          BY <1>1, <1>2, <5>1
        <5>3. l[k] \in Identifier /\ r[k] \in Identifier /\ l[k].value < Infinity /\ r[k].value < Infinity
          BY <5>1 DEF Below
        <5>4. QED
          BY <4>1, <5>2, <5>3, InfinityAssumption
             DEF PlaceOf, CompareSemverIdentifier, CompareInts, Identifier
      <4>2. CASE k <= Len(l) /\ k > Len(r)
        <5>1. KeyAt(x, k) \in Nat /\ KeyAt(y, k) = -2
          <6>1. k \in 1..Len(l)
            BY <4>2
          <6>2. KeyAt(PrereleaseKey(l), k) \in Nat
            BY <1>1, <6>1
          <6>3. KeyAt(PrereleaseKey(r), k) = -2
            BY <1>1, <2>4, <4>2
          <6>4. QED
            BY <1>2, <6>2, <6>3
        <5>2. QED
          BY <4>2, <5>1 DEF PlaceOf, CompareInts
      <4>3. CASE k > Len(l) /\ k <= Len(r)
        <5>1. KeyAt(x, k) = -2 /\ KeyAt(y, k) \in Nat
          BY <1>1, <1>2, <2>4, <4>3
        <5>2. QED
          BY <4>3, <5>1 DEF PlaceOf, CompareInts
      <4>4. CASE k > Len(l) /\ k > Len(r)
        <5>1. KeyAt(x, k) = -2 /\ KeyAt(y, k) = -2
          BY <1>1, <1>2, <2>4, <4>4
        <5>2. QED
          BY <4>4, <5>1 DEF PlaceOf, CompareInts
      <4>5. QED
        BY <4>1, <4>2, <4>3, <4>4
    <3>5. \A k \in Nat \ {0} : KeyAt(x, k) \in Int /\ KeyAt(y, k) \in Int
      BY DEF KeyAt
    <3>6. \A k \in Nat \ {0} : KeyAt(x, k) = KeyAt(y, k) <=> PlaceOf(l, r, k) = 0
      BY <3>4, <3>5 DEF CompareInts
    <3>7. CASE Agree(x, y)
      <4>1. \A k \in 1..n : C[k] = 0
        BY <3>2, <3>6, <3>7 DEF Agree, PlacesOf
      <4>2. Lexicographic(C) = 0
        BY <3>3, <4>1, FirstDecides
      <4>3. QED
        BY <3>3, <3>7, <4>2, KeysCompare
    <3>8. CASE ~Agree(x, y)
      <4>1. PICK k : Differ(x, y, k)
        BY <3>8, KeysCompare
      <4>2. k \in Nat \ {0} /\ PlaceOf(l, r, k) # 0
        BY <3>6, <4>1 DEF Differ
      <4>3. k \in 1..n
        BY <3>1, <4>2 DEF PlaceOf, Longer
      <4>4. \A j \in 1..n : j < k => C[j] = 0
        BY <3>2, <3>6, <4>1 DEF Differ, PlacesOf
      <4>5. C[k] = PlaceOf(l, r, k)
        BY <3>2, <4>3 DEF PlacesOf
      <4>6. Lexicographic(C) = PlaceOf(l, r, k)
        BY <3>3, <4>2, <4>3, <4>4, <4>5, FirstDecides
      <4>7. CompareKeys(x, y) = PlaceOf(l, r, k)
        BY <3>4, <4>1, <4>2, KeysCompare
      <4>8. QED
        BY <3>3, <4>6, <4>7
    <3>9. QED
      BY <3>7, <3>8
  <2>5. QED
    BY <2>1, <2>2, <2>3, <2>4
<1>4. QED
  BY <1>2, <1>3

LEMMA SemverByKeys ==
    ASSUME NEW a \in SemverVersions, NEW b \in SemverVersions
    PROVE  CompareSemverVersions(a, b) = CompareKeys(SemverKey(a), SemverKey(b))
<1>1. /\ a.major \in Int /\ a.minor \in Int /\ a.patch \in Int
      /\ b.major \in Int /\ b.minor \in Int /\ b.patch \in Int
      /\ a.pre \in Seq(Identifier) /\ b.pre \in Seq(Identifier) /\ Below(a.pre) /\ Below(b.pre)
  BY SemverAssumption DEF Identifier, Below
<1> DEFINE ma == CompareInts(a.major, b.major)
           mi == CompareInts(a.minor, b.minor)
           pa == CompareInts(a.patch, b.patch)
           pr == ComparePrereleases(a.pre, b.pre)
<1>2. PICK x1, y1 : x1 = <<a.major, a.minor, a.patch>> /\ y1 = <<b.major, b.minor, b.patch>>
  OBVIOUS
<1>3. PICK x2, y2 : x2 = PrereleaseKey(a.pre) /\ y2 = PrereleaseKey(b.pre)
  OBVIOUS
<1>4. /\ x1 \in Seq(Int) /\ y1 \in Seq(Int) /\ Len(x1) = 3 /\ Len(y1) = 3
      /\ CompareKeys(x1, y1) = Then(ma, Then(mi, pa))
  BY <1>1, <1>2, ThreeNumbers
<1>5. x2 \in Seq(Int) /\ y2 \in Seq(Int) /\ CompareKeys(x2, y2) = pr
  BY <1>1, <1>3, PrereleaseKeys
<1>6. CompareKeys(x1 \o x2, y1 \o y2) = Then(Then(ma, Then(mi, pa)), pr)
  BY <1>4, <1>5, PartByPart
<1>7. SemverKey(a) = x1 \o x2 /\ SemverKey(b) = y1 \o y2
  BY <1>2, <1>3 DEF SemverKey
<1>8. ma \in Signs /\ mi \in Signs /\ pa \in Signs /\ pr \in Signs
  <2>1. pr \in Signs
    BY <1>1, PrereleasesCohere DEF Coherent
  <2>2. QED
    BY <2>1 DEF CompareInts, Signs
<1>9. CompareSemverVersions(a, b) = Lexicographic(<<ma, mi, pa, pr>>)
  BY DEF CompareSemverVersions
<1> HIDE DEF ma, mi, pa, pr
<1>10. CompareSemverVersions(a, b) = Then(ma, Then(mi, Then(pa, pr)))
  BY <1>8, <1>9, FourDecide
<1>11. QED
  BY <1>6, <1>7, <1>8, <1>10 DEF Then

-----------------------------------------------------------------------------
(* The order of PEP 440                                                    *)

(* The last of a set of positions.                                         *)
LEMMA LastPosition ==
    ASSUME NEW n \in Nat, NEW S \in SUBSET (1..n), S # {}
    PROVE  \E last \in S : \A j \in S : j <= last
<1> DEFINE T == {k \in 1..n : n + 1 - k \in S}
           first == CHOOSE k \in T : \A j \in T : k <= j
<1>1. \A k \in S : k \in 1..n /\ n + 1 - k \in T
  BY DEF T
<1>2. T \in SUBSET (1..n) /\ T # {}
  BY <1>1
<1>3. first \in T /\ \A j \in T : first <= j
  BY <1>2, FirstPosition
<1>4. first \in 1..n /\ n + 1 - first \in S
  BY <1>3
<1> HIDE DEF first, T
<1>5. PICK last : last = n + 1 - first
  OBVIOUS
<1>6. ASSUME NEW j \in S
      PROVE  j <= last
  <2>1. j \in 1..n /\ first <= n + 1 - j
    BY <1>1, <1>3
  <2>2. QED
    BY <1>4, <1>5, <2>1
<1>7. QED
  BY <1>4, <1>5, <1>6

(* The first position where two releases differ.                           *)
LEMMA FirstDifference ==
    ASSUME NEW l, NEW r, NEW n \in Nat \ {0}, At(l, n) # At(r, n)
    PROVE  \E i \in Nat \ {0} : At(l, i) # At(r, i) /\ \A j \in 1..(i - 1) : At(l, j) = At(r, j)
<1> DEFINE S == {k \in 1..n : At(l, k) # At(r, k)}
           first == CHOOSE k \in S : \A j \in S : k <= j
<1>1. S \in SUBSET (1..n) /\ S # {}
  OBVIOUS
<1>2. first \in S /\ \A j \in S : first <= j
  BY <1>1, FirstPosition
<1> HIDE DEF first
<1>3. first \in 1..n /\ At(l, first) # At(r, first)
  BY <1>2
<1>4. \A j \in 1..(first - 1) : At(l, j) = At(r, j)
  <2> TAKE j \in 1..(first - 1)
  <2>1. j \in 1..n /\ ~(first <= j)
    BY <1>3
  <2>2. j \notin S
    BY <1>2, <2>1
  <2>3. QED
    BY <2>1, <2>2
<1>5. QED
  BY <1>3, <1>4

(* Trailing zeros do not count.                                            *)
LEMMA Trimmed ==
    ASSUME NEW s \in Seq(Nat)
    PROVE  LET z == WithoutZeros(s) IN
           /\ z \in Seq(Nat) /\ Len(z) \in Nat
           /\ \A k \in 1..Len(z) : z[k] = At(s, k)
           /\ \A k \in Nat \ {0} : k > Len(z) => At(s, k) = 0
           /\ Len(z) # 0 => At(s, Len(z)) # 0
<1> DEFINE significant == {k \in DOMAIN s : \E j \in DOMAIN s : j >= k /\ s[j] # 0}
           nonzero == {k \in DOMAIN s : s[k] # 0}
<1>1. Len(s) \in Nat /\ DOMAIN s = 1..Len(s) /\ \A k \in 1..Len(s) : s[k] \in Nat
  OBVIOUS
<1>2. \E m \in 0..Len(s) : /\ significant = 1..m
                           /\ \A k \in 1..Len(s) : k > m => s[k] = 0
                           /\ m # 0 => s[m] # 0
  <2>1. CASE nonzero = {}
    <3>1. significant = 1..0
      BY <2>1
    <3>2. \A k \in 1..Len(s) : s[k] = 0
      BY <1>1, <2>1
    <3>3. QED
      BY <1>1, <3>1, <3>2
  <2>2. CASE nonzero # {}
    <3>1. nonzero \in SUBSET (1..Len(s))
      BY <1>1
    <3>2. PICK m \in nonzero : \A j \in nonzero : j <= m
      BY <1>1, <2>2, <3>1, LastPosition
    <3>3. m \in 1..Len(s) /\ s[m] # 0
      BY <1>1, <3>2
    <3>4. \A k \in 1..Len(s) : k > m => s[k] = 0
      BY <1>1, <3>2, <3>3
    <3>5. ASSUME NEW k \in 1..Len(s)
          PROVE  k \in significant <=> k <= m
      <4>1. k <= m => k \in significant
        BY <1>1, <3>3
      <4>2. k > m => k \notin significant
        BY <1>1, <3>3, <3>4
      <4>3. QED
        BY <3>3, <4>1, <4>2
    <3>6. significant \subseteq 1..Len(s)
      BY <1>1
    <3> HIDE DEF significant
    <3>7. significant = 1..m
      <4>1. \A k \in significant : k \in 1..m
        BY <3>3, <3>5, <3>6
      <4>2. \A k \in 1..m : k \in significant
        BY <1>1, <3>3, <3>5
      <4>3. QED
        BY <4>1, <4>2
    <3>8. QED
      BY <3>3, <3>4, <3>7
  <2>3. QED
    BY <2>1, <2>2
<1>3. PICK m \in 0..Len(s) : /\ significant = 1..m
                             /\ \A k \in 1..Len(s) : k > m => s[k] = 0
                             /\ m # 0 => s[m] # 0
  BY <1>2
<1>4. WithoutZeros(s) = [k \in significant |-> s[k]]
  BY DEF WithoutZeros
<1> HIDE DEF significant
<1>5. PICK z : z = [k \in 1..m |-> s[k]]
  OBVIOUS
<1>6. WithoutZeros(s) = z
  BY <1>3, <1>4, <1>5
<1>7. z \in Seq(Nat) /\ Len(z) = m /\ m \in Nat /\ \A k \in 1..m : z[k] = s[k]
  BY <1>1, <1>5
<1>8. /\ \A k \in 1..m : s[k] = At(s, k)
      /\ \A k \in Nat \ {0} : k > m => At(s, k) = 0
      /\ m # 0 => At(s, m) # 0
  BY <1>1, <1>3 DEF At
<1>9. QED
  BY <1>6, <1>7, <1>8

LEMMA ReleaseKeyAt ==
    ASSUME NEW s \in Seq(Nat)
    PROVE  \E m \in Nat :
             /\ ReleaseKey(s) \in Seq(Int) /\ Len(ReleaseKey(s)) = m + 1
             /\ \A k \in 1..m : KeyAt(ReleaseKey(s), k) = At(s, k)
             /\ KeyAt(ReleaseKey(s), m + 1) = -1
             /\ \A k \in Nat \ {0} : k > m + 1 => KeyAt(ReleaseKey(s), k) = -2
             /\ \A k \in Nat \ {0} : k > m => At(s, k) = 0
             /\ m # 0 => At(s, m) # 0
<1>1. PICK z : z = WithoutZeros(s)
  OBVIOUS
<1>2. /\ z \in Seq(Nat) /\ Len(z) \in Nat
      /\ \A k \in 1..Len(z) : z[k] = At(s, k)
      /\ \A k \in Nat \ {0} : k > Len(z) => At(s, k) = 0
      /\ Len(z) # 0 => At(s, Len(z)) # 0
  BY <1>1, Trimmed
<1>3. PICK m \in Nat : m = Len(z)
  BY <1>2
<1>4. z \in [1..m -> Int] /\ -1 \in Int
  BY <1>2, <1>3
<1>5. PICK x : x = z \o <<-1>>
  OBVIOUS
<1>6. DOMAIN x = 1..(m + 1) /\ (\A k \in 1..m : x[k] = z[k]) /\ x[m + 1] = -1
  BY <1>4, <1>5, OneMore
<1>7. x \in Seq(Int) /\ Len(x) = m + 1
  <2>1. z \in Seq(Int) /\ <<-1>> \in Seq(Int) /\ Len(<<-1>>) = 1
    BY <1>2
  <2>2. z \o <<-1>> \in Seq(Int) /\ Len(z \o <<-1>>) = Len(z) + 1
    BY <2>1
  <2>3. QED
    BY <1>3, <1>5, <2>2
<1>8. /\ \A k \in 1..m : KeyAt(x, k) = At(s, k)
      /\ KeyAt(x, m + 1) = -1
      /\ \A k \in Nat \ {0} : k > m + 1 => KeyAt(x, k) = -2
  BY <1>2, <1>3, <1>6 DEF KeyAt
<1>9. x = ReleaseKey(s)
  BY <1>1, <1>5 DEF ReleaseKey
<1>10. QED
  BY <1>2, <1>3, <1>7, <1>8, <1>9

LEMMA ReleaseKeys ==
    ASSUME NEW l \in Seq(Nat), NEW r \in Seq(Nat)
    PROVE  /\ ReleaseKey(l) \in Seq(Int) /\ ReleaseKey(r) \in Seq(Int)
           /\ CompareIntSlices(l, r) = CompareKeys(ReleaseKey(l), ReleaseKey(r))
           /\ \/ Len(ReleaseKey(l)) = Len(ReleaseKey(r))
              \/ \E k \in Nat \ {0} : /\ k <= Len(ReleaseKey(l)) /\ k <= Len(ReleaseKey(r))
                                      /\ ReleaseKey(l)[k] # ReleaseKey(r)[k]
<1>1. PICK x, y : x = ReleaseKey(l) /\ y = ReleaseKey(r)
  OBVIOUS
<1>2. PICK m \in Nat :
         /\ x \in Seq(Int) /\ Len(x) = m + 1
         /\ \A k \in 1..m : KeyAt(x, k) = At(l, k)
         /\ KeyAt(x, m + 1) = -1
         /\ \A k \in Nat \ {0} : k > m + 1 => KeyAt(x, k) = -2
         /\ \A k \in Nat \ {0} : k > m => At(l, k) = 0
         /\ m # 0 => At(l, m) # 0
  BY <1>1, ReleaseKeyAt
<1>3. PICK n \in Nat :
         /\ y \in Seq(Int) /\ Len(y) = n + 1
         /\ \A k \in 1..n : KeyAt(y, k) = At(r, k)
         /\ KeyAt(y, n + 1) = -1
         /\ \A k \in Nat \ {0} : k > n + 1 => KeyAt(y, k) = -2
         /\ \A k \in Nat \ {0} : k > n => At(r, k) = 0
         /\ n # 0 => At(r, n) # 0
  BY <1>1, ReleaseKeyAt
<1>4. \A k \in Nat \ {0} : At(l, k) \in Nat /\ At(r, k) \in Nat
  BY DEF At
<1>5. PICK N \in Nat : N = Longer(l, r)
  BY DEF Longer
<1>6. PICK C : C = Places(l, r, N)
  OBVIOUS
<1>7. IsComparison(C, N) /\ CompareIntSlices(l, r) = Lexicographic(C)
  BY <1>5, <1>6, PlacesCompare
<1>8. \A k \in 1..N : C[k] = CompareInts(At(l, k), At(r, k))
  BY <1>6 DEF Places
<1>9. CASE Agree(x, y)
  <2>1. m = n
    <3>1. ~(m < n)
      <4>1. m < n => KeyAt(x, m + 1) = -1 /\ KeyAt(y, m + 1) \in Nat
        BY <1>2, <1>3, <1>4
      <4>2. KeyAt(x, m + 1) = KeyAt(y, m + 1)
        BY <1>9 DEF Agree
      <4>3. QED
        BY <4>1, <4>2
    <3>2. ~(n < m)
      <4>1. n < m => KeyAt(y, n + 1) = -1 /\ KeyAt(x, n + 1) \in Nat
        BY <1>2, <1>3, <1>4
      <4>2. KeyAt(x, n + 1) = KeyAt(y, n + 1)
        BY <1>9 DEF Agree
      <4>3. QED
        BY <4>1, <4>2
    <3>3. QED
      BY <3>1, <3>2
  <2>2. \A k \in Nat \ {0} : At(l, k) = At(r, k)
    <3> TAKE k \in Nat \ {0}
    <3>1. CASE k <= m
      <4>1. k \in 1..m /\ k \in 1..n
        BY <2>1, <3>1
      <4>2. KeyAt(x, k) = At(l, k) /\ KeyAt(y, k) = At(r, k) /\ KeyAt(x, k) = KeyAt(y, k)
        BY <1>2, <1>3, <1>9, <4>1 DEF Agree
      <4>3. QED
        BY <4>2
    <3>2. CASE k > m
      BY <1>2, <1>3, <2>1, <3>2
    <3>3. QED
      BY <3>1, <3>2
  <2>3. \A k \in 1..N : C[k] = 0
    BY <1>4, <1>8, <2>2 DEF CompareInts
  <2>4. Lexicographic(C) = 0
    BY <1>7, <2>3, FirstDecides
  <2>5. CompareKeys(x, y) = 0
    BY <1>2, <1>3, <1>9, KeysCompare
  <2>6. QED
    BY <1>1, <1>2, <1>3, <1>7, <2>1, <2>4, <2>5
<1>10. CASE ~Agree(x, y)
  <2>1. PICK k : Differ(x, y, k)
    BY <1>2, <1>3, <1>10, KeysCompare
  <2>2. k \in Nat \ {0} /\ KeyAt(x, k) # KeyAt(y, k)
    BY <2>1 DEF Differ
  <2>3. \A j \in Nat \ {0} : j < k => KeyAt(x, j) = KeyAt(y, j)
    BY <2>1 DEF Differ
  <2>4. k <= m + 1 /\ k <= n + 1
    <3>1. ~(m + 1 < k)
      <4>1. ASSUME m + 1 < k
            PROVE  FALSE
        <5>1. KeyAt(y, m + 1) = -1
          BY <1>2, <2>3, <4>1
        <5>2. m + 1 > n
          <6>1. m + 1 \in 1..n => KeyAt(y, m + 1) = At(r, m + 1) /\ At(r, m + 1) \in Nat
            BY <1>3, <1>4
          <6>2. QED
            BY <5>1, <6>1
        <5>3. m = n
          BY <1>3, <5>1, <5>2
        <5>4. QED
          BY <1>2, <1>3, <2>2, <4>1, <5>3
      <4>2. QED
        BY <4>1
    <3>2. ~(n + 1 < k)
      <4>1. ASSUME n + 1 < k
            PROVE  FALSE
        <5>1. KeyAt(x, n + 1) = -1
          BY <1>3, <2>3, <4>1
        <5>2. n + 1 > m
          <6>1. n + 1 \in 1..m => KeyAt(x, n + 1) = At(l, n + 1) /\ At(l, n + 1) \in Nat
            BY <1>2, <1>4
          <6>2. QED
            BY <5>1, <6>1
        <5>3. m = n
          BY <1>2, <5>1, <5>2
        <5>4. QED
          BY <1>2, <1>3, <2>2, <4>1, <5>3
      <4>2. QED
        BY <4>1
    <3>3. QED
      BY <2>2, <3>1, <3>2
  <2>5. \A j \in 1..(k - 1) : At(l, j) = At(r, j)
    <3> TAKE j \in 1..(k - 1)
    <3>1. j \in 1..m /\ j \in 1..n /\ j < k /\ j \in Nat \ {0}
      BY <2>2, <2>4
    <3>2. QED
      BY <1>2, <1>3, <2>3, <3>1
  <2>6. x[k] = KeyAt(x, k) /\ y[k] = KeyAt(y, k)
    BY <1>2, <1>3, <2>2, <2>4 DEF KeyAt
  <2>7. CompareKeys(x, y) = CompareInts(KeyAt(x, k), KeyAt(y, k))
    BY <1>2, <1>3, <2>1, KeysCompare
  <2>8. CompareIntSlices(l, r) = CompareInts(KeyAt(x, k), KeyAt(y, k))
    <3>1. ASSUME NEW i \in Nat \ {0}, At(l, i) # At(r, i), \A j \in 1..(i - 1) : At(l, j) = At(r, j)
          PROVE  CompareIntSlices(l, r) = CompareInts(At(l, i), At(r, i))
      <4>1. i \in 1..N
        BY <1>5, <3>1 DEF At, Longer
      <4>2. \A j \in 1..N : j < i => C[j] = 0
        BY <1>4, <1>8, <3>1 DEF CompareInts
      <4>3. C[i] = CompareInts(At(l, i), At(r, i)) /\ C[i] # 0
        BY <1>4, <1>8, <3>1, <4>1 DEF CompareInts
      <4>4. QED
        BY <1>7, <4>1, <4>2, <4>3, FirstDecides
    <3>2. CASE k <= m /\ k <= n
      <4>1. KeyAt(x, k) = At(l, k) /\ KeyAt(y, k) = At(r, k)
        <5>1. k \in 1..m /\ k \in 1..n
          BY <2>2, <3>2
        <5>2. QED
          BY <1>2, <1>3, <5>1
      <4>2. QED
        BY <2>2, <2>5, <3>1, <4>1
    <3>3. CASE k = m + 1 /\ k <= n
      <4>1. KeyAt(x, k) = -1 /\ KeyAt(y, k) \in Nat
        BY <1>2, <1>3, <1>4, <3>3
      <4>2. n # 0 /\ At(r, n) # 0 /\ At(l, n) = 0
        BY <1>2, <1>3, <3>3
      <4>3. PICK i \in Nat \ {0} : /\ At(l, i) # At(r, i)
                                   /\ \A j \in 1..(i - 1) : At(l, j) = At(r, j)
        BY <4>2, FirstDifference
      <4>4. i > m
        <5>1. ~(i < k)
          BY <2>2, <2>5, <4>3
        <5>2. QED
          BY <2>2, <3>3, <5>1
      <4>5. At(l, i) = 0 /\ At(r, i) \in Nat
        BY <1>2, <1>4, <4>3, <4>4
      <4>6. CompareInts(At(l, i), At(r, i)) = -1
        BY <4>3, <4>5 DEF CompareInts
      <4>7. CompareInts(KeyAt(x, k), KeyAt(y, k)) = -1
        BY <4>1 DEF CompareInts
      <4>8. QED
        BY <3>1, <4>3, <4>6, <4>7
    <3>4. CASE k <= m /\ k = n + 1
      <4>1. KeyAt(y, k) = -1 /\ KeyAt(x, k) \in Nat
        BY <1>2, <1>3, <1>4, <3>4
      <4>2. m # 0 /\ At(l, m) # 0 /\ At(r, m) = 0
        BY <1>2, <1>3, <3>4
      <4>3. PICK i \in Nat \ {0} : /\ At(l, i) # At(r, i)
                                   /\ \A j \in 1..(i - 1) : At(l, j) = At(r, j)
        BY <4>2, FirstDifference
      <4>4. i > n
        <5>1. ~(i < k)
          BY <2>2, <2>5, <4>3
        <5>2. QED
          BY <2>2, <3>4, <5>1
      <4>5. At(r, i) = 0 /\ At(l, i) \in Nat
        BY <1>3, <1>4, <4>3, <4>4
      <4>6. CompareInts(At(l, i), At(r, i)) = 1
        BY <4>3, <4>5 DEF CompareInts
      <4>7. CompareInts(KeyAt(x, k), KeyAt(y, k)) = 1
        BY <4>1 DEF CompareInts
      <4>8. QED
        BY <3>1, <4>3, <4>6, <4>7
    <3>5. CASE k = m + 1 /\ k = n + 1
      BY <1>2, <1>3, <2>2, <3>5
    <3>6. QED
      BY <2>2, <2>4, <3>2, <3>3, <3>4, <3>5
  <2>9. QED
    BY <1>1, <1>2, <1>3, <2>2, <2>4, <2>6, <2>7, <2>8
<1>11. QED
  BY <1>9, <1>10

(* What PEP 440 versions have after their release compares by rank, but    *)
(* for two post releases of prereleases.                                   *)
Bounded(v) ==
    IsPEP440(v) /\ v.postNum < Infinity /\ v.devNum < Infinity /\ Infinity > 3 /\ Infinity \in Nat

Phase(v) == IF HasPre(v) THEN v.prePhase ELSE IF ~v.hasPost /\ v.hasDev THEN 0 ELSE Infinity
PhaseNum(v) == IF HasPre(v) THEN v.preNum ELSE 0
PostPart(v) == IF v.hasPost THEN v.postNum ELSE -1
DevPart(v) == IF v.hasDev THEN v.devNum ELSE Infinity

SuffixParts(l, r) ==
    Then(CompareInts(Phase(l), Phase(r)), Then(CompareInts(PhaseNum(l), PhaseNum(r)),
         Then(CompareInts(PostPart(l), PostPart(r)), CompareInts(DevPart(l), DevPart(r)))))

LEMMA SuffixKeys ==
    ASSUME NEW l, NEW r, Bounded(l), Bounded(r)
    PROVE  SuffixKey(l) \in Seq(Int) /\ CompareKeys(SuffixKey(l), SuffixKey(r)) = SuffixParts(l, r)
<1>1. \A v : SuffixKey(v) = <<Phase(v), PhaseNum(v), PostPart(v), DevPart(v)>>
  BY DEF SuffixKey, Phase, PhaseNum, PostPart, DevPart
<1>2. ASSUME NEW v, Bounded(v)
      PROVE  Phase(v) \in Int /\ PhaseNum(v) \in Int /\ PostPart(v) \in Int /\ DevPart(v) \in Int
  BY <1>2 DEF Bounded, IsPEP440, Phase, PhaseNum, PostPart, DevPart
<1>3. /\ Phase(l) \in Int /\ PhaseNum(l) \in Int /\ PostPart(l) \in Int /\ DevPart(l) \in Int
      /\ Phase(r) \in Int /\ PhaseNum(r) \in Int /\ PostPart(r) \in Int /\ DevPart(r) \in Int
  BY <1>2
<1>4. /\ <<Phase(l), PhaseNum(l), PostPart(l), DevPart(l)>> \in Seq(Int)
      /\ CompareKeys(<<Phase(l), PhaseNum(l), PostPart(l), DevPart(l)>>,
                     <<Phase(r), PhaseNum(r), PostPart(r), DevPart(r)>>) = SuffixParts(l, r)
  BY <1>3, FourNumbers DEF SuffixParts
<1>5. QED
  BY <1>1, <1>4, Zenon

LEMMA SuffixesByRank ==
    ASSUME NEW l, NEW r, Bounded(l), Bounded(r), ~(PostOfPre(l) /\ PostOfPre(r))
    PROVE  SuffixParts(l, r) = Then(Ranks(l, r), RankedOf(l, r))
<1>1. /\ l.prePhase \in 0..3 /\ r.prePhase \in 0..3 /\ Infinity \in Nat /\ Infinity > 3
      /\ l.hasPost \in BOOLEAN /\ r.hasPost \in BOOLEAN
      /\ l.hasDev \in BOOLEAN /\ r.hasDev \in BOOLEAN
      /\ l.preNum \in Nat /\ r.preNum \in Nat
      /\ l.postNum \in Nat /\ r.postNum \in Nat /\ l.postNum < Infinity /\ r.postNum < Infinity
      /\ l.devNum \in Nat /\ r.devNum \in Nat /\ l.devNum < Infinity /\ r.devNum < Infinity
  BY DEF Bounded, IsPEP440
<1>2. IsPEP440(l) /\ IsPEP440(r)
  BY DEF Bounded
<1> DEFINE ph == CompareInts(Phase(l), Phase(r))
           nu == CompareInts(PhaseNum(l), PhaseNum(r))
           po == CompareInts(PostPart(l), PostPart(r))
           de == CompareInts(DevPart(l), DevPart(r))
<1>0. /\ SuffixParts(l, r) = Then(ph, Then(nu, Then(po, de)))
      /\ Phase(l) = Phase(r) => ph = 0
      /\ PhaseNum(l) = PhaseNum(r) => nu = 0
      /\ PostPart(l) = PostPart(r) => po = 0
      /\ DevPart(l) = DevPart(r) => de = 0
  <2>1. \A i \in Int : CompareInts(i, i) = 0
    BY DEF CompareInts
  <2>2. Phase(r) \in Int /\ PhaseNum(r) \in Int /\ PostPart(r) \in Int /\ DevPart(r) \in Int
    BY <1>1 DEF Phase, PhaseNum, PostPart, DevPart
  <2>3. QED
    BY <2>1, <2>2 DEF SuffixParts
<1>3. CASE PEP440Rank(l) # PEP440Rank(r)
  <2>1. Ranks(l, r) # 0
    BY <1>2, <1>3, RankedFacts DEF Ranks, CompareInts
  <2>2. CompareInts(Phase(l), Phase(r)) = Ranks(l, r)
        \/ /\ Phase(l) = Phase(r) /\ PhaseNum(l) = PhaseNum(r)
           /\ CompareInts(PostPart(l), PostPart(r)) = Ranks(l, r)
    BY <1>1, <1>3 DEF Phase, PhaseNum, PostPart, Ranks, PEP440Rank, HasPre, CompareInts
  <2>3. QED
    BY <1>0, <2>1, <2>2 DEF Then
<1>4. CASE PEP440Rank(l) = PEP440Rank(r)
  <2>1. Ranks(l, r) = 0 /\ PEP440Rank(l) \in 0..5
    BY <1>2, <1>4, RankedFacts DEF Ranks, CompareInts
  <2>2. CASE PEP440Rank(l) = 0
    <3>1. /\ Phase(l) = Phase(r) /\ PhaseNum(l) = PhaseNum(r) /\ PostPart(l) = PostPart(r)
          /\ DevPart(l) = l.devNum /\ DevPart(r) = r.devNum
      BY <1>1, <1>4, <2>2 DEF Phase, PhaseNum, PostPart, DevPart, PEP440Rank, HasPre
    <3>2. RankedOf(l, r) = CompareInts(l.devNum, r.devNum)
      BY <2>2 DEF RankedOf, Dev
    <3>3. QED
      BY <1>0, <2>1, <3>1, <3>2 DEF Then
  <2>3. CASE PEP440Rank(l) \in 1..3
    <3>1. HasPre(l) /\ HasPre(r) /\ l.prePhase = r.prePhase
      BY <1>1, <1>4, <2>3 DEF PEP440Rank, HasPre
    <3>2. /\ Phase(l) = Phase(r) /\ PhaseNum(l) = l.preNum /\ PhaseNum(r) = r.preNum
          /\ ~(l.hasPost /\ r.hasPost)
      BY <3>1 DEF Phase, PhaseNum, PostOfPre
    <3>3. RankedOf(l, r) = Then(PreNum(l, r), ComparePEP440PreSuffix(l, r))
      BY <1>2, <2>3, RankedFacts
    <3>4. ComparePEP440PreSuffix(l, r)
             = Then(CompareInts(PostPart(l), PostPart(r)), CompareInts(DevPart(l), DevPart(r)))
      <4>1. ComparePEP440PreSuffix(l, r) = Then(SuffixRanks(l, r), SuffixOf(l, r))
        BY <1>2, PreSuffixAsThen
      <4>2. CASE l.hasPost \/ r.hasPost
        <5>1. SuffixRanks(l, r) # 0 /\ SuffixRanks(l, r) = CompareInts(PostPart(l), PostPart(r))
          BY <1>1, <3>2, <4>2 DEF SuffixRanks, PEP440PreSuffixRank, CompareInts, PostPart
        <5>2. QED
          BY <4>1, <5>1 DEF Then
      <4>3. CASE ~l.hasPost /\ ~r.hasPost
        <5>1. PostPart(l) = PostPart(r)
          BY <4>3 DEF PostPart
        <5>2. CASE l.hasDev # r.hasDev
          <6>1. /\ SuffixRanks(l, r) # 0
                /\ SuffixRanks(l, r) = CompareInts(DevPart(l), DevPart(r))
            BY <1>1, <4>3, <5>2 DEF SuffixRanks, PEP440PreSuffixRank, CompareInts, DevPart
          <6>2. QED
            BY <1>0, <4>1, <5>1, <6>1 DEF Then
        <5>3. CASE l.hasDev = r.hasDev
          <6>1. SuffixRanks(l, r) = 0
            BY <4>3, <5>3 DEF SuffixRanks, PEP440PreSuffixRank, CompareInts
          <6>2. SuffixOf(l, r) = CompareInts(DevPart(l), DevPart(r))
            BY <1>1, <4>3, <5>3 DEF SuffixOf, PEP440PreSuffixRank, CompareInts, DevPart, Dev
          <6>3. QED
            BY <1>0, <4>1, <5>1, <6>1, <6>2 DEF Then
        <5>4. QED
          BY <5>2, <5>3
      <4>4. QED
        BY <4>2, <4>3
    <3>5. QED
      BY <1>0, <2>1, <3>2, <3>3, <3>4 DEF Then, PreNum
  <2>4. CASE PEP440Rank(l) = 4
    <3>1. /\ Phase(l) = Phase(r) /\ PhaseNum(l) = PhaseNum(r)
          /\ PostPart(l) = PostPart(r) /\ DevPart(l) = DevPart(r)
      BY <1>1, <1>4, <2>4 DEF Phase, PhaseNum, PostPart, DevPart, PEP440Rank, HasPre
    <3>2. RankedOf(l, r) = 0
      BY <2>4 DEF RankedOf
    <3>3. QED
      BY <1>0, <2>1, <3>1, <3>2 DEF Then
  <2>5. CASE PEP440Rank(l) = 5
    <3>1. /\ Phase(l) = Phase(r) /\ PhaseNum(l) = PhaseNum(r)
          /\ PostPart(l) = l.postNum /\ PostPart(r) = r.postNum
      BY <1>1, <1>4, <2>5 DEF Phase, PhaseNum, PostPart, PEP440Rank, HasPre
    <3>2. RankedOf(l, r) = Then(PostNum(l, r), ComparePEP440PostSuffix(l, r))
      BY <1>2, <2>5, RankedFacts
    <3>3. ComparePEP440PostSuffix(l, r) = CompareInts(DevPart(l), DevPart(r))
      BY <1>1 DEF ComparePEP440PostSuffix, DevPart, CompareInts
    <3>4. QED
      BY <1>0, <2>1, <3>1, <3>2, <3>3 DEF Then, PostNum
  <2>6. QED
    BY <2>1, <2>2, <2>3, <2>4, <2>5
<1>5. QED
  BY <1>3, <1>4

LEMMA PEP440ByKeys ==
    ASSUME NEW a \in PEP440Versions, NEW b \in PEP440Versions, ~(PostOfPre(a) /\ PostOfPre(b))
    PROVE  ComparePEP440Versions(a, b) = CompareKeys(PEP440Key(a), PEP440Key(b))
<1>1. Bounded(a) /\ Bounded(b)
  BY PEP440Assumption, InfinityAssumption DEF Bounded, IsPEP440
<1>2. /\ a.epoch \in Int /\ b.epoch \in Int /\ a.release \in Seq(Nat) /\ b.release \in Seq(Nat)
      /\ IsPEP440(a) /\ IsPEP440(b)
  BY <1>1 DEF Bounded, IsPEP440
<1> DEFINE ep == CompareInts(a.epoch, b.epoch)
           re == CompareIntSlices(a.release, b.release)
           su == Then(Ranks(a, b), RankedOf(a, b))
<1>3. PICK x1, y1 : x1 = <<a.epoch>> /\ y1 = <<b.epoch>>
  OBVIOUS
<1>4. PICK x2, y2 : x2 = ReleaseKey(a.release) /\ y2 = ReleaseKey(b.release)
  OBVIOUS
<1>5. PICK x3, y3 : x3 = SuffixKey(a) /\ y3 = SuffixKey(b)
  OBVIOUS
<1>6. x1 \in Seq(Int) /\ y1 \in Seq(Int) /\ Len(x1) = Len(y1) /\ CompareKeys(x1, y1) = ep
  BY <1>2, <1>3, OneNumber
<1>7. /\ x2 \in Seq(Int) /\ y2 \in Seq(Int) /\ CompareKeys(x2, y2) = re
      /\ \/ Len(x2) = Len(y2)
         \/ \E k \in Nat \ {0} : k <= Len(x2) /\ k <= Len(y2) /\ x2[k] # y2[k]
  BY <1>2, <1>4, ReleaseKeys
<1>8. x3 \in Seq(Int) /\ y3 \in Seq(Int) /\ CompareKeys(x3, y3) = su
  BY <1>1, <1>5, SuffixKeys, SuffixesByRank
<1>9. ep \in Signs /\ re \in Signs /\ Ranks(a, b) \in Signs /\ RankedOf(a, b) \in Signs
  <2>1. re \in Signs
    BY <1>2, SlicesCohere DEF Coherent
  <2>2. RankedOf(a, b) \in Signs
    BY <1>2, RankedFacts
  <2>3. QED
    BY <2>1, <2>2 DEF CompareInts, Signs, Ranks
<1>10. ComparePEP440Versions(a, b) = Lexicographic(<<ep, re, Ranks(a, b), RankedOf(a, b)>>)
  BY DEF ComparePEP440Versions, Ranks, RankedOf, Dev, PreNum, PostNum
<1> HIDE DEF ep, re
<1>11. ComparePEP440Versions(a, b) = Then(ep, Then(re, su))
  BY <1>9, <1>10, FourDecide
<1> HIDE DEF su
<1>12. x2 \o x3 \in Seq(Int) /\ y2 \o y3 \in Seq(Int) /\ CompareKeys(x2 \o x3, y2 \o y3) = Then(re, su)
  BY <1>7, <1>8, PartByPart, KeyOfJoined
<1>13. PICK x4 \in Seq(Int), y4 \in Seq(Int) : x4 = x2 \o x3 /\ y4 = y2 \o y3
  BY <1>12, Zenon
<1>14. CompareKeys(x1 \o x4, y1 \o y4) = Then(ep, Then(re, su))
  <2>1. CompareKeys(x4, y4) = Then(re, su)
    BY <1>12, <1>13, Zenon
  <2>2. CompareKeys(x1 \o x4, y1 \o y4) = Then(CompareKeys(x1, y1), CompareKeys(x4, y4))
    BY <1>6, PartByPart
  <2>3. QED
    BY <1>6, <2>1, <2>2, Zenon
<1>15. PEP440Key(a) = x1 \o x4 /\ PEP440Key(b) = y1 \o y4
  BY <1>3, <1>4, <1>5, <1>13 DEF PEP440Key
<1>16. QED
  BY <1>11, <1>14, <1>15

-----------------------------------------------------------------------------
(* On versions of every length and all numbers the comparisons order as    *)
(* their standards say: Semantic Versioning (socket.go:1344-1387), and     *)
(* PEP 440 (socket.go:1463-1570) but for post releases of prereleases.     *)
THEOREM ComparisonsAreStandard == Chain => []OrdersLikeStandard
<1>1. FirstPair => ChainInv
  BY DEF FirstPair, ChainInv
<1>2. ChainInv /\ [NextPair]_pair => ChainInv'
  BY DEF ChainInv, NextPair, pair, Pool
<1>3. ChainInv => OrdersLikeStandard
  <2>1. CASE semver
    BY <2>1, SemverByKeys DEF ChainInv, Pool, OrdersLikeStandard
  <2>2. CASE ~semver
    BY <2>2, PEP440ByKeys DEF ChainInv, Pool, OrdersLikeStandard
  <2>3. QED
    BY <2>1, <2>2
<1>4. QED
  BY <1>1, <1>2, <1>3, PTL DEF Chain
=============================================================================
