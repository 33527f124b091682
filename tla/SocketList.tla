----------------------------- MODULE SocketList -----------------------------
(***************************************************************************)
(* ListVersions of the Socket provider: from the registry of a package to  *)
(* the candidates that Select goes through.  The list of versions is one   *)
(* request, ordered and cut to MaxCandidates; for Go the times are fetched *)
(* by one goroutine per candidate, at most Fetchers at a time; the scores  *)
(* are one request per version for npm and one batch for everything else,  *)
(* whose answer holds any number of artifacts per version, in any order.   *)
(* Every request may fail on its own.                                      *)
(*                                                                         *)
(* An artifact is what Socket reports: [sc, ov, alerts], a line of the     *)
(* batch [version, artifact].  A listed candidate is [version, published,  *)
(* deprecated, score] with score the artifact its lines amount to.         *)
(***************************************************************************)
EXTENDS VersionOrder, Policy

CONSTANTS Ecosystems,     \* those considered
          Releases,       \* by ecosystem: the releases a registry may hold
          MaxReleases,    \* bound: the number of releases it holds
          MaxCandidates,  \* maxCandidates
          Fetchers,       \* goInfoFetchConcurrency
          Artifacts,      \* what Socket may report
          MaxLines,       \* bound: the artifacts in the answer to a batch
          Config,         \* a policy
          Now             \* the time of the evaluation, in hours

ASSUME BoundsAssumption == MaxCandidates \in Nat /\ Fetchers \in Nat \ {0}
ASSUME EcosystemsAssumption == Ecosystems \subseteq {"npm", "pypi", "go", "cargo"}
ASSUME ReleasesAssumption ==
    \A e \in Ecosystems :
       /\ IsFiniteSet(Releases[e])
       /\ \A a, b \in Releases[e] : a.version = b.version => a = b
ASSUME ArtifactsAssumption ==
    \A a \in Artifacts : a \in [sc : Int, ov : Int, alerts : SUBSET AlertKinds]
ASSUME ConfigAssumption ==
    /\ Config.minSupplyChain \in Int /\ Config.minOverall \in Int
    /\ Config.grayMin \in Nat \ {0}

VARIABLES eco, registry,
          pc,
          candidates, \* the releases in order, cut
          ordered,  \* what is to be scored; for Go the slots of the goroutines
          info,     \* Go: the state of each goroutine
          lines,    \* the answer to the batch
          unread,   \* its lines not yet parsed
          scored,   \* aggregated: by version, or Unscored
          list      \* the versions returned

world == <<eco, registry>>
vars == <<world, pc, candidates, ordered, info, lines, unread, scored, list>>

Unscored == [sc |-> 0, ov |-> 0, alerts |-> {}]
NoTime == 0

Init ==
    /\ eco \in Ecosystems
    /\ registry \in {R \in SUBSET Releases[eco] : Cardinality(R) <= MaxReleases}
    /\ pc = "start"
    /\ candidates = <<>> /\ ordered = <<>> /\ info = <<>>
    /\ lines = {} /\ unread = {}
    /\ scored = [v \in {} |-> Unscored]
    /\ list = <<>>

-----------------------------------------------------------------------------
(* The candidates *)

Capped(s) == SubSeq(s, 1, IF Len(s) < MaxCandidates THEN Len(s) ELSE MaxCandidates)

Dated(v, time) == [version |-> v, published |-> time, deprecated |-> FALSE]
EmptySlot == Dated([ok |-> FALSE], NoTime)

Orderings ==
    CASE eco = "npm" -> OrderNPMVersions(registry)
      [] eco = "pypi" -> OrderPyPIVersions(registry)
      [] eco = "go" -> OrderGoVersions({Dated(e.version, NoTime) : e \in registry})
      [] eco = "cargo" -> OrderCargoVersions(registry)

(* The request fails; for Go a module that the public proxy does not have  *)
(* or that is private counts as an unsupported source.                     *)
RegistryFails ==
    /\ pc = "start"
    /\ pc' \in (IF eco = "go" THEN {"error", "unsupported"} ELSE {"error"})
    /\ UNCHANGED <<world, candidates, ordered, info, lines, unread, scored, list>>

CapBeforeOrder ==
    /\ pc = "start"
    /\ \E s \in SetToSeqs(registry) :
          /\ candidates' = Capped(s)
          /\ IF eco = "go"
             THEN /\ ordered' = [k \in DOMAIN Capped(s) |-> EmptySlot]
                  /\ info' = [k \in DOMAIN Capped(s) |-> "waiting"]
             ELSE ordered' = Capped(s) /\ UNCHANGED info
    /\ pc' = IF eco = "go" THEN "info" ELSE "score"
    /\ UNCHANGED <<world, lines, unread, scored, list>>

OrderVersions ==
    /\ pc = "start"
    /\ \E s \in Orderings :
          /\ candidates' = Capped(s)
          /\ IF eco = "go"
             THEN /\ ordered' = [k \in DOMAIN Capped(s) |-> EmptySlot]
                  /\ info' = [k \in DOMAIN Capped(s) |-> "waiting"]
             ELSE ordered' = Capped(s) /\ UNCHANGED info
    /\ pc' = IF eco = "go" THEN "info" ELSE "score"
    /\ UNCHANGED <<world, lines, unread, scored, list>>

-----------------------------------------------------------------------------
(* The goroutines that fetch @v/<version>.info.  Each writes its own slot. *)

FailedHoldOn == {k \in DOMAIN info : info[k] \in {"fetching", "failed"}}

Fetching == {k \in DOMAIN info : info[k] = "fetching"}

AcquireSlot(k) ==
    /\ pc = "info"
    /\ info[k] = "waiting"
    /\ Cardinality(Fetching) < Fetchers
    /\ info' = [info EXCEPT ![k] = "fetching"]
    /\ UNCHANGED <<world, pc, candidates, ordered, lines, unread, scored, list>>

(* What the proxy has for a version.  The code takes the version from the  *)
(* answer too; the proxy is assumed to answer for the one asked for.       *)
ProxyInfo(v) == Dated(v, (CHOOSE e \in registry : e.version = v).published)

InfoIntoNextSlot(k) ==
    LET next == 1 + Cardinality({j \in DOMAIN info : info[j] = "found"}) IN
    /\ pc = "info"
    /\ info[k] = "fetching"
    /\ info' = [info EXCEPT ![k] = "found"]
    /\ ordered' = [ordered EXCEPT ![next] = ProxyInfo(candidates[k].version)]
    /\ UNCHANGED <<world, pc, candidates, lines, unread, scored, list>>

InfoArrives(k) ==
    /\ pc = "info"
    /\ info[k] = "fetching"
    /\ info' = [info EXCEPT ![k] = "found"]
    /\ ordered' = [ordered EXCEPT ![k] = ProxyInfo(candidates[k].version)]
    /\ UNCHANGED <<world, pc, candidates, lines, unread, scored, list>>

InfoFails(k) ==
    /\ pc = "info"
    /\ info[k] = "fetching"
    /\ info' = [info EXCEPT ![k] = "failed"]
    /\ UNCHANGED <<world, pc, candidates, ordered, lines, unread, scored, list>>

Filled == {k \in DOMAIN info : info[k] = "found"}

NthFilled(n) == CHOOSE k \in Filled : Cardinality({j \in Filled : j <= k}) = n

(* wg.Wait, then the slots that were filled, in order. *)
JoinInfos ==
    /\ pc = "info"
    /\ \A k \in DOMAIN info : info[k] \in {"found", "failed"}
    /\ ordered' = [n \in 1..Cardinality(Filled) |-> ordered[NthFilled(n)]]
    /\ pc' = "score"
    /\ UNCHANGED <<world, candidates, info, lines, unread, scored, list>>

-----------------------------------------------------------------------------
(* The scores *)

Listed(e, artifact) ==
    [version |-> e.version, published |-> e.published, deprecated |-> e.deprecated,
     score |-> artifact]

NoCandidates ==
    /\ pc = "score"
    /\ ordered = <<>>
    /\ pc' = "done"
    /\ UNCHANGED <<world, candidates, ordered, info, lines, unread, scored, list>>

(* npm: version by version, only the scores are read; a failed request     *)
(* leaves zeros.                                                           *)
ScoreNextNPM ==
    LET e == ordered[Len(list) + 1] IN
    /\ pc = "score" /\ eco = "npm"
    /\ Len(list) < Len(ordered)
    /\ \/ \E a \in Artifacts :
             /\ list' = Append(list, Listed(e, [a EXCEPT !.alerts = {}]))
             /\ lines' = lines \cup {[version |-> e.version, artifact |-> a]}
       \/ list' = Append(list, Listed(e, Unscored)) /\ UNCHANGED lines
    /\ pc' = IF Len(list') = Len(ordered) THEN "done" ELSE pc
    /\ UNCHANGED <<world, candidates, ordered, info, unread, scored>>

Batched == pc = "score" /\ eco # "npm" /\ ordered # <<>>

(* Lines for other versions, summaries and errors per version are skipped, *)
(* so only the artifacts of candidates count; any of them may be missing.  *)
BatchArrives ==
    /\ Batched
    /\ \E n \in 0..MaxLines :
          lines' \in kSubset(n, [version : {ordered[k].version : k \in DOMAIN ordered},
                                 artifact : Artifacts])
    /\ unread' = lines'
    /\ pc' = "parse"
    /\ UNCHANGED <<world, candidates, ordered, info, scored, list>>

Min2(a, b) == IF b < a THEN b ELSE a

LastArtifact(v, a) == a

(* Several artifacts of one version count as the worst of them. *)
Aggregate(v, a) ==
    IF v \in DOMAIN scored
    THEN [sc |-> Min2(scored[v].sc, a.sc), ov |-> Min2(scored[v].ov, a.ov),
          alerts |-> scored[v].alerts \cup a.alerts]
    ELSE a

ParseLine ==
    /\ pc = "parse"
    /\ \E line \in unread :
          /\ unread' = unread \ {line}
          /\ scored' = [v \in DOMAIN scored \cup {line.version} |->
                           IF v = line.version THEN Aggregate(v, line.artifact) ELSE scored[v]]
    /\ UNCHANGED <<world, pc, candidates, ordered, info, lines, list>>

(* A batch that fails, or one with a line that does not parse, scores      *)
(* nothing at all.                                                         *)
BatchFails ==
    /\ Batched \/ pc = "parse"
    /\ scored' = [v \in {} |-> Unscored]
    /\ unread' = {}
    /\ pc' = "merge"
    /\ UNCHANGED <<world, candidates, ordered, info, lines, list>>

BatchParsed ==
    /\ pc = "parse"
    /\ unread = {}
    /\ pc' = "merge"
    /\ UNCHANGED <<world, candidates, ordered, info, lines, unread, scored, list>>

MergeScores ==
    /\ pc = "merge"
    /\ list' = [k \in DOMAIN ordered |->
                   LET v == ordered[k].version IN
                   Listed(ordered[k], IF v \in DOMAIN scored THEN scored[v] ELSE Unscored)]
    /\ pc' = "done"
    /\ UNCHANGED <<world, candidates, ordered, info, lines, unread, scored>>

-----------------------------------------------------------------------------
Fetch(k) == InfoArrives(k) \/ InfoFails(k)

Step ==
    \/ RegistryFails \/ OrderVersions \/ JoinInfos
    \/ NoCandidates \/ ScoreNextNPM
    \/ BatchArrives \/ ParseLine \/ BatchFails \/ BatchParsed \/ MergeScores

Next == Step \/ \E k \in DOMAIN info : AcquireSlot(k) \/ Fetch(k)

(* Every request has a timeout of ten seconds, so each step and each       *)
(* goroutine that runs goes on; which one gets a free slot is not promised.*)
Spec ==
    /\ Init /\ [][Next]_vars
    /\ WF_vars(Step)
    /\ WF_vars(\E k \in DOMAIN info : AcquireSlot(k))
    /\ \A k \in 1..MaxCandidates : WF_vars(k \in DOMAIN info /\ Fetch(k))

-----------------------------------------------------------------------------
(* Properties *)

Done == pc = "done"

Newer(a, b) ==
    CASE eco = "npm" -> a.published > b.published
      [] eco = "pypi" -> ByPEP440(a, b)
      [] OTHER -> BySemver(a, b)

Release(v) == CHOOSE e \in registry : e.version = v
ListedVersions == {list[k].version : k \in DOMAIN list}

(* What is considered at all: where there are releases that are stable,    *)
(* only those, and so on (the cases of socket.go:1142-1265).               *)
Offered == UNION {{s[k].version : k \in DOMAIN s} : s \in Orderings}
Comparable == \A v \in Offered : v.ok /\ ~v.pseudo

(* If all that is offered parses and none of it is a pseudo-version        *)
(* (Comparable), the list comes newest first and names no version twice,   *)
(* whatever order the goroutines of a Go module finish in and whichever of *)
(* them fail (socket.go:405-457).                                          *)
ListIsOrdered ==
    Done /\ Comparable =>
        \A j, k \in DOMAIN list : j < k =>
            /\ list[j].version # list[k].version
            /\ ~Newer(list[k], list[j])

InfoFailed(v) == \E k \in DOMAIN info : candidates[k].version = v /\ info[k] = "failed"

(* If all that is offered is comparable, a version that is missing         *)
(* although one older than it is listed is a Go version whose own request  *)
(* failed (socket.go:429-457): neither another's failure nor the cut to    *)
(* MaxCandidates leaves such a gap.                                        *)
GapsAreFailures ==
    Done /\ Comparable =>
        \A v \in Offered \ ListedVersions : \A u \in ListedVersions :
            Newer(Release(v), Release(u)) => eco = "go" /\ InfoFailed(v)

Reported(line) ==
    [sc |-> line.artifact.sc, ov |-> line.artifact.ov, verdict |-> "none",
     alerts |-> line.artifact.alerts, age |-> NoDate]
EvidenceOf(e) ==
    [sc |-> e.score.sc, ov |-> e.score.ov, verdict |-> "none", alerts |-> e.score.alerts,
     age |-> IF e.published = NoTime THEN NoDate ELSE Now - e.published]
Judgement(ev) == EvaluateEvidence(Config, "claude", ev)

NoMilder ==
    Done =>
        \A k \in DOMAIN list :
           /\ \A line \in lines :
                 line.version = list[k].version =>
                    Rank(Judgement(Reported(line))) <= Rank(Judgement(EvidenceOf(list[k])))
           /\ (\A line \in lines : line.version # list[k].version) =>
                 Judgement(EvidenceOf(list[k])) = "deny"

(* Outside npm the policy judges a candidate no more mildly than any       *)
(* artifact that was reported for it, in whatever order and even if later  *)
(* lines could not be read, and denies one that nothing was reported for   *)
(* (socket.go:893-949).  The list of an npm package carries no alerts, so  *)
(* that a candidate with a malware alert may be judged by its scores alone.*)
ListIsNoMilder == eco # "npm" => NoMilder

(* A list is returned or the failure is, whichever requests fail.          *)
ListReturned == pc = "start" ~> pc \in {"done", "error", "unsupported"}

=============================================================================
