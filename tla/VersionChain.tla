---------------------------- MODULE VersionChain ----------------------------
(***************************************************************************)
(* The comparisons of VersionOrder as sort.Slice meets them: pair after    *)
(* pair, each sharing a version with the one before, checked against the   *)
(* two standards, which define the order by keys.                          *)
(***************************************************************************)
EXTENDS VersionOrder

CONSTANTS SemverVersions, PEP440Versions, Infinity

(* What parsing makes of a string, with numbers that are below Infinity.   *)
ASSUME InfinityAssumption == Infinity \in Nat
ASSUME SemverAssumption ==
    \A v \in SemverVersions :
       /\ v.major \in Nat /\ v.minor \in Nat /\ v.patch \in Nat
       /\ v.pre \in Seq([numeric : BOOLEAN, value : Nat])
       /\ \A k \in DOMAIN v.pre : v.pre[k].value < Infinity
ASSUME PEP440Assumption ==
    \A v \in PEP440Versions :
       /\ v.epoch \in Nat /\ v.release \in Seq(Nat)
       /\ v.prePhase \in 0..3 /\ v.hasPost \in BOOLEAN /\ v.hasDev \in BOOLEAN
       /\ {v.preNum, v.postNum, v.devNum} \subseteq Nat
       /\ v.postNum < Infinity /\ v.devNum < Infinity /\ Infinity > 3

VARIABLES semver,     \* which of the two comparisons is being used
          one, other

pair == <<semver, one, other>>

Pool == IF semver THEN SemverVersions ELSE PEP440Versions

FirstPair ==
    /\ semver \in BOOLEAN
    /\ one \in Pool /\ other \in Pool

Compare(a, b) == IF semver THEN CompareSemverVersions(a, b) ELSE ComparePEP440Versions(a, b)

NextPair ==
    /\ one' = other
    /\ other' \in Pool
    /\ UNCHANGED semver

Chain == FirstPair /\ [][NextPair]_pair

-----------------------------------------------------------------------------
(* The standards.  Keys are compared number by number, and a key that runs *)
(* out first is the smaller one.                                           *)
KeyAt(key, k) == IF k \in DOMAIN key THEN key[k] ELSE -2

CompareKeys(a, b) ==
    LET differ == {k \in 1..Longer(a, b) : KeyAt(a, k) # KeyAt(b, k)} IN
    IF differ = {} THEN 0
    ELSE LET first == CHOOSE k \in differ : \A j \in differ : k <= j
         IN IF KeyAt(a, first) < KeyAt(b, first) THEN -1 ELSE 1

(* Semantic Versioning 2.0.0, item 11: numeric identifiers are lower than  *)
(* others, and a version without prerelease is higher than any with one.   *)
PrereleaseKey(pre) ==
    IF pre = <<>> THEN <<2 * Infinity>>
    ELSE [k \in DOMAIN pre |-> IF pre[k].numeric THEN pre[k].value ELSE Infinity + pre[k].value]

SemverKey(v) == <<v.major, v.minor, v.patch>> \o PrereleaseKey(v.pre)

(* PEP 440: epoch, the release without trailing zeros, prerelease, post    *)
(* release, development release, where one that is missing is the highest, *)
(* except for the post release and for the prerelease of a development     *)
(* release.                                                                *)
WithoutZeros(release) ==
    LET significant == {k \in DOMAIN release : \E j \in DOMAIN release : j >= k /\ release[j] # 0}
    IN [k \in significant |-> release[k]]

ReleaseKey(release) == WithoutZeros(release) \o <<-1>>

SuffixKey(v) ==
    <<IF HasPre(v) THEN v.prePhase ELSE IF ~v.hasPost /\ v.hasDev THEN 0 ELSE Infinity,
      IF HasPre(v) THEN v.preNum ELSE 0,
      IF v.hasPost THEN v.postNum ELSE -1,
      IF v.hasDev THEN v.devNum ELSE Infinity>>

PEP440Key(v) == <<v.epoch>> \o (ReleaseKey(v.release) \o SuffixKey(v))

PostOfPre(v) == HasPre(v) /\ v.hasPost

(* The chains of comparisons order versions as the standards say: Semantic *)
(* Versioning, prereleases and their identifiers included                  *)
(* (socket.go:1344-1387), and PEP 440 (socket.go:1463-1570), but for two   *)
(* post releases of prereleases: there a development part counts before    *)
(* the number of the post release.                                         *)
OrdersLikeStandard ==
    IF semver THEN CompareSemverVersions(one, other) = CompareKeys(SemverKey(one), SemverKey(other))
    ELSE \/ PostOfPre(one) /\ PostOfPre(other)
         \/ ComparePEP440Versions(one, other) = CompareKeys(PEP440Key(one), PEP440Key(other))

(* Both comparisons are weak orders on all versions, which sort.Slice      *)
(* relies on: a sorted list stays sorted when a middle one is left out.     *)
ChainIsOrdered ==
    [][Compare(one, other) >= 0 /\ Compare(one', other') >= 0 => Compare(one, other') >= 0]_pair
=============================================================================
