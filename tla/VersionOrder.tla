---------------------------- MODULE VersionOrder ----------------------------
(***************************************************************************)
(* How the Socket provider orders the versions of a package: the           *)
(* comparisons of semantic versions (Go, Cargo) and of PEP 440 versions    *)
(* (PyPI), and which of them are considered at all.                        *)
(*                                                                         *)
(* A version is what parsing makes of it.  ok says whether it parses and   *)
(* text stands for the string itself under the order of strings,           *)
(* and pseudo whether it is a pseudo-version of Go.                        *)
(*    semantic   major, minor, patch; pre, a sequence of identifiers       *)
(*               [numeric, value]                                          *)
(*    PEP 440    epoch; release, a sequence; prePhase (0 for none, 1 to 3) *)
(*               and preNum; hasPost, postNum; hasDev, devNum              *)
(* A release is [version, published, deprecated], with published 0 for the *)
(* zero time.                                                              *)
(***************************************************************************)
EXTENDS Integers, Sequences, SequencesExt

CompareInts(left, right) == IF left > right THEN 1 ELSE IF left < right THEN -1 ELSE 0

(* The first of several comparisons that is not a tie. *)
Lexicographic(cmps) ==
    LET decisive == {k \in DOMAIN cmps : cmps[k] # 0} IN
    IF decisive = {} THEN 0 ELSE cmps[CHOOSE k \in decisive : \A j \in decisive : k <= j]

Shorter(left, right) == IF Len(left) < Len(right) THEN Len(left) ELSE Len(right)
Longer(left, right) == IF Len(left) < Len(right) THEN Len(right) ELSE Len(left)

-----------------------------------------------------------------------------
(* Semantic versions *)

CompareSemverIdentifier(left, right) ==
    IF left.numeric = right.numeric THEN CompareInts(left.value, right.value)
    ELSE IF left.numeric THEN -1 ELSE 1

ComparePrereleases(left, right) ==
    IF left = <<>> \/ right = <<>>
    THEN CompareInts(Len(right), Len(left))
    ELSE Lexicographic([k \in 1..Shorter(left, right) |->
                           CompareSemverIdentifier(left[k], right[k])]
                       \o <<CompareInts(Len(left), Len(right))>>)

CompareSemverVersions(left, right) ==
    Lexicographic(<<CompareInts(left.major, right.major),
                    CompareInts(left.minor, right.minor),
                    CompareInts(left.patch, right.patch),
                    ComparePrereleases(left.pre, right.pre)>>)

-----------------------------------------------------------------------------
(* PEP 440 versions *)

At(s, k) == IF k \in DOMAIN s THEN s[k] ELSE 0

UpToShorter(left, right) ==
    Lexicographic([k \in 1..Shorter(left, right) |-> CompareInts(left[k], right[k])])

(* Releases of different length compare as if padded with zeros.           *)
CompareIntSlices(left, right) ==
    Lexicographic([k \in 1..Longer(left, right) |-> CompareInts(At(left, k), At(right, k))])

HasPre(v) == v.prePhase # 0

(* A development release of nothing else comes first, then the phases of   *)
(* prereleases, the final release, and post releases.                      *)
PEP440Rank(v) ==
    IF ~HasPre(v) /\ ~v.hasPost /\ v.hasDev THEN 0
    ELSE IF HasPre(v) THEN v.prePhase
    ELSE IF v.hasPost THEN 5 ELSE 4

DevAfterFinal(v) == IF v.hasPost THEN (IF v.hasDev THEN 2 ELSE 3) ELSE (IF v.hasDev THEN 1 ELSE 0)

PEP440PreSuffixRank(v) ==
    IF v.hasPost THEN (IF v.hasDev THEN 2 ELSE 3) ELSE (IF v.hasDev THEN 0 ELSE 1)

ComparePEP440PreSuffix(left, right) ==
    LET rank == PEP440PreSuffixRank(left)
        dev == CompareInts(left.devNum, right.devNum)
        post == CompareInts(left.postNum, right.postNum)
    IN Lexicographic(
          <<CompareInts(rank, PEP440PreSuffixRank(right)),
            CASE rank = 0 -> dev
              [] rank = 1 -> 0
              [] rank = 2 -> Lexicographic(<<post, dev>>)
              [] rank = 3 -> post>>)

ComparePEP440PostSuffix(left, right) ==
    IF left.hasDev # right.hasDev THEN (IF left.hasDev THEN -1 ELSE 1)
    ELSE IF left.hasDev THEN CompareInts(left.devNum, right.devNum)
    ELSE 0

ComparePEP440Versions(left, right) ==
    LET rank == PEP440Rank(left) IN
    Lexicographic(
       <<CompareInts(left.epoch, right.epoch),
         CompareIntSlices(left.release, right.release),
         CompareInts(rank, PEP440Rank(right)),
         CASE rank = 0 -> CompareInts(left.devNum, right.devNum)
           [] rank \in 1..3 -> Lexicographic(<<CompareInts(left.preNum, right.preNum),
                                               ComparePEP440PreSuffix(left, right)>>)
           [] rank = 4 -> 0
           [] rank = 5 -> Lexicographic(<<CompareInts(left.postNum, right.postNum),
                                          ComparePEP440PostSuffix(left, right)>>)>>)

IsPEP440Prerelease(v) == HasPre(v) \/ v.hasDev

-----------------------------------------------------------------------------
(* The lists.  Where releases tie, any order may come out: sort.Slice is   *)
(* not stable, and most inputs come from ranging over a map.               *)

Sorted(releases, Before(_, _)) ==
    {s \in SetToSeqs(releases) : \A j, k \in DOMAIN s : j < k => ~Before(s[k], s[j])}

ByPublishedAt(left, right) ==
    \/ left.published > right.published
    \/ left.published = right.published /\ left.version.text > right.version.text

BySemver(left, right) == CompareSemverVersions(left.version, right.version) > 0
ByPEP440(left, right) == ComparePEP440Versions(left.version, right.version) > 0

Parsed(releases) == {e \in releases : e.version.ok}

OrderPyPIVersions(releases) ==
    LET stable == {e \in Parsed(releases) : ~IsPEP440Prerelease(e.version)} IN
    IF stable # {} THEN Sorted(stable, ByPEP440)
    ELSE IF Parsed(releases) # {} THEN Sorted(Parsed(releases), ByPEP440)
    ELSE Sorted(releases, ByPublishedAt)

OrderCargoVersions(releases) ==
    LET stable == {e \in Parsed(releases) : e.version.pre = <<>>} IN
    IF stable # {} THEN Sorted(stable, BySemver)
    ELSE IF Parsed(releases) # {} THEN Sorted(Parsed(releases), BySemver)
    ELSE Sorted(releases, ByPublishedAt)

OrderGoVersions(releases) ==
    LET tagged == {e \in Parsed(releases) : ~e.version.pseudo}
        stable == {e \in tagged : e.version.pre = <<>>}
    IN IF stable # {} THEN Sorted(stable, BySemver)
       ELSE IF tagged # {} THEN Sorted(tagged, BySemver)
       ELSE IF Parsed(releases) # {} THEN Sorted(Parsed(releases), ByPublishedAt)
       ELSE Sorted(releases, ByPublishedAt)

(* npmRegistryResponse.orderedVersions: by the time of publication alone.  *)
OrderNPMVersions(releases) ==
    Sorted(releases, LAMBDA left, right : left.published > right.published)
=============================================================================
