-------------------------- MODULE EvaluatorProofs ---------------------------
(***************************************************************************)
(* Proofs about Evaluator for every command line, configuration, mode and  *)
(* provider answer, and about the parser whose commands it takes, for      *)
(* every sequence of tokens.                                               *)
(***************************************************************************)
EXTENDS Evaluator, SelectionProofs, CommandLine

(* The inductive invariant: the types and what the loop has established.   *)
IInv == TypeOK /\ SoFar

(* A step leaves the call alone, and with it all that is computed from it. *)
LEMMA CallFixed ==
    ASSUME UNCHANGED call
    PROVE  /\ Cmds' = Cmds /\ Enabled' = Enabled
           /\ Guarded' = Guarded /\ ShouldDeferUV' = ShouldDeferUV
           /\ CanRewriteShape' = CanRewriteShape /\ RewritesUnasked' = RewritesUnasked
           /\ \A e : Part(e)' = Part(e)
BY DEF call, Cmds, Enabled, Guarded, ShouldDeferUV, ShouldDeferYarn, YarnEnabled, YarnCmds,
       PackageManagerEnabled, CanRewriteShape, RewritesUnasked, Part, Unreachable, RequestFor

(* The commands of a line and their packages are sequences.                *)
LEMMA LineType ==
    ASSUME TypeOK
    PROVE  /\ Len(Cmds) \in Nat /\ DOMAIN Cmds = 1..Len(Cmds)
           /\ Enabled \subseteq DOMAIN Cmds
           /\ \A k \in DOMAIN Cmds :
                 /\ Len(Cmds[k].packages) \in Nat
                 /\ DOMAIN Cmds[k].packages = 1..Len(Cmds[k].packages)
                 /\ \A j \in DOMAIN Cmds[k].packages :
                       /\ Cmds[k].packages[j].name \in Names
                       /\ Cmds[k].packages[j].pinned \in BOOLEAN
                 /\ Cmds[k].nonLocal => Cmds[k].unparsed
BY LinesAssumption DEF TypeOK, Cmds, Enabled, AreCommands, IsCommand

(* Where the loop body runs, the cursor is on a package of a guarded       *)
(* command.                                                                *)
LEMMA PkgType ==
    ASSUME TypeOK, AtPackage
    PROVE  /\ c \in DOMAIN Cmds /\ c \in Enabled /\ c \in Nat /\ p \in Nat
           /\ p \in DOMAIN Cmds[c].packages
           /\ Pkg.name \in Names /\ Pkg.pinned \in BOOLEAN
           /\ p + 1 \in 1..(Len(Cmds[c].packages) + 1)
<1>1. c \in DOMAIN Cmds /\ c \in Enabled /\ p <= Len(Cmds[c].packages)
  BY LineType DEF AtPackage
<1>2. p \in 1..(Len(Cmds[c].packages) + 1) /\ p \in Nat /\ c \in Nat
  BY <1>1, LineType DEF TypeOK
<1>3. p \in DOMAIN Cmds[c].packages /\ p + 1 \in 1..(Len(Cmds[c].packages) + 1)
  BY <1>1, <1>2, LineType
<1>4. QED
  BY <1>1, <1>2, <1>3, LineType DEF Pkg

(* A package contributes one of the three decisions.                       *)
Kinds == {"unavailable", "unsupported", "failed", "selected"}

(* Each evaluation contributes one of the three decisions.                 *)
LEMMA PartType ==
    ASSUME NEW e, e.kind \in Kinds
    PROVE  Part(e) \in Decisions
<1>1. \A n : Unreachable(n) \in Decisions
  BY DecisionType DEF Unreachable
<1>2. QED
  BY <1>1, DecideType DEF Part, Kinds, Decisions

(* WorseDecision returns one of its arguments, the one of the higher rank. *)
LEMMA RankFacts ==
    /\ \A a, b \in Decisions : /\ WorseDecision(a, b) \in {a, b}
                               /\ Rank(a) <= Rank(WorseDecision(a, b))
                               /\ Rank(b) <= Rank(WorseDecision(a, b))
                               /\ Rank(a) <= Rank(b) /\ a # "allow" => b # "allow"
    /\ \A a : Rank(a) \in 0..2 /\ Rank(a) <= Rank("deny")
    /\ \A a \in Decisions : Rank(a) = 0 <=> a = "allow"
BY DEF WorseDecision, Rank, Decisions

-----------------------------------------------------------------------------
(* The end of an iteration keeps the types.                                *)
LEMMA RecordType ==
    ASSUME TypeOK, AtPackage,
           NEW kind \in Kinds, NEW picked \in VersionOrNone, NEW newest \in VersionOrNone,
           NEW older \in BOOLEAN, NEW d \in Decisions,
           Record(Evaluation(kind, picked, newest, older), d),
           selectedVersions' \in [Names -> VersionOrNone], anyRewritten' \in BOOLEAN,
           unsupportedByCmd' \subseteq Enabled
    PROVE  TypeOK'
<1>1. /\ UNCHANGED call /\ Cmds' = Cmds /\ Enabled' = Enabled
      /\ c' = c /\ p' = p + 1 /\ pc' = "judge" /\ found' = NotFound /\ overall' = d
      /\ available' = available /\ result' = result /\ logged' = logged
      /\ packages' = packages \cup {Evaluation(kind, picked, newest, older)}
  BY CallFixed DEF Record
<1>2. Evaluation(kind, picked, newest, older)
         \in [cmd : DOMAIN Cmds, pkg : Nat, kind : Kinds,
              picked : VersionOrNone, newest : VersionOrNone, older : BOOLEAN]
  BY PkgType DEF Evaluation
<1>3. p' \in Nat /\ (c' \in DOMAIN Cmds' => p' \in 1..(Len(Cmds'[c'].packages) + 1))
  BY <1>1, PkgType
<1>4. line' \in Lines /\ cfg' \in Configs /\ mode' \in Sessions
  BY <1>1 DEF call, TypeOK
<1>5. QED
  BY <1>1, <1>2, <1>3, <1>4 DEF TypeOK, Kinds

(* An evaluation stays sound while the decision gets worse and the sets    *)
(* grow.                                                                   *)
LEMMA StaysSound ==
    ASSUME TypeOK, UNCHANGED call, UNCHANGED available,
           overall' \in Decisions, Rank(overall) <= Rank(overall'),
           unsupportedByCmd \subseteq unsupportedByCmd', anyRewritten => anyRewritten',
           \A n \in Names : selectedVersions[n] # NoVersion => selectedVersions'[n] # NoVersion,
           NEW e, Sound(e), e.kind \in Kinds
    PROVE  Sound(e)'
<1> DEFINE pkg == Cmds[e.cmd].packages[e.pkg]
<1>1. e.cmd \in Enabled /\ e.pkg \in DOMAIN Cmds[e.cmd].packages
  BY DEF Sound
<1>2. pkg.name \in Names
  BY <1>1, LineType
<1>3. Rank(Part(e)) <= Rank(overall) => Rank(Part(e)) <= Rank(overall')
  BY RankFacts
<1>4. overall # "allow" => overall' # "allow"
  BY RankFacts DEF TypeOK
<1>5. QED
  BY <1>1, <1>2, <1>3, <1>4, CallFixed DEF Sound

(* The end of an iteration keeps what the loop has established, given that *)
(* the new evaluation is sound and that it explains whatever changed.      *)
LEMMA RecordSoFar ==
    ASSUME IInv, pc \in {"judge", "selected"}, AtPackage,
           NEW e, e.cmd = c, e.pkg = p, NEW d \in Decisions,
           Record(e, d), Rank(overall) <= Rank(d),
           unsupportedByCmd \subseteq unsupportedByCmd', anyRewritten => anyRewritten',
           \A n \in Names : selectedVersions[n] # NoVersion => selectedVersions'[n] # NoVersion,
           Sound(e)',
           d \in {overall, Part(e)} \/ (d = "ask" /\ e.older /\ ~RewritesUnasked),
           anyRewritten' => available,
           \A k \in unsupportedByCmd' :
              k \in unsupportedByCmd \/ (k = c /\ e.kind = "unsupported"),
           \A n \in Names :
              \/ selectedVersions'[n] = selectedVersions[n]
              \/ /\ e.kind = "selected" /\ selectedVersions'[n] = e.picked
                 /\ Pkg.name = n
    PROVE  SoFar'
<1>1. /\ UNCHANGED call /\ Cmds' = Cmds /\ Enabled' = Enabled
      /\ Guarded' = Guarded /\ ShouldDeferUV' = ShouldDeferUV
      /\ RewritesUnasked' = RewritesUnasked /\ \A x : Part(x)' = Part(x)
      /\ c' = c /\ p' = p + 1 /\ pc' = "judge" /\ overall' = d
      /\ available' = available /\ packages' = packages \cup {e}
  BY CallFixed DEF Record
<1>2. Guarded /\ ~ShouldDeferUV
  BY DEF IInv, SoFar
<1>3. \A k \in Enabled : \A j \in DOMAIN Cmds[k].packages :
         Passed(k, j)' => \E x \in packages' : x.cmd = k /\ x.pkg = j
  <2> SUFFICES ASSUME NEW k \in Enabled, NEW j \in DOMAIN Cmds[k].packages, Passed(k, j)'
               PROVE  \E x \in packages' : x.cmd = k /\ x.pkg = j
    OBVIOUS
  <2>1. k \in Nat /\ j \in Nat /\ c \in Nat /\ p \in Nat
    BY LineType, PkgType DEF IInv
  <2>2. Passed(k, j) \/ (k = c /\ j = p)
    BY <2>1, <1>1 DEF Passed
  <2>3. QED
    BY <2>2, <1>1 DEF IInv, SoFar
<1>4. \A x \in packages' : Sound(x)'
  <2>1. \A x \in packages : x.kind \in Kinds
    BY DEF IInv, TypeOK, Kinds
  <2>2. \A x \in packages : Sound(x)
    BY DEF IInv, SoFar
  <2>3. \A x \in packages : Sound(x)'
    BY <2>1, <2>2, <1>1, StaysSound DEF IInv
  <2>4. QED
    BY <2>3, <1>1
<1>5. overall' \in PackageGrounds' \cup {"allow"}
  <2>1. overall \in PackageGrounds \cup {"allow"}
    BY DEF IInv, SoFar
  <2>2. PackageGrounds' = {Part(x) : x \in packages \cup {e}}
           \cup {"ask" : x \in {y \in packages \cup {e} : y.older /\ ~RewritesUnasked}}
    BY <1>1 DEF PackageGrounds
  <2>3. QED
    BY <2>1, <2>2, <1>1 DEF PackageGrounds
<1>6. \A k \in unsupportedByCmd' : \E x \in packages' : x.cmd = k /\ x.kind = "unsupported"
  BY <1>1 DEF IInv, SoFar
<1>7. \A n \in Names : selectedVersions'[n] # NoVersion =>
         \E x \in packages' : /\ x.kind = "selected" /\ x.picked = selectedVersions'[n]
                              /\ Cmds[x.cmd].packages[x.pkg].name = n
  <2> SUFFICES ASSUME NEW n \in Names, selectedVersions'[n] # NoVersion
               PROVE  \E x \in packages' : /\ x.kind = "selected" /\ x.picked = selectedVersions'[n]
                                           /\ Cmds[x.cmd].packages[x.pkg].name = n
    OBVIOUS
  <2>1. CASE selectedVersions'[n] = selectedVersions[n]
    BY <2>1, <1>1 DEF IInv, SoFar
  <2>2. CASE e.kind = "selected" /\ selectedVersions'[n] = e.picked /\ Pkg.name = n
    BY <2>2, <1>1 DEF Pkg
  <2>3. QED
    BY <2>1, <2>2
<1>8. QED
  BY <1>1, <1>2, <1>3, <1>4, <1>5, <1>6, <1>7 DEF Evaluated, SoFar

-----------------------------------------------------------------------------
(* The invariant holds before the first step.                              *)
LEMMA InitInv == Init => IInv
<1> SUFFICES ASSUME Init
             PROVE  IInv
  OBVIOUS
<1>1. Len(Cmds) \in Nat /\ \A k \in DOMAIN Cmds : Len(Cmds[k].packages) \in Nat
  BY LinesAssumption DEF Init, Cmds, AreCommands, IsCommand
<1>2. TypeOK
  <2>1. c \in 1..(Len(Cmds) + 1) /\ p \in Nat
    BY <1>1 DEF Init
  <2>2. c \in DOMAIN Cmds => p \in 1..(Len(Cmds[c].packages) + 1)
    BY <1>1 DEF Init
  <2>3. selectedVersions \in [Names -> VersionOrNone]
    BY DEF Init, VersionOrNone
  <2>4. QED
    BY <2>1, <2>2, <2>3 DEF Init, TypeOK, Decisions, NoAnswer
<1>3. \A k \in Enabled : \A j \in DOMAIN Cmds[k].packages : ~Passed(k, j)
  <2> SUFFICES ASSUME NEW k \in Enabled, NEW j \in DOMAIN Cmds[k].packages
               PROVE  ~Passed(k, j)
    OBVIOUS
  <2>1. k \in Nat /\ j \in Nat /\ k >= 1 /\ j >= 1
    BY <1>2, LineType
  <2>2. QED
    BY <2>1 DEF Passed, Init
<1>4. SoFar
  BY <1>3 DEF Evaluated, Init, SoFar
<1>5. QED
  BY <1>2, <1>4 DEF IInv

(* The answers before the loop, and the check of the provider.             *)
LEMMA EarlyInv ==
    ASSUME IInv, Early \/ CheckProvider
    PROVE  IInv'
<1>1. /\ pc = "parse" /\ UNCHANGED call /\ packages = {} /\ c = 1 /\ p = 1
      /\ UNCHANGED <<c, p, found, overall, packages, selectedVersions, anyRewritten,
                     unsupportedByCmd, logged>>
      /\ \/ pc' = "done" /\ UNCHANGED available /\ ~(Guarded /\ ~ShouldDeferUV)
            /\ result'.decision \in Decisions
         \/ pc' = "judge" /\ Guarded /\ ~ShouldDeferUV /\ UNCHANGED result
            /\ available' \in BOOLEAN
  <2>1. CASE Early
    <3>1. /\ pc = "parse" /\ pc' = "done" /\ UNCHANGED <<call, judging, logged>>
          /\ result'.decision \in Decisions
      BY <2>1 DEF Early, AnswerEarly, RefuseUnparsed, DeferUnparsedYarn,
         PassThrough, DeferYarn, PassDisabled, DeferUV, Answer, Decisions
    <3>2. ~(Guarded /\ ~ShouldDeferUV)
      BY <2>1 DEF Early, RefuseUnparsed, DeferUnparsedYarn,
         PassThrough, DeferYarn, PassDisabled, DeferUV, Guarded
    <3>3. QED
      BY <3>1, <3>2 DEF IInv, SoFar, judging
  <2>2. CASE CheckProvider
    BY <2>2 DEF CheckProvider, IInv, SoFar
  <2>3. QED
    BY <2>1, <2>2
<1>2. /\ Cmds' = Cmds /\ Enabled' = Enabled /\ Guarded' = Guarded
      /\ ShouldDeferUV' = ShouldDeferUV /\ PackageGrounds' = {} /\ PackageGrounds = {}
  BY <1>1, CallFixed DEF PackageGrounds
<1>3. TypeOK'
  <2>1. line' \in Lines /\ cfg' \in Configs /\ mode' \in Sessions
    BY <1>1 DEF IInv, TypeOK, call
  <2>2. QED
    BY <1>1, <1>2, <2>1 DEF IInv, TypeOK
<1>4. anyRewritten = FALSE /\ unsupportedByCmd = {} /\ \A n \in Names : selectedVersions[n] = NoVersion
  BY <1>1 DEF IInv, SoFar, TypeOK
<1>5. SoFar'
  BY <1>1, <1>2, <1>4 DEF Evaluated, IInv, SoFar, Passed, InCommand
<1>6. QED
  BY <1>3, <1>5 DEF IInv

(* A step that leaves the evaluations and what was gathered from them      *)
(* alone keeps what is said about them.                                    *)
Gathered == <<call, available, overall, packages, selectedVersions, anyRewritten, unsupportedByCmd>>

(* So what has been said of the gathered evaluations still holds after it. *)
LEMMA GatheredKept ==
    ASSUME IInv, UNCHANGED Gathered
    PROVE  /\ \A e \in packages' : Sound(e)'
           /\ overall' \in PackageGrounds' \cup {"allow"}
           /\ anyRewritten' => available'
           /\ \A k \in unsupportedByCmd' : \E e \in packages' : e.cmd = k /\ e.kind = "unsupported"
           /\ \A n \in Names : selectedVersions'[n] # NoVersion =>
                 \E e \in packages' :
                    /\ e.kind = "selected" /\ e.picked = selectedVersions'[n]
                    /\ Cmds'[e.cmd].packages[e.pkg].name = n
<1>1. /\ UNCHANGED call /\ Cmds' = Cmds /\ RewritesUnasked' = RewritesUnasked
      /\ \A e : Part(e)' = Part(e)
      /\ UNCHANGED <<available, overall, packages, selectedVersions, anyRewritten, unsupportedByCmd>>
  BY CallFixed DEF Gathered
<1>2. \A e \in packages : e.kind \in Kinds /\ Sound(e)
  BY DEF IInv, TypeOK, SoFar, Kinds
<1>3. \A e \in packages : Sound(e)'
  <2>1. overall' \in Decisions /\ Rank(overall) <= Rank(overall')
    BY <1>1, RankFacts DEF IInv, TypeOK
  <2>2. QED
    BY <1>1, <1>2, <2>1, StaysSound DEF IInv
<1>4. PackageGrounds' = PackageGrounds
  BY <1>1 DEF PackageGrounds
<1>5. QED
  BY <1>1, <1>3, <1>4 DEF IInv, SoFar

(* Moving to the next command: every package of the one left is passed.    *)
LEMMA NextCommandInv ==
    ASSUME IInv, NextCommand
    PROVE  IInv'
<1>1. /\ pc = "judge" /\ pc' = "judge" /\ c' = c + 1 /\ p' = 1 /\ InCommand /\ ~AtPackage
      /\ UNCHANGED Gathered /\ UNCHANGED <<call, found, result, logged>>
      /\ UNCHANGED <<available, overall, packages, selectedVersions, anyRewritten, unsupportedByCmd>>
  BY DEF NextCommand, Gathered
<1>2. /\ Cmds' = Cmds /\ Enabled' = Enabled /\ Guarded' = Guarded
      /\ ShouldDeferUV' = ShouldDeferUV /\ Guarded /\ ~ShouldDeferUV
  BY <1>1, CallFixed DEF IInv, SoFar
<1>3. c \in Nat /\ Len(Cmds) \in Nat /\ c <= Len(Cmds) /\ p \in Nat /\ c >= 1
  BY <1>1, LineType DEF IInv, TypeOK, InCommand
<1>4. TypeOK'
  <2>1. c' \in 1..(Len(Cmds) + 1)
    BY <1>1, <1>3
  <2>2. p' \in Nat /\ (c' \in DOMAIN Cmds => p' \in 1..(Len(Cmds[c'].packages) + 1))
    BY <1>1, LineType DEF IInv
  <2>3. line' \in Lines /\ cfg' \in Configs /\ mode' \in Sessions
    BY <1>1 DEF IInv, TypeOK, call
  <2>4. QED
    BY <1>1, <1>2, <2>1, <2>2, <2>3 DEF IInv, TypeOK
<1>5. \A k \in Enabled : \A j \in DOMAIN Cmds[k].packages :
         Passed(k, j)' => \E e \in packages : e.cmd = k /\ e.pkg = j
  <2> SUFFICES ASSUME NEW k \in Enabled, NEW j \in DOMAIN Cmds[k].packages, Passed(k, j)'
               PROVE  Passed(k, j)
    BY DEF IInv, SoFar
  <2>1. k \in Nat /\ j \in Nat /\ j >= 1 /\ Len(Cmds[k].packages) \in Nat
        /\ j <= Len(Cmds[k].packages)
    BY LineType DEF IInv
  <2>2. k < c \/ k = c
    BY <2>1, <1>1, <1>3 DEF Passed
  <2>3. k = c => j < p
    BY <2>1, <1>1, <1>3 DEF AtPackage
  <2>4. QED
    BY <2>2, <2>3 DEF Passed
<1>6. SoFar'
  BY <1>1, <1>2, <1>5, GatheredKept DEF Evaluated, SoFar
<1>7. QED
  BY <1>4, <1>6 DEF IInv

-----------------------------------------------------------------------------
(* A package judged without the provider.                                  *)
LEMMA JudgeUnavailableInv ==
    ASSUME IInv, JudgeUnavailable
    PROVE  IInv'
<1>1. PICK e, d : /\ e = Evaluation("unavailable", NoVersion, NoVersion, FALSE)
                  /\ d = WorseDecision(overall, Unreachable(Pkg.name))
  OBVIOUS
<1>2. /\ pc = "judge" /\ AtPackage /\ ~available /\ Record(e, d)
      /\ UNCHANGED <<selectedVersions, anyRewritten, unsupportedByCmd>> /\ UNCHANGED call
      /\ overall' = d /\ available' = available
  BY <1>1 DEF JudgeUnavailable, Record
<1>3. /\ e.cmd = c /\ e.pkg = p /\ e.kind = "unavailable" /\ ~e.older /\ e.picked = e.newest
  BY <1>1 DEF Evaluation
<1>4. Part(e) = Unreachable(Pkg.name) /\ Part(e) \in Decisions /\ overall \in Decisions
  BY <1>3, PartType DEF Part, Pkg, Kinds, IInv, TypeOK
<1>5. /\ d \in {overall, Part(e)} /\ d \in Decisions
      /\ Rank(overall) <= Rank(d) /\ Rank(Part(e)) <= Rank(d)
  <2>1. d = WorseDecision(overall, Part(e))
    BY <1>1, <1>4
  <2>2. QED
    BY <1>4, <2>1, RankFacts
<1>6. TypeOK'
  BY <1>1, <1>2, <1>5, RecordType DEF Kinds, VersionOrNone, IInv, TypeOK
<1>7. Sound(e)'
  BY <1>2, <1>3, <1>5, PkgType, CallFixed DEF Sound, IInv
<1>8. anyRewritten' => available
  BY <1>2 DEF IInv, SoFar
<1>9. SoFar'
  BY <1>2, <1>3, <1>5, <1>7, <1>8, RecordSoFar
<1>10. QED
  BY <1>6, <1>9 DEF IInv

-----------------------------------------------------------------------------
(* Select, and its error that ends the evaluation, only move the control.  *)
LEMMA SelectInv ==
    ASSUME IInv, Select \/ SelectFailed
    PROVE  IInv'
<1>1. /\ pc \in {"judge", "selected"} /\ pc' \in {"selected", "error"}
      /\ AtPackage /\ available
      /\ UNCHANGED <<call, available, c, p, overall, packages, selectedVersions,
                     anyRewritten, unsupportedByCmd, result, logged>>
      /\ \E a \in Replies(Request) : found' = [out |-> Promised(Request, a), list |-> a.list]
  BY DEF Select, SelectFailed, IInv, TypeOK, judging
<1>2. /\ Cmds' = Cmds /\ Enabled' = Enabled /\ Guarded' = Guarded
      /\ ShouldDeferUV' = ShouldDeferUV /\ Guarded /\ ~ShouldDeferUV
  BY <1>1, CallFixed DEF IInv, SoFar
<1>3. Request' = Request /\ Replies(Request)' = Replies(Request) /\ AtPackage' = AtPackage
  <2>1. Request' = Request
    BY <1>1, <1>2 DEF Request, RequestFor, Pkg, call
  <2>2. QED
    BY <1>1, <1>2, <2>1 DEF AtPackage, InCommand
<1>4. TypeOK'
  <2>1. line' \in Lines /\ cfg' \in Configs /\ mode' \in Sessions
    BY <1>1 DEF IInv, TypeOK, call
  <2>2. QED
    BY <1>1, <1>2, <1>3, <2>1 DEF IInv, TypeOK
<1>5. SoFar'
  <2>1. UNCHANGED Gathered
    BY <1>1 DEF Gathered
  <2>2. QED
    BY <1>1, <1>2, <2>1, GatheredKept DEF Evaluated, IInv, SoFar, Passed
<1>6. QED
  BY <1>4, <1>5 DEF IInv

(* What is known of a version that Select selected.                        *)
LEMMA FoundType ==
    ASSUME TypeOK, pc = "selected", Out.kind = "selected"
    PROVE  /\ Picked \in Versions /\ found.list[1] \in Versions
           /\ Out.decision = Decide(Request, Picked) /\ Out.decision \in Decisions
           /\ ~WasRewritten(Out) => Picked = found.list[1]
           /\ Pkg.pinned => ~WasRewritten(Out)
<1>1. PICK a \in Replies(Request) : found = [out |-> Promised(Request, a), list |-> a.list]
  BY DEF TypeOK
<1>2. a \in Answers(Request)
  <2>1. Replies(Request) \subseteq Answers(Request)
    BY DEF Replies, Answers
  <2>2. QED
    BY <2>1
<1>3. Request.pinned = Pkg.pinned /\ Pkg.pinned \in BOOLEAN
  BY PkgType DEF Request, RequestFor, TypeOK
<1>4. Out = Promised(Request, a) /\ Promised(Request, a).kind = "selected" /\ found.list = a.list
  BY <1>1 DEF Out
<1>5. /\ Out.index \in DOMAIN a.list
      /\ a.list[Out.index] \in Versions /\ a.list[1] \in Versions
      /\ Out.decision = Decide(Request, a.list[Out.index])
      /\ ~WasRewritten(Out) \/ Pkg.pinned => Out.index = 1
  BY <1>2, <1>3, <1>4, SelectedIsOffered
<1>6. Picked = a.list[Out.index]
  BY <1>4 DEF Picked
<1>7. Out.index = 1 => ~WasRewritten(Out)
  BY DEF WasRewritten
<1>8. QED
  BY <1>4, <1>5, <1>6, <1>7, DecideType

(* A package whose source the provider does not cover.                     *)
LEMMA PackageUnsupportedInv ==
    ASSUME IInv, PackageUnsupported
    PROVE  IInv'
<1>1. PICK e : e = Evaluation("unsupported", NoVersion, NoVersion, FALSE)
  OBVIOUS
<1>2. /\ pc = "selected" /\ AtPackage /\ available /\ Record(e, overall)
      /\ UNCHANGED <<selectedVersions, anyRewritten>> /\ UNCHANGED call
      /\ unsupportedByCmd' = unsupportedByCmd \cup {c}
      /\ overall' = overall /\ available' = available
  BY <1>1 DEF PackageUnsupported, Record, IInv, TypeOK
<1>3. e.cmd = c /\ e.pkg = p /\ e.kind = "unsupported" /\ ~e.older /\ e.picked = e.newest
  BY <1>1 DEF Evaluation
<1>4. overall \in Decisions /\ Rank(overall) <= Rank(overall)
  BY RankFacts DEF IInv, TypeOK
<1>5. TypeOK'
  BY <1>1, <1>2, <1>4, PkgType, RecordType DEF Kinds, VersionOrNone, IInv, TypeOK
<1>6. Sound(e)'
  BY <1>2, <1>3, PkgType, CallFixed DEF Sound, IInv
<1>7. anyRewritten' => available
  BY <1>2
<1>8. SoFar'
  BY <1>2, <1>3, <1>4, <1>6, <1>7, RecordSoFar
<1>9. QED
  BY <1>5, <1>8 DEF IInv

(* A package no version of which can be installed.                         *)
LEMMA PackageFailedInv ==
    ASSUME IInv, PackageFailed
    PROVE  IInv'
<1>1. PICK e : e = Evaluation("failed", NoVersion, NoVersion, FALSE)
  OBVIOUS
<1>2. /\ pc = "selected" /\ AtPackage /\ available /\ Record(e, "deny")
      /\ UNCHANGED <<selectedVersions, anyRewritten, unsupportedByCmd>> /\ UNCHANGED call
      /\ overall' = "deny" /\ available' = available
  BY <1>1 DEF PackageFailed, Record, IInv, TypeOK
<1>3. e.cmd = c /\ e.pkg = p /\ e.kind = "failed" /\ ~e.older /\ e.picked = e.newest
  BY <1>1 DEF Evaluation
<1>4. /\ Part(e) = "deny" /\ "deny" \in Decisions
      /\ Rank(overall) <= Rank("deny") /\ Rank(Part(e)) <= Rank("deny")
  BY <1>3, RankFacts DEF Part, Decisions
<1>5. TypeOK'
  BY <1>1, <1>2, <1>4, RecordType DEF Kinds, VersionOrNone, IInv, TypeOK
<1>6. Sound(e)'
  BY <1>2, <1>3, <1>4, PkgType, CallFixed DEF Sound, IInv
<1>7. anyRewritten' => available
  BY <1>2
<1>8. SoFar'
  BY <1>2, <1>3, <1>4, <1>6, <1>7, RecordSoFar
<1>9. QED
  BY <1>5, <1>8 DEF IInv

(* A pinned package with the decision for its version.                     *)
LEMMA PackagePinnedInv ==
    ASSUME IInv, PackagePinned
    PROVE  IInv'
<1>1. PICK e, d : /\ e = Evaluation("selected", Picked, Picked, FALSE)
                  /\ d = WorseDecision(overall, Out.decision)
  OBVIOUS
<1>2. /\ pc = "selected" /\ AtPackage /\ available /\ Record(e, d) /\ Pkg.pinned
      /\ UNCHANGED <<selectedVersions, anyRewritten, unsupportedByCmd>> /\ UNCHANGED call
      /\ overall' = d /\ available' = available /\ Out.kind = "selected"
  BY <1>1 DEF PackagePinned, Record, IInv, TypeOK
<1>3. /\ e.cmd = c /\ e.pkg = p /\ e.kind = "selected" /\ ~e.older
      /\ e.picked = Picked /\ e.picked = e.newest
  BY <1>1 DEF Evaluation
<1>4. Picked \in Versions /\ Out.decision = Decide(Request, Picked) /\ Out.decision \in Decisions
  BY <1>2, FoundType DEF IInv
<1>5. Part(e) = Out.decision /\ overall \in Decisions
  BY <1>3, <1>4 DEF Part, Request, Pkg, IInv, TypeOK
<1>6. /\ d \in {overall, Part(e)} /\ d \in Decisions
      /\ Rank(overall) <= Rank(d) /\ Rank(Part(e)) <= Rank(d)
  BY <1>1, <1>4, <1>5, RankFacts
<1>7. TypeOK'
  BY <1>1, <1>2, <1>4, <1>6, RecordType DEF Kinds, VersionOrNone, IInv, TypeOK
<1>8. Sound(e)'
  <2>1. Cmds[e.cmd].packages[e.pkg].pinned
    BY <1>2, <1>3 DEF Pkg
  <2>2. QED
    BY <1>2, <1>3, <1>4, <1>6, <2>1, PkgType, CallFixed DEF Sound, IInv
<1>9. anyRewritten' => available
  BY <1>2
<1>10. SoFar'
  BY <1>2, <1>3, <1>6, <1>8, <1>9, RecordSoFar
<1>11. QED
  BY <1>7, <1>10 DEF IInv

(* An unpinned package with the version selected for it, older ones        *)
(* included.                                                               *)
LEMMA PackageSelectedInv ==
    ASSUME IInv, PackageSelected
    PROVE  IInv'
<1>1. PICK e, d, judged :
         /\ e = Evaluation("selected", Picked, found.list[1], WasRewritten(Out))
         /\ judged = WorseDecision(overall, Out.decision)
         /\ d = IF WasRewritten(Out) /\ ~RewritesUnasked
                THEN WorseDecision(judged, "ask") ELSE judged
  OBVIOUS
<1>2. /\ pc = "selected" /\ AtPackage /\ available /\ Record(e, d) /\ ~Pkg.pinned
      /\ UNCHANGED unsupportedByCmd /\ UNCHANGED call
      /\ overall' = d /\ available' = available /\ Out.kind = "selected"
      /\ selectedVersions' = IF CanRewriteShape
                             THEN [selectedVersions EXCEPT ![Pkg.name] = Picked]
                             ELSE selectedVersions
      /\ anyRewritten' = (anyRewritten \/ WasRewritten(Out))
  BY <1>1 DEF PackageSelected, Record, IInv, TypeOK
<1>3. /\ e.cmd = c /\ e.pkg = p /\ e.kind = "selected" /\ e.older = WasRewritten(Out)
      /\ e.picked = Picked /\ e.newest = found.list[1]
  BY <1>1 DEF Evaluation
<1>4. /\ Picked \in Versions /\ found.list[1] \in Versions
      /\ Out.decision = Decide(Request, Picked) /\ Out.decision \in Decisions
      /\ ~WasRewritten(Out) => Picked = found.list[1]
  BY <1>2, FoundType DEF IInv
<1>5. Part(e) = Out.decision /\ overall \in Decisions /\ WasRewritten(Out) \in BOOLEAN
  BY <1>3, <1>4 DEF Part, Request, Pkg, IInv, TypeOK, WasRewritten
<1>6. /\ judged \in {overall, Part(e)} /\ judged \in Decisions
      /\ Rank(overall) <= Rank(judged) /\ Rank(Part(e)) <= Rank(judged)
  BY <1>1, <1>4, <1>5, RankFacts
<1>7. /\ d \in Decisions /\ Rank(overall) <= Rank(d) /\ Rank(Part(e)) <= Rank(d)
      /\ d \in {overall, Part(e)} \/ (d = "ask" /\ e.older /\ ~RewritesUnasked)
      /\ e.older => RewritesUnasked \/ d # "allow"
  <2>1. CASE ~(WasRewritten(Out) /\ ~RewritesUnasked)
    BY <1>1, <1>3, <1>6, <2>1
  <2>2. CASE WasRewritten(Out) /\ ~RewritesUnasked
    <3>1. d = WorseDecision(judged, "ask") /\ "ask" \in Decisions /\ "ask" # "allow"
      BY <1>1, <2>2 DEF Decisions
    <3>2. d \in {judged, "ask"} /\ Rank(judged) <= Rank(d) /\ Rank("ask") <= Rank(d)
      BY <1>6, <3>1, RankFacts
    <3>3. d \in Decisions /\ d # "allow"
      BY <1>6, <3>1, <3>2, RankFacts
    <3>4. Rank(overall) <= Rank(d) /\ Rank(Part(e)) <= Rank(d)
      BY <1>6, <3>2, RankFacts
    <3>5. QED
      BY <1>3, <1>6, <2>2, <3>2, <3>3, <3>4
  <2>3. QED
    BY <2>1, <2>2
<1>8. Pkg.name \in Names /\ selectedVersions \in [Names -> VersionOrNone]
  BY <1>2, PkgType DEF IInv, TypeOK
<1>9. /\ selectedVersions' \in [Names -> VersionOrNone]
      /\ CanRewriteShape => selectedVersions'[Pkg.name] = Picked
      /\ \A n \in Names : \/ selectedVersions'[n] = selectedVersions[n]
                          \/ selectedVersions'[n] = Picked /\ Pkg.name = n
  BY <1>2, <1>4, <1>8 DEF VersionOrNone
<1>10. Picked # NoVersion
  BY <1>4, NoVersionAssumption
<1>11. TypeOK'
  <2>1. anyRewritten' \in BOOLEAN /\ unsupportedByCmd' \subseteq Enabled
    BY <1>2, <1>5 DEF IInv, TypeOK
  <2>2. Record(Evaluation("selected", Picked, found.list[1], WasRewritten(Out)), d)
    BY <1>1, <1>2
  <2>3. "selected" \in Kinds /\ Picked \in VersionOrNone /\ found.list[1] \in VersionOrNone
    BY <1>4 DEF Kinds, VersionOrNone
  <2>4. QED
    BY <1>2, <1>5, <1>7, <1>9, <2>1, <2>2, <2>3, RecordType DEF IInv
<1>12. Sound(e)'
  <2>1. /\ Cmds[e.cmd].packages[e.pkg] = Pkg
        /\ e.cmd \in Enabled /\ e.pkg \in DOMAIN Cmds[e.cmd].packages
    BY <1>2, <1>3, PkgType DEF Pkg, IInv
  <2>2. /\ Cmds' = Cmds /\ Enabled' = Enabled /\ CanRewriteShape' = CanRewriteShape
        /\ RewritesUnasked' = RewritesUnasked /\ Part(e)' = Part(e)
    BY <1>2, CallFixed
  <2>3. e.older => anyRewritten'
    BY <1>2, <1>3
  <2>4. ~e.older => e.picked = e.newest
    BY <1>3, <1>4
  <2>5. CanRewriteShape => selectedVersions'[Pkg.name] # NoVersion
    BY <1>9, <1>10
  <2>6. QED
    BY <1>2, <1>3, <1>4, <1>7, <2>1, <2>2, <2>3, <2>4, <2>5 DEF Sound
<1>13. anyRewritten' => available
  BY <1>2
<1>14. SoFar'
  BY <1>2, <1>3, <1>7, <1>9, <1>10, <1>12, <1>13, RecordSoFar
<1>15. QED
  BY <1>11, <1>14 DEF IInv

-----------------------------------------------------------------------------
(* What the answer is computed from does not change while it is logged.    *)
LEMMA VerdictKept ==
    ASSUME UNCHANGED <<call, judging>>
    PROVE  Verdict' = Verdict /\ InCommand' = InCommand
BY CallFixed
   DEF judging, Verdict, AnyUnsupportedSource, AnyNonLocal, Examined, Rewrite, InCommand

(* The answer is computed once and then only logged.                       *)
LEMMA ConcludeInv ==
    ASSUME IInv, Conclude \/ Log
    PROVE  IInv'
<1>1. /\ UNCHANGED <<call, judging>> /\ UNCHANGED Gathered /\ ~InCommand
      /\ pc \in {"judge", "log"} /\ pc' \in {"log", "done"}
      /\ result' = Verdict /\ logged' \in BOOLEAN
      /\ Guarded /\ ~ShouldDeferUV
  BY DEF Conclude, Log, IInv, TypeOK, SoFar, Evaluated, judging, Gathered
<1>2. /\ Cmds' = Cmds /\ Enabled' = Enabled /\ Guarded' = Guarded
      /\ ShouldDeferUV' = ShouldDeferUV
  BY <1>1, CallFixed
<1>3. Verdict.decision \in Decisions
  <2>1. WorseDecision(overall, "ask") \in Decisions /\ overall \in Decisions
    BY RankFacts DEF IInv, TypeOK, Decisions
  <2>2. QED
    BY <2>1 DEF Verdict
<1>4. TypeOK'
  <2>1. line' \in Lines /\ cfg' \in Configs /\ mode' \in Sessions
    BY <1>1 DEF IInv, TypeOK, call
  <2>2. found' = NotFound
    BY <1>1 DEF IInv, TypeOK, judging
  <2>3. QED
    BY <1>1, <1>2, <1>3, <2>1, <2>2 DEF IInv, TypeOK, judging
<1>5. SoFar'
  BY <1>1, <1>2, GatheredKept, VerdictKept DEF IInv, SoFar, Passed, judging, Evaluated
<1>6. QED
  BY <1>4, <1>5 DEF IInv

(* A step that changes nothing.                                            *)
LEMMA StutterInv ==
    ASSUME IInv, UNCHANGED vars
    PROVE  IInv'
<1>1. /\ UNCHANGED <<call, judging, pc, result, logged>> /\ UNCHANGED Gathered
      /\ UNCHANGED <<line, cfg, mode>> /\ UNCHANGED <<call, judging>>
  BY DEF vars, judging, Gathered, call
<1>2. /\ Cmds' = Cmds /\ Enabled' = Enabled /\ Guarded' = Guarded
      /\ ShouldDeferUV' = ShouldDeferUV /\ AtPackage' = AtPackage
      /\ Request' = Request /\ Replies(Request)' = Replies(Request)
  BY <1>1, CallFixed DEF judging, AtPackage, InCommand, Request, RequestFor, Pkg
<1>3. TypeOK'
  BY <1>1, <1>2 DEF IInv, TypeOK, judging
<1>4. SoFar'
  BY <1>1, <1>2, GatheredKept, VerdictKept DEF IInv, SoFar, Passed, judging, Evaluated
<1>5. QED
  BY <1>3, <1>4 DEF IInv

(* One step per action.                                                    *)
LEMMA StepInv == IInv /\ [Next]_vars => IInv'
<1> SUFFICES ASSUME IInv, [Next]_vars
             PROVE  IInv'
  OBVIOUS
<1>1. CASE UNCHANGED vars
  BY <1>1, StutterInv
<1>2. CASE Early \/ CheckProvider
  BY <1>2, EarlyInv
<1>3. CASE NextCommand
  BY <1>3, NextCommandInv
<1>4. CASE JudgeUnavailable
  BY <1>4, JudgeUnavailableInv
<1>5. CASE Select \/ SelectFailed
  BY <1>5, SelectInv
<1>6. CASE PackageUnsupported
  BY <1>6, PackageUnsupportedInv
<1>7. CASE PackageFailed
  BY <1>7, PackageFailedInv
<1>8. CASE PackagePinned
  BY <1>8, PackagePinnedInv
<1>9. CASE PackageSelected
  BY <1>9, PackageSelectedInv
<1>10. CASE Conclude \/ Log
  BY <1>10, ConcludeInv
<1>11. QED
  BY <1>1, <1>2, <1>3, <1>4, <1>5, <1>6, <1>7, <1>8, <1>9, <1>10 DEF Next, Local, Judge

(* The inductive invariant holds in every behaviour.                       *)
THEOREM Invariance == Spec => []IInv
BY InitInv, StepInv, PTL DEF Spec

(* The evaluator's variables always have the values that its Go types      *)
(* admit, and the cursor stays within the commands and their packages.     *)
THEOREM TypeCorrect == Spec => []TypeOK
<1>1. IInv => TypeOK
  BY DEF IInv
<1>2. QED
  BY <1>1, Invariance, PTL

-----------------------------------------------------------------------------
(* What is known when the answer is computed.                              *)
LEMMA AtTheEnd ==
    ASSUME IInv, Evaluated
    PROVE  /\ result = Verdict /\ overall \in Decisions
           /\ result.decision \in Decisions /\ Rank(overall) <= Rank(result.decision)
           /\ AnyUnsupportedSource \/ AnyNonLocal =>
                 Rank("ask") <= Rank(result.decision) /\ result.decision \in {overall, "ask"}
           /\ ~(AnyUnsupportedSource \/ AnyNonLocal) => result.decision = overall
           /\ \A k \in Enabled : \A j \in DOMAIN Cmds[k].packages :
                 \E e \in packages : e.cmd = k /\ e.pkg = j
           /\ \A e \in packages : /\ e.kind \in Kinds /\ Sound(e) /\ Part(e) \in Decisions
                                  /\ e.older \in BOOLEAN
<1>1. result = Verdict /\ ~InCommand /\ overall \in Decisions
  BY DEF IInv, SoFar, TypeOK
<1>2. \A e \in packages : /\ e.kind \in Kinds /\ Sound(e) /\ Part(e) \in Decisions
                          /\ e.older \in BOOLEAN
  <2>1. \A e \in packages : e.kind \in Kinds /\ e.older \in BOOLEAN
    BY DEF IInv, TypeOK, Kinds
  <2>2. QED
    BY <2>1, PartType DEF IInv, SoFar
<1>3. \A k \in Enabled : \A j \in DOMAIN Cmds[k].packages : Passed(k, j)
  <2> SUFFICES ASSUME NEW k \in Enabled
               PROVE  k < c
    BY DEF Passed
  <2>1. k \in 1..Len(Cmds) /\ Len(Cmds) \in Nat /\ c \in Nat
    BY LineType DEF IInv, TypeOK
  <2>2. QED
    BY <1>1, <2>1 DEF InCommand
<1>4. /\ "ask" \in Decisions /\ WorseDecision(overall, "ask") \in {overall, "ask"}
      /\ Rank(overall) <= Rank(WorseDecision(overall, "ask"))
      /\ Rank("ask") <= Rank(WorseDecision(overall, "ask"))
      /\ Rank(overall) <= Rank(overall)
  <2>1. "ask" \in Decisions
    BY DEF Decisions
  <2>2. QED
    BY <1>1, <2>1, RankFacts
<1>5. /\ AnyUnsupportedSource \/ AnyNonLocal => result.decision = WorseDecision(overall, "ask")
      /\ ~(AnyUnsupportedSource \/ AnyNonLocal) => result.decision = overall
  BY <1>1 DEF Verdict
<1>6. QED
  BY <1>1, <1>2, <1>3, <1>4, <1>5 DEF IInv, SoFar

(* The engine's decision depends on a package's name, not on how it is     *)
(* asked for.                                                              *)
LEMMA DecideByName ==
    ASSUME NEW pkg, NEW other, pkg.name = other.name, NEW v
    PROVE  Decide(RequestFor(pkg), v) = Decide(RequestFor(other), v)
BY DEF Decide, RequestFor

(* The version that would be installed for a package that was selected is  *)
(* one that some package of that name was judged by: its own, or the one   *)
(* that the rewritten command pins the name to.                            *)
LEMMA InstalledIsJudged ==
    ASSUME IInv, Evaluated, NEW e \in packages, e.kind = "selected",
           result.rewritten # <<>> \/ (overall = "allow" /\ ~AnyUnsupportedSource)
    PROVE  \E x \in packages :
              /\ x.kind = "selected"
              /\ Decide(RequestFor(Cmds[e.cmd].packages[e.pkg]), WouldInstall(e)) = Part(x)
<1> DEFINE pkg == Cmds[e.cmd].packages[e.pkg]
<1>1. /\ Sound(e) /\ e.cmd \in Enabled /\ e.pkg \in DOMAIN Cmds[e.cmd].packages
      /\ pkg.name \in Names /\ result = Verdict
  BY AtTheEnd, LineType DEF Sound, IInv
<1>2. result.rewritten # <<>> =>
         /\ CanRewriteShape /\ Enabled = {1} /\ e.cmd = 1
         /\ result.rewritten[e.pkg] = selectedVersions[pkg.name]
  BY <1>1 DEF Verdict, CanRewriteShape, Rewrite
<1>3. CASE result.rewritten # <<>> /\ result.rewritten[e.pkg] # NoVersion
  <2>1. PICK x \in packages :
           /\ x.kind = "selected" /\ x.picked = selectedVersions[pkg.name]
           /\ Cmds[x.cmd].packages[x.pkg].name = pkg.name
    BY <1>1, <1>2, <1>3 DEF IInv, SoFar
  <2>2. WouldInstall(e) = x.picked
    BY <1>2, <1>3, <2>1 DEF WouldInstall
  <2>3. Part(x) = Decide(RequestFor(Cmds[x.cmd].packages[x.pkg]), x.picked)
    BY <2>1 DEF Part
  <2>4. QED
    BY <2>1, <2>2, <2>3, DecideByName
<1>4. CASE ~(result.rewritten # <<>> /\ result.rewritten[e.pkg] # NoVersion)
  <2>1. ~e.older
    <3> SUFFICES ASSUME e.older
                 PROVE  FALSE
      OBVIOUS
    <3>1. /\ anyRewritten /\ ~pkg.pinned
          /\ RewritesUnasked \/ overall # "allow"
      BY <1>1 DEF Sound
    <3>2. CanRewriteShape
      BY <1>2, <3>1 DEF RewritesUnasked
    <3>3. selectedVersions[pkg.name] # NoVersion
      BY <1>1, <3>1, <3>2 DEF Sound
    <3>4. result.rewritten = <<>> /\ ~AnyUnsupportedSource
      BY <1>2, <1>4, <3>3
    <3>5. Enabled = {1} /\ e.cmd = 1
      BY <1>1, <3>2 DEF CanRewriteShape
    <3>6. result.rewritten = [j \in DOMAIN Cmds[1].packages |->
                                selectedVersions[Cmds[1].packages[j].name]]
      BY <1>1, <3>1, <3>2, <3>4 DEF Verdict, Rewrite
    <3>7. e.pkg \in DOMAIN result.rewritten
      BY <3>6, <1>1, <3>5
    <3>8. DOMAIN <<>> = {}
      OBVIOUS
    <3>9. QED
      BY <3>4, <3>7, <3>8
  <2>2. WouldInstall(e) = e.picked
    BY <1>1, <1>4, <2>1 DEF WouldInstall, Sound
  <2>3. Part(e) = Decide(RequestFor(pkg), e.picked)
    BY DEF Part
  <2>4. QED
    BY <2>2, <2>3
<1>5. QED
  BY <1>3, <1>4

(* Only packages of commands with an unsupported source are without a      *)
(* decision; where there is none, the provider's availability settles the  *)
(* kind of every evaluation whose own decision is not to deny.             *)
LEMMA KindSettled ==
    ASSUME IInv, Evaluated, NEW e \in packages, Part(e) # "deny",
           e.cmd \notin unsupportedByCmd \/ e.kind # "unsupported"
    PROVE  /\ available => e.kind = "selected"
           /\ ~available => e.kind = "unavailable"
BY AtTheEnd DEF Sound, Part, Kinds

-----------------------------------------------------------------------------
(* For every call, "allow" is answered only when each package of each      *)
(* guarded command was looked at and what the command installs for it is   *)
(* something the policy allows.                                            *)
THEOREM OnlyAllowedInstalled == Spec => []InstallsOnlyAllowed
<1>1. ASSUME IInv
      PROVE  InstallsOnlyAllowed
  <2> SUFFICES ASSUME Evaluated, result.decision = "allow",
                      NEW k \in Enabled
               PROVE  /\ ~Cmds[k].nonLocal
                      /\ \A j \in DOMAIN Cmds[k].packages :
                            \E e \in packages :
                               /\ e.cmd = k /\ e.pkg = j
                               /\ LET pkg == Cmds[k].packages[j] IN
                                  IF available
                                  THEN /\ e.kind = "selected"
                                       /\ Decide(RequestFor(pkg), WouldInstall(e)) = "allow"
                                  ELSE Unreachable(pkg.name) = "allow"
    BY DEF InstallsOnlyAllowed
  <2>1. Rank("allow") = 0 /\ Rank("ask") = 1
    BY DEF Rank
  <2>2. ~AnyUnsupportedSource /\ ~AnyNonLocal /\ overall = "allow"
    BY <1>1, <2>1, AtTheEnd
  <2>3. ~Cmds[k].nonLocal /\ k \notin unsupportedByCmd
    BY <2>2 DEF AnyNonLocal, AnyUnsupportedSource, Examined
  <2> SUFFICES ASSUME NEW j \in DOMAIN Cmds[k].packages
               PROVE  \E e \in packages :
                         /\ e.cmd = k /\ e.pkg = j
                         /\ LET pkg == Cmds[k].packages[j] IN
                            IF available
                            THEN /\ e.kind = "selected"
                                 /\ Decide(RequestFor(pkg), WouldInstall(e)) = "allow"
                            ELSE Unreachable(pkg.name) = "allow"
    BY <2>3
  <2>4. PICK e \in packages : e.cmd = k /\ e.pkg = j
    BY <1>1, AtTheEnd
  <2>5. Sound(e) /\ e.kind # "unsupported" /\ Part(e) \in Decisions
    BY <1>1, <2>3, <2>4, AtTheEnd DEF Sound
  <2>6. Rank(Part(e)) <= 0 /\ Rank(Part(e)) \in 0..2
    BY <2>1, <2>2, <2>5, RankFacts DEF Sound
  <2>7. Part(e) = "allow"
    BY <2>5, <2>6, RankFacts
  <2>8. CASE available
    <3>1. e.kind = "selected"
      BY <1>1, <2>5, <2>7, <2>8, KindSettled
    <3>2. PICK x \in packages :
             /\ x.kind = "selected"
             /\ Decide(RequestFor(Cmds[k].packages[j]), WouldInstall(e)) = Part(x)
      BY <1>1, <2>2, <2>4, <3>1, InstalledIsJudged
    <3>3. Sound(x) /\ Part(x) \in Decisions
      BY <1>1, AtTheEnd
    <3>4. Rank(Part(x)) <= 0 /\ Rank(Part(x)) \in 0..2
      BY <2>1, <2>2, <3>2, <3>3, RankFacts DEF Sound
    <3>5. Part(x) = "allow"
      BY <3>3, <3>4, RankFacts
    <3>6. QED
      BY <2>4, <2>8, <3>1, <3>2, <3>5
  <2>9. CASE ~available
    <3>1. e.kind = "unavailable"
      BY <1>1, <2>5, <2>7, <2>9, KindSettled
    <3>2. Part(e) = Unreachable(Cmds[k].packages[j].name)
      BY <2>4, <3>1 DEF Part
    <3>3. QED
      BY <2>4, <2>7, <2>9, <3>2
  <2>10. QED
    BY <2>8, <2>9
<1>2. QED
  BY <1>1, Invariance, PTL

(* For every call, a rewritten command that is not denied names an exact   *)
(* version for every package, each judged no worse than the answer.        *)
THEOREM RewriteJudged == Spec => []RewriteIsJudged
<1>1. ASSUME IInv
      PROVE  RewriteIsJudged
  <2> SUFFICES ASSUME Evaluated, result.rewritten # <<>>, result.decision # "deny",
                      NEW j \in DOMAIN Cmds[1].packages
               PROVE  LET pkg == Cmds[1].packages[j] IN
                      \E e \in packages :
                         /\ e.pkg = j /\ e.kind = "selected"
                         /\ result.rewritten[j] # NoVersion \/ pkg.pinned
                         /\ Rank(Decide(RequestFor(pkg), WouldInstall(e)))
                               <= Rank(result.decision)
    BY DEF RewriteIsJudged
  <2>1. /\ result = Verdict /\ anyRewritten /\ CanRewriteShape /\ ~AnyUnsupportedSource
        /\ Enabled = {1} /\ ~Cmds[1].unparsed /\ available
        /\ result.rewritten[j] = selectedVersions[Cmds[1].packages[j].name]
    <3>1. result = Verdict
      BY <1>1, AtTheEnd
    <3>2. anyRewritten /\ CanRewriteShape /\ ~AnyUnsupportedSource
      BY <3>1 DEF Verdict
    <3>3. result.rewritten = Rewrite(Cmds[1])
      BY <3>1, <3>2 DEF Verdict
    <3>4. QED
      BY <1>1, <3>1, <3>2, <3>3 DEF CanRewriteShape, Rewrite, IInv, SoFar
  <2>2. 1 \notin unsupportedByCmd
    <3>1. 1 \in Examined
      BY <2>1 DEF Examined
    <3>2. QED
      BY <2>1, <3>1 DEF AnyUnsupportedSource
  <2>3. PICK e \in packages : e.cmd = 1 /\ e.pkg = j
    BY <1>1, <2>1, AtTheEnd
  <2>4. /\ Sound(e) /\ e.kind # "unsupported" /\ Part(e) \in Decisions
        /\ overall \in Decisions /\ result.decision \in Decisions
        /\ Rank(overall) <= Rank(result.decision)
    BY <1>1, <2>2, <2>3, AtTheEnd DEF Sound
  <2>5. Rank(Part(e)) <= Rank(result.decision)
    BY <2>4, RankFacts DEF Sound
  <2>6. Part(e) # "deny"
    BY <2>4, <2>5 DEF Rank, Decisions
  <2>7. e.kind = "selected"
    BY <1>1, <2>1, <2>4, <2>6, KindSettled
  <2>8. result.rewritten[j] # NoVersion \/ Cmds[1].packages[j].pinned
    BY <2>1, <2>3, <2>4, <2>7 DEF Sound
  <2>9. PICK x \in packages :
           /\ x.kind = "selected"
           /\ Decide(RequestFor(Cmds[1].packages[j]), WouldInstall(e)) = Part(x)
    BY <1>1, <2>3, <2>7, InstalledIsJudged
  <2>10. Sound(x) /\ Part(x) \in Decisions
    BY <1>1, AtTheEnd
  <2>11. Rank(Part(x)) <= Rank(result.decision)
    BY <2>4, <2>9, <2>10, RankFacts DEF Sound
  <2>12. QED
    BY <2>3, <2>7, <2>8, <2>9, <2>11
<1>2. QED
  BY <1>1, Invariance, PTL

(* For every call, the answer is one of the grounds that its packages and  *)
(* sources give, and no milder than any of them.                           *)
THEOREM WorstGroundAnswered == Spec => []AnswerIsWorstGround
<1>1. ASSUME IInv
      PROVE  AnswerIsWorstGround
  <2> SUFFICES ASSUME Evaluated
               PROVE  /\ \A g \in Grounds : Rank(g) <= Rank(result.decision)
                      /\ result.decision \in Grounds \cup {"allow"}
    BY DEF AnswerIsWorstGround
  <2>1. /\ overall \in Decisions /\ result.decision \in Decisions
        /\ Rank(overall) <= Rank(result.decision)
        /\ Rank("ask") = 1 /\ \A d : Rank(d) \in 0..2
    BY <1>1, AtTheEnd, RankFacts DEF Rank
  <2>2. \A k \in unsupportedByCmd \cap Enabled : AnyUnsupportedSource \/ AnyNonLocal
    BY DEF AnyUnsupportedSource, AnyNonLocal, Examined
  <2>3. AnyUnsupportedSource \/ AnyNonLocal =>
           Rank("ask") <= Rank(result.decision) /\ result.decision \in {overall, "ask"}
    BY <1>1, AtTheEnd
  <2>4. ASSUME NEW e \in packages
        PROVE  Rank(Part(e)) <= Rank(result.decision)
    <3>1. Sound(e)
      BY <1>1, AtTheEnd
    <3>2. CASE e.kind = "unsupported"
      BY <2>2, <2>3, <3>1, <3>2 DEF Sound, Part
    <3>3. CASE e.kind # "unsupported"
      BY <2>1, <3>1, <3>3 DEF Sound
    <3>4. QED
      BY <3>2, <3>3
  <2>5. ASSUME NEW e \in packages, e.older, ~RewritesUnasked
        PROVE  Rank("ask") <= Rank(result.decision)
    <3>1. overall # "allow"
      BY <1>1, <2>5, AtTheEnd DEF Sound
    <3>2. Rank(overall) # 0
      BY <2>1, <3>1, RankFacts
    <3>3. QED
      BY <2>1, <3>2
  <2>6. \A g \in Grounds : Rank(g) <= Rank(result.decision)
    <3>1. ASSUME NEW k \in Enabled, Cmds[k].nonLocal
          PROVE  Rank("ask") <= Rank(result.decision)
      BY <2>3, <3>1 DEF AnyNonLocal
    <3>2. QED
      BY <2>4, <2>5, <3>1 DEF Grounds, PackageGrounds
  <2>7. result.decision \in Grounds \cup {"allow"}
    <3>1. overall \in PackageGrounds \cup {"allow"}
      BY <1>1 DEF IInv, SoFar
    <3>2. CASE result.decision = overall
      BY <3>1, <3>2 DEF Grounds
    <3>3. CASE AnyNonLocal
      <4>1. "ask" \in Grounds
        BY <3>3 DEF AnyNonLocal, Grounds
      <4>2. QED
        BY <2>3, <3>1, <3>3, <4>1 DEF Grounds
    <3>4. CASE AnyUnsupportedSource
      <4>1. PICK k \in unsupportedByCmd : TRUE
        BY <3>4 DEF AnyUnsupportedSource
      <4>2. PICK e \in packages : e.kind = "unsupported"
        BY <1>1, <4>1 DEF IInv, SoFar
      <4>3. Part(e) = "ask"
        BY <4>2 DEF Part
      <4>4. "ask" \in Grounds
        BY <4>3 DEF Grounds, PackageGrounds
      <4>5. QED
        BY <2>3, <3>1, <3>4, <4>4 DEF Grounds
    <3>5. QED
      BY <1>1, <3>2, <3>3, <3>4, AtTheEnd
  <2>8. QED
    BY <2>6, <2>7
<1>2. QED
  BY <1>1, Invariance, PTL

-----------------------------------------------------------------------------
(* Lines with one package, which Session answers as Selection does.        *)
OneLine == Len(Cmds) = 1 /\ Len(Cmds[1].packages) = 1 /\ ~Cmds[1].nonLocal

One == Cmds[1].packages[1]

(* Before the package was looked at nothing has been found out.            *)
Fresh ==
    /\ overall = "allow" /\ ~anyRewritten /\ unsupportedByCmd = {}
    /\ \A n \in Names : selectedVersions[n] = NoVersion

(* What one reply leaves behind when the package is recorded.              *)
LeftBy(reply, e) ==
    LET r == RequestFor(One)
        out == Promised(r, reply)
        answer == AnswerOne(r, available, reply, CanRewriteShape)
    IN /\ e.kind = IF available THEN out.kind ELSE "unavailable"
       /\ unsupportedByCmd = IF e.kind = "unsupported" THEN {1} ELSE {}
       /\ overall = IF e.kind = "unsupported" THEN "allow" ELSE answer.decision
       /\ anyRewritten = (e.kind = "selected" /\ WasRewritten(out))
       /\ e.kind = "selected" => e.picked = reply.list[out.index]
       /\ anyRewritten => ~One.pinned
       /\ e.kind = "selected" /\ ~One.pinned /\ CanRewriteShape =>
             selectedVersions[One.name] = reply.list[out.index]

Reply == IF available THEN Replies(RequestFor(One)) ELSE {NoReply}

AsOne ==
    OneLine =>
       IF packages = {} THEN Fresh
       ELSE /\ c > 1 \/ p > 1
            /\ \E reply \in Reply, e \in packages : LeftBy(reply, e)

(* On a line with one package the cursor is on it only before it was       *)
(* recorded.                                                               *)
LEMMA CursorOnOne ==
    ASSUME IInv, AsOne, OneLine, AtPackage
    PROVE  /\ c = 1 /\ p = 1 /\ Pkg = One /\ Request = RequestFor(One)
           /\ packages = {} /\ Fresh /\ One.name \in Names
<1>1. c \in 1..(Len(Cmds) + 1) /\ c <= Len(Cmds)
  BY DEF IInv, TypeOK, AtPackage, InCommand
<1>2. c = 1
  BY <1>1 DEF OneLine
<1>3. 1 \in DOMAIN Cmds
  BY <1>2, PkgType DEF IInv
<1>4. p \in 1..(Len(Cmds[1].packages) + 1) /\ p <= Len(Cmds[1].packages)
  BY <1>2, <1>3 DEF IInv, TypeOK, AtPackage
<1>5. p = 1
  BY <1>4 DEF OneLine
<1>6. QED
  BY <1>2, <1>5, PkgType DEF AsOne, Pkg, One, Request, IInv

(* A step that changes nothing of what was gathered.                       *)
LEMMA AsOneKept ==
    ASSUME IInv, AsOne, UNCHANGED Gathered, (c' = c /\ p' = p) \/ c' = c + 1
    PROVE  AsOne'
<1>1. /\ UNCHANGED call /\ Cmds' = Cmds /\ CanRewriteShape' = CanRewriteShape
      /\ UNCHANGED <<available, overall, packages, selectedVersions, anyRewritten, unsupportedByCmd>>
      /\ UNCHANGED <<cfg, mode>>
  BY CallFixed DEF Gathered, call
<1>2. One' = One /\ OneLine' = OneLine /\ RequestFor(One)' = RequestFor(One)
  BY <1>1 DEF One, OneLine, RequestFor
<1>3. Reply' = Reply
  BY <1>1, <1>2 DEF Reply
<1>4. \A reply, e : LeftBy(reply, e)' = LeftBy(reply, e)
  BY <1>1, <1>2 DEF LeftBy
<1>5. Fresh' = Fresh
  BY <1>1 DEF Fresh
<1>6. c \in Nat /\ c >= 1
  BY LineType DEF IInv, TypeOK
<1>7. c > 1 \/ p > 1 => c' > 1 \/ p' > 1
  BY <1>6
<1>8. QED
  BY <1>1, <1>2, <1>3, <1>4, <1>5, <1>7 DEF AsOne

(* The package is recorded with what a reply leaves behind.                *)
LEMMA RecordAsOne ==
    ASSUME IInv, AsOne, AtPackage, NEW e, NEW d, Record(e, d), UNCHANGED call,
           NEW reply,
           OneLine => reply \in Reply /\ LeftBy(reply, e)'
    PROVE  AsOne'
<1>1. /\ Cmds' = Cmds /\ available' = available /\ packages' = packages \cup {e}
      /\ c' = c /\ p' = p + 1 /\ UNCHANGED <<cfg, mode>>
  BY CallFixed DEF Record, call
<1>2. One' = One /\ OneLine' = OneLine /\ RequestFor(One)' = RequestFor(One)
  BY <1>1 DEF One, OneLine, RequestFor
<1>3. Reply' = Reply
  BY <1>1, <1>2 DEF Reply
<1>4. OneLine => p' > 1
  BY <1>1, CursorOnOne
<1>5. QED
  BY <1>1, <1>2, <1>3, <1>4 DEF AsOne

(* What a step has to leave behind, in terms of what was there before it.  *)
LEMMA LeavesBy ==
    ASSUME UNCHANGED call, UNCHANGED available, NEW reply, NEW e, NEW out, NEW decision,
           out = Promised(RequestFor(One), reply),
           decision = AnswerOne(RequestFor(One), available, reply, CanRewriteShape).decision,
           e.kind = IF available THEN out.kind ELSE "unavailable",
           unsupportedByCmd' = IF e.kind = "unsupported" THEN {1} ELSE {},
           overall' = IF e.kind = "unsupported" THEN "allow" ELSE decision,
           anyRewritten' = (e.kind = "selected" /\ WasRewritten(out)),
           e.kind = "selected" => e.picked = reply.list[out.index],
           anyRewritten' => ~One.pinned,
           e.kind = "selected" /\ ~One.pinned /\ CanRewriteShape =>
              selectedVersions'[One.name] = reply.list[out.index]
    PROVE  LeftBy(reply, e)'
<1>1. /\ One' = One /\ RequestFor(One)' = RequestFor(One)
      /\ CanRewriteShape' = CanRewriteShape /\ available' = available
  BY CallFixed DEF One, RequestFor, call
<1>2. /\ Promised(RequestFor(One), reply)' = Promised(RequestFor(One), reply)
      /\ AnswerOne(RequestFor(One), available, reply, CanRewriteShape)'
            = AnswerOne(RequestFor(One), available, reply, CanRewriteShape)
  BY <1>1
<1>3. /\ out = Promised(RequestFor(One), reply)'
      /\ decision = AnswerOne(RequestFor(One), available, reply, CanRewriteShape)'.decision
  BY <1>2
<1>4. QED
  BY <1>1, <1>3 DEF LeftBy, WasRewritten

(* Nothing is milder than "allow".                                         *)
LEMMA WorseThanAllow ==
    \A d \in Decisions : WorseDecision("allow", d) = d
BY DEF WorseDecision, Rank, Decisions

(* A package that cannot be looked up.                                     *)
LEMMA UnavailableAsOne ==
    ASSUME IInv, AsOne, JudgeUnavailable
    PROVE  AsOne'
<1>1. PICK e : e = Evaluation("unavailable", NoVersion, NoVersion, FALSE)
  OBVIOUS
<1>2. PICK d : d = WorseDecision(overall, Unreachable(Pkg.name))
  OBVIOUS
<1>3. /\ AtPackage /\ ~available /\ Record(e, d) /\ UNCHANGED call
      /\ UNCHANGED <<selectedVersions, anyRewritten, unsupportedByCmd, available>>
      /\ overall' = d
  BY <1>1, <1>2 DEF JudgeUnavailable, Record
<1>4. e.kind = "unavailable"
  BY <1>1 DEF Evaluation
<1>5. ASSUME OneLine
      PROVE  NoReply \in Reply /\ LeftBy(NoReply, e)'
  <2>1. overall = "allow" /\ anyRewritten = FALSE /\ unsupportedByCmd = {} /\ Pkg = One
    BY <1>3, <1>5, CursorOnOne DEF Fresh, IInv, TypeOK
  <2>2. d = Unreachable(One.name)
    BY <1>2, <2>1, DecisionType, WorseThanAllow DEF Unreachable
  <2>3. AnswerOne(RequestFor(One), available, NoReply, CanRewriteShape).decision
           = Unreachable(One.name)
    BY <1>3 DEF AnswerOne, Unreachable, NoEvidence, RequestFor
  <2>4. NoReply \in Reply
    BY <1>3 DEF Reply
  <2>5. PICK out, decision :
           /\ out = Promised(RequestFor(One), NoReply)
           /\ decision
                 = AnswerOne(RequestFor(One), available, NoReply, CanRewriteShape).decision
    OBVIOUS
  <2>6. /\ UNCHANGED call /\ UNCHANGED available
        /\ e.kind = IF available THEN out.kind ELSE "unavailable"
        /\ unsupportedByCmd' = IF e.kind = "unsupported" THEN {1} ELSE {}
        /\ overall' = IF e.kind = "unsupported" THEN "allow" ELSE decision
        /\ anyRewritten' = (e.kind = "selected" /\ WasRewritten(out))
        /\ e.kind = "selected" => e.picked = NoReply.list[out.index]
        /\ anyRewritten' => ~One.pinned
        /\ e.kind = "selected" /\ ~One.pinned /\ CanRewriteShape =>
              selectedVersions'[One.name] = NoReply.list[out.index]
    BY <1>3, <1>4, <2>1, <2>2, <2>3, <2>5
  <2>7. QED
    BY <2>4, <2>5, <2>6, LeavesBy
<1>6. QED
  BY <1>3, <1>5, RecordAsOne

(* What Select found is the outcome of a reply.                            *)
LEMMA FoundAsOne ==
    ASSUME IInv, AsOne, pc = "selected", OneLine
    PROVE  /\ available
           /\ \E reply \in Reply : /\ Out = Promised(RequestFor(One), reply)
                                   /\ found.list = reply.list
<1>1. AtPackage /\ available
  BY DEF IInv, TypeOK
<1>2. Request = RequestFor(One)
  BY <1>1, CursorOnOne
<1>3. QED
  BY <1>1, <1>2 DEF IInv, TypeOK, Reply, Out

(* A source the provider does not cover, and a package that fails.         *)
LEMMA NothingAsOne ==
    ASSUME IInv, AsOne, PackageUnsupported \/ PackageFailed
    PROVE  AsOne'
<1>1. PICK e, d : /\ AtPackage /\ pc = "selected" /\ Record(e, d) /\ UNCHANGED call
                  /\ UNCHANGED <<selectedVersions, anyRewritten, available>>
                  /\ e.kind = Out.kind /\ overall' = d
                  /\ \/ /\ Out.kind = "unsupported" /\ d = overall
                        /\ unsupportedByCmd' = unsupportedByCmd \cup {c}
                     \/ Out.kind = "failed" /\ d = "deny" /\ UNCHANGED unsupportedByCmd
  <2>1. AtPackage
    BY DEF PackageUnsupported, PackageFailed, IInv, TypeOK
  <2>2. CASE PackageUnsupported
    <3>1. PICK e : e = Evaluation("unsupported", NoVersion, NoVersion, FALSE)
      OBVIOUS
    <3>2. e.kind = "unsupported"
      BY <3>1 DEF Evaluation
    <3>3. QED
      BY <2>1, <2>2, <3>1, <3>2 DEF PackageUnsupported, Record
  <2>3. CASE PackageFailed
    <3>1. PICK e : e = Evaluation("failed", NoVersion, NoVersion, FALSE)
      OBVIOUS
    <3>2. e.kind = "failed"
      BY <3>1 DEF Evaluation
    <3>3. QED
      BY <2>1, <2>3, <3>1, <3>2 DEF PackageFailed, Record
  <2>4. QED
    BY <2>2, <2>3
<1>2. PICK reply : OneLine => /\ reply \in Reply /\ Out = Promised(RequestFor(One), reply)
  BY <1>1, FoundAsOne
<1>3. ASSUME OneLine
      PROVE  LeftBy(reply, e)'
  <2>1. /\ overall = "allow" /\ anyRewritten = FALSE /\ unsupportedByCmd = {}
        /\ c = 1 /\ available
    BY <1>1, <1>3, CursorOnOne, FoundAsOne DEF Fresh, IInv, TypeOK
  <2>2. Out = Promised(RequestFor(One), reply)
    BY <1>2, <1>3
  <2>3. Out.kind = "failed" =>
           AnswerOne(RequestFor(One), available, reply, CanRewriteShape).decision = "deny"
    BY <2>1, <2>2 DEF AnswerOne
  <2>4. PICK out, decision :
           /\ out = Promised(RequestFor(One), reply)
           /\ decision
                 = AnswerOne(RequestFor(One), available, reply, CanRewriteShape).decision
    OBVIOUS
  <2>5. /\ UNCHANGED call /\ UNCHANGED available
        /\ e.kind = IF available THEN out.kind ELSE "unavailable"
        /\ unsupportedByCmd' = IF e.kind = "unsupported" THEN {1} ELSE {}
        /\ overall' = IF e.kind = "unsupported" THEN "allow" ELSE decision
        /\ anyRewritten' = (e.kind = "selected" /\ WasRewritten(out))
        /\ e.kind = "selected" => e.picked = reply.list[out.index]
        /\ anyRewritten' => ~One.pinned
        /\ e.kind = "selected" /\ ~One.pinned /\ CanRewriteShape =>
              selectedVersions'[One.name] = reply.list[out.index]
    BY <1>1, <2>1, <2>2, <2>3, <2>4
  <2>6. QED
    BY <2>4, <2>5, LeavesBy
<1>4. QED
  BY <1>1, <1>2, <1>3, RecordAsOne

(* A version that was selected, pinned or not.                             *)
LEMMA SelectedAsOne ==
    ASSUME IInv, AsOne, PackagePinned \/ PackageSelected
    PROVE  AsOne'
<1> DEFINE judged == WorseDecision(overall, Out.decision)
<1>1. PICK e, d :
         /\ AtPackage /\ pc = "selected" /\ Record(e, d) /\ UNCHANGED call
         /\ UNCHANGED <<unsupportedByCmd, available>>
         /\ e.kind = "selected" /\ Out.kind = "selected" /\ e.picked = Picked /\ overall' = d
         /\ d = IF WasRewritten(Out) /\ ~RewritesUnasked
                THEN WorseDecision(judged, "ask") ELSE judged
         /\ anyRewritten' = (anyRewritten \/ WasRewritten(Out))
         /\ Pkg.pinned => ~WasRewritten(Out)
         /\ ~Pkg.pinned /\ CanRewriteShape =>
               selectedVersions' = [selectedVersions EXCEPT ![Pkg.name] = Picked]
  <2>1. AtPackage /\ pc = "selected" /\ Out.kind = "selected"
    BY DEF PackagePinned, PackageSelected, IInv, TypeOK
  <2>2. /\ Pkg.pinned => ~WasRewritten(Out)
        /\ WasRewritten(Out) \in BOOLEAN /\ anyRewritten \in BOOLEAN
    BY <2>1, FoundType DEF WasRewritten, IInv, TypeOK
  <2>3. CASE PackagePinned
    <3>1. PICK e : e = Evaluation("selected", Picked, Picked, FALSE)
      OBVIOUS
    <3>2. e.kind = "selected" /\ e.picked = Picked
      BY <3>1 DEF Evaluation
    <3>3. /\ Record(e, judged) /\ Pkg.pinned /\ UNCHANGED <<unsupportedByCmd, anyRewritten>>
          /\ overall' = judged /\ UNCHANGED call /\ UNCHANGED available
      BY <2>3, <3>1 DEF PackagePinned, Record
    <3> HIDE DEF judged
    <3>4. QED
      BY <2>1, <2>2, <3>2, <3>3
  <2>4. CASE PackageSelected
    <3>1. PICK e : e = Evaluation("selected", Picked, found.list[1], WasRewritten(Out))
      OBVIOUS
    <3>2. e.kind = "selected" /\ e.picked = Picked
      BY <3>1 DEF Evaluation
    <3>3. PICK d : d = IF WasRewritten(Out) /\ ~RewritesUnasked
                       THEN WorseDecision(judged, "ask") ELSE judged
      OBVIOUS
    <3>4. /\ Record(e, d) /\ UNCHANGED unsupportedByCmd
          /\ overall' = d /\ UNCHANGED call /\ UNCHANGED available
          /\ anyRewritten' = (anyRewritten \/ WasRewritten(Out))
          /\ CanRewriteShape =>
                selectedVersions' = [selectedVersions EXCEPT ![Pkg.name] = Picked]
      BY <2>4, <3>1, <3>3 DEF PackageSelected, Record
    <3> HIDE DEF judged
    <3>5. QED
      BY <2>1, <2>2, <3>2, <3>3, <3>4
  <2>5. QED
    BY <2>3, <2>4
<1>2. PICK reply : OneLine => /\ reply \in Reply /\ Out = Promised(RequestFor(One), reply)
                              /\ found.list = reply.list
  BY <1>1, FoundAsOne
<1>3. ASSUME OneLine
      PROVE  LeftBy(reply, e)'
  <2>1. /\ overall = "allow" /\ ~anyRewritten /\ unsupportedByCmd = {} /\ Pkg = One
        /\ One.name \in Names /\ available /\ selectedVersions \in [Names -> VersionOrNone]
    BY <1>1, <1>3, CursorOnOne, FoundAsOne DEF Fresh, IInv, TypeOK
  <2>2. Out = Promised(RequestFor(One), reply) /\ Picked = reply.list[Out.index]
    BY <1>2, <1>3 DEF Picked
  <2>3. judged = Out.decision
    BY <1>1, <2>1, FoundType, WorseThanAllow DEF IInv
  <2>4. AnswerOne(RequestFor(One), available, reply, CanRewriteShape).decision = d
    <3>1. AnswerOne(RequestFor(One), available, reply, CanRewriteShape)
             = AnswerSelected(RequestFor(One), Out, CanRewriteShape)
      BY <1>1, <2>1, <2>2 DEF AnswerOne
    <3>2. RequestFor(One).cfg = cfg /\ RequestFor(One).mode = mode
      BY DEF RequestFor
    <3> HIDE DEF judged
    <3>3. QED
      BY <1>1, <2>3, <3>1, <3>2 DEF AnswerSelected, RewritesUnasked
  <2>5. ~One.pinned /\ CanRewriteShape => selectedVersions'[One.name] = Picked
    BY <1>1, <2>1
  <2> HIDE DEF judged
  <2>6. PICK out, decision :
           /\ out = Promised(RequestFor(One), reply)
           /\ decision
                 = AnswerOne(RequestFor(One), available, reply, CanRewriteShape).decision
    OBVIOUS
  <2>7. /\ UNCHANGED call /\ UNCHANGED available
        /\ e.kind = IF available THEN out.kind ELSE "unavailable"
        /\ unsupportedByCmd' = IF e.kind = "unsupported" THEN {1} ELSE {}
        /\ overall' = IF e.kind = "unsupported" THEN "allow" ELSE decision
        /\ anyRewritten' = (e.kind = "selected" /\ WasRewritten(out))
        /\ e.kind = "selected" => e.picked = reply.list[out.index]
        /\ anyRewritten' => ~One.pinned
        /\ e.kind = "selected" /\ ~One.pinned /\ CanRewriteShape =>
              selectedVersions'[One.name] = reply.list[out.index]
    BY <1>1, <2>1, <2>2, <2>4, <2>5, <2>6
  <2>8. QED
    BY <2>6, <2>7, LeavesBy
<1>4. QED
  BY <1>1, <1>2, <1>3, RecordAsOne

LEMMA StepAsOne == IInv /\ AsOne /\ [Next]_vars => AsOne'
<1> SUFFICES ASSUME IInv, AsOne, [Next]_vars
             PROVE  AsOne'
  OBVIOUS
<1>1. CASE Early \/ CheckProvider
  <2>1. /\ pc = "parse" /\ UNCHANGED call
        /\ UNCHANGED <<overall, packages, selectedVersions, anyRewritten, unsupportedByCmd>>
    BY <1>1 DEF Early, CheckProvider, AnswerEarly, RefuseUnparsed, DeferUnparsedYarn,
       PassThrough, DeferYarn, PassDisabled, DeferUV, judging
  <2>2. packages = {} /\ packages' = {} /\ OneLine' = OneLine
    BY <2>1, CallFixed DEF IInv, SoFar, OneLine
  <2>3. Fresh' = Fresh
    BY <2>1 DEF Fresh
  <2>4. QED
    BY <2>2, <2>3 DEF AsOne
<1>2. CASE NextCommand \/ Select \/ SelectFailed \/ Conclude \/ Log \/ UNCHANGED vars
  <2>1. UNCHANGED Gathered /\ ((c' = c /\ p' = p) \/ c' = c + 1)
    BY <1>2 DEF NextCommand, Select, SelectFailed, Conclude, Log, vars, judging, Gathered
  <2>2. QED
    BY <2>1, AsOneKept
<1>3. QED
  BY <1>1, <1>2, UnavailableAsOne, NothingAsOne, SelectedAsOne DEF Next, Local, Judge

(* A line with one package is answered as Session takes it to be, whatever *)
(* the line, the configuration, the mode and the provider's reply.         *)
THEOREM OneIsAnswered == Spec => []AnswersAsOne
<1>1. Init => AsOne
  BY DEF Init, AsOne, Fresh
<1>2. ASSUME IInv, AsOne
      PROVE  AnswersAsOne
  <2> SUFFICES ASSUME Evaluated, OneLine
               PROVE  LET r == RequestFor(Cmds[1].packages[1]) IN
                      \E reply \in IF available THEN Replies(r) ELSE {NoReply} :
                         LET answer == AnswerOne(r, available, reply, CanRewriteShape) IN
                         /\ result.decision = answer.decision
                         /\ result.rewritten = IF answer.install = 0 THEN <<>>
                                               ELSE <<reply.list[answer.install]>>
                         /\ \E e \in packages :
                               e.kind = "selected" =>
                                  LET out == Promised(r, reply) IN
                                  out.kind = "selected" /\ e.picked = reply.list[out.index]
    BY DEF AnswersAsOne, OneLine
  <2>1. /\ Enabled = {1} /\ DOMAIN Cmds[1].packages = 1..1 /\ One.name \in Names
    <3>1. DOMAIN Cmds = 1..1 /\ Enabled \subseteq DOMAIN Cmds /\ Enabled # {}
      BY <1>2, LineType DEF IInv, Evaluated, Guarded, OneLine
    <3>2. DOMAIN Cmds = {1}
      BY <3>1
    <3>3. QED
      BY <1>2, <3>1, <3>2, LineType DEF IInv, OneLine, One
  <2>2. packages # {}
    BY <1>2, <2>1, AtTheEnd
  <2>3. PICK reply \in Reply, e \in packages : LeftBy(reply, e)
    BY <1>2, <2>2 DEF AsOne
  <2>4. ~AnyNonLocal /\ (AnyUnsupportedSource <=> unsupportedByCmd # {})
    <3>1. Examined = {1} /\ unsupportedByCmd \subseteq {1}
      BY <1>2, <2>1 DEF Examined, OneLine, IInv, TypeOK
    <3>2. QED
      BY <2>1, <3>1 DEF AnyNonLocal, AnyUnsupportedSource, OneLine
  <2> DEFINE r == RequestFor(One)
             out == Promised(r, reply)
             answer == AnswerOne(r, available, reply, CanRewriteShape)
  <2>5. result = Verdict
    BY <1>2, AtTheEnd
  <2>6. /\ e.kind = IF available THEN out.kind ELSE "unavailable"
        /\ unsupportedByCmd = IF e.kind = "unsupported" THEN {1} ELSE {}
        /\ overall = IF e.kind = "unsupported" THEN "allow" ELSE answer.decision
        /\ anyRewritten = (e.kind = "selected" /\ WasRewritten(out))
        /\ e.kind = "selected" => e.picked = reply.list[out.index]
        /\ anyRewritten => ~One.pinned
        /\ e.kind = "selected" /\ ~One.pinned /\ CanRewriteShape =>
              selectedVersions[One.name] = reply.list[out.index]
    BY <2>3 DEF LeftBy
  <2>7. /\ e.kind = "unsupported" => answer.decision = "ask"
        /\ answer.install = IF anyRewritten /\ CanRewriteShape THEN out.index ELSE 0
    <3>1. CASE e.kind = "selected"
      <4>1. available /\ out.kind = "selected"
        BY <2>6, <3>1
      <4>2. answer = AnswerSelected(r, out, CanRewriteShape)
        BY <4>1 DEF AnswerOne
      <4> HIDE DEF answer, out, r
      <4>3. QED
        BY <2>6, <3>1, <4>2 DEF AnswerSelected
    <3>2. CASE e.kind # "selected"
      <4>1. e.kind \in Kinds
        BY <1>2, AtTheEnd
      <4>2. ~anyRewritten /\ (~available \/ out.kind \in {"unsupported", "failed"})
        <5> HIDE DEF out
        <5>1. ~available \/ out.kind \in {"unsupported", "failed", "unavailable"}
          BY <2>6, <3>2, <4>1 DEF Kinds
        <5>2. out.kind # "unavailable"
          BY DEF out, Promised, UnsupportedSource, SelectError, Failed, Selected, Best
        <5>3. QED
          BY <2>6, <3>2, <5>1, <5>2
      <4>3. answer.install = 0 /\ (out.kind = "unsupported" /\ available => answer.decision = "ask")
        <5> HIDE DEF out
        <5>1. QED
          BY <4>2 DEF AnswerOne, out
      <4>4. e.kind = "unsupported" => available /\ out.kind = "unsupported"
        BY <2>6
      <4> HIDE DEF answer, out, r
      <4>5. QED
        BY <4>2, <4>3, <4>4
    <3>3. QED
      BY <3>1, <3>2
  <2> HIDE DEF answer, out, r
  <2>8. result.decision = answer.decision
    <3>1. WorseDecision("allow", "ask") = "ask"
      BY DEF WorseDecision, Rank
    <3>2. QED
      BY <2>4, <2>5, <2>6, <2>7, <3>1 DEF Verdict
  <2>9. result.rewritten = IF answer.install = 0 THEN <<>> ELSE <<reply.list[answer.install]>>
    <3>1. CASE anyRewritten /\ CanRewriteShape
      <4>1. out.index > 1 /\ answer.install = out.index /\ ~AnyUnsupportedSource
        BY <2>4, <2>6, <2>7, <3>1 DEF WasRewritten
      <4>2. result.rewritten = [j \in 1..1 |-> selectedVersions[Cmds[1].packages[j].name]]
        BY <2>1, <2>5, <3>1, <4>1 DEF Verdict, Rewrite
      <4>3. selectedVersions[One.name] = reply.list[out.index]
        BY <2>6, <3>1
      <4>4. result.rewritten = <<reply.list[out.index]>>
        BY <4>2, <4>3 DEF One
      <4>5. QED
        BY <4>1, <4>4
    <3>2. CASE ~(anyRewritten /\ CanRewriteShape)
      BY <2>5, <2>7, <3>2 DEF Verdict
    <3>3. QED
      BY <3>1, <3>2
  <2>10. e.kind = "selected" => out.kind = "selected" /\ e.picked = reply.list[out.index]
    <3>1. e.kind = "selected" => available
      BY <2>6
    <3>2. QED
      BY <2>6, <3>1
  <2>11. QED
    BY <2>3, <2>8, <2>9, <2>10 DEF answer, out, r, One, Reply
<1>3. QED
  BY <1>1, <1>2, StepAsOne, Invariance, PTL DEF Spec

-----------------------------------------------------------------------------
(* The parser (CommandLine.ParseSpec).  A state of the parse is a stack of *)
(* calls.  What holds of a call depends on where it waits: a loop over     *)
(* segments or substitutions is no deeper than the limit, and a package    *)
(* manager's loop has accounted for each argument that it has taken        *)
(* (ReadInv).  ParseInv says this of every call on the stack, the          *)
(* innermost or not, and of the commands found that they are what the      *)
(* evaluator takes.  Nothing is assumed of the tokens, nor of what the two *)
(* heuristics answer.                                                      *)

Fields == {"phase", "pending", "packages", "unparsed", "nonLocal", "disq", "version"}

(* The phases of a package manager's loop. *)
Phases(pm) ==
    {"flags", "args", "nil"} \cup (IF pm = "yarn" THEN {"workspace", "global", "deferred"} ELSE {})

(* The state of a loop, whatever it has read.                              *)
LoopState(pm, s) ==
    /\ DOMAIN s = Fields
    /\ s.phase \in Phases(pm)
    /\ s.unparsed \in BOOLEAN /\ s.nonLocal \in BOOLEAN
    /\ s.disq \in BOOLEAN /\ s.version \in BOOLEAN
    /\ s.nonLocal => s.unparsed
    /\ s.disq => s.packages = <<>> /\ s.unparsed
    /\ s.disq => pm \notin {"npm", "pnpm", "go"}
    /\ s.unparsed => pm \notin {"npm", "pnpm"}
    /\ s.phase # "args" => s.packages = <<>> /\ ~s.version
    /\ s.phase = "deferred" => s.unparsed
    /\ s.phase # "flags" /\ pm = "go" => s.pending = ""

Pinning(pm) == IF pm \in {"yarn", "go"} THEN OneVersion ELSE AnyVersion
Package(pm, tok) == [name |-> tok.w, pinned |-> tok.cls \in Pinning(pm)]

(* A word that the parser of pm may list. *)
Listable(pm, tok) ==
    /\ ~IsFlag(tok)
    /\ pm \in {"yarn", "pip", "pip3"} => tok.cls \notin {"local", "remote"}
    /\ pm = "go" => tok.cls # "local"

(* What an iteration after the verb does to the state.                     *)
Adds(pm, s, tok, t) ==
    t.packages = Append(s.packages, Package(pm, tok)) /\ Listable(pm, tok)

(* A source is taken from the flag that names it, or from its value.       *)
TakesSource(pm, s, tok, t) ==
    MindsSources(pm) =>
    /\ Named(tok, SourceFlags(pm)) /\ s.pending = ""
          => t.disq \/ (pm # "yarn" /\ t.pending = tok.w)
    /\ Assigned(tok, SourceFlags(pm)) /\ tok.val # "" /\ s.pending = "" => t.disq
    /\ (Named(tok, SourceBooleans(pm)) \/ Assigned(tok, SourceBooleans(pm))) /\ s.pending = ""
          => t.disq
    /\ s.pending \in SourceFlags(pm) /\ pm # "yarn" /\ tok.w # "" => t.disq

TakesArgument(pm, s, tok, t) ==
    /\ t.phase = "args"
    /\ s.unparsed => t.unparsed
    /\ s.disq => t.disq
    /\ \/ t.packages = s.packages
       \/ t.packages = <<>> /\ t.unparsed
       \/ Adds(pm, s, tok, t)
    /\ ~IsFlag(tok) /\ s.pending = "" => t.unparsed \/ Adds(pm, s, tok, t)
    /\ t.pending # "" => /\ IsFlag(tok) /\ t.pending \in {tok.w, "maybe"}
                         /\ Named(tok, ArgumentValues(pm)) \/ t.disq
    /\ TakesSource(pm, s, tok, t)
    /\ t.version => \/ s.version
                    \/ pm = "cargo" /\ s.pending = "--version"
                    \/ pm = "cargo" /\ IsFlag(tok) /\ tok.w = "--version"

(* And before the verb.                                                    *)
TakesFlag(pm, s, tok, t) ==
    /\ t.phase = "flags" => IsFlag(tok) \/ s.pending # ""
    /\ s.pending = "" /\ ~IsFlag(tok) /\ tok.w \in Verbs(pm) => t.phase = "args"
    /\ t.phase = "args" => /\ ~IsFlag(tok) /\ tok.w \in Verbs(pm)
                           /\ t.pending = "" /\ t.packages = <<>> /\ ~t.version
    /\ t.pending # "" /\ t.phase = "flags" =>
           /\ IsFlag(tok) /\ t.pending \in {tok.w, "maybe"}
           /\ Named(tok, GlobalValues(pm)) \/ IsUnknown(pm, tok)

Takes(pm, s, tok, t) ==
    /\ LoopState(pm, t)
    /\ s.phase = "args" => TakesArgument(pm, s, tok, t)
    /\ s.phase = "flags" => TakesFlag(pm, s, tok, t)
    /\ s.phase \notin {"args", "flags"} => t.phase \notin {"args", "flags"}

(* A state by its fields. *)
Is(s, phase, pending, pkgs, unparsed, nonLocal, disq, version) ==
    /\ DOMAIN s = Fields
    /\ s.phase = phase /\ s.pending = pending /\ s.packages = pkgs
    /\ s.unparsed = unparsed /\ s.nonLocal = nonLocal /\ s.disq = disq
    /\ s.version = version

(* What the helpers of the loops do to the fields of a state.              *)
LEMMA HelperFields ==
    ASSUME NEW s, DOMAIN s = Fields, NEW x
    PROVE  /\ Is(Await(s, x), s.phase, x, s.packages, s.unparsed, s.nonLocal, s.disq, s.version)
           /\ Is(Enter(s, x), x, s.pending, s.packages, s.unparsed, s.nonLocal, s.disq, s.version)
           /\ Is(Proceed(s), s.phase, "", s.packages, s.unparsed, s.nonLocal, s.disq, s.version)
           /\ Is(Unread(s), s.phase, s.pending, s.packages, TRUE, s.nonLocal, s.disq, s.version)
           /\ Is(UnreadNonLocal(s), s.phase, s.pending, s.packages, TRUE, TRUE, s.disq, s.version)
           /\ Is(Disqualify(s), s.phase, s.pending, <<>>, TRUE, TRUE, TRUE, s.version)
<1>1. Is(Await(s, x), s.phase, x, s.packages, s.unparsed, s.nonLocal, s.disq, s.version)
  BY DEF Is, Fields, Await
<1>2. Is(Enter(s, x), x, s.pending, s.packages, s.unparsed, s.nonLocal, s.disq, s.version)
  BY DEF Is, Fields, Enter
<1>3. Is(Proceed(s), s.phase, "", s.packages, s.unparsed, s.nonLocal, s.disq, s.version)
  BY DEF Is, Fields, Proceed
<1>4. Is(Unread(s), s.phase, s.pending, s.packages, TRUE, s.nonLocal, s.disq, s.version)
  BY DEF Is, Fields, Unread
<1>5. Is(UnreadNonLocal(s), s.phase, s.pending, s.packages, TRUE, TRUE, s.disq, s.version)
  BY DEF Is, Fields, UnreadNonLocal
<1>6. Is(Disqualify(s), s.phase, s.pending, <<>>, TRUE, TRUE, TRUE, s.version)
  BY <1>5 DEF Is, Fields, Disqualify
<1>7. QED
  BY <1>1, <1>2, <1>3, <1>4, <1>5, <1>6

LEMMA ListFields ==
    ASSUME NEW s, DOMAIN s = Fields, NEW tok, NEW pm
    PROVE  Is(List(s, tok, Pinning(pm)), s.phase, s.pending, Append(s.packages, Package(pm, tok)),
              s.unparsed, s.nonLocal, s.disq, s.version)
BY DEF Is, Fields, List, Package

(* Nothing but the phase and the pending flag is another one. *)
Moves(s, t, phase, pending) ==
    Is(t, phase, pending, s.packages, s.unparsed, s.nonLocal, s.disq, s.version)

(* A flag with a value is the pending one.                                 *)
LEMMA AwaitIfMoves ==
    ASSUME NEW s, DOMAIN s = Fields, NEW tok, NEW values
    PROVE  /\ Named(tok, values) => Moves(s, AwaitIf(s, tok, values), s.phase, tok.w)
           /\ ~Named(tok, values) => Moves(s, AwaitIf(s, tok, values), s.phase, s.pending)
<1>1. CASE Named(tok, values)
  <2>1. AwaitIf(s, tok, values) = Await(s, tok.w)
    BY <1>1 DEF AwaitIf
  <2>2. QED
    BY <1>1, <2>1, HelperFields DEF Moves
<1>2. CASE ~Named(tok, values)
  BY <1>2 DEF AwaitIf, Moves, Is
<1>3. QED
  BY <1>1, <1>2

(* One iteration of go's loop, which keeps no flag pending after its verb. *)
LEMMA GoIteration ==
    ASSUME NEW s, NEW tok, LoopState("go", s)
    PROVE  Takes("go", s, tok, GoArgument(s, tok))
<1> PICK t : t = GoArgument(s, tok)
  OBVIOUS
<1> SUFFICES Takes("go", s, tok, t)
  OBVIOUS
<1>0. /\ DOMAIN s = Fields /\ s.phase \in {"flags", "args", "nil"}
  BY DEF LoopState, Phases
<1>1. CASE s.phase = "nil"
  <2>1. t = s
    BY <1>1 DEF GoArgument
  <2>2. QED
    BY <1>1, <2>1 DEF Takes, LoopState
<1>2. CASE s.phase = "flags"
  <2>1. CASE s.pending # ""
    <3>1. t = Proceed(s)
      BY <1>2, <2>1 DEF GoArgument
    <3>2. Is(t, s.phase, "", s.packages, s.unparsed, s.nonLocal, s.disq, s.version)
      BY <1>0, <3>1, HelperFields
    <3>3. QED
      BY <1>2, <2>1, <3>2 DEF Is, Takes, LoopState, TakesFlag
  <2>2. CASE s.pending = "" /\ IsFlag(tok)
    <3>1. t = AwaitIf(s, tok, {"-C"})
      BY <1>2, <2>2 DEF GoArgument
    <3>2. \/ Moves(s, t, s.phase, "")
          \/ Moves(s, t, s.phase, tok.w) /\ Named(tok, GlobalValues("go"))
      BY <1>0, <2>2, <3>1, AwaitIfMoves DEF GlobalValues
    <3>3. QED
      BY <1>2, <2>2, <3>2 DEF Is, Moves, Takes, LoopState, TakesFlag
  <2>3. CASE s.pending = "" /\ ~IsFlag(tok)
    <3>1. PICK ph \in {"args", "nil"} : t = Enter(s, ph) /\ (ph = "args" <=> tok.w \in Verbs("go"))
      BY <1>2, <2>3 DEF GoArgument, Verbs
    <3>2. Is(t, ph, s.pending, s.packages, s.unparsed, s.nonLocal, s.disq, s.version)
      BY <1>0, <3>1, HelperFields
    <3>3. QED
      BY <1>2, <2>3, <3>1, <3>2 DEF Is, Takes, LoopState, TakesFlag, Phases
  <2>4. QED
    BY <2>1, <2>2, <2>3
<1>3. CASE s.phase = "args"
  <2>1. CASE IsFlag(tok)
    <3>1. t = s
      BY <1>3, <2>1 DEF GoArgument
    <3>2. QED
      BY <1>3, <2>1, <3>1 DEF Takes, LoopState, TakesArgument, TakesSource, SourceFlags,
                              SourceBooleans, Named, Assigned
  <2>2. CASE ~IsFlag(tok) /\ tok.cls \in {"local", "range", "tag"}
    <3>1. t = Unread(s) \/ t = UnreadNonLocal(s)
      BY <1>3, <2>2 DEF GoArgument
    <3>2. PICK nl \in {s.nonLocal, TRUE} :
              Is(t, s.phase, s.pending, s.packages, TRUE, nl, s.disq, s.version)
      BY <1>0, <3>1, HelperFields
    <3>3. QED
      BY <1>3, <2>2, <3>2 DEF Is, Takes, LoopState, TakesArgument, TakesSource, SourceFlags,
                              SourceBooleans, Named, Assigned
  <2>3. CASE ~IsFlag(tok) /\ tok.cls \notin {"local", "range", "tag"}
    <3>1. t = List(s, tok, OneVersion)
      BY <1>3, <2>3 DEF GoArgument
    <3>l. t = List(s, tok, Pinning("go"))
      BY <3>1 DEF Pinning
    <3>2. Is(t, s.phase, s.pending, Append(s.packages, Package("go", tok)), s.unparsed, s.nonLocal,
             s.disq, s.version)
      BY <1>0, <3>l, ListFields
    <3>3. QED
      BY <1>3, <2>3, <3>2
         DEF Is, Takes, LoopState, TakesArgument, TakesSource, Adds, Listable, SourceFlags,
             SourceBooleans, Named, Assigned
  <2>4. QED
    BY <2>1, <2>2, <2>3
<1>4. QED
  BY <1>0, <1>1, <1>2, <1>3

(* One iteration of the loops of npm and pnpm.                             *)
LEMMA NodeIteration ==
    ASSUME NEW pm \in {"npm", "pnpm"}, NEW s, NEW tok, LoopState(pm, s),
           NEW globals, globals = GlobalValues(pm), NEW values, values = ArgumentValues(pm)
    PROVE  Takes(pm, s, tok, NodeArgument(globals, values, s, tok))
<1> PICK t : t = NodeArgument(globals, values, s, tok)
  OBVIOUS
<1> SUFFICES Takes(pm, s, tok, t)
  OBVIOUS
<1>0. /\ DOMAIN s = Fields /\ s.phase \in {"flags", "args", "nil"}
      /\ pm # "yarn" /\ pm # "go" /\ pm # "cargo" /\ pm # "pip" /\ pm # "pip3"
  BY DEF LoopState, Phases
<1>1. CASE s.phase = "nil"
  <2>1. t = s
    BY <1>1 DEF NodeArgument
  <2>2. QED
    BY <1>1, <2>1 DEF Takes, LoopState
<1>2. CASE s.phase # "nil" /\ s.pending # ""
  <2>1. t = Proceed(s)
    BY <1>2 DEF NodeArgument
  <2>2. Moves(s, t, s.phase, "")
    BY <1>0, <2>1, HelperFields DEF Moves
  <2>3. CASE s.phase = "flags"
    BY <1>0, <1>2, <2>2, <2>3 DEF Moves, Is, Takes, LoopState, TakesFlag
  <2>4. CASE s.phase = "args"
    BY <1>0, <1>2, <2>2, <2>4 DEF Moves, Is, Takes, LoopState, TakesArgument, TakesSource,
                                  MindsSources
  <2>5. QED
    BY <1>0, <1>2, <2>3, <2>4
<1>3. CASE s.phase = "flags" /\ s.pending = ""
  <2>1. CASE IsFlag(tok)
    <3>1. t = AwaitIf(s, tok, globals)
      BY <1>3, <2>1 DEF NodeArgument
    <3>2. \/ Moves(s, t, s.phase, "")
          \/ Moves(s, t, s.phase, tok.w) /\ Named(tok, GlobalValues(pm))
      BY <1>0, <1>3, <3>1, AwaitIfMoves
    <3>3. QED
      BY <1>0, <1>3, <2>1, <3>2 DEF Is, Moves, Takes, LoopState, TakesFlag
  <2>2. CASE ~IsFlag(tok)
    <3>1. PICK ph \in {"args", "nil"} : t = Enter(s, ph) /\ (ph = "args" <=> tok.w \in Verbs(pm))
      BY <1>3, <2>2 DEF NodeArgument, Verbs
    <3>2. Moves(s, t, ph, "")
      BY <1>0, <1>3, <3>1, HelperFields DEF Moves
    <3>3. QED
      BY <1>0, <1>3, <2>2, <3>1, <3>2 DEF Is, Moves, Takes, LoopState, TakesFlag, Phases
  <2>3. QED
    BY <2>1, <2>2
<1>4. CASE s.phase = "args" /\ s.pending = ""
  <2>0. ~MindsSources(pm)
    BY <1>0 DEF MindsSources
  <2>1. CASE IsFlag(tok)
    <3>1. t = AwaitIf(s, tok, values)
      BY <1>4, <2>1 DEF NodeArgument
    <3>2. \/ Moves(s, t, s.phase, "")
          \/ Moves(s, t, s.phase, tok.w) /\ Named(tok, ArgumentValues(pm))
      BY <1>0, <1>4, <3>1, AwaitIfMoves
    <3>3. QED
      BY <1>0, <1>4, <2>0, <2>1, <3>2
         DEF Is, Moves, Takes, LoopState, TakesArgument, TakesSource
  <2>2. CASE ~IsFlag(tok)
    <3>1. t = List(s, tok, AnyVersion)
      BY <1>4, <2>2 DEF NodeArgument
    <3>l. t = List(s, tok, Pinning(pm))
      BY <1>0, <3>1 DEF Pinning
    <3>2. Is(t, s.phase, s.pending, Append(s.packages, Package(pm, tok)), s.unparsed, s.nonLocal,
             s.disq, s.version)
      BY <1>0, <3>l, ListFields
    <3>3. QED
      BY <1>0, <1>4, <2>0, <2>2, <3>2
         DEF Is, Takes, LoopState, TakesArgument, TakesSource, Adds, Listable
  <2>3. QED
    BY <2>1, <2>2
<1>5. QED
  BY <1>0, <1>1, <1>2, <1>3, <1>4

(* Nothing may be judged any more. *)
Closes(s, t, pending) ==
    Is(t, s.phase, pending, <<>>, TRUE, TRUE, TRUE, s.version)

(* The value of a flag of pip: what names a source closes the list.        *)
LEMMA PipTakesMoves ==
    ASSUME NEW s, NEW flag, NEW blank, DOMAIN s = Fields, s.phase \in {"flags", "args"}
    PROVE  LET t == PipTakes(s, flag, blank) IN
           /\ Closes(s, t, s.pending) \/ Moves(s, t, s.phase, s.pending)
              \/ Is(t, s.phase, s.pending, s.packages, TRUE, TRUE, s.disq, s.version)
           /\ flag \in PipSources \/ (flag \in PipLinks /\ ~blank) => Closes(s, t, s.pending)
<1> PICK t : t = PipTakes(s, flag, blank)
  OBVIOUS
<1> PICK r : r = IF flag \in PipSources \/ (flag \in PipLinks /\ ~blank) THEN Disqualify(s) ELSE s
  OBVIOUS
<1>1. t = r \/ t = UnreadNonLocal(r)
  BY DEF PipTakes
<1> DEFINE named == flag \in PipSources \/ (flag \in PipLinks /\ ~blank)
<1>2. Closes(s, r, s.pending) \/ (~named /\ r = s)
  BY HelperFields DEF Closes
<1>3. CASE Closes(s, r, s.pending)
  <2>1. Closes(s, t, s.pending)
    <3>1. CASE t = r
      BY <1>3, <3>1
    <3>2. CASE t = UnreadNonLocal(r)
      <4>1. DOMAIN r = Fields
        BY <1>3 DEF Closes, Is
      <4>2. Is(t, r.phase, r.pending, r.packages, TRUE, TRUE, r.disq, r.version)
        BY <3>2, <4>1, HelperFields
      <4>3. QED
        BY <1>3, <4>2 DEF Closes, Is
    <3>3. QED
      BY <1>1, <3>1, <3>2
  <2>2. QED
    BY <2>1
<1>4. CASE ~named /\ r = s
  <2>1. CASE t = s
    BY <1>4, <2>1 DEF Moves, Is
  <2>2. CASE t = UnreadNonLocal(s)
    BY <1>4, <2>2, HelperFields
  <2>3. QED
    BY <1>1, <1>4, <2>1, <2>2
<1>5. QED
  BY <1>2, <1>3, <1>4

(* A flag of pip: one that names a source either has its value attached    *)
(* and closes the list, or waits for it.                                   *)
LEMMA PipFlagMoves ==
    ASSUME NEW s, NEW tok, DOMAIN s = Fields, s.phase \in {"flags", "args"}, IsFlag(tok),
           s.pending = ""
    PROVE  LET t == PipFlag(s, tok) IN
           /\ \/ Closes(s, t, "") \/ Moves(s, t, s.phase, "")
              \/ Moves(s, t, s.phase, tok.w) /\ Named(tok, PipValues)
              \/ /\ Closes(s, t, "maybe") /\ tok.kind = "long" /\ tok.val = NoVal
                 /\ tok.w \notin PipBooleans \cup PipNonLocalBooleans /\ s.phase = "flags"
              \/ Is(t, s.phase, "", s.packages, TRUE, TRUE, s.disq, s.version)
           /\ Named(tok, PipSources \cup PipLinks) => Moves(s, t, s.phase, tok.w)
           /\ Assigned(tok, PipSources \cup PipLinks) /\ tok.val # "" => Closes(s, t, "")
           /\ Named(tok, {"--no-index"}) \/ Assigned(tok, {"--no-index"}) => Closes(s, t, "")
<1> PICK t : t = PipFlag(s, tok)
  OBVIOUS
<1> DEFINE is(flags) == Named(tok, flags) \/ Assigned(tok, flags)
<1> DEFINE Sources == PipSources \cup PipLinks
<1>0. /\ Named(tok, Sources) =>
              /\ Named(tok, PipValues) /\ ~Assigned(tok, PipValues)
              /\ ~is(PipBooleans) /\ ~is(PipNonLocalBooleans)
      /\ Assigned(tok, Sources) =>
              Assigned(tok, PipValues) /\ ~is(PipBooleans) /\ ~is(PipNonLocalBooleans)
      /\ Assigned(tok, PipValues) => ~Named(tok, Sources)
      /\ is({"--no-index"}) => is(PipNonLocalBooleans) /\ ~is(PipBooleans) /\ ~is(PipValues)
  BY DEF Named, Assigned, PipSources, PipLinks, PipValues, PipBooleans, PipNonLocalBooleans
<1>d. /\ is(PipBooleans) => ~is(PipNonLocalBooleans) /\ ~is(PipValues)
      /\ is(PipNonLocalBooleans) => ~is(PipValues)
      /\ Named(tok, PipValues) => ~Assigned(tok, PipValues)
  BY DEF Named, Assigned, PipValues, PipBooleans, PipNonLocalBooleans
<1>1. CASE is(PipBooleans)
  <2>1. t = s
    BY <1>1, <1>d DEF PipFlag
  <2>2. QED
    BY <1>0, <1>1, <2>1 DEF Moves, Is
<1>2. CASE ~is(PipBooleans) /\ is(PipNonLocalBooleans)
  <2>1. t = Disqualify(s)
    BY <1>2, <1>d DEF PipFlag
  <2>2. Closes(s, t, s.pending)
    BY <2>1, HelperFields DEF Closes
  <2>3. QED
    BY <1>0, <1>2, <2>2
<1>3. CASE ~is(PipBooleans) /\ ~is(PipNonLocalBooleans) /\ Assigned(tok, PipValues)
  <2>1. t = PipTakes(s, tok.w, tok.val = "")
    BY <1>3, <1>d DEF PipFlag
  <2>2. Assigned(tok, Sources) => tok.w \in PipSources \/ tok.w \in PipLinks
    BY DEF Assigned
  <2>3. QED
    <3>1. PICK b : b = (tok.val = "")
      OBVIOUS
    <3>2. t = PipTakes(s, tok.w, b)
      BY <2>1, <3>1
    <3>3. /\ Closes(s, t, s.pending) \/ Moves(s, t, s.phase, s.pending)
             \/ Is(t, s.phase, s.pending, s.packages, TRUE, TRUE, s.disq, s.version)
          /\ tok.w \in PipSources \/ (tok.w \in PipLinks /\ ~b) => Closes(s, t, s.pending)
      BY <3>2, PipTakesMoves
    <3>4. QED
      BY <1>0, <1>3, <2>2, <3>1, <3>3
<1>4. CASE /\ ~is(PipBooleans) /\ ~is(PipNonLocalBooleans)
          /\ ~Assigned(tok, PipValues) /\ Named(tok, PipValues)
  <2>1. t = Await(s, tok.w)
    BY <1>4 DEF PipFlag
  <2>2. Moves(s, t, s.phase, tok.w)
    BY <2>1, HelperFields DEF Moves
  <2>3. QED
    BY <1>0, <1>4, <2>2
<1>5. CASE /\ ~is(PipBooleans) /\ ~is(PipNonLocalBooleans)
          /\ ~Assigned(tok, PipValues) /\ ~Named(tok, PipValues)
  <2>1. t = PipUnknown(s, tok)
    BY <1>5 DEF PipFlag
  <2>2. \/ t = s
        \/ t = Disqualify(s)
        \/ /\ t = Await(Disqualify(s), "maybe")
           /\ tok.kind = "long" /\ tok.val = NoVal /\ s.phase = "flags"
    BY <2>1 DEF PipUnknown
  <2>n. tok.val = NoVal => tok.w \notin PipBooleans \cup PipNonLocalBooleans
    BY <1>5 DEF Named
  <2>s. /\ ~Named(tok, Sources) /\ ~Assigned(tok, Sources)
        /\ ~Named(tok, {"--no-index"}) /\ ~Assigned(tok, {"--no-index"})
    BY <1>0, <1>5
  <2> HIDE DEF is
  <2>3. CASE t = s
    BY <2>s, <2>3 DEF Moves, Is
  <2>4. CASE t = Disqualify(s)
    <3>1. Closes(s, t, s.pending)
      BY <2>4, HelperFields DEF Closes
    <3>2. QED
      BY <2>s, <3>1
  <2>5. CASE /\ t = Await(Disqualify(s), "maybe")
             /\ tok.kind = "long" /\ tok.val = NoVal /\ s.phase = "flags"
    <3>1. PICK r : r = Disqualify(s)
      OBVIOUS
    <3>2. Closes(s, r, s.pending)
      BY <3>1, HelperFields DEF Closes
    <3>3. t = Await(r, "maybe")
      BY <2>5, <3>1
    <3>r. DOMAIN r = Fields
      BY <3>2 DEF Closes, Is
    <3>a. Is(t, r.phase, "maybe", r.packages, r.unparsed, r.nonLocal, r.disq, r.version)
      BY <3>3, <3>r, HelperFields
    <3>4. Closes(s, t, "maybe")
      BY <3>2, <3>a DEF Closes, Is
    <3>5. QED
      BY <2>5, <2>n, <2>s, <3>4
  <2>6. QED
    BY <2>2, <2>3, <2>4, <2>5
<1>6. QED
  BY <1>1, <1>2, <1>3, <1>4, <1>5

(* One iteration of pip's loop.                                            *)
LEMMA PipIteration ==
    ASSUME NEW pm \in {"pip", "pip3"}, NEW s, NEW tok, LoopState(pm, s)
    PROVE  Takes(pm, s, tok, PipArgument(s, tok))
<1> PICK t : t = PipArgument(s, tok)
  OBVIOUS
<1> PICK r : r = Proceed(s)
  OBVIOUS
<1> SUFFICES Takes(pm, s, tok, t)
  OBVIOUS
<1>0. /\ DOMAIN s = Fields /\ s.phase \in {"flags", "args", "nil"}
      /\ pm # "yarn" /\ pm # "go" /\ pm # "cargo"
  BY DEF LoopState, Phases
<1>r. Moves(s, r, s.phase, "")
  BY <1>0, HelperFields DEF Moves
<1> DEFINE Sources == PipSources \cup PipLinks
<1>s. /\ SourceFlags(pm) = Sources /\ "maybe" \notin Sources /\ "" \notin Sources
      /\ SourceBooleans(pm) = {"--no-index"}
      /\ ArgumentValues(pm) = PipValues /\ GlobalValues(pm) = PipValues
      /\ IsUnknown(pm, tok) <=> /\ tok.kind = "long" /\ tok.val = NoVal
                                /\ tok.w \notin PipBooleans \cup PipNonLocalBooleans
  BY DEF SourceFlags, SourceBooleans, PipSources, PipLinks, ArgumentValues, GlobalValues, IsUnknown
<1> DEFINE awaited == s.pending # "" /\ ~(s.pending = "maybe" /\ (IsFlag(tok) \/ tok.w = "install"))
<1>1. CASE s.phase = "nil"
  <2>1. t = s
    BY <1>1 DEF PipArgument
  <2>2. QED
    BY <1>1, <2>1 DEF Takes, LoopState
<1>2. CASE s.phase # "nil" /\ awaited
  <2>1. t = IF s.pending = "maybe" THEN r ELSE PipTakes(r, s.pending, tok.w = "")
    BY <1>2 DEF PipArgument
  <2>2. /\ \/ Closes(r, t, r.pending) \/ Moves(r, t, r.phase, r.pending)
           \/ Is(t, r.phase, r.pending, r.packages, TRUE, TRUE, r.disq, r.version)
        /\ s.pending \in Sources /\ tok.w # "" => Closes(r, t, r.pending)
    <3>1. CASE s.pending = "maybe"
      BY <1>r, <1>s, <2>1, <3>1 DEF Moves, Is
    <3>2. CASE s.pending # "maybe"
      <4>1. t = PipTakes(r, s.pending, tok.w = "")
        BY <2>1, <3>2
      <4>2. DOMAIN r = Fields /\ r.phase \in {"flags", "args"}
        BY <1>0, <1>r, <1>2 DEF Moves, Is
      <4>3. QED
        <5>1. PICK b : b = (tok.w = "")
          OBVIOUS
        <5>2. t = PipTakes(r, s.pending, b)
          BY <4>1, <5>1
        <5>3. /\ \/ Closes(r, t, r.pending) \/ Moves(r, t, r.phase, r.pending)
                 \/ Is(t, r.phase, r.pending, r.packages, TRUE, TRUE, r.disq, r.version)
              /\ s.pending \in PipSources \/ (s.pending \in PipLinks /\ ~b) =>
                     Closes(r, t, r.pending)
          BY <4>2, <5>2, PipTakesMoves
        <5>4. QED
          BY <5>1, <5>3
    <3>3. QED
      BY <3>1, <3>2
  <2>3. /\ \/ Closes(s, t, "") \/ Moves(s, t, s.phase, "")
           \/ Is(t, s.phase, "", s.packages, TRUE, TRUE, s.disq, s.version)
        /\ s.pending \in Sources /\ tok.w # "" => Closes(s, t, "")
    BY <1>r, <2>2 DEF Moves, Closes, Is
  <2>4. CASE s.phase = "flags"
    BY <1>0, <1>2, <2>3, <2>4 DEF Moves, Closes, Is, Takes, LoopState, TakesFlag
  <2>5. CASE s.phase = "args"
    <3>1. LoopState(pm, t) /\ t.phase = "args"
      BY <1>0, <1>2, <2>3, <2>5 DEF Moves, Closes, Is, LoopState
    <3>2. TakesArgument(pm, s, tok, t)
      <4>1. s.pending # ""
        BY <1>2
      <4> HIDE DEF awaited, Sources
      <4>2. QED
        BY <1>0, <1>s, <2>3, <2>5, <4>1
           DEF Moves, Closes, Is, TakesArgument, TakesSource, LoopState
    <3>3. QED
      BY <2>5, <3>1, <3>2 DEF Takes
  <2>6. QED
    BY <1>0, <1>2, <2>4, <2>5
<1>3. CASE s.phase # "nil" /\ ~awaited /\ IsFlag(tok)
  <2>1. t = PipFlag(r, tok)
    BY <1>3 DEF PipArgument
  <2>0. DOMAIN r = Fields /\ r.phase \in {"flags", "args"} /\ r.pending = ""
    BY <1>0, <1>r, <1>3 DEF Moves, Is
  <2>2. /\ \/ Closes(r, t, "") \/ Moves(r, t, r.phase, "")
           \/ Moves(r, t, r.phase, tok.w) /\ Named(tok, PipValues)
           \/ /\ Closes(r, t, "maybe") /\ tok.kind = "long" /\ tok.val = NoVal
              /\ tok.w \notin PipBooleans \cup PipNonLocalBooleans /\ r.phase = "flags"
           \/ Is(t, r.phase, "", r.packages, TRUE, TRUE, r.disq, r.version)
        /\ Named(tok, Sources) => Moves(r, t, r.phase, tok.w)
        /\ Assigned(tok, Sources) /\ tok.val # "" => Closes(r, t, "")
        /\ Named(tok, {"--no-index"}) \/ Assigned(tok, {"--no-index"}) => Closes(r, t, "")
    BY <1>3, <2>1, <2>0, PipFlagMoves
  <2> HIDE DEF Sources
  <2>3. /\ \/ Closes(s, t, "") \/ Moves(s, t, s.phase, "")
           \/ Moves(s, t, s.phase, tok.w) /\ Named(tok, PipValues)
           \/ Closes(s, t, "maybe") /\ IsUnknown(pm, tok) /\ s.phase = "flags"
           \/ Is(t, s.phase, "", s.packages, TRUE, TRUE, s.disq, s.version)
        /\ Named(tok, Sources) => Moves(s, t, s.phase, tok.w)
        /\ Assigned(tok, Sources) /\ tok.val # "" => Closes(s, t, "")
        /\ Named(tok, {"--no-index"}) \/ Assigned(tok, {"--no-index"}) => Closes(s, t, "")
    BY <1>r, <1>s, <2>2 DEF Moves, Closes, Is
  <2>p. s.pending \notin Sources
    BY <1>s, <1>3
  <2> HIDE DEF awaited
  <2>4. CASE s.phase = "flags"
    BY <1>0, <1>s, <1>3, <2>3, <2>4 DEF Moves, Closes, Is, Takes, LoopState, TakesFlag
  <2>5. CASE s.phase = "args"
    <3>1. LoopState(pm, t) /\ t.phase = "args"
      BY <1>0, <1>3, <2>3, <2>5 DEF Moves, Closes, Is, LoopState
    <3>2. TakesArgument(pm, s, tok, t)
      BY <1>0, <1>s, <1>3, <2>p, <2>3, <2>5
         DEF Moves, Closes, Is, TakesArgument, TakesSource, LoopState
    <3>3. QED
      BY <2>5, <3>1, <3>2 DEF Takes
  <2>6. QED
    BY <1>0, <1>3, <2>4, <2>5
<1>4. CASE s.phase = "flags" /\ ~awaited /\ ~IsFlag(tok)
  <2>1. PICK ph \in {"args", "nil"} : t = Enter(r, ph) /\ (ph = "args" <=> tok.w \in Verbs(pm))
    BY <1>4 DEF PipArgument, Verbs
  <2>2. Moves(s, t, ph, "")
    <3>1. DOMAIN r = Fields
      BY <1>r DEF Moves, Is
    <3>2. Moves(r, t, ph, r.pending)
      BY <2>1, <3>1, HelperFields DEF Moves
    <3>3. QED
      BY <1>r, <3>2 DEF Moves, Is
  <2>3. QED
    BY <1>0, <1>4, <2>1, <2>2 DEF Is, Moves, Takes, LoopState, TakesFlag, Phases
<1>5. CASE s.phase = "args" /\ ~awaited /\ ~IsFlag(tok)
  <2>1. t = PipRequirement(r, tok)
    BY <1>5 DEF PipArgument
  <2>2. \/ t = Unread(r) \/ t = UnreadNonLocal(r)
        \/ ~r.disq /\ t = List(r, tok, Pinning(pm)) /\ tok.cls \notin {"local", "remote"}
    BY <1>0, <2>1 DEF PipRequirement, Pinning
  <2>p. /\ s.pending \notin Sources /\ ~Named(tok, Sources) /\ ~Assigned(tok, Sources)
        /\ ~Named(tok, {"--no-index"}) /\ ~Assigned(tok, {"--no-index"})
    BY <1>s, <1>5 DEF Named, Assigned, IsFlag
  <2> HIDE DEF Sources
  <2>3. CASE t = Unread(r) \/ t = UnreadNonLocal(r)
    <3>1. PICK nl \in {s.nonLocal, TRUE} :
              Is(t, s.phase, "", s.packages, TRUE, nl, s.disq, s.version)
      <4>1. DOMAIN r = Fields
        BY <1>r DEF Moves, Is
      <4>2. Is(t, r.phase, r.pending, r.packages, TRUE, r.nonLocal, r.disq, r.version)
            \/ Is(t, r.phase, r.pending, r.packages, TRUE, TRUE, r.disq, r.version)
        BY <2>3, <4>1, HelperFields
      <4>3. QED
        BY <1>r, <4>2 DEF Moves, Is
    <3>2. QED
      BY <1>0, <1>s, <1>5, <2>p, <3>1 DEF Is, Takes, LoopState, TakesArgument, TakesSource
  <2>4. CASE ~r.disq /\ t = List(r, tok, Pinning(pm)) /\ tok.cls \notin {"local", "remote"}
    <3>1. Is(t, s.phase, "", Append(s.packages, Package(pm, tok)), s.unparsed, s.nonLocal, s.disq,
             s.version) /\ ~s.disq
      <4>1. DOMAIN r = Fields
        BY <1>r DEF Moves, Is
      <4>2. Is(t, r.phase, r.pending, Append(r.packages, Package(pm, tok)), r.unparsed, r.nonLocal,
               r.disq, r.version)
        BY <2>4, <4>1, ListFields
      <4>3. QED
        BY <1>r, <2>4, <4>2 DEF Moves, Is
    <3>2. QED
      BY <1>0, <1>s, <1>5, <2>p, <2>4, <3>1
         DEF Is, Takes, LoopState, TakesArgument, TakesSource, Adds, Listable
  <2>5. QED
    BY <2>2, <2>3, <2>4
<1>6. QED
  BY <1>0, <1>1, <1>2, <1>3, <1>4, <1>5

(* A flag of yarn: one that names a source closes the list at once.        *)
LEMMA YarnFlagMoves ==
    ASSUME NEW s, NEW tok, DOMAIN s = Fields, IsFlag(tok), s.pending = ""
    PROVE  LET t == YarnFlag(s, tok) IN
           /\ \/ Closes(s, t, "") \/ Moves(s, t, s.phase, "")
              \/ (Closes(s, t, tok.w) \/ Moves(s, t, s.phase, tok.w))
                 /\ Named(tok, YarnValues \cup YarnSources)
              \/ Closes(s, t, "maybe") /\ IsUnknown("yarn", tok)
           /\ Named(tok, YarnSources) => Closes(s, t, tok.w)
           /\ Assigned(tok, YarnSources) => Closes(s, t, "")
<1> PICK t : t = YarnFlag(s, tok)
  OBVIOUS
<1> DEFINE known == \/ Assigned(tok, YarnValues \cup YarnBooleans \cup YarnCaches)
                    \/ Named(tok, YarnBooleans)
           unknown == tok.kind = "long" /\ tok.val = NoVal
                      /\ tok.w \notin YarnSources \cup YarnValues \cup YarnBooleans \cup YarnCaches
<1>0. /\ Named(tok, YarnSources) => ~Assigned(tok, YarnSources) /\ ~Named(tok, YarnValues)
                                    /\ ~known /\ ~unknown
      /\ Named(tok, YarnValues) => ~Assigned(tok, YarnSources) /\ ~known /\ ~unknown
      /\ known => ~Assigned(tok, YarnSources) /\ ~unknown
      /\ unknown => ~Assigned(tok, YarnSources)
  BY DEF Named, Assigned, YarnSources, YarnValues, YarnBooleans, YarnCaches
<1>1. PICK r : r = Disqualify(s)
  OBVIOUS
<1>2. Closes(s, r, s.pending)
  BY <1>1, HelperFields DEF Closes
<1>3. ASSUME NEW x PROVE Closes(s, Await(r, x), x)
  <2>1. DOMAIN r = Fields
    BY <1>2 DEF Closes, Is
  <2>2. Is(Await(r, x), r.phase, x, r.packages, r.unparsed, r.nonLocal, r.disq, r.version)
    BY <2>1, HelperFields
  <2>3. QED
    BY <1>2, <2>2 DEF Closes, Is
<1>v. /\ Named(tok, YarnSources) \/ Named(tok, YarnValues) => Named(tok, YarnValues \cup YarnSources)
      /\ unknown => IsUnknown("yarn", tok)
  BY DEF Named, IsUnknown
<1>4. CASE Named(tok, YarnSources)
  <2>1. t = Await(r, tok.w)
    BY <1>0, <1>1, <1>4 DEF YarnFlag
  <2>2. QED
    BY <1>0, <1>v, <1>3, <1>4, <2>1
<1>5. CASE Named(tok, YarnValues)
  <2>1. t = Await(s, tok.w)
    BY <1>0, <1>5 DEF YarnFlag
  <2>2. Moves(s, t, s.phase, tok.w)
    BY <2>1, HelperFields DEF Moves
  <2>3. QED
    BY <1>0, <1>v, <1>5, <2>2
<1>6. CASE known
  <2>1. t = s
    BY <1>0, <1>6 DEF YarnFlag
  <2>2. QED
    BY <1>0, <1>6, <2>1 DEF Moves, Is
<1>7. CASE unknown
  <2>1. t = Await(r, "maybe")
    BY <1>0, <1>1, <1>7 DEF YarnFlag
  <2>2. QED
    BY <1>0, <1>v, <1>3, <1>7, <2>1
<1>8. CASE ~Named(tok, YarnSources) /\ ~Named(tok, YarnValues) /\ ~known /\ ~unknown
  <2>1. t = r
    BY <1>1, <1>8 DEF YarnFlag
  <2>2. QED
    BY <1>2, <1>8, <2>1
<1>9. QED
  BY <1>4, <1>5, <1>6, <1>7, <1>8

(* The verbs of yarn: after those of a workspace nothing is read.          *)
LEMMA YarnActionMoves ==
    ASSUME NEW s, NEW tok, DOMAIN s = Fields, s.phase \in {"flags", "global"}
    PROVE  LET t == YarnAction(s, tok) IN
           \/ Moves(s, t, "args", s.pending) /\ s.phase = "flags" /\ tok.w = "add"
           \/ \E ph \in {"workspace", "global", "nil"} : Moves(s, t, ph, s.pending)
           \/ Is(t, "deferred", s.pending, s.packages, TRUE, TRUE, s.disq, s.version)
<1> PICK t : t = YarnAction(s, tok)
  OBVIOUS
<1>1. CASE tok.w = "add" /\ s.phase = "global"
  <2>1. PICK r : r = UnreadNonLocal(s)
    OBVIOUS
  <2>2. t = Enter(r, "deferred")
    BY <1>1, <2>1 DEF YarnAction
  <2>3. Is(r, s.phase, s.pending, s.packages, TRUE, TRUE, s.disq, s.version)
    BY <2>1, HelperFields
  <2>4. DOMAIN r = Fields
    BY <2>3 DEF Is
  <2>5. Is(t, "deferred", r.pending, r.packages, r.unparsed, r.nonLocal, r.disq, r.version)
    BY <2>2, <2>4, HelperFields
  <2>6. QED
    BY <2>3, <2>5 DEF Is
<1>2. CASE ~(tok.w = "add" /\ s.phase = "global")
  <2>1. PICK ph \in {"args", "workspace", "global", "nil"} :
            t = Enter(s, ph) /\ (ph = "args" => s.phase = "flags" /\ tok.w = "add")
    BY <1>2 DEF YarnAction
  <2>2. Moves(s, t, ph, s.pending)
    BY <2>1, HelperFields DEF Moves
  <2>3. QED
    BY <2>1, <2>2
<1>3. QED
  BY <1>1, <1>2

(* One iteration of yarn's loop.                                           *)
LEMMA YarnIteration ==
    ASSUME NEW s, NEW tok, LoopState("yarn", s)
    PROVE  Takes("yarn", s, tok, YarnArgument(s, tok))
<1> PICK t : t = YarnArgument(s, tok)
  OBVIOUS
<1> PICK r : r = Proceed(s)
  OBVIOUS
<1> SUFFICES Takes("yarn", s, tok, t)
  OBVIOUS
<1>0. /\ DOMAIN s = Fields
      /\ s.phase \in {"flags", "args", "nil", "workspace", "global", "deferred"}
  BY DEF LoopState, Phases
<1>r. Moves(s, r, s.phase, "") /\ DOMAIN r = Fields /\ r.phase = s.phase /\ r.pending = ""
  BY <1>0, HelperFields DEF Moves, Is
<1>s. /\ SourceFlags("yarn") = YarnSources /\ Verbs("yarn") = {"add"}
      /\ SourceBooleans("yarn") = {} /\ ~Named(tok, {}) /\ ~Assigned(tok, {})
      /\ ArgumentValues("yarn") = YarnValues \cup YarnSources
      /\ GlobalValues("yarn") = YarnValues \cup YarnSources
  BY DEF SourceFlags, SourceBooleans, Verbs, ArgumentValues, GlobalValues, Named, Assigned
<1> DEFINE stops == s.phase = "flags" /\ tok.w \in YarnStops
           awaited == s.pending # "" /\ ~(s.pending = "maybe" /\ (IsFlag(tok) \/ stops))
<1>1. CASE s.phase \in {"nil", "deferred"}
  <2>1. t = s
    BY <1>1 DEF YarnArgument
  <2>2. QED
    BY <1>1, <2>1 DEF Takes, LoopState
<1>2. CASE s.phase = "workspace"
  <2>1. t = Enter(s, "global")
    BY <1>2 DEF YarnArgument
  <2>2. Moves(s, t, "global", s.pending)
    BY <1>0, <2>1, HelperFields DEF Moves
  <2>3. QED
    BY <1>2, <2>2 DEF Is, Moves, Takes, LoopState, Phases
<1>3. CASE s.phase = "global"
  <2>1. t = YarnAction(s, tok)
    BY <1>3 DEF YarnArgument
  <2>2. \/ \E ph \in {"workspace", "global", "nil"} : Moves(s, t, ph, s.pending)
        \/ Is(t, "deferred", s.pending, s.packages, TRUE, TRUE, s.disq, s.version)
    BY <1>0, <1>3, <2>1, YarnActionMoves
  <2>3. QED
    BY <1>3, <2>2 DEF Is, Moves, Takes, LoopState, Phases
<1>4. CASE s.phase \in {"flags", "args"} /\ awaited
  <2>1. t = r
    BY <1>4 DEF YarnArgument
  <2>2. CASE s.phase = "flags"
    BY <1>r, <1>4, <2>1, <2>2 DEF Is, Moves, Takes, LoopState, TakesFlag
  <2>3. CASE s.phase = "args"
    BY <1>r, <1>s, <1>4, <2>1, <2>3 DEF Is, Moves, Takes, LoopState, TakesArgument, TakesSource
  <2>4. QED
    BY <1>4, <2>2, <2>3
<1>5. CASE s.phase \in {"flags", "args"} /\ ~awaited /\ IsFlag(tok)
  <2>1. t = YarnFlag(r, tok)
    BY <1>5 DEF YarnArgument
  <2>2. /\ \/ Closes(r, t, "") \/ Moves(r, t, r.phase, "")
           \/ (Closes(r, t, tok.w) \/ Moves(r, t, r.phase, tok.w))
              /\ Named(tok, YarnValues \cup YarnSources)
           \/ Closes(r, t, "maybe") /\ IsUnknown("yarn", tok)
        /\ Named(tok, YarnSources) => Closes(r, t, tok.w)
        /\ Assigned(tok, YarnSources) => Closes(r, t, "")
    BY <1>r, <1>5, <2>1, YarnFlagMoves
  <2>3. /\ \/ Closes(s, t, "") \/ Moves(s, t, s.phase, "")
           \/ (Closes(s, t, tok.w) \/ Moves(s, t, s.phase, tok.w))
              /\ Named(tok, YarnValues \cup YarnSources)
           \/ Closes(s, t, "maybe") /\ IsUnknown("yarn", tok)
        /\ Named(tok, YarnSources) => Closes(s, t, tok.w)
        /\ Assigned(tok, YarnSources) => Closes(s, t, "")
    BY <1>r, <2>2 DEF Moves, Closes, Is
  <2> HIDE DEF awaited
  <2>4. LoopState("yarn", t) /\ t.phase = s.phase
    BY <1>0, <1>5, <2>3 DEF Moves, Closes, Is, LoopState
  <2>5. CASE s.phase = "flags"
    BY <1>s, <1>5, <2>3, <2>4, <2>5 DEF Moves, Closes, Is, Takes, TakesFlag
  <2>6. CASE s.phase = "args"
    <3>1. TakesArgument("yarn", s, tok, t)
      BY <1>s, <1>5, <2>3, <2>6 DEF Moves, Closes, Is, TakesArgument, TakesSource, LoopState
    <3>2. QED
      BY <2>4, <2>6, <3>1 DEF Takes
  <2>7. QED
    BY <1>5, <2>5, <2>6
<1>6. CASE s.phase = "flags" /\ ~awaited /\ ~IsFlag(tok)
  <2>1. t = YarnAction(r, tok)
    BY <1>6 DEF YarnArgument
  <2>2. \/ Moves(r, t, "args", r.pending) /\ tok.w = "add"
        \/ \E ph \in {"workspace", "global", "nil"} : Moves(r, t, ph, r.pending)
        \/ Is(t, "deferred", r.pending, r.packages, TRUE, TRUE, r.disq, r.version)
    BY <1>r, <1>6, <2>1, YarnActionMoves
  <2>3. \/ Moves(s, t, "args", "") /\ tok.w = "add"
        \/ \E ph \in {"workspace", "global", "nil"} : Moves(s, t, ph, "")
        \/ Is(t, "deferred", "", s.packages, TRUE, TRUE, s.disq, s.version)
    BY <1>r, <2>2 DEF Moves, Is
  <2>4. tok.w = "add" => t.phase = "args"
    <3>1. DOMAIN r = Fields /\ r.phase = "flags"
      BY <1>r, <1>6 DEF Moves, Is
    <3>2. tok.w = "add" => t = Enter(r, "args")
      BY <2>1, <3>1 DEF YarnAction
    <3>3. Enter(r, "args").phase = "args"
      <4>1. Is(Enter(r, "args"), "args", r.pending, r.packages, r.unparsed, r.nonLocal, r.disq,
               r.version)
        BY <3>1, HelperFields
      <4>2. QED
        BY <4>1 DEF Is
    <3>4. QED
      BY <3>2, <3>3
  <2>5. tok.w \in Verbs("yarn") <=> tok.w = "add"
    BY DEF Verbs
  <2> HIDE DEF awaited
  <2>6. QED
    BY <1>s, <1>6, <2>3, <2>4, <2>5 DEF Is, Moves, Takes, LoopState, TakesFlag, Phases
<1>7. CASE s.phase = "args" /\ ~awaited /\ ~IsFlag(tok)
  <2>1. t = YarnPackage(r, tok)
    BY <1>7 DEF YarnArgument
  <2>2. \/ t = Unread(r)
        \/ t = Disqualify(r)
        \/ ~r.disq /\ t = List(r, tok, Pinning("yarn")) /\ tok.cls \notin {"local", "remote"}
    BY <2>1 DEF YarnPackage, Pinning
  <2>p. ~Named(tok, YarnSources) /\ ~Assigned(tok, YarnSources)
    BY <1>7 DEF Named, Assigned, IsFlag
  <2>3. CASE t = Unread(r)
    <3>1. Is(t, r.phase, r.pending, r.packages, TRUE, r.nonLocal, r.disq, r.version)
      BY <1>r, <2>3, HelperFields
    <3>2. Is(t, s.phase, "", s.packages, TRUE, s.nonLocal, s.disq, s.version)
      BY <1>r, <3>1 DEF Moves, Is
    <3>3. QED
      BY <1>0, <1>s, <1>7, <2>p, <3>2 DEF Is, Takes, LoopState, TakesArgument, TakesSource
  <2>4. CASE t = Disqualify(r)
    <3>1. Closes(r, t, r.pending)
      BY <1>r, <2>4, HelperFields DEF Closes
    <3>2. Closes(s, t, "")
      BY <1>r, <3>1 DEF Moves, Closes, Is
    <3>3. QED
      BY <1>0, <1>s, <1>7, <2>p, <3>2
         DEF Closes, Is, Takes, LoopState, TakesArgument, TakesSource
  <2>5. CASE ~r.disq /\ t = List(r, tok, Pinning("yarn")) /\ tok.cls \notin {"local", "remote"}
    <3>1. Is(t, r.phase, r.pending, Append(r.packages, Package("yarn", tok)), r.unparsed,
             r.nonLocal, r.disq, r.version)
      BY <1>r, <2>5, ListFields
    <3>2. Is(t, s.phase, "", Append(s.packages, Package("yarn", tok)), s.unparsed, s.nonLocal,
             s.disq, s.version) /\ ~s.disq
      BY <1>r, <2>5, <3>1 DEF Moves, Is
    <3>3. QED
      BY <1>0, <1>s, <1>7, <2>p, <2>5, <3>2
         DEF Is, Takes, LoopState, TakesArgument, TakesSource, Adds, Listable
  <2>6. QED
    BY <2>2, <2>3, <2>4, <2>5
<1>8. QED
  BY <1>0, <1>1, <1>2, <1>3, <1>4, <1>5, <1>6, <1>7

CargoSources == {"--git", "--registry", "--path"}

(* What the value of a flag does to the state.                             *)
CargoMoves(s, t, flag) ==
    \/ /\ flag \in CargoSources
       /\ \E nl \in {s.nonLocal, TRUE} :
              Is(t, s.phase, s.pending, <<>>, TRUE, nl, TRUE, s.version)
    \/ flag \notin CargoSources /\ Moves(s, t, s.phase, s.pending)
    \/ /\ flag = "--version"
       /\ \E v \in BOOLEAN :
              Is(t, s.phase, s.pending, s.packages, s.unparsed, s.nonLocal, s.disq, v)

(* The value of a flag of cargo.                                           *)
LEMMA CargoTakesMoves ==
    ASSUME NEW s, NEW flag, NEW blank \in BOOLEAN, DOMAIN s = Fields
    PROVE  CargoMoves(s, CargoTakes(s, flag, blank), flag)
<1> PICK t : t = CargoTakes(s, flag, blank)
  OBVIOUS
<1>1. CASE flag \in {"--git", "--registry"}
  <2>1. t = Disqualify(s)
    BY <1>1 DEF CargoTakes
  <2>2. Is(t, s.phase, s.pending, <<>>, TRUE, TRUE, TRUE, s.version)
    BY <2>1, HelperFields
  <2>3. QED
    BY <1>1, <2>2 DEF CargoMoves, CargoSources
<1>2. CASE flag = "--path"
  <2>1. PICK r : r = Unread(s)
    OBVIOUS
  <2>2. Is(r, s.phase, s.pending, s.packages, TRUE, s.nonLocal, s.disq, s.version)
    BY <2>1, HelperFields
  <2>3. t = [r EXCEPT !.disq = TRUE, !.packages = <<>>]
    BY <1>2, <2>1 DEF CargoTakes
  <2>4. Is(t, s.phase, s.pending, <<>>, TRUE, s.nonLocal, TRUE, s.version)
    BY <2>2, <2>3 DEF Is, Fields
  <2>5. QED
    BY <1>2, <2>4 DEF CargoMoves, CargoSources
<1>3. CASE flag = "--version"
  <2>1. t = [s EXCEPT !.version = ~blank]
    BY <1>3 DEF CargoTakes
  <2>2. PICK v \in BOOLEAN : v = ~blank
    OBVIOUS
  <2>3. Is(t, s.phase, s.pending, s.packages, s.unparsed, s.nonLocal, s.disq, v)
    BY <2>1, <2>2 DEF Is, Fields
  <2>4. QED
    BY <1>3, <2>3 DEF CargoMoves
<1>4. CASE flag \notin {"--git", "--registry", "--path", "--version"}
  <2>1. t = s
    BY <1>4 DEF CargoTakes
  <2>2. QED
    BY <1>4, <2>1 DEF CargoMoves, CargoSources, Moves, Is
<1>5. QED
  BY <1>1, <1>2, <1>3, <1>4

(* A flag after the verb of cargo.                                         *)
LEMMA CargoFlagMoves ==
    ASSUME NEW s, NEW tok, DOMAIN s = Fields, IsFlag(tok), s.pending = ""
    PROVE  LET t == CargoFlag(s, tok) IN
           \/ Assigned(tok, CargoValues) /\ CargoMoves(s, t, tok.w)
           \/ Named(tok, CargoValues) /\ Moves(s, t, s.phase, tok.w)
           \/ ~Assigned(tok, CargoValues) /\ ~Named(tok, CargoValues)
              /\ (Closes(s, t, "") \/ Moves(s, t, s.phase, ""))
<1> PICK t : t = CargoFlag(s, tok)
  OBVIOUS
<1>0. /\ Assigned(tok, CargoValues) => ~Named(tok, CargoValues) /\ ~CargoUnknown(tok)
      /\ Named(tok, CargoValues) => ~CargoUnknown(tok)
  BY DEF Named, Assigned, CargoUnknown
<1>1. CASE Assigned(tok, CargoValues)
  <2>1. PICK b \in BOOLEAN : b = (tok.val = "")
    OBVIOUS
  <2>2. t = CargoTakes(s, tok.w, b)
    BY <1>0, <1>1, <2>1 DEF CargoFlag
  <2>3. QED
    BY <1>1, <2>2, CargoTakesMoves
<1>2. CASE Named(tok, CargoValues)
  <2>1. t = Await(s, tok.w)
    BY <1>0, <1>2 DEF CargoFlag
  <2>2. QED
    BY <1>2, <2>1, HelperFields DEF Moves
<1>3. CASE ~Assigned(tok, CargoValues) /\ ~Named(tok, CargoValues)
  <2>1. t = Disqualify(s) \/ t = s
    BY <1>3 DEF CargoFlag
  <2>2. CASE t = Disqualify(s)
    <3>1. Closes(s, t, "")
      BY <2>2, HelperFields DEF Closes
    <3>2. QED
      BY <1>3, <3>1
  <2>3. CASE t = s
    BY <1>3, <2>3 DEF Moves, Is
  <2>4. QED
    BY <2>1, <2>2, <2>3
<1>4. QED
  BY <1>1, <1>2, <1>3

(* A flag before the verb of cargo.                                        *)
LEMMA CargoGlobalMoves ==
    ASSUME NEW s, NEW tok, DOMAIN s = Fields, s.pending = ""
    PROVE  LET t == CargoGlobalFlag(s, tok) IN
           \/ Closes(s, t, "") \/ Moves(s, t, s.phase, "")
           \/ Moves(s, t, s.phase, tok.w) /\ Named(tok, CargoGlobals)
           \/ (Closes(s, t, "maybe") \/ Moves(s, t, s.phase, "maybe")) /\ IsUnknown("cargo", tok)
<1> PICK t : t = CargoGlobalFlag(s, tok)
  OBVIOUS
<1> PICK r : r = IF CargoUnknown(tok) THEN Disqualify(s) ELSE s
  OBVIOUS
<1>1. /\ Closes(s, r, "") \/ Moves(s, r, s.phase, "")
      /\ DOMAIN r = Fields
  <2>1. CASE r = s
    BY <2>1 DEF Moves, Is
  <2>2. CASE r = Disqualify(s)
    <3>1. Closes(s, r, s.pending)
      BY <2>2, HelperFields DEF Closes
    <3>2. QED
      BY <3>1 DEF Closes, Is
  <2>3. QED
    BY <2>1, <2>2
<1>2. \/ t = s \/ t = r
      \/ t = Await(s, tok.w) /\ Named(tok, CargoGlobals)
      \/ t = Await(r, "maybe") /\ IsUnknown("cargo", tok)
  <2> DEFINE known == \/ Assigned(tok, CargoGlobals \cup CargoBooleans)
                      \/ Named(tok, CargoBooleans)
             unknown == tok.kind = "long" /\ tok.val = NoVal
                        /\ tok.w \notin CargoGlobals \cup CargoBooleans
  <2>1. /\ Named(tok, CargoGlobals) => ~known /\ ~unknown
        /\ known => ~unknown
        /\ unknown => IsUnknown("cargo", tok)
    BY DEF Named, Assigned, CargoGlobals, CargoBooleans, IsUnknown
  <2>2. CASE known
    BY <2>1, <2>2 DEF CargoGlobalFlag
  <2>3. CASE Named(tok, CargoGlobals)
    BY <2>1, <2>3 DEF CargoGlobalFlag
  <2>4. CASE unknown
    BY <2>1, <2>4 DEF CargoGlobalFlag
  <2>5. CASE ~known /\ ~Named(tok, CargoGlobals) /\ ~unknown
    BY <2>5 DEF CargoGlobalFlag
  <2>6. QED
    BY <2>2, <2>3, <2>4, <2>5
<1>3. CASE t = s
  BY <1>3 DEF Moves, Is
<1>4. CASE t = r
  BY <1>1, <1>4
<1>5. CASE t = Await(s, tok.w) /\ Named(tok, CargoGlobals)
  <2>1. Moves(s, t, s.phase, tok.w)
    BY <1>5, HelperFields DEF Moves
  <2>2. QED
    BY <1>5, <2>1
<1>6. CASE t = Await(r, "maybe") /\ IsUnknown("cargo", tok)
  <2>1. Is(t, r.phase, "maybe", r.packages, r.unparsed, r.nonLocal, r.disq, r.version)
    BY <1>1, <1>6, HelperFields
  <2>2. Closes(s, t, "maybe") \/ Moves(s, t, s.phase, "maybe")
    BY <1>1, <2>1 DEF Closes, Moves, Is
  <2>3. QED
    BY <1>6, <2>2
<1>7. QED
  BY <1>2, <1>3, <1>4, <1>5, <1>6

(* One iteration of cargo's loop.                                          *)
LEMMA CargoIteration ==
    ASSUME NEW s, NEW tok, LoopState("cargo", s)
    PROVE  Takes("cargo", s, tok, CargoArgument(s, tok))
<1> PICK t : t = CargoArgument(s, tok)
  OBVIOUS
<1> PICK r : r = Proceed(s)
  OBVIOUS
<1> SUFFICES Takes("cargo", s, tok, t)
  OBVIOUS
<1>0. DOMAIN s = Fields /\ s.phase \in {"flags", "args", "nil"}
  BY DEF LoopState, Phases
<1>r. Moves(s, r, s.phase, "") /\ DOMAIN r = Fields /\ r.phase = s.phase /\ r.pending = ""
  BY <1>0, HelperFields DEF Moves, Is
<1>s. SourceFlags("cargo") = CargoSources /\ Verbs("cargo") = CargoVerbs
      /\ CargoSources \subseteq CargoValues /\ "maybe" \notin CargoSources /\ "" \notin CargoSources
      /\ "--version" \notin CargoSources
      /\ SourceBooleans("cargo") = {} /\ ~Named(tok, {}) /\ ~Assigned(tok, {})
      /\ ArgumentValues("cargo") = CargoValues /\ GlobalValues("cargo") = CargoGlobals
  BY DEF SourceFlags, SourceBooleans, Verbs, CargoSources, CargoValues, ArgumentValues,
         GlobalValues, Named, Assigned
<1> DEFINE maybe == s.pending = "maybe"
           awaited == s.pending # "" /\ ~(maybe /\ (IsFlag(tok) \/ tok.w \in CargoVerbs))
<1>1. CASE s.phase = "nil"
  <2>1. t = s
    BY <1>1 DEF CargoArgument
  <2>2. QED
    BY <1>1, <2>1 DEF Takes, LoopState
<1>2. CASE s.phase = "flags" /\ awaited
  <2>1. t = r \/ t = Disqualify(r)
    BY <1>2 DEF CargoArgument
  <2>2. CASE t = r
    BY <1>r, <1>2, <2>2 DEF Is, Moves, Takes, LoopState, TakesFlag
  <2>3. CASE t = Disqualify(r)
    <3>1. Closes(r, t, r.pending)
      BY <1>r, <2>3, HelperFields DEF Closes
    <3>2. Closes(s, t, "")
      BY <1>r, <3>1 DEF Moves, Closes, Is
    <3>3. QED
      BY <1>2, <3>2 DEF Closes, Is, Takes, LoopState, TakesFlag
  <2>4. QED
    BY <2>1, <2>2, <2>3
<1>3. CASE s.phase = "flags" /\ ~awaited /\ IsFlag(tok)
  <2>1. t = CargoGlobalFlag(r, tok)
    BY <1>3 DEF CargoArgument
  <2>2. \/ Closes(r, t, "") \/ Moves(r, t, r.phase, "")
        \/ Moves(r, t, r.phase, tok.w) /\ Named(tok, CargoGlobals)
        \/ (Closes(r, t, "maybe") \/ Moves(r, t, r.phase, "maybe")) /\ IsUnknown("cargo", tok)
    BY <1>r, <2>1, CargoGlobalMoves
  <2>3. \/ Closes(s, t, "") \/ Moves(s, t, s.phase, "")
        \/ Moves(s, t, s.phase, tok.w) /\ Named(tok, CargoGlobals)
        \/ (Closes(s, t, "maybe") \/ Moves(s, t, s.phase, "maybe")) /\ IsUnknown("cargo", tok)
    BY <1>r, <2>2 DEF Moves, Closes, Is
  <2> HIDE DEF awaited
  <2>4. QED
    BY <1>s, <1>3, <2>3 DEF Moves, Closes, Is, Takes, LoopState, TakesFlag
<1>4. CASE s.phase = "flags" /\ ~awaited /\ ~IsFlag(tok)
  <2>1. PICK ph \in {"args", "nil"} : t = Enter(r, ph) /\ (ph = "args" <=> tok.w \in Verbs("cargo"))
    BY <1>4 DEF CargoArgument, Verbs
  <2>2. Moves(r, t, ph, r.pending)
    BY <1>r, <2>1, HelperFields DEF Moves
  <2>3. Moves(s, t, ph, "")
    BY <1>r, <2>2 DEF Moves, Is
  <2> HIDE DEF awaited
  <2>4. QED
    BY <1>s, <1>4, <2>1, <2>3 DEF Is, Moves, Takes, LoopState, TakesFlag, Phases
<1>5. CASE s.phase = "args" /\ awaited
  <2>1. PICK b \in BOOLEAN : b = (tok.w = "")
    OBVIOUS
  <2>2. t = CargoTakes(r, s.pending, b)
    BY <1>5, <2>1 DEF CargoArgument
  <2>3. CargoMoves(r, t, s.pending)
    BY <1>r, <2>2, CargoTakesMoves
  <2>4. \/ /\ s.pending \in CargoSources
           /\ \E nl \in {s.nonLocal, TRUE} :
                  Is(t, s.phase, "", <<>>, TRUE, nl, TRUE, s.version)
        \/ s.pending \notin CargoSources /\ Moves(s, t, s.phase, "")
        \/ /\ s.pending = "--version"
           /\ \E v \in BOOLEAN : Is(t, s.phase, "", s.packages, s.unparsed, s.nonLocal, s.disq, v)
    BY <1>r, <2>3 DEF CargoMoves, Moves, Is
  <2>5. s.pending # ""
    BY <1>5
  <2> HIDE DEF awaited
  <2>6. QED
    BY <1>s, <1>5, <2>4, <2>5 DEF Is, Moves, Takes, LoopState, TakesArgument, TakesSource
<1>6. CASE s.phase = "args" /\ ~awaited /\ IsFlag(tok)
  <2>1. t = CargoFlag(r, tok)
    BY <1>6 DEF CargoArgument
  <2>p. s.pending \notin CargoSources /\ s.pending # "--version"
    BY <1>s, <1>6
  <2>2. \/ Assigned(tok, CargoValues) /\ CargoMoves(r, t, tok.w)
        \/ Named(tok, CargoValues) /\ Moves(r, t, r.phase, tok.w)
        \/ ~Assigned(tok, CargoValues) /\ ~Named(tok, CargoValues)
              /\ (Closes(r, t, "") \/ Moves(r, t, r.phase, ""))
    BY <1>r, <1>6, <2>1, CargoFlagMoves
  <2> HIDE DEF awaited
  <2>3. CASE Assigned(tok, CargoValues) /\ CargoMoves(r, t, tok.w)
    <3>1. \/ /\ tok.w \in CargoSources
             /\ \E nl \in {s.nonLocal, TRUE} :
                    Is(t, s.phase, "", <<>>, TRUE, nl, TRUE, s.version)
          \/ tok.w \notin CargoSources /\ Moves(s, t, s.phase, "")
          \/ /\ tok.w = "--version"
             /\ \E v \in BOOLEAN : Is(t, s.phase, "", s.packages, s.unparsed, s.nonLocal, s.disq, v)
      BY <1>r, <2>3 DEF CargoMoves, Moves, Is
    <3>2. ~Named(tok, CargoSources)
      BY <2>3 DEF Named, Assigned
    <3>3. Assigned(tok, CargoSources) => tok.w \in CargoSources
      BY DEF Assigned
    <3>4. QED
      BY <1>s, <1>6, <2>p, <3>1, <3>2, <3>3
         DEF Is, Moves, Takes, LoopState, TakesArgument, TakesSource
  <2>4. CASE Named(tok, CargoValues) /\ Moves(r, t, r.phase, tok.w)
    <3>1. Moves(s, t, s.phase, tok.w)
      BY <1>r, <2>4 DEF Moves, Is
    <3>2. ~Assigned(tok, CargoSources)
      BY <2>4 DEF Named, Assigned
    <3>3. TakesSource("cargo", s, tok, t)
      BY <1>s, <2>p, <3>1, <3>2 DEF Is, Moves, TakesSource
    <3>4. TakesArgument("cargo", s, tok, t)
      BY <1>s, <1>6, <2>4, <3>1, <3>3 DEF Is, Moves, TakesArgument
    <3>5. QED
      BY <1>6, <3>1, <3>4 DEF Is, Moves, Takes, LoopState
  <2>5. CASE /\ ~Assigned(tok, CargoValues) /\ ~Named(tok, CargoValues)
             /\ Closes(r, t, "") \/ Moves(r, t, r.phase, "")
    <3>1. Closes(s, t, "") \/ Moves(s, t, s.phase, "")
      BY <1>r, <2>5 DEF Closes, Moves, Is
    <3>2. ~Assigned(tok, CargoSources) /\ ~Named(tok, CargoSources)
      BY <1>s, <2>5 DEF Assigned, Named
    <3>3. QED
      BY <1>s, <1>6, <2>p, <3>1, <3>2
         DEF Closes, Is, Moves, Takes, LoopState, TakesArgument, TakesSource
  <2>6. QED
    BY <2>2, <2>3, <2>4, <2>5
<1>7. CASE s.phase = "args" /\ ~awaited /\ ~IsFlag(tok)
  <2>1. t = CargoPackage(r, tok)
    BY <1>7 DEF CargoArgument
  <2>2. t = Unread(r) \/ t = UnreadNonLocal(r) \/ (~r.disq /\ t = List(r, tok, Pinning("cargo")))
    BY <2>1 DEF CargoPackage, Pinning
  <2>p. s.pending \notin CargoSources /\ ~Named(tok, CargoSources) /\ ~Assigned(tok, CargoSources)
    BY <1>s, <1>7 DEF Named, Assigned, IsFlag
  <2>3. CASE t = Unread(r) \/ t = UnreadNonLocal(r)
    <3>1. \/ Is(t, r.phase, r.pending, r.packages, TRUE, r.nonLocal, r.disq, r.version)
          \/ Is(t, r.phase, r.pending, r.packages, TRUE, TRUE, r.disq, r.version)
      BY <1>r, <2>3, HelperFields
    <3>2. PICK nl \in {s.nonLocal, TRUE} :
              Is(t, s.phase, "", s.packages, TRUE, nl, s.disq, s.version)
      BY <1>r, <3>1 DEF Moves, Is
    <3>3. QED
      BY <1>0, <1>s, <1>7, <2>p, <3>2 DEF Is, Takes, LoopState, TakesArgument, TakesSource
  <2>4. CASE ~r.disq /\ t = List(r, tok, Pinning("cargo"))
    <3>1. Is(t, r.phase, r.pending, Append(r.packages, Package("cargo", tok)), r.unparsed,
             r.nonLocal, r.disq, r.version)
      BY <1>r, <2>4, ListFields
    <3>2. Is(t, s.phase, "", Append(s.packages, Package("cargo", tok)), s.unparsed, s.nonLocal,
             s.disq, s.version) /\ ~s.disq
      BY <1>r, <2>4, <3>1 DEF Moves, Is
    <3>3. QED
      BY <1>0, <1>s, <1>7, <2>p, <2>4, <3>2
         DEF Is, Takes, LoopState, TakesArgument, TakesSource, Adds, Listable
  <2>5. QED
    BY <2>2, <2>3, <2>4
<1>8. QED
  BY <1>0, <1>1, <1>2, <1>3, <1>4, <1>5, <1>6, <1>7

(* One iteration of whichever loop it is.                                  *)
LEMMA Iteration ==
    ASSUME NEW pm \in Managers, NEW s, NEW tok, LoopState(pm, s)
    PROVE  Takes(pm, s, tok, Argument(pm, s, tok))
<1>1. CASE pm = "npm"
  <2>1. Argument(pm, s, tok) = NodeArgument(GlobalValues(pm), ArgumentValues(pm), s, tok)
    BY <1>1 DEF Argument, GlobalValues, ArgumentValues
  <2>2. QED
    BY <1>1, <2>1, NodeIteration
<1>2. CASE pm = "pnpm"
  <2>1. Argument(pm, s, tok) = NodeArgument(GlobalValues(pm), ArgumentValues(pm), s, tok)
    BY <1>2 DEF Argument, GlobalValues, ArgumentValues
  <2>2. QED
    BY <1>2, <2>1, NodeIteration
<1>3. CASE pm = "yarn"
  <2>1. Argument(pm, s, tok) = YarnArgument(s, tok)
    BY <1>3 DEF Argument
  <2>2. QED
    BY <1>3, <2>1, YarnIteration
<1>4. CASE pm \in {"pip", "pip3"}
  <2>1. Argument(pm, s, tok) = PipArgument(s, tok)
    BY <1>4 DEF Argument
  <2>2. QED
    BY <1>4, <2>1, PipIteration
<1>5. CASE pm = "go"
  <2>1. Argument(pm, s, tok) = GoArgument(s, tok)
    BY <1>5 DEF Argument
  <2>2. QED
    BY <1>5, <2>1, GoIteration
<1>6. CASE pm = "cargo"
  <2>1. Argument(pm, s, tok) = CargoArgument(s, tok)
    BY <1>6 DEF Argument
  <2>2. QED
    BY <1>6, <2>1, CargoIteration
<1>7. QED
  BY <1>1, <1>2, <1>3, <1>4, <1>5, <1>6 DEF Managers

(* The packages that the words after the verb can be. *)
Readable(pm, args, v, k) ==
    {Package(pm, args[i]) : i \in {j \in (v + 1)..k : Listable(pm, args[j])}}

GivesVersion(args, v, k) == \E j \in (v + 1)..k : IsFlag(args[j]) /\ args[j].w = "--version"

AfterVerb(pm, args, v, k, s) ==
    /\ VerbAt(pm, args, v)
    /\ s.packages \in Seq(Readable(pm, args, v, k))
    /\ WordsAreNoticed(s, pm, args, v, k)
    /\ \A i \in (v + 1)..k :
           NamesSource(pm, args, i) /\ MindsSources(pm) =>
               s.disq \/ (pm # "yarn" /\ i = k /\ Named(args[i], SourceFlags(pm))
                          /\ s.pending = args[i].w)
    /\ s.version => pm = "cargo" /\ GivesVersion(args, v, k)

Awaits(pm, args, k, s) ==
    s.phase \in {"flags", "args"} /\ s.pending # "" =>
        /\ k >= 1 /\ IsFlag(args[k]) /\ s.pending \in {args[k].w, "maybe"}
        /\ s.phase = "flags" => Named(args[k], GlobalValues(pm)) \/ IsUnknown(pm, args[k])
        /\ s.phase = "args" => Named(args[k], ArgumentValues(pm)) \/ s.disq

ReadInv(pm, args, k, s) ==
    /\ pm \in Managers /\ k \in Nat /\ LoopState(pm, s)
    /\ s.phase = "flags" => \A i \in 1..k : IsFlag(args[i]) \/ MayBeGlobal(pm, args, i)
    /\ Awaits(pm, args, k, s)
    /\ s.phase = "args" => \E v \in 1..k : AfterVerb(pm, args, v, k, s)
    /\ k = 0 => s.phase = "flags"
    /\ VerbFirst(pm, args, k) => s.phase = "args"

(* What was read stays read.                                               *)
LEMMA ReadableGrows ==
    ASSUME NEW pm, NEW args, NEW v \in Nat, NEW k \in Nat
    PROVE  Readable(pm, args, v, k) \subseteq Readable(pm, args, v, k + 1)
BY DEF Readable

(* The iteration that reads the verb.                                      *)
LEMMA VerbIsRead ==
    ASSUME NEW pm, NEW args, NEW k, NEW s, ReadInv(pm, args, k, s), s.phase = "flags",
           NEW t, Takes(pm, s, args[k + 1], t), t.phase = "args"
    PROVE  ReadInv(pm, args, k + 1, t)
<1>1. /\ pm \in Managers /\ k \in Nat /\ LoopState(pm, t) /\ TakesFlag(pm, s, args[k + 1], t)
  BY DEF ReadInv, Takes
<1>2. ~IsFlag(args[k + 1]) /\ args[k + 1].w \in Verbs(pm) /\ t.pending = "" /\ t.packages = <<>>
      /\ ~t.version
  BY <1>1 DEF TakesFlag
<1>3. \A i \in 1..k : IsFlag(args[i]) \/ MayBeGlobal(pm, args, i)
  BY DEF ReadInv
<1>4. VerbAt(pm, args, k + 1)
  <2>1. (k + 1) - 1 = k
    BY <1>1
  <2>2. QED
    BY <1>2, <1>3, <2>1 DEF VerbAt
<1>5. (k + 1) + 1 .. k + 1 = {}
  BY <1>1
<1>6. WordsAreNoticed(t, pm, args, k + 1, k + 1)
  BY <1>5 DEF WordsAreNoticed
<1>7. t.packages \in Seq(Readable(pm, args, k + 1, k + 1))
  BY <1>2, EmptySeq
<1>8. AfterVerb(pm, args, k + 1, k + 1, t)
  BY <1>2, <1>4, <1>5, <1>6, <1>7 DEF AfterVerb
<1>9. k + 1 \in 1..(k + 1) /\ k + 1 \in Nat
  BY <1>1
<1>10. k + 1 # 0 /\ t.phase = "args"
  BY <1>1
<1>11. QED
  BY <1>1, <1>2, <1>8, <1>9, <1>10 DEF ReadInv, Awaits

(* An iteration that goes on before the verb.                              *)
LEMMA FlagIsRead ==
    ASSUME NEW pm, NEW args, NEW k, NEW s, ReadInv(pm, args, k, s), s.phase = "flags",
           NEW t, Takes(pm, s, args[k + 1], t), t.phase = "flags"
    PROVE  ReadInv(pm, args, k + 1, t)
<1>1. pm \in Managers /\ k \in Nat /\ LoopState(pm, t) /\ TakesFlag(pm, s, args[k + 1], t)
  BY DEF ReadInv, Takes
<1>2. \A i \in 1..k : IsFlag(args[i]) \/ MayBeGlobal(pm, args, i)
  BY DEF ReadInv
<1>3. IsFlag(args[k + 1]) \/ s.pending # ""
  BY <1>1 DEF TakesFlag
<1>4. s.pending # "" =>
          k >= 1 /\ (Named(args[k], GlobalValues(pm)) \/ IsUnknown(pm, args[k]))
  BY DEF ReadInv, Awaits
<1>5. (k + 1) - 1 = k /\ k + 1 \in Nat /\ 1..(k + 1) = 1..k \cup {k + 1}
  BY <1>1
<1>6. IsFlag(args[k + 1]) \/ MayBeGlobal(pm, args, k + 1)
  <2>1. k >= 1 => k + 1 > 1
    BY <1>1
  <2>2. QED
    BY <1>3, <1>4, <1>5, <2>1 DEF MayBeGlobal
<1>7. \A i \in 1..(k + 1) : IsFlag(args[i]) \/ MayBeGlobal(pm, args, i)
  BY <1>2, <1>5, <1>6
<1>8. Awaits(pm, args, k + 1, t)
  <2>1. k + 1 >= 1
    BY <1>1
  <2>2. t.pending # "" =>
            /\ IsFlag(args[k + 1]) /\ t.pending \in {args[k + 1].w, "maybe"}
            /\ Named(args[k + 1], GlobalValues(pm)) \/ IsUnknown(pm, args[k + 1])
    BY <1>1 DEF TakesFlag
  <2>3. QED
    BY <2>1, <2>2 DEF Awaits
<1>9. ~VerbFirst(pm, args, k + 1)
  BY <1>5, <1>7 DEF VerbFirst, MayBeGlobal
<1>10. QED
  BY <1>1, <1>5, <1>7, <1>8, <1>9 DEF ReadInv

(* An iteration after the verb.                                            *)
LEMMA ArgumentIsRead ==
    ASSUME NEW pm, NEW args, NEW k, NEW s, ReadInv(pm, args, k, s), s.phase = "args",
           NEW t, Takes(pm, s, args[k + 1], t)
    PROVE  ReadInv(pm, args, k + 1, t)
<1> PICK tok : tok = args[k + 1]
  OBVIOUS
<1>1. pm \in Managers /\ k \in Nat /\ LoopState(pm, s) /\ LoopState(pm, t)
      /\ TakesArgument(pm, s, tok, t)
  BY DEF ReadInv, Takes
<1>2. PICK v \in 1..k : AfterVerb(pm, args, v, k, s)
  BY DEF ReadInv
<1>3. s.pending # "" =>
          /\ k >= 1 /\ IsFlag(args[k]) /\ s.pending \in {args[k].w, "maybe"}
          /\ Named(args[k], ArgumentValues(pm)) \/ s.disq
  BY DEF ReadInv, Awaits
<1>4. /\ v \in Nat /\ v \in 1..(k + 1) /\ k + 1 \in Nat /\ (k + 1) - 1 = k /\ k >= 1
      /\ (v + 1)..(k + 1) = (v + 1)..k \cup {k + 1}
  BY <1>1, <1>2
<1>5. s.pending # "" => MayBeValue(pm, args, k + 1) \/ s.disq
  <2>1. k + 1 > 1
    BY <1>1, <1>4
  <2>2. QED
    BY <1>3, <1>4, <2>1 DEF MayBeValue
<1>6. VerbAt(pm, args, v) /\ v # k => k \in (v + 1)..k
  BY <1>1, <1>2
<1>7. VerbAt(pm, args, v) /\ s.packages \in Seq(Readable(pm, args, v, k))
      /\ WordsAreNoticed(s, pm, args, v, k)
  BY <1>2 DEF AfterVerb
<1>8. s.packages \in Seq(Readable(pm, args, v, k + 1))
  <2>1. Readable(pm, args, v, k) \subseteq Readable(pm, args, v, k + 1)
    BY <1>1, <1>4, ReadableGrows
  <2>2. QED
    BY <1>7, <2>1, SeqMonotonic
<1>9. Adds(pm, s, tok, t) => Package(pm, tok) \in Readable(pm, args, v, k + 1)
  BY <1>4 DEF Adds, Readable
<1>10. \/ t.packages = s.packages
       \/ t.packages = <<>> /\ t.unparsed
       \/ Adds(pm, s, tok, t)
  BY <1>1 DEF TakesArgument
<1>11. t.packages \in Seq(Readable(pm, args, v, k + 1))
  <2>1. CASE t.packages = s.packages
    BY <1>8, <2>1
  <2>2. CASE t.packages = <<>>
    BY <2>2, EmptySeq
  <2>3. CASE Adds(pm, s, tok, t)
    BY <1>8, <1>9, <2>3, AppendProperties DEF Adds
  <2>4. QED
    BY <1>10, <2>1, <2>2, <2>3
<1>12. \/ t.unparsed
       \/ \A m \in DOMAIN s.packages :
              m \in DOMAIN t.packages /\ t.packages[m] = s.packages[m]
  BY <1>8, <1>9, <1>10, AppendProperties DEF Adds
<1>13. Adds(pm, s, tok, t) => \E m \in DOMAIN t.packages : t.packages[m].name = tok.w
  <2>1. ASSUME Adds(pm, s, tok, t)
        PROVE  LET n == Len(s.packages) + 1 IN
               n \in DOMAIN t.packages /\ t.packages[n] = Package(pm, tok)
    BY <1>8, <1>9, <2>1, AppendProperties DEF Adds
  <2>2. QED
    BY <2>1 DEF Package
<1>14. WordsAreNoticed(t, pm, args, v, k + 1)
  <2>1. CASE t.unparsed
    BY <2>1 DEF WordsAreNoticed
  <2>2. CASE ~t.unparsed
    <3>1. ~s.unparsed /\ ~s.disq
      BY <1>1, <2>2 DEF TakesArgument, LoopState
    <3>2. \A i \in (v + 1)..k :
            \/ IsFlag(args[i]) \/ MayBeValue(pm, args, i)
            \/ \E m \in DOMAIN s.packages : s.packages[m].name = args[i].w
      BY <1>7, <3>1 DEF WordsAreNoticed
    <3>3. \A i \in (v + 1)..k :
            \/ IsFlag(args[i]) \/ MayBeValue(pm, args, i)
            \/ \E m \in DOMAIN t.packages : t.packages[m].name = args[i].w
      BY <1>12, <2>2, <3>2
    <3>4. \/ IsFlag(tok) \/ MayBeValue(pm, args, k + 1)
          \/ \E m \in DOMAIN t.packages : t.packages[m].name = tok.w
      BY <1>1, <1>5, <1>13, <2>2, <3>1 DEF TakesArgument
    <3>5. QED
      BY <1>4, <3>3, <3>4 DEF WordsAreNoticed
  <2>3. QED
    BY <2>1, <2>2
<1>15. ASSUME NEW i \in (v + 1)..(k + 1), NamesSource(pm, args, i), MindsSources(pm)
       PROVE  t.disq \/ (pm # "yarn" /\ i = k + 1 /\ Named(args[i], SourceFlags(pm))
                         /\ t.pending = args[i].w)
  <2>0. TakesSource(pm, s, tok, t) /\ (s.disq => t.disq)
    BY <1>1 DEF TakesArgument
  <2>1. CASE i = k + 1
    <3>1. s.pending = "" \/ s.disq
      BY <1>5, <1>15, <2>1 DEF NamesSource
    <3>2. \/ Named(tok, SourceFlags(pm))
          \/ Assigned(tok, SourceFlags(pm)) /\ tok.val # ""
          \/ Named(tok, SourceBooleans(pm)) \/ Assigned(tok, SourceBooleans(pm))
      BY <1>15, <2>1 DEF NamesSource
    <3>3. QED
      BY <1>15, <2>0, <2>1, <3>1, <3>2 DEF TakesSource
  <2>2. CASE i \in (v + 1)..k
    <3>1. s.disq \/ (pm # "yarn" /\ i = k /\ Named(args[i], SourceFlags(pm))
                     /\ s.pending = args[i].w)
      BY <1>2, <1>15, <2>2 DEF AfterVerb
    <3>2. CASE s.disq
      BY <2>0, <3>2
    <3>3. CASE pm # "yarn" /\ i = k /\ Named(args[i], SourceFlags(pm)) /\ s.pending = args[i].w
      <4>1. s.pending \in SourceFlags(pm) /\ ~Assigned(args[i], SourceFlags(pm))
        BY <3>3 DEF Named, Assigned
      <4>2. CASE args[k + 1].w # ""
        BY <1>15, <2>0, <3>3, <4>1, <4>2 DEF TakesSource
      <4>3. CASE Named(args[i], SourceBooleans(pm)) \/ Assigned(args[i], SourceBooleans(pm))
        <5>1. FALSE
          BY <3>3, <4>3 DEF Named, Assigned, SourceFlags, SourceBooleans, PipSources, PipLinks
        <5>2. QED
          BY <5>1
      <4>4. QED
        BY <1>15, <3>3, <4>1, <4>2, <4>3 DEF NamesSource
    <3>4. QED
      BY <3>1, <3>2, <3>3
  <2>3. QED
    BY <1>4, <1>15, <2>1, <2>2
<1>16. t.version => pm = "cargo" /\ GivesVersion(args, v, k + 1)
  <2>1. CASE s.version
    <3>1. pm = "cargo" /\ GivesVersion(args, v, k)
      BY <1>2, <2>1 DEF AfterVerb
    <3>2. QED
      BY <1>4, <3>1 DEF GivesVersion
  <2>2. CASE pm = "cargo" /\ s.pending = "--version"
    <3>1. IsFlag(args[k]) /\ args[k].w = "--version"
      BY <1>3, <2>2
    <3>2. k \in (v + 1)..(k + 1)
      BY <1>2, <1>4, <1>6, <1>7, <3>1 DEF VerbAt
    <3>3. QED
      BY <2>2, <3>1, <3>2 DEF GivesVersion
  <2>3. CASE pm = "cargo" /\ IsFlag(tok) /\ tok.w = "--version"
    <3>1. k + 1 \in (v + 1)..(k + 1)
      BY <1>2, <1>4
    <3>2. QED
      BY <2>3, <3>1 DEF GivesVersion
  <2>4. QED
    BY <1>1, <2>1, <2>2, <2>3 DEF TakesArgument
<1>17. AfterVerb(pm, args, v, k + 1, t)
  BY <1>7, <1>11, <1>14, <1>15, <1>16 DEF AfterVerb
<1>18. Awaits(pm, args, k + 1, t)
  <2>1. k + 1 >= 1
    BY <1>1
  <2>2. t.pending # "" => /\ IsFlag(tok) /\ t.pending \in {tok.w, "maybe"}
                          /\ Named(tok, ArgumentValues(pm)) \/ t.disq
    BY <1>1 DEF TakesArgument
  <2>q. t.phase = "args"
    BY <1>1 DEF TakesArgument
  <2>3. QED
    BY <2>1, <2>2, <2>q DEF Awaits
<1>19. t.phase = "args"
  BY <1>1 DEF TakesArgument
<1>20. QED
  BY <1>1, <1>4, <1>17, <1>18, <1>19 DEF ReadInv

(* Every iteration keeps what holds of the loop.                           *)
LEMMA ReadIsKept ==
    ASSUME NEW pm, NEW args, NEW k, NEW s, ReadInv(pm, args, k, s)
    PROVE  ReadInv(pm, args, k + 1, Argument(pm, s, args[k + 1]))
<1> PICK t : t = Argument(pm, s, args[k + 1])
  OBVIOUS
<1>1. pm \in Managers /\ k \in Nat /\ LoopState(pm, s)
  BY DEF ReadInv
<1>2. Takes(pm, s, args[k + 1], t)
  BY <1>1, Iteration
<1>3. CASE s.phase = "args"
  BY <1>2, <1>3, ArgumentIsRead
<1>4. CASE s.phase = "flags" /\ t.phase = "args"
  BY <1>2, <1>4, VerbIsRead
<1>5. CASE s.phase = "flags" /\ t.phase = "flags"
  BY <1>2, <1>5, FlagIsRead
<1>6. CASE s.phase # "args" /\ t.phase \notin {"flags", "args"}
  <2>1. k + 1 \in Nat /\ k + 1 # 0 /\ LoopState(pm, t)
    BY <1>1, <1>2 DEF Takes
  <2>2. ~VerbFirst(pm, args, k + 1)
    <3>1. CASE k = 0
      <4>1. s.phase = "flags" /\ s.pending = ""
        <5>1. s.phase = "flags" /\ Awaits(pm, args, 0, s)
          BY <3>1 DEF ReadInv
        <5>2. ~(0 >= 1)
          OBVIOUS
        <5>3. QED
          BY <5>1, <5>2, Zenon DEF Awaits
      <4>2. IsFlag(args[k + 1]) \/ args[k + 1].w \notin Verbs(pm)
        BY <1>2, <1>6, <4>1 DEF Takes, TakesFlag
      <4>3. QED
        BY <3>1, <4>2 DEF VerbFirst
    <3>2. CASE k # 0
      BY <1>1, <1>6, <3>2 DEF ReadInv, VerbFirst
    <3>3. QED
      BY <3>1, <3>2
  <2>3. QED
    BY <1>1, <1>6, <2>1, <2>2 DEF ReadInv, Awaits
<1>7. QED
  BY <1>2, <1>3, <1>4, <1>5, <1>6 DEF Takes

(* What Accounted asks of a command, apart from its settings.              *)
ArgumentsHold(cmd, pm, args, k) ==
    \/ cmd.unparsed /\ cmd.packages = <<>>
    \/ \E v \in 1..k :
          /\ VerbAt(pm, args, v)
          /\ WordsAreNoticed(cmd, pm, args, v, k)
          /\ \A m \in DOMAIN cmd.packages : IsArgument(cmd.packages[m], pm, args, v, k)
          /\ SourcesListNothing(cmd, pm, args, v, k)

IsRecord(cmd) == DOMAIN cmd = {"pm", "packages", "unparsed", "nonLocal"}

Reads(cmd, pm, args, k) ==
    \/ cmd = NoCommand /\ AsksForNothing(pm, args, k)
    \/ IsRecord(cmd) /\ cmd.pm = pm /\ IsCommand(cmd) /\ ArgumentsHold(cmd, pm, args, k)

(* What a loop can list is an argument in the sense of the property.       *)
LEMMA ReadableIsArgument ==
    ASSUME NEW pm, NEW args, NEW v \in Nat, NEW k \in Nat, NEW pkg \in Readable(pm, args, v, k)
    PROVE  IsArgument(pkg, pm, args, v, k) /\ pkg.pinned \in BOOLEAN
<1>1. PICK i \in (v + 1)..k :
          pkg = Package(pm, args[i]) /\ Listable(pm, args[i])
  BY DEF Readable
<1>2. pkg.name = args[i].w /\ pkg.pinned = (args[i].cls \in Pinning(pm)) /\ pkg.pinned \in BOOLEAN
  BY <1>1 DEF Package
<1>3. /\ args[i].cls = "exact" => args[i].cls \in Pinning(pm)
      /\ args[i].cls \in Pinning(pm) =>
             args[i].cls = "exact" \/ (args[i].cls = "tag" /\ pm \notin {"yarn", "go"})
  BY DEF Pinning, OneVersion, AnyVersion
<1>4. QED
  BY <1>1, <1>2, <1>3 DEF IsArgument, Listable

(* Where a source was named, nothing is listed.                            *)
LEMMA SourcesAreKept ==
    ASSUME NEW pm, NEW args, NEW v \in Nat, NEW k \in Nat, NEW s, LoopState(pm, s),
           AfterVerb(pm, args, v, k, s), NEW cmd, cmd.packages # <<>> => s.packages # <<>>
    PROVE  SourcesListNothing(cmd, pm, args, v, k)
<1>1. SUFFICES ASSUME cmd.packages # <<>>, MindsSources(pm), NEW i \in (v + 1)..(k - 1),
                      NamesSource(pm, args, i)
               PROVE  FALSE
  BY DEF SourcesListNothing
<1>2. i \in (v + 1)..k /\ i # k
  OBVIOUS
<1>3. s.disq
  BY <1>1, <1>2 DEF AfterVerb
<1>4. QED
  BY <1>1, <1>3 DEF LoopState

(* A command that lists what the loop has listed. *)
LEMMA ListedRead ==
    ASSUME NEW pm, NEW args, NEW k, NEW s, ReadInv(pm, args, k, s), s.phase = "args",
           NEW cmd, IsRecord(cmd), cmd.pm = pm, cmd.packages = s.packages,
           cmd.unparsed \in BOOLEAN, cmd.nonLocal \in BOOLEAN, cmd.nonLocal => cmd.unparsed,
           s.unparsed => cmd.unparsed
    PROVE  Reads(cmd, pm, args, k)
<1>1. PICK v \in 1..k : AfterVerb(pm, args, v, k, s)
  BY DEF ReadInv
<1>2. v \in Nat /\ k \in Nat /\ LoopState(pm, s)
  BY <1>1 DEF ReadInv
<1>3. cmd.packages \in Seq(Readable(pm, args, v, k))
  BY <1>1 DEF AfterVerb
<1>4. /\ Len(cmd.packages) \in Nat /\ DOMAIN cmd.packages = 1..Len(cmd.packages)
      /\ \A m \in DOMAIN cmd.packages : cmd.packages[m] \in Readable(pm, args, v, k)
  BY <1>3, LenProperties, ElementOfSeq
<1>5. \A m \in DOMAIN cmd.packages : IsArgument(cmd.packages[m], pm, args, v, k)
                                     /\ cmd.packages[m].pinned \in BOOLEAN
  BY <1>2, <1>4, ReadableIsArgument
<1>6. IsCommand(cmd)
  BY <1>4, <1>5 DEF IsCommand
<1>7. VerbAt(pm, args, v) /\ WordsAreNoticed(s, pm, args, v, k)
  BY <1>1 DEF AfterVerb
<1>8. WordsAreNoticed(cmd, pm, args, v, k)
  BY <1>7 DEF WordsAreNoticed
<1>9. SourcesListNothing(cmd, pm, args, v, k)
  BY <1>1, <1>2, SourcesAreKept
<1>10. QED
  BY <1>5, <1>6, <1>7, <1>8, <1>9 DEF Reads, ArgumentsHold

(* The same if --version pins the one package there is.                    *)
LEMMA PinnedRead ==
    ASSUME NEW args, NEW k, NEW s, ReadInv("cargo", args, k, s), s.phase = "args",
           s.version, Len(s.packages) = 1,
           NEW cmd, IsRecord(cmd), cmd.pm = "cargo",
           cmd.packages = [s.packages EXCEPT ![1].pinned = TRUE],
           cmd.unparsed = s.unparsed, cmd.nonLocal = s.nonLocal
    PROVE  Reads(cmd, "cargo", args, k)
<1>1. PICK v \in 1..k : AfterVerb("cargo", args, v, k, s)
  BY DEF ReadInv
<1>2. v \in Nat /\ k \in Nat /\ LoopState("cargo", s)
  BY <1>1 DEF ReadInv
<1>3. PICK ps : ps = s.packages
  OBVIOUS
<1>4. ps \in Seq(Readable("cargo", args, v, k)) /\ Len(ps) = 1
  BY <1>1, <1>3 DEF AfterVerb
<1>5. DOMAIN ps = {1} /\ ps[1] \in Readable("cargo", args, v, k)
  BY <1>4, LenProperties, ElementOfSeq
<1>6. PICK i \in (v + 1)..k : ps[1] = Package("cargo", args[i]) /\ Listable("cargo", args[i])
  BY <1>5 DEF Readable
<1>7. PICK pkg : pkg = [Package("cargo", args[i]) EXCEPT !.pinned = TRUE]
  OBVIOUS
<1>8. pkg.name = args[i].w /\ pkg.pinned = TRUE /\ Package("cargo", args[i]).name = args[i].w
  BY <1>7 DEF Package
<1>9. cmd.packages = [ps EXCEPT ![1] = pkg]
  BY <1>3, <1>6, <1>7
<1>10. DOMAIN cmd.packages = {1} /\ cmd.packages[1] = pkg /\ Len(cmd.packages) = 1
  <2> DEFINE S == Readable("cargo", args, v, k) \cup {pkg}
  <2>1. ps \in Seq(S) /\ pkg \in S /\ 1 \in 1..Len(ps)
    BY <1>4, SeqMonotonic
  <2> HIDE DEF S
  <2>2. Len(cmd.packages) = 1 /\ cmd.packages \in Seq(S)
    <3>1. PICK q : q = [ps EXCEPT ![1] = pkg]
      OBVIOUS
    <3>2. q \in Seq(S)
      BY <2>1, <3>1, ExceptSeq
    <3>3. Len(q) = Len(ps)
      BY <2>1, <3>1, ExceptSeq
    <3>4. q = cmd.packages
      BY <1>9, <3>1
    <3>5. QED
      BY <1>4, <3>2, <3>3, <3>4
  <2>3. DOMAIN cmd.packages = {1} /\ cmd.packages[1] = pkg
    BY <1>5, <1>9
  <2>4. QED
    BY <2>2, <2>3
<1>11. IsCommand(cmd)
  <2>0. 1..1 = {1} /\ 1 \in Nat
    OBVIOUS
  <2>1. 1..Len(cmd.packages) = {1} /\ Len(cmd.packages) \in Nat
    BY <1>10, <2>0, Zenon
  <2>2. cmd.unparsed \in BOOLEAN /\ cmd.nonLocal \in BOOLEAN /\ (cmd.nonLocal => cmd.unparsed)
    BY <1>2 DEF LoopState
  <2>3. cmd.packages[1].pinned \in BOOLEAN
    BY <1>8, <1>10
  <2>4. QED
    BY <1>10, <2>1, <2>2, <2>3 DEF IsCommand
<1>12. IsArgument(pkg, "cargo", args, v, k)
  <2>1. GivesVersion(args, v, k)
    BY <1>1 DEF AfterVerb
  <2>2. QED
    BY <1>6, <1>8, <2>1 DEF IsArgument, GivesVersion, Listable
<1>13. VerbAt("cargo", args, v) /\ WordsAreNoticed(s, "cargo", args, v, k)
  BY <1>1 DEF AfterVerb
<1>14. WordsAreNoticed(cmd, "cargo", args, v, k)
  BY <1>3, <1>5, <1>6, <1>8, <1>10, <1>13 DEF WordsAreNoticed
<1>15. SourcesListNothing(cmd, "cargo", args, v, k)
  <2>1. s.packages # <<>>
    BY <1>3, <1>4
  <2>2. QED
    BY <1>1, <1>2, <2>1, SourcesAreKept
<1>16. QED
  BY <1>10, <1>11, <1>12, <1>13, <1>14, <1>15 DEF Reads, ArgumentsHold

(* The command holds what the loop has gathered.                           *)
LEMMA CommandFields ==
    ASSUME NEW pm, NEW s
    PROVE  LET cmd == Command(pm, s) IN
           /\ IsRecord(cmd) /\ cmd.pm = pm /\ cmd.packages = s.packages
           /\ cmd.unparsed = s.unparsed /\ cmd.nonLocal = s.nonLocal
BY DEF Command, IsRecord

(* Where a loop returns no command, nothing was asked for.                 *)
LEMMA NoVerbFirst ==
    ASSUME NEW pm, NEW args, NEW k, NEW s, ReadInv(pm, args, k, s), s.phase # "args"
    PROVE  AsksForNothing(pm, args, k)
BY DEF ReadInv, AsksForNothing

LEMMA NothingListed ==
    ASSUME NEW pm, NEW args, NEW k, NEW s, ReadInv(pm, args, k, s),
           s.phase = "args" => s.packages = <<>> /\ ~s.unparsed
    PROVE  AsksForNothing(pm, args, k)
<1>1. CASE s.phase # "args"
  BY <1>1, NoVerbFirst
<1>2. CASE s.phase = "args"
  <2>1. PICK v \in 1..k : AfterVerb(pm, args, v, k, s)
    BY <1>2 DEF ReadInv
  <2>2. VerbFirst(pm, args, k) => v = 1
    <3>1. k \in Nat
      BY DEF ReadInv
    <3>2. v # 1 => 1 \in 1..(v - 1)
      BY <2>1, <3>1
    <3>3. QED
      BY <2>1, <3>2 DEF AfterVerb, VerbAt, VerbFirst, MayBeGlobal
  <2>3. \A i \in (v + 1)..k : IsFlag(args[i]) \/ MayBeValue(pm, args, i)
    <3>1. WordsAreNoticed(s, pm, args, v, k) /\ DOMAIN s.packages = {} /\ ~s.unparsed
      BY <1>2, <2>1 DEF AfterVerb
    <3>2. QED
      BY <3>1 DEF WordsAreNoticed
  <2>4. QED
    BY <2>2, <2>3 DEF AsksForNothing
<1>3. QED
  BY <1>1, <1>2

(* The commands of npm, pnpm, pip and go.                                  *)
LEMMA InstallationReads ==
    ASSUME NEW pm, NEW args, NEW k, NEW s, ReadInv(pm, args, k, s)
    PROVE  Reads(Installation(pm, s), pm, args, k)
<1>1. CASE s.phase = "args"
  <2>1. PICK cmd : cmd = Command(pm, s)
    OBVIOUS
  <2>2. /\ IsRecord(cmd) /\ cmd.pm = pm /\ cmd.packages = s.packages
        /\ cmd.unparsed = s.unparsed /\ cmd.nonLocal = s.nonLocal
    BY <2>1, CommandFields
  <2>3. LoopState(pm, s)
    BY DEF ReadInv
  <2>4. /\ cmd.unparsed \in BOOLEAN /\ cmd.nonLocal \in BOOLEAN
        /\ cmd.nonLocal => cmd.unparsed
        /\ s.unparsed => cmd.unparsed
    BY <2>2, <2>3 DEF LoopState
  <2>5. Reads(cmd, pm, args, k)
    BY <1>1, <2>2, <2>4, ListedRead
  <2>6. QED
    BY <1>1, <2>1, <2>5 DEF Installation
<1>2. CASE s.phase # "args"
  BY <1>2, NoVerbFirst DEF Installation, Reads
<1>3. QED
  BY <1>1, <1>2

(* The command of cargo, after --version was applied.                      *)
LEMMA CargoReads ==
    ASSUME NEW args, NEW k, NEW s, ReadInv("cargo", args, k, s)
    PROVE  Reads(Installation("cargo", CargoVersion(s)), "cargo", args, k)
<1>0. LoopState("cargo", s)
  BY DEF ReadInv
<1> PICK t : t = CargoVersion(s)
  OBVIOUS
<1>1. CASE ~s.version
  <2>1. t = s
    BY <1>1 DEF CargoVersion
  <2>2. QED
    BY <2>1, InstallationReads
<1> PICK cmd : cmd = Command("cargo", t)
  OBVIOUS
<1>c. /\ IsRecord(cmd) /\ cmd.pm = "cargo" /\ cmd.packages = t.packages
      /\ cmd.unparsed = t.unparsed /\ cmd.nonLocal = t.nonLocal
  BY CommandFields
<1>2. CASE s.version /\ Len(s.packages) # 1
  <2>1. t = UnreadNonLocal(s)
    BY <1>2 DEF CargoVersion
  <2>2. Is(t, s.phase, s.pending, s.packages, TRUE, TRUE, s.disq, s.version)
    BY <1>0, <2>1, HelperFields DEF LoopState
  <2>3. t.phase = "args" /\ s.phase = "args" /\ t.packages = s.packages
        /\ t.unparsed = TRUE /\ t.nonLocal = TRUE
    BY <1>0, <1>2, <2>2 DEF LoopState, Is
  <2>4. Reads(cmd, "cargo", args, k)
    BY <1>c, <2>3, ListedRead
  <2>5. QED
    BY <2>3, <2>4 DEF Installation
<1>3. CASE s.version /\ Len(s.packages) = 1
  <2>1. t = [s EXCEPT !.packages[1].pinned = TRUE]
    BY <1>3 DEF CargoVersion
  <2>2. /\ s.phase = "args" /\ t.phase = "args"
        /\ t.packages = [s.packages EXCEPT ![1].pinned = TRUE]
        /\ t.unparsed = s.unparsed /\ t.nonLocal = s.nonLocal
    BY <1>0, <1>3, <2>1 DEF LoopState, Fields
  <2>3. Reads(cmd, "cargo", args, k)
    BY <1>3, <1>c, <2>2, PinnedRead
  <2>4. QED
    BY <2>2, <2>3 DEF Installation
<1>4. QED
  BY <1>1, <1>2, <1>3

(* The command of yarn, whose last flag may lack its value.                *)
LEMMA YarnReads ==
    ASSUME NEW args, NEW k, NEW s, ReadInv("yarn", args, k, s)
    PROVE  Reads(YarnCommand(YarnEnd(s)), "yarn", args, k)
<1>0. LoopState("yarn", s)
  BY DEF ReadInv
<1> PICK t : t = YarnEnd(s)
  OBVIOUS
<1>1. /\ t.phase = s.phase /\ t.packages = s.packages /\ t.nonLocal = s.nonLocal
      /\ t.unparsed \in BOOLEAN
      /\ s.unparsed => t.unparsed
  <2>1. CASE t = s
    BY <1>0, <2>1 DEF LoopState
  <2>2. CASE t = Unread(s)
    <3>1. Is(t, s.phase, s.pending, s.packages, TRUE, s.nonLocal, s.disq, s.version)
      BY <1>0, <2>2, HelperFields DEF LoopState
    <3>2. QED
      BY <3>1 DEF Is
  <2>3. QED
    BY <2>1, <2>2 DEF YarnEnd
<1> PICK cmd : cmd = Command("yarn", t)
  OBVIOUS
<1>2. /\ IsRecord(cmd) /\ cmd.pm = "yarn" /\ cmd.packages = s.packages
      /\ cmd.unparsed = t.unparsed /\ cmd.nonLocal = s.nonLocal
      /\ cmd.unparsed \in BOOLEAN /\ cmd.nonLocal \in BOOLEAN
      /\ cmd.nonLocal => cmd.unparsed
      /\ s.unparsed => cmd.unparsed
  <2>1. /\ IsRecord(cmd) /\ cmd.pm = "yarn" /\ cmd.packages = t.packages
        /\ cmd.unparsed = t.unparsed /\ cmd.nonLocal = t.nonLocal
    BY CommandFields
  <2>2. s.nonLocal \in BOOLEAN /\ (s.nonLocal => s.unparsed)
    BY <1>0 DEF LoopState
  <2>3. QED
    BY <1>1, <2>1, <2>2
<1>3. YarnCommand(t) = cmd \/ YarnCommand(t) = NoCommand
  BY DEF YarnCommand
<1>4. CASE YarnCommand(t) = NoCommand
  <2>1. s.phase = "args" => s.packages = <<>> /\ ~s.unparsed
    BY <1>1, <1>2, <1>4 DEF YarnCommand, NoCommand
  <2>2. QED
    BY <1>4, <2>1, NothingListed DEF Reads
<1>5. CASE YarnCommand(t) = cmd /\ s.phase = "args"
  BY <1>2, <1>5, ListedRead
<1>6. CASE YarnCommand(t) = cmd /\ s.phase = "deferred"
  <2>1. cmd.packages = <<>> /\ cmd.unparsed
    BY <1>0, <1>2, <1>6 DEF LoopState
  <2>2. IsCommand(cmd)
    BY <1>2, <2>1 DEF IsCommand
  <2>3. QED
    BY <1>2, <1>6, <2>1, <2>2 DEF Reads, ArgumentsHold
<1>7. QED
  BY <1>1, <1>3, <1>4, <1>5, <1>6 DEF YarnCommand

(* The command of whichever loop it is.                                    *)
LEMMA OutcomeReads ==
    ASSUME NEW pm, NEW args, NEW k, NEW s, ReadInv(pm, args, k, s)
    PROVE  Reads(Outcome(pm, s), pm, args, k)
<1>0. pm \in Managers
  BY DEF ReadInv
<1>1. CASE pm \in {"npm", "pnpm"}
  <2>1. CASE Outcome(pm, s) = Installation(pm, s)
    BY <2>1, InstallationReads
  <2>2. CASE Outcome(pm, s) = NoCommand /\ Installation(pm, s).packages = <<>>
    <3>1. s.phase = "args" => s.packages = <<>>
      BY <2>2, CommandFields DEF Installation
    <3>2. ~s.unparsed
      BY <1>1 DEF ReadInv, LoopState
    <3>3. QED
      BY <2>2, <3>1, <3>2, NothingListed DEF Reads
  <2>3. QED
    BY <1>1, <2>1, <2>2 DEF Outcome, WithPackages
<1>2. CASE pm = "yarn"
  BY <1>2, YarnReads DEF Outcome
<1>3. CASE pm \in {"pip", "pip3", "go"}
  <2>1. Outcome(pm, s) = Installation(pm, s)
    BY <1>3 DEF Outcome
  <2>2. QED
    BY <2>1, InstallationReads
<1>4. CASE pm = "cargo"
  BY <1>4, CargoReads DEF Outcome
<1>5. QED
  BY <1>0, <1>1, <1>2, <1>3, <1>4 DEF Managers

(* Settings and shell syntax around a command only mark it.                *)
LEMMA MarkedIsCommand ==
    ASSUME NEW cmd, NEW inherited, NEW info, IsRecord(cmd), IsCommand(cmd)
    PROVE  IsCommand(Marked(cmd, inherited, info))
<1> PICK c1 : c1 = ApplySourceOverride(cmd, inherited)
  OBVIOUS
<1> DEFINE cleared(z) == [z EXCEPT !.packages = <<>>, !.unparsed = TRUE, !.nonLocal = TRUE]
<1>0. ASSUME NEW z, IsRecord(z)
      PROVE  IsRecord(cleared(z)) /\ IsCommand(cleared(z))
  <2>1. PICK d : d = cleared(z)
    OBVIOUS
  <2>2. IsRecord(d) /\ d.packages = <<>> /\ d.unparsed = TRUE /\ d.nonLocal = TRUE
    BY <1>0, <2>1 DEF IsRecord
  <2>3. IsCommand(d)
    <3>1. /\ d.unparsed \in BOOLEAN /\ d.nonLocal \in BOOLEAN
          /\ d.nonLocal => d.unparsed
      BY <2>2
    <3>2. Len(d.packages) = 0 /\ DOMAIN d.packages = 1..0
      BY <2>2
    <3>3. QED
      BY <3>1, <3>2 DEF IsCommand
  <2>4. QED
    BY <2>1, <2>2, <2>3
<1>1. c1 = cmd \/ c1 = cleared(cmd)
  BY DEF ApplySourceOverride
<1>2. IsRecord(c1) /\ IsCommand(c1)
  BY <1>0, <1>1
<1> PICK c2 : c2 = ApplyShellInfo(c1, info)
  OBVIOUS
<1>3. \/ c2 = c1
      \/ c2 = cleared(c1)
      \/ c2 = [c1 EXCEPT !.unparsed = TRUE]
  BY DEF ApplyShellInfo
<1>4. IsCommand(c2)
  <2>1. CASE c2 = [c1 EXCEPT !.unparsed = TRUE]
    <3>1. c2.packages = c1.packages /\ c2.unparsed = TRUE /\ c2.nonLocal = c1.nonLocal
      BY <1>2, <2>1 DEF IsRecord
    <3>2. QED
      BY <1>2, <3>1 DEF IsCommand
  <2>2. CASE c2 = cleared(c1)
    BY <1>0, <1>2, <2>2
  <2>3. CASE c2 = c1
    BY <1>2, <2>3
  <2>4. QED
    BY <1>3, <2>1, <2>2, <2>3
<1>5. Marked(cmd, inherited, info) = IF cmd = NoCommand THEN NoCommand ELSE c2
  BY DEF Marked
<1>6. QED
  BY <1>4, <1>5

(* A mark takes nothing away from what holds of a command.                 *)
LEMMA MarkedHolds ==
    ASSUME NEW pm, NEW args, NEW k, NEW cmd, ArgumentsHold(cmd, pm, args, k),
           NEW d, d.packages = cmd.packages, d.unparsed = TRUE \/ d.unparsed = cmd.unparsed
    PROVE  ArgumentsHold(d, pm, args, k)
<1>1. CASE cmd.unparsed /\ cmd.packages = <<>>
  BY <1>1 DEF ArgumentsHold
<1>2. ASSUME NEW v \in 1..k,
             /\ VerbAt(pm, args, v)
             /\ WordsAreNoticed(cmd, pm, args, v, k)
             /\ \A m \in DOMAIN cmd.packages : IsArgument(cmd.packages[m], pm, args, v, k)
             /\ SourcesListNothing(cmd, pm, args, v, k)
      PROVE  ArgumentsHold(d, pm, args, k)
  <2>1. WordsAreNoticed(d, pm, args, v, k)
    BY <1>2 DEF WordsAreNoticed
  <2>2. SourcesListNothing(d, pm, args, v, k)
    BY <1>2 DEF SourcesListNothing
  <2>3. QED
    BY <1>2, <2>1, <2>2 DEF ArgumentsHold
<1>3. QED
  BY <1>1, <1>2 DEF ArgumentsHold

(* What holds of a loop is what the property asks of its command.          *)
LEMMA CallIsAccounted ==
    ASSUME NEW frame, ReadInv(frame.pm, frame.args, frame.k, frame.state)
    PROVE  Accounted(frame) /\ (CommandOf(frame) = NoCommand \/ IsCommand(CommandOf(frame)))
<1> PICK pm : pm = frame.pm
  OBVIOUS
<1> PICK args : args = frame.args
  OBVIOUS
<1> PICK k : k = frame.k
  OBVIOUS
<1> PICK inherited : inherited = frame.inherited
  OBVIOUS
<1> PICK info : info = frame.info
  OBVIOUS
<1> PICK o : o = Outcome(pm, frame.state)
  OBVIOUS
<1> PICK cmd : cmd = CommandOf(frame)
  OBVIOUS
<1>1. Reads(o, pm, args, k)
  BY OutcomeReads
<1>2. cmd = Marked(o, inherited, info)
  BY DEF CommandOf
<1>3. CASE o = NoCommand
  <2>1. cmd = NoCommand
    BY <1>2, <1>3 DEF Marked
  <2>2. AsksForNothing(pm, args, k)
    <3>1. o.pm # pm
      BY <1>3 DEF ReadInv, Managers, NoCommand
    <3>2. QED
      BY <1>1, <3>1 DEF Reads
  <2>3. QED
    BY <2>1, <2>2 DEF Accounted
<1>4. CASE o # NoCommand
  <2>1. IsRecord(o) /\ o.pm = pm /\ IsCommand(o) /\ ArgumentsHold(o, pm, args, k)
    BY <1>1, <1>4 DEF Reads
  <2>2. IsCommand(cmd)
    BY <1>2, <2>1, MarkedIsCommand
  <2> DEFINE cleared(z) == [z EXCEPT !.packages = <<>>, !.unparsed = TRUE, !.nonLocal = TRUE]
  <2>3. ASSUME NEW z, IsRecord(z)
        PROVE  IsRecord(cleared(z)) /\ cleared(z).packages = <<>> /\ cleared(z).unparsed = TRUE
    BY <2>3 DEF IsRecord
  <2>4. ASSUME NEW z, IsRecord(z)
        PROVE  LET d == [z EXCEPT !.unparsed = TRUE] IN
               d.packages = z.packages /\ d.unparsed = TRUE
    BY <2>4 DEF IsRecord
  <2> PICK c1 : c1 = ApplySourceOverride(o, inherited)
    OBVIOUS
  <2>5. cmd = ApplyShellInfo(c1, info)
    BY <1>2, <1>4 DEF Marked
  <2>6. CASE (IF pm = "pip3" THEN "pip" ELSE pm) \in inherited
    <3>1. c1 = cleared(o)
      BY <2>1, <2>6 DEF ApplySourceOverride
    <3>2. IsRecord(c1) /\ c1.packages = <<>> /\ c1.unparsed = TRUE
      BY <2>1, <2>3, <3>1
    <3>3. \/ cmd = c1
          \/ cmd = cleared(c1)
          \/ cmd = [c1 EXCEPT !.unparsed = TRUE]
      BY <2>5 DEF ApplyShellInfo
    <3> HIDE DEF cleared
    <3>4. cmd.packages = <<>> /\ cmd.unparsed = TRUE
      BY <2>3, <2>4, <3>2, <3>3
    <3>5. QED
      BY <2>2, <3>4 DEF Accounted
  <2>7. CASE (IF pm = "pip3" THEN "pip" ELSE pm) \notin inherited
    <3>1. c1 = o
      BY <2>1, <2>7 DEF ApplySourceOverride
    <3>2. CASE info.substituted
      <4>1. cmd = cleared(o)
        BY <2>5, <3>1, <3>2 DEF ApplyShellInfo
      <4>2. cmd.packages = <<>> /\ cmd.unparsed = TRUE
        BY <2>1, <2>3, <4>1
      <4>3. QED
        BY <2>2, <4>2 DEF Accounted
    <3>3. CASE ~info.substituted
      <4>1. cmd = o \/ cmd = [o EXCEPT !.unparsed = TRUE]
        BY <2>5, <3>1, <3>3 DEF ApplyShellInfo
      <4>2. cmd.packages = o.packages /\ (cmd.unparsed = TRUE \/ cmd.unparsed = o.unparsed)
        <5>1. CASE cmd = o
          BY <5>1
        <5>2. CASE cmd = [o EXCEPT !.unparsed = TRUE]
          BY <2>1, <2>4, <5>2
        <5>3. QED
          BY <4>1, <5>1, <5>2
      <4>3. ArgumentsHold(cmd, pm, args, k)
        BY <2>1, <4>2, MarkedHolds
      <4>4. QED
        BY <2>2, <2>7, <3>3, <4>3 DEF Accounted, ArgumentsHold
    <3>4. QED
      BY <3>2, <3>3
  <2>8. QED
    BY <2>6, <2>7
<1>5. QED
  BY <1>3, <1>4

-----------------------------------------------------------------------------

Depths == 0..MaxCommandSubstitutionDepth

IsLoop(f) ==
    /\ DOMAIN f = {"at", "todo", "inherited", "depth"}
    /\ f.at = "segments" /\ f.depth \in Depths
IsUnwrapping(f) ==
    /\ DOMAIN f = {"at", "segment", "loop", "tokens", "env", "source", "discarded"}
    /\ f.at \in {"segment", "source"} /\ IsLoop(f.loop)
IsSubstitutions(f) ==
    /\ DOMAIN f = {"at", "depth", "todo"} /\ f.at = "substitutions" /\ f.depth \in Depths
    /\ f.todo # <<>> => f.depth < MaxCommandSubstitutionDepth
IsTokens(f) ==
    /\ DOMAIN f = {"at", "tokens", "inherited", "depth"}
    /\ f.at \in {"tokens", "command"} /\ f.depth \in Depths
IsArguments(f) ==
    /\ DOMAIN f = {"at", "pm", "args", "k", "state", "inherited", "info"}
    /\ f.at = "arguments" /\ ReadInv(f.pm, f.args, f.k, f.state)
IsDoubt(f) ==
    /\ DOMAIN f = {"at", "tokens", "depth", "from", "isLine"}
    /\ f.at = "doubt" /\ f.depth \in Depths /\ f.from \in Nat /\ f.isLine \in BOOLEAN

IsCall(f) ==
    \/ IsLoop(f) \/ IsUnwrapping(f) \/ IsSubstitutions(f) \/ IsTokens(f)
    \/ IsArguments(f) \/ IsDoubt(f)

Stack(q) == \E F : q \in Seq(F) /\ \A f \in F : IsCall(f)
Commands(q) == \E C : q \in Seq(C) /\ \A z \in C : IsCommand(z)

ParseInv == Stack(calls) /\ Commands(results)

(* Calls in front of other calls, and commands after other commands.       *)
LEMMA StackConcat ==
    ASSUME NEW q, Stack(q), NEW r, Stack(r)
    PROVE  Stack(q \o r)
<1>1. PICK F : q \in Seq(F) /\ \A f \in F : IsCall(f)
  BY DEF Stack
<1>2. PICK G : r \in Seq(G) /\ \A f \in G : IsCall(f)
  BY DEF Stack
<1> PICK H : H = F \cup G
  OBVIOUS
<1>3. q \in Seq(H) /\ r \in Seq(H)
  BY <1>1, <1>2, SeqMonotonic
<1>4. q \o r \in Seq(H)
  BY <1>3, ConcatProperties
<1>5. QED
  BY <1>1, <1>2, <1>4 DEF Stack

(* The same of the commands.                                               *)
LEMMA CommandsConcat ==
    ASSUME NEW q, Commands(q), NEW r, Commands(r)
    PROVE  Commands(q \o r)
<1>1. PICK F : q \in Seq(F) /\ \A f \in F : IsCommand(f)
  BY DEF Commands
<1>2. PICK G : r \in Seq(G) /\ \A f \in G : IsCommand(f)
  BY DEF Commands
<1> PICK H : H = F \cup G
  OBVIOUS
<1>3. q \in Seq(H) /\ r \in Seq(H)
  BY <1>1, <1>2, SeqMonotonic
<1>4. q \o r \in Seq(H)
  BY <1>3, ConcatProperties
<1>5. QED
  BY <1>1, <1>2, <1>4 DEF Commands

(* The innermost call, and the others.                                     *)
LEMMA StackPops ==
    ASSUME NEW q, Stack(q), q # <<>>
    PROVE  IsCall(Head(q)) /\ Stack(Tail(q))
<1>1. PICK F : q \in Seq(F) /\ \A f \in F : IsCall(f)
  BY DEF Stack
<1>2. Head(q) \in F /\ Tail(q) \in Seq(F)
  BY <1>1, HeadTailProperties
<1>3. QED
  BY <1>1, <1>2 DEF Stack

(* No call is under way.                                                   *)
LEMMA EmptyStack == Stack(<<>>)
<1>1. PICK F : F = {}
  OBVIOUS
<1>2. <<>> \in Seq(F)
  BY EmptySeq
<1>3. \A f \in F : IsCall(f)
  BY <1>1
<1>4. QED
  BY <1>2, <1>3 DEF Stack

(* One call.                                                               *)
LEMMA StackOfOne ==
    ASSUME NEW a, IsCall(a)
    PROVE  Stack(<<a>>)
<1>1. PICK F : F = {a}
  OBVIOUS
<1>2. <<a>> \in Seq(F)
  BY <1>1
<1>3. \A f \in F : IsCall(f)
  BY <1>1
<1>4. QED
  BY <1>2, <1>3 DEF Stack

(* Two calls.                                                              *)
LEMMA StackOfTwo ==
    ASSUME NEW a, NEW b, IsCall(a), IsCall(b)
    PROVE  Stack(<<a, b>>)
<1>1. PICK F : F = {a, b}
  OBVIOUS
<1>2. <<a, b>> \in Seq(F)
  BY <1>1
<1>3. \A f \in F : IsCall(f)
  BY <1>1
<1>4. QED
  BY <1>2, <1>3 DEF Stack

(* Three calls.                                                            *)
LEMMA StackOfThree ==
    ASSUME NEW a, NEW b, NEW d, IsCall(a), IsCall(b), IsCall(d)
    PROVE  Stack(<<a, b, d>>)
<1>1. PICK F : F = {a, b, d}
  OBVIOUS
<1>2. <<a, b, d>> \in Seq(F)
  BY <1>1
<1>3. \A f \in F : IsCall(f)
  BY <1>1
<1>4. QED
  BY <1>2, <1>3 DEF Stack

(* No command was found.                                                   *)
LEMMA NoCommands == Commands(<<>>)
<1>1. PICK F : F = {}
  OBVIOUS
<1>2. <<>> \in Seq(F)
  BY EmptySeq
<1>3. \A f \in F : IsCommand(f)
  BY <1>1
<1>4. QED
  BY <1>2, <1>3 DEF Commands

(* One command was found.                                                  *)
LEMMA OneCommand ==
    ASSUME NEW cmd, IsCommand(cmd)
    PROVE  Commands(<<cmd>>)
<1>1. PICK F : F = {cmd}
  OBVIOUS
<1>2. <<cmd>> \in Seq(F)
  BY <1>1
<1>3. \A f \in F : IsCommand(f)
  BY <1>1
<1>4. QED
  BY <1>2, <1>3 DEF Commands

(* A loop that has read nothing.                                           *)
LEMMA BeginRead ==
    ASSUME NEW pm \in Managers, NEW args
    PROVE  ReadInv(pm, args, 0, Begin)
<1> PICK s : s = Begin
  OBVIOUS
<1>1. Is(s, "flags", "", <<>>, FALSE, FALSE, FALSE, FALSE)
  BY DEF Begin, Is, Fields
<1>2. LoopState(pm, s)
  BY <1>1 DEF Is, LoopState, Phases
<1>3. Awaits(pm, args, 0, s) /\ s.phase = "flags"
  BY <1>1 DEF Is, Awaits
<1>4. QED
  BY <1>2, <1>3 DEF ReadInv, VerbFirst

(* What the heuristics report is a command without packages.               *)
LEMMA SuspiciousIsCommand ==
    ASSUME NEW pm
    PROVE  IsRecord(Suspicious(pm)) /\ IsCommand(Suspicious(pm))
<1> PICK d : d = Suspicious(pm)
  OBVIOUS
<1>1. IsRecord(d) /\ d.packages = <<>> /\ d.unparsed = TRUE /\ d.nonLocal = TRUE
  BY DEF Suspicious, IsRecord
<1>2. Len(d.packages) = 0 /\ DOMAIN d.packages = 1..0
  BY <1>1
<1>3. IsCommand(d)
  <2>1. /\ d.unparsed \in BOOLEAN /\ d.nonLocal \in BOOLEAN
        /\ d.nonLocal => d.unparsed
    BY <1>1
  <2>2. QED
    BY <1>2, <2>1 DEF IsCommand
<1>4. QED
  BY <1>1, <1>3

(* One prefix less, whichever it was: the loop to go on with is the same.  *)
LEMMA PrefixKeeps ==
    ASSUME NEW r, IsUnwrapping(r)
    PROVE  IsUnwrapping(UnwrapPrefix(r))
<1> DEFINE names == {"at", "segment", "loop", "tokens", "env", "source", "discarded"}
<1>1. ASSUME NEW q, IsUnwrapping(q), NEW x, NEW y
      PROVE  /\ IsUnwrapping([q EXCEPT !.discarded = x, !.tokens = y])
             /\ IsUnwrapping([q EXCEPT !.tokens = x])
             /\ IsUnwrapping([q EXCEPT !.source = x])
             /\ IsUnwrapping([q EXCEPT !.env = x])
  BY <1>1 DEF IsUnwrapping
<1>2. ASSUME NEW q, IsUnwrapping(q), NEW k
      PROVE  IsUnwrapping(Discard(q, k))
  BY <1>1, <1>2 DEF Discard
<1>3. ASSUME NEW q, IsUnwrapping(q)
      PROVE  IsUnwrapping(Assign(q))
  BY <1>1, <1>2, <1>3 DEF Assign
<1>4. ASSUME NEW q, IsUnwrapping(q)
      PROVE  IsUnwrapping(EnterShell(q)) /\ IsUnwrapping(EnterPython(q))
  BY <1>1, <1>2, <1>4 DEF EnterShell, EnterPython
<1>5. IsUnwrapping(EnvArgument(r))
  BY <1>1, <1>2, <1>3 DEF EnvArgument
<1>6. IsUnwrapping(Unwrap(r))
  BY <1>1, <1>2, <1>3, <1>4 DEF Unwrap, DiscardFlags
<1>7. QED
  BY <1>1, <1>5, <1>6 DEF UnwrapPrefix

(* The place of a call tells what it holds.                                *)
LEMMA KindOfCall ==
    ASSUME NEW f, IsCall(f)
    PROVE  /\ f.at = "segments" => IsLoop(f)
           /\ f.at \in {"segment", "source"} => IsUnwrapping(f)
           /\ f.at = "substitutions" => IsSubstitutions(f)
           /\ f.at \in {"tokens", "command"} => IsTokens(f)
           /\ f.at = "arguments" => IsArguments(f)
           /\ f.at = "doubt" => IsDoubt(f)
BY DEF IsCall, IsLoop, IsUnwrapping, IsSubstitutions, IsTokens, IsArguments, IsDoubt

(* A step replaces the innermost call.                                     *)
LEMMA Pushes ==
    ASSUME NEW q, Stack(q), q # <<>>, NEW inner, Stack(inner)
    PROVE  Stack(inner \o Tail(q))
BY StackPops, StackConcat

(* The calls that a step makes. *)
LEMMA NewCalls ==
    ASSUME NEW depth \in Depths, NEW tokens, NEW inherited
    PROVE  /\ IsLoop(SegmentLoop(tokens, inherited, depth))
           /\ IsSubstitutions(Substitutions(tokens, depth))
           /\ \A at \in {"tokens", "command"} : IsTokens(TokensCall(at, tokens, inherited, depth))
           /\ \A from \in Nat, isLine \in BOOLEAN : IsDoubt(Doubt(tokens, depth, from, isLine))
<1>1. IsLoop(SegmentLoop(tokens, inherited, depth))
  BY DEF IsLoop, SegmentLoop
<1>2. IsSubstitutions(Substitutions(tokens, depth))
  <2>1. PICK z : z = Substitutions(tokens, depth)
    OBVIOUS
  <2>2. DOMAIN z = {"at", "depth", "todo"} /\ z.at = "substitutions" /\ z.depth = depth
    BY <2>1 DEF Substitutions
  <2>3. depth >= MaxCommandSubstitutionDepth => z.todo = <<>>
    BY <2>1 DEF Substitutions
  <2>4. depth >= MaxCommandSubstitutionDepth \/ depth < MaxCommandSubstitutionDepth
    BY DEF Depths, MaxCommandSubstitutionDepth
  <2>5. QED
    BY <2>1, <2>2, <2>3, <2>4 DEF IsSubstitutions
<1>3. \A at \in {"tokens", "command"} : IsTokens(TokensCall(at, tokens, inherited, depth))
  BY DEF IsTokens, TokensCall
<1>4. \A from \in Nat, isLine \in BOOLEAN : IsDoubt(Doubt(tokens, depth, from, isLine))
  BY DEF IsDoubt, Doubt
<1>5. QED
  BY <1>1, <1>2, <1>3, <1>4

(* The commands so far are counted.                                        *)
LEMMA CommandsLen ==
    ASSUME NEW q, Commands(q)
    PROVE  Len(q) \in Nat
BY LenProperties DEF Commands

(* The steps, one after the other: each keeps the invariant.               *)
LEMMA ReadLineKeeps ==
    ASSUME ParseInv, NEW l, ReadLine(l)
    PROVE  ParseInv'
<1>1. PICK z : z = SegmentLoop(Segments(l.tokens), {}, 0)
  OBVIOUS
<1>2. 0 \in Depths
  BY DEF Depths, MaxCommandSubstitutionDepth
<1>3. IsCall(z)
  BY <1>1, <1>2, NewCalls DEF IsCall
<1>4. Stack(<<z>>)
  BY <1>3, StackOfOne
<1>5. calls' = <<z>>
  BY <1>1, Zenon DEF ReadLine
<1>6. results' = results
  BY DEF ReadLine
<1>7. QED
  BY <1>4, <1>5, <1>6 DEF ParseInv

(* The next segment is unwrapped twice, and the loop goes on.              *)
LEMMA NextSegmentKeeps ==
    ASSUME ParseInv, NextSegment
    PROVE  ParseInv'
<1> PICK q : q = calls
  OBVIOUS
<1> PICK frame : frame = Call
  OBVIOUS
<1>1. Stack(q) /\ q # <<>> /\ frame = Head(q) /\ frame.at = "segments"
  BY DEF ParseInv, NextSegment, At, Call
<1>2. IsLoop(frame)
  BY <1>1, StackPops, KindOfCall
<1>3. PICK loop : loop = [frame EXCEPT !.todo = Tail(@)]
  OBVIOUS
<1>4. IsLoop(loop)
  BY <1>2, <1>3 DEF IsLoop
<1>5. PICK segment : segment = Head(frame.todo)
  OBVIOUS
<1>6. PICK a : a = Unwrapping("segment", segment, segment, loop)
  OBVIOUS
<1>7. PICK b : b = Unwrapping("source", segment, StripRedirections(segment).tokens, loop)
  OBVIOUS
<1>8. IsUnwrapping(a) /\ IsUnwrapping(b)
  BY <1>4, <1>6, <1>7 DEF IsUnwrapping, Unwrapping
<1>9. Stack(<<a, b>>)
  BY <1>8, StackOfTwo DEF IsCall
<1>10. calls' = <<a, b>> \o Tail(q) /\ results' = results
  BY <1>3, <1>5, <1>6, <1>7 DEF NextSegment, Continue
<1>11. QED
  BY <1>1, <1>9, <1>10, Pushes DEF ParseInv

(* A substitution is one level further down, which the limit allows.       *)
LEMMA NextSubstitutionKeeps ==
    ASSUME ParseInv, NextSubstitution
    PROVE  ParseInv'
<1> PICK q : q = calls
  OBVIOUS
<1> PICK frame : frame = Call
  OBVIOUS
<1>1. Stack(q) /\ q # <<>> /\ frame = Head(q) /\ frame.at = "substitutions" /\ frame.todo # <<>>
  BY DEF ParseInv, NextSubstitution, At, Call
<1>2. IsSubstitutions(frame)
  BY <1>1, StackPops, KindOfCall
<1>3. PICK n : n = Len(results)
  OBVIOUS
<1>4. n \in Nat
  BY <1>3, CommandsLen DEF ParseInv
<1>5. PICK d : d = frame.depth
  OBVIOUS
<1>6. d \in Depths /\ d + 1 \in Depths /\ d < MaxCommandSubstitutionDepth
  BY <1>1, <1>2, <1>5 DEF IsSubstitutions, Depths, MaxCommandSubstitutionDepth
<1>7. PICK l : l = Head(frame.todo)
  OBVIOUS
<1>8. PICK a : a = SegmentLoop(Segments(l), {}, d + 1)
  OBVIOUS
<1>9. PICK b : b = Doubt(l, d + 1, n, TRUE)
  OBVIOUS
<1>10. PICK z : z = [frame EXCEPT !.todo = Tail(@)]
  OBVIOUS
<1>11. IsLoop(a) /\ IsDoubt(b)
  BY <1>4, <1>6, <1>8, <1>9, NewCalls
<1>12. IsSubstitutions(z)
  BY <1>2, <1>5, <1>6, <1>10 DEF IsSubstitutions
<1>13. Stack(<<a, b, z>>)
  BY <1>11, <1>12, StackOfThree DEF IsCall
<1>14. calls' = <<a, b, z>> \o Tail(q) /\ results' = results
  BY <1>3, <1>5, <1>7, <1>8, <1>9, <1>10 DEF NextSubstitution, Continue
<1>15. QED
  BY <1>1, <1>13, <1>14, Pushes DEF ParseInv

(* A call that ends adds its commands.                                     *)
LEMMA ReturnKeeps ==
    ASSUME ParseInv, calls # <<>>, NEW cmds, Commands(cmds), Return(cmds)
    PROVE  ParseInv'
<1> PICK q : q = calls
  OBVIOUS
<1> PICK r : r = results
  OBVIOUS
<1>1. calls' = <<>> \o Tail(q) /\ results' = r \o cmds
  BY DEF Return, Continue
<1>2. Stack(q) /\ Commands(r) /\ q # <<>>
  BY DEF ParseInv
<1>3. Stack(<<>> \o Tail(q)) /\ Commands(r \o cmds)
  BY <1>2, EmptyStack, Pushes, CommandsConcat
<1>4. QED
  BY <1>1, <1>3 DEF ParseInv

(* A prefix is left out.                                                   *)
LEMMA StripPrefixKeeps ==
    ASSUME ParseInv, StripPrefix
    PROVE  ParseInv'
<1> PICK q : q = calls
  OBVIOUS
<1> PICK frame : frame = Call
  OBVIOUS
<1>1. Stack(q) /\ q # <<>> /\ frame = Head(q) /\ frame.at \in {"segment", "source"}
  BY DEF ParseInv, StripPrefix, At, Call
<1>2. IsUnwrapping(frame)
  BY <1>1, StackPops, KindOfCall
<1>3. PICK a : a = UnwrapPrefix(frame)
  OBVIOUS
<1>4. IsUnwrapping(a)
  BY <1>2, <1>3, PrefixKeeps
<1>5. Stack(<<a>>)
  BY <1>4, StackOfOne DEF IsCall
<1>6. calls' = <<a>> \o Tail(q) /\ results' = results
  BY <1>3 DEF StripPrefix, Continue
<1>7. QED
  BY <1>1, <1>5, <1>6, Pushes DEF ParseInv

(* What was left out is searched for substitutions, the rest parsed.       *)
LEMMA ParseSegmentKeeps ==
    ASSUME ParseInv, ParseSegment
    PROVE  ParseInv'
<1> PICK q : q = calls
  OBVIOUS
<1> PICK frame : frame = Call
  OBVIOUS
<1>1. Stack(q) /\ q # <<>> /\ frame = Head(q) /\ frame.at = "segment"
  BY DEF ParseInv, ParseSegment, At, Call
<1>2. IsUnwrapping(frame)
  BY <1>1, StackPops, KindOfCall
<1>3. PICK d : d = frame.loop.depth
  OBVIOUS
<1>4. d \in Depths
  BY <1>2, <1>3 DEF IsUnwrapping, IsLoop
<1>5. PICK a : a = Substitutions(frame.discarded, d)
  OBVIOUS
<1>6. PICK b : b = TokensCall("tokens", frame.tokens, frame.loop.inherited \cup frame.source, d)
  OBVIOUS
<1>7. PICK inner : inner = <<a>> \o (IF frame.tokens = <<>> THEN <<>> ELSE <<b>>)
  OBVIOUS
<1>8. IsSubstitutions(a) /\ IsTokens(b)
  BY <1>4, <1>5, <1>6, NewCalls
<1>9. Stack(<<a>>) /\ Stack(<<b>>) /\ Stack(<<>>)
  BY <1>8, EmptyStack, StackOfOne DEF IsCall
<1>10. Stack(inner)
  BY <1>7, <1>9, StackConcat
<1>11. calls' = inner \o Tail(q) /\ results' = results
  BY <1>3, <1>5, <1>6, <1>7 DEF ParseSegment, Continue
<1>12. QED
  BY <1>1, <1>10, <1>11, Pushes DEF ParseInv

(* The loop goes on with what the segment has set.                         *)
LEMMA InheritSourceKeeps ==
    ASSUME ParseInv, InheritSource
    PROVE  ParseInv'
<1> PICK q : q = calls
  OBVIOUS
<1> PICK frame : frame = Call
  OBVIOUS
<1>1. Stack(q) /\ q # <<>> /\ frame = Head(q) /\ frame.at = "source"
  BY DEF ParseInv, InheritSource, At, Call
<1>2. IsUnwrapping(frame)
  BY <1>1, StackPops, KindOfCall
<1>3. PICK a : a = [frame.loop EXCEPT !.inherited = @ \cup SegmentSource(frame.segment, frame.tokens)]
  OBVIOUS
<1>4. IsLoop(a)
  BY <1>2, <1>3 DEF IsUnwrapping, IsLoop
<1>5. Stack(<<a>>)
  BY <1>4, StackOfOne DEF IsCall
<1>6. calls' = <<a>> \o Tail(q) /\ results' = results
  BY <1>3 DEF InheritSource, Continue
<1>7. QED
  BY <1>1, <1>5, <1>6, Pushes DEF ParseInv

(* Several commands, or one.                                               *)
LEMMA ParseTokensKeeps ==
    ASSUME ParseInv, ParseTokens
    PROVE  ParseInv'
<1> PICK q : q = calls
  OBVIOUS
<1> PICK frame : frame = Call
  OBVIOUS
<1>1. Stack(q) /\ q # <<>> /\ frame = Head(q) /\ frame.at = "tokens"
  BY DEF ParseInv, ParseTokens, At, Call
<1>2. IsTokens(frame)
  BY <1>1, StackPops, KindOfCall
<1>3. PICK d : d = frame.depth
  OBVIOUS
<1>4. d \in Depths
  BY <1>2, <1>3 DEF IsTokens
<1>5. PICK n : n = Len(results)
  OBVIOUS
<1>6. n \in Nat
  BY <1>5, CommandsLen DEF ParseInv
<1>7. PICK segments : segments = Segments(frame.tokens)
  OBVIOUS
<1>8. PICK a : a = SegmentLoop(segments, frame.inherited, d)
  OBVIOUS
<1>9. PICK b : b = Substitutions(frame.tokens, d)
  OBVIOUS
<1>10. PICK z : z = [frame EXCEPT !.at = "command"]
  OBVIOUS
<1>11. PICK e : e = Doubt(frame.tokens, d, n, FALSE)
  OBVIOUS
<1>12. IsLoop(a) /\ IsSubstitutions(b) /\ IsDoubt(e)
  BY <1>4, <1>6, <1>8, <1>9, <1>11, NewCalls
<1>13. IsTokens(z)
  BY <1>2, <1>10 DEF IsTokens
<1>14. Stack(<<a>>) /\ Stack(<<b, z, e>>)
  BY <1>12, <1>13, StackOfOne, StackOfThree DEF IsCall
<1>15. PICK inner : inner = IF Len(segments) > 1 THEN <<a>> ELSE <<b, z, e>>
  OBVIOUS
<1>16. calls' = inner \o Tail(q) /\ results' = results
  BY <1>3, <1>5, <1>7, <1>8, <1>9, <1>10, <1>11, <1>15 DEF ParseTokens, Continue
<1>17. Stack(inner)
  BY <1>14, <1>15
<1>18. QED
  BY <1>1, <1>16, <1>17, Pushes DEF ParseInv

(* A parser finds at most one command.                                     *)
LEMMA FoundCommands ==
    ASSUME NEW cmd, cmd = NoCommand \/ IsCommand(cmd)
    PROVE  Commands(Found(cmd))
<1>1. CASE cmd = NoCommand
  BY <1>1, NoCommands DEF Found
<1>2. CASE cmd # NoCommand
  <2>1. Found(cmd) = <<cmd>>
    BY <1>2 DEF Found
  <2>2. QED
    BY <1>2, <2>1, OneCommand
<1>3. QED
  BY <1>1, <1>2

(* The parser for the first word begins, or none is found.                 *)
LEMMA ParseCommandKeeps ==
    ASSUME ParseInv, ParseCommand
    PROVE  ParseInv'
<1> PICK q : q = calls
  OBVIOUS
<1> PICK frame : frame = Call
  OBVIOUS
<1>1. Stack(q) /\ q # <<>> /\ frame = Head(q) /\ frame.at = "command"
  BY DEF ParseInv, ParseCommand, At, Call
<1>2. PICK info : info = PrepareTokens(frame.tokens)
  OBVIOUS
<1>3. PICK pm : pm = Head(info.tokens).w
  OBVIOUS
<1>4. PICK a : a = Arguments(info, frame.inherited)
  OBVIOUS
<1>5. PICK cmds : cmds = Found(Marked(Suspicious("uv"), frame.inherited, info))
  OBVIOUS
<1>6. \/ pm \in Managers /\ calls' = <<a>> \o Tail(q) /\ results' = results
      \/ Return(cmds)
      \/ Return(<<>>)
  BY <1>2, <1>3, <1>4, <1>5 DEF ParseCommand, Continue
<1>7. CASE pm \in Managers /\ calls' = <<a>> \o Tail(q) /\ results' = results
  <2>1. /\ DOMAIN a = {"at", "pm", "args", "k", "state", "inherited", "info"}
        /\ a.at = "arguments" /\ a.pm = pm /\ a.k = 0 /\ a.state = Begin
    BY <1>3, <1>4 DEF Arguments
  <2>2. ReadInv(a.pm, a.args, a.k, a.state)
    BY <1>7, <2>1, BeginRead
  <2>3. Stack(<<a>>)
    BY <2>1, <2>2, StackOfOne DEF IsArguments, IsCall
  <2>4. QED
    BY <1>1, <1>7, <2>3, Pushes DEF ParseInv
<1>8. CASE Return(cmds)
  <2>1. Commands(cmds)
    BY <1>5, SuspiciousIsCommand, MarkedIsCommand, FoundCommands
  <2>2. QED
    BY <1>1, <1>8, <2>1, ReturnKeeps
<1>9. CASE Return(<<>>)
  BY <1>1, <1>9, NoCommands, ReturnKeeps
<1>10. QED
  BY <1>6, <1>7, <1>8, <1>9

(* An iteration of a loop.                                                 *)
LEMMA ReadArgumentKeeps ==
    ASSUME ParseInv, ReadArgument
    PROVE  ParseInv'
<1> PICK q : q = calls
  OBVIOUS
<1> PICK frame : frame = Call
  OBVIOUS
<1>1. Stack(q) /\ q # <<>> /\ frame = Head(q) /\ frame.at = "arguments"
  BY DEF ParseInv, ReadArgument, At, Call
<1>2. IsArguments(frame)
  BY <1>1, StackPops, KindOfCall
<1>3. PICK a : a = [frame EXCEPT !.k = @ + 1,
                                !.state = Argument(frame.pm, @, frame.args[frame.k + 1])]
  OBVIOUS
<1>4. /\ DOMAIN a = DOMAIN frame /\ a.at = "arguments" /\ a.pm = frame.pm /\ a.args = frame.args
      /\ a.k = frame.k + 1 /\ a.state = Argument(frame.pm, frame.state, frame.args[frame.k + 1])
  BY <1>2, <1>3 DEF IsArguments
<1>5. ReadInv(frame.pm, frame.args, frame.k, frame.state)
  BY <1>2 DEF IsArguments
<1>6. ReadInv(a.pm, a.args, a.k, a.state)
  BY <1>4, <1>5, ReadIsKept
<1>7. Stack(<<a>>)
  BY <1>2, <1>4, <1>6, StackOfOne DEF IsArguments, IsCall
<1>8. calls' = <<a>> \o Tail(q) /\ results' = results
  BY <1>3 DEF ReadArgument, Continue
<1>9. QED
  BY <1>1, <1>7, <1>8, Pushes DEF ParseInv

(* A loop ends, and its command is one of the results.                     *)
LEMMA EndCommandKeeps ==
    ASSUME ParseInv, EndCommand
    PROVE  ParseInv'
<1> PICK q : q = calls
  OBVIOUS
<1> PICK frame : frame = Call
  OBVIOUS
<1>1. Stack(q) /\ q # <<>> /\ frame = Head(q) /\ frame.at = "arguments"
  BY DEF ParseInv, EndCommand, At, Call
<1>2. ReadInv(frame.pm, frame.args, frame.k, frame.state)
  BY <1>1, StackPops, KindOfCall DEF IsArguments
<1>3. PICK cmds : cmds = Found(CommandOf(frame))
  OBVIOUS
<1>4. Commands(cmds)
  BY <1>2, <1>3, CallIsAccounted, FoundCommands
<1>5. Return(cmds)
  BY <1>3 DEF EndCommand
<1>6. QED
  BY <1>1, <1>4, <1>5, ReturnKeeps

(* The heuristics add a suspicious command, or nothing.                    *)
LEMMA SuspectKeeps ==
    ASSUME ParseInv, Suspect
    PROVE  ParseInv'
<1> PICK q : q = calls
  OBVIOUS
<1> PICK frame : frame = Call
  OBVIOUS
<1>1. Stack(q) /\ q # <<>> /\ frame = Head(q) /\ frame.at = "doubt"
  BY DEF ParseInv, Suspect, At, Call
<1>2. IsDoubt(frame)
  BY <1>1, StackPops, KindOfCall
<1>3. PICK n : n = Len(results)
  OBVIOUS
<1>4. n \in Nat
  BY <1>3, CommandsLen DEF ParseInv
<1>5. PICK ofLine : ofLine = SuspectedLine(frame.tokens, frame.depth)
  OBVIOUS
<1>6. PICK tokens : tokens = Suspected(frame.tokens, frame.depth)
  OBVIOUS
<1>7. PICK cmds : cmds = CASE n > frame.from -> <<>>
                             [] n <= frame.from /\ frame.isLine -> ofLine
                             [] n <= frame.from /\ ~frame.isLine -> tokens
  OBVIOUS
<1>8. Return(cmds)
  BY <1>3, <1>5, <1>6, <1>7 DEF Suspect
<1>9. cmds = <<>> \/ cmds = ofLine \/ cmds = tokens
  <2>1. frame.from \in Nat /\ frame.isLine \in BOOLEAN
    BY <1>2 DEF IsDoubt
  <2>2. n > frame.from \/ n <= frame.from
    BY <1>4, <2>1
  <2>3. ~(n > frame.from /\ n <= frame.from)
    BY <1>4, <2>1
  <2>4. QED
    BY <1>7, <2>1, <2>2, <2>3
<1>10. ofLine = <<>> \/ \E pm : ofLine = <<Suspicious(pm)>>
  BY <1>5 DEF SuspectedLine
<1>11. tokens = <<>> \/ \E pm : tokens = <<Suspicious(pm)>>
  BY <1>6 DEF Suspected
<1>12. ASSUME NEW pm PROVE Commands(<<Suspicious(pm)>>)
  BY SuspiciousIsCommand, OneCommand
<1>13. Commands(cmds)
  BY <1>9, <1>10, <1>11, <1>12, NoCommands
<1>14. QED
  BY <1>1, <1>8, <1>13, ReturnKeeps

(* No segment and no substitution is left.                                 *)
LEMMA EndLoopKeeps ==
    ASSUME ParseInv, EndLoop
    PROVE  ParseInv'
<1>1. calls # <<>> /\ Return(<<>>)
  BY DEF EndLoop, At
<1>2. QED
  BY <1>1, NoCommands, ReturnKeeps

(* Every step keeps the invariant,                                         *)
LEMMA ParseInvKept ==
    ASSUME ParseInv, [ParseNext]_parsing
    PROVE  ParseInv'
<1>1. CASE UNCHANGED parsing
  BY <1>1 DEF parsing, ParseInv
<1>2. CASE ParseNext
  BY <1>2, ReadLineKeeps, NextSegmentKeeps, NextSubstitutionKeeps, EndLoopKeeps, StripPrefixKeeps,
     ParseSegmentKeeps, InheritSourceKeeps, ParseTokensKeeps, ParseCommandKeeps,
     ReadArgumentKeeps, EndCommandKeeps, SuspectKeeps DEF ParseNext
<1>3. QED
  BY <1>1, <1>2

(* which holds from the first state on.                                    *)
LEMMA ParseInvHolds == ParseSpec => []ParseInv
<1>1. InitParse => ParseInv
  BY EmptyStack, NoCommands DEF InitParse, ParseInv
<1>2. ParseInv /\ [ParseNext]_parsing => ParseInv'
  BY ParseInvKept
<1>3. QED
  BY <1>1, <1>2, PTL DEF ParseSpec

(* What the invariant says of each call.                                   *)
LEMMA StackElements ==
    ASSUME NEW q, Stack(q), NEW i \in DOMAIN q
    PROVE  IsCall(q[i])
<1>1. PICK F : q \in Seq(F) /\ \A f \in F : IsCall(f)
  BY DEF Stack
<1>2. q[i] \in F
  BY <1>1, LenProperties, ElementOfSeq
<1>3. QED
  BY <1>1, <1>2

(* What the invariant says of the results.                                 *)
LEMMA CommandsAreCommands ==
    ASSUME NEW q, Commands(q)
    PROVE  AreCommands(q)
<1>1. PICK C : q \in Seq(C) /\ \A z \in C : IsCommand(z)
  BY DEF Commands
<1>2. Len(q) \in Nat /\ DOMAIN q = 1..Len(q) /\ \A i \in DOMAIN q : q[i] \in C
  BY <1>1, LenProperties, ElementOfSeq
<1>3. QED
  BY <1>1, <1>2 DEF AreCommands

(* For every line and every state of its parse: a command that a package   *)
(* manager's loop returns accounts for all of its arguments, and what was  *)
(* found are commands as the evaluator takes them (LinesAssumption).       *)
THEOREM ArgumentsAccounted == ParseSpec => []ArgumentsAreAccounted
<1>1. ParseInv => ArgumentsAreAccounted
  <2>1. SUFFICES ASSUME ParseInv PROVE ArgumentsAreAccounted
    OBVIOUS
  <2>2. AreCommands(results)
    BY <2>1, CommandsAreCommands DEF ParseInv
  <2>3. ASSUME NEW i \in DOMAIN calls, calls[i].at = "arguments"
        PROVE  Accounted(calls[i])
    <3>1. IsCall(calls[i])
      BY <2>1, <2>3, StackElements DEF ParseInv
    <3>2. IsArguments(calls[i])
      BY <2>3, <3>1, KindOfCall
    <3>3. QED
      BY <3>2, CallIsAccounted DEF IsArguments
  <2>4. QED
    BY <2>2, <2>3 DEF ArgumentsAreAccounted
<1>2. QED
  BY <1>1, ParseInvHolds, PTL

(* The substitutions of a line are read no deeper than the code's limit.   *)
DepthIsBounded ==
    \A i \in DOMAIN calls : LET frame == calls[i] IN
        /\ frame.at \in {"segments", "substitutions", "tokens", "command", "doubt"} =>
               frame.depth \in 0..MaxCommandSubstitutionDepth
        /\ frame.at \in {"segment", "source"} =>
               frame.loop.depth \in 0..MaxCommandSubstitutionDepth

(* For every line, however its substitutions are nested: no call is ever   *)
(* further down than the limit, and a substitution at the limit is not     *)
(* parsed, but left to the heuristics.                                     *)
THEOREM DepthBounded == ParseSpec => []DepthIsBounded
<1>1. ParseInv => DepthIsBounded
  <2>1. SUFFICES ASSUME ParseInv, NEW i \in DOMAIN calls, NEW frame, frame = calls[i]
                 PROVE  /\ frame.at \in {"segments", "substitutions", "tokens", "command",
                                        "doubt"} =>
                               frame.depth \in 0..MaxCommandSubstitutionDepth
                        /\ frame.at \in {"segment", "source"} =>
                               frame.loop.depth \in 0..MaxCommandSubstitutionDepth
    BY DEF DepthIsBounded
  <2>2. IsCall(frame)
    BY <2>1, StackElements DEF ParseInv
  <2>3. QED
    BY <2>2, KindOfCall DEF IsLoop, IsUnwrapping, IsSubstitutions, IsTokens, IsDoubt, Depths
<1>2. QED
  BY <1>1, ParseInvHolds, PTL
=============================================================================
