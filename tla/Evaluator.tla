----------------------------- MODULE Evaluator ------------------------------
(***************************************************************************)
(* Evaluator.Evaluate of internal/cli: one command line, from the parsed   *)
(* commands to the answer that a hook or the evaluate subcommand prints.   *)
(*                                                                         *)
(* A command line is                                                       *)
(*    cmds     what ParseAll returns, a sequence of commands               *)
(*                [pm, packages, unparsed, nonLocal]                       *)
(*             with packages a sequence of [name, pinned]                  *)
(*    install  LooksLikeInstall, yarn  LooksLikeYarnInstall                *)
(*    direct   it starts with the package manager itself and has no shell  *)
(*             operator (the token test of rewriteEligible)                *)
(* A configuration has, besides the policy, the provider's kind and the    *)
(* package managers switched on.  Select is taken whole, as what Selection *)
(* promises; VersionSelect shows that the loop behind it keeps that promise.*)
(***************************************************************************)
EXTENDS Selection, ParsedCommands

CONSTANTS Lines,     \* command lines
          Configs,   \* configurations
          Sessions,  \* modes the evaluator is called in
          Names,     \* package names
          NoVersion  \* stands for no version at all

ASSUME NoVersionAssumption == NoVersion \notin Versions
ASSUME LinesAssumption ==
    \A l \in Lines :
       /\ AreCommands(l.cmds)
       /\ \A k \in DOMAIN l.cmds : \A j \in DOMAIN l.cmds[k].packages :
             l.cmds[k].packages[j].name \in Names

VARIABLES line, cfg, mode,  \* the call
          pc,
          available,        \* provAvailable, read once
          c, p,             \* cmdIdx and the index into cmd.Packages, from 1
          found,            \* what Select returned for that package
          overall,          \* overallDecision
          packages,         \* the evaluations so far, by command and package
          selectedVersions, \* by package name, NoVersion for a missing key
          anyRewritten,
          unsupportedByCmd, \* set of command indices
          result,           \* the answer under way or returned
          logged            \* whether the audit log holds it

call == <<line, cfg, mode>>
judging == <<available, c, p, found, overall, packages, selectedVersions,
             anyRewritten, unsupportedByCmd>>
vars == <<call, pc, judging, result, logged>>

NoAnswer == [decision |-> "none", rewritten |-> <<>>]
Answer(d) == [decision |-> d, rewritten |-> <<>>]
NotFound == [out |-> NoOutcome, list |-> <<>>]

-----------------------------------------------------------------------------
(* Which package managers are guarded, and which command lines are left to *)
(* the user before any package is looked up.                               *)

Switched == {"npm", "pnpm", "pip", "go", "cargo"}

YarnEnabled == cfg.provider \in {"open-score-http", "open-score-local"}

PackageManagerEnabled(pm) ==
    CASE pm = "yarn" -> YarnEnabled
      [] pm = "pip3" -> "pip" \in cfg.enabled
      [] pm \in Switched -> pm \in cfg.enabled
      [] OTHER -> TRUE

Cmds == line.cmds
Enabled == {k \in DOMAIN Cmds : PackageManagerEnabled(Cmds[k].pm)}
YarnCmds == {k \in DOMAIN Cmds : Cmds[k].pm = "yarn"}

ShouldDeferYarn ==
    \/ \E k \in YarnCmds : \/ Cmds[k].nonLocal
                           \/ Cmds[k].unparsed /\ Len(Cmds[k].packages) = 0
    \/ YarnCmds = {} /\ line.yarn

ShouldDeferUV == \E k \in Enabled : Cmds[k].pm = "uv" /\ Cmds[k].nonLocal

CanRewriteShape ==
    /\ Len(Cmds) = 1
    /\ Enabled = {1}
    /\ ~Cmds[1].unparsed
    /\ line.direct

RewritesUnasked == CanRewriteShape /\ ShouldAutoRewrite(cfg, mode)

-----------------------------------------------------------------------------
Init ==
    /\ line \in Lines /\ cfg \in Configs /\ mode \in Sessions
    /\ pc = "parse"
    /\ available = FALSE
    /\ c = 1 /\ p = 1
    /\ found = NotFound
    /\ overall = "allow"
    /\ packages = {}
    /\ selectedVersions = [n \in Names |-> NoVersion]
    /\ anyRewritten = FALSE
    /\ unsupportedByCmd = {}
    /\ result = NoAnswer
    /\ logged = FALSE

(* The answers given before the provider is looked at; none is logged.     *)
AnswerEarly(d) ==
    /\ pc = "parse"
    /\ result' = Answer(d)
    /\ pc' = "done"
    /\ UNCHANGED <<call, judging, logged>>

RefuseUnparsed == Cmds = <<>> /\ line.install /\ AnswerEarly("deny")

DeferUnparsedYarn ==
    /\ Cmds = <<>> /\ ~line.install
    /\ YarnEnabled /\ line.yarn
    /\ AnswerEarly("ask")

PassThrough ==
    /\ Cmds = <<>> /\ ~line.install
    /\ ~(YarnEnabled /\ line.yarn)
    /\ AnswerEarly("allow")

DeferYarn ==
    /\ Cmds # <<>>
    /\ YarnEnabled /\ ShouldDeferYarn
    /\ AnswerEarly("ask")

PassDisabled ==
    /\ Cmds # <<>>
    /\ ~(YarnEnabled /\ ShouldDeferYarn)
    /\ Enabled = {}
    /\ AnswerEarly("allow")

Guarded ==
    /\ Cmds # <<>>
    /\ ~(YarnEnabled /\ ShouldDeferYarn)
    /\ Enabled # {}

DeferUV == Guarded /\ ShouldDeferUV /\ AnswerEarly("ask")

(* Open Score over HTTP and the platform always report themselves          *)
(* available; Socket and the local command are tried.                      *)
CheckProvider ==
    /\ pc = "parse"
    /\ Guarded
    /\ ~ShouldDeferUV
    /\ available' \in (IF cfg.provider \in {"socket", "open-score-local"} THEN BOOLEAN ELSE {TRUE})
    /\ pc' = "judge"
    /\ UNCHANGED <<call, c, p, found, overall, packages, selectedVersions, anyRewritten,
                   unsupportedByCmd, result, logged>>

-----------------------------------------------------------------------------
(* The loop over the packages of the enabled commands. *)

InCommand == c <= Len(Cmds)
AtPackage == InCommand /\ c \in Enabled /\ p <= Len(Cmds[c].packages)

Pkg == Cmds[c].packages[p]
RequestFor(pkg) == [cfg |-> cfg, name |-> pkg.name, mode |-> mode, pinned |-> pkg.pinned]
Request == RequestFor(Pkg)

StayOnDisabled ==
    /\ pc = "judge"
    /\ InCommand /\ ~AtPackage
    /\ c' = IF c \in Enabled THEN c + 1 ELSE c
    /\ p' = 1
    /\ UNCHANGED <<call, pc, available, found, overall, packages, selectedVersions,
                   anyRewritten, unsupportedByCmd, result, logged>>

NextCommand ==
    /\ pc = "judge"
    /\ InCommand /\ ~AtPackage
    /\ c' = c + 1
    /\ p' = 1
    /\ UNCHANGED <<call, pc, available, found, overall, packages, selectedVersions,
                   anyRewritten, unsupportedByCmd, result, logged>>

(* One PackageEvaluation.  picked is the version the decision is about,    *)
(* newest the one that the specification as typed resolves to, older is    *)
(* Result.WasRewritten.                                                    *)
Evaluation(kind, picked, newest, older) ==
    [cmd |-> c, pkg |-> p, kind |-> kind, picked |-> picked, newest |-> newest,
     older |-> older]

(* The shared end of an iteration: the evaluation is recorded and the loop *)
(* moves on.                                                               *)
Record(evaluation, decision) ==
    /\ packages' = packages \cup {evaluation}
    /\ overall' = decision
    /\ p' = p + 1
    /\ pc' = "judge"
    /\ found' = NotFound
    /\ UNCHANGED <<call, available, c, result, logged>>

NoEvidence == [sc |-> 0, ov |-> 0, verdict |-> "none", alerts |-> {}, age |-> NoDate]
Unreachable(name) == PolicyDecision(cfg, name, mode, FALSE, NoEvidence)

JudgeUnavailable ==
    /\ pc = "judge"
    /\ AtPackage
    /\ ~available
    /\ Record(Evaluation("unavailable", NoVersion, NoVersion, FALSE),
              WorseDecision(overall, Unreachable(Pkg.name)))
    /\ UNCHANGED <<selectedVersions, anyRewritten, unsupportedByCmd>>

(* Socket scores versions, lists them, and may fail; the Open Score        *)
(* transports give a verdict on a pinned version, an outage included, and  *)
(* list nothing.                                                           *)
Replies(r) ==
    IF r.cfg.provider = "socket"
    THEN {a \in Answers(r) : \A k \in DOMAIN a.list : a.list[k].evidence.verdict = "none"}
    ELSE IF r.pinned
    THEN {a \in Answers(r) : a.kind = "ok" /\ a.list[1].evidence.verdict # "none"}
    ELSE {Unsupported}

Select ==
    /\ pc = "judge"
    /\ AtPackage
    /\ available
    /\ \E a \in Replies(Request) : found' = [out |-> Promised(Request, a), list |-> a.list]
    /\ pc' = "selected"
    /\ UNCHANGED <<call, available, c, p, overall, packages, selectedVersions,
                   anyRewritten, unsupportedByCmd, result, logged>>

Out == found.out

(* A list that cannot be fetched ends the evaluation with an error. *)
SelectFailed ==
    /\ pc = "selected"
    /\ Out.kind = "error"
    /\ pc' = "error"
    /\ UNCHANGED <<call, judging, result, logged>>

PackageUnsupported ==
    /\ pc = "selected"
    /\ Out.kind = "unsupported"
    /\ Record(Evaluation("unsupported", NoVersion, NoVersion, FALSE), overall)
    /\ unsupportedByCmd' = unsupportedByCmd \cup {c}
    /\ UNCHANGED <<selectedVersions, anyRewritten>>

PackageFailed ==
    /\ pc = "selected"
    /\ Out.kind = "failed"
    /\ Record(Evaluation("failed", NoVersion, NoVersion, FALSE), "deny")
    /\ UNCHANGED <<selectedVersions, anyRewritten, unsupportedByCmd>>

Picked == found.list[Out.index]

PackagePinned ==
    /\ pc = "selected"
    /\ Out.kind = "selected"
    /\ Pkg.pinned
    /\ Record(Evaluation("selected", Picked, Picked, FALSE), WorseDecision(overall, Out.decision))
    /\ UNCHANGED <<selectedVersions, anyRewritten, unsupportedByCmd>>

ConsentIgnoresShape ==
    /\ pc = "selected"
    /\ Out.kind = "selected"
    /\ ~Pkg.pinned
    /\ LET judged == WorseDecision(overall, Out.decision)
           consent == WasRewritten(Out) /\ ~ShouldAutoRewrite(cfg, mode)
       IN Record(Evaluation("selected", Picked, found.list[1], WasRewritten(Out)),
                 IF consent THEN WorseDecision(judged, "ask") ELSE judged)
    /\ selectedVersions' = IF CanRewriteShape
                           THEN [selectedVersions EXCEPT ![Pkg.name] = Picked]
                           ELSE selectedVersions
    /\ anyRewritten' = (anyRewritten \/ WasRewritten(Out))
    /\ UNCHANGED unsupportedByCmd

(* An older version than the newest needs the user's consent, unless the   *)
(* command can be rewritten and the configuration says to do so.           *)
PackageSelected ==
    /\ pc = "selected"
    /\ Out.kind = "selected"
    /\ ~Pkg.pinned
    /\ LET judged == WorseDecision(overall, Out.decision)
           consent == WasRewritten(Out) /\ ~RewritesUnasked
       IN Record(Evaluation("selected", Picked, found.list[1], WasRewritten(Out)),
                 IF consent THEN WorseDecision(judged, "ask") ELSE judged)
    /\ selectedVersions' = IF CanRewriteShape
                           THEN [selectedVersions EXCEPT ![Pkg.name] = Picked]
                           ELSE selectedVersions
    /\ anyRewritten' = (anyRewritten \/ WasRewritten(Out))
    /\ UNCHANGED unsupportedByCmd

-----------------------------------------------------------------------------
(* The loop over the sources stops at the first command with arguments     *)
(* that are not local.                                                     *)
Examined == {k \in Enabled : \A j \in Enabled : j < k => ~Cmds[j].nonLocal}
AnyUnsupportedSource == Examined \cap unsupportedByCmd # {}
AnyNonLocal == \E k \in Enabled : Cmds[k].nonLocal

(* rewrite.Command: every package whose name has a selected version is     *)
(* pinned to it, any other keeps its specification (NoVersion).            *)
Rewrite(cmd) ==
    [j \in DOMAIN cmd.packages |-> selectedVersions[cmd.packages[j].name]]

RewriteUnsupportedToo ==
    [decision |-> IF AnyUnsupportedSource \/ AnyNonLocal
                  THEN WorseDecision(overall, "ask") ELSE overall,
     rewritten |-> IF anyRewritten /\ CanRewriteShape THEN Rewrite(Cmds[1]) ELSE <<>>]

Verdict ==
    [decision |-> IF AnyUnsupportedSource \/ AnyNonLocal
                  THEN WorseDecision(overall, "ask") ELSE overall,
     rewritten |-> IF anyRewritten /\ CanRewriteShape /\ ~AnyUnsupportedSource
                   THEN Rewrite(Cmds[1]) ELSE <<>>]

Conclude ==
    /\ pc = "judge"
    /\ ~InCommand
    /\ result' = Verdict
    /\ pc' = "log"
    /\ UNCHANGED <<call, judging, logged>>

(* The audit entry precedes the answer; an error of the log is dropped.    *)
Log ==
    /\ pc = "log"
    /\ logged' \in BOOLEAN
    /\ pc' = "done"
    /\ UNCHANGED <<call, judging, result>>

-----------------------------------------------------------------------------
Early ==
    \/ RefuseUnparsed \/ DeferUnparsedYarn \/ PassThrough
    \/ DeferYarn \/ PassDisabled \/ DeferUV

Judge ==
    \/ NextCommand \/ JudgeUnavailable
    \/ SelectFailed \/ PackageUnsupported \/ PackageFailed
    \/ PackagePinned \/ PackageSelected

Local == Early \/ CheckProvider \/ Judge \/ Conclude \/ Log

Next == Select \/ Local

(* Evaluate is sequential code that nothing blocks.  A request over HTTP   *)
(* has a timeout, so it returns; the local scorer is waited for without    *)
(* one.                                                                    *)
Spec ==
    /\ Init /\ [][Next]_vars
    /\ WF_vars(Local)
    /\ WF_vars(cfg.provider # "open-score-local" /\ Select)

-----------------------------------------------------------------------------
(* Properties *)

VersionOrNone == Versions \cup {NoVersion}

(* The cursor stays within the commands and their packages, and the answer *)
(* of Select is there exactly while it is used.                            *)
TypeOK ==
    /\ line \in Lines /\ cfg \in Configs /\ mode \in Sessions
    /\ pc \in {"parse", "judge", "selected", "log", "done", "error"}
    /\ available \in BOOLEAN
    /\ c \in 1..(Len(Cmds) + 1)
    /\ p \in Nat /\ (c \in DOMAIN Cmds => p \in 1..(Len(Cmds[c].packages) + 1))
    /\ IF pc \in {"selected", "error"}
       THEN /\ AtPackage /\ available
            /\ \E a \in Replies(Request) :
                  found = [out |-> Promised(Request, a), list |-> a.list]
       ELSE found = NotFound
    /\ overall \in Decisions
    /\ packages \subseteq [cmd : DOMAIN Cmds, pkg : Nat,
                           kind : {"unavailable", "unsupported", "failed", "selected"},
                           picked : VersionOrNone, newest : VersionOrNone, older : BOOLEAN]
    /\ selectedVersions \in [Names -> VersionOrNone]
    /\ anyRewritten \in BOOLEAN /\ logged \in BOOLEAN
    /\ unsupportedByCmd \subseteq Enabled
    /\ result.decision \in Decisions \cup {"none"}

(* The decision a package contributes on its own. *)
Part(e) ==
    LET pkg == Cmds[e.cmd].packages[e.pkg] IN
    CASE e.kind = "unavailable" -> Unreachable(pkg.name)
      [] e.kind = "unsupported" -> "ask"
      [] e.kind = "failed" -> "deny"
      [] e.kind = "selected" -> Decide(RequestFor(pkg), e.picked)

Evaluated == pc \in {"log", "done"} /\ Guarded /\ ~ShouldDeferUV

(* What the packages looked at so far speak for: the decision each gets on *)
(* its own, and "ask" where an older version is not taken without asking.  *)
PackageGrounds ==
    {Part(e) : e \in packages}
    \cup {"ask" : e \in {x \in packages : x.older /\ ~RewritesUnasked}}

Grounds == PackageGrounds \cup {"ask" : k \in {x \in Enabled : Cmds[x].nonLocal}}

Passed(k, j) == k < c \/ (k = c /\ j < p)

Sound(e) ==
    LET pkg == Cmds[e.cmd].packages[e.pkg] IN
    /\ e.cmd \in Enabled /\ e.pkg \in DOMAIN Cmds[e.cmd].packages
    /\ e.kind = "unavailable" <=> ~available
    /\ IF e.kind = "unsupported"
       THEN e.cmd \in unsupportedByCmd
       ELSE Rank(Part(e)) <= Rank(overall)
    /\ e.kind = "selected" => e.picked \in Versions
    /\ e.kind = "selected" /\ ~pkg.pinned /\ CanRewriteShape =>
          selectedVersions[pkg.name] # NoVersion
    /\ ~e.older => e.picked = e.newest
    /\ e.older => /\ anyRewritten /\ ~pkg.pinned
                  /\ RewritesUnasked \/ overall # "allow"

(* What the loop over the packages has established: every package passed   *)
(* has its evaluation, overall is one of their grounds and no milder than  *)
(* any (an unsupported source is left to the loop over the sources), and a *)
(* selected version belongs to a package of that name.                     *)
SoFar ==
    /\ pc = "parse" => packages = {} /\ c = 1 /\ p = 1 /\ ~anyRewritten
    /\ packages # {} \/ pc \notin {"parse", "done"} => Guarded /\ ~ShouldDeferUV
    /\ Evaluated => ~InCommand /\ result = Verdict
    /\ \A k \in Enabled : \A j \in DOMAIN Cmds[k].packages :
          Passed(k, j) => \E e \in packages : e.cmd = k /\ e.pkg = j
    /\ \A e \in packages : Sound(e)
    /\ overall \in PackageGrounds \cup {"allow"}
    /\ anyRewritten => available
    /\ \A k \in unsupportedByCmd : \E e \in packages : e.cmd = k /\ e.kind = "unsupported"
    /\ \A n \in Names : selectedVersions[n] # NoVersion =>
          \E e \in packages :
             /\ e.kind = "selected" /\ e.picked = selectedVersions[n]
             /\ Cmds[e.cmd].packages[e.pkg].name = n

(* The answer is the worst of its grounds (docs/ARCHITECTURE.md:88), in    *)
(* whatever order packages, commands and sources contribute to             *)
(* overallDecision: nothing found later softens it, and nothing that no    *)
(* package or source gave rise to hardens it.                              *)
AnswerIsWorstGround ==
    Evaluated =>
        /\ \A g \in Grounds : Rank(g) <= Rank(result.decision)
        /\ result.decision \in Grounds \cup {"allow"}

(* The version that the command handed back installs for a package: the    *)
(* one it was rewritten to, or what its specification resolves to.         *)
WouldInstall(e) ==
    IF result.rewritten # <<>> /\ result.rewritten[e.pkg] # NoVersion
    THEN result.rewritten[e.pkg]
    ELSE e.newest

(* "allow" means that every package of every guarded command was looked at,*)
(* that nothing unparsed remains, and that the version about to be         *)
(* installed, after rewriting or without it, is one the policy allows;     *)
(* during an outage, that the outage setting allows the package.           *)
InstallsOnlyAllowed ==
    Evaluated /\ result.decision = "allow" =>
        \A k \in Enabled :
           /\ ~Cmds[k].nonLocal
           /\ \A j \in DOMAIN Cmds[k].packages :
                 \E e \in packages :
                    /\ e.cmd = k /\ e.pkg = j
                    /\ LET pkg == Cmds[k].packages[j] IN
                       IF available
                       THEN /\ e.kind = "selected"
                            /\ Decide(RequestFor(pkg), WouldInstall(e)) = "allow"
                       ELSE Unreachable(pkg.name) = "allow"

(* A rewritten command the user may accept names an exact version for      *)
(* every package, and the policy judged each of them no worse than the     *)
(* answer says, also when a name occurs twice and one version replaces     *)
(* both (rewrite.go:29-36).                                                *)
RewriteIsJudged ==
    Evaluated /\ result.rewritten # <<>> /\ result.decision # "deny" =>
        \A j \in DOMAIN Cmds[1].packages :
           LET pkg == Cmds[1].packages[j] IN
           \E e \in packages :
              /\ e.pkg = j /\ e.kind = "selected"
              /\ result.rewritten[j] # NoVersion \/ pkg.pinned
              /\ Rank(Decide(RequestFor(pkg), WouldInstall(e))) <= Rank(result.decision)

(* A line with one package gets an answer of AnswerOne, which the module   *)
(* Session takes for the whole evaluation: same decision, same rewriting,  *)
(* for some reply of the provider or, when it is unavailable, for none.    *)
AnswersAsOne ==
    /\ Evaluated /\ Len(Cmds) = 1 /\ Len(Cmds[1].packages) = 1 /\ ~Cmds[1].nonLocal
    => LET r == RequestFor(Cmds[1].packages[1]) IN
       \E reply \in IF available THEN Replies(r) ELSE {NoReply} :
          LET answer == AnswerOne(r, available, reply, CanRewriteShape) IN
          /\ result.decision = answer.decision
          /\ result.rewritten = IF answer.install = 0 THEN <<>>
                                ELSE <<reply.list[answer.install]>>
          /\ \E e \in packages :
                e.kind = "selected" =>
                   LET out == Promised(r, reply) IN
                   out.kind = "selected" /\ e.picked = reply.list[out.index]

(* Every call is answered or fails, unless the local scorer never returns. *)
Answered ==
    pc = "parse" /\ cfg.provider # "open-score-local" ~> pc \in {"done", "error"}

=============================================================================
