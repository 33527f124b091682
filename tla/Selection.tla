----------------------------- MODULE Selection ------------------------------
(***************************************************************************)
(* What Selector.Select makes of one answer of the provider, as operators: *)
(*                                                                         *)
(*   - a pinned version gets the engine's decision, and a failed lookup    *)
(*     counts as a denied package;                                         *)
(*   - among the candidates of an unpinned package that are not            *)
(*     deprecated, the newest one the engine allows is selected, or else   *)
(*     the newest one it would ask about, or else the package fails;       *)
(*   - a source the provider does not cover is reported as such, and a     *)
(*     failed listing is an error.                                         *)
(*                                                                         *)
(* A request is [cfg, name, mode, pinned], a candidate [deprecated,        *)
(* evidence]; candidates are numbered from 1, newest first.  In an outcome *)
(* index is the candidate selected, rejected the one whose reason is       *)
(* reported as RejectedReason (0 for none).                                *)
(***************************************************************************)
EXTENDS Policy, Sequences

CONSTANTS Versions,      \* the version infos a provider may return
          MaxCandidates  \* longest list a provider returns

ASSUME VersionsAssumption ==
    \A v \in Versions : v.deprecated \in BOOLEAN
ASSUME MaxCandidatesAssumption == MaxCandidates \in Nat

Lists == UNION {[1..n -> Versions] : n \in 0..MaxCandidates}

NoReply == [kind |-> "none", list |-> <<>>]
Unsupported == [kind |-> "unsupported", list |-> <<>>]
ProviderError == [kind |-> "error", list |-> <<>>]

(* GetPackageScore returns one version info, ListVersions a list of them.  *)
Answers(r) ==
    {Unsupported, ProviderError} \cup
    [kind : {"ok"}, list : IF r.pinned THEN [1..1 -> Versions] ELSE Lists]

NoOutcome == [kind |-> "none", index |-> 0, decision |-> "deny", rejected |-> 0]
Failed(rej) == [kind |-> "failed", index |-> 0, decision |-> "deny", rejected |-> rej]
Selected(i, d, rej) == [kind |-> "selected", index |-> i, decision |-> d, rejected |-> rej]
UnsupportedSource == [kind |-> "unsupported", index |-> 0, decision |-> "allow", rejected |-> 0]
SelectError == [kind |-> "error", index |-> 0, decision |-> "deny", rejected |-> 0]

(* Result.WasRewritten: the version selected is not the first of the list. *)
WasRewritten(out) == out.kind = "selected" /\ out.index > 1

Decide(r, v) == PolicyDecision(r.cfg, r.name, r.mode, TRUE, v.evidence)

-----------------------------------------------------------------------------
Newest(S) == CHOOSE i \in S : \A j \in S : i <= j
NewestOrNone(S) == IF S = {} THEN 0 ELSE Newest(S)

Live(list) == {i \in DOMAIN list : ~list[i].deprecated}
Judged(r, list, d) == {i \in Live(list) : Decide(r, list[i]) = d}
Rejected(r, list) == {i \in Live(list) : Decide(r, list[i]) # "allow"}

(* The best candidate of a list: allowed before asked, newer before older. *)
Best(r, list) ==
    LET allowed == Judged(r, list, "allow")
        asked == Judged(r, list, "ask")
        pick == IF allowed # {} THEN Newest(allowed) ELSE Newest(asked)
        before == {i \in Rejected(r, list) : i <= pick}
    IN IF allowed = {} /\ asked = {}
       THEN Failed(NewestOrNone(Rejected(r, list)))
       ELSE Selected(pick, Decide(r, list[pick]), NewestOrNone(before))

Promised(r, answer) ==
    IF answer.kind = "unsupported" THEN UnsupportedSource
    ELSE IF answer.kind = "error" THEN (IF r.pinned THEN Failed(0) ELSE SelectError)
    ELSE IF r.pinned THEN Selected(1, Decide(r, answer.list[1]), 0)
    ELSE Best(r, answer.list)

(* What Evaluate answers for a command line with this one package: direct  *)
(* when it can be rewritten, install the candidate that the line handed    *)
(* back names, 0 when it stays as typed.                                   *)
AskedByChoice(r, out, direct) ==
    [kind |-> "answer", decision |-> out.decision, install |-> 0]

AnswerSelected(r, out, direct) ==
    LET older == WasRewritten(out)
        consent == older /\ ~(direct /\ ShouldAutoRewrite(r.cfg, r.mode))
    IN [kind |-> "answer",
        decision |-> IF consent THEN WorseDecision(out.decision, "ask") ELSE out.decision,
        install |-> IF older /\ direct THEN out.index ELSE 0]

AnswerOne(r, available, reply, direct) ==
    LET out == Promised(r, reply)
        unseen == [sc |-> 0, ov |-> 0, verdict |-> "none", alerts |-> {}, age |-> NoDate]
        decided(d) == [kind |-> "answer", decision |-> d, install |-> 0]
    IN CASE ~available -> decided(PolicyDecision(r.cfg, r.name, r.mode, FALSE, unseen))
         [] available /\ out.kind = "error" -> [kind |-> "error", decision |-> "deny", install |-> 0]
         [] available /\ out.kind = "unsupported" -> decided("ask")
         [] available /\ out.kind = "failed" -> decided("deny")
         [] available /\ out.kind = "selected" -> AnswerSelected(r, out, direct)
=============================================================================
