---------------------------- MODULE VersionSelect ---------------------------
(***************************************************************************)
(* Selector.Select of internal/versionselect as the code runs it: the call *)
(* to the provider, its early returns, and one pass over the candidates    *)
(* that keeps the first candidate rejected and the first one the engine    *)
(* would ask about.  Each iteration of the loop is one step.               *)
(***************************************************************************)
EXTENDS SelectorPromise

VARIABLES pc,             \* "call", "loop" or "done"
          i,              \* the loop index, from 1
          bestAsk,        \* index in bestAsk.Selected, 0 for nil
          bestAskReason,  \* index behind bestAsk.RejectedReason
          firstRejected   \* index behind firstRejectedReason, 0 for ""

vars == <<request, reply, outcome, pc, i, bestAsk, bestAskReason, firstRejected>>

loopVars == <<i, bestAsk, bestAskReason, firstRejected>>

Init ==
    /\ PromiseInit
    /\ pc = "call"
    /\ i = 1
    /\ bestAsk = 0
    /\ bestAskReason = 0
    /\ firstRejected = 0

(* The provider call: GetPackageScore when pinned, else ListVersions.      *)
CallProvider ==
    /\ pc = "call"
    /\ reply = NoReply
    /\ reply' \in Answers(request)
    /\ UNCHANGED <<request, outcome, pc, loopVars>>

Return(out) ==
    /\ outcome' = out
    /\ pc' = "done"
    /\ UNCHANGED <<request, reply, loopVars>>

Returned == pc = "call" /\ reply # NoReply

ReturnUnsupported ==
    /\ Returned
    /\ reply.kind = "unsupported"
    /\ Return(UnsupportedSource)

(* A pinned version that cannot be scored is denied, a list that cannot be *)
(* fetched is an error for the caller.                                     *)
ReturnProviderError ==
    /\ Returned
    /\ reply.kind = "error"
    /\ Return(IF request.pinned THEN Failed(0) ELSE SelectError)

ReturnPinned ==
    /\ Returned
    /\ reply.kind = "ok"
    /\ request.pinned
    /\ Return(Selected(1, Decide(request, reply.list[1]), 0))

ReturnNoVersions ==
    /\ Returned
    /\ reply.kind = "ok"
    /\ ~request.pinned
    /\ Len(reply.list) = 0
    /\ Return(Failed(0))

EnterLoop ==
    /\ Returned
    /\ reply.kind = "ok"
    /\ ~request.pinned
    /\ Len(reply.list) # 0
    /\ pc' = "loop"
    /\ UNCHANGED <<request, reply, outcome, loopVars>>

-----------------------------------------------------------------------------
InLoop == pc = "loop" /\ i <= Len(reply.list)
Candidate == reply.list[i]

SkipDeprecated ==
    /\ InLoop
    /\ Candidate.deprecated
    /\ i' = i + 1
    /\ UNCHANGED <<request, reply, outcome, pc, bestAsk, bestAskReason, firstRejected>>

(* The first allowed candidate ends the loop. *)
ReturnAllowed ==
    /\ InLoop
    /\ ~Candidate.deprecated
    /\ Decide(request, Candidate) = "allow"
    /\ Return(Selected(i, "allow", firstRejected))

KeepLastAsk ==
    LET verdict == Decide(request, Candidate)
        first == IF firstRejected = 0 THEN i ELSE firstRejected
    IN /\ InLoop
       /\ ~Candidate.deprecated
       /\ verdict # "allow"
       /\ firstRejected' = first
       /\ IF verdict = "ask"
          THEN bestAsk' = i /\ bestAskReason' = first
          ELSE UNCHANGED <<bestAsk, bestAskReason>>
       /\ i' = i + 1
       /\ UNCHANGED <<request, reply, outcome, pc>>

(* firstRejectedReason is set before bestAsk copies it: when the first     *)
(* candidate rejected is the one to ask about, it is its own RejectedReason.*)
RejectCandidate ==
    LET verdict == Decide(request, Candidate)
        first == IF firstRejected = 0 THEN i ELSE firstRejected
    IN /\ InLoop
       /\ ~Candidate.deprecated
       /\ verdict # "allow"
       /\ firstRejected' = first
       /\ IF verdict = "ask" /\ bestAsk = 0
          THEN bestAsk' = i /\ bestAskReason' = first
          ELSE UNCHANGED <<bestAsk, bestAskReason>>
       /\ i' = i + 1
       /\ UNCHANGED <<request, reply, outcome, pc>>

StopAtFirstAsk == pc = "loop" /\ (i > Len(reply.list) \/ bestAsk # 0)

LoopEnded == pc = "loop" /\ i > Len(reply.list)

ReturnBestAsk ==
    /\ LoopEnded
    /\ bestAsk # 0
    /\ Return(Selected(bestAsk, "ask", bestAskReason))

ReturnAllFailed ==
    /\ LoopEnded
    /\ bestAsk = 0
    /\ Return(Failed(firstRejected))

Local ==
    \/ ReturnUnsupported \/ ReturnProviderError \/ ReturnPinned
    \/ ReturnNoVersions \/ EnterLoop
    \/ SkipDeprecated \/ ReturnAllowed \/ RejectCandidate
    \/ ReturnBestAsk \/ ReturnAllFailed

Next == CallProvider \/ Local

(* Once the provider has answered, Select is sequential code that nothing  *)
(* blocks.  The call itself gets no fairness: the local provider waits for *)
(* its command without a time limit.                                       *)
Spec == Init /\ [][Next]_vars /\ WF_vars(Local)

-----------------------------------------------------------------------------
(* Properties *)

Index == 0..MaxCandidates

(* The loop index and the indices kept stay within the list.               *)
TypeOK ==
    /\ request \in Requests
    /\ reply \in {NoReply} \cup Answers(request)
    /\ outcome \in [kind : {"none", "failed", "selected", "unsupported", "error"},
                    index : Index \cup {1}, decision : Decisions, rejected : Index]
    /\ pc \in {"call", "loop", "done"}
    /\ i \in 1..(MaxCandidates + 1)
    /\ {bestAsk, bestAskReason, firstRejected} \subseteq Index

(* The pass over the candidates (select.go:99-148) delivers what Select    *)
(* promises: the same outcome as looking at the whole list at once.        *)
KeepsPromise == PromiseSpec

(* No candidate that Select passed over is better than the one it selected *)
(* (select.go:93-95): nothing usable gets a milder decision, and nothing   *)
(* newer the same one; and a package fails only if nothing is usable.      *)
SelectionIsBest ==
    reply.kind = "ok" /\ ~request.pinned =>
        /\ outcome.kind = "selected" =>
              \A j \in Live(reply.list) :
                 LET d == Decide(request, reply.list[j]) IN
                 /\ Rank(d) >= Rank(outcome.decision)
                 /\ j < outcome.index => Rank(d) > Rank(outcome.decision)
        /\ outcome.kind = "failed" =>
              \A j \in Live(reply.list) : Decide(request, reply.list[j]) = "deny"

IsNewestBefore(k, S) ==
    \/ k = 0 /\ \A j \in S : j >= i
    \/ k \in S /\ k < i /\ \A j \in S : k <= j

(* What the loop has established before its i-th iteration: nothing passed *)
(* was allowed, firstRejected is the newest candidate passed that is not   *)
(* deprecated, and bestAsk the newest one to ask about.                    *)
LoopInv ==
    /\ pc = "loop" =>
          LET list == reply.list IN
          /\ reply.kind = "ok" /\ ~request.pinned /\ outcome = NoOutcome
          /\ i <= Len(list) + 1
          /\ \A j \in Judged(request, list, "allow") : j >= i
          /\ IsNewestBefore(firstRejected, Live(list))
          /\ IsNewestBefore(bestAsk, Judged(request, list, "ask"))
          /\ bestAsk # 0 => bestAskReason = firstRejected
    /\ pc = "call" =>
          /\ outcome = NoOutcome
          /\ i = 1 /\ bestAsk = 0 /\ firstRejected = 0
    /\ pc = "done" => reply # NoReply /\ outcome = Promised(request, reply)
=============================================================================
