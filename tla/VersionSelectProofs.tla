------------------------- MODULE VersionSelectProofs ------------------------
(***************************************************************************)
(* Proofs about VersionSelect for every configuration, every set of        *)
(* version infos and every length of the candidate list.                   *)
(***************************************************************************)
EXTENDS VersionSelect, SelectionProofs

(* The inductive invariant: the types and what the loop has established.   *)
IInv == TypeOK /\ LoopInv

(* The invariant holds before the provider is called.                      *)
LEMMA InitInv == Init => IInv
BY MaxCandidatesAssumption
   DEF Init, PromiseInit, IInv, TypeOK, LoopInv, Index, NoOutcome, Decisions

(* In the loop the list is a bounded sequence of version infos.            *)
LEMMA InLoopList ==
    ASSUME IInv, pc = "loop"
    PROVE  /\ reply \in Answers(request) /\ reply.kind = "ok"
           /\ ~request.pinned /\ request \in Requests
           /\ reply.list \in Seq(Versions)
           /\ DOMAIN reply.list = 1..Len(reply.list)
           /\ Len(reply.list) \in 0..MaxCandidates
           /\ i \in 1..(Len(reply.list) + 1)
<1>1. reply.kind = "ok" /\ ~request.pinned /\ request \in Requests /\ i <= Len(reply.list) + 1
  BY DEF IInv, LoopInv, TypeOK
<1>2. reply \in Answers(request)
  BY <1>1 DEF IInv, TypeOK, NoReply
<1>3. Len(reply.list) \in 0..MaxCandidates
  BY <1>1, <1>2, AnswerType, RequestsAssumption
<1>4. QED
  BY <1>1, <1>2, <1>3, AnswerType, RequestsAssumption, MaxCandidatesAssumption DEF IInv, TypeOK

(* When a candidate is allowed and none before it is, Best selects it; the *)
(* reason given is that of the newest candidate that is not deprecated, if *)
(* that one is newer.                                                      *)
LEMMA BestAllowed ==
    ASSUME NEW r, NEW list, DOMAIN list \subseteq Nat,
           NEW k \in Judged(r, list, "allow"),
           \A j \in Judged(r, list, "allow") : j >= k,
           NEW f,
           \/ f = 0 /\ \A j \in Live(list) : j >= k
           \/ f \in Live(list) /\ f < k /\ \A j \in Live(list) : f <= j
    PROVE  Best(r, list) = Selected(k, "allow", f)
<1> DEFINE before == {j \in Rejected(r, list) : j <= k}
<1>1. k \in Nat /\ Judged(r, list, "allow") \in SUBSET Nat /\ Live(list) \in SUBSET Nat
  BY JudgedParts
<1>2. Newest(Judged(r, list, "allow")) = k
  BY <1>1, NewestIsLeast
<1>3. Decide(r, list[k]) = "allow"
  BY DEF Judged
<1>4. NewestOrNone(before) = f
  <2>1. CASE f = 0 /\ \A j \in Live(list) : j >= k
    <3>1. before = {}
      BY <2>1, <1>1, JudgedParts
    <3>2. QED
      BY <3>1, <2>1 DEF NewestOrNone
  <2>2. CASE f \in Live(list) /\ f < k /\ \A j \in Live(list) : f <= j
    <3>1. f \notin Judged(r, list, "allow")
      BY <2>2, <1>1
    <3>2. f \in before /\ before \in SUBSET Nat /\ \A j \in before : f <= j
      BY <3>1, <2>2, <1>1, JudgedParts
    <3>3. QED
      BY <3>2, NewestIsLeast DEF NewestOrNone
  <2>3. QED
    BY <2>1, <2>2
<1>5. QED
  BY <1>2, <1>3, <1>4 DEF Best

(* When nothing is allowed, Best selects the newest candidate to ask about.*)
LEMMA BestAsked ==
    ASSUME NEW r, NEW list, DOMAIN list \subseteq Nat,
           Judged(r, list, "allow") = {},
           NEW k \in Judged(r, list, "ask"),
           \A j \in Judged(r, list, "ask") : k <= j,
           NEW f \in Live(list), \A j \in Live(list) : f <= j
    PROVE  Best(r, list) = Selected(k, "ask", f)
<1> DEFINE before == {j \in Rejected(r, list) : j <= k}
<1>1. k \in Nat /\ k \in Live(list) /\ Judged(r, list, "ask") \in SUBSET Nat
      /\ Live(list) \in SUBSET Nat
  BY JudgedParts
<1>2. Newest(Judged(r, list, "ask")) = k
  BY <1>1, NewestIsLeast
<1>3. Decide(r, list[k]) = "ask"
  BY DEF Judged
<1>4. f \in before /\ before \in SUBSET Nat /\ \A j \in before : f <= j
  BY <1>1, JudgedParts
<1>5. NewestOrNone(before) = f
  BY <1>4, NewestIsLeast DEF NewestOrNone
<1>6. QED
  BY <1>2, <1>3, <1>5 DEF Best

(* When everything that is not deprecated is denied, the package fails.    *)
LEMMA BestFailed ==
    ASSUME NEW r, NEW list, DOMAIN list \subseteq Nat,
           Judged(r, list, "allow") = {}, Judged(r, list, "ask") = {},
           NEW f,
           \/ f = 0 /\ Live(list) = {}
           \/ f \in Live(list) /\ \A j \in Live(list) : f <= j
    PROVE  Best(r, list) = Failed(f)
<1>1. Rejected(r, list) = Live(list) /\ Live(list) \in SUBSET Nat
  BY JudgedParts
<1>2. NewestOrNone(Rejected(r, list)) = f
  BY <1>1, NewestIsLeast DEF NewestOrNone
<1>3. QED
  BY <1>2 DEF Best

-----------------------------------------------------------------------------
(* What CallProvider, the early returns, the loop body and the returns     *)
(* after the loop preserve.                                                *)
LEMMA StepInv == IInv /\ [Next]_vars => IInv'
<1> SUFFICES ASSUME IInv, [Next]_vars
             PROVE  IInv'
  OBVIOUS
<1> USE DEF IInv
<1>1. CASE CallProvider
  BY <1>1, MaxCandidatesAssumption
     DEF CallProvider, loopVars, TypeOK, LoopInv, Index
<1>2. CASE Returned /\ (ReturnUnsupported \/ ReturnProviderError \/ ReturnPinned \/ ReturnNoVersions)
  <2>1. reply \in Answers(request) /\ request \in Requests /\ outcome = NoOutcome
    BY <1>2 DEF Returned, TypeOK, LoopInv
  <2>2. CASE ReturnUnsupported
    BY <2>1, <2>2 DEF ReturnUnsupported, Return, Returned, UnsupportedSource, Promised,
       loopVars, TypeOK, LoopInv, Decisions, Index
  <2>3. CASE ReturnProviderError
    BY <2>1, <2>3, MaxCandidatesAssumption
       DEF ReturnProviderError, Return, Returned, Failed, SelectError, Promised,
       loopVars, TypeOK, LoopInv, Decisions, Index
  <2>4. CASE ReturnPinned
    BY <2>1, <2>4, DecideType, MaxCandidatesAssumption
       DEF ReturnPinned, Return, Returned, Selected, Promised,
       loopVars, TypeOK, LoopInv, Index
  <2>5. CASE ReturnNoVersions
    <3>1. Live(reply.list) = {} /\ DOMAIN reply.list \subseteq Nat
      BY <2>1, <2>5, AnswerType, RequestsAssumption DEF ReturnNoVersions, Live
    <3>2. Best(request, reply.list) = Failed(0)
      BY <3>1, BestFailed, JudgedParts
    <3>3. QED
      BY <3>2, <2>1, <2>5, MaxCandidatesAssumption
         DEF ReturnNoVersions, Return, Returned, Failed, Promised,
             loopVars, TypeOK, LoopInv, Decisions, Index
  <2>6. QED
    BY <1>2, <2>2, <2>3, <2>4, <2>5
<1>3. CASE EnterLoop
  <2>1. reply \in Answers(request) /\ request \in Requests
    BY <1>3 DEF EnterLoop, Returned, TypeOK
  <2>2. DOMAIN reply.list = 1..Len(reply.list) /\ Len(reply.list) \in Nat
    BY <2>1, <1>3, AnswerType, RequestsAssumption, LenProperties DEF EnterLoop, Returned
  <2>3. \A S \in SUBSET Live(reply.list) : \A j \in S : j >= 1
    BY <2>2 DEF Live
  <2>4. QED
    BY <2>2, <2>3, <1>3, JudgedParts, MaxCandidatesAssumption
       DEF EnterLoop, Returned, loopVars, TypeOK, LoopInv, Index, IsNewestBefore
<1>4. CASE pc = "loop" /\ (SkipDeprecated \/ ReturnAllowed \/ RejectCandidate
                              \/ ReturnBestAsk \/ ReturnAllFailed)
  <2> DEFINE list == reply.list
             allowed == Judged(request, list, "allow")
             asked == Judged(request, list, "ask")
  <2>1. /\ list \in Seq(Versions) /\ DOMAIN list = 1..Len(list)
        /\ Len(list) \in 0..MaxCandidates /\ i \in 1..(Len(list) + 1)
        /\ request \in Requests /\ reply \in Answers(request)
        /\ reply.kind = "ok" /\ ~request.pinned
        /\ i \in Nat /\ Len(list) \in Nat
    BY <1>4, InLoopList, MaxCandidatesAssumption
  <2>2. /\ outcome = NoOutcome
        /\ \A j \in allowed : j >= i
        /\ IsNewestBefore(firstRejected, Live(list))
        /\ IsNewestBefore(bestAsk, asked)
        /\ bestAsk # 0 => bestAskReason = firstRejected
    BY <1>4 DEF LoopInv
  <2>3. /\ DOMAIN list \subseteq Nat /\ Live(list) \in SUBSET Nat
        /\ allowed \subseteq Live(list) /\ asked \subseteq Live(list)
        /\ 0 \notin Live(list)
    BY <2>1, JudgedParts DEF Live
  <2>4. reply # NoReply
    BY <2>1 DEF NoReply
  <2>5. CASE SkipDeprecated
    <3>1. i \notin Live(list) /\ i' = i + 1 /\ i <= Len(list)
      BY <2>5 DEF SkipDeprecated, InLoop, Candidate, Live
    <3>2. \A j \in Live(list) : j >= i => j >= i + 1
      BY <3>1, <2>1, <2>3
    <3>3. TypeOK'
      BY <3>1, <2>1, <2>5, MaxCandidatesAssumption DEF SkipDeprecated, TypeOK
    <3>4. LoopInv'
      BY <3>1, <3>2, <2>1, <2>2, <2>3, <2>5, <1>4
         DEF SkipDeprecated, LoopInv, IsNewestBefore
    <3>5. QED
      BY <3>3, <3>4
  <2>6. CASE ReturnAllowed
    <3>1. i \in allowed /\ outcome' = Selected(i, "allow", firstRejected)
      BY <2>1, <2>6 DEF ReturnAllowed, Return, InLoop, Candidate, Live, Judged
    <3>2. Best(request, list) = Selected(i, "allow", firstRejected)
      BY <3>1, <2>2, <2>3, BestAllowed DEF IsNewestBefore
    <3>3. LoopInv'
      BY <3>1, <3>2, <2>1, <2>4, <2>6 DEF ReturnAllowed, Return, Promised, LoopInv
    <3>4. TypeOK'
      BY <3>1, <2>1, <2>6, MaxCandidatesAssumption
         DEF ReturnAllowed, Return, Selected, InLoop, loopVars, TypeOK, Index, Decisions
    <3>5. QED
      BY <3>3, <3>4
  <2>7. CASE RejectCandidate
    <3> DEFINE first == IF firstRejected = 0 THEN i ELSE firstRejected
               verdict == Decide(request, list[i])
    <3>1. /\ i \in Live(list) /\ i' = i + 1 /\ i <= Len(list)
          /\ verdict # "allow" /\ firstRejected' = first
          /\ reply' = reply /\ request' = request /\ outcome' = outcome /\ pc' = pc
          /\ i \notin allowed
          /\ i \in asked <=> verdict = "ask"
      BY <2>7, <2>1 DEF RejectCandidate, InLoop, Candidate, Live, Judged
    <3>2. \A j \in Live(list) : j >= i /\ j # i => j >= i + 1
      BY <3>1, <2>1, <2>3
    <3>3. first \in Live(list) /\ first < i + 1 /\ \A j \in Live(list) : first <= j
      <4>1. CASE firstRejected = 0
        <5>1. \A j \in Live(list) : j >= i
          BY <4>1, <2>2, <2>3 DEF IsNewestBefore
        <5>2. QED
          BY <4>1, <5>1, <3>1, <2>1, <2>3
      <4>2. CASE firstRejected # 0
        <5>1. /\ firstRejected \in Live(list) /\ firstRejected < i
              /\ \A j \in Live(list) : firstRejected <= j
          BY <4>2, <2>2 DEF IsNewestBefore
        <5>2. QED
          BY <4>2, <5>1, <2>1, <2>3
      <4>3. QED
        BY <4>1, <4>2
    <3>4. \/ bestAsk' = i /\ bestAskReason' = first /\ bestAsk = 0 /\ i \in asked
          \/ bestAsk' = bestAsk /\ bestAskReason' = bestAskReason /\ (i \notin asked \/ bestAsk # 0)
      BY <2>7, <3>1 DEF RejectCandidate, Candidate
    <3>5. bestAsk # 0 => firstRejected # 0
      BY <2>1, <2>2, <2>3 DEF IsNewestBefore
    <3>6. /\ \/ bestAsk' = 0 /\ \A j \in asked : j >= i + 1
             \/ bestAsk' \in asked /\ bestAsk' < i + 1 /\ \A j \in asked : bestAsk' <= j
          /\ bestAsk' # 0 => bestAskReason' = first
      BY <3>1, <3>2, <3>4, <3>5, <2>1, <2>2, <2>3 DEF IsNewestBefore
    <3>7. LoopInv'
      <4>1. /\ IsNewestBefore(firstRejected, Live(list))'
            /\ IsNewestBefore(bestAsk, asked)'
        BY <3>1, <3>3, <3>6 DEF IsNewestBefore
      <4>2. \A j \in allowed : j >= i + 1
        BY <3>1, <3>2, <2>2, <2>3
      <4>3. QED
        BY <4>1, <4>2, <3>1, <3>6, <2>1, <2>2, <1>4 DEF LoopInv
    <3>8. TypeOK'
      BY <3>1, <3>3, <3>4, <2>1, MaxCandidatesAssumption DEF TypeOK, Index
    <3>9. QED
      BY <3>7, <3>8
  <2>8. CASE LoopEnded /\ (ReturnBestAsk \/ ReturnAllFailed)
    <3>1. \A j \in Live(list) : j < i
      BY <2>8, <2>1, <2>3 DEF LoopEnded, Live
    <3>2. allowed = {}
      BY <3>1, <2>2, <2>3, <2>1
    <3>3. CASE ReturnBestAsk
      <4>1. /\ bestAsk \in asked /\ \A j \in asked : bestAsk <= j
            /\ firstRejected \in Live(list) /\ \A j \in Live(list) : firstRejected <= j
        BY <3>1, <3>3, <2>1, <2>2, <2>3 DEF ReturnBestAsk, IsNewestBefore
      <4>2. Best(request, list) = Selected(bestAsk, "ask", firstRejected)
        BY <4>1, <3>2, <2>3, BestAsked
      <4>3. LoopInv'
        BY <4>2, <3>3, <2>1, <2>2, <2>4 DEF ReturnBestAsk, Return, Promised, LoopInv
      <4>4. TypeOK'
        BY <3>3 DEF ReturnBestAsk, Return, Selected, loopVars, TypeOK, Decisions
      <4>5. QED
        BY <4>3, <4>4
    <3>4. CASE ReturnAllFailed
      <4>1. /\ asked = {}
            /\ \/ firstRejected = 0 /\ Live(list) = {}
               \/ firstRejected \in Live(list) /\ \A j \in Live(list) : firstRejected <= j
        BY <3>1, <3>4, <2>1, <2>2, <2>3 DEF ReturnAllFailed, IsNewestBefore
      <4>2. Best(request, list) = Failed(firstRejected)
        BY <4>1, <3>2, <2>3, BestFailed
      <4>3. LoopInv'
        BY <4>2, <3>4, <2>1, <2>4 DEF ReturnAllFailed, Return, Promised, LoopInv
      <4>4. TypeOK'
        BY <3>4 DEF ReturnAllFailed, Return, Failed, loopVars, TypeOK, Decisions
      <4>5. QED
        BY <4>3, <4>4
    <3>5. QED
      BY <2>8, <3>3, <3>4
  <2>9. QED
    BY <1>4, <2>5, <2>6, <2>7, <2>8 DEF ReturnBestAsk, ReturnAllFailed
<1>5. CASE UNCHANGED vars
  BY <1>5 DEF vars, TypeOK, LoopInv, IsNewestBefore, Judged, Live, Decide
<1>6. QED
  BY <1>1, <1>2, <1>3, <1>4, <1>5
     DEF Next, Local, ReturnUnsupported, ReturnProviderError, ReturnPinned, ReturnNoVersions,
         SkipDeprecated, ReturnAllowed, RejectCandidate, InLoop, ReturnBestAsk,
         ReturnAllFailed, LoopEnded

(* The inductive invariant holds in every behaviour.                       *)
THEOREM Invariance == Spec => []IInv
BY InitInv, StepInv, PTL DEF Spec

(* Select's variables always have the values that its Go types admit, and  *)
(* the loop index never runs past the list by more than one.               *)
THEOREM TypeCorrect == Spec => []TypeOK
<1>1. IInv => TypeOK
  BY DEF IInv
<1>2. QED
  BY <1>1, Invariance, PTL

(* The pass over the candidates implements the promise: its first step is  *)
(* the provider's answer, and whatever it does next changes the outcome    *)
(* once, to the one promised.                                              *)
THEOREM PromiseKept == Spec => KeepsPromise
<1>1. Init => PromiseInit
  BY DEF Init
<1>2. IInv /\ IInv' /\ [Next]_vars => [ProviderAnswers \/ Deliver]_promiseVars
  <2> SUFFICES ASSUME IInv, IInv', [Next]_vars
               PROVE  [ProviderAnswers \/ Deliver]_promiseVars
    OBVIOUS
  <2>1. CASE CallProvider
    BY <2>1 DEF CallProvider, ProviderAnswers
  <2>2. CASE /\ pc \in {"call", "loop"} /\ reply # NoReply /\ pc' = "done"
             /\ UNCHANGED <<request, reply>>
    BY <2>2 DEF IInv, LoopInv, Deliver
  <2>3. CASE UNCHANGED <<request, reply, outcome>>
    BY <2>3 DEF promiseVars
  <2>4. pc = "loop" => reply # NoReply
    BY InLoopList DEF NoReply
  <2>5. QED
    BY <2>1, <2>2, <2>3, <2>4
       DEF Next, Local, vars, loopVars, Return, Returned, InLoop, LoopEnded,
           ReturnUnsupported, ReturnProviderError, ReturnPinned, ReturnNoVersions, EnterLoop,
           SkipDeprecated, ReturnAllowed, RejectCandidate, ReturnBestAsk, ReturnAllFailed
<1>3. QED
  BY <1>1, <1>2, Invariance, PTL DEF Spec, KeepsPromise, PromiseSpec

(* No candidate that Select passes over is better than the one it selects. *)
(* The step that returns knows, from the loop invariant, that nothing      *)
(* passed was allowed and that bestAsk is the newest to ask about.         *)
THEOREM BestSelected == Spec => []SelectionIsBest
<1>1. Init => SelectionIsBest
  BY DEF Init, PromiseInit, SelectionIsBest, NoOutcome, NoReply
<1>2. IInv /\ SelectionIsBest /\ [Next]_vars => SelectionIsBest'
  <2> SUFFICES ASSUME IInv, SelectionIsBest, [Next]_vars
               PROVE  SelectionIsBest'
    OBVIOUS
  <2> DEFINE list == reply.list
             d(j) == Decide(request, list[j])
  <2>1. CASE UNCHANGED <<request, reply, outcome>>
    BY <2>1 DEF SelectionIsBest, Live, Decide
  <2>2. CASE CallProvider
    BY <2>2 DEF CallProvider, SelectionIsBest, IInv, LoopInv, NoOutcome
  <2>3. CASE ReturnUnsupported \/ ReturnProviderError \/ ReturnPinned
    BY <2>3 DEF ReturnUnsupported, ReturnProviderError, ReturnPinned, Return, SelectionIsBest
  <2>4. CASE ReturnNoVersions
    <3>1. DOMAIN list = 1..0
      BY <2>4, AnswerType, RequestsAssumption DEF ReturnNoVersions, Returned, IInv, TypeOK
    <3>2. QED
      BY <2>4, <3>1 DEF ReturnNoVersions, Return, Failed, SelectionIsBest, Live
  <2>5. CASE ReturnAllowed \/ ReturnBestAsk \/ ReturnAllFailed
    <3>1. pc = "loop"
      BY <2>5 DEF ReturnAllowed, ReturnBestAsk, ReturnAllFailed, InLoop, LoopEnded
    <3>2. /\ Live(list) \in SUBSET Nat /\ i \in Nat /\ Len(list) \in Nat
          /\ \A j \in Live(list) : d(j) \in Decisions
          /\ \A j \in Live(list) : j <= Len(list)
          /\ 0 \notin Live(list)
      BY <3>1, InLoopList, MaxCandidatesAssumption, DecideType DEF Live
    <3>3. /\ \A j \in Live(list) : d(j) = "allow" => j >= i
          /\ \/ bestAsk = 0 /\ \A j \in Live(list) : d(j) = "ask" => j >= i
             \/ /\ bestAsk \in Live(list) /\ d(bestAsk) = "ask"
                /\ \A j \in Live(list) : d(j) = "ask" => bestAsk <= j
      BY <3>1 DEF IInv, LoopInv, IsNewestBefore, Judged
    <3>4. CASE ReturnAllowed
      <4>1. outcome' = Selected(i, "allow", firstRejected) /\ UNCHANGED <<request, reply>>
        BY <3>4 DEF ReturnAllowed, Return
      <4>2. \A j \in Live(list) : /\ d(j) \in {"allow", "ask", "deny"}
                                  /\ j < i => d(j) \in {"ask", "deny"}
        BY <3>2, <3>3 DEF Decisions
      <4>3. /\ outcome'.kind = "selected" /\ outcome'.index = i /\ outcome'.decision = "allow"
            /\ reply' = reply /\ request' = request
        BY <4>1 DEF Selected
      <4>4. \A j \in Live(list) :
               /\ Rank(d(j)) >= Rank(outcome'.decision)
               /\ j < i => Rank(d(j)) > Rank(outcome'.decision)
        BY <4>2, <4>3 DEF Rank
      <4>5. QED
        BY <4>3, <4>4 DEF SelectionIsBest
    <3>5. CASE ReturnBestAsk
      <4>1. /\ outcome' = Selected(bestAsk, "ask", bestAskReason) /\ bestAsk # 0
            /\ UNCHANGED <<request, reply>> /\ i > Len(list)
        BY <3>5 DEF ReturnBestAsk, Return, LoopEnded
      <4>2. \A j \in Live(list) : /\ d(j) \in {"ask", "deny"}
                                  /\ j < bestAsk => d(j) = "deny"
        BY <4>1, <3>2, <3>3 DEF Decisions
      <4>3. /\ outcome'.kind = "selected" /\ outcome'.index = bestAsk
            /\ outcome'.decision = "ask" /\ reply' = reply /\ request' = request
        BY <4>1 DEF Selected
      <4>4. \A j \in Live(list) :
               /\ Rank(d(j)) >= Rank(outcome'.decision)
               /\ j < bestAsk => Rank(d(j)) > Rank(outcome'.decision)
        BY <4>2, <4>3 DEF Rank
      <4>5. QED
        BY <4>3, <4>4 DEF SelectionIsBest
    <3>6. CASE ReturnAllFailed
      <4>1. /\ outcome' = Failed(firstRejected) /\ bestAsk = 0
            /\ UNCHANGED <<request, reply>> /\ i > Len(list)
        BY <3>6 DEF ReturnAllFailed, Return, LoopEnded
      <4>2. \A j \in Live(list) : d(j) = "deny"
        BY <4>1, <3>2, <3>3 DEF Decisions
      <4>3. QED
        BY <4>1, <4>2 DEF SelectionIsBest, Failed
    <3>7. QED
      BY <2>5, <3>4, <3>5, <3>6
  <2>6. QED
    BY <2>1, <2>2, <2>3, <2>4, <2>5
       DEF Next, Local, vars, EnterLoop, SkipDeprecated, RejectCandidate
<1>3. QED
  BY <1>1, <1>2, Invariance, PTL DEF Spec
=============================================================================
