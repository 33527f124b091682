-------------------------- MODULE SelectorPromise ---------------------------
(***************************************************************************)
(* What Selector.Select promises its caller, without saying how: one       *)
(* answer of the provider is followed by one outcome, the one Promised     *)
(* defines.                                                                *)
(***************************************************************************)
EXTENDS Selection

CONSTANT Requests   \* the package requests: [cfg, name, mode, pinned]

ASSUME RequestsAssumption ==
    \A r \in Requests : r.pinned \in BOOLEAN

VARIABLES request, reply, outcome

promiseVars == <<request, reply, outcome>>

PromiseInit ==
    /\ request \in Requests
    /\ reply = NoReply
    /\ outcome = NoOutcome

ProviderAnswers ==
    /\ reply = NoReply
    /\ reply' \in Answers(request)
    /\ UNCHANGED <<request, outcome>>

Deliver ==
    /\ reply # NoReply
    /\ outcome = NoOutcome
    /\ outcome' = Promised(request, reply)
    /\ UNCHANGED <<request, reply>>

PromiseSpec == PromiseInit /\ [][ProviderAnswers \/ Deliver]_promiseVars
=============================================================================
