-------------------------------- MODULE Gate --------------------------------
(***************************************************************************)
(* What the guard promises about the commands of an agent: each is decided *)
(* once; one that is barred never runs; one that is granted installs what  *)
(* the grant is about or something published after the guard looked.  Only *)
(* a command whose hook was stopped for its time escapes.                  *)
(***************************************************************************)
EXTENDS Naturals

CONSTANT Hooks  \* the commands, one hook each

VARIABLES published,  \* versions 1..published exist
          stage,      \* of every command
          grant,      \* of every command: the versions granted,
          known,      \*   out of the versions 1..known,
          installed   \*   and the one installed, 0 for none

vars == <<published, stage, grant, known, installed>>

Init ==
    /\ published \in Nat
    /\ stage = [h \in Hooks |-> "waiting"]
    /\ grant = [h \in Hooks |-> {}]
    /\ known = [h \in Hooks |-> 0]
    /\ installed = [h \in Hooks |-> 0]

Publish == published' = published + 1 /\ UNCHANGED <<stage, grant, known, installed>>

Move(h, from, to) == stage[h] = from /\ stage' = [stage EXCEPT ![h] = to]

Bar(h) == Move(h, "waiting", "barred") /\ UNCHANGED <<published, grant, known, installed>>

(* The guard looked at the versions published by then. *)
Grant(h) ==
    /\ Move(h, "waiting", "granted")
    /\ \E n \in 0..published, S \in SUBSET (0..published) :
          /\ \A v \in S : v <= n
          /\ known' = [known EXCEPT ![h] = n]
          /\ grant' = [grant EXCEPT ![h] = S]
    /\ UNCHANGED <<published, installed>>

Escape(h) ==
    /\ Move(h, "waiting", "unguarded")
    /\ UNCHANGED <<published, grant, known, installed>>

Run(h) ==
    /\ \/ Move(h, "granted", "ran") /\ installed'[h] \in grant[h] \cup (known[h] + 1)..published
       \/ Move(h, "unguarded", "ran") /\ installed'[h] \in 0..published
    /\ installed' = [installed EXCEPT ![h] = installed'[h]]
    /\ UNCHANGED <<published, grant, known>>

Next ==
    \/ Publish
    \/ \E h \in Hooks : Bar(h) \/ Grant(h) \/ Escape(h) \/ Run(h)

Spec == Init /\ [][Next]_vars
=============================================================================
