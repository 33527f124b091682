--------------------------- MODULE AgentRunProofs ---------------------------
(***************************************************************************)
(* Proofs about AgentRun, for every argument list and any number of        *)
(* interrupts: what is true of the end of the program, and that an agent   *)
(* runs hardened only.                                                     *)
(***************************************************************************)
EXTENDS AgentRun, SequenceTheorems, FiniteSetTheorems, WellFoundedInduction, TLAPS

(* Which state the child and the goroutine are in at each point of the     *)
(* main goroutine, and what ended the program.                             *)
Course ==
    /\ pc \in {"args", "load", "verify", "start"} => child = "none"
    /\ pc \in {"notify", "go", "wait"} => child \in {"running", "ended"}
    /\ pc \in {"close", "return", "exit"} => child \in {"reaped", "lost"}
    /\ notified <=> pc \in {"go", "wait", "close", "return"}
    /\ pc # "exited" => code = NoCode /\ killedAt = "never"
    /\ pc = "exited" /\ child \in {"running", "ended"} => killedAt = "notify"
    /\ pc \in {"args", "load", "verify", "start", "notify", "go"} => forwarder = "none"
    /\ forwarder # "ended" => delivered = 0

IInv == TypeOK /\ Course /\ SuccessIsReal

LEMMA Initially == Init => IInv
<1> SUFFICES ASSUME Init PROVE IInv
  OBVIOUS
<1>1. TypeOK
  BY InterruptsAssumption DEF Init, TypeOK, NoCode, KilledBySignal
<1>2. Course
  BY DEF Init, Course
<1>3. SuccessIsReal
  BY DEF Init, SuccessIsReal, NoCode
<1>4. QED
  BY <1>1, <1>2, <1>3 DEF IInv

LEMMA MainKeeps == ASSUME IInv, Main PROVE IInv'
<1> USE DEF IInv, TypeOK, Course, SuccessIsReal, NoCode, KilledBySignal, Finish, setting, watch
<1>1. CASE RefuseArgs
  BY <1>1 DEF RefuseArgs
<1>2. CASE DryRun
  BY <1>2 DEF DryRun
<1>3. CASE WrapCommand
  BY <1>3 DEF WrapCommand
<1>4. CASE LoadSetup
  BY <1>4 DEF LoadSetup
<1>5. CASE VerifySetup
  <2>1. /\ \/ pc' = "start" /\ code' = code
           \/ pc' = "exited" /\ code' = 1
        /\ UNCHANGED <<inv, child, childCode, watch, killedAt, raised>>
    BY <1>5 DEF VerifySetup
  <2>2. pc = "verify"
    BY <1>5 DEF VerifySetup
  <2>3. QED
    BY <2>1, <2>2
<1>6. CASE StartAgent
  BY <1>6 DEF StartAgent
<1>7. CASE Notify
  BY <1>7 DEF Notify
<1>8. CASE StartForwarder
  BY <1>8 DEF StartForwarder
<1>9. CASE WaitReturns
  BY <1>9 DEF WaitReturns
<1>10. CASE CloseDone
  BY <1>10 DEF CloseDone
<1>11. CASE Return
  <2>1. /\ pc = "return" /\ pc' = "exit" /\ ~notified' /\ notified' \in BOOLEAN
        /\ UNCHANGED <<inv, child, childCode, signals, forwarder, delivered, done, raised,
                       code, killedAt>>
    BY <1>11 DEF Return
  <2>2. QED
    BY <2>1
<1>12. CASE Exit
  BY <1>12 DEF Exit
<1>13. QED
  BY <1>1, <1>2, <1>3, <1>4, <1>5, <1>6, <1>7, <1>8, <1>9, <1>10, <1>11, <1>12 DEF Main

LEMMA OthersKeep == ASSUME IInv, Forwarder \/ Interrupt \/ AgentEnds PROVE IInv'
<1> USE DEF IInv, TypeOK, Course, SuccessIsReal, NoCode, KilledBySignal, setting, watch
<1>1. CASE ForwardInterrupt
  BY <1>1 DEF ForwardInterrupt
<1>2. CASE EndForwarder
  BY <1>2 DEF EndForwarder
<1>3. CASE Interrupt
  BY <1>3, InterruptsAssumption DEF Interrupt, Finish, KilledBySignal
<1>4. CASE AgentEnds
  BY <1>4 DEF AgentEnds
<1>5. QED
  BY <1>1, <1>2, <1>3, <1>4 DEF Forwarder

LEMMA Kept == IInv /\ [Next]_vars => IInv'
<1>1. CASE UNCHANGED vars
  BY <1>1 DEF vars, IInv, TypeOK, Course, SuccessIsReal
<1>2. QED
  BY <1>1, MainKeeps, OthersKeep DEF Next

LEMMA Invariance == Spec => []IInv
BY Initially, Kept, PTL DEF Spec

(* One signal at most is in the channel or under way to the agent          *)
(* (main.go:159-173).                                                      *)
THEOREM TypeCorrect == Spec => []TypeOK
<1>1. IInv => TypeOK
  BY DEF IInv
<1>2. QED
  BY <1>1, Invariance, PTL

(* However many interrupts come, the program outlives the agent unless one *)
(* comes before Notify (main.go:159-176).                                  *)
THEOREM OutlivesAgent == Spec => []AgentNotAbandoned
<1>1. IInv => AgentNotAbandoned
  BY DEF IInv, Course, AgentNotAbandoned
<1>2. QED
  BY <1>1, Invariance, PTL

(* The exit code is that of the agent, and success is never reported for   *)
(* anything else (main.go:120-123, 176-184).                               *)
THEOREM CodeIsAgents == Spec => []SuccessIsReal
<1>1. IInv => SuccessIsReal
  BY DEF IInv
<1>2. QED
  BY <1>1, Invariance, PTL

-----------------------------------------------------------------------------
(* Lists of arguments.  The wrapper's own words are named because the       *)
(* provers do not know that a literal is a string.                         *)
OwnWords == {"--settings", "hardened settings", "--plugin-dir", "plugin",
             "--permission-mode", "default", "--sandbox", "workspace-write",
             "--ask-for-approval", "on-request", "-c",
             "sandbox_workspace_write.network_access", "false",
             "features.hooks", "true", "hooks.PreToolUse", "guard"}
Text == STRING \cup OwnWords
Arguments == Seq(Text) \ {<<>>}

(* A set of natural numbers that is not empty has a least element, because *)
(* the intervals 0..n, ordered by strict inclusion, are well-founded.      *)
LEMMA FirstOf ==
    ASSUME NEW T \in SUBSET Nat, T # {}
    PROVE  Min(T) \in T /\ \A y \in T : Min(T) <= y
<1> DEFINE I == {0..n : n \in T}
<1>1. I \subseteq FiniteSubsetsOf(Nat) /\ I # {}
  <2>1. \A n \in T : 0..n \in SUBSET Nat /\ IsFiniteSet(0..n)
    BY FS_Interval
  <2>2. QED
    BY <2>1 DEF FiniteSubsetsOf
<1>2. PICK i \in I : \A j \in I : <<j, i>> \notin StrictSubsetOrdering(Nat)
  <2> HIDE DEF I
  <2> QED
    BY <1>1, WFMin, FS_StrictSubsetOrderingWellFounded
<1>3. PICK m \in T : i = 0..m
  OBVIOUS
<1>4. ASSUME NEW k \in T, k < m
      PROVE  FALSE
  <2>1. m \in 0..m /\ m \notin 0..k
    BY <1>4
  <2>2. 0..k \subseteq 0..m /\ 0..k # 0..m /\ 0..k \in SUBSET Nat /\ 0..m \in SUBSET Nat
    BY <1>4, <2>1
  <2>3. <<0..k, 0..m>> \in StrictSubsetOrdering(Nat)
    BY <2>2 DEF StrictSubsetOrdering
  <2>4. QED
    BY <2>3, <1>2, <1>3
<1>5. \A y \in T : m <= y
  BY <1>4
<1>6. QED
  BY <1>5 DEF Min

LEMMA Joined ==
    ASSUME NEW S, NEW A \in Seq(S), NEW B \in Seq(S)
    PROVE  /\ A \o B \in Seq(S) /\ Len(A) \in Nat /\ Len(B) \in Nat
           /\ Len(A \o B) = Len(A) + Len(B)
           /\ DOMAIN A = 1..Len(A) /\ DOMAIN B = 1..Len(B)
           /\ DOMAIN (A \o B) = 1..(Len(A) + Len(B))
           /\ \A i \in 1..Len(A) : (A \o B)[i] = A[i]
           /\ \A i \in 1..Len(B) : (A \o B)[Len(A) + i] = B[i]
OBVIOUS

LEMMA Words ==
    ASSUME NEW S, NEW x \in S, NEW y \in S
    PROVE  /\ <<x>> \in Seq(S) /\ Len(<<x>>) = 1 /\ Head(<<x>>) = x /\ <<x>> # <<>>
           /\ <<x, y>> \in Seq(S) /\ Len(<<x, y>>) = 2 /\ Head(<<x, y>>) = x
           /\ <<x, y>>[1] = x /\ <<x, y>>[2] = y /\ <<x, y>> # <<>>
OBVIOUS

LEMMA OneWord ==
    ASSUME NEW x \in Text
    PROVE  <<x>> \in Arguments /\ Len(<<x>>) = 1 /\ Head(<<x>>) = x
BY Words DEF Arguments

LEMMA TwoWords ==
    ASSUME NEW x \in Text, NEW y \in Text
    PROVE  /\ <<x, y>> \in Arguments /\ Len(<<x, y>>) = 2
           /\ Head(<<x, y>>) = x /\ <<x, y>>[1] = x
BY Words DEF Arguments

LEMMA PairsJoined ==
    ASSUME NEW a, NEW b, NEW c, NEW d
    PROVE  <<a, b>> \o <<c, d>> = <<a, b, c, d>> /\ <<>> \o <<>> = <<>>
<1> DEFINE S == {a, b, c, d}
<1>1. PICK x, y, t : x = <<a, b>> /\ y = <<c, d>> /\ t = <<a, b, c, d>>
  OBVIOUS
<1>2. /\ x \in Seq(S) /\ Len(x) = 2 /\ x[1] = a /\ x[2] = b
      /\ y \in Seq(S) /\ Len(y) = 2 /\ y[1] = c /\ y[2] = d
      /\ t \in Seq(S) /\ Len(t) = 4 /\ t[1] = a /\ t[2] = b /\ t[3] = c /\ t[4] = d
  BY <1>1
<1> HIDE DEF S
<1>3. /\ x \o y \in Seq(S) /\ Len(x \o y) = 4
      /\ (x \o y)[1] = a /\ (x \o y)[2] = b /\ (x \o y)[3] = c /\ (x \o y)[4] = d
  <2>1. /\ x \o y \in Seq(S) /\ Len(x \o y) = Len(x) + Len(y)
        /\ \A i \in 1..Len(x) : (x \o y)[i] = x[i]
        /\ \A i \in 1..Len(y) : (x \o y)[Len(x) + i] = y[i]
    <3>1. \A u, w \in Seq(S) :
             /\ u \o w \in Seq(S) /\ Len(u \o w) = Len(u) + Len(w)
             /\ \A i \in 1..Len(u) : (u \o w)[i] = u[i]
             /\ \A i \in 1..Len(w) : (u \o w)[Len(u) + i] = w[i]
      BY Joined
    <3>2. QED
      BY <1>2, <3>1, Zenon
  <2>2. 1 \in 1..2 /\ 2 \in 1..2 /\ 2 + 1 = 3 /\ 2 + 2 = 4
    OBVIOUS
  <2>3. QED
    BY <1>2, <2>1, <2>2
<1>4. x \o y = t
  BY <1>2, <1>3, SeqEqual
<1>5. <<>> \o <<>> = <<>>
  OBVIOUS
<1>6. QED
  BY <1>1, <1>4, <1>5

(* What comes first ends with no flag that would take its value from what  *)
(* follows; then the values are those of the two.                          *)
LEMMA ValuesJoined ==
    ASSUME NEW S, NEW A \in Seq(S), NEW B \in Seq(S), NEW name,
           \A i \in DOMAIN A : Head(A[i]) = name => i < Len(A)
    PROVE  Values(A \o B, name) = Values(A, name) \cup Values(B, name)
<1> DEFINE C == A \o B
           Value(s, i, v) == /\ i \in DOMAIN s /\ Head(s[i]) = name
                             /\ Len(s[i]) > 1 \/ i < Len(s)
                             /\ v = IF Len(s[i]) > 1 THEN Tail(s[i]) ELSE s[i + 1]
<1>1. \A s, v : v \in Values(s, name) <=> \E i : Value(s, i, v)
  BY DEF Values, Occurrences, ValueAt
<1>2. /\ Len(A) \in Nat /\ Len(B) \in Nat
      /\ Len(C) = Len(A) + Len(B)
      /\ DOMAIN A = 1..Len(A) /\ DOMAIN B = 1..Len(B)
      /\ DOMAIN C = 1..(Len(A) + Len(B))
      /\ \A i \in 1..Len(A) : C[i] = A[i]
      /\ \A i \in 1..Len(B) : C[Len(A) + i] = B[i]
  BY Joined
<1> HIDE DEF C
<1>3. \A i \in 1..Len(A) : \A v : Value(A, i, v) <=> Value(C, i, v)
  BY <1>2
<1>4. \A i \in 1..Len(B) : \A v : Value(B, i, v) <=> Value(C, Len(A) + i, v)
  BY <1>2
<1>5. \A i \in 1..Len(C) : i \in 1..Len(A) \/ (i - Len(A) \in 1..Len(B) /\ i = Len(A) + (i - Len(A)))
  BY <1>2
<1>6. \A v : (\E i : Value(C, i, v)) <=> (\E i : Value(A, i, v)) \/ (\E i : Value(B, i, v))
  <2>1. \A i, v : /\ Value(A, i, v) => i \in 1..Len(A)
                  /\ Value(B, i, v) => i \in 1..Len(B)
                  /\ Value(C, i, v) => i \in 1..Len(C)
    BY <1>2
  <2> HIDE DEF Value
  <2>2. QED
    BY <1>3, <1>4, <1>5, <2>1
<1> HIDE DEF Value
<1>7. QED
  BY <1>1, <1>6 DEF C

(* A flag without a value of its own, and its value after it.              *)
LEMMA ValuesOfPair ==
    ASSUME NEW f \in Arguments, NEW v \in Arguments, NEW name, Len(f) = 1, Head(v) # name
    PROVE  /\ <<f, v>> \in Seq(Arguments)
           /\ \A i \in DOMAIN <<f, v>> : Head(<<f, v>>[i]) = name => i < Len(<<f, v>>)
           /\ Values(<<f, v>>, name) = IF Head(f) = name THEN {v} ELSE {}
<1>1. PICK A : A = <<f, v>>
  OBVIOUS
<1>2. A \in Seq(Arguments) /\ Len(A) = 2 /\ DOMAIN A = {1, 2} /\ A[1] = f /\ A[2] = v
  BY <1>1
<1>3. \A i \in DOMAIN A : Head(A[i]) = name => i < Len(A)
  BY <1>2
<1>4. Occurrences(A, name) = IF Head(f) = name THEN {1} ELSE {}
  BY <1>2 DEF Occurrences
<1>5. ValueAt(A, 1) = v
  <2>1. ValueAt(A, 1) = IF Len(A[1]) > 1 THEN Tail(A[1]) ELSE A[1 + 1]
    BY DEF ValueAt
  <2>2. Len(A[1]) = 1 /\ 1 + 1 = 2 /\ ~(1 > 1)
    BY <1>2
  <2>3. QED
    BY <1>2, <2>1, <2>2, Zenon
<1>6. Values(A, name) = IF Head(f) = name THEN {v} ELSE {}
  BY <1>4, <1>5 DEF Values
<1>7. QED
  BY <1>1, <1>2, <1>3, <1>6

(* The wrapper reads the first occurrence: nothing read, nothing given,    *)
(* and what it read is among what is given, alone if the flag is there     *)
(* once.                                                                   *)
LEMMA ValueRead ==
    ASSUME NEW args \in Seq(Arguments), NEW name
    PROVE  /\ FlagValue(args, name) = <<>> => Values(args, name) = {}
           /\ FlagValue(args, name) # <<>> => FlagValue(args, name) \in Values(args, name)
           /\ Once(args, name) => Values(args, name) \subseteq {FlagValue(args, name)}
<1> DEFINE at == Occurrences(args, name)
<1>1. /\ DOMAIN args = 1..Len(args) /\ Len(args) \in Nat
      /\ \A i \in 1..Len(args) : args[i] \in Seq(Text) /\ args[i] # <<>>
  BY DEF Arguments
<1>2. at \in SUBSET Nat
  BY <1>1 DEF Occurrences
<1>3. ASSUME NEW i \in at
      PROVE  ValueAt(args, i) # <<>>
  <2>1. i \in 1..Len(args) /\ (Len(args[i]) > 1 \/ i + 1 \in 1..Len(args))
    BY <1>1 DEF Occurrences
  <2>2. CASE Len(args[i]) > 1
    <3>1. ASSUME NEW s \in Seq(Text), Len(s) > 1
          PROVE  Tail(s) # <<>>
      <4>1. Len(Tail(s)) = Len(s) - 1 /\ Len(s) \in Nat
        BY <3>1
      <4>2. PICK n \in Nat : n = Len(s)
        BY <4>1
      <4>3. Len(Tail(s)) # 0
        BY <3>1, <4>1, <4>2
      <4>4. Len(<<>>) = 0
        OBVIOUS
      <4>5. QED
        BY <4>3, <4>4, Zenon
    <3>2. QED
      BY <1>1, <2>1, <2>2, <3>1 DEF ValueAt
  <2>3. QED
    BY <1>1, <2>1, <2>2 DEF ValueAt
<1>4. CASE at = {}
  BY <1>4 DEF FlagValue, Values
<1>5. CASE at # {}
  <2>1. Min(at) \in at
    BY <1>2, <1>5, FirstOf
  <2>2. FlagValue(args, name) = ValueAt(args, Min(at))
    BY <1>5 DEF FlagValue
  <2>3. FlagValue(args, name) # <<>> /\ FlagValue(args, name) \in Values(args, name)
    BY <1>3, <2>1, <2>2 DEF Values
  <2>4. ASSUME Once(args, name), NEW i \in at
        PROVE  i = Min(at)
    BY <2>1, <2>4 DEF Once
  <2>5. QED
    BY <2>2, <2>3, <2>4 DEF Values
<1>6. QED
  BY <1>4, <1>5

-----------------------------------------------------------------------------
(* What is put before the arguments of the caller.  The proofs about the   *)
(* wrapper use lists of arguments through these names and lemmas only.     *)
Lists == Seq(Arguments)
Put(A, B) == A \o B
Pair(f, v) == <<f, v>>

IsPair(f, name, v) ==
    f \in Arguments /\ v \in Arguments /\ Len(f) = 1 /\ Head(f) = name

LEMMA PutBefore ==
    /\ <<>> \in Lists
    /\ \A X, Y \in Lists : Put(X, Y) \in Lists
    /\ \A X, Y, Z \in Lists : Put(Put(X, Y), Z) = Put(X, Put(Y, Z))
    /\ \A X \in Lists : Put(<<>>, X) = X
<1>1. ASSUME NEW X \in Seq(Arguments), NEW Y \in Seq(Arguments), NEW Z \in Seq(Arguments)
      PROVE  X \o Y \in Seq(Arguments) /\ (X \o Y) \o Z = X \o (Y \o Z) /\ <<>> \o X = X
  BY ConcatAssociative, ConcatProperties
<1>2. <<>> \in Seq(Arguments)
  OBVIOUS
<1>3. QED
  BY <1>1, <1>2 DEF Lists, Put

LEMMA PairOf ==
    ASSUME NEW x \in Text, NEW y \in Text
    PROVE  /\ IsPair(<<x>>, x, <<y>>) /\ Head(<<y>>) = y
           /\ \A z \in Text : IsPair(<<x>>, x, <<y, z>>) /\ Head(<<y, z>>) = y
BY OneWord, TwoWords DEF IsPair

(* Putting A before other arguments adds the values vs of the flag.        *)
Adds(A, flag, vs) ==
    /\ A \in Lists
    /\ \A Y \in Lists : \A name : (\A v \in vs : Head(v) # name) =>
          Values(Put(A, Y), name) = (IF flag = name THEN vs ELSE {}) \cup Values(Y, name)

LEMMA PairBefore ==
    ASSUME NEW f, NEW flag, NEW v, IsPair(f, flag, v)
    PROVE  Adds(Pair(f, v), flag, {v})
<1>1. <<f, v>> \in Seq(Arguments)
  BY Words DEF IsPair
<1>2. ASSUME NEW Y \in Seq(Arguments), NEW name, Head(v) # name
      PROVE  Values(<<f, v>> \o Y, name) = (IF flag = name THEN {v} ELSE {}) \cup Values(Y, name)
  <2>1. PICK A \in Seq(Arguments) :
           /\ A = <<f, v>>
           /\ \A i \in DOMAIN A : Head(A[i]) = name => i < Len(A)
           /\ Values(A, name) = IF flag = name THEN {v} ELSE {}
    BY <1>2, ValuesOfPair DEF IsPair
  <2>2. \A X, Z \in Seq(Arguments) :
           (\A i \in DOMAIN X : Head(X[i]) = name => i < Len(X))
              => Values(X \o Z, name) = Values(X, name) \cup Values(Z, name)
    BY ValuesJoined
  <2>3. Values(A \o Y, name) = Values(A, name) \cup Values(Y, name)
    BY <2>1, <2>2, Zenon
  <2>4. QED
    BY <2>1, <2>3
<1>3. QED
  BY <1>1, <1>2 DEF Lists, Put, Pair, Adds

(* Whether the pair is put before, or nothing.                             *)
LEMMA UnlessBefore ==
    ASSUME NEW f, NEW flag, NEW v, IsPair(f, flag, v), NEW present
    PROVE  Adds(Unless(present, Pair(f, v)), flag, IF present THEN {} ELSE {v})
<1>1. CASE present
  BY <1>1, PutBefore DEF Unless, Adds
<1>2. CASE ~present
  BY <1>2, PairBefore DEF Unless, Adds
<1>3. QED
  BY <1>1, <1>2

LEMMA ClaudeHardened ==
    ASSUME NEW args \in Lists, NEW plugin \in BOOLEAN, ValidClaudeArgs(args)
    PROVE  LET list == HardenedClaudeArgs(args, plugin) IN
           /\ Values(list, "--settings") = {HardenedSettings}
           /\ Values(list, "--permission-mode") # {}
           /\ Once(args, "--permission-mode") =>
                 Values(list, "--permission-mode") \subseteq {<<"default">>, <<"plan">>}
<1> DEFINE noDir == ~plugin \/ HasFlagWithValue(args, "--plugin-dir")
           mode == HasFlagWithValue(args, "--permission-mode")
<1>1. PICK f, d, p, g, m : /\ f = <<"--settings">>
                           /\ d = <<"--plugin-dir">> /\ p = <<"plugin">>
                           /\ g = <<"--permission-mode">> /\ m = <<"default">>
  OBVIOUS
<1>2. /\ IsPair(f, "--settings", HardenedSettings) /\ Head(HardenedSettings) = "hardened settings"
      /\ IsPair(d, "--plugin-dir", p) /\ Head(p) = "plugin"
      /\ IsPair(g, "--permission-mode", m) /\ Head(m) = "default"
  <2>1. OwnWords \subseteq Text
    BY DEF Text
  <2>2. /\ "--settings" \in Text /\ "hardened settings" \in Text /\ "--plugin-dir" \in Text
        /\ "plugin" \in Text /\ "--permission-mode" \in Text /\ "default" \in Text
    BY <2>1 DEF OwnWords
  <2>3. QED
    BY <1>1, <2>2, PairOf DEF HardenedSettings
<1>3. \A v \in {HardenedSettings, p, m} : Head(v) \notin {"--settings", "--permission-mode"}
  BY <1>2
<1>5. PICK A, D, M : /\ A = Pair(f, HardenedSettings)
                     /\ D = Unless(noDir, Pair(d, p))
                     /\ M = Unless(mode, Pair(g, m))
  OBVIOUS
<1>6. HardenedClaudeArgs(args, plugin) = Put(Put(Put(A, D), M), args)
  BY <1>1, <1>5 DEF HardenedClaudeArgs, Put, Pair
<1>7. /\ \A name \in {"--settings", "--permission-mode"} :
            \A Y \in Lists : /\ Values(Put(A, Y), name)
                                  = (IF "--settings" = name THEN {HardenedSettings} ELSE {})
                                      \cup Values(Y, name)
                             /\ Values(Put(D, Y), name) = Values(Y, name)
                             /\ Values(Put(M, Y), name)
                                  = (IF "--permission-mode" = name /\ ~mode THEN {m} ELSE {})
                                      \cup Values(Y, name)
      /\ A \in Lists /\ D \in Lists /\ M \in Lists
  <2> HIDE DEF noDir, mode
  <2>1. Adds(A, "--settings", {HardenedSettings})
    BY <1>2, <1>5, PairBefore
  <2>2. Adds(D, "--plugin-dir", IF noDir THEN {} ELSE {p})
    BY <1>2, <1>5, UnlessBefore
  <2>3. Adds(M, "--permission-mode", IF mode THEN {} ELSE {m})
    BY <1>2, <1>5, UnlessBefore
  <2>4. ASSUME NEW name \in {"--settings", "--permission-mode"}, NEW Y \in Lists
        PROVE  /\ Values(Put(A, Y), name)
                    = (IF "--settings" = name THEN {HardenedSettings} ELSE {}) \cup Values(Y, name)
               /\ Values(Put(D, Y), name) = Values(Y, name)
               /\ Values(Put(M, Y), name)
                    = (IF "--permission-mode" = name /\ ~mode THEN {m} ELSE {}) \cup Values(Y, name)
    <3>1. Head(HardenedSettings) # name /\ Head(p) # name /\ Head(m) # name /\ "--plugin-dir" # name
      BY <1>3
    <3>2. Values(Put(A, Y), name)
            = (IF "--settings" = name THEN {HardenedSettings} ELSE {}) \cup Values(Y, name)
      BY <2>1, <3>1 DEF Adds
    <3>3. Values(Put(D, Y), name)
            = (IF "--plugin-dir" = name THEN IF noDir THEN {} ELSE {p} ELSE {}) \cup Values(Y, name)
      BY <2>2, <3>1 DEF Adds
    <3>4. Values(Put(M, Y), name)
            = (IF "--permission-mode" = name THEN IF mode THEN {} ELSE {m} ELSE {}) \cup Values(Y, name)
      BY <2>3, <3>1 DEF Adds
    <3>5. QED
      BY <3>1, <3>2, <3>3, <3>4
  <2>5. QED
    BY <2>1, <2>2, <2>3, <2>4 DEF Adds
<1>8. HardenedClaudeArgs(args, plugin) = Put(A, Put(D, Put(M, args)))
      /\ Put(M, args) \in Lists /\ Put(D, Put(M, args)) \in Lists
  BY <1>6, <1>7, PutBefore
<1>9. \A name \in {"--settings", "--permission-mode"} :
         Values(HardenedClaudeArgs(args, plugin), name)
           = (IF "--settings" = name THEN {HardenedSettings} ELSE {})
               \cup (IF "--permission-mode" = name /\ ~mode THEN {m} ELSE {})
               \cup Values(args, name)
  <2> HIDE DEF noDir, mode
  <2> QED
    BY <1>7, <1>8
<1>10. /\ Values(args, "--settings") = {}
       /\ mode => Values(args, "--permission-mode") # {}
       /\ ~mode => Values(args, "--permission-mode") = {}
       /\ Once(args, "--permission-mode") =>
             Values(args, "--permission-mode") \subseteq {<<"default">>, <<"plan">>}
  <2>1. \A name : /\ FlagValue(args, name) = <<>> => Values(args, name) = {}
                  /\ FlagValue(args, name) # <<>> => FlagValue(args, name) \in Values(args, name)
                  /\ Once(args, name) => Values(args, name) \subseteq {FlagValue(args, name)}
    BY ValueRead DEF Lists
  <2>2. /\ FlagValue(args, "--settings") = <<>>
        /\ FlagValue(args, "--permission-mode") \in {<<>>, <<"default">>, <<"plan">>}
        /\ mode <=> FlagValue(args, "--permission-mode") # <<>>
    BY DEF ValidClaudeArgs, HasFlagWithValue
  <2> HIDE DEF mode
  <2>3. QED
    BY <2>1, <2>2
<1> HIDE DEF noDir, mode
<1>11. QED
  BY <1>1, <1>9, <1>10

-----------------------------------------------------------------------------
(* Assignments of codex.                                                   *)
LEMMA ConfigBefore ==
    ASSUME NEW A, NEW flag, NEW vs, Adds(A, flag, vs),
           \A v \in vs : Head(v) \notin {"-c", "--config"}
    PROVE  \A Y \in Lists :
              CodexConfigValues(Put(A, Y))
                = (IF flag \in {"-c", "--config"} THEN vs ELSE {}) \cup CodexConfigValues(Y)
<1> SUFFICES ASSUME NEW Y \in Lists
             PROVE  CodexConfigValues(Put(A, Y))
                      = (IF flag \in {"-c", "--config"} THEN vs ELSE {}) \cup CodexConfigValues(Y)
  OBVIOUS
<1>1. Values(Put(A, Y), "-c") = (IF flag = "-c" THEN vs ELSE {}) \cup Values(Y, "-c")
  BY DEF Adds
<1>2. Values(Put(A, Y), "--config") = (IF flag = "--config" THEN vs ELSE {}) \cup Values(Y, "--config")
  BY DEF Adds
<1>3. QED
  BY <1>1, <1>2 DEF CodexConfigValues

LEMMA SandboxBefore ==
    ASSUME NEW A, NEW flag, NEW vs, Adds(A, flag, vs), \A v \in vs : Head(v) # "--sandbox"
    PROVE  \A Y \in Lists :
              Values(Put(A, Y), "--sandbox")
                = (IF flag = "--sandbox" THEN vs ELSE {}) \cup Values(Y, "--sandbox")
BY DEF Adds

LEMMA KeysKept ==
    ASSUME NEW A, NEW B, CodexConfigValues(A) \subseteq CodexConfigValues(B)
    PROVE  \A key : HasCodexConfigKey(A, key) => HasCodexConfigKey(B, key)
BY DEF HasCodexConfigKey

LEMMA CodexHardened ==
    ASSUME NEW args \in Lists, ValidCodexArgs(args)
    PROVE  LET list == HardenedCodexArgs(args) IN
           /\ \/ Values(list, "--sandbox") # {}
              \/ HasCodexConfigKey(list, "sandbox_mode")
              \/ HasCodexConfigKey(list, "default_permissions")
           /\ Once(args, "--sandbox") =>
                 <<"danger-full-access">> \notin Values(list, "--sandbox")
           /\ HasCodexConfigKey(list, "sandbox_workspace_write.network_access")
           /\ CodexConfigValues(list) \cap DangerousAssignments = {}
           /\ \/ HasCodexHookConfig(args)
              \/ {<<"features.hooks", "true">>, <<"hooks.PreToolUse", "guard">>}
                    \subseteq CodexConfigValues(list)
<1> DEFINE box == \/ HasFlagWithValue(args, "--sandbox")
                  \/ HasCodexConfigKey(args, "sandbox_mode")
                  \/ HasCodexConfigKey(args, "default_permissions")
           asks == \/ HasFlagWithValue(args, "--ask-for-approval")
                   \/ HasFlagWithValue(args, "-a")
                   \/ HasCodexConfigKey(args, "approval_policy")
           open == HasCodexConfigKey(args, "sandbox_workspace_write.network_access")
           hooked == HasCodexHookConfig(args)
<1>1. PICK s, write, a, request, c, net, hooks, guard :
         /\ s = <<"--sandbox">> /\ write = <<"workspace-write">>
         /\ a = <<"--ask-for-approval">> /\ request = <<"on-request">>
         /\ c = <<"-c">> /\ net = <<"sandbox_workspace_write.network_access", "false">>
         /\ hooks = <<"features.hooks", "true">> /\ guard = <<"hooks.PreToolUse", "guard">>
  OBVIOUS
<1>2. /\ IsPair(s, "--sandbox", write) /\ Head(write) = "workspace-write"
      /\ IsPair(a, "--ask-for-approval", request) /\ Head(request) = "on-request"
      /\ IsPair(c, "-c", net) /\ Head(net) = "sandbox_workspace_write.network_access"
      /\ IsPair(c, "-c", hooks) /\ Head(hooks) = "features.hooks"
      /\ IsPair(c, "-c", guard) /\ Head(guard) = "hooks.PreToolUse"
  <2>1. OwnWords \subseteq Text
    BY DEF Text
  <2>2. /\ "--sandbox" \in Text /\ "workspace-write" \in Text
        /\ "--ask-for-approval" \in Text /\ "on-request" \in Text
        /\ "-c" \in Text /\ "sandbox_workspace_write.network_access" \in Text
        /\ "false" \in Text /\ "features.hooks" \in Text /\ "true" \in Text
        /\ "hooks.PreToolUse" \in Text /\ "guard" \in Text
    BY <2>1 DEF OwnWords
  <2>3. IsPair(s, "--sandbox", write) /\ Head(write) = "workspace-write"
    BY <1>1, <2>2, PairOf
  <2>4. IsPair(a, "--ask-for-approval", request) /\ Head(request) = "on-request"
    BY <1>1, <2>2, PairOf
  <2>5. IsPair(c, "-c", net) /\ Head(net) = "sandbox_workspace_write.network_access"
    BY <1>1, <2>2, PairOf
  <2>6. IsPair(c, "-c", hooks) /\ Head(hooks) = "features.hooks"
    BY <1>1, <2>2, PairOf
  <2>7. IsPair(c, "-c", guard) /\ Head(guard) = "hooks.PreToolUse"
    BY <1>1, <2>2, PairOf
  <2>8. QED
    BY <2>3, <2>4, <2>5, <2>6, <2>7
<1>3. /\ \A v \in {write, request, net, hooks, guard} :
            Head(v) \notin {"--sandbox", "-c", "--config"}
      /\ write # <<"danger-full-access">>
      /\ net \notin DangerousAssignments /\ hooks \notin DangerousAssignments
      /\ guard \notin DangerousAssignments
      /\ net[1] = "sandbox_workspace_write.network_access" /\ Len(net) > 1
  BY <1>1, <1>2 DEF DangerousAssignments
<1> HIDE DEF box, asks, open, hooked
<1>5. PICK P, Q, R, H, I : /\ P = Unless(box, Pair(s, write))
                           /\ Q = Unless(asks, Pair(a, request))
                           /\ R = Unless(open, Pair(c, net))
                           /\ H = Unless(hooked, Pair(c, hooks))
                           /\ I = Unless(hooked, Pair(c, guard))
  OBVIOUS
<1>6. HardenedCodexArgs(args) = Put(Put(Put(Put(P, Q), R), Put(H, I)), args)
  <2>1. Unless(hooked, <<c, hooks, c, guard>>) = Put(H, I)
    BY <1>5, PairsJoined DEF Unless, Put, Pair
  <2>2. QED
    BY <1>1, <1>5, <2>1 DEF HardenedCodexArgs, Put, Pair, box, asks, open, hooked
<1>sets. PICK W, A, N, K, G : /\ W = (IF box THEN {} ELSE {write})
                             /\ A = (IF asks THEN {} ELSE {request})
                             /\ N = (IF open THEN {} ELSE {net})
                             /\ K = (IF hooked THEN {} ELSE {hooks})
                             /\ G = (IF hooked THEN {} ELSE {guard})
  OBVIOUS
<1>4. /\ Adds(P, "--sandbox", W) /\ Adds(Q, "--ask-for-approval", A)
      /\ Adds(R, "-c", N) /\ Adds(H, "-c", K) /\ Adds(I, "-c", G)
  BY <1>2, <1>5, <1>sets, UnlessBefore
<1>7. P \in Lists /\ Q \in Lists /\ R \in Lists /\ H \in Lists /\ I \in Lists
  BY <1>4 DEF Adds
<1>8. PICK B2, B3, B4, B5 :
         B5 = Put(I, args) /\ B4 = Put(H, B5) /\ B3 = Put(R, B4) /\ B2 = Put(Q, B3)
  OBVIOUS
<1>lists. B2 \in Lists /\ B3 \in Lists /\ B4 \in Lists /\ B5 \in Lists
  BY <1>7, <1>8, PutBefore
<1>heads. \A name \in {"--sandbox", "-c", "--config"} :
            \A v \in W \cup A \cup N \cup K \cup G : Head(v) # name
  BY <1>2, <1>sets
<1>list. HardenedCodexArgs(args) = Put(P, B2)
  <2>1. PICK X \in Lists, Y \in Lists, Z \in Lists :
           X = Put(P, Q) /\ Y = Put(X, R) /\ Z = Put(H, I)
    BY <1>7, PutBefore
  <2>2. HardenedCodexArgs(args) = Put(Put(Y, Z), args)
    BY <1>6, <2>1
  <2>3. Put(Put(Y, Z), args) = Put(Y, Put(Z, args))
    BY <2>1, PutBefore
  <2>4. Put(Z, args) = B4
    BY <1>7, <1>8, <2>1, PutBefore
  <2>5. Put(Y, B4) = Put(X, B3)
    BY <1>7, <1>8, <1>lists, <2>1, PutBefore
  <2>6. Put(X, B3) = Put(P, B2)
    BY <1>7, <1>8, <1>lists, <2>1, PutBefore
  <2>7. QED
    BY <2>2, <2>3, <2>4, <2>5, <2>6
<1>10. Values(HardenedCodexArgs(args), "--sandbox") = W \cup Values(args, "--sandbox")
  <2>1. Values(B5, "--sandbox") = (IF "-c" = "--sandbox" THEN G ELSE {}) \cup Values(args, "--sandbox")
    <3>1. Adds(I, "-c", G) /\ B5 = Put(I, args) /\ args \in Lists
      BY <1>4, <1>8, <1>lists
    <3>2. \A v \in G : Head(v) # "--sandbox"
      BY <1>heads
    <3>3. QED
      BY <3>1, <3>2, SandboxBefore
  <2>2. Values(B4, "--sandbox") = (IF "-c" = "--sandbox" THEN K ELSE {}) \cup Values(B5, "--sandbox")
    <3>1. Adds(H, "-c", K) /\ B4 = Put(H, B5) /\ B5 \in Lists
      BY <1>4, <1>8, <1>lists
    <3>2. \A v \in K : Head(v) # "--sandbox"
      BY <1>heads
    <3>3. QED
      BY <3>1, <3>2, SandboxBefore
  <2>3. Values(B3, "--sandbox") = (IF "-c" = "--sandbox" THEN N ELSE {}) \cup Values(B4, "--sandbox")
    <3>1. Adds(R, "-c", N) /\ B3 = Put(R, B4) /\ B4 \in Lists
      BY <1>4, <1>8, <1>lists
    <3>2. \A v \in N : Head(v) # "--sandbox"
      BY <1>heads
    <3>3. QED
      BY <3>1, <3>2, SandboxBefore
  <2>4. Values(B2, "--sandbox") = (IF "--ask-for-approval" = "--sandbox" THEN A ELSE {}) \cup Values(B3, "--sandbox")
    <3>1. Adds(Q, "--ask-for-approval", A) /\ B2 = Put(Q, B3) /\ B3 \in Lists
      BY <1>4, <1>8, <1>lists
    <3>2. \A v \in A : Head(v) # "--sandbox"
      BY <1>heads
    <3>3. QED
      BY <3>1, <3>2, SandboxBefore
  <2>5. Values(Put(P, B2), "--sandbox") = W \cup Values(B2, "--sandbox")
    BY <1>4, <1>lists, <1>heads, SandboxBefore
  <2>6. QED
    BY <1>list, <2>1, <2>2, <2>3, <2>4, <2>5
<1>12. CodexConfigValues(HardenedCodexArgs(args)) = N \cup K \cup G \cup CodexConfigValues(args)
  <2>1. CodexConfigValues(B5) = G \cup CodexConfigValues(args)
    BY <1>4, <1>8, <1>lists, <1>heads, ConfigBefore
  <2>2. CodexConfigValues(B4) = K \cup CodexConfigValues(B5)
    BY <1>4, <1>8, <1>lists, <1>heads, ConfigBefore
  <2>3. CodexConfigValues(B3) = N \cup CodexConfigValues(B4)
    BY <1>4, <1>8, <1>lists, <1>heads, ConfigBefore
  <2>4. CodexConfigValues(B2)
          = (IF "--ask-for-approval" \in {"-c", "--config"} THEN A ELSE {}) \cup CodexConfigValues(B3)
    BY <1>4, <1>8, <1>lists, <1>heads, ConfigBefore
  <2>5. CodexConfigValues(Put(P, B2))
          = (IF "--sandbox" \in {"-c", "--config"} THEN W ELSE {}) \cup CodexConfigValues(B2)
    BY <1>4, <1>lists, <1>heads, ConfigBefore
  <2>6. QED
    BY <1>list, <2>1, <2>2, <2>3, <2>4, <2>5
<1>13. PICK list : list = HardenedCodexArgs(args)
  OBVIOUS
<1>14. \A key : HasCodexConfigKey(args, key) => HasCodexConfigKey(list, key)
  BY <1>12, <1>13, KeysKept
<1>15. /\ FlagValue(args, "--sandbox") # <<>> => FlagValue(args, "--sandbox") \in Values(args, "--sandbox")
       /\ Once(args, "--sandbox") => Values(args, "--sandbox") \subseteq {FlagValue(args, "--sandbox")}
       /\ FlagValue(args, "--sandbox") # <<"danger-full-access">>
       /\ CodexConfigValues(args) \cap DangerousAssignments = {}
  BY ValueRead DEF Lists, ValidCodexArgs
<1>16. \/ Values(list, "--sandbox") # {}
       \/ HasCodexConfigKey(list, "sandbox_mode")
       \/ HasCodexConfigKey(list, "default_permissions")
  BY <1>10, <1>13, <1>14, <1>15, <1>sets DEF box, HasFlagWithValue
<1>17. Once(args, "--sandbox") => <<"danger-full-access">> \notin Values(list, "--sandbox")
  BY <1>3, <1>10, <1>13, <1>15, <1>sets
<1>18. HasCodexConfigKey(list, "sandbox_workspace_write.network_access")
  <2>1. CASE open
    BY <1>14, <2>1 DEF open
  <2>2. CASE ~open
    <3>1. net \in CodexConfigValues(list)
      BY <1>12, <1>13, <2>2, <1>sets
    <3>2. QED
      BY <1>3, <3>1 DEF HasCodexConfigKey
  <2>3. QED
    BY <2>1, <2>2
<1>19. CodexConfigValues(list) \cap DangerousAssignments = {}
  BY <1>3, <1>12, <1>13, <1>15, <1>sets
<1>20. HasCodexHookConfig(args) \/ {hooks, guard} \subseteq CodexConfigValues(list)
  BY <1>12, <1>13, <1>sets DEF hooked
<1>21. QED
  BY <1>1, <1>13, <1>16, <1>17, <1>18, <1>19, <1>20
-----------------------------------------------------------------------------
(* The environment: a key of the wrapper has the value of the wrapper.     *)
LEMMA EnvOverridden ==
    ASSUME NEW base, NEW overrides, NEW k \in DOMAIN overrides
    PROVE  LET new == WithEnv(base, overrides) IN
           {e[2] : e \in {e \in new : e[1] = k}} = {overrides[k]}
<1> DEFINE keys == DOMAIN overrides
           replaced == {IF e[1] \in keys THEN <<e[1], overrides[e[1]]>> ELSE e : e \in base}
           unseen == keys \ {e[1] : e \in base}
           new == replaced \cup Entries(unseen, overrides)
<1>1. new = WithEnv(base, overrides)
  BY DEF WithEnv
<1>2. ASSUME NEW e \in new, e[1] = k
      PROVE  e[2] = overrides[k]
  <2>1. CASE e \in replaced
    <3>1. PICK b \in base : e = IF b[1] \in keys THEN <<b[1], overrides[b[1]]>> ELSE b
      BY <2>1
    <3>2. QED
      BY <1>2, <3>1
  <2>2. CASE e \in Entries(unseen, overrides)
    BY <1>2, <2>2 DEF Entries
  <2>3. QED
    BY <2>1, <2>2
<1>3. \E e \in new : e[1] = k /\ e[2] = overrides[k]
  <2>1. PICK entry : entry = <<k, overrides[k]>>
    OBVIOUS
  <2>2. entry[1] = k /\ entry[2] = overrides[k]
    BY <2>1
  <2>3. entry \in new
    <3>1. CASE k \in unseen
      BY <2>1, <3>1 DEF Entries
    <3>2. CASE k \notin unseen
      <4>1. PICK b \in base : b[1] = k
        BY <3>2
      <4>2. QED
        BY <2>1, <4>1
    <3>3. QED
      BY <3>1, <3>2
  <2>4. QED
    BY <2>2, <2>3
<1> HIDE DEF new
<1>4. {e[2] : e \in {e \in new : e[1] = k}} = {overrides[k]}
  BY <1>2, <1>3
<1>5. QED
  BY <1>1, <1>4

(* What has been decided by the time the agent is started, and stays.      *)
Prepared ==
    /\ pc \notin {"args", "exited"} \/ child # "none" =>
          ~inv.dryRun /\ ValidInvocation(inv) /\ argv = WrappedAgentCommand(inv)
    /\ pc \notin {"args", "load", "exited"} \/ child # "none" => inv.setup = "usable"
    /\ pc \notin {"args", "load", "verify", "exited"} \/ child # "none" =>
          env = WithEnv(inv.env, Overrides(inv.agent))

LEMMA PreparedKept == IInv /\ Prepared /\ [Next]_vars => Prepared'
<1> SUFFICES ASSUME IInv, Prepared, [Next]_vars
             PROVE  Prepared'
  OBVIOUS
<1>1. CASE RefuseArgs \/ DryRun
  BY <1>1 DEF RefuseArgs, DryRun, Finish, Prepared, setting, watch, IInv, Course
<1>2. CASE WrapCommand
  BY <1>2 DEF WrapCommand, Prepared, watch, IInv, Course
<1>3. CASE LoadSetup
  BY <1>3 DEF LoadSetup, Finish, Prepared, setting, watch, IInv, Course
<1>4. CASE VerifySetup
  BY <1>4 DEF VerifySetup, Finish, Prepared, watch, IInv, Course
<1>5. CASE StartAgent \/ Notify \/ StartForwarder \/ WaitReturns \/ CloseDone \/ Return \/ Exit
  BY <1>5 DEF StartAgent, Notify, StartForwarder, WaitReturns, CloseDone, Return, Exit, Finish, Prepared,
              setting, watch, IInv, Course
<1>6. CASE ForwardInterrupt \/ EndForwarder \/ Interrupt \/ AgentEnds \/ UNCHANGED vars
  BY <1>6 DEF ForwardInterrupt, EndForwarder, Interrupt, AgentEnds, Finish, Prepared,
              setting, watch, vars, IInv, Course
<1>7. QED
  BY <1>1, <1>2, <1>3, <1>4, <1>5, <1>6 DEF Next, Main, Forwarder

(* Whatever the arguments, the environment and the interrupts, an agent    *)
(* runs hardened only (main.go:249-446).                                   *)
THEOREM RunsHardened == Spec => []AgentIsHardened
<1>1. Init => Prepared
  BY DEF Init, Prepared
<1>2. ASSUME IInv, Prepared
      PROVE  AgentIsHardened
  <2> SUFFICES ASSUME child # "none"
               PROVE  AgentIsHardened
    BY DEF AgentIsHardened
  <2>1. /\ ~inv.dryRun /\ ValidInvocation(inv) /\ argv = WrappedAgentCommand(inv)
        /\ inv.setup = "usable" /\ env = WithEnv(inv.env, Overrides(inv.agent))
    BY <1>2 DEF Prepared
  <2>2. inv.args \in Lists
    <3>1. inv.args \in Seq(Seq(STRING) \ {<<>>})
      BY <1>2, InvocationsAssumption DEF IInv, TypeOK
    <3>2. Seq(STRING) \subseteq Seq(Text)
      BY SeqMonotonic DEF Text
    <3>3. Seq(STRING) \ {<<>>} \subseteq Arguments
      BY <3>2 DEF Arguments
    <3>4. QED
      BY <3>1, <3>3, SeqMonotonic DEF Lists
  <2>3. \A k \in DOMAIN Overrides(inv.agent) :
           {e[2] : e \in {e \in env : e[1] = k}} = {Overrides(inv.agent)[k]}
    BY <2>1, EnvOverridden
  <2>4. inv.agent = "claude" =>
           /\ Values(argv, "--settings") = {HardenedSettings}
           /\ Values(argv, "--permission-mode") # {}
           /\ Once(inv.args, "--permission-mode") =>
                 Values(argv, "--permission-mode") \subseteq {<<"default">>, <<"plan">>}
    <3>1. PICK plugin \in BOOLEAN : plugin = LocalClaudePluginDir(inv)
      BY DEF LocalClaudePluginDir
    <3>2. inv.agent = "claude" =>
             argv = HardenedClaudeArgs(inv.args, plugin) /\ ValidClaudeArgs(inv.args)
      BY <2>1, <3>1 DEF WrappedAgentCommand, ValidInvocation
    <3>3. QED
      BY <2>2, <3>2, ClaudeHardened
  <2>5. inv.agent = "codex" =>
           /\ \/ Values(argv, "--sandbox") # {}
              \/ HasCodexConfigKey(argv, "sandbox_mode")
              \/ HasCodexConfigKey(argv, "default_permissions")
           /\ Once(inv.args, "--sandbox") =>
                 <<"danger-full-access">> \notin Values(argv, "--sandbox")
           /\ HasCodexConfigKey(argv, "sandbox_workspace_write.network_access")
           /\ CodexConfigValues(argv) \cap DangerousAssignments = {}
           /\ \/ HasCodexHookConfig(inv.args)
              \/ {<<"features.hooks", "true">>, <<"hooks.PreToolUse", "guard">>}
                    \subseteq CodexConfigValues(argv)
    <3>1. inv.agent = "codex" =>
             argv = HardenedCodexArgs(inv.args) /\ ValidCodexArgs(inv.args)
      BY <2>1 DEF WrappedAgentCommand, ValidInvocation
    <3>2. QED
      BY <2>2, <3>1, CodexHardened
  <2>6. QED
    BY <2>1, <2>3, <2>4, <2>5 DEF AgentIsHardened
<1>3. QED
  BY <1>1, <1>2, PreparedKept, Invariance, PTL DEF Spec
=============================================================================
