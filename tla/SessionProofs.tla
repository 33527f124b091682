---------------------------- MODULE SessionProofs ---------------------------
(***************************************************************************)
(* Proofs about Session, for any number of hooks, of versions and of       *)
(* writings of the user's file, whatever the files hold and the providers  *)
(* answer.                                                                 *)
(***************************************************************************)
EXTENDS Session, SelectionProofs, SequenceTheorems

(* The shape of a job: of the fields that nothing is known about their own *)
(* values are all the values they have.                                    *)
IsJob(j) ==
    j \in [cmd : {j.cmd}, pc : Pcs, cfg : {j.cfg}, fromClean : {j.fromClean},
           provider : {j.provider}, reach : {j.reach}, seen : {j.seen}, told : {j.told},
           result : [kind : {"none", "answer"}, decision : Decisions, install : {j.result.install}],
           unwritten : {j.unwritten}, unlogged : {j.unlogged}, code : 0..2,
           permission : Decisions \cup {"none"}, updated : {j.updated}, asked : BOOLEAN,
           late : BOOLEAN, installed : {j.installed}]

Shape == DOMAIN job = Hooks /\ job = [h \in Hooks |-> job[h]] /\ \A h \in Hooks : IsJob(job[h])

(* What has been found out at each point of a hook's way.                  *)
Course(h) ==
    LET j == job[h] IN
    /\ j.pc \in {"read", "load", "evaluate"} => j.result = NoResult
    /\ j.pc \in {"read", "load", "evaluate", "log", "answer"} =>
          j.code = 0 /\ ~j.asked /\ ~j.late
    /\ j.pc \in {"log", "answer"} => j.result.kind = "answer"
    /\ j.pc = "log" => j.unwritten = <<"entry", "newline">>
    /\ j.pc = "exited" =>
          /\ ~j.asked /\ ~j.late
          /\ j.code = 0 => /\ j.result.kind = "answer"
                           /\ j.permission = FormatHookOutput(h, j.result).permission
                           /\ j.updated = FormatHookOutput(h, j.result).updated
          /\ j.code = 1 => Runtime(h) = "evaluate"
    /\ j.pc \in {"unguarded"} => j.late
    /\ j.pc \in {"granted", "ran"} /\ ~j.late => j.result.kind = "answer" /\ Permitted(h)

IInv == Shape /\ \A h \in Hooks : Course(h)

(* A step of one hook leaves the others' jobs alone.                       *)
LEMMA OneMoves ==
    ASSUME IInv, NEW h \in Hooks, NEW j, Put(h, j), IsJob(j), Course(h)'
    PROVE  IInv'
<1>1. job'[h] = j /\ \A g \in Hooks \ {h} : job'[g] = job[g]
  BY DEF IInv, Shape, Put
<1>2. Shape'
  BY <1>1 DEF IInv, Shape, Put
<1>3. ASSUME NEW g \in Hooks, g # h PROVE Course(g)'
  <2>1. job'[g] = job[g] /\ Course(g)
    BY <1>1, <1>3 DEF IInv
  <2>2. QED
    BY <2>1 DEF Course, Runtime, Permitted, FormatHookOutput
<1>4. QED
  BY <1>2, <1>3 DEF IInv

(* A new job has the shape of one.                                         *)
LEMMA NewIsJob == ASSUME NEW c PROVE IsJob(NewJob(c))
BY DEF IsJob, NewJob, NoResult, Pcs, Decisions

(* Before a hook runs nothing has been found out.                          *)
LEMMA Initially == Init => IInv
<1> SUFFICES ASSUME Init PROVE IInv
  OBVIOUS
<1>1. PICK s \in Starts : job = [h \in Hooks |-> NewJob(s.commands[h])]
  BY DEF Init
<1>2. Shape
  BY <1>1, NewIsJob DEF Shape
<1>3. ASSUME NEW h \in Hooks PROVE Course(h)
  BY <1>1 DEF Course, NewJob, NoResult
<1>4. QED
  BY <1>2, <1>3 DEF IInv

(* A failed hook exits with a code that is none of permission.             *)
LEMMA FailKeeps ==
    ASSUME IInv, NEW h \in Hooks, Fail(h)
    PROVE  IInv'
<1> DEFINE n == NewJob(job[h].cmd)
           j == [n EXCEPT !.pc = "exited", !.code = FailureCode(h)]
<1>0. IsJob(n)
  BY NewIsJob
<1>1. n.cmd = job[h].cmd /\ ~n.asked /\ ~n.late
  BY DEF NewJob
<1>2. Put(h, j)
  BY DEF Fail
<1> HIDE DEF n
<1>2a. FailureCode(h) \in 0..2
  BY DEF FailureCode
<1>3. IsJob(j)
  BY <1>0, <1>2a DEF IsJob, Pcs
<1>4. /\ j.pc = "exited" /\ j.code = FailureCode(h)
      /\ j.cmd = job[h].cmd /\ ~j.asked /\ ~j.late
  BY <1>0, <1>1 DEF IsJob
<1>5. job'[h] = j
  BY <1>2 DEF IInv, Shape, Put
<1> HIDE DEF j
<1>6. Course(h)'
  BY <1>4, <1>5 DEF Course, FailureCode, Runtime
<1>7. QED
  BY <1>2, <1>3, <1>6, OneMoves

(* A command that is not looked at is answered.                            *)
LEMMA PassKeeps ==
    ASSUME IInv, NEW h \in Hooks, job[h].pc \in {"read", "evaluate"}, Pass(h)
    PROVE  IInv'
<1> DEFINE n == job[h]
           j == [n EXCEPT !.pc = "answer", !.result = Decided("allow"), !.seen = published]
<1>1. IsJob(n) /\ n.code = 0 /\ ~n.asked /\ ~n.late
  BY DEF IInv, Shape, Course
<1>2. Put(h, j)
  BY DEF Pass
<1> HIDE DEF n
<1>3. IsJob(j)
  BY <1>1 DEF IsJob, Pcs, Decided, Decisions
<1>4. j.pc = "answer" /\ j.code = 0 /\ ~j.asked /\ ~j.late /\ j.result.kind = "answer"
  BY <1>1 DEF IsJob, Decided
<1>5. job'[h] = j
  BY <1>2 DEF IInv, Shape, Put
<1> HIDE DEF j
<1>6. Course(h)'
  BY <1>4, <1>5 DEF Course
<1>7. QED
  BY <1>2, <1>3, <1>6, OneMoves

(* Reading the input finds nothing out.                                    *)
LEMMA ReadKeeps ==
    ASSUME IInv, NEW h \in Hooks, ReadHookInput(h)
    PROVE  IInv'
<1>1. CASE Fail(h)
  BY <1>1, FailKeeps
<1>2. CASE Pass(h)
  BY <1>2, PassKeeps DEF ReadHookInput, At
<1>3. CASE Put(h, [job[h] EXCEPT !.pc = "load"])
  <2> DEFINE n == job[h]
             j == [n EXCEPT !.pc = "load"]
  <2>1. IsJob(n) /\ n.code = 0 /\ ~n.asked /\ ~n.late /\ n.result = NoResult
    BY DEF IInv, Shape, Course, ReadHookInput, At
  <2>2. Put(h, j)
    BY <1>3
  <2> HIDE DEF n
  <2>3. IsJob(j)
    BY <2>1 DEF IsJob, Pcs
  <2>4. j.pc = "load" /\ j.code = 0 /\ ~j.asked /\ ~j.late /\ j.result = NoResult
    BY <2>1 DEF IsJob
  <2>5. job'[h] = j
    BY <2>2 DEF IInv, Shape, Put
  <2> HIDE DEF j
  <2>6. Course(h)'
    BY <2>4, <2>5 DEF Course
  <2>7. QED
    BY <2>2, <2>3, <2>6, OneMoves
<1>4. QED
  BY <1>1, <1>2, <1>3 DEF ReadHookInput

(* Nor does loading the configuration.                                     *)
LEMMA LoadKeeps ==
    ASSUME IInv, NEW h \in Hooks, LoadConfigAndProvider(h)
    PROVE  IInv'
<1>1. CASE Fail(h)
  BY <1>1, FailKeeps
<1>2. ASSUME NEW cfg, NEW provider,
             Put(h, [job[h] EXCEPT !.pc = "evaluate", !.cfg = cfg,
                                   !.fromClean = clean, !.provider = provider])
      PROVE  IInv'
  <2> DEFINE n == job[h]
             j == [n EXCEPT !.pc = "evaluate", !.cfg = cfg,
                            !.fromClean = clean, !.provider = provider]
  <2>1. IsJob(n) /\ n.code = 0 /\ ~n.asked /\ ~n.late /\ n.result = NoResult
    BY DEF IInv, Shape, Course, LoadConfigAndProvider, At
  <2>2. Put(h, j)
    BY <1>2
  <2> HIDE DEF n
  <2>3. IsJob(j)
    BY <2>1 DEF IsJob, Pcs
  <2>4. j.pc = "evaluate" /\ j.code = 0 /\ ~j.asked /\ ~j.late /\ j.result = NoResult
    BY <2>1 DEF IsJob
  <2>5. job'[h] = j
    BY <2>2 DEF IInv, Shape, Put
  <2> HIDE DEF j
  <2>6. Course(h)'
    BY <2>4, <2>5 DEF Course
  <2>7. QED
    BY <2>2, <2>3, <2>6, OneMoves
<1>3. QED
  BY <1>1, <1>2 DEF LoadConfigAndProvider

(* An answer that is no error is one of the three decisions.               *)
LEMMA AnswerOneType ==
    ASSUME NEW r, NEW available \in BOOLEAN, NEW reply, NEW direct,
           AnswerOne(r, available, reply, direct).kind # "error"
    PROVE  LET answer == AnswerOne(r, available, reply, direct) IN
           answer \in [kind : {"answer"}, decision : Decisions, install : {answer.install}]
<1> DEFINE out == Promised(r, reply)
<1>1. out.kind \in {"error", "unsupported", "failed", "selected"} /\ out.decision \in Decisions
  BY DecideType DEF Promised, UnsupportedSource, Failed, SelectError, Selected, Best, Decisions
<1> HIDE DEF out
<1>2. CASE ~available
  BY <1>2, DecisionType DEF AnswerOne
<1>3. CASE available /\ out.kind = "error"
  BY <1>3 DEF AnswerOne, out
<1>4. CASE available /\ out.kind \in {"unsupported", "failed"}
  BY <1>4 DEF AnswerOne, out, Decisions
<1>5. CASE available /\ out.kind = "selected"
  <2>1. AnswerOne(r, available, reply, direct) = AnswerSelected(r, out, direct)
    BY <1>5 DEF AnswerOne, out
  <2>2. WorseDecision(out.decision, "ask") \in Decisions
    BY <1>1 DEF WorseDecision, Decisions
  <2>3. QED
    BY <1>1, <2>1, <2>2 DEF AnswerSelected
<1>6. QED
  BY <1>1, <1>2, <1>3, <1>4, <1>5

(* An evaluation that does not fail leaves an answer to write down.        *)
LEMMA JudgeKeeps ==
    ASSUME IInv, NEW h \in Hooks, Judge(h)
    PROVE  IInv'
<1>1. CASE Fail(h)
  BY <1>1, FailKeeps
<1>2. ASSUME NEW answer, NEW available, NEW version, NEW told,
             answer \in [kind : {"answer"}, decision : Decisions, install : {answer.install}],
             Put(h, [job[h] EXCEPT
                       !.pc = "log", !.reach = Reach(available), !.seen = published,
                       !.told = told, !.result = [answer EXCEPT !.install = version],
                       !.unwritten = <<"entry", "newline">>])
      PROVE  IInv'
  <2> DEFINE n == job[h]
             result == [answer EXCEPT !.install = version]
             text == <<"entry", "newline">>
             j == [n EXCEPT !.pc = "log", !.reach = Reach(available), !.seen = published,
                            !.told = told, !.result = result, !.unwritten = text]
  <2>1. IsJob(n) /\ n.code = 0 /\ ~n.asked /\ ~n.late
    BY DEF IInv, Shape, Course, Judge, At
  <2>2. Put(h, j)
    BY <1>2
  <2>3. result \in [kind : {"none", "answer"}, decision : Decisions, install : {result.install}]
        /\ result.kind = "answer"
    BY <1>2
  <2> HIDE DEF n, result, text
  <2>4. IsJob(j)
    BY <2>1, <2>3 DEF IsJob, Pcs
  <2>5. /\ j.pc = "log" /\ j.code = 0 /\ ~j.asked /\ ~j.late
        /\ j.result.kind = "answer" /\ j.unwritten = text
    BY <2>1, <2>3 DEF IsJob
  <2>6. job'[h] = j
    BY <2>2 DEF IInv, Shape, Put
  <2> HIDE DEF j
  <2>7. Course(h)'
    BY <2>5, <2>6 DEF Course, text
  <2>8. QED
    BY <2>2, <2>4, <2>7, OneMoves
<1>3. PICK available \in IsAvailable(job[h].provider), exchange \in Exchanges(h) :
         LET answer == AnswerOne(Request(h), available, exchange.reply, job[h].cmd.direct)
             version == IF answer.install = 0 THEN 0 ELSE published + 1 - answer.install
         IN IF answer.kind = "error" THEN Fail(h)
            ELSE Put(h, [job[h] EXCEPT
                            !.pc = "log", !.reach = Reach(available), !.seen = published,
                            !.told = IF available THEN exchange.told ELSE "none",
                            !.result = [answer EXCEPT !.install = version],
                            !.unwritten = <<"entry", "newline">>])
  BY DEF Judge
<1>4. available \in BOOLEAN
  BY <1>3 DEF IsAvailable
<1>5. QED
  BY <1>1, <1>2, <1>3, <1>4, AnswerOneType

(* Whatever comes of the log, the answer stands.                           *)
LEMMA LogKeeps ==
    ASSUME IInv, NEW h \in Hooks, Log(h)
    PROVE  IInv'
<1> DEFINE n == job[h]
<1>1. ASSUME NEW j, IsJob(j), Put(h, j), j.pc = "answer", j.code = 0, ~j.asked, ~j.late,
             j.result = n.result
      PROVE  IInv'
  <2>1. job'[h] = j
    BY <1>1 DEF IInv, Shape, Put
  <2>2. n.result.kind = "answer"
    BY DEF IInv, Course, Log, At
  <2>3. Course(h)'
    BY <1>1, <2>1, <2>2 DEF Course
  <2>4. QED
    BY <1>1, <2>3, OneMoves
<1>2. IsJob(n) /\ n.code = 0 /\ ~n.asked /\ ~n.late
  BY DEF IInv, Shape, Course, Log, At
<1>3. \/ Put(h, [n EXCEPT !.pc = "answer", !.unwritten = <<>>])
      \/ Put(h, [n EXCEPT !.pc = "answer", !.unlogged = TRUE])
  BY DEF Log
<1> HIDE DEF n
<1>4. CASE Put(h, [n EXCEPT !.pc = "answer", !.unwritten = <<>>])
  <2> DEFINE j == [n EXCEPT !.pc = "answer", !.unwritten = <<>>]
  <2>1. IsJob(j)
    BY <1>2 DEF IsJob, Pcs
  <2>2. j.pc = "answer" /\ j.code = 0 /\ ~j.asked /\ ~j.late /\ j.result = n.result
    BY <1>2 DEF IsJob
  <2> HIDE DEF j
  <2>3. QED
    BY <1>1, <1>4, <2>1, <2>2 DEF j
<1>5. CASE Put(h, [n EXCEPT !.pc = "answer", !.unlogged = TRUE])
  <2> DEFINE j == [n EXCEPT !.pc = "answer", !.unlogged = TRUE]
  <2>1. IsJob(j)
    BY <1>2 DEF IsJob, Pcs
  <2>2. j.pc = "answer" /\ j.code = 0 /\ ~j.asked /\ ~j.late /\ j.result = n.result
    BY <1>2 DEF IsJob
  <2> HIDE DEF j
  <2>3. QED
    BY <1>1, <1>5, <2>1, <2>2 DEF j
<1>6. QED
  BY <1>3, <1>4, <1>5

(* What is printed is the answer in the words of the agent.                *)
LEMMA AnswerKeeps ==
    ASSUME IInv, NEW h \in Hooks, Answer(h)
    PROVE  IInv'
<1> DEFINE n == job[h]
           output == FormatHookOutput(h, n.result)
           j == [n EXCEPT !.pc = "exited", !.permission = output.permission,
                          !.updated = output.updated]
<1>1. IsJob(n) /\ n.code = 0 /\ ~n.asked /\ ~n.late /\ n.result.kind = "answer"
  BY DEF IInv, Shape, Course, Answer, At
<1>2. Put(h, j)
  BY DEF Answer
<1>3. output.permission \in Decisions \cup {"none"}
  BY <1>1 DEF FormatHookOutput, IsJob, Decisions
<1> HIDE DEF n, output
<1>4. IsJob(j)
  BY <1>1, <1>3 DEF IsJob, Pcs
<1>5. /\ j.pc = "exited" /\ j.code = 0 /\ ~j.asked /\ ~j.late
      /\ j.result = n.result /\ j.cmd = n.cmd
      /\ j.permission = output.permission /\ j.updated = output.updated
  BY <1>1, <1>3 DEF IsJob
<1>6. job'[h] = j
  BY <1>2 DEF IInv, Shape, Put
<1> HIDE DEF j
<1>7. FormatHookOutput(h, job[h].result) = FormatHookOutput(h, job[h].result)'
  BY <1>5, <1>6 DEF FormatHookOutput, Runtime, n
<1>8. Course(h)'
  BY <1>1, <1>5, <1>6, <1>7 DEF Course, n, output
<1>9. QED
  BY <1>2, <1>4, <1>8, OneMoves

(* A hook that is stopped is marked as such.                               *)
LEMMA TimeOutKeeps ==
    ASSUME IInv, NEW h \in Hooks, TimeOut(h)
    PROVE  IInv'
<1> DEFINE n == NewJob(job[h].cmd)
           j == [n EXCEPT !.pc = "unguarded", !.late = TRUE]
<1>1. IsJob(n)
  BY NewIsJob
<1>2. Put(h, j)
  BY DEF TimeOut
<1> HIDE DEF n
<1>3. IsJob(j)
  BY <1>1 DEF IsJob, Pcs
<1>4. j.pc = "unguarded" /\ j.late
  BY <1>1 DEF IsJob
<1>5. job'[h] = j
  BY <1>2 DEF IInv, Shape, Put
<1> HIDE DEF j
<1>6. Course(h)'
  BY <1>4, <1>5 DEF Course
<1>7. QED
  BY <1>2, <1>3, <1>6, OneMoves

(* What the agent makes of an exit code and an output is permission only   *)
(* for an answer that gives it.                                            *)
LEMMA DecidesKeeps ==
    ASSUME IInv, NEW h \in Hooks, AgentDecides(h)
    PROVE  IInv'
<1> DEFINE n == job[h]
<1>1. /\ IsJob(n) /\ n.pc = "exited" /\ ~n.late /\ n.code \in 0..2
      /\ n.code # 1
      /\ n.code = 0 => /\ n.result.kind = "answer"
                       /\ n.permission = FormatHookOutput(h, n.result).permission
  <2>1. IsJob(n) /\ Course(h) /\ n.pc = "exited" /\ Runtime(h) # "evaluate"
    BY DEF IInv, Shape, AgentDecides, At
  <2>2. n.code \in 0..2
    BY <2>1 DEF IsJob
  <2>3. QED
    BY <2>1, <2>2 DEF Course
<1>2. n.result.decision \in Decisions
  BY <1>1 DEF IsJob
<1>3. ASSUME Refuse(h) PROVE IInv'
  <2> DEFINE j == [n EXCEPT !.pc = "refused"]
  <2>1. Put(h, j)
    BY <1>3 DEF Refuse
  <2>2. job'[h] = j
    BY <2>1 DEF IInv, Shape, Put
  <2> HIDE DEF n
  <2>3. IsJob(j) /\ j.pc = "refused"
    BY <1>1 DEF IsJob, Pcs
  <2> HIDE DEF j
  <2>4. Course(h)'
    BY <2>2, <2>3 DEF Course
  <2>5. QED
    BY <2>1, <2>3, <2>4, OneMoves
<1>4. ASSUME Permit(h), n.code = 0, n.permission \notin {"deny", "ask"} PROVE IInv'
  <2> DEFINE j == [n EXCEPT !.pc = "granted"]
  <2>1. Put(h, j)
    BY <1>4 DEF Permit
  <2>2. job'[h] = j
    BY <2>1 DEF IInv, Shape, Put
  <2>3. n.result.decision = "allow"
    BY <1>1, <1>2, <1>4 DEF FormatHookOutput, Decisions
  <2> HIDE DEF n
  <2>4. IsJob(j) /\ j.pc = "granted" /\ j.result = n.result
    BY <1>1 DEF IsJob, Pcs
  <2> HIDE DEF j
  <2>5. Course(h)'
    BY <1>1, <1>4, <2>2, <2>3, <2>4 DEF Course, Permitted
  <2>6. QED
    BY <2>1, <2>4, <2>5, OneMoves
<1>5. ASSUME PermitAsked(h), n.code = 0, n.permission = "ask" PROVE IInv'
  <2> DEFINE j == [n EXCEPT !.pc = "granted", !.asked = TRUE]
  <2>1. Put(h, j)
    BY <1>5 DEF PermitAsked
  <2>2. job'[h] = j
    BY <2>1 DEF IInv, Shape, Put
  <2>3. n.result.decision = "ask"
    BY <1>1, <1>5 DEF FormatHookOutput
  <2> HIDE DEF n
  <2>4. IsJob(j) /\ j.pc = "granted" /\ j.asked /\ j.result = n.result
    BY <1>1 DEF IsJob, Pcs
  <2> HIDE DEF j
  <2>5. Course(h)'
    BY <1>1, <1>5, <2>2, <2>3, <2>4 DEF Course, Permitted
  <2>6. QED
    BY <2>1, <2>4, <2>5, OneMoves
<1>6. \/ Refuse(h)
      \/ PermitAsked(h) /\ n.code = 0 /\ n.permission = "ask"
      \/ Permit(h) /\ n.code = 0 /\ n.permission \notin {"deny", "ask"}
  BY <1>1 DEF AgentDecides
<1>7. QED
  BY <1>3, <1>4, <1>5, <1>6

(* A command runs only as permitted, or after its hook was stopped.        *)
LEMMA InstallKeeps ==
    ASSUME IInv, NEW h \in Hooks, Install(h)
    PROVE  IInv'
<1>1. PICK v : Put(h, [job[h] EXCEPT !.pc = "ran", !.installed = v])
  BY DEF Install
<1> DEFINE n == job[h]
           j == [n EXCEPT !.pc = "ran", !.installed = v]
<1>2. Put(h, j)
  BY <1>1
<1>3. IsJob(n) /\ (~n.late => n.result.kind = "answer" /\ Permitted(h))
  BY DEF IInv, Shape, Course, Install
<1>4. job'[h] = j
  BY <1>2 DEF IInv, Shape, Put
<1> HIDE DEF n
<1>5. /\ IsJob(j) /\ j.pc = "ran"
      /\ j.late = n.late /\ j.asked = n.asked /\ j.result = n.result
  BY <1>3 DEF IsJob, Pcs
<1> HIDE DEF j
<1>6. Course(h)'
  BY <1>3, <1>4, <1>5 DEF Course, Permitted, n
<1>7. QED
  BY <1>2, <1>5, <1>6, OneMoves

(* Every step preserves the invariant.                                     *)
LEMMA Kept == IInv /\ [Next]_vars => IInv'
<1> SUFFICES ASSUME IInv, [Next]_vars PROVE IInv'
  OBVIOUS
<1>1. ASSUME UNCHANGED job PROVE IInv'
  BY <1>1 DEF IInv, Shape, IsJob, Course, Runtime, FormatHookOutput, Permitted
<1>2. ASSUME NEW h \in Hooks, HookStep(h) PROVE IInv'
  <2>1. ASSUME PassThrough(h) PROVE IInv'
    BY <2>1, PassKeeps DEF PassThrough, At
  <2>2. QED
    BY <1>2, <2>1, ReadKeeps, LoadKeeps, JudgeKeeps, LogKeeps, AnswerKeeps DEF HookStep
<1>3. CASE Publish \/ BeginWrite \/ EndWrite \/ CutWrite \/ UNCHANGED vars
  BY <1>1, <1>3 DEF Publish, BeginWrite, EndWrite, CutWrite, vars
<1>4. QED
  BY <1>2, <1>3, TimeOutKeeps, DecidesKeeps, InstallKeeps DEF Next

(* The invariant holds throughout.                                         *)
LEMMA Invariance == Spec => []IInv
BY Initially, Kept, PTL DEF Spec

(* The hooks fail closed, for any number of them, whatever is in the files *)
(* and whatever writing them comes to: no command runs whose hook has not  *)
(* finished its evaluation with an answer that permits it, unless the hook *)
(* was stopped for its time (main.go:31-35).                               *)
THEOREM FailsClosed == Spec => []FailureIsNoPermission
<1>1. IInv => FailureIsNoPermission
  BY DEF IInv, Course, FailureIsNoPermission
<1>2. QED
  BY <1>1, Invariance, PTL

-----------------------------------------------------------------------------
(* The record.  A job that was judged stands in the log once it is past    *)
(* writing there, and the entries of the log are whole.                    *)
Recorded(h) == \E i \in DOMAIN log : log[i] = Piece(h, "entry")

Noted(h) ==
    /\ job[h].pc \in {"read", "load", "evaluate"} => job[h].reach = "none"
    /\ job[h].reach # "none" /\ ~job[h].unlogged /\ job[h].pc # "log" => Recorded(h)

Pieces == [hook : Hooks, what : {"entry", "newline", "cut"}]

RInv == log \in Seq(Pieces) /\ EntriesAreWhole /\ \A h \in Hooks : Noted(h)

(* A step that leaves the log alone needs a look only at its own hook.     *)
LEMMA QuietKeeps ==
    ASSUME IInv, RInv, NEW h \in Hooks, NEW j, Put(h, j), log' = log,
           \/ j.reach = "none"
           \/ /\ j.reach = job[h].reach /\ j.unlogged = job[h].unlogged
              /\ job[h].pc # "log" /\ j.pc \notin {"read", "load", "evaluate"}
           \/ j.pc = "log"
    PROVE  RInv'
<1>1. job'[h] = j /\ \A g \in Hooks \ {h} : job'[g] = job[g]
  BY DEF IInv, Shape, Put
<1>2. log' \in Seq(Pieces) /\ EntriesAreWhole'
  BY DEF RInv, EntriesAreWhole, Piece
<1>3. \A g \in Hooks : Recorded(g) => Recorded(g)'
  BY DEF Recorded, Piece
<1>4. ASSUME NEW g \in Hooks PROVE Noted(g)'
  BY <1>1, <1>3 DEF RInv, Noted
<1>5. QED
  BY <1>2, <1>4 DEF RInv

(* What is not judged needs no record.                                     *)
LEMMA FailIsQuiet ==
    ASSUME IInv, RInv, NEW h \in Hooks, Fail(h), log' = log
    PROVE  RInv'
<1> DEFINE n == NewJob(job[h].cmd)
           j == [n EXCEPT !.pc = "exited", !.code = FailureCode(h)]
<1>1. IsJob(n) /\ n.reach = "none"
  BY NewIsJob DEF NewJob
<1>2. Put(h, j)
  BY DEF Fail
<1> HIDE DEF n
<1>3. j.reach = "none"
  BY <1>1 DEF IsJob
<1> HIDE DEF j
<1>4. QED
  BY <1>2, <1>3, QuietKeeps

(* Nor does a step of a hook before it writes, or after.                   *)
LEMMA HookIsQuiet ==
    ASSUME IInv, RInv, NEW h \in Hooks,
           ReadHookInput(h) \/ LoadConfigAndProvider(h) \/ PassThrough(h) \/ Judge(h) \/ Answer(h)
    PROVE  RInv'
<1> DEFINE n == job[h]
<1>1. IsJob(n) /\ log' = log
  BY DEF IInv, Shape, ReadHookInput, LoadConfigAndProvider, PassThrough, Judge, Answer
<1>2. CASE Fail(h)
  BY <1>1, <1>2, FailIsQuiet
<1>3. ASSUME n.reach = "none", Pass(h) PROVE RInv'
  <2> DEFINE j == [n EXCEPT !.pc = "answer", !.result = Decided("allow"), !.seen = published]
  <2>1. Put(h, j)
    BY <1>3 DEF Pass
  <2> HIDE DEF n
  <2>2. j.reach = "none"
    BY <1>1, <1>3 DEF IsJob
  <2> HIDE DEF j
  <2>3. QED
    BY <1>1, <2>1, <2>2, QuietKeeps
<1>4. ASSUME n.reach = "none", Put(h, [n EXCEPT !.pc = "load"]) PROVE RInv'
  <2> DEFINE j == [n EXCEPT !.pc = "load"]
  <2> HIDE DEF n
  <2>1. j.reach = "none"
    BY <1>1, <1>4 DEF IsJob
  <2> HIDE DEF j
  <2>2. QED
    BY <1>1, <1>4, <2>1, QuietKeeps DEF j
<1>5. ASSUME n.reach = "none", NEW cfg, NEW provider,
             Put(h, [n EXCEPT !.pc = "evaluate", !.cfg = cfg,
                              !.fromClean = clean, !.provider = provider])
      PROVE  RInv'
  <2> DEFINE j == [n EXCEPT !.pc = "evaluate", !.cfg = cfg,
                            !.fromClean = clean, !.provider = provider]
  <2> HIDE DEF n
  <2>1. j.reach = "none"
    BY <1>1, <1>5 DEF IsJob
  <2> HIDE DEF j
  <2>2. QED
    BY <1>1, <1>5, <2>1, QuietKeeps DEF j
<1>6. ASSUME NEW available, NEW told, NEW result,
             Put(h, [n EXCEPT !.pc = "log", !.reach = Reach(available), !.seen = published,
                              !.told = told, !.result = result,
                              !.unwritten = <<"entry", "newline">>])
      PROVE  RInv'
  <2> DEFINE j == [n EXCEPT !.pc = "log", !.reach = Reach(available), !.seen = published,
                            !.told = told, !.result = result,
                            !.unwritten = <<"entry", "newline">>]
  <2> HIDE DEF n
  <2>1. j.pc = "log"
    BY <1>1 DEF IsJob
  <2> HIDE DEF j
  <2>2. QED
    BY <1>1, <1>6, <2>1, QuietKeeps DEF j
<1>7. ASSUME n.pc = "answer", NEW permission, NEW updated,
             Put(h, [n EXCEPT !.pc = "exited", !.permission = permission, !.updated = updated])
      PROVE  RInv'
  <2> DEFINE j == [n EXCEPT !.pc = "exited", !.permission = permission, !.updated = updated]
  <2>1. job[h].pc # "log" /\ j.pc = "exited" /\ j.reach = job[h].reach
        /\ j.unlogged = job[h].unlogged
    <3> HIDE DEF n
    <3>1. j.pc = "exited" /\ j.reach = n.reach /\ j.unlogged = n.unlogged
      BY <1>1 DEF IsJob
    <3>2. QED
      BY <1>7, <3>1 DEF n
  <2> HIDE DEF n, j
  <2>2. QED
    BY <1>1, <1>7, <2>1, QuietKeeps DEF j
<1>8. n.pc \in {"read", "load", "evaluate"} => n.reach = "none"
  BY DEF RInv, Noted
<1>9. CASE ReadHookInput(h)
  BY <1>2, <1>3, <1>4, <1>8, <1>9 DEF ReadHookInput, At
<1>10. CASE LoadConfigAndProvider(h)
  BY <1>2, <1>5, <1>8, <1>10 DEF LoadConfigAndProvider, At
<1>11. CASE PassThrough(h)
  BY <1>3, <1>8, <1>11 DEF PassThrough, At
<1>12. CASE Judge(h)
  BY <1>2, <1>6, <1>12 DEF Judge
<1>13. CASE Answer(h)
  BY <1>7, <1>13 DEF Answer, At
<1>14. QED
  BY <1>9, <1>10, <1>11, <1>12, <1>13

(* What the agent does leaves the log alone.                               *)
LEMMA AgentIsQuiet ==
    ASSUME IInv, RInv, NEW h \in Hooks, TimeOut(h) \/ AgentDecides(h) \/ Install(h)
    PROVE  RInv'
<1> DEFINE n == job[h]
<1>1. IsJob(n) /\ log' = log
  BY DEF IInv, Shape, TimeOut, AgentDecides, Install
<1>2. CASE TimeOut(h)
  <2> DEFINE m == NewJob(job[h].cmd)
             j == [m EXCEPT !.pc = "unguarded", !.late = TRUE]
  <2>1. IsJob(m) /\ m.reach = "none" /\ m.result.kind = "none"
    BY NewIsJob DEF NewJob, NoResult
  <2>2. Put(h, j)
    BY <1>2 DEF TimeOut
  <2> HIDE DEF m
  <2>3. j.reach = "none"
    BY <2>1 DEF IsJob
  <2> HIDE DEF j
  <2>4. QED
    BY <1>1, <2>2, <2>3, QuietKeeps
<1>3. ASSUME NEW j, Put(h, j), j.reach = n.reach, j.unlogged = n.unlogged, n.pc # "log",
             j.pc \in {"refused", "granted", "ran"}
      PROVE  RInv'
  BY <1>1, <1>3, QuietKeeps
<1>4. CASE AgentDecides(h)
  <2>1. n.pc = "exited"
    BY <1>4 DEF AgentDecides, At
  <2>2. \/ Put(h, [n EXCEPT !.pc = "refused"])
        \/ Put(h, [n EXCEPT !.pc = "granted"])
        \/ Put(h, [n EXCEPT !.pc = "granted", !.asked = TRUE])
    BY <1>4 DEF AgentDecides, Refuse, Permit, PermitAsked
  <2> HIDE DEF n
  <2>3. ASSUME NEW j, j \in {[n EXCEPT !.pc = "refused"], [n EXCEPT !.pc = "granted"],
                             [n EXCEPT !.pc = "granted", !.asked = TRUE]}
        PROVE  /\ j.reach = n.reach /\ j.unlogged = n.unlogged
               /\ j.pc \in {"refused", "granted", "ran"}
    BY <1>1, <2>3 DEF IsJob
  <2>4. QED
    BY <1>3, <2>1, <2>2, <2>3
<1>5. CASE Install(h)
  <2>1. n.pc \in {"granted", "unguarded"}
    BY <1>5 DEF Install
  <2>2. PICK v : Put(h, [n EXCEPT !.pc = "ran", !.installed = v])
    BY <1>5 DEF Install
  <2> HIDE DEF n
  <2> DEFINE j == [n EXCEPT !.pc = "ran", !.installed = v]
  <2>3. j.reach = n.reach /\ j.unlogged = n.unlogged /\ j.pc = "ran"
    BY <1>1 DEF IsJob
  <2> HIDE DEF j
  <2>4. QED
    BY <1>3, <2>1, <2>2, <2>3 DEF j
<1>6. QED
  BY <1>2, <1>4, <1>5

(* What a step appends to a log of whole entries.                          *)
LEMMA Appended ==
    ASSUME RInv, NEW t \in Seq(Pieces), log' = log \o t
    PROVE  /\ log' \in Seq(Pieces)
           /\ \A g \in Hooks : Recorded(g) => Recorded(g)'
           /\ \A i \in DOMAIN log : i \in DOMAIN log' /\ log'[i] = log[i]
           /\ DOMAIN log' = 1..(Len(log) + Len(t))
           /\ \A k \in 1..Len(t) : log'[Len(log) + k] = t[k]
<1>1. log \in Seq(Pieces) /\ Len(log) \in Nat /\ Len(t) \in Nat /\ DOMAIN log = 1..Len(log)
  BY DEF RInv
<1>2. /\ log' \in Seq(Pieces) /\ Len(log') = Len(log) + Len(t)
      /\ \A i \in 1..(Len(log) + Len(t)) :
            log'[i] = IF i <= Len(log) THEN log[i] ELSE t[i - Len(log)]
  BY <1>1, ConcatProperties
<1>3. DOMAIN log' = 1..(Len(log) + Len(t))
  BY <1>2
<1>4. \A i \in DOMAIN log : i \in DOMAIN log' /\ log'[i] = log[i]
  BY <1>1, <1>2, <1>3
<1>5. \A g \in Hooks : Recorded(g) => Recorded(g)'
  BY <1>4 DEF Recorded, Piece
<1>6. \A k \in 1..Len(t) : log'[Len(log) + k] = t[k]
  BY <1>1, <1>2
<1>7. QED
  BY <1>2, <1>3, <1>4, <1>5, <1>6

(* The entry and its newline are appended at once, or the hook remembers   *)
(* that they were not.                                                     *)
LEMMA LogRecords ==
    ASSUME IInv, RInv, NEW h \in Hooks, Log(h)
    PROVE  RInv'
<1> DEFINE n == job[h]
<1>1. IsJob(n) /\ n.pc = "log" /\ n.unwritten = <<"entry", "newline">>
  BY DEF IInv, Shape, Course, Log, At
<1>2. Len(log) \in Nat /\ DOMAIN log = 1..Len(log)
  BY DEF RInv
<1>3. ASSUME NEW j, Put(h, j), j.pc = "answer", NEW t \in Seq(Pieces), log' = log \o t,
             EntriesAreWhole', j.unlogged \/ Recorded(h)'
      PROVE  RInv'
  <2>1. job'[h] = j /\ \A g \in Hooks \ {h} : job'[g] = job[g]
    BY <1>3 DEF IInv, Shape, Put
  <2>2. \A g \in Hooks : Noted(g)'
    BY <1>3, <2>1, Appended DEF RInv, Noted
  <2>3. QED
    BY <1>3, <2>2, Appended DEF RInv
<1>4. ASSUME log' = log \o [i \in DOMAIN n.unwritten |-> Piece(h, n.unwritten[i])],
             Put(h, [n EXCEPT !.pc = "answer", !.unwritten = <<>>])
      PROVE  RInv'
  <2> DEFINE j == [n EXCEPT !.pc = "answer", !.unwritten = <<>>]
             t == <<Piece(h, "entry"), Piece(h, "newline")>>
  <2>1. [i \in DOMAIN n.unwritten |-> Piece(h, n.unwritten[i])] = t
    BY <1>1
  <2>2. t \in Seq(Pieces) /\ Len(t) = 2 /\ t[1] = Piece(h, "entry") /\ t[2] = Piece(h, "newline")
    BY DEF Pieces, Piece
  <2>3. log' = log \o t
    BY <1>4, <2>1
  <2> HIDE DEF t
  <2>4. /\ DOMAIN log' = 1..(Len(log) + 2)
        /\ log'[Len(log) + 1] = Piece(h, "entry") /\ log'[Len(log) + 2] = Piece(h, "newline")
        /\ \A i \in DOMAIN log : i \in DOMAIN log' /\ log'[i] = log[i]
    <3>1. /\ DOMAIN log' = 1..(Len(log) + Len(t))
          /\ \A k \in 1..Len(t) : log'[Len(log) + k] = t[k]
          /\ \A i \in DOMAIN log : i \in DOMAIN log' /\ log'[i] = log[i]
      BY <2>2, <2>3, Appended
    <3>2. QED
      BY <2>2, <3>1
  <2>5. Recorded(h)'
    BY <1>2, <2>4 DEF Recorded, Piece
  <2>6. ASSUME NEW i \in DOMAIN log'
        PROVE  /\ log'[i].what = "entry" =>
                     i + 1 \in DOMAIN log' /\ log'[i + 1] = Piece(log'[i].hook, "newline")
               /\ log'[i].what = "newline" =>
                     i > 1 /\ log'[i - 1] = Piece(log'[i].hook, "entry")
    <3>1. CASE i \in DOMAIN log
      BY <1>2, <2>4, <3>1 DEF RInv, EntriesAreWhole, Piece
    <3>2. CASE i = Len(log) + 1
      BY <1>2, <2>4, <3>2 DEF Piece
    <3>3. CASE i = Len(log) + 2
      BY <1>2, <2>4, <3>3 DEF Piece
    <3>4. QED
      BY <1>2, <2>4, <3>1, <3>2, <3>3
  <2>7. EntriesAreWhole'
    BY <2>6 DEF EntriesAreWhole, Piece
  <2>8. j.pc = "answer"
    <3> HIDE DEF n
    <3>1. QED
      BY <1>1 DEF IsJob
  <2>9. Put(h, j)
    BY <1>4
  <2> HIDE DEF j
  <2>10. QED
    BY <1>3, <2>2, <2>3, <2>5, <2>7, <2>8, <2>9
<1>5. ASSUME log' \in {log, Append(log, Piece(h, "cut"))},
             Put(h, [n EXCEPT !.pc = "answer", !.unlogged = TRUE])
      PROVE  RInv'
  <2> DEFINE j == [n EXCEPT !.pc = "answer", !.unlogged = TRUE]
  <2>1. j.pc = "answer" /\ j.unlogged
    <3> HIDE DEF n
    <3>1. QED
      BY <1>1 DEF IsJob
  <2>2. Put(h, j)
    BY <1>5
  <2> HIDE DEF j
  <2>3. CASE log' = log
    <3>1. <<>> \in Seq(Pieces) /\ log' = log \o <<>>
      BY <2>3, ConcatEmptySeq DEF RInv
    <3>2. EntriesAreWhole'
      BY <2>3 DEF RInv, EntriesAreWhole, Piece
    <3>3. QED
      BY <1>3, <2>1, <2>2, <3>1, <3>2
  <2>4. CASE log' = Append(log, Piece(h, "cut"))
    <3> DEFINE t == <<Piece(h, "cut")>>
    <3>1. Piece(h, "cut") \in Pieces /\ t \in Seq(Pieces) /\ Len(t) = 1 /\ t[1] = Piece(h, "cut")
      BY DEF Pieces, Piece
    <3>2. log' = log \o t
      BY <2>4, <3>1, AppendIsConcat DEF RInv
    <3> HIDE DEF t
    <3>3. /\ DOMAIN log' = 1..(Len(log) + 1) /\ log'[Len(log) + 1] = Piece(h, "cut")
          /\ \A i \in DOMAIN log : i \in DOMAIN log' /\ log'[i] = log[i]
      <4>1. /\ DOMAIN log' = 1..(Len(log) + Len(t))
            /\ \A k \in 1..Len(t) : log'[Len(log) + k] = t[k]
            /\ \A i \in DOMAIN log : i \in DOMAIN log' /\ log'[i] = log[i]
        BY <3>1, <3>2, Appended
      <4>2. QED
        BY <3>1, <4>1
    <3>4. EntriesAreWhole'
      <4>1. ASSUME NEW i \in DOMAIN log'
            PROVE  /\ log'[i].what = "entry" =>
                         i + 1 \in DOMAIN log' /\ log'[i + 1] = Piece(log'[i].hook, "newline")
                   /\ log'[i].what = "newline" =>
                         i > 1 /\ log'[i - 1] = Piece(log'[i].hook, "entry")
        BY <1>2, <3>3 DEF RInv, EntriesAreWhole, Piece
      <4>2. QED
        BY <4>1 DEF EntriesAreWhole, Piece
    <3>5. QED
      BY <1>3, <2>1, <2>2, <3>1, <3>2, <3>4
  <2>5. QED
    BY <1>5, <2>3, <2>4
<1>6. QED
  BY <1>4, <1>5 DEF Log

(* Every step preserves the record. *)
LEMMA RecordKept == IInv /\ RInv /\ [Next]_vars => RInv'
<1> SUFFICES ASSUME IInv, RInv, [Next]_vars PROVE RInv'
  OBVIOUS
<1>1. ASSUME UNCHANGED <<job, log>> PROVE RInv'
  BY <1>1 DEF RInv, EntriesAreWhole, Noted, Recorded, Piece
<1>2. CASE Publish \/ BeginWrite \/ EndWrite \/ CutWrite \/ UNCHANGED vars
  BY <1>1, <1>2 DEF Publish, BeginWrite, EndWrite, CutWrite, vars
<1>3. ASSUME NEW h \in Hooks, HookStep(h) PROVE RInv'
  BY <1>3, HookIsQuiet, LogRecords DEF HookStep
<1>4. QED
  BY <1>2, <1>3, AgentIsQuiet DEF Next

(* However many hooks append to it, an installation that was judged stands *)
(* in the log as an entry with its own newline, unless writing failed      *)
(* (audit.go:48-83, evaluate.go:264).                                      *)
THEOREM Documented == Spec => []InstallsAreOnRecord
<1>1. Init => RInv
  <2> SUFFICES ASSUME Init PROVE RInv
    OBVIOUS
  <2>1. PICK s \in Starts : job = [h \in Hooks |-> NewJob(s.commands[h])] /\ log = <<>>
    BY DEF Init
  <2>2. \A h \in Hooks : Noted(h)
    BY <2>1 DEF Noted, NewJob
  <2>3. QED
    BY <2>1, <2>2 DEF RInv, EntriesAreWhole
<1>2. RInv => InstallsAreOnRecord
  BY DEF RInv, Noted, Recorded, InstallsAreOnRecord
<1>3. QED
  BY <1>1, <1>2, RecordKept, Invariance, PTL DEF Spec

-----------------------------------------------------------------------------
(* Session implements Gate: what is installed is what was granted or       *)
(* something newer than the guard could know of, for any number of hooks   *)
(* and versions, whatever the files hold and the providers answer.         *)

(* What is known of the versions that a job speaks of.                     *)
Bounds(h) ==
    LET j == job[h] IN
    /\ j.cmd.pinned \in 0..published
    /\ j.seen \in 0..published
    /\ j.result.install \in 0..j.seen
    /\ j.result.kind = "answer" => j.cmd.pinned <= j.seen
    /\ j.pc # "ran" => j.installed = 0
    /\ j.pc = "granted" => ~j.late /\ j.updated = j.result.install
    /\ j.pc = "unguarded" => j.updated = 0

BInv == published \in Nat /\ \A h \in Hooks : Bounds(h)

(* A step of one hook leaves the bounds of the others alone.               *)
LEMMA OneBounded ==
    ASSUME IInv, BInv, NEW h \in Hooks, NEW j, Put(h, j), published' = published,
           j.cmd = job[h].cmd,
           j.seen \in 0..published,
           j.result.install \in 0..j.seen,
           j.result.kind = "answer" => j.cmd.pinned <= j.seen,
           j.pc # "ran" => j.installed = 0,
           j.pc = "granted" => ~j.late /\ j.updated = j.result.install,
           j.pc = "unguarded" => j.updated = 0
    PROVE  BInv'
<1>1. job'[h] = j /\ \A g \in Hooks \ {h} : job'[g] = job[g]
  BY DEF IInv, Shape, Put
<1>2. Bounds(h)'
  BY <1>1 DEF BInv, Bounds
<1>3. ASSUME NEW g \in Hooks, g # h PROVE Bounds(g)'
  BY <1>1, <1>3 DEF BInv, Bounds
<1>4. QED
  BY <1>2, <1>3 DEF BInv

-----------------------------------------------------------------------------
(* The steps of Gate, from what a step of one hook does to its own part of *)
(* the mapping.                                                            *)
LEMMA OthersStay ==
    ASSUME IInv, NEW h \in Hooks, NEW j, Put(h, j)
    PROVE  /\ job'[h] = j
           /\ \A g \in Hooks \ {h} :
                 job'[g] = job[g] /\ Stage(g)' = Stage(g) /\ GrantOf(g)' = GrantOf(g)
<1>1. job'[h] = j /\ \A g \in Hooks \ {h} : job'[g] = job[g]
  BY DEF IInv, Shape, Put
<1>2. \A g \in Hooks \ {h} : Stage(g)' = Stage(g)
  BY <1>1 DEF Stage, Permitted, Runtime
<1>3. \A g \in Hooks \ {h} : GrantOf(g)' = GrantOf(g)
  BY <1>1, <1>2 DEF GrantOf
<1>4. QED
  BY <1>1, <1>2, <1>3

LEMMA Stutters ==
    ASSUME IInv, NEW h \in Hooks, NEW j, Put(h, j), published' = published,
           Stage(h)' = Stage(h), GrantOf(h)' = GrantOf(h),
           GrantOf(h) = {} \/ j.seen = job[h].seen, j.installed = job[h].installed
    PROVE  UNCHANGED Promise!vars
BY OthersStay DEF Promise!vars

LEMMA NothingGranted ==
    ASSUME NEW h
    PROVE  /\ Stage(h) \notin {"granted", "ran"} => GrantOf(h) = {}
           /\ Stage(h)' \notin {"granted", "ran"} => GrantOf(h)' = {}
BY DEF GrantOf

LEMMA Bars ==
    ASSUME IInv, NEW h \in Hooks, NEW j, Put(h, j), published' = published,
           Stage(h) = "waiting", Stage(h)' = "barred", j.installed = job[h].installed
    PROVE  Promise!Bar(h)
<1>1. GrantOf(h) = {} /\ GrantOf(h)' = {}
  BY NothingGranted
<1>2. QED
  BY <1>1, OthersStay DEF Promise!Bar, Promise!Move

LEMMA Escapes ==
    ASSUME IInv, NEW h \in Hooks, NEW j, Put(h, j), published' = published,
           Stage(h) = "waiting", Stage(h)' = "unguarded", j.installed = job[h].installed
    PROVE  Promise!Escape(h)
<1>1. GrantOf(h) = {} /\ GrantOf(h)' = {}
  BY NothingGranted
<1>2. QED
  BY <1>1, OthersStay DEF Promise!Escape, Promise!Move

LEMMA Grants ==
    ASSUME IInv, NEW h \in Hooks, NEW j, Put(h, j), published' = published,
           published \in Nat, Stage(h) = "waiting", Stage(h)' = "granted",
           j.installed = job[h].installed, j.seen \in 0..published,
           GrantOf(h)' # {}, GrantOf(h)' \subseteq 0..j.seen
    PROVE  Promise!Grant(h)
<1>1. GrantOf(h) = {}
  BY NothingGranted
<1>2. GrantOf(h)' \in SUBSET (0..published) /\ \A v \in GrantOf(h)' : v <= j.seen
  OBVIOUS
<1>3. [g \in Hooks |-> IF GrantOf(g) = {} THEN 0 ELSE job[g].seen]'
         = [[g \in Hooks |-> IF GrantOf(g) = {} THEN 0 ELSE job[g].seen] EXCEPT ![h] = j.seen]
  BY OthersStay
<1>4. [g \in Hooks |-> GrantOf(g)]'
         = [[g \in Hooks |-> GrantOf(g)] EXCEPT ![h] = GrantOf(h)']
  BY OthersStay
<1>5. Promise!Move(h, "waiting", "granted")
  BY OthersStay DEF Promise!Move
<1>6. [g \in Hooks |-> job[g].installed]' = [g \in Hooks |-> job[g].installed]
  BY OthersStay
<1>7. \E n \in 0..published, S \in SUBSET (0..published) :
         /\ \A v \in S : v <= n
         /\ [g \in Hooks |-> IF GrantOf(g) = {} THEN 0 ELSE job[g].seen]'
               = [[g \in Hooks |-> IF GrantOf(g) = {} THEN 0 ELSE job[g].seen] EXCEPT ![h] = n]
         /\ [g \in Hooks |-> GrantOf(g)]' = [[g \in Hooks |-> GrantOf(g)] EXCEPT ![h] = S]
  <2>1. WITNESS j.seen \in 0..published, GrantOf(h)' \in SUBSET (0..published)
  <2>2. QED
    BY <1>2, <1>3, <1>4
<1>8. QED
  BY <1>5, <1>6, <1>7 DEF Promise!Grant

LEMMA Runs ==
    ASSUME IInv, NEW h \in Hooks, NEW j, Put(h, j), published' = published,
           Stage(h)' = "ran", GrantOf(h)' = GrantOf(h), j.seen = job[h].seen,
           \/ Stage(h) = "granted" /\ GrantOf(h) # {}
                /\ j.installed \in GrantOf(h) \cup (j.seen + 1)..published
           \/ Stage(h) = "unguarded" /\ j.installed \in 0..published
    PROVE  Promise!Run(h)
BY OthersStay DEF Promise!Run, Promise!Move

-----------------------------------------------------------------------------
(* The steps of a hook.  Until it answers its command is waiting.          *)
Working == {"read", "load", "evaluate", "log", "answer"}

LEMMA WorkingWaits ==
    ASSUME NEW h
    PROVE  /\ job[h].pc \in Working => Stage(h) = "waiting" /\ GrantOf(h) = {}
           /\ job'[h].pc \in Working => Stage(h)' = "waiting" /\ GrantOf(h)' = {}
BY DEF Working, Stage, GrantOf

(* A step from one point before the answer to another.                     *)
LEMMA StillWaits ==
    ASSUME IInv, BInv, NEW h \in Hooks, NEW j, Put(h, j), published' = published,
           job[h].pc \in Working, j.pc \in Working, j.cmd = job[h].cmd,
           j.seen \in 0..published, j.result.install \in 0..j.seen,
           j.result.kind = "answer" => j.cmd.pinned <= j.seen,
           j.installed = job[h].installed
    PROVE  BInv' /\ UNCHANGED Promise!vars
<1>1. job'[h] = j
  BY OthersStay
<1>2. UNCHANGED Promise!vars
  BY <1>1, WorkingWaits, Stutters
<1>3. job[h].pc \notin {"ran", "granted", "unguarded"} /\ j.pc \notin {"ran", "granted", "unguarded"}
  BY DEF Working
<1>4. j.installed = 0
  BY <1>3 DEF BInv, Bounds
<1>5. QED
  BY <1>2, <1>3, <1>4, OneBounded

LEMMA FailBars ==
    ASSUME IInv, BInv, NEW h \in Hooks, Fail(h), published' = published,
           job[h].pc \in Working
    PROVE  BInv' /\ Promise!Bar(h)
<1> DEFINE n == NewJob(job[h].cmd)
           j == [n EXCEPT !.pc = "exited", !.code = FailureCode(h)]
<1>1. IsJob(n)
  BY NewIsJob
<1>2. n.cmd = job[h].cmd /\ n.seen = 0 /\ n.result = NoResult /\ n.installed = 0
  BY DEF NewJob
<1>3. Put(h, j)
  BY DEF Fail
<1> HIDE DEF n
<1>4. /\ j.pc = "exited" /\ j.code = FailureCode(h) /\ j.cmd = job[h].cmd /\ j.seen = 0
      /\ j.result = NoResult /\ j.installed = 0
  BY <1>1, <1>2 DEF IsJob
<1> HIDE DEF j
<1>5. job'[h] = j
  BY <1>3, OthersStay
<1>6. Stage(h) = "waiting"
  BY WorkingWaits
<1>7. Stage(h)' = "barred"
  BY <1>4, <1>5 DEF Stage, FailureCode
<1>8. job[h].installed = 0 /\ published \in Nat
  BY DEF BInv, Bounds, Working
<1>9. Promise!Bar(h)
  BY <1>3, <1>4, <1>6, <1>7, <1>8, Bars
<1>10. BInv'
  BY <1>3, <1>4, <1>8, OneBounded DEF NoResult
<1>11. QED
  BY <1>9, <1>10

LEMMA PassWaits ==
    ASSUME IInv, BInv, NEW h \in Hooks, Pass(h), published' = published,
           job[h].pc \in Working
    PROVE  BInv' /\ UNCHANGED Promise!vars
<1> DEFINE n == job[h]
           j == [n EXCEPT !.pc = "answer", !.result = Decided("allow"), !.seen = published]
<1>1. IsJob(n) /\ n.cmd.pinned \in 0..published /\ published \in Nat /\ n.pc \in Working
  BY DEF IInv, Shape, BInv, Bounds
<1>2. Put(h, j)
  BY DEF Pass
<1> HIDE DEF n
<1>3. /\ j.pc = "answer" /\ j.cmd = n.cmd /\ j.seen = published
      /\ j.result.install = 0 /\ j.installed = n.installed
  BY <1>1 DEF IsJob, Decided
<1>4. j.pc \in Working /\ j.seen \in 0..published /\ j.result.install \in 0..j.seen
      /\ j.cmd.pinned <= j.seen
  BY <1>1, <1>3 DEF Working
<1> HIDE DEF j
<1>5. QED
  BY <1>2, <1>3, <1>4, StillWaits DEF n

LEMMA ReadOrLoadWaits ==
    ASSUME IInv, BInv, NEW h \in Hooks, ReadHookInput(h) \/ LoadConfigAndProvider(h)
    PROVE  BInv' /\ (Promise!Bar(h) \/ UNCHANGED Promise!vars)
<1> DEFINE n == job[h]
<1>1. IsJob(n) /\ n.pc \in {"read", "load"} /\ published' = published
  BY DEF IInv, Shape, ReadHookInput, LoadConfigAndProvider, At, file
<1>2. n.pc \in Working
  BY <1>1 DEF Working
<1>3. /\ n.cmd.pinned \in 0..published /\ n.seen \in 0..published
      /\ n.result.install \in 0..n.seen /\ (n.result.kind = "answer" => n.cmd.pinned <= n.seen)
  BY DEF BInv, Bounds
<1>4. CASE Fail(h)
  BY <1>1, <1>2, <1>4, FailBars
<1>5. CASE Pass(h)
  BY <1>1, <1>2, <1>5, PassWaits
<1>6. CASE Put(h, [n EXCEPT !.pc = "load"])
  <2> DEFINE j == [n EXCEPT !.pc = "load"]
  <2> HIDE DEF n
  <2>1. /\ j.pc = "load" /\ j.cmd = n.cmd /\ j.seen = n.seen /\ j.result = n.result
        /\ j.installed = n.installed
    BY <1>1 DEF IsJob
  <2> HIDE DEF j
  <2>2. Put(h, j) /\ j.pc \in Working
    BY <1>6, <2>1 DEF j, Working
  <2>3. QED
    BY <1>1, <1>2, <1>3, <2>1, <2>2, StillWaits DEF n
<1>7. ASSUME NEW cfg, NEW provider,
             Put(h, [n EXCEPT !.pc = "evaluate", !.cfg = cfg,
                              !.fromClean = clean, !.provider = provider])
      PROVE  BInv' /\ UNCHANGED Promise!vars
  <2> DEFINE j == [n EXCEPT !.pc = "evaluate", !.cfg = cfg,
                            !.fromClean = clean, !.provider = provider]
  <2> HIDE DEF n
  <2>1. /\ j.pc = "evaluate" /\ j.cmd = n.cmd /\ j.seen = n.seen /\ j.result = n.result
        /\ j.installed = n.installed
    BY <1>1 DEF IsJob
  <2> HIDE DEF j
  <2>2. Put(h, j) /\ j.pc \in Working
    BY <1>7, <2>1 DEF j, Working
  <2>3. QED
    BY <1>1, <1>2, <1>3, <2>1, <2>2, StillWaits DEF n
<1>8. CASE ReadHookInput(h)
  BY <1>4, <1>5, <1>6, <1>8 DEF ReadHookInput
<1>9. CASE LoadConfigAndProvider(h)
  BY <1>4, <1>7, <1>9 DEF LoadConfigAndProvider
<1>10. QED
  BY <1>8, <1>9

(* What is put in the place of the version asked for is one of those that  *)
(* were published when the hook looked.                                    *)
LEMMA InstallIsPublished ==
    ASSUME published \in Nat, NEW h \in Hooks, NEW available \in BOOLEAN,
           NEW exchange \in Exchanges(h), NEW direct
    PROVE  AnswerOne(Request(h), available, exchange.reply, direct).install \in 0..published
<1> DEFINE r == Request(h)
           reply == exchange.reply
           out == Promised(r, reply)
           answer == AnswerOne(r, available, reply, direct)
<1>1. /\ r.pinned = (job[h].cmd.pinned # 0)
      /\ ~r.pinned => \/ reply.kind \in {"error", "unsupported"}
                      \/ reply.kind = "ok" /\ reply.list = Listed
  <2>1. r.pinned = (job[h].cmd.pinned # 0)
    BY DEF Request
  <2>2. CASE ~r.pinned
    <3>1. exchange \in {NotOk(ProviderError), Ok(Listed, "none"), NotOk(Unsupported)}
      <4>1. job[h].cmd.pinned = 0
        BY <2>1, <2>2
      <4>2. CASE job[h].provider = "socket"
        <5>1. exchange \in {NotOk(ProviderError), NotOk(Unsupported), Ok(Listed, "none")}
          BY <4>1, <4>2 DEF Exchanges
        <5>2. QED
          BY <5>1
      <4>3. CASE job[h].provider # "socket"
        <5>1. exchange \in {NotOk(ProviderError), NotOk(Unsupported)}
          BY <4>1, <4>3 DEF Exchanges
        <5>2. QED
          BY <5>1
      <4>4. QED
        BY <4>2, <4>3
    <3>2. \/ reply \in {ProviderError, Unsupported}
          \/ reply.kind = "ok" /\ reply.list = Listed
      BY <3>1 DEF NotOk, Ok
    <3>3. QED
      BY <2>1, <3>2 DEF ProviderError, Unsupported
  <2>3. QED
    BY <2>1, <2>2
<1> HIDE DEF r, reply
<1>2. ASSUME available, out.kind = "selected", WasRewritten(out) PROVE out.index \in 0..published
  <2>1. reply.kind # "unsupported" /\ reply.kind # "error"
    BY <1>2 DEF Promised, UnsupportedSource, Failed, SelectError
  <2>2. ~r.pinned
    BY <1>2, <2>1 DEF Promised, Selected, WasRewritten
  <2>3. reply.list = Listed /\ out = Best(r, Listed)
    BY <1>1, <2>1, <2>2 DEF Promised
  <2>4. Live(Listed) \subseteq 1..published
    BY DEF Live, Listed
  <2>5. PICK S : S \subseteq Live(Listed) /\ S # {} /\ out.index = Newest(S)
    <3> DEFINE allowed == Judged(r, Listed, "allow")
               asked == Judged(r, Listed, "ask")
    <3>1. allowed \subseteq Live(Listed) /\ asked \subseteq Live(Listed)
      BY DEF Judged
    <3> HIDE DEF allowed, asked
    <3>2. allowed # {} \/ asked # {}
      BY <1>2, <2>3 DEF Best, Failed, allowed, asked
    <3>3. out.index = IF allowed # {} THEN Newest(allowed) ELSE Newest(asked)
      BY <2>3, <3>2 DEF Best, Selected, allowed, asked
    <3>4. QED
      BY <3>1, <3>2, <3>3
  <2>6. Newest(S) \in S
    BY <2>4, <2>5, NewestInSet
  <2>7. QED
    BY <2>4, <2>5, <2>6
<1>3. CASE available /\ out.kind = "selected"
  <2>1. answer = AnswerSelected(r, out, direct)
    BY <1>3 DEF AnswerOne
  <2>2. answer.install = IF WasRewritten(out) /\ direct THEN out.index ELSE 0
    BY <2>1 DEF AnswerSelected
  <2>3. answer.install \in 0..published
    <3> HIDE DEF out, answer
    <3>1. CASE WasRewritten(out) /\ direct
      BY <1>2, <1>3, <2>2, <3>1
    <3>2. CASE ~(WasRewritten(out) /\ direct)
      BY <2>2, <3>2
    <3>3. QED
      BY <3>1, <3>2
  <2>4. QED
    BY <2>3 DEF r, reply
<1>4. CASE ~available
  BY <1>4 DEF AnswerOne, r, reply
<1>5. CASE available /\ out.kind \in {"error", "unsupported", "failed"}
  BY <1>5 DEF AnswerOne, r, reply
<1>6. out.kind \in {"error", "unsupported", "failed", "selected"}
  BY DEF Promised, UnsupportedSource, Failed, SelectError, Selected, Best
<1>7. QED
  BY <1>3, <1>4, <1>5, <1>6

LEMMA JudgeWaits ==
    ASSUME IInv, BInv, NEW h \in Hooks, Judge(h)
    PROVE  BInv' /\ (Promise!Bar(h) \/ UNCHANGED Promise!vars)
<1> DEFINE n == job[h]
<1>1. /\ IsJob(n) /\ n.pc \in Working /\ n.cmd.pinned \in 0..published /\ published \in Nat
      /\ published' = published
  BY DEF IInv, Shape, BInv, Bounds, Judge, At, Working, file
<1>2. CASE Fail(h)
  BY <1>1, <1>2, FailBars
<1>3. ASSUME NEW answer, NEW available, NEW version \in 0..published, NEW told,
             answer \in [kind : {"answer"}, decision : Decisions, install : {answer.install}],
             Put(h, [n EXCEPT
                       !.pc = "log", !.reach = Reach(available), !.seen = published,
                       !.told = told, !.result = [answer EXCEPT !.install = version],
                       !.unwritten = <<"entry", "newline">>])
      PROVE  BInv' /\ UNCHANGED Promise!vars
  <2> DEFINE result == [answer EXCEPT !.install = version]
             text == <<"entry", "newline">>
             j == [n EXCEPT !.pc = "log", !.reach = Reach(available), !.seen = published,
                            !.told = told, !.result = result, !.unwritten = text]
  <2>1. Put(h, j)
    BY <1>3
  <2>2. result.install = version
    BY <1>3
  <2> HIDE DEF n, result, text
  <2>3. /\ j.pc = "log" /\ j.cmd = n.cmd /\ j.seen = published /\ j.result = result
        /\ j.installed = n.installed
    BY <1>1 DEF IsJob
  <2> HIDE DEF j
  <2>4. j.pc \in Working /\ j.seen \in 0..published /\ j.result.install \in 0..j.seen
        /\ j.cmd.pinned <= j.seen
    BY <1>1, <1>3, <2>2, <2>3 DEF Working
  <2>5. QED
    BY <1>1, <2>1, <2>3, <2>4, StillWaits DEF n
<1>4. PICK available \in IsAvailable(job[h].provider), exchange \in Exchanges(h) :
         LET answer == AnswerOne(Request(h), available, exchange.reply, job[h].cmd.direct)
             version == IF answer.install = 0 THEN 0 ELSE published + 1 - answer.install
         IN IF answer.kind = "error" THEN Fail(h)
            ELSE Put(h, [job[h] EXCEPT
                            !.pc = "log", !.reach = Reach(available), !.seen = published,
                            !.told = IF available THEN exchange.told ELSE "none",
                            !.result = [answer EXCEPT !.install = version],
                            !.unwritten = <<"entry", "newline">>])
  BY DEF Judge
<1>5. available \in BOOLEAN
  BY <1>4 DEF IsAvailable
<1> DEFINE answer == AnswerOne(Request(h), available, exchange.reply, job[h].cmd.direct)
           version == IF answer.install = 0 THEN 0 ELSE published + 1 - answer.install
<1>6. version \in 0..published
  <2>1. answer.install \in 0..published
    BY <1>1, <1>5, InstallIsPublished
  <2> HIDE DEF answer
  <2>2. QED
    BY <1>1, <2>1
<1>7. CASE answer.kind = "error"
  BY <1>2, <1>4, <1>7
<1>8. CASE answer.kind # "error"
  <2>1. answer \in [kind : {"answer"}, decision : Decisions, install : {answer.install}]
    BY <1>5, <1>8, AnswerOneType
  <2>2. Put(h, [n EXCEPT !.pc = "log", !.reach = Reach(available), !.seen = published,
                         !.told = IF available THEN exchange.told ELSE "none",
                         !.result = [answer EXCEPT !.install = version],
                         !.unwritten = <<"entry", "newline">>])
    BY <1>4, <1>8
  <2> HIDE DEF answer, version, n
  <2>3. QED
    BY <1>3, <1>6, <2>1, <2>2
<1>9. QED
  BY <1>7, <1>8

LEMMA LogWaits ==
    ASSUME IInv, BInv, NEW h \in Hooks, Log(h)
    PROVE  BInv' /\ UNCHANGED Promise!vars
<1> DEFINE n == job[h]
<1>1. IsJob(n) /\ n.pc \in Working /\ published' = published
  BY DEF IInv, Shape, Log, At, Working, file
<1>2. /\ n.cmd.pinned \in 0..published /\ n.seen \in 0..published
      /\ n.result.install \in 0..n.seen /\ (n.result.kind = "answer" => n.cmd.pinned <= n.seen)
  BY DEF BInv, Bounds
<1>3. PICK j : Put(h, j) /\ j \in {[n EXCEPT !.pc = "answer", !.unwritten = <<>>],
                                   [n EXCEPT !.pc = "answer", !.unlogged = TRUE]}
  BY DEF Log
<1> HIDE DEF n
<1>4. /\ j.pc = "answer" /\ j.cmd = n.cmd /\ j.seen = n.seen /\ j.result = n.result
      /\ j.installed = n.installed
  BY <1>1, <1>3 DEF IsJob
<1>5. j.pc \in Working
  BY <1>4 DEF Working
<1>6. QED
  BY <1>1, <1>2, <1>3, <1>4, <1>5, StillWaits DEF n

(* A grant is about versions that the hook saw.                            *)
LEMMA GrantIsKnown ==
    ASSUME NEW h \in Hooks
    PROVE  /\ BInv /\ job[h].result.kind = "answer" =>
                 /\ GrantOf(h) \subseteq 0..job[h].seen
                 /\ Stage(h) \in {"granted", "ran"} /\ ~job[h].late => GrantOf(h) # {}
           /\ BInv' /\ job'[h].result.kind = "answer" =>
                 /\ GrantOf(h)' \subseteq 0..job'[h].seen
                 /\ Stage(h)' \in {"granted", "ran"} /\ ~job'[h].late => GrantOf(h)' # {}
<1>1. ASSUME BInv, job[h].result.kind = "answer"
      PROVE  /\ GrantOf(h) \subseteq 0..job[h].seen
             /\ Stage(h) \in {"granted", "ran"} /\ ~job[h].late => GrantOf(h) # {}
  BY <1>1 DEF BInv, Bounds, GrantOf
<1>2. ASSUME BInv', job'[h].result.kind = "answer"
      PROVE  /\ GrantOf(h)' \subseteq 0..job'[h].seen
             /\ Stage(h)' \in {"granted", "ran"} /\ ~job'[h].late => GrantOf(h)' # {}
  BY <1>2 DEF BInv, Bounds, GrantOf
<1>3. QED
  BY <1>1, <1>2

(* The answer settles a command, unless somebody is to be asked.           *)
LEMMA AnswerSettles ==
    ASSUME IInv, BInv, NEW h \in Hooks, Answer(h)
    PROVE  BInv' /\ (Promise!Bar(h) \/ Promise!Grant(h) \/ UNCHANGED Promise!vars)
<1> DEFINE n == job[h]
           output == FormatHookOutput(h, n.result)
           j == [n EXCEPT !.pc = "exited", !.permission = output.permission,
                          !.updated = output.updated]
<1>1. /\ IsJob(n) /\ n.pc = "answer" /\ n.code = 0 /\ ~n.asked /\ ~n.late
      /\ n.result.kind = "answer" /\ n.result.decision \in Decisions
      /\ published' = published /\ published \in Nat
  <2>1. IsJob(n) /\ Course(h) /\ n.pc = "answer" /\ published' = published /\ published \in Nat
    BY DEF IInv, Shape, Answer, At, file, BInv
  <2>2. n.result.decision \in Decisions
    BY <2>1 DEF IsJob
  <2>3. QED
    BY <2>1, <2>2 DEF Course
<1>2. /\ n.cmd.pinned \in 0..published /\ n.seen \in 0..published
      /\ n.result.install \in 0..n.seen /\ n.cmd.pinned <= n.seen
      /\ n.installed = 0
  BY <1>1 DEF BInv, Bounds
<1>3. Put(h, j)
  BY DEF Answer
<1> HIDE DEF n, output
<1>4. /\ j.pc = "exited" /\ j.code = 0 /\ ~j.late /\ ~j.asked /\ j.cmd = n.cmd
      /\ j.seen = n.seen /\ j.result = n.result /\ j.installed = 0
  BY <1>1, <1>2 DEF IsJob
<1> HIDE DEF j
<1>5. job'[h] = j
  BY <1>3, OthersStay
<1>6. BInv'
  BY <1>1, <1>2, <1>3, <1>4, OneBounded DEF n
<1>7. Stage(h) = "waiting" /\ GrantOf(h) = {}
  BY <1>1, WorkingWaits DEF n, Working
<1>8. Stage(h)' \in {"barred", "granted", "waiting"}
  BY <1>4, <1>5 DEF Stage
<1>9. CASE Stage(h)' = "barred"
  BY <1>1, <1>2, <1>3, <1>4, <1>6, <1>7, <1>9, Bars DEF n
<1>10. CASE Stage(h)' = "granted"
  <2>1. GrantOf(h)' # {} /\ GrantOf(h)' \subseteq 0..j.seen
    BY <1>1, <1>4, <1>5, <1>6, <1>10, GrantIsKnown
  <2>2. QED
    BY <1>1, <1>2, <1>3, <1>4, <1>6, <1>7, <1>10, <2>1, Grants DEF n
<1>11. CASE Stage(h)' = "waiting"
  <2>1. GrantOf(h)' = {}
    BY <1>11, NothingGranted
  <2>2. QED
    BY <1>1, <1>2, <1>3, <1>4, <1>6, <1>7, <1>11, <2>1, Stutters DEF n
<1>12. QED
  BY <1>8, <1>9, <1>10, <1>11

-----------------------------------------------------------------------------
(* The steps of the agent.                                                 *)
LEMMA TimeOutEscapes ==
    ASSUME IInv, BInv, NEW h \in Hooks, TimeOut(h)
    PROVE  BInv' /\ Promise!Escape(h)
<1> DEFINE n == NewJob(job[h].cmd)
           j == [n EXCEPT !.pc = "unguarded", !.late = TRUE]
<1>1. IsJob(n)
  BY NewIsJob
<1>2. /\ n.cmd = job[h].cmd /\ n.seen = 0 /\ n.result = NoResult /\ n.installed = 0
      /\ n.updated = 0
  BY DEF NewJob
<1>3. Put(h, j) /\ published' = published /\ job[h].pc \in Working
  BY DEF TimeOut, file, Working
<1> HIDE DEF n
<1>4. /\ j.pc = "unguarded" /\ j.cmd = job[h].cmd /\ j.seen = 0
      /\ j.result = NoResult /\ j.installed = 0 /\ j.updated = 0
  BY <1>1, <1>2 DEF IsJob
<1> HIDE DEF j
<1>5. job'[h] = j
  BY <1>3, OthersStay
<1>6. Stage(h) = "waiting" /\ Stage(h)' = "unguarded"
  BY <1>3, <1>4, <1>5, WorkingWaits DEF Stage
<1>7. job[h].installed = 0 /\ published \in Nat
  BY <1>3 DEF BInv, Bounds, Working
<1>8. Promise!Escape(h)
  BY <1>3, <1>4, <1>6, <1>7, Escapes
<1>9. BInv'
  BY <1>3, <1>4, <1>7, OneBounded DEF NoResult
<1>10. QED
  BY <1>8, <1>9

LEMMA AgentSettles ==
    ASSUME IInv, BInv, NEW h \in Hooks, AgentDecides(h)
    PROVE  BInv' /\ (Promise!Bar(h) \/ Promise!Grant(h) \/ UNCHANGED Promise!vars)
<1> DEFINE n == job[h]
<1>1. /\ IsJob(n) /\ n.pc = "exited" /\ ~n.late /\ ~n.asked /\ n.code \in {0, 2}
      /\ n.code = 0 => /\ n.result.kind = "answer"
                       /\ n.permission = FormatHookOutput(h, n.result).permission
                       /\ n.updated = FormatHookOutput(h, n.result).updated
      /\ Runtime(h) # "evaluate" /\ n.result.decision \in Decisions
      /\ published' = published /\ published \in Nat
  <2>1. /\ IsJob(n) /\ Course(h) /\ n.pc = "exited" /\ Runtime(h) # "evaluate"
        /\ published' = published /\ published \in Nat
    BY DEF IInv, Shape, AgentDecides, At, file, BInv
  <2>2. n.code \in 0..2 /\ n.result.decision \in Decisions
    BY <2>1 DEF IsJob
  <2>3. QED
    BY <2>1, <2>2 DEF Course
<1>2. /\ n.cmd.pinned \in 0..published /\ n.seen \in 0..published
      /\ n.result.install \in 0..n.seen /\ (n.result.kind = "answer" => n.cmd.pinned <= n.seen)
      /\ n.installed = 0
  BY <1>1 DEF BInv, Bounds
<1>3. /\ n.code = 2 => Stage(h) = "barred"
      /\ n.code = 0 =>
            Stage(h) = IF n.result.decision = "deny" THEN "barred"
                       ELSE IF n.result.decision = "allow" THEN "granted"
                       ELSE IF Runtime(h) = "codex" THEN "barred" ELSE "waiting"
  BY <1>1 DEF Stage
<1>4. ASSUME NEW j, Put(h, j), j \in {[n EXCEPT !.pc = "refused"], [n EXCEPT !.pc = "granted"],
                                      [n EXCEPT !.pc = "granted", !.asked = TRUE]}
      PROVE  /\ j.cmd = n.cmd /\ j.seen = n.seen /\ j.result = n.result /\ j.installed = 0
             /\ j.late = n.late /\ j.updated = n.updated /\ j.pc \in {"refused", "granted"}
             /\ job'[h] = j
             /\ Runtime(h)' = Runtime(h)
  <2>1. job'[h] = j
    BY <1>4, OthersStay
  <2> HIDE DEF n
  <2>2. /\ j.cmd = n.cmd /\ j.seen = n.seen /\ j.result = n.result /\ j.installed = n.installed
        /\ j.late = n.late /\ j.updated = n.updated /\ j.pc \in {"refused", "granted"}
    BY <1>1, <1>4 DEF IsJob
  <2>3. QED
    BY <1>2, <2>1, <2>2 DEF n, Runtime
<1>5. ASSUME Refuse(h), n.code = 2 \/ (n.code = 0 /\ n.permission \in {"deny", "ask"})
      PROVE  BInv' /\ (Promise!Bar(h) \/ UNCHANGED Promise!vars)
  <2> DEFINE j == [n EXCEPT !.pc = "refused"]
  <2>1. Put(h, j) /\ j \in {[n EXCEPT !.pc = "refused"], [n EXCEPT !.pc = "granted"],
                            [n EXCEPT !.pc = "granted", !.asked = TRUE]}
    BY <1>5 DEF Refuse
  <2>2. j.pc = "refused"
    <3> HIDE DEF n
    <3>1. QED
      BY <1>1 DEF IsJob
  <2>3. n.code = 0 => n.result.decision \in {"deny", "ask"}
    BY <1>1, <1>5 DEF FormatHookOutput, Decisions
  <2> HIDE DEF j
  <2>4. Stage(h)' = "barred" /\ GrantOf(h)' = {}
    BY <1>4, <2>1, <2>2, NothingGranted DEF Stage
  <2>5. Stage(h) \in {"barred", "waiting"} /\ GrantOf(h) = {}
    <3>1. Stage(h) \in {"barred", "waiting"}
      BY <1>1, <1>3, <1>5, <2>3
    <3>2. QED
      BY <3>1, NothingGranted
  <2>6. BInv'
    BY <1>1, <1>2, <1>4, <2>1, <2>2, OneBounded
  <2>7. QED
    BY <1>1, <1>2, <1>4, <2>1, <2>4, <2>5, <2>6, Bars, Stutters
<1>6. ASSUME Permit(h), n.code = 0, n.result.decision = "allow" PROVE BInv' /\ UNCHANGED Promise!vars
  <2> DEFINE j == [n EXCEPT !.pc = "granted"]
  <2>1. Put(h, j) /\ j \in {[n EXCEPT !.pc = "refused"], [n EXCEPT !.pc = "granted"],
                            [n EXCEPT !.pc = "granted", !.asked = TRUE]}
    BY <1>6 DEF Permit
  <2>2. j.pc = "granted"
    <3> HIDE DEF n
    <3>1. QED
      BY <1>1 DEF IsJob
  <2> HIDE DEF j
  <2>3. n.updated = n.result.install
    BY <1>1, <1>6 DEF FormatHookOutput
  <2>4. Stage(h) = "granted" /\ Stage(h)' = "granted"
    BY <1>3, <1>4, <1>6, <2>1, <2>2 DEF Stage, Permitted
  <2>5. GrantOf(h)' = GrantOf(h)
    BY <1>4, <2>1, <2>4 DEF GrantOf
  <2>6. BInv'
    BY <1>1, <1>2, <1>4, <2>1, <2>3, OneBounded
  <2>7. QED
    BY <1>1, <1>2, <1>4, <2>1, <2>4, <2>5, <2>6, Stutters
<1>7. ASSUME PermitAsked(h), n.code = 0, n.result.decision = "ask", Runtime(h) # "codex"
      PROVE  BInv' /\ Promise!Grant(h)
  <2> DEFINE j == [n EXCEPT !.pc = "granted", !.asked = TRUE]
  <2>1. Put(h, j) /\ j \in {[n EXCEPT !.pc = "refused"], [n EXCEPT !.pc = "granted"],
                            [n EXCEPT !.pc = "granted", !.asked = TRUE]}
    BY <1>7 DEF PermitAsked
  <2>2. j.pc = "granted" /\ j.asked
    <3> HIDE DEF n
    <3>1. QED
      BY <1>1 DEF IsJob
  <2> HIDE DEF j
  <2>3. n.updated = n.result.install
    BY <1>1, <1>7 DEF FormatHookOutput
  <2>4. Stage(h) = "waiting" /\ Stage(h)' = "granted"
    BY <1>3, <1>4, <1>7, <2>1, <2>2 DEF Stage, Permitted
  <2>5. BInv'
    BY <1>1, <1>2, <1>4, <2>1, <2>3, OneBounded
  <2>6. GrantOf(h)' # {} /\ GrantOf(h)' \subseteq 0..j.seen
    BY <1>1, <1>4, <1>7, <2>1, <2>4, <2>5, GrantIsKnown
  <2>7. QED
    BY <1>1, <1>2, <1>4, <2>1, <2>4, <2>5, <2>6, Grants
<1>8. \/ Refuse(h) /\ (n.code = 2 \/ (n.code = 0 /\ n.permission \in {"deny", "ask"}))
      \/ PermitAsked(h) /\ n.code = 0 /\ n.permission = "ask"
      \/ Permit(h) /\ n.code = 0 /\ n.permission \notin {"deny", "ask"}
  BY <1>1 DEF AgentDecides
<1>9. /\ n.code = 0 /\ n.permission = "ask" =>
            n.result.decision = "ask" /\ Runtime(h) # "codex"
      /\ n.code = 0 /\ n.permission \notin {"deny", "ask"} => n.result.decision = "allow"
  BY <1>1 DEF FormatHookOutput, Decisions
<1>10. QED
  BY <1>5, <1>6, <1>7, <1>8, <1>9

(* What is installed was granted, or is newer than what the hook saw, or   *)
(* the hook was stopped.                                                   *)
LEMMA InstallRuns ==
    ASSUME IInv, BInv, NEW h \in Hooks, Install(h)
    PROVE  BInv' /\ Promise!Run(h)
<1> DEFINE n == job[h]
           exact == IF n.updated # 0 THEN n.updated ELSE n.cmd.pinned
           version == IF exact # 0 THEN exact ELSE published
           v == IF n.cmd.installs THEN version ELSE 0
           j == [n EXCEPT !.pc = "ran", !.installed = v]
<1>1. /\ IsJob(n) /\ n.pc \in {"granted", "unguarded"} /\ Course(h) /\ Bounds(h)
      /\ published' = published /\ published \in Nat
  BY DEF IInv, Shape, Install, BInv, file
<1>2. Put(h, j)
  BY DEF Install
<1> HIDE DEF n, v
<1>3. /\ j.pc = "ran" /\ j.installed = v /\ j.cmd = n.cmd /\ j.seen = n.seen
      /\ j.result = n.result /\ j.late = n.late
  BY <1>1 DEF IsJob
<1> HIDE DEF j
<1>4. job'[h] = j
  BY <1>2, OthersStay
<1>5. BInv'
  BY <1>1, <1>2, <1>3, OneBounded DEF Bounds, n
<1>6. Stage(h)' = "ran"
  BY <1>3, <1>4 DEF Stage
<1>7. CASE n.pc = "granted"
  <2>1. ~n.late /\ n.result.kind = "answer" /\ n.updated = n.result.install /\ Permitted(h)
    BY <1>1, <1>7 DEF Bounds, Course, n
  <2>2. Stage(h) = "granted"
    BY <1>7, <2>1 DEF Stage, n
  <2>3. GrantOf(h)' = GrantOf(h)
    BY <1>3, <1>4, <1>6, <2>2 DEF GrantOf, n
  <2>4. GrantOf(h) # {}
    BY <2>1, <2>2, GrantIsKnown DEF n
  <2>5. n.seen \in 0..published
    BY <1>1 DEF Bounds, n
  <2>6. v \in GrantOf(h) \cup (n.seen + 1)..published
    BY <1>1, <2>1, <2>2, <2>5 DEF GrantOf, n, v
  <2>7. QED
    BY <1>1, <1>2, <1>3, <1>5, <1>6, <2>2, <2>3, <2>4, <2>6, Runs DEF n
<1>8. CASE n.pc = "unguarded"
  <2>1. n.late /\ n.updated = 0 /\ n.cmd.pinned \in 0..published
    BY <1>1, <1>8 DEF Bounds, Course, n
  <2>2. Stage(h) = "unguarded"
    BY <1>8 DEF Stage, n
  <2>3. GrantOf(h) = {} /\ GrantOf(h)' = {}
    BY <1>3, <1>4, <2>1 DEF GrantOf, n
  <2>4. v \in 0..published
    BY <1>1, <2>1 DEF v
  <2>5. QED
    BY <1>1, <1>2, <1>3, <1>5, <1>6, <2>2, <2>3, <2>4, Runs DEF n
<1>9. QED
  BY <1>1, <1>7, <1>8

-----------------------------------------------------------------------------
LEMMA InitPromises == Init => BInv /\ Promise!Init
<1> SUFFICES ASSUME Init PROVE BInv /\ Promise!Init
  OBVIOUS
<1>1. PICK s \in Starts : job = [h \in Hooks |-> NewJob(s.commands[h])] /\ published = s.published
  BY DEF Init
<1>2. published \in Nat /\ \A h \in Hooks : s.commands[h].pinned \in 0..published
  BY <1>1, SessionAssumption
<1>3. ASSUME NEW h \in Hooks
      PROVE  /\ job[h].pc = "read" /\ job[h].cmd = s.commands[h] /\ job[h].seen = 0
             /\ job[h].result = NoResult /\ job[h].installed = 0
  BY <1>1 DEF NewJob
<1>4. \A h \in Hooks : Bounds(h)
  BY <1>2, <1>3 DEF Bounds, NoResult
<1>5. \A h \in Hooks : Stage(h) = "waiting" /\ GrantOf(h) = {}
  BY <1>3, WorkingWaits DEF Working
<1>6. Promise!Init
  BY <1>2, <1>3, <1>5 DEF Promise!Init
<1>7. QED
  BY <1>2, <1>4, <1>6 DEF BInv

LEMMA NextPromises ==
    IInv /\ BInv /\ [Next]_vars => BInv' /\ [Promise!Next]_Promise!vars
<1> SUFFICES ASSUME IInv, BInv, [Next]_vars PROVE BInv' /\ [Promise!Next]_Promise!vars
  OBVIOUS
<1>1. ASSUME UNCHANGED <<job, published>> PROVE BInv' /\ UNCHANGED Promise!vars
  BY <1>1 DEF BInv, Bounds, Promise!vars, Stage, GrantOf, Permitted, Runtime
<1>2. CASE BeginWrite \/ EndWrite \/ CutWrite \/ UNCHANGED vars
  BY <1>1, <1>2 DEF BeginWrite, EndWrite, CutWrite, vars
<1>3. CASE Publish
  <2>1. job' = job /\ published' = published + 1 /\ published \in Nat
    BY <1>3 DEF Publish, BInv
  <2>2. BInv'
    BY <2>1 DEF BInv, Bounds
  <2>3. Promise!Publish
    BY <2>1 DEF Promise!Publish, Stage, GrantOf, Permitted, Runtime
  <2>4. QED
    BY <2>2, <2>3 DEF Promise!Next
<1>4. ASSUME NEW h \in Hooks, HookStep(h) \/ TimeOut(h) \/ AgentDecides(h) \/ Install(h)
      PROVE  BInv' /\ [Promise!Next]_Promise!vars
  <2>1. CASE PassThrough(h)
    BY <2>1, PassWaits DEF PassThrough, At, Working, file
  <2>2. CASE ReadHookInput(h) \/ LoadConfigAndProvider(h)
    BY <2>2, ReadOrLoadWaits DEF Promise!Next
  <2>3. CASE Judge(h)
    BY <2>3, JudgeWaits DEF Promise!Next
  <2>4. CASE Log(h)
    BY <2>4, LogWaits
  <2>5. CASE Answer(h)
    BY <2>5, AnswerSettles DEF Promise!Next
  <2>6. CASE TimeOut(h)
    BY <2>6, TimeOutEscapes DEF Promise!Next
  <2>7. CASE AgentDecides(h)
    BY <2>7, AgentSettles DEF Promise!Next
  <2>8. CASE Install(h)
    BY <2>8, InstallRuns DEF Promise!Next
  <2>9. QED
    BY <1>4, <2>1, <2>2, <2>3, <2>4, <2>5, <2>6, <2>7, <2>8 DEF HookStep
<1>5. QED
  BY <1>2, <1>3, <1>4 DEF Next

(* The program with its agent, its files and the registry implements Gate: *)
(* a barred command never runs, and a granted one installs what was        *)
(* granted or something published after the hook looked, unless its hook   *)
(* was stopped for its time (main.go:31-35, hooks.json:10).                *)
THEOREM GateKept == Spec => KeepsPromise
<1>1. Init /\ [][Next]_vars => Promise!Init /\ [][Promise!Next]_Promise!vars
  BY InitPromises, NextPromises, Initially, Kept, PTL
<1>2. QED
  BY <1>1, PTL DEF Spec, KeepsPromise, Promise!Spec

-----------------------------------------------------------------------------
(* What is known of an answer that allows: the version it is about was     *)
(* judged and allowed, or a scorer's word or the settings stand for it, or *)
(* nobody looks at such a command.                                         *)
Target(h) ==
    LET j == job[h] IN
    IF j.result.install # 0 THEN j.result.install
    ELSE IF j.cmd.pinned # 0 THEN j.cmd.pinned ELSE j.seen

Told(h, told) ==
    \/ job[h].cmd.name \in job[h].cfg.allowlist
    \/ told = "ALLOW"
    \/ told = "UNKNOWN" /\ ByMode(Request(h).cfg.unknown, Mode(h)) = "allow"
    \/ told \notin {"ALLOW", "ASK", "DENY"} /\ ByMode(Request(h).cfg.unavailable, Mode(h)) = "allow"

(* Nobody looks at it. *)
Unguarded(j) == j.cmd.tool # "Bash" \/ j.cmd.self \/ ~j.cfg.npm

(* The settings allow it without the provider. *)
Spared(h) ==
    \/ job[h].cmd.name \in job[h].cfg.allowlist
    \/ /\ job[h].cmd.name \notin job[h].cfg.denylist
       /\ ByMode(Request(h).cfg.unavailable, Mode(h)) = "allow"

Justified(h) ==
    LET j == job[h] IN
    /\ j.reach \in {"none", "available", "unavailable"}
    /\ j.pc \in {"read", "load", "evaluate"} => j.reach = "none"
    /\ j.reach # "none" => j.cmd.installs
    /\ j.reach = "none" /\ j.result.kind = "answer" /\ j.cmd.installs => Unguarded(j)
    /\ j.reach = "unavailable" /\ j.result.decision = "allow" =>
          Spared(h) /\ j.result.install = 0
    /\ j.reach = "available" /\ j.result.decision = "allow" =>
          \/ j.provider = "socket" /\ Decide(Request(h), Releases[Target(h)]) = "allow"
          \/ /\ j.provider # "socket" /\ j.cmd.pinned # 0 /\ j.result.install = 0
             /\ Told(h, j.told)
    /\ j.pc = "ran" /\ j.reach # "none" /\ ~j.late =>
          /\ j.updated = j.result.install
          /\ \/ j.installed = Target(h)
             \/ j.updated = 0 /\ j.cmd.pinned = 0 /\ j.installed > j.seen

JInv == \A h \in Hooks : Justified(h)

(* Of a list a candidate that is selected and allowed was judged so.       *)
LEMMA BestIsJudged ==
    ASSUME NEW r, NEW list, DOMAIN list \subseteq Nat,
           Best(r, list).kind = "selected", Best(r, list).decision = "allow"
    PROVE  /\ Best(r, list).index \in DOMAIN list
           /\ Decide(r, list[Best(r, list).index]) = "allow"
<1> DEFINE allowed == Judged(r, list, "allow")
           asked == Judged(r, list, "ask")
           pick == IF allowed # {} THEN Newest(allowed) ELSE Newest(asked)
<1>1. allowed \subseteq DOMAIN list /\ asked \subseteq DOMAIN list
  BY DEF Judged, Live
<1>2. allowed # {} \/ asked # {}
  BY DEF Best, Failed
<1>3. Best(r, list).index = pick /\ Best(r, list).decision = Decide(r, list[pick])
  BY <1>2 DEF Best, Selected
<1> HIDE DEF allowed, asked
<1>4. pick \in DOMAIN list
  <2>1. allowed \in SUBSET Nat /\ asked \in SUBSET Nat
    BY <1>1
  <2>2. CASE allowed # {}
    BY <1>1, <2>1, <2>2, NewestInSet
  <2>3. CASE allowed = {}
    BY <1>1, <1>2, <2>1, <2>3, NewestInSet
  <2>4. QED
    BY <2>2, <2>3
<1> HIDE DEF pick
<1>5. QED
  BY <1>3, <1>4

(* The evidence of a scorer that is allowed.                               *)
LEMMA VerdictIsTold ==
    ASSUME NEW h, NEW end, NEW response,
           Decide(Request(h), Verdict(GetPackageScore(end, response))) = "allow"
    PROVE  Told(h, IF end = "read" THEN response.decision ELSE "none")
<1> DEFINE r == Request(h)
           verdict == GetPackageScore(end, response)
           told == IF end = "read" THEN response.decision ELSE "none"
<1>1. r.cfg.allowlist = job[h].cfg.allowlist /\ r.name = job[h].cmd.name /\ r.mode = Mode(h)
  BY DEF Request, PolicyOf
<1> HIDE DEF r
<1>2. \/ r.name \in r.cfg.allowlist
      \/ EvaluateEvidence(r.cfg, r.mode, VerdictEvidence(verdict)) = "allow"
  BY DEF Decide, PolicyDecision, Verdict, r
<1>3. verdict \in {"ALLOW", "ASK", "DENY", "UNKNOWN", "OUTAGE"}
  BY DEF GetPackageScore, VersionInfoFromResponse
<1>4. CASE r.name \in r.cfg.allowlist
  BY <1>1, <1>4 DEF Told
<1>5. CASE EvaluateEvidence(r.cfg, r.mode, VerdictEvidence(verdict)) = "allow"
  <2>1. EvaluateProviderVerdict(r.cfg, r.mode, VerdictEvidence(verdict)) = "allow"
    BY <1>3, <1>5 DEF EvaluateEvidence, VerdictEvidence
  <2>2. verdict \in {"ALLOW", "UNKNOWN", "OUTAGE"}
    BY <1>3, <2>1 DEF EvaluateProviderVerdict, VerdictEvidence
  <2>3. CASE verdict = "ALLOW"
    <3>1. told = "ALLOW"
      BY <2>3 DEF GetPackageScore, VersionInfoFromResponse
    <3>2. QED
      BY <3>1 DEF Told
  <2>4. CASE verdict = "UNKNOWN"
    <3>1. told = "UNKNOWN"
      BY <2>4 DEF GetPackageScore, VersionInfoFromResponse
    <3>2. ByMode(r.cfg.unknown, r.mode) = "allow"
      BY <2>1, <2>4 DEF EvaluateProviderVerdict, VerdictEvidence, HandleUnknownVerdict,
                        ConfiguredDecision
    <3>3. QED
      BY <1>1, <3>1, <3>2 DEF Told, r
  <2>5. CASE verdict = "OUTAGE"
    <3>1. told \notin {"ALLOW", "ASK", "DENY"}
      BY <2>5 DEF GetPackageScore, VersionInfoFromResponse
    <3>2. ByMode(r.cfg.unavailable, r.mode) = "allow"
      BY <2>1, <2>5 DEF EvaluateProviderVerdict, VerdictEvidence, HandleUnknownVerdict,
                        HandleProviderUnavailable, ConfiguredDecision
    <3>3. QED
      BY <1>1, <3>1, <3>2 DEF Told, r
  <2>6. QED
    BY <2>2, <2>3, <2>4, <2>5
<1>6. QED
  BY <1>2, <1>4, <1>5

(* The mock provider, which nobody has given any data, answers nothing.    *)
LEMMA MockFails ==
    ASSUME NEW h \in Hooks, NEW exchange \in Exchanges(h), job[h].provider = "mock"
    PROVE  exchange.reply.kind = "error"
<1>1. exchange \in {NotOk(ProviderError)}
  BY DEF Exchanges
<1>2. QED
  BY <1>1 DEF NotOk, ProviderError

(* An evaluation that ends in "allow" is about a version that was judged.  *)
LEMMA AllowedAnswer ==
    ASSUME published \in Nat, NEW h \in Hooks, NEW exchange \in Exchanges(h), NEW direct,
           AnswerOne(Request(h), TRUE, exchange.reply, direct).kind # "error",
           AnswerOne(Request(h), TRUE, exchange.reply, direct).decision = "allow"
    PROVE  LET install == AnswerOne(Request(h), TRUE, exchange.reply, direct).install
               target == IF install # 0 THEN published + 1 - install
                         ELSE IF job[h].cmd.pinned # 0 THEN job[h].cmd.pinned ELSE published
           IN \/ job[h].provider = "socket" /\ Decide(Request(h), Releases[target]) = "allow"
              \/ /\ job[h].provider # "socket" /\ job[h].cmd.pinned # 0 /\ install = 0
                 /\ Told(h, exchange.told)
<1> DEFINE r == Request(h)
           reply == exchange.reply
           out == Promised(r, reply)
           answer == AnswerOne(r, TRUE, reply, direct)
           pinned == job[h].cmd.pinned
<1>1. r.pinned = (pinned # 0)
  BY DEF Request
<1>2. out.kind = "selected" /\ answer = AnswerSelected(r, out, direct)
  <2>1. out.kind \in {"error", "unsupported", "failed", "selected"}
    BY DEF Promised, UnsupportedSource, Failed, SelectError, Selected, Best
  <2> HIDE DEF r, reply, out
  <2>2. out.kind # "error" /\ out.kind # "unsupported" /\ out.kind # "failed"
    BY DEF AnswerOne, r, reply, out
  <2>3. QED
    BY <2>1, <2>2 DEF AnswerOne, out
<1> HIDE DEF r, out
<1>3. /\ out.decision = "allow"
      /\ answer.install = IF WasRewritten(out) /\ direct THEN out.index ELSE 0
      /\ WasRewritten(out) => direct
  <2>1. answer.decision = "allow"
    BY DEF r
  <2>2. /\ answer.install = IF WasRewritten(out) /\ direct THEN out.index ELSE 0
        /\ answer.decision = IF WasRewritten(out) /\ ~(direct /\ ShouldAutoRewrite(r.cfg, r.mode))
                             THEN WorseDecision(out.decision, "ask") ELSE out.decision
    <3> HIDE DEF answer, reply
    <3>1. QED
      BY <1>2 DEF AnswerSelected
  <2> HIDE DEF answer
  <2>3. WorseDecision(out.decision, "ask") # "allow"
    BY DEF WorseDecision, Rank
  <2>4. QED
    BY <2>1, <2>2, <2>3
<1>4. reply.kind # "unsupported" /\ reply.kind # "error"
  BY <1>2 DEF out, Promised, UnsupportedSource, Failed, SelectError
<1>5. CASE pinned # 0
  <2>1. out = Selected(1, Decide(r, reply.list[1]), 0)
    BY <1>1, <1>4, <1>5 DEF out, Promised
  <2>2. Decide(r, reply.list[1]) = "allow" /\ answer.install = 0
    <3> HIDE DEF answer, reply
    <3>1. QED
      BY <1>3, <2>1 DEF Selected, WasRewritten
  <2>3. CASE job[h].provider = "socket"
    <3>1. exchange \in {NotOk(ProviderError), NotOk(Unsupported),
                        Ok(<<Releases[pinned]>>, "none")}
      BY <1>5, <2>3 DEF Exchanges
    <3>2. reply.list[1] = Releases[pinned]
      BY <1>4, <3>1 DEF NotOk, Ok, ProviderError, Unsupported
    <3>3. QED
      BY <1>5, <2>2, <2>3, <3>2 DEF r
  <2>4. CASE job[h].provider # "socket"
    <3> DEFINE ends == IF job[h].provider = "open-score-local" THEN LocalEnds ELSE RemoteEnds
    <3>a. job[h].provider # "mock"
      BY <1>4, MockFails
    <3>0. Exchanges(h) = {Ok(<<Verdict(GetPackageScore(end, response))>>,
                             IF end = "read" THEN response.decision ELSE "none") :
                             end \in ends, response \in Responses}
      BY <1>5, <2>4, <3>a DEF Exchanges
    <3> HIDE DEF ends
    <3>1. PICK end \in ends, response \in Responses :
             exchange = Ok(<<Verdict(GetPackageScore(end, response))>>,
                           IF end = "read" THEN response.decision ELSE "none")
      BY <3>0
    <3>2. /\ reply.list[1] = Verdict(GetPackageScore(end, response))
          /\ exchange.told = IF end = "read" THEN response.decision ELSE "none"
      BY <3>1 DEF Ok
    <3>3. Told(h, exchange.told)
      BY <2>2, <3>2, VerdictIsTold DEF r
    <3>4. QED
      BY <1>5, <2>2, <2>4, <3>3 DEF r
  <2>5. QED
    BY <2>3, <2>4
<1>6. CASE pinned = 0
  <2>1. job[h].provider = "socket" /\ reply.list = Listed
    <3>1. CASE job[h].provider = "socket"
      <4>1. exchange \in {NotOk(ProviderError), NotOk(Unsupported), Ok(Listed, "none")}
        BY <1>6, <3>1 DEF Exchanges
      <4>2. QED
        BY <1>4, <3>1, <4>1 DEF NotOk, Ok, ProviderError, Unsupported
    <3>2. CASE job[h].provider # "socket"
      <4>1. exchange \in {NotOk(ProviderError), NotOk(Unsupported)}
        BY <1>6, <3>2 DEF Exchanges
      <4>2. QED
        BY <1>4, <4>1 DEF NotOk, ProviderError, Unsupported
    <3>3. QED
      BY <3>1, <3>2
  <2>2. out = Best(r, Listed)
    BY <1>1, <1>4, <1>6, <2>1 DEF out, Promised
  <2>3. DOMAIN Listed = 1..published
    BY DEF Listed
  <2>4. out.index \in 1..published /\ Decide(r, Listed[out.index]) = "allow"
    BY <1>2, <1>3, <2>2, <2>3, BestIsJudged
  <2>5. Listed[out.index] = Releases[published + 1 - out.index]
    BY <2>4 DEF Listed
  <2>6. published + 1 - out.index
           = IF answer.install # 0 THEN published + 1 - answer.install ELSE published
    <3> HIDE DEF answer
    <3>1. CASE WasRewritten(out)
      BY <1>3, <2>4, <3>1
    <3>2. CASE ~WasRewritten(out)
      BY <1>2, <1>3, <2>4, <3>2 DEF WasRewritten
    <3>3. QED
      BY <3>1, <3>2
  <2>7. QED
    BY <1>6, <2>1, <2>4, <2>5, <2>6 DEF r
<1>7. QED
  BY <1>5, <1>6

(* A step of one hook leaves what is known of the others alone.            *)
LEMMA OneJustified ==
    ASSUME IInv, JInv, NEW h \in Hooks, NEW j, Put(h, j), UNCHANGED fixed, Justified(h)'
    PROVE  JInv'
<1>1. \A g \in Hooks \ {h} : job'[g] = job[g]
  BY OthersStay
<1>2. env' = env
  BY DEF fixed
<1>3. ASSUME NEW g \in Hooks, g # h PROVE Justified(g)'
  BY <1>1, <1>2, <1>3 DEF JInv, Justified, Request, Target, Told, Spared, Unguarded, Mode, Runtime,
                           DetectMode
<1>4. QED
  BY <1>3 DEF JInv

(* What nobody has looked at is answered only where nobody looks.          *)
LEMMA UnjudgedIsJustified ==
    ASSUME IInv, JInv, NEW h \in Hooks, NEW j, Put(h, j), UNCHANGED fixed, j.reach = "none",
           j.result.kind = "answer" /\ j.cmd.installs => Unguarded(j)
    PROVE  JInv'
<1>1. job'[h] = j
  BY OthersStay
<1>2. Justified(h)'
  BY <1>1 DEF Justified
<1>3. QED
  BY <1>2, OneJustified

(* Nor does a step that finds nothing new out.                             *)
LEMMA SameIsJustified ==
    ASSUME IInv, JInv, NEW h \in Hooks, NEW j, Put(h, j), UNCHANGED fixed,
           j.reach = job[h].reach, j.cmd = job[h].cmd, j.cfg = job[h].cfg,
           j.provider = job[h].provider, j.told = job[h].told, j.result = job[h].result,
           j.seen = job[h].seen, j.pc \notin {"read", "load", "evaluate"},
           j.pc = "ran" /\ j.reach # "none" /\ ~j.late =>
              /\ j.updated = j.result.install
              /\ \/ j.installed = Target(h)
                 \/ j.updated = 0 /\ j.cmd.pinned = 0 /\ j.installed > j.seen
    PROVE  JInv'
<1>1. job'[h] = j /\ env' = env
  BY OthersStay DEF fixed
<1>2. Request(h)' = Request(h) /\ Mode(h)' = Mode(h) /\ Target(h)' = Target(h)
  BY <1>1 DEF Request, Mode, Runtime, DetectMode, Target
<1>3. Told(h, job[h].told)' = Told(h, job[h].told) /\ Spared(h)' = Spared(h)
  BY <1>1, <1>2 DEF Told, Spared
<1>4. Justified(h)'
  BY <1>1, <1>2, <1>3 DEF JInv, Justified, Unguarded
<1>5. QED
  BY <1>4, OneJustified

LEMMA BeforeIsJustified ==
    ASSUME IInv, JInv, NEW h \in Hooks,
           ReadHookInput(h) \/ LoadConfigAndProvider(h) \/ PassThrough(h) \/ TimeOut(h)
    PROVE  JInv'
<1> DEFINE n == job[h]
<1>1. IsJob(n) /\ UNCHANGED fixed
  BY DEF IInv, Shape, ReadHookInput, LoadConfigAndProvider, PassThrough, TimeOut
<1>2. ASSUME Fail(h) PROVE JInv'
  <2> DEFINE m == NewJob(job[h].cmd)
             j == [m EXCEPT !.pc = "exited", !.code = FailureCode(h)]
  <2>1. IsJob(m) /\ m.reach = "none" /\ m.result.kind = "none"
    BY NewIsJob DEF NewJob, NoResult
  <2>2. Put(h, j)
    BY <1>2 DEF Fail
  <2> HIDE DEF m
  <2>3. j.reach = "none" /\ j.result.kind = "none"
    BY <2>1 DEF IsJob
  <2> HIDE DEF j
  <2>4. QED
    BY <1>1, <2>2, <2>3, UnjudgedIsJustified
<1>3. CASE TimeOut(h)
  <2> DEFINE m == NewJob(job[h].cmd)
             j == [m EXCEPT !.pc = "unguarded", !.late = TRUE]
  <2>1. IsJob(m) /\ m.reach = "none" /\ m.result.kind = "none"
    BY NewIsJob DEF NewJob, NoResult
  <2>2. Put(h, j)
    BY <1>3 DEF TimeOut
  <2> HIDE DEF m
  <2>3. j.reach = "none" /\ j.result.kind = "none"
    BY <2>1 DEF IsJob
  <2> HIDE DEF j
  <2>4. QED
    BY <1>1, <2>2, <2>3, UnjudgedIsJustified
<1>4. ASSUME n.reach = "none", Pass(h), n.cmd.installs => Unguarded(n) PROVE JInv'
  <2> DEFINE j == [n EXCEPT !.pc = "answer", !.result = Decided("allow"), !.seen = published]
  <2>1. Put(h, j)
    BY <1>4 DEF Pass
  <2> HIDE DEF n
  <2>2. j.reach = "none" /\ (j.cmd.installs => Unguarded(j))
    BY <1>1, <1>4 DEF IsJob, Unguarded
  <2> HIDE DEF j
  <2>3. QED
    BY <1>1, <2>1, <2>2, UnjudgedIsJustified
<1>5. ASSUME n.reach = "none", n.result = NoResult, Put(h, [n EXCEPT !.pc = "load"]) PROVE JInv'
  <2> DEFINE j == [n EXCEPT !.pc = "load"]
  <2> HIDE DEF n
  <2>1. j.reach = "none" /\ j.result.kind = "none"
    BY <1>1, <1>5 DEF IsJob, NoResult
  <2> HIDE DEF j
  <2>2. QED
    BY <1>1, <1>5, <2>1, UnjudgedIsJustified DEF j
<1>6. ASSUME n.reach = "none", n.result = NoResult, NEW cfg, NEW provider,
             Put(h, [n EXCEPT !.pc = "evaluate", !.cfg = cfg,
                              !.fromClean = clean, !.provider = provider])
      PROVE  JInv'
  <2> DEFINE j == [n EXCEPT !.pc = "evaluate", !.cfg = cfg,
                            !.fromClean = clean, !.provider = provider]
  <2> HIDE DEF n
  <2>1. j.reach = "none" /\ j.result.kind = "none"
    BY <1>1, <1>6 DEF IsJob, NoResult
  <2> HIDE DEF j
  <2>2. QED
    BY <1>1, <1>6, <2>1, UnjudgedIsJustified DEF j
<1>7. n.pc \in {"read", "load", "evaluate"} => n.reach = "none" /\ n.result = NoResult
  BY DEF JInv, Justified, IInv, Course
<1>8. CASE ReadHookInput(h)
  BY <1>2, <1>4, <1>5, <1>7, <1>8 DEF ReadHookInput, At, Unguarded
<1>9. CASE LoadConfigAndProvider(h)
  BY <1>2, <1>6, <1>7, <1>9 DEF LoadConfigAndProvider, At
<1>10. CASE PassThrough(h)
  BY <1>4, <1>7, <1>10 DEF PassThrough, At, Unguarded
<1>11. QED
  BY <1>3, <1>8, <1>9, <1>10

(* Without the provider an answer that allows is the settings' own.        *)
LEMMA UnseenIsSpared ==
    ASSUME NEW h \in Hooks, NEW reply, NEW direct,
           AnswerOne(Request(h), FALSE, reply, direct).decision = "allow"
    PROVE  Spared(h) /\ AnswerOne(Request(h), FALSE, reply, direct).install = 0
<1> DEFINE r == Request(h)
           unseen == [sc |-> 0, ov |-> 0, verdict |-> "none", alerts |-> {}, age |-> NoDate]
<1>1. /\ r.cfg.allowlist = job[h].cfg.allowlist /\ r.cfg.denylist = job[h].cfg.denylist
      /\ r.name = job[h].cmd.name /\ r.mode = Mode(h)
  BY DEF Request, PolicyOf
<1> HIDE DEF r
<1> DEFINE answer == AnswerOne(r, FALSE, reply, direct)
           decision == PolicyDecision(r.cfg, r.name, r.mode, FALSE, unseen)
<1>2. answer = [kind |-> "answer", decision |-> decision, install |-> 0]
  BY DEF AnswerOne
<1>3. answer.decision = "allow"
  BY DEF r
<1>4. AnswerOne(Request(h), FALSE, reply, direct) = answer
  BY DEF r
<1> HIDE DEF answer, unseen
<1>5. decision = "allow" /\ answer.install = 0
  <2> HIDE DEF decision
  <2>1. QED
    BY <1>2, <1>3
<1>6. \/ r.name \in r.cfg.allowlist
      \/ r.name \notin r.cfg.denylist /\ HandleProviderUnavailable(r.cfg, r.mode) = "allow"
  BY <1>5 DEF PolicyDecision
<1>7. HandleProviderUnavailable(r.cfg, r.mode) = "allow" =>
         ByMode(r.cfg.unavailable, r.mode) = "allow"
  BY DEF HandleProviderUnavailable, ConfiguredDecision
<1>8. Spared(h)
  BY <1>1, <1>6, <1>7 DEF Spared, r
<1>9. QED
  BY <1>4, <1>5, <1>8

LEMMA JudgeJustifies ==
    ASSUME IInv, BInv, JInv, NEW h \in Hooks, Judge(h)
    PROVE  JInv'
<1> DEFINE n == job[h]
<1>1. IsJob(n) /\ UNCHANGED fixed /\ published \in Nat /\ n.cmd.installs
  BY DEF IInv, Shape, Judge, BInv
<1>2. CASE Fail(h)
  <2> DEFINE m == NewJob(job[h].cmd)
             j == [m EXCEPT !.pc = "exited", !.code = FailureCode(h)]
  <2>1. IsJob(m) /\ m.reach = "none" /\ m.result.kind = "none"
    BY NewIsJob DEF NewJob, NoResult
  <2>2. Put(h, j)
    BY <1>2 DEF Fail
  <2> HIDE DEF m
  <2>3. j.reach = "none" /\ j.result.kind = "none"
    BY <2>1 DEF IsJob
  <2> HIDE DEF j
  <2>4. QED
    BY <1>1, <2>2, <2>3, UnjudgedIsJustified
<1>3. PICK available \in IsAvailable(job[h].provider), exchange \in Exchanges(h) :
         LET answer == AnswerOne(Request(h), available, exchange.reply, job[h].cmd.direct)
             version == IF answer.install = 0 THEN 0 ELSE published + 1 - answer.install
         IN IF answer.kind = "error" THEN Fail(h)
            ELSE Put(h, [job[h] EXCEPT
                            !.pc = "log", !.reach = Reach(available), !.seen = published,
                            !.told = IF available THEN exchange.told ELSE "none",
                            !.result = [answer EXCEPT !.install = version],
                            !.unwritten = <<"entry", "newline">>])
  BY DEF Judge
<1>4. available \in BOOLEAN
  BY <1>3 DEF IsAvailable
<1> DEFINE answer == AnswerOne(Request(h), available, exchange.reply, job[h].cmd.direct)
           version == IF answer.install = 0 THEN 0 ELSE published + 1 - answer.install
           told == IF available THEN exchange.told ELSE "none"
           result == [answer EXCEPT !.install = version]
           text == <<"entry", "newline">>
           j == [n EXCEPT !.pc = "log", !.reach = Reach(available), !.seen = published,
                          !.told = told, !.result = result, !.unwritten = text]
<1>5. CASE answer.kind = "error"
  BY <1>2, <1>3, <1>5
<1>6. CASE answer.kind # "error"
  <2>1. Put(h, j)
    BY <1>3, <1>6
  <2>2. answer \in [kind : {"answer"}, decision : Decisions, install : {answer.install}]
        /\ answer.install \in 0..published
    BY <1>1, <1>4, <1>6, AnswerOneType, InstallIsPublished
  <2>3. available /\ answer.decision = "allow" =>
           LET target == IF answer.install # 0 THEN published + 1 - answer.install
                         ELSE IF job[h].cmd.pinned # 0 THEN job[h].cmd.pinned ELSE published
           IN \/ job[h].provider = "socket" /\ Decide(Request(h), Releases[target]) = "allow"
              \/ /\ job[h].provider # "socket" /\ job[h].cmd.pinned # 0 /\ answer.install = 0
                 /\ Told(h, exchange.told)
    <3>1. CASE available = TRUE
      BY <1>1, <1>6, <3>1, AllowedAnswer
    <3>2. QED
      BY <1>4, <3>1
  <2>3a. ~available /\ answer.decision = "allow" => Spared(h) /\ answer.install = 0
    BY <1>4, UnseenIsSpared
  <2> HIDE DEF answer
  <2>4. result.install = version /\ result.decision = answer.decision
        /\ result.kind = "answer"
    BY <2>2
  <2>5. version = 0 <=> answer.install = 0
    BY <1>1, <2>2
  <2>6. available => told = exchange.told
    OBVIOUS
  <2> HIDE DEF n, result, text, told
  <2>7. /\ j.pc = "log" /\ j.cmd = n.cmd /\ j.cfg = n.cfg /\ j.provider = n.provider
        /\ j.seen = published /\ j.result = result /\ j.reach = Reach(available) /\ j.told = told
    BY <1>1 DEF IsJob
  <2> HIDE DEF j
  <2>8. job'[h] = j /\ env' = env
    BY <1>1, <2>1, OthersStay DEF fixed
  <2>9. Request(h)' = Request(h) /\ Mode(h)' = Mode(h)
    BY <2>7, <2>8 DEF Request, Mode, Runtime, DetectMode, n
  <2>10. Told(h, told)' = Told(h, told) /\ Spared(h)' = Spared(h)
    BY <2>7, <2>8, <2>9 DEF Told, Spared, n
  <2>11. Target(h)' = IF answer.install # 0 THEN published + 1 - answer.install
                      ELSE IF job[h].cmd.pinned # 0 THEN job[h].cmd.pinned ELSE published
    BY <2>4, <2>5, <2>7, <2>8 DEF Target, n
  <2>12. j.reach = "available" /\ j.result.decision = "allow" =>
            \/ /\ job'[h].provider = "socket"
               /\ Decide(Request(h)', Releases[Target(h)']) = "allow"
            \/ /\ job'[h].provider # "socket" /\ job'[h].cmd.pinned # 0
               /\ job'[h].result.install = 0 /\ Told(h, told)'
    <3> HIDE DEF version
    <3>1. QED
      BY <2>3, <2>4, <2>5, <2>6, <2>7, <2>8, <2>9, <2>10, <2>11 DEF n, Reach
  <2>12a. j.reach = "unavailable" /\ j.result.decision = "allow" =>
             Spared(h)' /\ job'[h].result.install = 0
    BY <2>3a, <2>4, <2>5, <2>7, <2>8, <2>10 DEF Reach
  <2>12b. j.reach \in {"available", "unavailable"}
    BY <2>7 DEF Reach
  <2>13. Decide(Request(h)', Releases[Target(h)']) = Decide(Request(h), Releases[Target(h)])'
    BY DEF Decide
  <2>14. Justified(h)'
    BY <1>1, <2>7, <2>8, <2>12, <2>12a, <2>12b, <2>13 DEF Justified, n
  <2>15. QED
    BY <1>1, <2>1, <2>14, OneJustified
<1>7. QED
  BY <1>5, <1>6

LEMMA AfterIsJustified ==
    ASSUME IInv, BInv, JInv, NEW h \in Hooks, Log(h) \/ Answer(h) \/ AgentDecides(h)
    PROVE  JInv'
<1> DEFINE n == job[h]
           output == FormatHookOutput(h, n.result)
<1>1. IsJob(n) /\ UNCHANGED fixed
  BY DEF IInv, Shape, Log, Answer, AgentDecides
<1>2. PICK j : /\ Put(h, j)
               /\ j \in {[n EXCEPT !.pc = "answer", !.unwritten = <<>>],
                         [n EXCEPT !.pc = "answer", !.unlogged = TRUE],
                         [n EXCEPT !.pc = "exited", !.permission = output.permission,
                                   !.updated = output.updated],
                         [n EXCEPT !.pc = "refused"], [n EXCEPT !.pc = "granted"],
                         [n EXCEPT !.pc = "granted", !.asked = TRUE]}
  <2>1. CASE Log(h)
    BY <2>1 DEF Log
  <2>2. CASE Answer(h)
    BY <2>2 DEF Answer
  <2>3. CASE AgentDecides(h)
    BY <2>3 DEF AgentDecides, Refuse, Permit, PermitAsked
  <2>4. QED
    BY <2>1, <2>2, <2>3
<1> HIDE DEF n, output
<1>3. /\ j.reach = n.reach /\ j.cmd = n.cmd /\ j.cfg = n.cfg /\ j.provider = n.provider
      /\ j.told = n.told /\ j.result = n.result /\ j.seen = n.seen
      /\ j.pc \notin {"read", "load", "evaluate", "ran"}
  <2>1. CASE j = [n EXCEPT !.pc = "answer", !.unwritten = <<>>]
    BY <1>1, <2>1 DEF IsJob
  <2>2. CASE j = [n EXCEPT !.pc = "answer", !.unlogged = TRUE]
    BY <1>1, <2>2 DEF IsJob
  <2>3. CASE j = [n EXCEPT !.pc = "exited", !.permission = output.permission,
                           !.updated = output.updated]
    BY <1>1, <2>3 DEF IsJob
  <2>4. CASE j \in {[n EXCEPT !.pc = "refused"], [n EXCEPT !.pc = "granted"],
                    [n EXCEPT !.pc = "granted", !.asked = TRUE]}
    BY <1>1, <2>4 DEF IsJob
  <2>5. QED
    BY <1>2, <2>1, <2>2, <2>3, <2>4
<1>4. QED
  BY <1>1, <1>2, <1>3, SameIsJustified DEF n

LEMMA InstallJustified ==
    ASSUME IInv, BInv, JInv, NEW h \in Hooks, Install(h)
    PROVE  JInv'
<1> DEFINE n == job[h]
           exact == IF n.updated # 0 THEN n.updated ELSE n.cmd.pinned
           version == IF exact # 0 THEN exact ELSE published
           v == IF n.cmd.installs THEN version ELSE 0
           j == [n EXCEPT !.pc = "ran", !.installed = v]
<1>1. /\ IsJob(n) /\ UNCHANGED fixed /\ Course(h) /\ Bounds(h) /\ Justified(h)
      /\ n.pc \in {"granted", "unguarded"} /\ published \in Nat
  BY DEF IInv, Shape, Install, BInv, JInv
<1>2. Put(h, j)
  BY DEF Install
<1> HIDE DEF n, v
<1>3. /\ j.reach = n.reach /\ j.cmd = n.cmd /\ j.cfg = n.cfg /\ j.provider = n.provider
      /\ j.told = n.told /\ j.result = n.result /\ j.seen = n.seen /\ j.updated = n.updated
      /\ j.late = n.late /\ j.installed = v /\ j.pc = "ran"
  BY <1>1 DEF IsJob
<1> HIDE DEF j
<1>4. ASSUME n.reach # "none", ~n.late
      PROVE  /\ n.updated = n.result.install
             /\ v = Target(h) \/ (n.updated = 0 /\ n.cmd.pinned = 0 /\ v > n.seen)
  <2>1. n.cmd.installs /\ n.updated = n.result.install /\ n.seen \in 0..published
    BY <1>1, <1>4 DEF Justified, Bounds, Course, n
  <2>2. QED
    BY <1>1, <2>1 DEF v, Target, n
<1>5. QED
  BY <1>1, <1>2, <1>3, <1>4, SameIsJustified DEF n

LEMMA JustificationKept == IInv /\ BInv /\ JInv /\ [Next]_vars => JInv'
<1> SUFFICES ASSUME IInv, BInv, JInv, [Next]_vars PROVE JInv'
  OBVIOUS
<1>1. CASE Publish \/ BeginWrite \/ EndWrite \/ CutWrite \/ UNCHANGED vars
  <2>1. job' = job /\ env' = env
    BY <1>1 DEF Publish, BeginWrite, EndWrite, CutWrite, vars, fixed
  <2>2. QED
    BY <2>1 DEF JInv, Justified, Request, Target, Told, Spared, Unguarded, Mode, Runtime,
                           DetectMode
<1>2. ASSUME NEW h \in Hooks, HookStep(h) PROVE JInv'
  BY <1>2, BeforeIsJustified, JudgeJustifies, AfterIsJustified DEF HookStep
<1>3. QED
  BY <1>1, <1>2, BeforeIsJustified, AfterIsJustified, InstallJustified DEF Next

(* Whatever a hook that ran to its end lets install unasked was judged and *)
(* allowed under the configuration of that hook, or is newer than what it  *)
(* saw, or the settings allow it without the provider, or it is one of the *)
(* three things that nobody looks at: for any number of versions, of files *)
(* and of writings, and whatever a scorer says (evaluate.go:42-264).       *)
THEOREM UnaskedIsJudged == Spec => []AllowedInstallsAreJudged
<1>1. Init => BInv /\ JInv
  <2> SUFFICES ASSUME Init PROVE BInv /\ JInv
    OBVIOUS
  <2>1. BInv
    BY InitPromises
  <2>2. PICK s \in Starts : job = [h \in Hooks |-> NewJob(s.commands[h])]
    BY DEF Init
  <2>3. \A h \in Hooks : job[h].reach = "none" /\ job[h].result.kind = "none"
    BY <2>2 DEF NewJob, NoResult
  <2>4. QED
    BY <2>1, <2>3 DEF JInv, Justified
<1>2. IInv /\ BInv /\ JInv => AllowedInstallsAreJudged
  <2> SUFFICES ASSUME IInv, BInv, JInv, NEW h \in Hooks, job[h].pc = "ran",
                      job[h].cmd.installs, ~job[h].asked, ~job[h].late
               PROVE  LET j == job[h] IN
          \/ j.reach = "none" /\ (j.cmd.tool # "Bash" \/ j.cmd.self \/ ~j.cfg.npm)
          \/ /\ j.reach = "unavailable" /\ j.updated = 0
             /\ \/ j.cmd.name \in j.cfg.allowlist
                \/ /\ j.cmd.name \notin j.cfg.denylist
                   /\ ByMode(Request(h).cfg.unavailable, Mode(h)) = "allow"
          \/ /\ j.reach = "available" /\ j.provider = "socket"
             /\ Decide(Request(h), Releases[j.installed]) = "allow"
          \/ /\ j.reach = "available" /\ j.provider # "socket" /\ j.installed = j.cmd.pinned
             /\ \/ j.cmd.name \in j.cfg.allowlist
                \/ j.told = "ALLOW"
                \/ j.told = "UNKNOWN" /\ ByMode(Request(h).cfg.unknown, Mode(h)) = "allow"
                \/ /\ j.told \notin {"ALLOW", "ASK", "DENY"}
                   /\ ByMode(Request(h).cfg.unavailable, Mode(h)) = "allow"
          \/ /\ j.reach = "available" /\ j.updated = 0 /\ j.cmd.pinned = 0
             /\ j.installed > j.seen
    BY DEF AllowedInstallsAreJudged
  <2>1. job[h].result.decision = "allow" /\ job[h].result.kind = "answer"
    BY DEF IInv, Course, Permitted
  <2>2. Justified(h)
    BY DEF JInv
  <2>3. CASE job[h].reach = "none"
    BY <2>1, <2>2, <2>3 DEF Justified, Unguarded
  <2>4. CASE job[h].reach = "unavailable"
    BY <2>1, <2>2, <2>4 DEF Justified, Spared
  <2>5. CASE job[h].reach = "available"
    BY <2>1, <2>2, <2>5 DEF Justified, Told, Target
  <2>6. QED
    BY <2>2, <2>3, <2>4, <2>5 DEF Justified
<1>3. IInv /\ BInv /\ [Next]_vars => BInv'
  BY NextPromises
<1>4. QED
  BY <1>1, <1>2, <1>3, JustificationKept, Invariance, PTL DEF Spec

-----------------------------------------------------------------------------
(* The configuration: each hook decides by one edition of the user's file  *)
(* and sends its requests nowhere but to a usable endpoint.                *)

(* No HTTP provider is built with an endpoint that is no usable URL or with *)
(* a negative timeout.                                                     *)
LEMMA ProviderIsUsable ==
    LET cfg == Load(env, plugin, user, local).cfg IN
    NewProvider(cfg, env) \in {"open-score-http", "platform"} =>
       cfg.endpoint \notin {"", "bad"} /\ \A t \in cfg.timeout : t >= 0
<1> DEFINE cfg == Load(env, plugin, user, local).cfg
           usable == cfg.endpoint \notin {"", "bad"} /\ \A t \in cfg.timeout : t >= 0
<1>1. CASE ~usable
  <2> HIDE DEF usable
  <2>1. NewProvider(cfg, env) \in {"socket", "unavailable", "open-score-local", "mock", "error"}
    <3> HIDE DEF cfg
    <3>1. QED
      BY <1>1 DEF NewProvider, usable
  <2>2. QED
    BY <2>1
<1>2. QED
  BY <1>1

(* A setting that no variable overrides is left as the files have it.      *)
LEMMA NotOverridden ==
    ASSUME NEW cfg, DOMAIN cfg = Settings, NEW s \in Settings \ Overridden
    PROVE  ApplyEnvOverrides(cfg, env)[s] = cfg[s]
<1> DEFINE logged == IF env.logPath # "" THEN [cfg EXCEPT !.logPath = env.logPath] ELSE cfg
           kinded == IF env.provider # "" THEN [logged EXCEPT !.kind = env.provider] ELSE logged
           hosted == IF env.endpoint # ""
                     THEN [kinded EXCEPT !.kind = "open-score", !.endpoint = env.endpoint,
                                         !.tokenEnv = "ATTACH_OPEN_SCORE_API_TOKEN"]
                     ELSE kinded
           named == IF env.bin # ""
                    THEN [hosted EXCEPT !.kind = "open-score", !.command = env.bin] ELSE hosted
<1>1. DOMAIN logged = Settings /\ logged[s] = cfg[s]
  BY DEF Overridden
<1> HIDE DEF logged
<1>2. DOMAIN kinded = Settings /\ kinded[s] = cfg[s]
  BY <1>1 DEF Overridden
<1> HIDE DEF kinded
<1>3. DOMAIN hosted = Settings /\ hosted[s] = cfg[s]
  BY <1>2 DEF Overridden
<1> HIDE DEF hosted
<1>4. named[s] = cfg[s]
  BY <1>3 DEF Overridden
<1> HIDE DEF named
<1>5. ApplyEnvOverrides(cfg, env) = named
  BY DEF ApplyEnvOverrides, named, hosted, kinded, logged
<1>6. QED
  BY <1>4, <1>5

(* The highest of four layers that gives a setting a value.                *)
LEMMA HighestOfFour ==
    ASSUME NEW a, NEW b, NEW c, NEW d, NEW s \in DOMAIN d
    PROVE  Highest(<<a, b, c, d>>, s) = IF s \in DOMAIN a THEN a[s]
                                        ELSE IF s \in DOMAIN b THEN b[s]
                                        ELSE IF s \in DOMAIN c THEN c[s]
                                        ELSE d[s]
<1> DEFINE layers == <<a, b, c, d>>
           holding == {i \in DOMAIN layers : s \in DOMAIN layers[i]}
<1>1. DOMAIN layers = 1..4 /\ layers[1] = a /\ layers[2] = b /\ layers[3] = c /\ layers[4] = d
  OBVIOUS
<1> HIDE DEF layers
<1>2. \A i : i \in holding <=> \/ i = 1 /\ s \in DOMAIN a
                               \/ i = 2 /\ s \in DOMAIN b
                               \/ i = 3 /\ s \in DOMAIN c
                               \/ i = 4
  BY <1>1
<1> HIDE DEF holding
<1> DEFINE i == IF s \in DOMAIN a THEN 1 ELSE IF s \in DOMAIN b THEN 2
                ELSE IF s \in DOMAIN c THEN 3 ELSE 4
<1>3. i \in holding /\ \A k \in holding : i <= k
  BY <1>2
<1>4. \A k \in holding : (\A m \in holding : k <= m) => k = i
  BY <1>2, <1>3
<1>5. /\ s \in DOMAIN a => i = 1
      /\ s \notin DOMAIN a /\ s \in DOMAIN b => i = 2
      /\ s \notin DOMAIN a /\ s \notin DOMAIN b /\ s \in DOMAIN c => i = 3
      /\ s \notin DOMAIN a /\ s \notin DOMAIN b /\ s \notin DOMAIN c => i = 4
  OBVIOUS
<1> HIDE DEF i
<1>6. (CHOOSE k \in holding : \A m \in holding : k <= m) = i
  BY <1>3, <1>4
<1>7. Highest(layers, s) = layers[i][s]
  BY <1>6 DEF Highest, holding
<1>8. Highest(layers, s) = IF s \in DOMAIN a THEN a[s]
                           ELSE IF s \in DOMAIN b THEN b[s]
                           ELSE IF s \in DOMAIN c THEN c[s]
                           ELSE d[s]
  BY <1>1, <1>5, <1>7
<1>9. QED
  BY <1>8 DEF layers

(* Load lays the files over one another in the order of the layers.        *)
LEMMA LoadLayers ==
    ASSUME env.home, Load(env, plugin, user, local).ok,
           NEW s \in DOMAIN DefaultConfig \ Overridden
    PROVE  Load(env, plugin, user, local).cfg[s] = Highest(Layers(user.values), s)
<1> DEFINE base == IF env.pluginDir THEN Merge(DefaultConfig, plugin) ELSE DefaultConfig
           under == Merge(base, user)
           merged == Merge(under, local)
<1>1. Load(env, plugin, user, local) = Loaded(ApplyEnvOverrides(merged, env))
  <2> HIDE DEF merged
  <2> DEFINE cfg == ApplyEnvOverrides(merged, env)
  <2> HIDE DEF cfg
  <2>1. \/ Load(env, plugin, user, local) = LoadError
        \/ Load(env, plugin, user, local) = Loaded(cfg)
    BY DEF Load, merged, cfg
  <2>2. ~LoadError.ok
    BY DEF LoadError
  <2>3. QED
    BY <2>1, <2>2 DEF cfg
<1>2. s \in Settings
  BY DEF Settings
<1>3. base[s] = IF env.pluginDir /\ s \in DOMAIN plugin.values THEN plugin.values[s]
                ELSE DefaultConfig[s]
  BY <1>2 DEF Merge
<1> HIDE DEF base
<1>4. under[s] = IF s \in DOMAIN user.values THEN user.values[s] ELSE base[s]
  BY <1>2 DEF Merge
<1> HIDE DEF under
<1>5. /\ merged[s] = IF s \in DOMAIN local.values THEN local.values[s] ELSE under[s]
      /\ DOMAIN merged = Settings
  BY <1>2 DEF Merge
<1> HIDE DEF merged
<1>6. Load(env, plugin, user, local).cfg[s] = merged[s]
  BY <1>1, <1>2, <1>5, NotOverridden DEF Loaded
<1> DEFINE third == IF env.pluginDir THEN plugin.values ELSE <<>>
<1>7. s \in DOMAIN third <=> env.pluginDir /\ s \in DOMAIN plugin.values
  OBVIOUS
<1>8. env.pluginDir => third = plugin.values
  OBVIOUS
<1> HIDE DEF third
<1>9. Highest(Layers(user.values), s) =
         IF s \in DOMAIN local.values THEN local.values[s]
         ELSE IF s \in DOMAIN user.values THEN user.values[s]
         ELSE IF s \in DOMAIN third THEN third[s]
         ELSE DefaultConfig[s]
  BY HighestOfFour DEF Layers, third
<1>10. QED
  BY <1>3, <1>4, <1>5, <1>6, <1>7, <1>8, <1>9

(* What a hook decides by.                                                 *)
SameSettings(j, n) == j.cfg = n.cfg /\ j.provider = n.provider /\ j.fromClean = n.fromClean

(* What it has once it has loaded its configuration.                       *)
Loads(h) ==
    LET loaded == Load(env, plugin, user, local) IN
    /\ loaded.ok
    /\ job'[h].cfg = loaded.cfg
    /\ job'[h].provider = NewProvider(loaded.cfg, env)
    /\ job'[h].fromClean = clean

(* A hook loads its configuration once, and keeps it until it fails or is  *)
(* stopped.                                                                *)
LEMMA LoadedOnce ==
    ASSUME IInv, NEW h \in Hooks, HookStep(h) \/ TimeOut(h) \/ AgentDecides(h) \/ Install(h)
    PROVE  /\ UNCHANGED <<fixed, file>>
           /\ \A g \in Hooks \ {h} : job'[g] = job[g]
           /\ job'[h].provider = "none" \/ SameSettings(job'[h], job[h]) \/ Loads(h)
<1> DEFINE n == job[h]
           m == NewJob(n.cmd)
           output == FormatHookOutput(h, n.result)
           loaded == Load(env, plugin, user, local)
           provider == NewProvider(loaded.cfg, env)
<1>1. IsJob(n) /\ IsJob(m) /\ m.provider = "none"
  BY NewIsJob DEF IInv, Shape, NewJob
<1>2. UNCHANGED <<fixed, file>>
  BY DEF HookStep, ReadHookInput, LoadConfigAndProvider, PassThrough, Judge, Log, Answer,
     TimeOut, AgentDecides, Install
<1>3. PICK j : /\ Put(h, j)
               /\ \/ j = [m EXCEPT !.pc = "exited", !.code = FailureCode(h)]
                  \/ j = [m EXCEPT !.pc = "unguarded", !.late = TRUE]
                  \/ j = [n EXCEPT !.pc = "answer", !.result = Decided("allow"),
                                   !.seen = published]
                  \/ j = [n EXCEPT !.pc = "load"]
                  \/ loaded.ok /\ j = [n EXCEPT !.pc = "evaluate", !.cfg = loaded.cfg,
                                                !.fromClean = clean, !.provider = provider]
                  \/ \E a, t, r : j = [n EXCEPT !.pc = "log", !.reach = a, !.seen = published,
                                               !.told = t, !.result = r,
                                               !.unwritten = <<"entry", "newline">>]
                  \/ j = [n EXCEPT !.pc = "answer", !.unwritten = <<>>]
                  \/ j = [n EXCEPT !.pc = "answer", !.unlogged = TRUE]
                  \/ j = [n EXCEPT !.pc = "exited", !.permission = output.permission,
                                   !.updated = output.updated]
                  \/ j = [n EXCEPT !.pc = "refused"] \/ j = [n EXCEPT !.pc = "granted"]
                  \/ j = [n EXCEPT !.pc = "granted", !.asked = TRUE]
                  \/ \E v : j = [n EXCEPT !.pc = "ran", !.installed = v]
  <2>1. CASE ReadHookInput(h)
    BY <2>1 DEF ReadHookInput, Fail, Pass
  <2>2. CASE LoadConfigAndProvider(h)
    BY <2>2 DEF LoadConfigAndProvider, Fail
  <2>3. CASE PassThrough(h)
    BY <2>3 DEF PassThrough, Pass
  <2>4. CASE Judge(h)
    <3>1. PICK available \in IsAvailable(job[h].provider), exchange \in Exchanges(h) :
             LET answer == AnswerOne(Request(h), available, exchange.reply, job[h].cmd.direct)
                 version == IF answer.install = 0 THEN 0 ELSE published + 1 - answer.install
             IN IF answer.kind = "error" THEN Fail(h)
                ELSE Put(h, [job[h] EXCEPT
                                !.pc = "log", !.reach = Reach(available), !.seen = published,
                                !.told = IF available THEN exchange.told ELSE "none",
                                !.result = [answer EXCEPT !.install = version],
                                !.unwritten = <<"entry", "newline">>])
      BY <2>4 DEF Judge
    <3> DEFINE answer == AnswerOne(Request(h), available, exchange.reply, job[h].cmd.direct)
               version == IF answer.install = 0 THEN 0 ELSE published + 1 - answer.install
               told == IF available THEN exchange.told ELSE "none"
               result == [answer EXCEPT !.install = version]
               put == [n EXCEPT !.pc = "log", !.reach = Reach(available), !.seen = published,
                                !.told = told, !.result = result,
                                !.unwritten = <<"entry", "newline">>]
    <3>2. Fail(h) \/ Put(h, put)
      BY <3>1
    <3> HIDE DEF told, result
    <3>3. \E a, t, r : put = [n EXCEPT !.pc = "log", !.reach = a, !.seen = published,
                                      !.told = t, !.result = r,
                                      !.unwritten = <<"entry", "newline">>]
      OBVIOUS
    <3> HIDE DEF put
    <3>4. QED
      BY <3>2, <3>3 DEF Fail
  <2>5. CASE Log(h)
    BY <2>5 DEF Log
  <2>6. CASE Answer(h)
    BY <2>6 DEF Answer
  <2>7. CASE TimeOut(h)
    BY <2>7 DEF TimeOut
  <2>8. CASE AgentDecides(h)
    BY <2>8 DEF AgentDecides, Refuse, Permit, PermitAsked
  <2>9. CASE Install(h)
    BY <2>9 DEF Install
  <2>10. QED
    BY <2>1, <2>2, <2>3, <2>4, <2>5, <2>6, <2>7, <2>8, <2>9 DEF HookStep
<1> HIDE DEF m, n, output, loaded, provider
<1>4. job'[h] = j /\ \A g \in Hooks \ {h} : job'[g] = job[g]
  BY <1>3, OthersStay
<1>5. \/ j.provider = "none" \/ SameSettings(j, n)
      \/ /\ loaded.ok /\ j.cfg = loaded.cfg /\ j.fromClean = clean /\ j.provider = provider
  <2>1. CASE \/ j = [m EXCEPT !.pc = "exited", !.code = FailureCode(h)]
             \/ j = [m EXCEPT !.pc = "unguarded", !.late = TRUE]
    BY <1>1, <2>1 DEF IsJob
  <2>2. CASE \/ j = [n EXCEPT !.pc = "answer", !.result = Decided("allow"), !.seen = published]
             \/ j = [n EXCEPT !.pc = "load"]
    BY <1>1, <2>2 DEF IsJob, SameSettings
  <2>3. CASE loaded.ok /\ j = [n EXCEPT !.pc = "evaluate", !.cfg = loaded.cfg,
                                         !.fromClean = clean, !.provider = provider]
    BY <1>1, <2>3 DEF IsJob
  <2>4. CASE \E a, t, r : j = [n EXCEPT !.pc = "log", !.reach = a, !.seen = published,
                                        !.told = t, !.result = r,
                                        !.unwritten = <<"entry", "newline">>]
    BY <1>1, <2>4 DEF IsJob, SameSettings
  <2>5. CASE \/ j = [n EXCEPT !.pc = "answer", !.unwritten = <<>>]
             \/ j = [n EXCEPT !.pc = "answer", !.unlogged = TRUE]
    BY <1>1, <2>5 DEF IsJob, SameSettings
  <2>6. CASE j = [n EXCEPT !.pc = "exited", !.permission = output.permission,
                           !.updated = output.updated]
    BY <1>1, <2>6 DEF IsJob, SameSettings
  <2>7. CASE \/ j = [n EXCEPT !.pc = "refused"] \/ j = [n EXCEPT !.pc = "granted"]
             \/ j = [n EXCEPT !.pc = "granted", !.asked = TRUE]
             \/ \E v : j = [n EXCEPT !.pc = "ran", !.installed = v]
    BY <1>1, <2>7 DEF IsJob, SameSettings
  <2>8. QED
    BY <1>3, <2>1, <2>2, <2>3, <2>4, <2>5, <2>6, <2>7
<1>6. QED
  BY <1>2, <1>4, <1>5 DEF n, Loads, loaded, provider

(* What is known of the settings a hook has loaded, and of the user's file *)
(* that it loaded them from.                                               *)
OfOneEdition(h) ==
    env.home /\ job[h].provider # "none" /\ job[h].fromClean =>
       \E edition \in editions :
          \A s \in DOMAIN DefaultConfig \ Overridden :
             job[h].cfg[s] = Highest(Layers(edition), s)

Usable(h) ==
    job[h].provider \in {"open-score-http", "platform"} =>
       /\ job[h].cfg.endpoint \notin {"", "bad"}
       /\ \A t \in job[h].cfg.timeout : t >= 0

LInv ==
    /\ clean => user.values \in editions
    /\ editing # Nobody => ~clean
    /\ \A h \in Hooks : OfOneEdition(h) /\ Usable(h)

LEMMA LoadedKept == IInv /\ LInv /\ [Next]_vars => LInv'
<1> SUFFICES ASSUME IInv, LInv, [Next]_vars PROVE LInv'
  OBVIOUS
<1>1. ASSUME UNCHANGED <<fixed, job>>, editions \subseteq editions'
      PROVE  \A h \in Hooks : OfOneEdition(h)' /\ Usable(h)'
  <2> SUFFICES ASSUME NEW h \in Hooks PROVE OfOneEdition(h)' /\ Usable(h)'
    OBVIOUS
  <2>1. OfOneEdition(h) /\ Usable(h) /\ job'[h] = job[h] /\ env' = env
    BY <1>1 DEF LInv, fixed
  <2>2. Overridden' = Overridden /\ \A edition : Layers(edition)' = Layers(edition)
    BY <1>1 DEF Overridden, Layers, fixed
  <2>3. \A edition, s : Highest(Layers(edition)', s) = Highest(Layers(edition), s)
    BY <2>2
  <2>4. QED
    BY <1>1, <2>1, <2>2, <2>3 DEF OfOneEdition, Usable
<1>2. CASE Publish \/ UNCHANGED vars
  <2>1. UNCHANGED <<fixed, job, user, editing, clean, editions>>
    BY <1>2 DEF Publish, file, vars
  <2>2. QED
    BY <1>1, <2>1 DEF LInv
<1>3. CASE BeginWrite
  BY <1>1, <1>3 DEF BeginWrite, LInv
<1>4. CASE EndWrite
  <2>1. user'.values \in editions' /\ editing' = Nobody
    BY <1>4 DEF EndWrite, File
  <2>2. QED
    BY <1>1, <1>4, <2>1 DEF EndWrite, LInv
<1>5. CASE CutWrite
  BY <1>1, <1>5 DEF CutWrite, LInv
<1>6. ASSUME NEW h \in Hooks, HookStep(h) \/ TimeOut(h) \/ AgentDecides(h) \/ Install(h)
      PROVE  LInv'
  <2>1. /\ UNCHANGED <<fixed, file>>
        /\ \A g \in Hooks \ {h} : job'[g] = job[g]
        /\ job'[h].provider = "none" \/ SameSettings(job'[h], job[h]) \/ Loads(h)
    BY <1>6, LoadedOnce
  <2>2. env' = env /\ editions' = editions
    BY <2>1 DEF fixed, file
  <2>3. Overridden' = Overridden /\ \A edition : Layers(edition)' = Layers(edition)
    BY <2>1 DEF Overridden, Layers, fixed
  <2>4. ASSUME NEW g \in Hooks, job'[g].provider = "none" \/ SameSettings(job'[g], job[g])
        PROVE  OfOneEdition(g)' /\ Usable(g)'
    <3>1. OfOneEdition(g) /\ Usable(g)
      BY DEF LInv
    <3>2. CASE job'[g].provider = "none"
      BY <3>2 DEF OfOneEdition, Usable
    <3>3. CASE SameSettings(job'[g], job[g])
      BY <2>2, <2>3, <3>1, <3>3 DEF OfOneEdition, Usable, SameSettings
    <3>4. QED
      BY <2>4, <3>2, <3>3
  <2>5. ASSUME Loads(h) PROVE OfOneEdition(h)' /\ Usable(h)'
    <3> DEFINE loaded == Load(env, plugin, user, local)
    <3>1. /\ loaded.ok /\ job'[h].cfg = loaded.cfg
          /\ job'[h].provider = NewProvider(loaded.cfg, env) /\ job'[h].fromClean = clean
      BY <2>5 DEF Loads
    <3>2. Usable(h)'
      <4>1. NewProvider(loaded.cfg, env) \in {"open-score-http", "platform"} =>
               loaded.cfg.endpoint \notin {"", "bad"} /\ \A t \in loaded.cfg.timeout : t >= 0
        BY ProviderIsUsable
      <4> HIDE DEF loaded
      <4>2. QED
        BY <3>1, <4>1 DEF Usable
    <3>3. env.home => \A s \in DOMAIN DefaultConfig \ Overridden :
                         job'[h].cfg[s] = Highest(Layers(user.values), s)
      BY <3>1, LoadLayers
    <3> HIDE DEF loaded
    <3>4. OfOneEdition(h)'
      BY <2>2, <2>3, <3>1, <3>3 DEF OfOneEdition, LInv
    <3>5. QED
      BY <3>2, <3>4
  <2>6. \A g \in Hooks : OfOneEdition(g)' /\ Usable(g)'
    BY <2>1, <2>4, <2>5 DEF SameSettings
  <2>7. QED
    BY <2>1, <2>6 DEF LInv, file
<1>7. QED
  BY <1>2, <1>3, <1>4, <1>5, <1>6 DEF Next

LEMMA LoadedWell == Spec => []LInv
<1>1. Init => LInv
  <2> SUFFICES ASSUME Init PROVE LInv
    OBVIOUS
  <2>1. PICK s \in Starts : job = [h \in Hooks |-> NewJob(s.commands[h])]
    BY DEF Init
  <2>2. \A h \in Hooks : job[h].provider = "none"
    BY <2>1 DEF NewJob
  <2>3. QED
    BY <2>2 DEF Init, LInv, OfOneEdition, Usable
<1>2. QED
  BY <1>1, LoadedKept, Invariance, PTL DEF Spec

(* A hook that reads the user's file between two writings decides by one   *)
(* edition of it, laid between the plugin's and the project's files, for   *)
(* any files, any variables and any number of writings (config.go:111-117).*)
THEOREM ConfigIsWhole == Spec => []ConfigIsOfOneEdition
<1>1. LInv => ConfigIsOfOneEdition
  BY DEF LInv, OfOneEdition, ConfigIsOfOneEdition
<1>2. QED
  BY <1>1, LoadedWell, PTL

(* No hook has a provider that talks to something that is no usable URL or *)
(* that waits a negative time, wherever its configuration came from.       *)
THEOREM EndpointsAreUsable == Spec => []EndpointIsChecked
<1>1. LInv => EndpointIsChecked
  BY DEF LInv, Usable, EndpointIsChecked
<1>2. QED
  BY <1>1, LoadedWell, PTL
=============================================================================
