------------------------ MODULE BackgroundTasks_proofs ------------------------
(* Machine-checked theorems about BackgroundTasks, for any tasks, runners,   *)
(* batch size, attempt limit and fault budget.                               *)
EXTENDS BackgroundTasks, TLAPS

Working == {"attempt", "dispatch", "close", "catch"}
Open(t) == t \in queued /\ t \notin processed /\ t \notin failed

\* The attempt is paid for before the work is started.
AttemptsPaid ==
    /\ \A t \in Tasks : ran[t] <= attempts[t] /\ attempts[t] <= MAX_ATTEMPTS
    /\ \A r \in Runners :
          /\ pc[r] = "attempt" => attempts[task[r]] < MAX_ATTEMPTS
          /\ pc[r] = "dispatch" => ran[task[r]] < attempts[task[r]]
          /\ pc[r] = "close" => ran[task[r]] > 0

\* What a run has in its batch and in hand is still open, and is there once.
BatchOpen ==
    \A r \in Runners :
       /\ pc[r] \in {"off", "loop"} => todo[r] = {}
       /\ \A t \in todo[r] : Open(t) /\ attempts[t] < MAX_ATTEMPTS
       /\ pc[r] \in Working => Open(task[r]) /\ task[r] \notin todo[r]

IInv == TypeOK /\ AttemptsPaid /\ BatchOpen

-------------------------------------------------------------------------------
\* Whoever is running is alone: every other runner is off and has no batch.
LEMMA Alone ==
    ASSUME IInv, NEW r \in Runners, pc[r] # "off"
    PROVE  /\ lock = r
           /\ \A q \in Runners \ {r} : pc[q] = "off" /\ todo[q] = {}
  BY DEF IInv, TypeOK, OneAtATime, BatchOpen

LEMMA OverKeeps ==
    ASSUME IInv, NEW r \in Runners, pc[r] # "off", Over(r)
    PROVE  /\ RunnersTyped' /\ OneAtATime'
           /\ \A q \in Runners : pc'[q] = "off" /\ todo'[q] = {}
  <1>1. \A q \in Runners : pc'[q] = "off" /\ todo'[q] = {}
    BY Alone DEF Over, Goto, IInv, TypeOK, RunnersTyped
  <1> QED
    BY <1>1 DEF Over, Goto, IInv, TypeOK, RunnersTyped, OneAtATime, PCs

LEMMA GotoTyped ==
    ASSUME IInv, NEW r \in Runners, pc[r] # "off", NEW l \in PCs, Goto(r, l)
    PROVE  /\ pc' \in [Runners -> PCs]
           /\ pc'[r] = l
           /\ \A q \in Runners \ {r} : pc'[q] = "off"
  BY Alone DEF Goto, IInv, TypeOK, RunnersTyped

LEMMA FaultTyped ==
    ASSUME RowsTyped, NEW k, Fault(k)
    PROVE  budget' \in Nat
  BY DEF RowsTyped, Fault

-------------------------------------------------------------------------------
LEMMA InitInv == Init => IInv
  <1> SUFFICES ASSUME Init
               PROVE  IInv
    OBVIOUS
  <1>1. RowsTyped
    BY TasksAssumption DEF Init, RowsTyped
  <1>2. RunnersTyped /\ OneAtATime
    BY DEF Init, RunnersTyped, OneAtATime, PCs
  <1>3. AttemptsPaid
    BY TasksAssumption DEF Init, AttemptsPaid
  <1>4. BatchOpen
    BY DEF Init, BatchOpen, Working
  <1> QED
    BY <1>1, <1>2, <1>3, <1>4 DEF IInv, TypeOK

LEMMA StepInv ==
    ASSUME IInv, NEW r \in Runners, Step(r)
    PROVE  IInv'
  <1> USE DEF IInv, TypeOK
  <1>1. CASE Launch(r)
    BY <1>1, RunnersAssumption DEF Launch, Goto, rows, RowsTyped, RunnersTyped, OneAtATime,
       AttemptsPaid, BatchOpen, Open, PCs, Working
  <1>2. CASE Iterate(r)
    <2>1. Batch(Due) \subseteq Due
      BY DEF Batch
    <2>2. Due \subseteq Tasks /\ \A t \in Due : Open(t) /\ attempts[t] < MAX_ATTEMPTS
      BY DEF Due, Closed, Open, RowsTyped
    <2>3. /\ pc' \in [Runners -> PCs] /\ pc'[r] = "next"
          /\ \A q \in Runners \ {r} : pc'[q] = "off"
      BY <1>2, GotoTyped DEF Iterate, PCs
    <2>4. RunnersTyped'
      <3> DEFINE S == [Tasks -> Nat]
      <3>1. attempts \in S /\ seen \in [Runners -> S]
        BY DEF RowsTyped, RunnersTyped
      <3> HIDE DEF S
      <3>2. seen' \in [Runners -> S]
        BY <1>2, <3>1 DEF Iterate
      <3>3. todo' \in [Runners -> SUBSET Tasks] /\ iteration' \in [Runners -> Nat]
        BY <1>2, <2>1, <2>2 DEF Iterate, RunnersTyped
      <3> QED
        BY <1>2, <2>3, <3>2, <3>3 DEF Iterate, RunnersTyped, S
    <2>7. OneAtATime' /\ RowsTyped'
      BY <1>2, <2>3, Alone DEF Iterate, rows, RowsTyped, OneAtATime
    <2>5. BatchOpen'
      BY <1>2, <2>1, <2>2, <2>3, Alone DEF Iterate, rows, RunnersTyped, BatchOpen, Open, Working
    <2>6. AttemptsPaid'
      BY <1>2, <2>3 DEF Iterate, rows, AttemptsPaid
    <2> QED
      BY <2>4, <2>5, <2>6, <2>7
  <1>3. CASE Finished(r)
    <2>1. /\ RunnersTyped' /\ OneAtATime'
          /\ \A q \in Runners : pc'[q] = "off" /\ todo'[q] = {}
      BY <1>3, OverKeeps DEF Finished
    <2> QED
      BY <1>3, <2>1 DEF Finished, rows, RowsTyped, AttemptsPaid, BatchOpen, Working
  <1>4. CASE Take(r)
    <2> PICK t \in todo[r] :
           /\ todo' = [todo EXCEPT ![r] = @ \ {t}]
           /\ \/ UNCHANGED <<pc, task>>
              \/ task' = [task EXCEPT ![r] = t] /\ Goto(r, "attempt")
      BY <1>4 DEF Take
    <2>1. t \in Tasks /\ t \in Nat /\ Open(t) /\ attempts[t] < MAX_ATTEMPTS
      BY TasksAssumption DEF RunnersTyped, BatchOpen
    <2>2. CASE UNCHANGED <<pc, task>>
      BY <1>4, <2>1, <2>2 DEF Take, rows, RowsTyped, RunnersTyped, OneAtATime, AttemptsPaid,
         BatchOpen, Open, Working
    <2>3. CASE task' = [task EXCEPT ![r] = t] /\ Goto(r, "attempt")
      <3>1. /\ pc' \in [Runners -> PCs] /\ pc'[r] = "attempt"
            /\ \A q \in Runners \ {r} : pc'[q] = "off"
        BY <1>4, <2>3, GotoTyped DEF Take, PCs
      <3>2. RunnersTyped' /\ OneAtATime' /\ RowsTyped'
        BY <1>4, <2>1, <2>3, <3>1, Alone DEF Take, rows, RowsTyped, RunnersTyped, OneAtATime
      <3>3. BatchOpen'
        BY <1>4, <2>1, <2>3, <3>1, Alone DEF Take, rows, RunnersTyped, BatchOpen, Open, Working
      <3>4. AttemptsPaid'
        BY <1>4, <2>1, <2>3, <3>1 DEF Take, rows, RunnersTyped, AttemptsPaid
      <3> QED
        BY <3>2, <3>3, <3>4
    <2> QED
      BY <2>2, <2>3
  <1>5. CASE BatchDone(r)
    BY <1>5, Alone DEF BatchDone, Goto, rows, RowsTyped, RunnersTyped, OneAtATime,
       AttemptsPaid, BatchOpen, Open, PCs, Working
  <1>6. CASE Attempt(r)
    <2>1. task[r] \in Tasks /\ Open(task[r]) /\ attempts[task[r]] < MAX_ATTEMPTS
      BY <1>6 DEF Attempt, BatchOpen, Open, Working, AttemptsPaid, RowsTyped
    <2>2. attempts' \in [Tasks -> Nat] /\ budget' \in Nat
      BY <1>6, FaultTyped DEF Attempt, RowsTyped
    <2>3. PICK l \in {"dispatch", "catch"} :
             /\ Goto(r, l)
             /\ l = "dispatch" => attempts' = [attempts EXCEPT ![task[r]] = @ + 1]
             /\ l = "catch" => UNCHANGED attempts
      BY <1>6 DEF Attempt
    <2>4. /\ pc' \in [Runners -> PCs] /\ pc'[r] = l
          /\ \A q \in Runners \ {r} : pc'[q] = "off"
      BY <1>6, <2>3, GotoTyped DEF Attempt, PCs
    <2>5. RunnersTyped' /\ OneAtATime' /\ RowsTyped'
      BY <1>6, <2>2, <2>4, Alone DEF Attempt, RowsTyped, RunnersTyped, OneAtATime
    <2>6. BatchOpen'
      BY <1>6, <2>1, <2>3, <2>4, Alone DEF Attempt, RowsTyped, RunnersTyped, BatchOpen, Open, Working
    <2>7. AttemptsPaid'
      <3>1. MAX_ATTEMPTS \in Nat /\ UNCHANGED <<ran, task>>
        BY <1>6, TasksAssumption DEF Attempt
      <3>2. \A t \in Tasks : /\ attempts[t] \in Nat /\ ran[t] \in Nat
                             /\ ran[t] <= attempts[t] /\ attempts[t] <= MAX_ATTEMPTS
        BY DEF RowsTyped, AttemptsPaid
      <3>3. \A t \in Tasks \ {task[r]} : attempts'[t] = attempts[t]
        BY <2>3 DEF RowsTyped
      <3>4. /\ attempts'[task[r]] \in {attempts[task[r]], attempts[task[r]] + 1}
            /\ l = "dispatch" => attempts'[task[r]] = attempts[task[r]] + 1
        BY <2>1, <2>3 DEF RowsTyped
      <3>5. \A t \in Tasks : ran[t] <= attempts'[t] /\ attempts'[t] <= MAX_ATTEMPTS
        BY <2>1, <3>1, <3>2, <3>3, <3>4
      <3>6. pc'[r] = "dispatch" => ran[task[r]] < attempts'[task[r]]
        BY <2>1, <2>4, <3>1, <3>2, <3>4
      <3> QED
        BY <2>4, <3>1, <3>5, <3>6 DEF AttemptsPaid
    <2> QED
      BY <2>5, <2>6, <2>7
  <1>7. CASE Dispatch(r)
    <2>1. task[r] \in Tasks /\ Open(task[r]) /\ ran[task[r]] < attempts[task[r]]
      BY <1>7 DEF Dispatch, BatchOpen, Open, Working, AttemptsPaid, RowsTyped
    <2>2. ran' \in [Tasks -> Nat] /\ budget' \in Nat
      BY <1>7, <2>1, FaultTyped DEF Dispatch, Carried, RowsTyped
    <2>3. PICK l \in {"close", "catch"} :
             /\ Goto(r, l)
             /\ UNCHANGED ran \/ ran' = [ran EXCEPT ![task[r]] = @ + 1]
             /\ l = "close" => ran' = [ran EXCEPT ![task[r]] = @ + 1]
      BY <1>7 DEF Dispatch, Carried
    <2>4. /\ pc' \in [Runners -> PCs] /\ pc'[r] = l
          /\ \A q \in Runners \ {r} : pc'[q] = "off"
      BY <1>7, <2>3, GotoTyped DEF Dispatch, PCs
    <2>5. RunnersTyped' /\ OneAtATime' /\ RowsTyped'
      BY <1>7, <2>2, <2>4, Alone DEF Dispatch, rows, RowsTyped, RunnersTyped, OneAtATime
    <2>6. BatchOpen'
      BY <1>7, <2>1, <2>3, <2>4, Alone DEF Dispatch, rows, RunnersTyped, BatchOpen, Open, Working
    <2>7. AttemptsPaid'
      BY <1>7, <2>1, <2>3, <2>4 DEF Dispatch, rows, RowsTyped, AttemptsPaid
    <2> QED
      BY <2>5, <2>6, <2>7
  <1>8. CASE Close(r)
    <2>1. task[r] \in Tasks /\ Open(task[r]) /\ task[r] \notin todo[r]
      BY <1>8 DEF Close, BatchOpen, Open, Working, RowsTyped
    <2>2. PICK l \in {"next", "catch"} :
             /\ Goto(r, l)
             /\ l = "next" => processed' = processed \union {task[r]}
             /\ l = "catch" => UNCHANGED processed
      BY <1>8 DEF Close
    <2>3. /\ pc' \in [Runners -> PCs] /\ pc'[r] = l
          /\ \A q \in Runners \ {r} : pc'[q] = "off"
      BY <1>8, <2>2, GotoTyped DEF Close, PCs
    <2>4. budget' \in Nat
      BY <1>8, FaultTyped DEF Close, RowsTyped
    <2>5. RunnersTyped' /\ OneAtATime' /\ RowsTyped'
      BY <1>8, <2>1, <2>2, <2>3, <2>4, Alone DEF Close, RowsTyped, RunnersTyped, OneAtATime, Open
    <2>6. BatchOpen'
      BY <1>8, <2>1, <2>2, <2>3, Alone DEF Close, RunnersTyped, BatchOpen, Open, Working
    <2>7. AttemptsPaid'
      BY <1>8, <2>3 DEF Close, AttemptsPaid
    <2> QED
      BY <2>5, <2>6, <2>7
  <1>9. CASE Catch(r)
    <2>1. task[r] \in Tasks /\ Open(task[r]) /\ task[r] \notin todo[r]
      BY <1>9 DEF Catch, BatchOpen, Open, Working, RowsTyped
    <2>2. /\ failed' \subseteq queued /\ failed' \in {failed, failed \union {task[r]}}
          /\ budget' \in Nat
      BY <1>9, <2>1, FaultTyped DEF Catch, RowsTyped, Open
    <2>3. CASE Over(r)
      <3>1. /\ RunnersTyped' /\ OneAtATime'
            /\ \A q \in Runners : pc'[q] = "off" /\ todo'[q] = {}
        BY <1>9, <2>3, OverKeeps DEF Catch
      <3> QED
        BY <1>9, <2>2, <3>1 DEF Catch, RowsTyped, AttemptsPaid, BatchOpen, Working
    <2>4. CASE Goto(r, "next") /\ UNCHANGED <<lock, todo, seen, task, iteration>>
      <3>1. /\ pc' \in [Runners -> PCs] /\ pc'[r] = "next"
            /\ \A q \in Runners \ {r} : pc'[q] = "off"
        BY <1>9, <2>4, GotoTyped DEF Catch, PCs
      <3>2. RunnersTyped' /\ OneAtATime' /\ RowsTyped'
        BY <1>9, <2>2, <2>4, <3>1, Alone DEF Catch, RowsTyped, RunnersTyped, OneAtATime
      <3>3. BatchOpen' /\ AttemptsPaid'
        BY <1>9, <2>1, <2>2, <2>4, <3>1, Alone
           DEF Catch, RunnersTyped, BatchOpen, Open, Working, AttemptsPaid
      <3> QED
        BY <3>2, <3>3
    <2> QED
      BY <1>9, <2>3, <2>4 DEF Catch
  <1> QED
    BY <1>1, <1>2, <1>3, <1>4, <1>5, <1>6, <1>7, <1>8, <1>9 DEF Step

LEMMA OtherInv ==
    ASSUME IInv,
           \/ \E r \in Runners : Stop(r) \/ Crash(r)
           \/ \E t \in Tasks : Queue(t)
           \/ Tick \/ Press \/ Lift
    PROVE  IInv'
  <1> USE DEF IInv, TypeOK
  <1>1. ASSUME NEW r \in Runners, Stop(r) \/ Crash(r)
        PROVE  IInv'
    <2>1. /\ RunnersTyped' /\ OneAtATime'
          /\ \A q \in Runners : pc'[q] = "off" /\ todo'[q] = {}
      BY <1>1, OverKeeps DEF Stop, Crash
    <2>2. BatchOpen'
      BY <2>1 DEF BatchOpen, Working
    <2>3. CASE UNCHANGED ran
      BY <1>1, <2>1, <2>2, <2>3, FaultTyped DEF Stop, Crash, rows, RowsTyped, AttemptsPaid
    <2>4. CASE pc[r] = "dispatch" /\ Carried(task[r]) /\ Crash(r)
      <3>1. task[r] \in Tasks /\ ran[task[r]] < attempts[task[r]]
        BY <2>4 DEF BatchOpen, Open, Working, AttemptsPaid, RowsTyped
      <3>2. RowsTyped'
        BY <2>4, <3>1, FaultTyped DEF Crash, Carried, rows, RowsTyped
      <3>3. AttemptsPaid'
        BY <2>1, <2>4, <3>1 DEF Crash, Carried, rows, RowsTyped, AttemptsPaid
      <3> QED
        BY <2>1, <2>2, <3>2, <3>3
    <2> QED
      BY <1>1, <2>3, <2>4 DEF Stop, Crash
  <1>2. ASSUME NEW t \in Tasks, Queue(t)
        PROVE  IInv'
    BY <1>2 DEF Queue, runners, RowsTyped, RunnersTyped, OneAtATime, AttemptsPaid, BatchOpen, Open
  <1>3. CASE Tick
    BY <1>3 DEF Tick, runners, RowsTyped, RunnersTyped, OneAtATime, AttemptsPaid, BatchOpen, Open
  <1>4. CASE Press \/ Lift
    <2>1. held' \in BOOLEAN /\ budget' \in Nat
      BY <1>4, FaultTyped DEF Press, Lift, RowsTyped
    <2> QED
      BY <1>4, <2>1 DEF Press, Lift, rows, runners, RowsTyped, RunnersTyped, OneAtATime,
         AttemptsPaid, BatchOpen, Open
  <1> QED
    BY <1>1, <1>2, <1>3, <1>4

LEMMA NextInv == IInv /\ [Next]_vars => IInv'
  <1>1. ASSUME IInv, UNCHANGED vars
        PROVE  IInv'
    BY <1>1 DEF vars, rows, runners, IInv, TypeOK, RowsTyped, RunnersTyped, OneAtATime,
       AttemptsPaid, BatchOpen, Open
  <1> QED
    BY <1>1, StepInv, OtherInv DEF Next

LEMMA Invariant == Spec => []IInv
  BY InitInv, NextInv, PTL DEF Spec

\* Only the holder of the lock runs, whatever crashes: the state keeps its shape.
THEOREM Typing == Spec => []TypeOK
  <1>1. IInv => TypeOK
    BY DEF IInv
  <1> QED
    BY <1>1, Invariant, PTL

\* No task's work is carried out more than MAX_ATTEMPTS times: an attempt is
\* committed before the work it pays for is started.
THEOREM Bounded == Spec => []RunsBounded
  <1>1. IInv => RunsBounded
    BY TasksAssumption DEF IInv, TypeOK, RowsTyped, AttemptsPaid, RunsBounded
  <1> QED
    BY <1>1, Invariant, PTL

-------------------------------------------------------------------------------
(* The queue implements TaskBridge. *)

LEMMA StatusKept ==
    ASSUME UNCHANGED <<queued, processed, failed>>
    PROVE  UNCHANGED Statuses
  BY DEF Statuses, StatusOf

LEMMA StatusMoved ==
    ASSUME NEW t \in Tasks, NEW s, StatusOf(t)' = s,
           \A u \in Tasks \ {t} : StatusOf(u)' = StatusOf(u)
    PROVE  Statuses' = [Statuses EXCEPT ![t] = s]
  BY DEF Statuses

\* A step that closes no row and inserts none does not show, unless it carries
\* out the work of an open task.
LEMMA Carries ==
    ASSUME IInv, NEW r \in Runners, pc[r] = "dispatch", Carried(task[r]),
           UNCHANGED <<queued, processed, failed>>
    PROVE  Bridge!Next
  <1>1. /\ task[r] \in Tasks /\ Open(task[r])
        /\ ran[task[r]] < attempts[task[r]] /\ attempts[task[r]] <= MAX_ATTEMPTS
    BY DEF IInv, TypeOK, RowsTyped, AttemptsPaid, BatchOpen, Open, Working
  <1>2. ran[task[r]] < MAX_ATTEMPTS
    <2>1. ran[task[r]] \in Nat /\ attempts[task[r]] \in Nat /\ MAX_ATTEMPTS \in Nat
      BY <1>1, TasksAssumption DEF IInv, TypeOK, RowsTyped
    <2> QED
      BY <1>1, <2>1
  <1>3. Statuses[task[r]] = "queued"
    BY <1>1 DEF Statuses, StatusOf, Open
  <1>4. Bridge!Run(task[r])
    BY <1>2, <1>3, StatusKept DEF Bridge!Run, Carried
  <1> QED
    BY <1>1, <1>4 DEF Bridge!Next

LEMMA StepShows ==
    ASSUME IInv, NEW r \in Runners, Step(r)
    PROVE  Bridge!Next \/ UNCHANGED <<Statuses, ran>>
  <1>1. CASE \/ Launch(r) \/ Iterate(r) \/ Finished(r) \/ Take(r) \/ BatchDone(r) \/ Attempt(r)
    BY <1>1, StatusKept DEF Launch, Iterate, Finished, Take, BatchDone, Attempt, rows
  <1>2. CASE Dispatch(r)
    BY <1>2, StatusKept, Carries DEF Dispatch, rows
  <1>3. ASSUME pc[r] \in Working
        PROVE  /\ task[r] \in Tasks /\ Statuses[task[r]] = "queued"
               /\ task[r] \in queued \ (processed \union failed)
    BY <1>3 DEF IInv, TypeOK, RowsTyped, BatchOpen, Open, Working, Statuses, StatusOf
  <1>4. CASE Close(r)
    <2>1. CASE UNCHANGED processed
      BY <1>4, <2>1, StatusKept DEF Close
    <2>2. CASE processed' = processed \union {task[r]}
      <3>1. pc[r] \in Working /\ ran[task[r]] > 0 /\ UNCHANGED <<queued, failed, ran>>
        BY <1>4 DEF Close, Working, IInv, AttemptsPaid
      <3>2. Statuses' = [Statuses EXCEPT ![task[r]] = "done"]
        BY <1>3, <2>2, <3>1, StatusMoved DEF StatusOf
      <3> QED
        BY <1>3, <3>1, <3>2 DEF Bridge!Next, Bridge!Finish, Bridge!Moves
    <2> QED
      BY <1>4, <2>1, <2>2 DEF Close
  <1>5. CASE Catch(r)
    <2>1. CASE UNCHANGED failed
      BY <1>5, <2>1, StatusKept DEF Catch
    <2>2. CASE failed' = failed \union {task[r]}
      <3>1. pc[r] \in Working /\ UNCHANGED <<queued, processed, ran>>
        BY <1>5 DEF Catch, Working
      <3>2. Statuses' = [Statuses EXCEPT ![task[r]] = "abandoned"]
        BY <1>3, <2>2, <3>1, StatusMoved DEF StatusOf
      <3> QED
        BY <1>3, <3>1, <3>2 DEF Bridge!Next, Bridge!GiveUp, Bridge!Moves
    <2> QED
      BY <1>5, <2>1, <2>2 DEF Catch
  <1> QED
    BY <1>1, <1>2, <1>4, <1>5 DEF Step

LEMMA NextShows == IInv /\ [Next]_vars => [Bridge!Next]_<<Statuses, ran>>
  <1> SUFFICES ASSUME IInv, [Next]_vars
               PROVE  Bridge!Next \/ UNCHANGED <<Statuses, ran>>
    BY DEF Bridge!Next
  <1>1. ASSUME NEW r \in Runners, Step(r)
        PROVE  Bridge!Next \/ UNCHANGED <<Statuses, ran>>
    BY <1>1, StepShows
  <1>2. ASSUME NEW r \in Runners, Stop(r) \/ Crash(r)
        PROVE  Bridge!Next \/ UNCHANGED <<Statuses, ran>>
    <2>1. UNCHANGED <<queued, processed, failed>>
      BY <1>2 DEF Stop, Crash, rows
    <2>2. UNCHANGED ran \/ (pc[r] = "dispatch" /\ Carried(task[r]))
      BY <1>2 DEF Stop, Crash
    <2> QED
      BY <2>1, <2>2, StatusKept, Carries
  <1>3. ASSUME NEW t \in Tasks, Queue(t)
        PROVE  Bridge!Next
    <2>1. t \notin processed /\ t \notin failed /\ Statuses[t] = "none"
      BY <1>3 DEF Queue, IInv, TypeOK, RowsTyped, Statuses, StatusOf
    <2>2. Statuses' = [Statuses EXCEPT ![t] = "queued"]
      BY <1>3, <2>1, StatusMoved DEF Queue, StatusOf
    <2> QED
      BY <1>3, <2>1, <2>2 DEF Queue, Bridge!Next, Bridge!Queue, Bridge!Moves
  <1>4. CASE Tick \/ Press \/ Lift \/ UNCHANGED vars
    <2>1. UNCHANGED <<queued, processed, failed, ran>>
      BY <1>4 DEF Tick, Press, Lift, vars, rows
    <2> QED
      BY <2>1, StatusKept
  <1> QED
    BY <1>1, <1>2, <1>3, <1>4 DEF Next

\* The queue keeps the promise of TaskBridge: a task called done has been carried
\* out, and a closed task is never carried out again.
THEOREM Bridges == Spec => ImplementsBridge
  <1>1. Init => Bridge!Init
    BY DEF Init, Bridge!Init, Statuses, StatusOf
  <1> QED
    BY <1>1, Invariant, NextShows, PTL DEF Spec, ImplementsBridge, Bridge!Spec
===============================================================================
