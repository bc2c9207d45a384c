--------------------------- MODULE BackgroundTasks ----------------------------
(***************************************************************************)
(* The background_tasks table and queue:background-tasks, the command that *)
(* drains it.  The Go API and the batch tier insert rows; a run of the     *)
(* command is launched every minute, holds a file lock, and works through  *)
(* the due rows in order of created_at, a batch at a time.                 *)
(*                                                                         *)
(* A task is identified with its created_at, so tasks are numbers and      *)
(* their order is the order they are taken in.  A handler is one step: it  *)
(* either does its work, or throws before or after doing it.               *)
(***************************************************************************)
EXTENDS Integers, FiniteSets

CONSTANTS
    Tasks,         \* created_at of every row that may be inserted
    Emails,        \* the rows of email types that a lockdown steps over
    Faulty,        \* the rows whose handler always throws
    Runners,       \* the processes the scheduler may launch
    MAX_ATTEMPTS,
    Limit,         \* --limit, the size of one batch
    MaxIterations, \* --max-iterations, the batches of one run
    Faults,        \* the kinds of fault the environment may inject
    MaxFaults      \* how many faults it may inject in one behaviour

FaultKinds == {"crash", "stop", "throw", "db", "lockdown"}

ASSUME TasksAssumption ==
    /\ Tasks \subseteq Nat /\ IsFiniteSet(Tasks) /\ Tasks # {}
    /\ Emails \subseteq Tasks /\ Faulty \subseteq Tasks
    /\ MAX_ATTEMPTS \in Nat \ {0} /\ Limit \in Nat \ {0} /\ MaxIterations \in Nat \ {0}
    /\ Faults \subseteq FaultKinds /\ MaxFaults \in Nat

ASSUME RunnersAssumption == "nobody" \notin Runners

VARIABLES
    now,        \* the database clock
    queued,     \* the rows inserted so far
    attempts,   \* the attempts column
    processed,  \* rows with processed_at set
    failed,     \* rows with failed_at set
    held,       \* the lockdown switch holds email
    lock,       \* who holds the command's file lock
    pc,         \* each runner's next step
    todo,       \* the rows of its batch still to do
    seen,       \* the attempts column as its SELECT read it
    task,       \* the row it is working on
    iteration,  \* batches started in this run
    ran,        \* how often each row's work has been carried out
    budget      \* faults left to inject

rows    == <<now, queued, attempts, processed, failed>>
runners == <<lock, pc, todo, seen, task, iteration>>
vars    == <<rows, runners, held, ran, budget>>

PCs == {"off", "loop", "next", "attempt", "dispatch", "close", "catch"}

Closed == processed \union failed

Init ==
    /\ now = 0 /\ queued = {} /\ processed = {} /\ failed = {}
    /\ attempts = [t \in Tasks |-> 0]
    /\ held = FALSE /\ lock = "nobody"
    /\ pc = [r \in Runners |-> "off"]
    /\ todo = [r \in Runners |-> {}]
    /\ seen = [r \in Runners |-> [t \in Tasks |-> 0]]
    /\ task = [r \in Runners |-> 0]
    /\ iteration = [r \in Runners |-> 0]
    /\ ran = [t \in Tasks |-> 0]
    /\ budget = MaxFaults

Fault(kind) == kind \in Faults /\ budget > 0 /\ budget' = budget - 1

Goto(r, label) == pc' = [pc EXCEPT ![r] = label]

\* The process is over: its lock is released, by finally or by the kernel.
Over(r) == /\ Goto(r, "off") /\ lock' = "nobody"
           /\ todo' = [todo EXCEPT ![r] = {}]
           /\ UNCHANGED <<seen, task, iteration>>

-------------------------------------------------------------------------------
\* QueueTask() and the batch tier's own inserts.  A retry is inserted with a
\* created_at still to come; a row may also become visible late, when its
\* transaction commits.
Queue(t) ==
    /\ t \notin queued /\ queued' = queued \union {t}
    /\ UNCHANGED <<now, attempts, processed, failed, runners, held, ran, budget>>

Tick ==
    /\ \E t \in Tasks : now < t
    /\ now' = now + 1
    /\ UNCHANGED <<queued, attempts, processed, failed, runners, held, ran, budget>>

Press == /\ ~held /\ Fault("lockdown") /\ held' = TRUE
         /\ UNCHANGED <<rows, runners, ran>>
Lift  == /\ held /\ held' = FALSE
         /\ UNCHANGED <<rows, runners, ran, budget>>

-------------------------------------------------------------------------------
\* Mutant: the lock is not looked at.
Launch_NoLock(r) ==
    /\ pc[r] = "off" /\ lock' = r
    /\ iteration' = [iteration EXCEPT ![r] = 0]
    /\ Goto(r, "loop")
    /\ UNCHANGED <<rows, todo, seen, task, held, ran, budget>>

\* The scheduler launches a run; one that finds the lock taken exits at once.
Launch(r) ==
    /\ pc[r] = "off" /\ lock = "nobody" /\ lock' = r
    /\ iteration' = [iteration EXCEPT ![r] = 0]
    /\ Goto(r, "loop")
    /\ UNCHANGED <<rows, todo, seen, task, held, ran, budget>>

\* Mutant: the SELECT forgets the attempts condition.
Due_Spent == {t \in queued \ Closed : t <= now}

\* The SELECT: open, not spent, due.
Due == {t \in queued \ Closed : attempts[t] < MAX_ATTEMPTS /\ t <= now}

\* Its ORDER BY created_at LIMIT.
Batch(D) == {t \in D : Cardinality({u \in D : u < t}) < Limit}

Iterate(r) ==
    /\ pc[r] = "loop" /\ iteration[r] < MaxIterations
    /\ iteration' = [iteration EXCEPT ![r] = @ + 1]
    /\ todo' = [todo EXCEPT ![r] = Batch(Due)]
    /\ seen' = [seen EXCEPT ![r] = attempts]
    /\ Goto(r, "next")
    /\ UNCHANGED <<rows, lock, task, held, ran, budget>>

\* --max-iterations is reached.
Finished(r) ==
    /\ pc[r] = "loop" /\ iteration[r] = MaxIterations /\ Over(r)
    /\ UNCHANGED <<rows, held, ran, budget>>

\* Email the lockdown holds is stepped over, and left as it is.
Take(r) ==
    /\ pc[r] = "next"
    /\ \E t \in todo[r] :
          /\ \A u \in todo[r] : t <= u
          /\ todo' = [todo EXCEPT ![r] = @ \ {t}]
          /\ \/ /\ t \in Emails /\ held
                /\ UNCHANGED <<pc, task>>
             \/ /\ ~(t \in Emails /\ held)
                /\ task' = [task EXCEPT ![r] = t] /\ Goto(r, "attempt")
    /\ UNCHANGED <<rows, lock, seen, iteration, held, ran, budget>>

BatchDone(r) ==
    /\ pc[r] = "next" /\ todo[r] = {} /\ Goto(r, "loop")
    /\ UNCHANGED <<rows, lock, todo, seen, task, iteration, held, ran, budget>>

\* Mutant: the attempt is not counted.
Attempt_Uncounted(r) ==
    /\ pc[r] = "attempt" /\ Goto(r, "dispatch")
    /\ UNCHANGED <<rows, lock, todo, seen, task, iteration, held, ran, budget>>

\* increment('attempts'), committed before the work is started.
Attempt(r) ==
    /\ pc[r] = "attempt"
    /\ \/ /\ attempts' = [attempts EXCEPT ![task[r]] = @ + 1]
          /\ Goto(r, "dispatch") /\ UNCHANGED budget
       \/ /\ Fault("db") /\ Goto(r, "catch") /\ UNCHANGED attempts
    /\ UNCHANGED <<now, queued, processed, failed, lock, todo, seen, task, iteration, held, ran>>

Carried(t) == ran' = [ran EXCEPT ![t] = @ + 1]

\* dispatchTask(): the handler works, throws, or works and then throws.
Dispatch(r) ==
    /\ pc[r] = "dispatch"
    /\ \/ task[r] \notin Faulty /\ Carried(task[r]) /\ Goto(r, "close") /\ UNCHANGED budget
       \/ task[r] \in Faulty /\ Goto(r, "catch") /\ UNCHANGED <<ran, budget>>
       \/ Fault("throw") /\ Goto(r, "catch") /\ (UNCHANGED ran \/ Carried(task[r]))
    /\ UNCHANGED <<rows, lock, todo, seen, task, iteration, held>>

Close(r) ==
    /\ pc[r] = "close"
    /\ \/ processed' = processed \union {task[r]} /\ Goto(r, "next") /\ UNCHANGED budget
       \/ Fault("db") /\ Goto(r, "catch") /\ UNCHANGED processed
    /\ UNCHANGED <<now, queued, attempts, failed, lock, todo, seen, task, iteration, held, ran>>

\* The catch block's test, on the count its SELECT read plus the attempt just made.
GivesUp(r) == seen[r][task[r]] + 1 >= MAX_ATTEMPTS

\* The catch block; its own update may throw too, which ends the run.
Catch(r) ==
    /\ pc[r] = "catch"
    /\ \/ /\ failed' = IF GivesUp(r) THEN failed \union {task[r]} ELSE failed
          /\ Goto(r, "next")
          /\ UNCHANGED <<lock, todo, seen, task, iteration, budget>>
       \/ /\ Fault("db") /\ Over(r) /\ UNCHANGED failed
    /\ UNCHANGED <<now, queued, attempts, processed, held, ran>>

\* shouldStop(), looked at before each batch and before each row.
Stop(r) ==
    /\ pc[r] \in {"loop", "next"} /\ Fault("stop") /\ Over(r)
    /\ UNCHANGED <<rows, held, ran>>

\* A kill, or a fatal error that bypasses try/catch; a handler may or may not
\* have done its work by then.
Crash(r) ==
    /\ pc[r] # "off" /\ Fault("crash") /\ Over(r)
    /\ \/ UNCHANGED ran
       \/ pc[r] = "dispatch" /\ task[r] \notin Faulty /\ Carried(task[r])
    /\ UNCHANGED <<rows, held>>

-------------------------------------------------------------------------------
Step(r) ==
    \/ Launch(r) \/ Iterate(r) \/ Finished(r) \/ Take(r) \/ BatchDone(r)
    \/ Attempt(r) \/ Dispatch(r) \/ Close(r) \/ Catch(r)

Next ==
    \/ \E r \in Runners : Step(r) \/ Stop(r) \/ Crash(r)
    \/ \E t \in Tasks : Queue(t)
    \/ Tick \/ Press \/ Lift

Spec == Init /\ [][Next]_vars

\* The scheduler launches a run every minute and a run takes its next step; the
\* clock moves on.
Fairness == /\ WF_vars(\E r \in Runners : Launch(r))
            /\ \A r \in Runners : WF_vars(pc[r] # "off" /\ Step(r))
            /\ WF_vars(Tick)

FairSpec == Spec /\ Fairness

\* A lockdown is in the end lifted.
LiftedSpec == FairSpec /\ WF_vars(Lift)

-------------------------------------------------------------------------------
(* Properties *)

\* The shape of the state: only the holder of the lock is running, and the rows
\* it still has to do are open ones that it read with attempts left.
RowsTyped ==
    /\ now \in Nat /\ queued \subseteq Tasks
    /\ processed \subseteq queued /\ failed \subseteq queued
    /\ attempts \in [Tasks -> Nat] /\ ran \in [Tasks -> Nat]
    /\ held \in BOOLEAN /\ budget \in Nat
RunnersTyped ==
    /\ lock \in Runners \union {"nobody"}
    /\ pc \in [Runners -> PCs] /\ todo \in [Runners -> SUBSET Tasks]
    /\ seen \in [Runners -> [Tasks -> Nat]]
    /\ task \in [Runners -> Nat] /\ iteration \in [Runners -> Nat]
OneAtATime == \A r \in Runners : pc[r] # "off" => lock = r
TypeOK == RowsTyped /\ RunnersTyped /\ OneAtATime

\* A task's work is never carried out more than MAX_ATTEMPTS times, whatever
\* crashes, throws or fails to be recorded: the attempt is spent before the work
\* is started, and only one run works at a time.
RunsBounded == \A t \in Tasks : ran[t] <= MAX_ATTEMPTS

\* The queue keeps the promise of TaskBridge: done means carried out, and a task
\* that has been closed, either way, is never carried out again.
StatusOf(t) == IF t \in processed THEN "done"
               ELSE IF t \in failed THEN "abandoned"
               ELSE IF t \in queued THEN "queued" ELSE "none"
Statuses == [t \in Tasks |-> StatusOf(t)]
Bridge == INSTANCE TaskBridge WITH Max <- MAX_ATTEMPTS, status <- Statuses, runs <- ran
ImplementsBridge == Bridge!Spec

\* Every queued task is in the end closed or has used up its attempts, over every
\* kind of fault, if lockdowns are lifted.
EveryTaskEnds == \A t \in Tasks : t \in queued ~> t \in Closed \/ attempts[t] = MAX_ATTEMPTS
===============================================================================
