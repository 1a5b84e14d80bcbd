----------------------------- MODULE TaskRunner -----------------------------
(***************************************************************************)
(* RunTasks of taskrunner/taskrunner.go on a pool of workers that the      *)
(* caller supplies: a queue without bound that a fixed number of workers   *)
(* serve.  Several calls may be on their way at once, and a task may call  *)
(* RunTasks on the same runner itself; such a call has the task's name.    *)
(***************************************************************************)
EXTENDS Integers, SequencesExt, FiniteSetsExt

CONSTANTS
  Callers,   \* goroutines that call RunTasks
  Tasks,
  TasksOf,   \* the tasks of each call, in order
  Workers    \* number of workers of the pool

\* Calls that can be made: those of Callers, and those of the tasks in Nesting.
Calls == DOMAIN TasksOf
Nesting == Calls \ Callers

ASSUME RunnerAssumption ==
  /\ Workers \in Nat \ {0}
  /\ Callers \subseteq Calls /\ Nesting \subseteq Tasks
  /\ \A c \in Calls : TasksOf[c] \in Seq(Tasks)
  /\ \A t \in Tasks : \E c \in Calls : \E i \in DOMAIN TasksOf[c] :
       /\ TasksOf[c][i] = t
       /\ \A d \in Calls : \A j \in DOMAIN TasksOf[d] :
            TasksOf[d][j] = t => d = c /\ j = i

VARIABLES
  submitted,  \* per call, the number of tasks submitted; -1 outside a call
  wg,         \* per call, its wait group
  errors,     \* per call, the errors collected
  queue,      \* tasks the pool has not begun
  running,    \* per task that a worker has, where it is
  failed      \* observer: per call, the tasks whose Run returned an error

runnerVars == <<submitted, wg, errors, queue, running, failed>>

CallOf(t) == CHOOSE c \in Calls : t \in ToSet(TasksOf[c])

RunnerTypeOK ==
  /\ \A c \in Calls : /\ submitted[c] \in -1..Len(TasksOf[c])
                      /\ wg[c] \in 0..Len(TasksOf[c])
                      /\ errors[c] \in Seq(ToSet(TasksOf[c]))
                      /\ failed[c] \subseteq ToSet(TasksOf[c])
  /\ queue \in Seq(Tasks)
  /\ DOMAIN running \subseteq Tasks
  /\ \A t \in DOMAIN running : running[t] \in {"run", "nested", "end", "failed", "done"}
  /\ Cardinality(DOMAIN running) <= Workers

NewRunner ==
  /\ submitted = [c \in Calls |-> -1]
  /\ wg = [c \in Calls |-> 0]
  /\ errors = [c \in Calls |-> <<>>]
  /\ queue = <<>>
  /\ running = <<>>
  /\ failed = [c \in Calls |-> {}]

-----------------------------------------------------------------------------
\* A call's wait group and list of errors are its own.
Begin(c) ==
  /\ submitted[c] = -1
  /\ submitted' = [submitted EXCEPT ![c] = 0]
  /\ wg' = [wg EXCEPT ![c] = Len(TasksOf[c])]
  /\ errors' = [errors EXCEPT ![c] = <<>>]
  /\ failed' = [failed EXCEPT ![c] = {}]

RunTasks(c) ==
  /\ c \in Callers
  /\ Begin(c)
  /\ UNCHANGED <<queue, running>>

\* The loop: each task is handed to the pool, which does not make it wait.
Submit(c) ==
  /\ submitted[c] \in 0..(Len(TasksOf[c]) - 1)
  /\ queue' = Append(queue, TasksOf[c][submitted[c] + 1])
  /\ submitted' = [submitted EXCEPT ![c] = @ + 1]
  /\ UNCHANGED <<wg, errors, running, failed>>

\* Mutated form: the call does not wait for what it has submitted.
WaitSubmitted(c) == submitted[c] = Len(TasksOf[c])

WaitOver(c) == submitted[c] = Len(TasksOf[c]) /\ wg[c] = 0

\* wg.Wait is over: the call returns its errors, to a caller or to a task.
Return(c) ==
  /\ WaitOver(c)
  /\ submitted' = [submitted EXCEPT ![c] = -1]
  /\ running' = IF c \in Nesting THEN [running EXCEPT ![c] = "end"] ELSE running
  /\ UNCHANGED <<wg, errors, queue, failed>>

\* A worker that is free takes the first task of the queue.
TakeTask ==
  /\ queue # <<>> /\ Cardinality(DOMAIN running) < Workers
  /\ running' = [t \in DOMAIN running \union {Head(queue)} |->
                   IF t = Head(queue) THEN "run" ELSE running[t]]
  /\ queue' = Tail(queue)
  /\ UNCHANGED <<submitted, wg, errors, failed>>

TaskGoto(t, from, to) ==
  /\ t \in DOMAIN running /\ running[t] \in from
  /\ running' = [running EXCEPT ![t] = to]

\* The task calls RunTasks on the runner that runs it.
NestedRunTasks(t) ==
  /\ t \in Nesting
  /\ TaskGoto(t, {"run"}, "nested")
  /\ Begin(t)
  /\ UNCHANGED queue

\* Its Run returns nil, or panics in a pool that goes on after panics.
TaskEnds(t) ==
  /\ TaskGoto(t, {"run", "end"}, "done")
  /\ UNCHANGED <<submitted, wg, errors, queue, failed>>

TaskFails(t) ==
  /\ TaskGoto(t, {"run", "end"}, "failed")
  /\ failed' = [failed EXCEPT ![CallOf(t)] = @ \union {t}]
  /\ UNCHANGED <<submitted, wg, errors, queue>>

\* The error is appended under mu.
AppendError(t) ==
  /\ TaskGoto(t, {"failed"}, "done")
  /\ errors' = [errors EXCEPT ![CallOf(t)] = Append(@, t)]
  /\ UNCHANGED <<submitted, wg, queue, failed>>

\* Mutated form: a task that failed returns without telling the wait group.
DoneUnlessFailed(t) ==
  /\ t \in DOMAIN running /\ running[t] = "done"
  /\ running' = [u \in DOMAIN running \ {t} |-> running[u]]
  /\ wg' = IF t \in failed[CallOf(t)] THEN wg ELSE [wg EXCEPT ![CallOf(t)] = @ - 1]
  /\ UNCHANGED <<submitted, errors, queue, failed>>

\* The deferred wg.Done, and the worker is free.
Done(t) ==
  /\ t \in DOMAIN running /\ running[t] = "done"
  /\ running' = [u \in DOMAIN running \ {t} |-> running[u]]
  /\ wg' = [wg EXCEPT ![CallOf(t)] = @ - 1]
  /\ UNCHANGED <<submitted, errors, queue, failed>>

RunnerNext ==
  \/ \E c \in Calls : RunTasks(c) \/ Submit(c) \/ Return(c)
  \/ TakeTask
  \/ \E t \in Tasks : \/ NestedRunTasks(t) \/ TaskEnds(t) \/ TaskFails(t)
                      \/ AppendError(t) \/ Done(t)

CallGoes(c) == Submit(c) \/ Return(c)
TaskGoes(t) == NestedRunTasks(t) \/ TaskEnds(t) \/ TaskFails(t) \/ AppendError(t) \/ Done(t)

(* Calls and workers that can go on do; the tasks themselves return.        *)
RunnerFairness ==
  /\ \A c \in Calls : WF_runnerVars(CallGoes(c))
  /\ WF_runnerVars(TakeTask)
  /\ \A t \in Tasks : WF_runnerVars(TaskGoes(t))

RunnerSpec == NewRunner /\ [][RunnerNext]_runnerVars /\ RunnerFairness

-----------------------------------------------------------------------------
(* When wg.Wait is over and a call is about to return, its list holds every *)
(* task that failed, each once and no other, although the tasks append in   *)
(* any order and next to those of other calls (taskrunner.go:46-53).        *)
ErrorsAreComplete ==
  \A c \in Calls : WaitOver(c) => /\ ToSet(errors[c]) = failed[c]
                                  /\ Len(errors[c]) = Cardinality(failed[c])

(* As an abstract fork and join: a task is not over as long as it is to be  *)
(* submitted, in the queue, or run by a worker that has not seen it return. *)
TasksIn == [c \in Calls |-> ToSet(TasksOf[c])]
OnTheirWay == {c \in Calls : submitted[c] # -1}
NotOver ==
  [c \in Calls |->
    {t \in TasksIn[c] :
       \/ c \in OnTheirWay /\ \E i \in (submitted[c] + 1)..Len(TasksOf[c]) : TasksOf[c][i] = t
       \/ t \in ToSet(queue)
       \/ t \in DOMAIN running /\ running[t] \notin {"failed", "done"}}]
Returned == [c \in Calls |-> IF c \in OnTheirWay THEN <<>> ELSE errors[c]]

FJ == INSTANCE ForkJoin WITH
  open <- OnTheirWay, left <- NotOver, failures <- failed, result <- Returned

(* RunTasks forks and joins (taskrunner.go:33-59): a call returns when all  *)
(* its tasks are over, those of the calls that these make included, and     *)
(* with the errors of its own tasks, although wait groups and lists only    *)
(* learn of a task after it has returned.                                   *)
ForksAndJoins == FJ!ForkJoinSpec

(* The one way to lock up: every worker has a task that waits in a nested   *)
(* RunTasks, and none is left to run what they wait for.                    *)
WorkersWaitNested ==
  Cardinality({t \in DOMAIN running : running[t] = "nested"}) = Workers

(* Otherwise RunTasks returns (taskrunner.go:56), whether tasks fail or not. *)
RunTasksReturns ==
  \A c \in Calls : submitted[c] # -1 ~> (submitted[c] = -1 \/ WorkersWaitNested)
=============================================================================
