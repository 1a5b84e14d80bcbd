------------------------------ MODULE ForkJoin ------------------------------
(***************************************************************************)
(* What RunTasks of taskrunner/taskrunner.go promises its callers, without *)
(* pool, wait group or list: a call lasts until each of its tasks is over, *)
(* a call that a task makes lasts no longer than that task, and a call     *)
(* returns the errors of the tasks that failed.                            *)
(***************************************************************************)
EXTENDS Integers, SequencesExt, FiniteSets

CONSTANTS
  Calls,    \* calls of RunTasks
  Nesting,  \* those that a task makes; such a call has the task's name
  TasksIn   \* the tasks of each call

VARIABLES
  open,      \* calls on their way
  left,      \* per call, its tasks that are not over
  failures,  \* per call, its tasks that failed
  result     \* per call, the errors it returned

promised == <<open, left, failures, result>>

ForkJoinInit ==
  /\ open = {}
  /\ left = [c \in Calls |-> {}]
  /\ failures = [c \in Calls |-> {}]
  /\ result = [c \in Calls |-> <<>>]

Fork(c) ==
  /\ c \notin open
  /\ c \in Nesting => \E d \in open : c \in left[d]
  /\ open' = open \union {c}
  /\ left' = [left EXCEPT ![c] = TasksIn[c]]
  /\ failures' = [failures EXCEPT ![c] = {}]
  /\ result' = [result EXCEPT ![c] = <<>>]

\* A task is over, with an error or without, and no call it made is on its way.
TaskOver(c, t) ==
  /\ c \in open /\ t \in left[c] /\ t \notin Nesting \intersect open
  /\ left' = [left EXCEPT ![c] = @ \ {t}]
  /\ failures' \in {failures, [failures EXCEPT ![c] = @ \union {t}]}
  /\ UNCHANGED <<open, result>>

Join(c) ==
  /\ c \in open /\ left[c] = {}
  /\ open' = open \ {c}
  /\ result' = [result EXCEPT ![c] = result'[c]]
  /\ ToSet(result'[c]) = failures[c] /\ Len(result'[c]) = Cardinality(failures[c])
  /\ UNCHANGED <<left, failures>>

ForkJoinNext ==
  \E c \in Calls : Fork(c) \/ Join(c) \/ \E t \in TasksIn[c] : TaskOver(c, t)

ForkJoinSpec == ForkJoinInit /\ [][ForkJoinNext]_promised
=============================================================================
