--------------------------- MODULE TaskSequentializer ---------------------------
(***************************************************************************)
(* The TaskSequentializer of base/common/async.ts: one task that runs, known *)
(* by an id, and at most one that is queued, the last of those that came.  *)
(***************************************************************************)
EXTENDS Integers

CONSTANT NoTask

\* A sequentializer: the id of the running task and what cancels it, and what
\* the queued task is to do.
Sequentializers(Ids, Cancels, Tasks) ==
    [running : [id : Ids, cancel : Cancels] \cup {NoTask}, queued : Tasks \cup {NoTask}]

NewSequentializer == [running |-> NoTask, queued |-> NoTask]

IsRunning(q) == q.running # NoTask
IsRunningId(q, id) == IsRunning(q) /\ q.running.id = id

Run(q, id, cancel) == [q EXCEPT !.running = [id |-> id, cancel |-> cancel]]

Queue(q, task) == [q EXCEPT !.queued = task]

\* doneRunning, by the id of the task that is done, and runQueued: the queued
\* task is taken out, and is to be run by whoever looks at it.
Done(q, id) == IF IsRunningId(q, id) THEN NewSequentializer ELSE q
Released(q, id) == IF IsRunningId(q, id) THEN q.queued ELSE NoTask
=================================================================================
