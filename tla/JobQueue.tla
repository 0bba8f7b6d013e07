------------------------------ MODULE JobQueue ------------------------------
(***************************************************************************)
(* The durable job queue of the worker: the tables job_queue and job_dlq,  *)
(* PostgresJobQueue over them, the WorkerDispatcher that executes jobs,    *)
(* the stop path of worker.main, and the administration endpoints on the   *)
(* dead-letter table.                                                      *)
(*                                                                         *)
(* A "submission" is one insertion of a job from outside the dispatcher (a *)
(* webhook, the outbox of an admin transaction, or a requeue from the DLQ).*)
(* Retries of a submission keep its name; rows get new uuids in the code,  *)
(* but only a DLQ row's id is ever looked up, and a submission enters the  *)
(* DLQ at most once, so the submission also names its DLQ row.             *)
(*                                                                         *)
(* Every writer inserts with Priority.NORMAL, so ORDER BY priority,        *)
(* created_at is order of creation.                                        *)
(***************************************************************************)
EXTENDS Integers, FiniteSets

CONSTANTS Subs,            \* names of submissions, numbered in order of creation
          Workers,         \* worker processes
          Admins,          \* concurrent requests on the DLQ endpoints
          MaxRetries,      \* WorkerDispatcher.max_retries
          MaxConcurrency,  \* WorkerDispatcher.max_concurrency
          MaxStops         \* bound on the number of worker stops explored

ASSUME SubsAssumption == Subs \subseteq Nat
ASSUME RetriesAssumption == MaxRetries \in Nat \ {0}
ASSUME BoundsAssumption == MaxConcurrency \in Nat \ {0} /\ MaxStops \in Nat

VARIABLES
  queue,   \* rows of job_queue
  dlq,     \* rows of job_dlq
  phase,   \* "up", "stopping" (SIGTERM seen) or "down", per worker
  claim,   \* the row locked by a worker's open dequeue transaction, if any
  tasks,   \* the _run_job coroutines of a worker
  req,     \* administration requests that have read and not yet committed
  clock,   \* source of created_at
  stops,   \* worker stops so far
  fate,    \* history: what became of each submission ("swept": removed by requeue-all, unread)
  runs,    \* history: how often the handler was entered for it
  parent   \* history: the DLQ entry a submission was requeued from

vars == <<queue, dlq, phase, claim, tasks, req, clock, stops, fate, runs, parent>>

NoParent == -1

\* A kind some handler is registered for, or one this release does not know
\* (the API containers are replaced before the worker's).
Kinds == {"known", "unknown"}

Row   == [sub : Subs, kind : Kinds, attempt : 1..MaxRetries, at : Nat]
Task  == [sub : Subs, kind : Kinds, attempt : 1..MaxRetries,
          pc : {"waiting", "handling", "backoff", "burying"}]
Entry == [sub : Subs, kind : Kinds, attempt : 1..MaxRetries]
Request == [op : {"idle", "one", "all"}, entries : SUBSET Entry]

Ended == {"done", "dropped", "deleted", "requeued", "swept", "cancelled", "crashed"}

Idle == [op |-> "idle", entries |-> {}]

SubsOf(S) == {x.sub : x \in S}

Init ==
  /\ queue = {} /\ dlq = {}
  /\ phase = [w \in Workers |-> "up"]
  /\ claim = [w \in Workers |-> {}]
  /\ tasks = [w \in Workers |-> {}]
  /\ req = [a \in Admins |-> Idle]
  /\ clock = 0 /\ stops = 0
  /\ fate = [g \in Subs |-> "none"]
  /\ runs = [g \in Subs |-> 0]
  /\ parent = [g \in Subs |-> NoParent]

-----------------------------------------------------------------------------
(* Insertion *)

Unused == {g \in Subs : fate[g] = "none"}

\* The n oldest names still unused are the next ones given out.
NextNames(S) == S \subseteq Unused /\ \A g \in S, h \in Unused : h < g => h \in S

\* enqueue: a fresh row with attempt 1.
Enqueue(g, kind) ==
  /\ NextNames({g}) /\ g \in Unused
  /\ queue' = queue \cup {[sub |-> g, kind |-> kind, attempt |-> 1, at |-> clock]}
  /\ clock' = clock + 1
  /\ fate' = [fate EXCEPT ![g] = "live"]
  /\ UNCHANGED <<dlq, phase, claim, tasks, req, stops, runs, parent>>

-----------------------------------------------------------------------------
(* Dispatcher *)

Locked == UNION {claim[w] : w \in Workers}

\* Faulty variant: FOR UPDATE SKIP LOCKED is missing.
OldestLockedToo == {r \in queue : \A s \in queue : r.at <= s.at}

\* What SELECT ... ORDER BY ... FOR UPDATE SKIP LOCKED LIMIT 1 may return.
Oldest == {r \in queue \ Locked : \A s \in queue \ Locked : r.at <= s.at}

\* The DELETE statement of dequeue, not yet committed.
Claim(w) ==
  /\ phase[w] = "up" /\ claim[w] = {}
  /\ \E r \in Oldest : claim' = [claim EXCEPT ![w] = {r}]
  /\ UNCHANGED <<queue, dlq, phase, tasks, req, clock, stops, fate, runs, parent>>

\* The coroutine of an envelope (a row or an earlier step of the same coroutine).
TaskAt(x, pc) == [sub |-> x.sub, kind |-> x.kind, attempt |-> x.attempt, pc |-> pc]

\* The commit of dequeue and the start of _run_job, which returns at once for a
\* kind without handler: the row is gone and nothing has been executed.
CommitDequeue(w) ==
  \E r \in claim[w] :
     /\ phase[w] # "down"
     /\ queue' = queue \ {r}
     /\ claim' = [claim EXCEPT ![w] = {}]
     /\ IF r.kind = "known"
          THEN /\ tasks' = [tasks EXCEPT ![w] = @ \cup {TaskAt(r, "waiting")}]
               /\ fate' = fate
          ELSE /\ fate' = [fate EXCEPT ![r.sub] = "dropped"]
               /\ tasks' = tasks
     /\ UNCHANGED <<dlq, phase, req, clock, stops, runs, parent>>

Replace(w, t, pc) ==
  tasks' = [tasks EXCEPT ![w] = (@ \ {t}) \cup {TaskAt(t, pc)}]

\* Faulty variant: the semaphore is created one permit short.
StartHandlerShort(w, t) ==
  /\ phase[w] # "down" /\ t.pc = "waiting"
  /\ Cardinality({u \in tasks[w] : u.pc = "handling"}) < MaxConcurrency - 1
  /\ Replace(w, t, "handling")
  /\ runs' = [runs EXCEPT ![t.sub] = @ + 1]
  /\ UNCHANGED <<queue, dlq, phase, claim, req, clock, stops, fate, parent>>

\* async with self._sem: await handler(payload).
StartHandler(w, t) ==
  /\ phase[w] # "down" /\ t.pc = "waiting"
  /\ Cardinality({u \in tasks[w] : u.pc = "handling"}) < MaxConcurrency
  /\ Replace(w, t, "handling")
  /\ runs' = [runs EXCEPT ![t.sub] = @ + 1]
  /\ UNCHANGED <<queue, dlq, phase, claim, req, clock, stops, fate, parent>>

Succeed(w, t) ==
  /\ phase[w] # "down" /\ t.pc = "handling"
  /\ tasks' = [tasks EXCEPT ![w] = @ \ {t}]
  /\ fate' = [fate EXCEPT ![t.sub] = "done"]
  /\ UNCHANGED <<queue, dlq, phase, claim, req, clock, stops, runs, parent>>

\* Faulty variants: a last failure leaves nothing behind; one retry too few.
FailForgets(w, t) ==
  /\ phase[w] # "down" /\ t.pc = "handling"
  /\ IF t.attempt < MaxRetries THEN Replace(w, t, "backoff")
                               ELSE tasks' = [tasks EXCEPT ![w] = @ \ {t}]
  /\ UNCHANGED <<queue, dlq, phase, claim, req, clock, stops, fate, runs, parent>>

FailEarly(w, t) ==
  /\ phase[w] # "down" /\ t.pc = "handling"
  /\ Replace(w, t, IF t.attempt + 1 < MaxRetries THEN "backoff" ELSE "burying")
  /\ UNCHANGED <<queue, dlq, phase, claim, req, clock, stops, fate, runs, parent>>

\* The handler raised: sleep and retry, or give up.
Fail(w, t) ==
  /\ phase[w] # "down" /\ t.pc = "handling"
  /\ Replace(w, t, IF t.attempt < MaxRetries THEN "backoff" ELSE "burying")
  /\ UNCHANGED <<queue, dlq, phase, claim, req, clock, stops, fate, runs, parent>>

\* Faulty variant: the attempt number is advanced twice.
NackBeyond(w, t) ==
  /\ phase[w] # "down" /\ t.pc = "backoff"
  /\ tasks' = [tasks EXCEPT ![w] = @ \ {t}]
  /\ queue' = queue \cup {[sub |-> t.sub, kind |-> t.kind,
                           attempt |-> t.attempt + 2, at |-> clock]}
  /\ clock' = clock + 1
  /\ UNCHANGED <<dlq, phase, claim, req, stops, fate, runs, parent>>

\* nack after the back-off: a new row with the next attempt number.
Nack(w, t) ==
  /\ phase[w] # "down" /\ t.pc = "backoff"
  /\ tasks' = [tasks EXCEPT ![w] = @ \ {t}]
  /\ queue' = queue \cup {[sub |-> t.sub, kind |-> t.kind,
                           attempt |-> t.attempt + 1, at |-> clock]}
  /\ clock' = clock + 1
  /\ UNCHANGED <<dlq, phase, claim, req, stops, fate, runs, parent>>

ToDlq(w, t) ==
  /\ phase[w] # "down" /\ t.pc = "burying"
  /\ tasks' = [tasks EXCEPT ![w] = @ \ {t}]
  /\ dlq' = dlq \cup {[sub |-> t.sub, kind |-> t.kind, attempt |-> t.attempt]}
  /\ UNCHANGED <<queue, phase, claim, req, clock, stops, fate, runs, parent>>

-----------------------------------------------------------------------------
(* Stop and restart of a worker *)

\* The open dequeue transaction rolls back; every coroutine is abandoned.
LoseTasks(w, why) ==
  /\ phase' = [phase EXCEPT ![w] = "down"]
  /\ claim' = [claim EXCEPT ![w] = {}]
  /\ tasks' = [tasks EXCEPT ![w] = {}]
  /\ fate' = [g \in Subs |-> IF g \in SubsOf(tasks[w]) THEN why ELSE fate[g]]
  /\ UNCHANGED <<queue, dlq, req, clock, runs, parent>>

\* _sigterm sets the event; stop_task is the first of the three to complete.
Sigterm(w) ==
  /\ phase[w] = "up" /\ stops < MaxStops
  /\ phase' = [phase EXCEPT ![w] = "stopping"]
  /\ stops' = stops + 1
  /\ UNCHANGED <<queue, dlq, claim, tasks, req, clock, fate, runs, parent>>

\* main then cancels the dispatcher task, and with it the task group's children:
\* CancelledError is no Exception, so neither nack nor to_dlq runs.
CancelTasks(w) ==
  /\ phase[w] = "stopping"
  /\ LoseTasks(w, "cancelled")
  /\ stops' = stops

\* The process is killed, or a database error in dequeue, nack or to_dlq leaves
\* the task group: it cancels the siblings and main returns.
Abort(w) ==
  /\ phase[w] # "down" /\ stops < MaxStops
  /\ LoseTasks(w, "crashed")
  /\ stops' = stops + 1

\* The container's restart policy.
Start(w) ==
  /\ phase[w] = "down"
  /\ phase' = [phase EXCEPT ![w] = "up"]
  /\ UNCHANGED <<queue, dlq, claim, tasks, req, clock, stops, fate, runs, parent>>

-----------------------------------------------------------------------------
(* Administration of the DLQ *)

\* delete_dlq_entry.
DeleteEntry(e) ==
  /\ dlq' = dlq \ {e}
  /\ fate' = [fate EXCEPT ![e.sub] = "deleted"]
  /\ UNCHANGED <<queue, phase, claim, tasks, req, clock, stops, runs, parent>>

\* requeue_dlq_entry and requeue_all_dlq: the SELECT.
SelectOne(a, e) ==
  /\ req[a].op = "idle"
  /\ req' = [req EXCEPT ![a] = [op |-> "one", entries |-> {e}]]
  /\ UNCHANGED <<queue, dlq, phase, claim, tasks, clock, stops, fate, runs, parent>>

SelectAll(a) ==
  /\ req[a].op = "idle" /\ dlq # {}
  /\ req' = [req EXCEPT ![a] = [op |-> "all", entries |-> dlq]]
  /\ UNCHANGED <<queue, dlq, phase, claim, tasks, clock, stops, fate, runs, parent>>

\* The rows the request's DELETE statement removes: the row it read, if it is still
\* there, or, for requeue-all, whatever the table holds by then.
Doomed(a) == IF req[a].op = "all" THEN dlq ELSE dlq \cap req[a].entries

\* DELETE, INSERT and commit: one new submission for every entry read.
CommitRequeue(a) ==
  /\ req[a].op # "idle"
  /\ \E child \in [SubsOf(req[a].entries) -> Unused] :
       LET new == {child[g] : g \in DOMAIN child} IN
       /\ \A g, h \in DOMAIN child : child[g] = child[h] => g = h
       /\ NextNames(new)
       /\ queue' = queue \cup {[sub |-> child[e.sub], kind |-> e.kind, attempt |-> 1,
                                at |-> clock] : e \in req[a].entries}
       /\ dlq' = dlq \ Doomed(a)
       /\ fate' = [g \in Subs |->
                     IF g \in new THEN "live"
                     ELSE IF g \in SubsOf(Doomed(a))
                       THEN IF g \in DOMAIN child THEN "requeued" ELSE "swept"
                     ELSE fate[g]]
       /\ parent' = [h \in Subs |->
                       IF h \in new THEN CHOOSE g \in DOMAIN child : child[g] = h
                                    ELSE parent[h]]
  /\ clock' = clock + 1
  /\ req' = [req EXCEPT ![a] = Idle]
  /\ UNCHANGED <<phase, claim, tasks, stops, runs>>

-----------------------------------------------------------------------------
Dispatch(w) ==
  \/ Claim(w) \/ CommitDequeue(w)
  \/ \E t \in tasks[w] : \/ StartHandler(w, t) \/ Succeed(w, t) \/ Fail(w, t)
                         \/ Nack(w, t) \/ ToDlq(w, t)

Stop(w) == Sigterm(w) \/ CancelTasks(w) \/ Abort(w) \/ Start(w)

Administer(a) ==
  SelectAll(a) \/ CommitRequeue(a) \/ \E e \in dlq : SelectOne(a, e)

Next ==
  \/ \E g \in Subs, kind \in Kinds : Enqueue(g, kind)
  \/ \E w \in Workers : Dispatch(w) \/ Stop(w)
  \/ \E a \in Admins : Administer(a)
  \/ \E e \in dlq : DeleteEntry(e)

Spec == Init /\ [][Next]_vars

\* The event loop keeps stepping every coroutine and every handler returns or
\* raises (its I/O has timeouts); the container is restarted.
Fairness ==
  \A w \in Workers :
    /\ WF_vars(Claim(w)) /\ WF_vars(CommitDequeue(w))
    /\ WF_vars(CancelTasks(w)) /\ WF_vars(Start(w))
    /\ WF_vars(\E t \in tasks[w] : StartHandler(w, t))
    /\ \A g \in Subs :
         /\ WF_vars(\E t \in tasks[w] : t.sub = g /\ (Succeed(w, t) \/ Fail(w, t)))
         /\ WF_vars(\E t \in tasks[w] : t.sub = g /\ (Nack(w, t) \/ ToDlq(w, t)))

FairSpec == Spec /\ Fairness
-----------------------------------------------------------------------------
(* Properties *)

TypeOK ==
  /\ queue \subseteq Row /\ dlq \subseteq Entry
  /\ phase \in [Workers -> {"up", "stopping", "down"}]
  /\ claim \in [Workers -> SUBSET Row]
  /\ tasks \in [Workers -> SUBSET Task]
  /\ req \in [Admins -> Request]
  /\ clock \in Nat /\ stops \in Nat
  /\ fate \in [Subs -> {"none", "live"} \cup Ended]
  /\ runs \in [Subs -> Nat]
  /\ parent \in [Subs -> Subs \cup {NoParent}]

InQueue(g) == g \in SubsOf(queue)
InTask(g)  == \E w \in Workers : g \in SubsOf(tasks[w])
InDlq(g)   == g \in SubsOf(dlq)

OneEach(S) == \A x, y \in S : x.sub = y.sub => x = y

\* No job vanishes and none is forgotten: a submission is unaccounted for (its fate
\* is "live") exactly while job_queue, job_dlq or a coroutine still holds it, whatever
\* the interleaving of dequeues, retries, stops and DLQ requests.
Conserved ==
  \A g \in Subs : fate[g] = "live" <=> InQueue(g) \/ InTask(g) \/ InDlq(g)

\* A submission is never held twice: not by two rows, two coroutines, two workers, nor by a
\* table and a coroutine. SKIP LOCKED plus the delete before processing exclude double execution.
HeldOnce ==
  /\ \A g \in Subs : /\ ~(InQueue(g) /\ InTask(g)) /\ ~(InQueue(g) /\ InDlq(g))
                     /\ ~(InTask(g) /\ InDlq(g))
  /\ OneEach(queue) /\ OneEach(dlq)
  /\ \A w \in Workers : OneEach(tasks[w])
  /\ \A v, w \in Workers : v # w => SubsOf(tasks[v]) \cap SubsOf(tasks[w]) = {}

\* The attempt number counts handler executions: a row with attempt n has been executed
\* n-1 times, and a job reaches the DLQ after exactly MaxRetries executions, never fewer.
AttemptsCount ==
  /\ \A r \in queue : runs[r.sub] = r.attempt - 1
  /\ \A w \in Workers : \A t \in tasks[w] :
        runs[t.sub] = IF t.pc = "waiting" THEN t.attempt - 1 ELSE t.attempt
  /\ \A e \in dlq : e.attempt = MaxRetries /\ runs[e.sub] = MaxRetries

\* A DLQ entry that a requeue request read and removed lives on in a new submission.
RequeuedLivesOn ==
  \A g \in Subs : fate[g] = "requeued" => \E h \in Subs : parent[h] = g /\ fate[h] # "none"

\* Once a submission has ended (handled, dropped, deleted, requeued or lost) its handler
\* is never entered again on its behalf.
EndedNeverRuns ==
  [][\A g \in Subs : fate[g] \in Ended => fate'[g] = fate[g] /\ runs'[g] = runs[g]]_vars

\* Every submission is eventually executed to an end or parked in the DLQ, as long as
\* workers are stopped finitely often.
Settles ==
  \A g \in Subs : fate[g] = "live" ~> (fate[g] # "live" \/ InDlq(g))

\* Where a submission is, for those who enqueue: in a worker's hands, at one of the coroutine's
\* stages, in one of the tables, or ended.
InHandAt(g, stages) == \E w \in Workers : \E t \in tasks[w] : t.sub = g /\ t.pc \in stages

Place(g) ==
  IF InHandAt(g, {"waiting"}) THEN "taken"
  ELSE IF InHandAt(g, {"handling"}) THEN "running"
  ELSE IF InTask(g) THEN "failed"
  ELSE IF InDlq(g) THEN "parked"
  ELSE IF InQueue(g) THEN "queued"
  ELSE fate[g]

Promise == INSTANCE JobPromise WITH place <- [g \in Subs |-> Place(g)], tries <- runs

\* The tables, the workers and the DLQ endpoints together keep the queue's promise: every step of
\* theirs is one of JobPromise's or is not seen by those who enqueue.
KeepsPromise == Promise!Spec

=============================================================================
