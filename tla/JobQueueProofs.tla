--------------------------- MODULE JobQueueProofs ---------------------------
(***************************************************************************)
(* Proofs about JobQueue, for every value of its constants.                *)
(*                                                                         *)
(* The inductive invariant is Ledger. Conserved and HeldOnce need each     *)
(* other, and both need Book: a locked row is still in the table and has   *)
(* one owner, a request never names an unused submission. AttemptsCount    *)
(* needs HeldOnce (a handler execution is counted for one row only) and    *)
(* PcOK (the branch taken after a failure).                                *)
(*                                                                         *)
(* The second part proves that JobQueue implements JobPromise.             *)
(* A submission's place is read off the one row, coroutine or DLQ entry    *)
(* that holds it. By Ledger there is exactly one while its fate is "live"  *)
(* (Whereabouts); a step moves the submissions whose holders it touches    *)
(* and no other (Unmoved). The guards of JobPromise on the number of tries *)
(* are those of AttemptsCount and PcOK.                                    *)
(***************************************************************************)
EXTENDS JobQueue, TLAPS

\* The branch _run_job takes after a failure is decided by the attempt number.
PcOK == \A w \in Workers : \A t \in tasks[w] :
          /\ t.pc = "backoff" => t.attempt < MaxRetries
          /\ t.pc = "burying" => t.attempt = MaxRetries

TInv == TypeOK /\ PcOK

\* Adding one to a counter of a family of counters.
LEMMA CounterStep ==
  ASSUME NEW S, NEW f \in [S -> Nat], NEW x \in S
  PROVE  [f EXCEPT ![x] = @ + 1] \in [S -> Nat]
  OBVIOUS

\* Every step of the queue, of a worker or of an administrator keeps the type
\* invariant: in particular nack never writes an attempt number beyond MaxRetries.
LEMMA TypeStep == TInv /\ [Next]_vars => TInv'
<1> SUFFICES ASSUME TInv, [Next]_vars PROVE TInv'
  OBVIOUS
<1> USE SubsAssumption, RetriesAssumption, BoundsAssumption DEF TInv
<1>1. ASSUME NEW g \in Subs, NEW kind \in Kinds, Enqueue(g, kind) PROVE TInv'
  BY <1>1 DEF TypeOK, PcOK, Enqueue, Unused, Row, Entry, Task, Request, Kinds, Ended, SubsOf
<1>2. ASSUME NEW w \in Workers, Claim(w) PROVE TInv'
  BY <1>2 DEF TypeOK, PcOK, Claim, Oldest, Locked, Row, Entry, Task, Request, Kinds, Ended, SubsOf
<1>3. ASSUME NEW w \in Workers, CommitDequeue(w) PROVE TInv'
  <2>1. PICK r \in claim[w] :
          /\ queue' = queue \ {r}
          /\ claim' = [claim EXCEPT ![w] = {}]
          /\ \/ /\ tasks' = [tasks EXCEPT ![w] = @ \cup {TaskAt(r, "waiting")}]
                /\ fate' = fate
             \/ /\ fate' = [fate EXCEPT ![r.sub] = "dropped"]
                /\ tasks' = tasks
          /\ UNCHANGED <<dlq, phase, req, clock, stops, runs, parent>>
    BY <1>3 DEF CommitDequeue
  <2>2. TaskAt(r, "waiting") \in Task /\ TaskAt(r, "waiting").pc = "waiting"
    BY DEF TypeOK, Row, Task, TaskAt
  <2>3. tasks' \in [Workers -> SUBSET Task] /\ PcOK'
    BY <2>1, <2>2 DEF TypeOK, PcOK
  <2> QED
    BY <2>1, <2>3 DEF TypeOK, Ended
<1>4. ASSUME NEW w \in Workers, NEW t \in tasks[w], StartHandler(w, t) PROVE TInv'
  <2>1. TaskAt(t, "handling") \in Task /\ TaskAt(t, "handling").pc = "handling"
    BY DEF TypeOK, Task, TaskAt
  <2>2. tasks' \in [Workers -> SUBSET Task] /\ PcOK'
    BY <1>4, <2>1 DEF TypeOK, PcOK, StartHandler, Replace
  <2>3. t.sub \in Subs
    BY DEF TypeOK, Task
  <2>4. /\ runs' = [runs EXCEPT ![t.sub] = @ + 1]
        /\ UNCHANGED <<queue, dlq, phase, claim, req, clock, stops, fate, parent>>
    BY <1>4 DEF StartHandler
  <2>5. runs' \in [Subs -> Nat]
    <3>1. runs \in [Subs -> Nat]
      BY DEF TypeOK
    <3> QED
      BY ONLY <2>3, <2>4, <3>1, CounterStep
  <2> QED
    BY <2>2, <2>4, <2>5 DEF TypeOK
<1>5. ASSUME NEW w \in Workers, NEW t \in tasks[w], Succeed(w, t) PROVE TInv'
  BY <1>5 DEF TypeOK, PcOK, Succeed, Row, Entry, Task, Request, Kinds, Ended, SubsOf
<1>6. ASSUME NEW w \in Workers, NEW t \in tasks[w], Fail(w, t) PROVE TInv'
  <2>1. PICK pc \in {"backoff", "burying"} :
          /\ pc = "backoff" => t.attempt < MaxRetries
          /\ pc = "burying" => ~(t.attempt < MaxRetries)
          /\ Replace(w, t, pc)
    BY <1>6 DEF Fail
  <2>2. t \in Task /\ t.attempt \in 1..MaxRetries
    BY DEF TypeOK, Task
  <2>3. /\ TaskAt(t, pc) \in Task
        /\ TaskAt(t, pc).pc = pc /\ TaskAt(t, pc).attempt = t.attempt
    BY <2>2 DEF Task, TaskAt
  <2>4. tasks' \in [Workers -> SUBSET Task] /\ PcOK'
    BY <2>1, <2>2, <2>3 DEF TypeOK, PcOK, Replace
  <2> QED
    BY <1>6, <2>4 DEF TypeOK, Fail
<1>7. ASSUME NEW w \in Workers, NEW t \in tasks[w], Nack(w, t) PROVE TInv'
  BY <1>7 DEF TypeOK, PcOK, Nack, Row, Entry, Task, Request, Kinds, Ended, SubsOf
<1>8. ASSUME NEW w \in Workers, NEW t \in tasks[w], ToDlq(w, t) PROVE TInv'
  BY <1>8 DEF TypeOK, PcOK, ToDlq, Row, Entry, Task, Request, Kinds, Ended, SubsOf
<1>9. ASSUME NEW w \in Workers, Sigterm(w) PROVE TInv'
  BY <1>9 DEF TypeOK, PcOK, Sigterm, Row, Entry, Task, Request, Kinds, Ended, SubsOf
<1>10. ASSUME NEW w \in Workers, CancelTasks(w) PROVE TInv'
  BY <1>10 DEF TypeOK, PcOK, CancelTasks, LoseTasks, Row, Entry, Task, Request, Kinds, Ended, SubsOf
<1>11. ASSUME NEW w \in Workers, Abort(w) PROVE TInv'
  BY <1>11 DEF TypeOK, PcOK, Abort, LoseTasks, Row, Entry, Task, Request, Kinds, Ended, SubsOf
<1>12. ASSUME NEW w \in Workers, Start(w) PROVE TInv'
  BY <1>12 DEF TypeOK, PcOK, Start, Row, Entry, Task, Request, Kinds, Ended, SubsOf
<1>13. ASSUME NEW e \in dlq, DeleteEntry(e) PROVE TInv'
  BY <1>13 DEF TypeOK, PcOK, DeleteEntry, Row, Entry, Task, Request, Kinds, Ended, SubsOf
<1>14. ASSUME NEW a \in Admins, NEW e \in dlq, SelectOne(a, e) PROVE TInv'
  BY <1>14 DEF TypeOK, PcOK, SelectOne, Row, Entry, Task, Request, Kinds, Ended, SubsOf
<1>15. ASSUME NEW a \in Admins, SelectAll(a) PROVE TInv'
  BY <1>15 DEF TypeOK, PcOK, SelectAll, Row, Entry, Task, Request, Kinds, Ended, SubsOf
<1>16. ASSUME NEW a \in Admins, CommitRequeue(a) PROVE TInv'
  <2> DEFINE E == req[a].entries
  <2>1. PICK child \in [SubsOf(E) -> Unused] :
          LET new == {child[g] : g \in DOMAIN child} IN
          /\ \A g, h \in DOMAIN child : child[g] = child[h] => g = h
          /\ queue' = queue \cup {[sub |-> child[e.sub], kind |-> e.kind, attempt |-> 1,
                                at |-> clock] : e \in E}
          /\ fate' = [g \in Subs |->
                     IF g \in new THEN "live"
                     ELSE IF g \in SubsOf(Doomed(a))
                       THEN IF g \in DOMAIN child THEN "requeued" ELSE "swept"
                     ELSE fate[g]]
          /\ parent' = [h \in Subs |->
                       IF h \in new THEN CHOOSE g \in DOMAIN child : child[g] = h
                                    ELSE parent[h]]
    BY <1>16 DEF CommitRequeue
  <2>2. E \subseteq Entry /\ SubsOf(E) \subseteq Subs /\ Unused \subseteq Subs
    BY DEF TypeOK, Request, Entry, SubsOf, Unused
  <2>3. queue' \subseteq Row
    <3>1. \A e \in E : child[e.sub] \in Subs /\ e.kind \in Kinds
      BY <2>2 DEF Entry, SubsOf
    <3> QED
      BY <2>1, <3>1 DEF TypeOK, Row
  <2>4. parent' \in [Subs -> Subs \cup {NoParent}]
    BY <2>1, <2>2 DEF TypeOK
  <2>5. fate' \in [Subs -> {"none", "live"} \cup Ended]
    BY <2>1 DEF TypeOK, Ended
  <2>6. req' \in [Admins -> Request]
    BY <1>16 DEF CommitRequeue, TypeOK, Request, Idle
  <2>7. dlq' \subseteq dlq /\ clock' = clock + 1
        /\ UNCHANGED <<phase, claim, tasks, stops, runs>>
    BY <1>16 DEF CommitRequeue
  <2> QED
    BY <2>3, <2>4, <2>5, <2>6, <2>7 DEF TypeOK, PcOK
<1>17. CASE UNCHANGED vars
  BY <1>17 DEF vars, TypeOK, PcOK
<1> QED
  BY <1>1, <1>2, <1>3, <1>4, <1>5, <1>6, <1>7, <1>8, <1>9, <1>10, <1>11, <1>12, <1>13, <1>14, <1>15, <1>16, <1>17 DEF Next, Dispatch, Stop, Administer

\* A locked row is in the table and locked once; an unused submission was never run; a
\* request holds one entry per submission, all of submissions already in use.
Book ==
  /\ \A w \in Workers : claim[w] \subseteq queue
  /\ \A v, w \in Workers : \A r \in claim[v] : r \in claim[w] => v = w
  /\ \A g \in Subs : fate[g] = "none" => runs[g] = 0
  /\ \A a \in Admins : /\ OneEach(req[a].entries)
                       /\ \A e \in req[a].entries : fate[e.sub] # "none"

\* Inserting an element with a new submission keeps a table free of duplicates.
LEMMA AddOne ==
  ASSUME NEW S, NEW x, OneEach(S), x.sub \notin SubsOf(S)
  PROVE  OneEach(S \cup {x}) /\ SubsOf(S \cup {x}) = SubsOf(S) \cup {x.sub}
  BY DEF OneEach, SubsOf

\* Deleting the only element of a submission deletes exactly that submission.
LEMMA RemoveOne ==
  ASSUME NEW S, NEW x \in S, OneEach(S)
  PROVE  /\ OneEach(S \ {x}) /\ SubsOf(S \ {x}) = SubsOf(S) \ {x.sub}
         /\ x.sub \in SubsOf(S)
  BY DEF OneEach, SubsOf

\* Replacing an element by another of the same submission changes no holder.
LEMMA SwapOne ==
  ASSUME NEW S, NEW x \in S, NEW y, y.sub = x.sub, OneEach(S)
  PROVE  OneEach((S \ {x}) \cup {y}) /\ SubsOf((S \ {x}) \cup {y}) = SubsOf(S)
  BY DEF OneEach, SubsOf

\* TaskAt carries the submission and the attempt over and sets the program counter.
LEMMA TaskAtFields ==
  ASSUME NEW x, NEW pc
  PROVE  /\ TaskAt(x, pc).sub = x.sub /\ TaskAt(x, pc).attempt = x.attempt
         /\ TaskAt(x, pc).pc = pc
  BY DEF TaskAt

\* A coroutine that ends frees its submission in its own worker and nowhere else.
LEMMA TaskRemoved ==
  ASSUME TypeOK, HeldOnce, NEW w \in Workers, NEW t \in tasks[w],
         tasks' = [tasks EXCEPT ![w] = @ \ {t}]
  PROVE  /\ t.sub \in Subs /\ t.sub \in SubsOf(tasks[w])
         /\ \A v \in Workers : OneEach(tasks'[v])
         /\ SubsOf(tasks'[w]) = SubsOf(tasks[w]) \ {t.sub}
         /\ \A v \in Workers : v # w => SubsOf(tasks'[v]) = SubsOf(tasks[v])
<1>1. tasks'[w] = tasks[w] \ {t} /\ \A v \in Workers : v # w => tasks'[v] = tasks[v]
  BY DEF TypeOK
<1>2. \A v \in Workers : OneEach(tasks[v])
  BY DEF HeldOnce
<1>3. OneEach(tasks[w])
  BY <1>2
<1>4. /\ OneEach(tasks[w] \ {t}) /\ SubsOf(tasks[w] \ {t}) = SubsOf(tasks[w]) \ {t.sub}
      /\ t.sub \in SubsOf(tasks[w])
  BY <1>3, RemoveOne
<1>5. t.sub \in Subs
  BY DEF TypeOK, Task
<1> QED
  BY <1>1, <1>2, <1>4, <1>5

\* A coroutine started for a submission the worker does not hold adds just that one.
LEMMA TaskAdded ==
  ASSUME TypeOK, HeldOnce, NEW w \in Workers, NEW x, x.sub \notin SubsOf(tasks[w]),
         tasks' = [tasks EXCEPT ![w] = @ \cup {x}]
  PROVE  /\ \A v \in Workers : OneEach(tasks'[v])
         /\ SubsOf(tasks'[w]) = SubsOf(tasks[w]) \cup {x.sub}
         /\ \A v \in Workers : v # w => SubsOf(tasks'[v]) = SubsOf(tasks[v])
<1>1. tasks'[w] = tasks[w] \cup {x} /\ \A v \in Workers : v # w => tasks'[v] = tasks[v]
  BY DEF TypeOK
<1>2. \A v \in Workers : OneEach(tasks[v])
  BY DEF HeldOnce
<1>3. OneEach(tasks[w])
  BY <1>2
<1>4. /\ OneEach(tasks[w] \cup {x})
      /\ SubsOf(tasks[w] \cup {x}) = SubsOf(tasks[w]) \cup {x.sub}
  BY <1>3, AddOne
<1> QED
  BY <1>1, <1>2, <1>4

\* A coroutine that moves on to its next await changes no holder.
LEMMA TaskReplaced ==
  ASSUME TypeOK, HeldOnce, NEW w \in Workers, NEW t \in tasks[w], NEW pc, Replace(w, t, pc)
  PROVE  /\ \A v \in Workers : OneEach(tasks'[v])
         /\ \A v \in Workers : SubsOf(tasks'[v]) = SubsOf(tasks[v])
<1>1. /\ tasks'[w] = (tasks[w] \ {t}) \cup {TaskAt(t, pc)}
      /\ \A v \in Workers : v # w => tasks'[v] = tasks[v]
  BY DEF TypeOK, Replace
<1>2. \A v \in Workers : OneEach(tasks[v])
  BY DEF HeldOnce
<1>3. OneEach(tasks[w]) /\ TaskAt(t, pc).sub = t.sub
  BY <1>2 DEF TaskAt
<1>4. /\ OneEach((tasks[w] \ {t}) \cup {TaskAt(t, pc)})
      /\ SubsOf((tasks[w] \ {t}) \cup {TaskAt(t, pc)}) = SubsOf(tasks[w])
  BY <1>3, SwapOne
<1> QED
  BY <1>1, <1>2, <1>4

\* The two halves of the ledger, proved together.
Held == Conserved /\ HeldOnce

\* Every step keeps each unfinished submission in exactly one place.
LEMMA HeldStep == TInv /\ Held /\ Book /\ [Next]_vars => Held'
<1> SUFFICES ASSUME TInv, Held, Book, [Next]_vars PROVE Held'
  OBVIOUS
<1> USE DEF TInv, Held
<1>1. ASSUME NEW g \in Subs, NEW kind \in Kinds, Enqueue(g, kind) PROVE Held'
  <2>1. PICK r : r.sub = g /\ queue' = queue \cup {r}
    BY <1>1 DEF Enqueue
  <2>2. OneEach(queue) /\ g \notin SubsOf(queue)
    BY <1>1 DEF Enqueue, Unused, Conserved, InQueue, HeldOnce
  <2>3. OneEach(queue') /\ SubsOf(queue') = SubsOf(queue) \cup {g}
    BY ONLY <2>1, <2>2, AddOne
  <2>4. fate' = [fate EXCEPT ![g] = "live"] /\ fate[g] = "none"
        /\ dlq' = dlq /\ tasks' = tasks
    BY <1>1 DEF Enqueue, Unused
  <2> QED
    BY <2>3, <2>4 DEF Conserved, HeldOnce, InQueue, InTask, InDlq, TypeOK
<1>5. ASSUME NEW w \in Workers, NEW t \in tasks[w], Succeed(w, t) PROVE Held'
  <2>1. /\ tasks' = [tasks EXCEPT ![w] = @ \ {t}]
        /\ fate' = [fate EXCEPT ![t.sub] = "done"]
        /\ queue' = queue /\ dlq' = dlq
    BY <1>5 DEF Succeed
  <2>2. PICK x \in Subs :
          /\ x = t.sub /\ x \in SubsOf(tasks[w])
          /\ \A v \in Workers : OneEach(tasks'[v])
          /\ SubsOf(tasks'[w]) = SubsOf(tasks[w]) \ {x}
          /\ \A v \in Workers : v # w => SubsOf(tasks'[v]) = SubsOf(tasks[v])
    BY <2>1, TaskRemoved
  <2>3. fate' = [fate EXCEPT ![x] = "done"] /\ queue' = queue /\ dlq' = dlq
    BY <2>1, <2>2
  <2>4. ~InQueue(x) /\ ~InDlq(x) /\ \A v \in Workers : v # w => x \notin SubsOf(tasks[v])
    BY <2>2 DEF HeldOnce, InTask
  <2>5. Conserved'
    BY <2>2, <2>3, <2>4 DEF Conserved, InQueue, InTask, InDlq, TypeOK
  <2>6. HeldOnce'
    BY <2>2, <2>3, <2>4 DEF HeldOnce, InQueue, InTask, InDlq
  <2> QED
    BY <2>5, <2>6
<1>2. ASSUME UNCHANGED <<queue, dlq, tasks, fate>> PROVE Held'
  BY <1>2 DEF Conserved, HeldOnce, InQueue, InTask, InDlq
<1>3. ASSUME NEW w \in Workers, CommitDequeue(w) PROVE Held'
  <2>1. PICK r \in claim[w] :
          /\ queue' = queue \ {r} /\ dlq' = dlq
          /\ \/ /\ tasks' = [tasks EXCEPT ![w] = @ \cup {TaskAt(r, "waiting")}]
                /\ fate' = fate
             \/ fate' = [fate EXCEPT ![r.sub] = "dropped"] /\ tasks' = tasks
    BY <1>3 DEF CommitDequeue
  <2>2. r \in queue /\ r.sub \in Subs
    BY DEF Book, TypeOK, Row
  <2>3. OneEach(queue)
    BY DEF HeldOnce
  <2>4. /\ OneEach(queue \ {r}) /\ SubsOf(queue \ {r}) = SubsOf(queue) \ {r.sub}
        /\ r.sub \in SubsOf(queue)
    BY <2>2, <2>3, RemoveOne
  <2>5. PICK x \in Subs :
          /\ x = r.sub /\ x \in SubsOf(queue)
          /\ OneEach(queue') /\ SubsOf(queue') = SubsOf(queue) \ {x}
    BY <2>1, <2>2, <2>4
  <2>6. ~InDlq(x) /\ \A v \in Workers : x \notin SubsOf(tasks[v])
    BY <2>5 DEF HeldOnce, InTask, InQueue
  <2>7. CASE tasks' = [tasks EXCEPT ![w] = @ \cup {TaskAt(r, "waiting")}] /\ fate' = fate
    <3>1. TaskAt(r, "waiting").sub = x
      BY <2>5 DEF TaskAt
    <3>2. /\ \A v \in Workers : OneEach(tasks'[v])
          /\ SubsOf(tasks'[w]) = SubsOf(tasks[w]) \cup {x}
          /\ \A v \in Workers : v # w => SubsOf(tasks'[v]) = SubsOf(tasks[v])
      BY <2>6, <2>7, <3>1, TaskAdded
    <3>3. fate' = fate /\ dlq' = dlq
      BY <2>1, <2>7
    <3>4. Conserved'
      BY <2>5, <2>6, <3>2, <3>3 DEF Conserved, InQueue, InTask, InDlq
    <3>5. HeldOnce'
      BY <2>5, <2>6, <3>2, <3>3 DEF HeldOnce, InQueue, InTask, InDlq
    <3> QED
      BY <3>4, <3>5
  <2>8. CASE fate' = [fate EXCEPT ![r.sub] = "dropped"] /\ tasks' = tasks
    <3>1. fate' = [fate EXCEPT ![x] = "dropped"] /\ dlq' = dlq /\ tasks' = tasks
      BY <2>1, <2>5, <2>8
    <3>2. Conserved'
      BY <2>5, <2>6, <3>1 DEF Conserved, InQueue, InTask, InDlq, TypeOK
    <3>3. HeldOnce'
      BY <2>5, <2>6, <3>1 DEF HeldOnce, InQueue, InTask, InDlq
    <3> QED
      BY <3>2, <3>3
  <2> QED
    BY <2>1, <2>7, <2>8
<1>4. ASSUME NEW w \in Workers, NEW t \in tasks[w], NEW pc, Replace(w, t, pc),
             UNCHANGED <<queue, dlq, fate>>
      PROVE  Held'
  <2>1. /\ \A v \in Workers : OneEach(tasks'[v])
        /\ \A v \in Workers : SubsOf(tasks'[v]) = SubsOf(tasks[v])
    BY <1>4, TaskReplaced
  <2>2. UNCHANGED <<queue, dlq, fate>>
    BY <1>4
  <2> QED
    BY <2>1, <2>2 DEF Conserved, HeldOnce, InQueue, InTask, InDlq
<1>6. ASSUME NEW w \in Workers, NEW t \in tasks[w], Nack(w, t) PROVE Held'
  <2>1. PICK r : r.sub = t.sub /\ queue' = queue \cup {r}
    BY <1>6 DEF Nack
  <2>2. tasks' = [tasks EXCEPT ![w] = @ \ {t}] /\ fate' = fate /\ dlq' = dlq
    BY <1>6 DEF Nack
  <2>3. PICK x \in Subs :
          /\ x = t.sub /\ x \in SubsOf(tasks[w])
          /\ \A v \in Workers : OneEach(tasks'[v])
          /\ SubsOf(tasks'[w]) = SubsOf(tasks[w]) \ {x}
          /\ \A v \in Workers : v # w => SubsOf(tasks'[v]) = SubsOf(tasks[v])
    BY <2>2, TaskRemoved
  <2>4. /\ x \notin SubsOf(queue) /\ ~InDlq(x) /\ OneEach(queue)
        /\ \A v \in Workers : v # w => x \notin SubsOf(tasks[v])
    BY <2>3 DEF HeldOnce, InTask, InQueue
  <2>5. OneEach(queue') /\ SubsOf(queue') = SubsOf(queue) \cup {x}
    <3>1. queue' = queue \cup {r} /\ r.sub = x
      BY <2>1, <2>3
    <3>2. OneEach(queue) /\ r.sub \notin SubsOf(queue)
      BY <2>4, <3>1
    <3> QED
      BY ONLY <3>1, <3>2, AddOne
  <2>6. fate' = fate /\ dlq' = dlq
    BY <2>2
  <2>7. Conserved'
    BY <2>3, <2>4, <2>5, <2>6 DEF Conserved, InQueue, InTask, InDlq
  <2>8. HeldOnce'
    BY <2>3, <2>4, <2>5, <2>6 DEF HeldOnce, InQueue, InTask, InDlq
  <2> QED
    BY <2>7, <2>8
<1>7. ASSUME NEW w \in Workers, NEW t \in tasks[w], ToDlq(w, t) PROVE Held'
  <2>1. PICK r : r.sub = t.sub /\ dlq' = dlq \cup {r}
    BY <1>7 DEF ToDlq
  <2>2. tasks' = [tasks EXCEPT ![w] = @ \ {t}] /\ fate' = fate /\ queue' = queue
    BY <1>7 DEF ToDlq
  <2>3. PICK x \in Subs :
          /\ x = t.sub /\ x \in SubsOf(tasks[w])
          /\ \A v \in Workers : OneEach(tasks'[v])
          /\ SubsOf(tasks'[w]) = SubsOf(tasks[w]) \ {x}
          /\ \A v \in Workers : v # w => SubsOf(tasks'[v]) = SubsOf(tasks[v])
    BY <2>2, TaskRemoved
  <2>4. /\ x \notin SubsOf(dlq) /\ ~InQueue(x) /\ OneEach(dlq)
        /\ \A v \in Workers : v # w => x \notin SubsOf(tasks[v])
    BY <2>3 DEF HeldOnce, InTask, InDlq
  <2>5. OneEach(dlq') /\ SubsOf(dlq') = SubsOf(dlq) \cup {x}
    <3>1. dlq' = dlq \cup {r} /\ r.sub = x
      BY <2>1, <2>3
    <3>2. OneEach(dlq) /\ r.sub \notin SubsOf(dlq)
      BY <2>4, <3>1
    <3> QED
      BY ONLY <3>1, <3>2, AddOne
  <2>6. fate' = fate /\ queue' = queue
    BY <2>2
  <2>7. Conserved'
    BY <2>3, <2>4, <2>5, <2>6 DEF Conserved, InQueue, InTask, InDlq
  <2>8. HeldOnce'
    BY <2>3, <2>4, <2>5, <2>6 DEF HeldOnce, InQueue, InTask, InDlq
  <2> QED
    BY <2>7, <2>8
<1>8. ASSUME NEW w \in Workers, NEW why \in {"cancelled", "crashed"}, LoseTasks(w, why)
      PROVE  Held'
  <2>1. /\ tasks'[w] = {} /\ \A v \in Workers : v # w => tasks'[v] = tasks[v]
        /\ fate' = [g \in Subs |-> IF g \in SubsOf(tasks[w]) THEN why ELSE fate[g]]
        /\ queue' = queue /\ dlq' = dlq
    BY <1>8 DEF LoseTasks, TypeOK
  <2>2. SubsOf({}) = {} /\ OneEach({})
    BY DEF SubsOf, OneEach
  <2>3. Conserved'
    BY <2>1, <2>2 DEF Conserved, HeldOnce, InQueue, InTask, InDlq
  <2>4. HeldOnce'
    BY <2>1, <2>2 DEF HeldOnce, InQueue, InTask, InDlq
  <2> QED
    BY <2>3, <2>4
<1>9. ASSUME NEW e \in dlq, DeleteEntry(e) PROVE Held'
  <2>1. OneEach(dlq) /\ e.sub \in Subs
    BY DEF HeldOnce, TypeOK, Entry
  <2>2. PICK x \in Subs : /\ x = e.sub /\ x \in SubsOf(dlq)
                          /\ OneEach(dlq \ {e}) /\ SubsOf(dlq \ {e}) = SubsOf(dlq) \ {x}
    BY <2>1, RemoveOne
  <2>3. /\ fate' = [fate EXCEPT ![x] = "deleted"] /\ queue' = queue /\ tasks' = tasks
        /\ dlq' = dlq \ {e}
    BY <1>9, <2>2 DEF DeleteEntry
  <2>4. ~InQueue(x) /\ ~InTask(x)
    BY <2>2 DEF HeldOnce, InDlq
  <2>5. Conserved'
    BY <2>2, <2>3, <2>4 DEF Conserved, InQueue, InTask, InDlq, TypeOK
  <2>6. HeldOnce'
    BY <2>2, <2>3, <2>4 DEF HeldOnce, InQueue, InTask, InDlq
  <2> QED
    BY <2>5, <2>6
<1>10. ASSUME NEW a \in Admins, CommitRequeue(a) PROVE Held'
  <2> DEFINE E == req[a].entries
             row(child, e) == [sub |-> child[e.sub], kind |-> e.kind, attempt |-> 1,
                               at |-> clock]
  <2>1. PICK child \in [SubsOf(E) -> Unused] :
          LET new == {child[g] : g \in DOMAIN child} IN
          /\ \A g, h \in DOMAIN child : child[g] = child[h] => g = h
          /\ queue' = queue \cup {row(child, e) : e \in E}
          /\ dlq' = dlq \ Doomed(a)
          /\ fate' = [g \in Subs |->
                     IF g \in new THEN "live"
                     ELSE IF g \in SubsOf(Doomed(a))
                       THEN IF g \in DOMAIN child THEN "requeued" ELSE "swept"
                     ELSE fate[g]]
    BY <1>10 DEF CommitRequeue
  <2> DEFINE new == {child[g] : g \in SubsOf(E)}
             rows == {row(child, e) : e \in E}
             gone == SubsOf(Doomed(a))
  <2>2. /\ \A g \in new : g \in Subs /\ fate[g] = "none"
        /\ \A g \in new : g \notin SubsOf(queue) /\ ~InTask(g) /\ ~InDlq(g)
    BY <2>1 DEF Unused, Conserved, InQueue
  <2>3. OneEach(rows)
    <3>1. OneEach(E)
      BY DEF Book
    <3> SUFFICES ASSUME NEW e \in E, NEW f \in E, child[e.sub] = child[f.sub]
                 PROVE  row(child, e) = row(child, f)
      BY DEF OneEach
    <3>2. e.sub = f.sub
      BY <2>1 DEF SubsOf
    <3> QED
      BY <3>1, <3>2 DEF OneEach
  <2>4. SubsOf(rows) = new
    <3>1. \A e \in E : e.sub \in SubsOf(E) /\ row(child, e).sub = child[e.sub]
      BY DEF SubsOf
    <3>2. \A g \in SubsOf(E) : \E e \in E : e.sub = g
      BY DEF SubsOf
    <3>3. \A x \in SubsOf(rows) : x \in new
      BY <3>1 DEF SubsOf
    <3>4. \A x \in new : x \in SubsOf(rows)
      <4> SUFFICES ASSUME NEW g \in SubsOf(E) PROVE child[g] \in SubsOf(rows)
        OBVIOUS
      <4>1. PICK e \in E : e.sub = g
        BY <3>2
      <4>2. row(child, e) \in rows /\ row(child, e).sub = child[g]
        BY <4>1
      <4> HIDE DEF rows, row
      <4> QED
        BY <4>2 DEF SubsOf
    <3> QED
      BY <3>3, <3>4
  <2>5. OneEach(queue) /\ OneEach(dlq) /\ \A r \in queue : r.sub \in SubsOf(queue)
    BY DEF HeldOnce, SubsOf
  <2>6. queue' = queue \cup rows
    BY <2>1
  <2>7. OneEach(queue') /\ SubsOf(queue') = SubsOf(queue) \cup new
    <3>1. \A r \in rows : r.sub \in new
      BY <2>4 DEF SubsOf
    <3>2. OneEach(queue')
      BY <2>2, <2>3, <2>5, <2>6, <3>1 DEF OneEach
    <3>3. SubsOf(queue') = SubsOf(queue) \cup SubsOf(rows)
      BY <2>6 DEF SubsOf
    <3> QED
      BY <2>4, <3>2, <3>3
  <2>8. Doomed(a) \subseteq dlq /\ dlq' = dlq \ Doomed(a)
    BY <2>1 DEF Doomed
  <2>9. OneEach(dlq') /\ SubsOf(dlq') = SubsOf(dlq) \ gone /\ gone \subseteq SubsOf(dlq)
    BY <2>5, <2>8 DEF OneEach, SubsOf
  <2>10. /\ \A g \in Subs : fate'[g] = "live" <=> g \in new \/ (g \notin gone /\ fate[g] = "live")
         /\ tasks' = tasks
    BY <1>10, <2>1 DEF CommitRequeue
  <2> HIDE DEF new, rows, gone, E
  <2>11. Conserved'
    BY <2>2, <2>7, <2>9, <2>10 DEF Conserved, HeldOnce, InQueue, InTask, InDlq
  <2>12. HeldOnce'
    BY <2>2, <2>7, <2>9, <2>10 DEF HeldOnce, InQueue, InTask, InDlq
  <2> QED
    BY <2>11, <2>12
<1>11. CASE UNCHANGED vars
  BY <1>2, <1>11 DEF vars
<1> QED
  <2>1. ASSUME NEW w \in Workers, Dispatch(w) PROVE Held'
    <3>1. CASE Claim(w)
      BY <1>2, <3>1 DEF Claim
    <3>2. ASSUME NEW t \in tasks[w], StartHandler(w, t) \/ Fail(w, t) PROVE Held'
      BY <1>4, <3>2 DEF StartHandler, Fail
    <3> QED
      BY <1>3, <1>5, <1>6, <1>7, <2>1, <3>1, <3>2 DEF Dispatch
  <2>2. ASSUME NEW w \in Workers, Stop(w) PROVE Held'
    BY <1>2, <1>8, <2>2 DEF Stop, Sigterm, CancelTasks, Abort, Start
  <2>3. ASSUME NEW a \in Admins, Administer(a) PROVE Held'
    BY <1>2, <1>10, <2>3 DEF Administer, SelectAll, SelectOne
  <2> QED
    BY <1>1, <1>9, <1>11, <2>1, <2>2, <2>3 DEF Next

\* Every step keeps the bookkeeping facts of Book.
LEMMA BookStep == TInv /\ Held /\ Book /\ [Next]_vars => Book'
<1> SUFFICES ASSUME TInv, Held, Book, [Next]_vars PROVE Book'
  OBVIOUS
<1> USE DEF TInv, Held
<1>1. ASSUME NEW g \in Subs, NEW kind \in Kinds, Enqueue(g, kind) PROVE Book'
  BY <1>1 DEF Enqueue, Book, TypeOK
<1>2. ASSUME NEW w \in Workers, Claim(w) PROVE Book'
  <2>1. PICK r \in queue : r \notin Locked /\ claim' = [claim EXCEPT ![w] = {r}]
    BY <1>2 DEF Claim, Oldest
  <2>2. \A v \in Workers : r \notin claim[v]
    BY <2>1 DEF Locked
  <2>3. UNCHANGED <<queue, fate, runs, req>>
    BY <1>2 DEF Claim
  <2> QED
    BY <2>1, <2>2, <2>3 DEF Book, TypeOK
<1>3. ASSUME NEW w \in Workers, CommitDequeue(w) PROVE Book'
  <2>1. PICK r \in claim[w] :
          /\ queue' = queue \ {r} /\ claim' = [claim EXCEPT ![w] = {}]
          /\ fate' = fate \/ fate' = [fate EXCEPT ![r.sub] = "dropped"]
          /\ runs' = runs /\ req' = req
    BY <1>3 DEF CommitDequeue
  <2>2. \A v \in Workers : claim'[v] \subseteq queue'
    BY <2>1 DEF Book, TypeOK
  <2>3. \A g \in Subs : fate'[g] = fate[g] \/ fate'[g] = "dropped" 
    BY <2>1 DEF TypeOK
  <2>4. \A g \in Subs : fate'[g] = "none" => fate[g] = "none"
    BY <2>3
  <2>5. \A v, u \in Workers : \A x \in claim'[v] : x \in claim'[u] => v = u
    BY <2>1 DEF Book, TypeOK
  <2>6. \A b \in Admins : \A e \in req[b].entries : e.sub \in Subs
    BY DEF TypeOK, Request, Entry
  <2>7. \A b \in Admins : \A e \in req[b].entries : fate'[e.sub] # "none"
    BY <2>3, <2>6 DEF Book
  <2> QED
    BY <2>1, <2>2, <2>4, <2>5, <2>7 DEF Book
<1>4. ASSUME NEW w \in Workers, NEW t \in tasks[w],
             StartHandler(w, t) \/ Succeed(w, t) \/ Fail(w, t) \/ Nack(w, t) \/ ToDlq(w, t)
      PROVE  Book'
  <2>1. PICK x \in Subs : x = t.sub /\ fate[x] = "live"
    BY DEF TypeOK, Task, Conserved, InTask, SubsOf
  <2>2. /\ claim' = claim /\ req' = req /\ queue \subseteq queue'
        /\ fate' = fate \/ fate' = [fate EXCEPT ![x] = "done"]
        /\ runs' = runs \/ runs' = [runs EXCEPT ![x] = @ + 1]
    BY <1>4, <2>1 DEF StartHandler, Succeed, Fail, Nack, ToDlq
  <2>3. \A g \in Subs : fate'[g] = "none" => fate[g] = "none" /\ runs'[g] = runs[g]
    BY <2>1, <2>2 DEF TypeOK
  <2>4. \A b \in Admins : \A e \in req[b].entries : e.sub \in Subs
    BY DEF TypeOK, Request, Entry
  <2>5. \A b \in Admins : \A e \in req[b].entries : fate'[e.sub] # "none"
    BY <2>3, <2>4 DEF Book
  <2> QED
    BY <2>2, <2>3, <2>5 DEF Book
<1>5. ASSUME NEW w \in Workers, NEW why \in {"cancelled", "crashed"}, LoseTasks(w, why)
      PROVE  Book'
  <2>1. /\ queue' = queue /\ req' = req /\ runs' = runs
        /\ claim' = [claim EXCEPT ![w] = {}]
        /\ \A g \in Subs : fate'[g] = why \/ fate'[g] = fate[g]
    BY <1>5 DEF LoseTasks
  <2>2. \A b \in Admins : \A e \in req[b].entries : e.sub \in Subs
    BY DEF TypeOK, Request, Entry
  <2>3. \A g \in Subs : fate'[g] = "none" => fate[g] = "none"
    BY <2>1
  <2>4. \A b \in Admins : \A e \in req[b].entries : fate'[e.sub] # "none"
    BY <2>2, <2>3 DEF Book
  <2>5. \A v \in Workers : claim'[v] \subseteq claim[v]
    BY <2>1 DEF TypeOK
  <2> QED
    BY <2>1, <2>3, <2>4, <2>5 DEF Book
<1>6. ASSUME NEW e \in dlq, DeleteEntry(e) PROVE Book'
  <2>1. /\ UNCHANGED <<queue, req, runs, claim>>
        /\ fate' = [fate EXCEPT ![e.sub] = "deleted"]
    BY <1>6 DEF DeleteEntry
  <2>2. \A g \in Subs : fate'[g] = "none" => fate[g] = "none"
    BY <2>1 DEF TypeOK
  <2>3. \A b \in Admins : \A x \in req[b].entries : x.sub \in Subs
    BY DEF TypeOK, Request, Entry
  <2>4. \A b \in Admins : \A x \in req[b].entries : fate'[x.sub] # "none"
    BY <2>2, <2>3 DEF Book
  <2> QED
    BY <2>1, <2>2, <2>4 DEF Book
<1>7. ASSUME NEW a \in Admins, NEW S \in SUBSET dlq, NEW op,
             req' = [req EXCEPT ![a] = [op |-> op, entries |-> S]],
             UNCHANGED <<queue, claim, fate, runs>>
      PROVE  Book'
  <2>1. OneEach(S)
    BY DEF HeldOnce, OneEach
  <2>2. \A e \in S : fate[e.sub] # "none"
    <3>1. \A e \in dlq : e.sub \in Subs /\ e.sub \in SubsOf(dlq)
      BY DEF TypeOK, Entry, SubsOf
    <3> QED
      BY <3>1 DEF Conserved, InDlq
  <2>3. req'[a].entries = S /\ \A b \in Admins : b # a => req'[b] = req[b]
    BY <1>7 DEF TypeOK
  <2> QED
    BY <1>7, <2>1, <2>2, <2>3 DEF Book
<1>8. ASSUME NEW a \in Admins, CommitRequeue(a) PROVE Book'
  <2>1. /\ queue \subseteq queue' /\ claim' = claim /\ runs' = runs
        /\ req' = [req EXCEPT ![a] = Idle]
        /\ \A g \in Subs : fate'[g] = "none" => fate[g] = "none"
    BY <1>8 DEF CommitRequeue
  <2>2. OneEach({})
    BY DEF OneEach
  <2>3. req'[a].entries = {} /\ \A b \in Admins : b # a => req'[b] = req[b]
    BY <2>1 DEF TypeOK, Idle
  <2>4. \A b \in Admins : \A e \in req[b].entries : e.sub \in Subs
    BY DEF TypeOK, Request, Entry
  <2>5. \A b \in Admins : \A e \in req'[b].entries : fate'[e.sub] # "none"
    BY <2>1, <2>3, <2>4 DEF Book
  <2>6. \A b \in Admins : OneEach(req'[b].entries)
    BY <2>2, <2>3 DEF Book
  <2> QED
    BY <2>1, <2>5, <2>6 DEF Book
<1>9. ASSUME UNCHANGED <<queue, claim, fate, runs, req>> PROVE Book'
  BY <1>9 DEF Book
<1> QED
  <2>1. ASSUME NEW a \in Admins, Administer(a) PROVE Book'
    <3>1. ASSUME NEW e \in dlq, SelectOne(a, e) PROVE Book'
      BY <1>7, <3>1 DEF SelectOne
    <3>2. CASE SelectAll(a)
      BY <1>7, <3>2 DEF SelectAll
    <3> QED
      BY <1>8, <2>1, <3>1, <3>2 DEF Administer
  <2>2. ASSUME NEW w \in Workers, Stop(w) PROVE Book'
    BY <1>5, <1>9, <2>2 DEF Stop, Sigterm, CancelTasks, Abort, Start
  <2>3. CASE UNCHANGED vars
    BY <1>9, <2>3 DEF vars
  <2> QED
    BY <1>1, <1>2, <1>3, <1>4, <1>6, <2>1, <2>2, <2>3 DEF Next, Dispatch

\* Every step keeps the attempt numbers equal to the handler executions counted.
LEMMA AttemptsStep == TInv /\ Held /\ Book /\ AttemptsCount /\ [Next]_vars => AttemptsCount'
<1> SUFFICES ASSUME TInv, Held, Book, AttemptsCount, [Next]_vars PROVE AttemptsCount'
  OBVIOUS
<1> USE RetriesAssumption DEF TInv, Held
<1>1. ASSUME NEW g \in Subs, NEW kind \in Kinds, Enqueue(g, kind) PROVE AttemptsCount'
  <2>1. fate[g] = "none" /\ runs[g] = 0
    BY <1>1 DEF Enqueue, Unused, Book
  <2>2. PICK r : r.sub = g /\ r.attempt = 1 /\ queue' = queue \cup {r}
    BY <1>1 DEF Enqueue
  <2>3. UNCHANGED <<tasks, dlq, runs>>
    BY <1>1 DEF Enqueue
  <2> QED
    BY <2>1, <2>2, <2>3 DEF AttemptsCount
<1>2. ASSUME UNCHANGED <<queue, tasks, dlq, runs>> PROVE AttemptsCount'
  BY <1>2 DEF AttemptsCount
<1>3. ASSUME NEW w \in Workers, CommitDequeue(w) PROVE AttemptsCount'
  <2>1. PICK r \in claim[w] :
          /\ queue' = queue \ {r} /\ dlq' = dlq /\ runs' = runs
          /\ \/ tasks' = [tasks EXCEPT ![w] = @ \cup {TaskAt(r, "waiting")}]
             \/ tasks' = tasks
    BY <1>3 DEF CommitDequeue
  <2>2. r \in queue
    BY DEF Book
  <2>3. runs[r.sub] = r.attempt - 1
    BY <2>2 DEF AttemptsCount
  <2>4. PICK x : /\ x = TaskAt(r, "waiting") /\ x.pc = "waiting"
                 /\ x.sub = r.sub /\ x.attempt = r.attempt
    BY TaskAtFields, Zenon
  <2>5. \A v \in Workers : tasks'[v] \subseteq tasks[v] \cup {x}
    BY <2>1, <2>4 DEF TypeOK
  <2>6. runs[x.sub] = x.attempt - 1
    BY <2>3, <2>4
  <2> QED
    BY <2>1, <2>4, <2>5, <2>6 DEF AttemptsCount
<1>4. ASSUME NEW w \in Workers, NEW t \in tasks[w], StartHandler(w, t) PROVE AttemptsCount'
  <2>1. PICK x \in Subs : x = t.sub /\ x \in SubsOf(tasks[w])
    BY DEF TypeOK, Task, SubsOf
  <2>2. /\ x \notin SubsOf(queue) /\ x \notin SubsOf(dlq)
        /\ \A v \in Workers : v # w => x \notin SubsOf(tasks[v])
        /\ OneEach(tasks[w])
    BY <2>1 DEF HeldOnce, InQueue, InTask, InDlq
  <2>3. /\ \A r \in queue : r.sub \in Subs /\ r.sub # x
        /\ \A e \in dlq : e.sub \in Subs /\ e.sub # x
        /\ \A v \in Workers : \A u \in tasks[v] : u.sub \in Subs
        /\ \A v \in Workers : \A u \in tasks[v] : u # t => u.sub # x
    BY <2>1, <2>2 DEF SubsOf, OneEach, TypeOK, Row, Entry, Task
  <2>4. runs[x] = t.attempt - 1 /\ t.attempt \in Nat /\ runs[x] \in Nat
    BY <1>4, <2>1 DEF AttemptsCount, StartHandler, TypeOK, Task
  <2>5. PICK n : /\ n = TaskAt(t, "handling") /\ n.pc = "handling"
                 /\ n.sub = x /\ n.attempt = t.attempt
    BY <2>1, TaskAtFields, Zenon
  <2>6. /\ UNCHANGED <<queue, dlq>> /\ runs' = [runs EXCEPT ![x] = @ + 1]
        /\ tasks' = [tasks EXCEPT ![w] = (@ \ {t}) \cup {n}]
    BY <1>4, <2>1, <2>5 DEF StartHandler, Replace
  <2>7. runs'[x] = t.attempt /\ \A g \in Subs : g # x => runs'[g] = runs[g]
    BY <2>4, <2>6 DEF TypeOK
  <2>8. \A v \in Workers : \A u \in tasks'[v] : u = n \/ (u \in tasks[v] /\ u.sub # x)
    <3>1. /\ tasks'[w] = (tasks[w] \ {t}) \cup {n}
          /\ \A v \in Workers : v # w => tasks'[v] = tasks[v]
      BY <2>6 DEF TypeOK
    <3>2. \A v \in Workers : v # w => t \notin tasks[v]
      BY <2>1, <2>2 DEF SubsOf
    <3> QED
      BY <2>3, <3>1, <3>2
  <2>9. \A v \in Workers : \A u \in tasks'[v] :
          runs'[u.sub] = IF u.pc = "waiting" THEN u.attempt - 1 ELSE u.attempt
    BY <2>3, <2>5, <2>7, <2>8 DEF AttemptsCount
  <2> QED
    BY <2>3, <2>6, <2>7, <2>9 DEF AttemptsCount
<1>5. ASSUME NEW w \in Workers, NEW t \in tasks[w], Succeed(w, t) PROVE AttemptsCount'
  <2>1. /\ tasks' = [tasks EXCEPT ![w] = @ \ {t}]
        /\ UNCHANGED <<queue, dlq, runs>>
    BY <1>5 DEF Succeed
  <2>2. \A v \in Workers : tasks'[v] \subseteq tasks[v]
    BY <2>1 DEF TypeOK
  <2> QED
    BY <2>1, <2>2 DEF AttemptsCount
<1>6. ASSUME NEW w \in Workers, NEW t \in tasks[w], Fail(w, t) PROVE AttemptsCount'
  <2>1. PICK n : /\ n.pc # "waiting" /\ n.sub = t.sub /\ n.attempt = t.attempt
                 /\ tasks' = [tasks EXCEPT ![w] = (@ \ {t}) \cup {n}]
    BY <1>6 DEF Fail, Replace, TaskAt
  <2>2. \A v \in Workers : \A u \in tasks'[v] : u = n \/ u \in tasks[v]
    BY <2>1 DEF TypeOK
  <2>3. t.pc = "handling" /\ UNCHANGED <<queue, dlq, runs>>
    BY <1>6 DEF Fail
  <2>4. runs[t.sub] = t.attempt
    BY <2>3 DEF AttemptsCount
  <2>5. \A v \in Workers : \A u \in tasks'[v] :
          runs[u.sub] = IF u.pc = "waiting" THEN u.attempt - 1 ELSE u.attempt
    BY <2>1, <2>2, <2>4 DEF AttemptsCount
  <2> QED
    BY <2>3, <2>5 DEF AttemptsCount
<1>7. ASSUME NEW w \in Workers, NEW t \in tasks[w], Nack(w, t) \/ ToDlq(w, t)
      PROVE  AttemptsCount'
  <2>1. /\ tasks' = [tasks EXCEPT ![w] = @ \ {t}] /\ runs' = runs
        /\ t.pc # "waiting"
    BY <1>7 DEF Nack, ToDlq
  <2>2. runs[t.sub] = t.attempt /\ t.attempt \in Nat
    BY <2>1 DEF AttemptsCount, TypeOK, Task
  <2>3. \A v \in Workers : tasks'[v] \subseteq tasks[v]
    BY <2>1 DEF TypeOK
  <2>4. CASE Nack(w, t)
    <3>1. PICK r : /\ r.sub = t.sub /\ r.attempt = t.attempt + 1
                   /\ queue' = queue \cup {r} /\ dlq' = dlq
      BY <2>4 DEF Nack
    <3> QED
      BY <2>1, <2>2, <2>3, <3>1 DEF AttemptsCount
  <2>5. CASE ToDlq(w, t)
    <3>1. PICK e : /\ e.sub = t.sub /\ e.attempt = t.attempt
                   /\ dlq' = dlq \cup {e} /\ queue' = queue
      BY <2>5 DEF ToDlq
    <3>2. t.attempt = MaxRetries
      BY <2>5 DEF ToDlq, PcOK
    <3> QED
      BY <2>1, <2>2, <2>3, <3>1, <3>2 DEF AttemptsCount
  <2> QED
    BY <1>7, <2>4, <2>5
<1>8. ASSUME NEW w \in Workers, NEW why \in {"cancelled", "crashed"}, LoseTasks(w, why)
      PROVE  AttemptsCount'
  <2>1. tasks' = [tasks EXCEPT ![w] = {}] /\ UNCHANGED <<queue, dlq, runs>>
    BY <1>8 DEF LoseTasks
  <2>2. \A v \in Workers : tasks'[v] \subseteq tasks[v]
    BY <2>1 DEF TypeOK
  <2> QED
    BY <2>1, <2>2 DEF AttemptsCount
<1>9. ASSUME NEW e \in dlq, DeleteEntry(e) PROVE AttemptsCount'
  BY <1>9 DEF DeleteEntry, AttemptsCount
<1>10. ASSUME NEW a \in Admins, CommitRequeue(a) PROVE AttemptsCount'
  <2>1. PICK child \in [SubsOf(req[a].entries) -> Unused] :
          queue' = queue \cup {[sub |-> child[e.sub], kind |-> e.kind, attempt |-> 1,
                                at |-> clock] : e \in req[a].entries}
    BY <1>10 DEF CommitRequeue
  <2>2. UNCHANGED <<tasks, runs>> /\ dlq' \subseteq dlq
    BY <1>10 DEF CommitRequeue
  <2>3. \A g \in Unused : runs[g] = 0
    BY DEF Unused, Book
  <2>4. \A e \in req[a].entries : child[e.sub] \in Unused
    BY <2>1 DEF SubsOf
  <2>5. \A r \in queue' : r \in queue \/ (runs[r.sub] = 0 /\ r.attempt = 1)
    BY <2>1, <2>3, <2>4
  <2>6. \A r \in queue' : runs[r.sub] = r.attempt - 1
    BY <2>5 DEF AttemptsCount
  <2> QED
    BY <2>2, <2>6 DEF AttemptsCount
<1> QED
  <2>1. ASSUME NEW w \in Workers, Dispatch(w) PROVE AttemptsCount'
    BY <1>2, <1>3, <1>4, <1>5, <1>6, <1>7, <2>1 DEF Dispatch, Claim
  <2>2. ASSUME NEW w \in Workers, Stop(w) PROVE AttemptsCount'
    BY <1>2, <1>8, <2>2 DEF Stop, Sigterm, CancelTasks, Abort, Start
  <2>3. ASSUME NEW a \in Admins, Administer(a) PROVE AttemptsCount'
    BY <1>2, <1>10, <2>3 DEF Administer, SelectAll, SelectOne
  <2>4. CASE UNCHANGED vars
    BY <1>2, <2>4 DEF vars
  <2> QED
    BY <1>1, <1>9, <2>1, <2>2, <2>3, <2>4 DEF Next

\* Every step keeps, for each requeued DLQ entry, a successor that was submitted.
LEMMA RequeuedStep ==
  TInv /\ Held /\ Book /\ RequeuedLivesOn /\ [Next]_vars => RequeuedLivesOn'
<1> SUFFICES ASSUME TInv, Held, Book, RequeuedLivesOn, [Next]_vars PROVE RequeuedLivesOn'
  OBVIOUS
<1> USE DEF TInv, Held
<1>1. ASSUME parent' = parent,
             \A g \in Subs : /\ fate'[g] = "requeued" => fate[g] = "requeued"
                             /\ fate'[g] = "none" => fate[g] = "none"
      PROVE  RequeuedLivesOn'
  <2> SUFFICES ASSUME NEW g \in Subs, fate'[g] = "requeued"
               PROVE  \E h \in Subs : parent'[h] = g /\ fate'[h] # "none"
    BY DEF RequeuedLivesOn
  <2>1. fate[g] = "requeued"
    BY <1>1
  <2>2. PICK h \in Subs : parent[h] = g /\ fate[h] # "none"
    BY <2>1 DEF RequeuedLivesOn
  <2>3. parent'[h] = g /\ fate'[h] # "none"
    BY <1>1, <2>2
  <2> QED
    BY <2>3
<1>2. ASSUME NEW a \in Admins, CommitRequeue(a) PROVE RequeuedLivesOn'
  <2> DEFINE E == req[a].entries
  <2>1. PICK child \in [SubsOf(E) -> Unused] :
          LET new == {child[g] : g \in DOMAIN child} IN
          /\ \A g, h \in DOMAIN child : child[g] = child[h] => g = h
          /\ fate' = [g \in Subs |->
                     IF g \in new THEN "live"
                     ELSE IF g \in SubsOf(Doomed(a))
                       THEN IF g \in DOMAIN child THEN "requeued" ELSE "swept"
                     ELSE fate[g]]
          /\ parent' = [h \in Subs |->
                       IF h \in new THEN CHOOSE g \in DOMAIN child : child[g] = h
                                    ELSE parent[h]]
    BY <1>2 DEF CommitRequeue
  <2> DEFINE new == {child[g] : g \in SubsOf(E)}
  <2>2. \A h \in new : h \in Subs /\ fate[h] = "none" /\ fate'[h] = "live"
    BY <2>1 DEF Unused
  <2>3. \A h \in Subs \ new : parent'[h] = parent[h] /\ (fate'[h] = "none" => fate[h] = "none")
    BY <2>1
  <2>4. \A g \in SubsOf(E) : child[g] \in Subs /\ child[g] \in new /\ parent'[child[g]] = g
    BY <2>1, <2>2
  <2>5. SUFFICES ASSUME NEW g \in Subs, fate'[g] = "requeued"
                 PROVE  \E h \in Subs : parent'[h] = g /\ fate'[h] # "none"
    BY DEF RequeuedLivesOn
  <2>6. CASE g \in SubsOf(E)
    BY <2>2, <2>4, <2>6
  <2>7. CASE g \notin SubsOf(E)
    <3>1. fate[g] = "requeued"
      BY <2>1, <2>5, <2>7
    <3>2. PICK h \in Subs : parent[h] = g /\ fate[h] # "none"
      BY <3>1 DEF RequeuedLivesOn
    <3> QED
      BY <2>2, <2>3, <3>2
  <2> QED
    BY <2>6, <2>7
<1>3. ASSUME NEW g \in Subs, NEW kind \in Kinds, Enqueue(g, kind) PROVE RequeuedLivesOn'
  BY <1>1, <1>3 DEF Enqueue, TypeOK
<1>4. ASSUME NEW w \in Workers, Dispatch(w) PROVE RequeuedLivesOn'
  <2>1. CASE CommitDequeue(w)
    BY <1>1, <2>1 DEF CommitDequeue, TypeOK
  <2>2. CASE Claim(w)
    BY <1>1, <2>2 DEF Claim
  <2>3. ASSUME NEW t \in tasks[w],
               StartHandler(w, t) \/ Succeed(w, t) \/ Fail(w, t) \/ Nack(w, t) \/ ToDlq(w, t)
        PROVE  RequeuedLivesOn'
    BY <1>1, <2>3 DEF StartHandler, Succeed, Fail, Nack, ToDlq, TypeOK
  <2> QED
    BY <1>4, <2>1, <2>2, <2>3 DEF Dispatch
<1>5. ASSUME NEW w \in Workers, Stop(w) PROVE RequeuedLivesOn'
  BY <1>1, <1>5 DEF Stop, Sigterm, CancelTasks, Abort, Start, LoseTasks
<1>6. ASSUME NEW a \in Admins, Administer(a) PROVE RequeuedLivesOn'
  BY <1>1, <1>2, <1>6 DEF Administer, SelectAll, SelectOne
<1>7. ASSUME NEW e \in dlq, DeleteEntry(e) PROVE RequeuedLivesOn'
  BY <1>1, <1>7 DEF DeleteEntry, TypeOK
<1>8. CASE UNCHANGED vars
  BY <1>1, <1>8 DEF vars
<1> QED
  BY <1>3, <1>4, <1>5, <1>6, <1>7, <1>8 DEF Next

\* No step changes the fate of a submission that has ended, or runs its handler.
LEMMA EndedStep ==
  TInv /\ Held /\ Book /\ [Next]_vars =>
    \A g \in Subs : fate[g] \in Ended => fate'[g] = fate[g] /\ runs'[g] = runs[g]
<1> SUFFICES ASSUME TInv, Held, Book, [Next]_vars, NEW g \in Subs, fate[g] \in Ended
             PROVE  fate'[g] = fate[g] /\ runs'[g] = runs[g]
  OBVIOUS
<1> USE DEF TInv, Held
<1>1. /\ fate[g] # "live" /\ fate[g] # "none"
      /\ g \notin SubsOf(queue) /\ g \notin SubsOf(dlq)
      /\ \A w \in Workers : g \notin SubsOf(tasks[w])
  BY DEF Ended, Conserved, InQueue, InTask, InDlq
<1>2. ASSUME NEW w \in Workers, NEW t \in tasks[w] PROVE t.sub # g
  BY <1>1 DEF SubsOf
<1>3. ASSUME NEW x \in Subs, NEW kind \in Kinds, Enqueue(x, kind)
      PROVE  fate'[g] = fate[g] /\ runs'[g] = runs[g]
  BY <1>1, <1>3 DEF Enqueue, Unused, TypeOK
<1>4. ASSUME NEW w \in Workers, Dispatch(w) PROVE fate'[g] = fate[g] /\ runs'[g] = runs[g]
  <2>1. CASE CommitDequeue(w)
    <3>1. \A r \in claim[w] : r \in queue /\ r.sub # g
      BY <1>1 DEF Book, SubsOf
    <3> QED
      BY <2>1, <3>1 DEF CommitDequeue, TypeOK
  <2>2. CASE Claim(w)
    BY <2>2 DEF Claim
  <2>3. ASSUME NEW t \in tasks[w],
               StartHandler(w, t) \/ Succeed(w, t) \/ Fail(w, t) \/ Nack(w, t) \/ ToDlq(w, t)
        PROVE  fate'[g] = fate[g] /\ runs'[g] = runs[g]
    BY <1>2, <2>3 DEF StartHandler, Succeed, Fail, Nack, ToDlq, TypeOK
  <2> QED
    BY <1>4, <2>1, <2>2, <2>3 DEF Dispatch
<1>5. ASSUME NEW w \in Workers, Stop(w) PROVE fate'[g] = fate[g] /\ runs'[g] = runs[g]
  BY <1>1, <1>5 DEF Stop, Sigterm, CancelTasks, Abort, Start, LoseTasks
<1>6. ASSUME NEW e \in dlq, DeleteEntry(e) PROVE fate'[g] = fate[g] /\ runs'[g] = runs[g]
  <2>1. e.sub # g
    BY <1>1 DEF SubsOf
  <2> QED
    BY <1>6, <2>1 DEF DeleteEntry, TypeOK
<1>7. ASSUME NEW a \in Admins, CommitRequeue(a)
      PROVE  fate'[g] = fate[g] /\ runs'[g] = runs[g]
  <2>1. PICK child \in [SubsOf(req[a].entries) -> Unused] :
          LET new == {child[x] : x \in DOMAIN child} IN
          fate' = [x \in Subs |->
                     IF x \in new THEN "live"
                     ELSE IF x \in SubsOf(Doomed(a))
                       THEN IF x \in DOMAIN child THEN "requeued" ELSE "swept"
                     ELSE fate[x]]
    BY <1>7 DEF CommitRequeue
  <2>2. g \notin SubsOf(Doomed(a))
    BY <1>1 DEF Doomed, SubsOf
  <2>3. g \notin {child[x] : x \in DOMAIN child}
    BY <1>1, <2>1 DEF Unused
  <2> QED
    BY <1>7, <2>1, <2>2, <2>3 DEF CommitRequeue
<1>8. ASSUME NEW a \in Admins, Administer(a) PROVE fate'[g] = fate[g] /\ runs'[g] = runs[g]
  BY <1>7, <1>8 DEF Administer, SelectAll, SelectOne
<1>9. CASE UNCHANGED vars
  BY <1>9 DEF vars
<1> QED
  BY <1>3, <1>4, <1>5, <1>6, <1>8, <1>9 DEF Next

Ledger == TInv /\ Held /\ Book /\ AttemptsCount /\ RequeuedLivesOn

\* The empty queue satisfies the inductive invariant.
LEMMA LedgerInit == Init => Ledger
<1> SUFFICES ASSUME Init PROVE Ledger
  OBVIOUS
<1>1. TypeOK
  BY RetriesAssumption DEF Init, TypeOK, Idle, Request, NoParent
<1>2. PcOK /\ Book /\ AttemptsCount /\ RequeuedLivesOn
  BY DEF Init, PcOK, Book, OneEach, AttemptsCount, RequeuedLivesOn, Idle
<1>3. Held
  BY DEF Init, Held, Conserved, HeldOnce, InQueue, InTask, InDlq, SubsOf, OneEach
<1> QED
  BY <1>1, <1>2, <1>3 DEF Ledger, TInv

\* The inductive invariant is preserved by every step.
LEMMA LedgerStep == Ledger /\ [Next]_vars => Ledger'
  BY TypeStep, HeldStep, BookStep, AttemptsStep, RequeuedStep DEF Ledger

\* Ledger is an invariant of the queue for any number of submissions, workers and
\* administrators and any retry limit.
THEOREM LedgerInvariant == Spec => []Ledger
  BY LedgerInit, LedgerStep, PTL DEF Spec

\* The variables of the queue keep their types; attempts stay within 1..MaxRetries.
THEOREM TypeCorrect == Spec => []TypeOK
<1>1. Ledger => TypeOK
  BY DEF Ledger, TInv
<1> QED
  BY <1>1, LedgerInvariant, PTL

\* No job is lost without a recorded reason: dequeue, retry, dead-lettering, requeue, stop
\* and crash move a submission, they do not drop it.
THEOREM JobsConserved == Spec => []Conserved
<1>1. Ledger => Conserved
  BY DEF Ledger, Held
<1> QED
  BY <1>1, LedgerInvariant, PTL

\* No job is in two rows, two coroutines, two workers or two tables, whatever the
\* interleaving of dequeues, retries and DLQ requests.
THEOREM JobsHeldOnce == Spec => []HeldOnce
<1>1. Ledger => HeldOnce
  BY DEF Ledger, Held
<1> QED
  BY <1>1, LedgerInvariant, PTL

\* The attempt number counts handler executions; only a job executed MaxRetries times
\* is in the DLQ.
THEOREM AttemptsCounted == Spec => []AttemptsCount
<1>1. Ledger => AttemptsCount
  BY DEF Ledger
<1> QED
  BY <1>1, LedgerInvariant, PTL

\* A DLQ entry that a requeue request read and deleted was inserted again.
THEOREM RequeuesLiveOn == Spec => []RequeuedLivesOn
<1>1. Ledger => RequeuedLivesOn
  BY DEF Ledger
<1> QED
  BY <1>1, LedgerInvariant, PTL

\* A submission that was handled, dropped, deleted, requeued or lost is never executed
\* again.
THEOREM EndedStaysEnded == Spec => EndedNeverRuns
<1>1. Ledger /\ [Next]_vars =>
        [\A g \in Subs : fate[g] \in Ended => fate'[g] = fate[g] /\ runs'[g] = runs[g]]_vars
  BY EndedStep DEF Ledger
<1> QED
  BY <1>1, LedgerInvariant, PTL DEF Spec, EndedNeverRuns

-----------------------------------------------------------------------------
(* JobQueue implements JobPromise *)


\* The refinement mapping of Promise.
Spots == [g \in Subs |-> Place(g)]

\* The place that a coroutine's program counter stands for.
Stage(pc) == IF pc = "waiting" THEN "taken"
             ELSE IF pc = "handling" THEN "running" ELSE "failed"

\* What holds a submission says where it is; a submission that is not live is nowhere
\* but in its history.
Whereabouts ==
  /\ \A w \in Workers : \A t \in tasks[w] : Spots[t.sub] = Stage(t.pc)
  /\ \A r \in queue : Spots[r.sub] = "queued"
  /\ \A e \in dlq : Spots[e.sub] = "parked"
  /\ \A g \in Subs : fate[g] # "live" => Spots[g] = fate[g]

\* The ledger makes the places of the refinement mapping unambiguous.
LEMMA WhereaboutsKnown == Ledger => Whereabouts
<1> SUFFICES ASSUME Ledger PROVE Whereabouts
  OBVIOUS
<1> USE DEF Ledger, TInv, Held
<1>1. ASSUME NEW w \in Workers, NEW t \in tasks[w] PROVE Spots[t.sub] = Stage(t.pc)
  <2>1. PICK g \in Subs : g = t.sub
    BY DEF TypeOK, Task
  <2>2. InTask(g)
    BY <2>1 DEF InTask, SubsOf
  <2>3. \A v \in Workers : \A u \in tasks[v] : u.sub = g => u = t
    <3> SUFFICES ASSUME NEW v \in Workers, NEW u \in tasks[v], u.sub = g PROVE u = t
      OBVIOUS
    <3>1. g \in SubsOf(tasks[v]) /\ g \in SubsOf(tasks[w])
      BY <2>1 DEF SubsOf
    <3>2. v = w
      BY <3>1 DEF HeldOnce
    <3>3. OneEach(tasks[w])
      BY DEF HeldOnce
    <3> QED
      BY <2>1, <3>2, <3>3 DEF OneEach
  <2>4. \A stages : InHandAt(g, stages) <=> t.pc \in stages
    BY <2>1, <2>3 DEF InHandAt
  <2>5. Place(g) = Stage(t.pc)
    BY <2>2, <2>4 DEF Place, Stage
  <2> QED
    BY <2>1, <2>5 DEF Spots
<1>2. ASSUME NEW g \in Subs, ~InTask(g) PROVE \A stages : ~InHandAt(g, stages)
  BY <1>2 DEF InTask, InHandAt, SubsOf
<1>3. ASSUME NEW r \in queue PROVE Spots[r.sub] = "queued"
  <2>1. PICK g \in Subs : g = r.sub /\ InQueue(g)
    BY DEF TypeOK, Row, InQueue, SubsOf
  <2>2. ~InTask(g) /\ ~InDlq(g)
    BY <2>1 DEF HeldOnce
  <2> QED
    BY <1>2, <2>1, <2>2 DEF Place, Spots
<1>4. ASSUME NEW e \in dlq PROVE Spots[e.sub] = "parked"
  <2>1. PICK g \in Subs : g = e.sub /\ InDlq(g)
    BY DEF TypeOK, Entry, InDlq, SubsOf
  <2>2. ~InTask(g)
    BY <2>1 DEF HeldOnce
  <2> QED
    BY <1>2, <2>1, <2>2 DEF Place, Spots
<1>5. ASSUME NEW g \in Subs, fate[g] # "live" PROVE Spots[g] = fate[g]
  <2>1. ~InTask(g) /\ ~InDlq(g) /\ ~InQueue(g)
    BY <1>5 DEF Conserved
  <2> QED
    BY <1>2, <2>1 DEF Place, Spots
<1> QED
  BY <1>1, <1>3, <1>4, <1>5 DEF Whereabouts

\* The same of the next state.
LEMMA WhereaboutsNext == Ledger' => Whereabouts'
  BY WhereaboutsKnown, PTL

\* The holders of a submission are the same before and after a step.
SameHolders(g) ==
  /\ \A w \in Workers : {t \in tasks'[w] : t.sub = g} = {t \in tasks[w] : t.sub = g}
  /\ g \in SubsOf(queue') <=> g \in SubsOf(queue)
  /\ g \in SubsOf(dlq') <=> g \in SubsOf(dlq)
  /\ fate'[g] = fate[g]

\* A submission whose holders a step leaves alone stays where it is.
LEMMA Unmoved ==
  ASSUME NEW g \in Subs, SameHolders(g)
  PROVE  Spots'[g] = Spots[g]
<1>1. \A w \in Workers : \A t : t.sub = g => (t \in tasks'[w] <=> t \in tasks[w])
  BY DEF SameHolders
<1>2. (InTask(g) <=> InTask(g)') /\ (InQueue(g) <=> InQueue(g)') /\ (InDlq(g) <=> InDlq(g)')
  BY <1>1 DEF SameHolders, InTask, InQueue, InDlq, SubsOf
<1>3. \A stages : InHandAt(g, stages)' <=> InHandAt(g, stages)
  BY <1>1 DEF InHandAt
<1> QED
  BY <1>2, <1>3 DEF Spots, Place, SameHolders

\* A step that touches the holders of one submission moves that submission only.
LEMMA OneMoves ==
  ASSUME NEW x \in Subs, NEW to, \A g \in Subs : g # x => SameHolders(g), Spots'[x] = to
  PROVE  Spots' = [Spots EXCEPT ![x] = to]
<1>1. \A g \in Subs : g # x => Spots'[g] = Spots[g]
  BY Unmoved
<1>2. Spots = [g \in Subs |-> Spots[g]] /\ Spots' = [g \in Subs |-> Spots'[g]]
  BY DEF Spots
<1> QED
  BY <1>1, <1>2

\* Such a move, of a submission that was where the promise expects it.
LEMMA Moves ==
  ASSUME NEW g \in Subs, NEW from, NEW to, Spots[g] = from,
         Spots' = [Spots EXCEPT ![g] = to]
  PROVE  Promise!Goes(g, from, to)
  BY DEF Spots, Promise!Goes

\* A coroutine that ends, or moves on, touches its own submission only.
LEMMA OtherTasksStay ==
  ASSUME TypeOK, NEW w \in Workers, NEW t \in tasks[w], NEW N,
         \A n \in N : n.sub = t.sub,
         tasks' = [tasks EXCEPT ![w] = (@ \ {t}) \cup N]
  PROVE  \A g \in Subs : g # t.sub =>
           \A v \in Workers : {u \in tasks'[v] : u.sub = g} = {u \in tasks[v] : u.sub = g}
<1>1. tasks'[w] = (tasks[w] \ {t}) \cup N /\ \A v \in Workers : v # w => tasks'[v] = tasks[v]
  BY DEF TypeOK
<1> QED
  BY <1>1

\* A step that touches no row, coroutine, entry or fate is not seen.
LEMMA Unseen ==
  ASSUME UNCHANGED <<queue, dlq, tasks, fate, runs>>
  PROVE  UNCHANGED Promise!pvars
<1>1. \A g \in Subs : SameHolders(g)
  BY DEF SameHolders
<1>2. Spots' = Spots
  BY <1>1, Unmoved DEF Spots
<1> QED
  BY <1>2 DEF Spots, Promise!pvars

-----------------------------------------------------------------------------
(* One lemma per action that is seen. *)

\* An insertion submits.
LEMMA EnqueueSubmits ==
  ASSUME Ledger, Ledger', NEW g \in Subs, NEW kind \in Kinds, Enqueue(g, kind)
  PROVE  Promise!Submit(g)
<1>1. PICK r : /\ r.sub = g /\ queue' = queue \cup {r}
               /\ fate[g] = "none" /\ fate' = [fate EXCEPT ![g] = "live"]
               /\ UNCHANGED <<dlq, tasks, runs>>
  BY DEF Enqueue, Unused
<1>2. Spots[g] = "none"
  BY <1>1, WhereaboutsKnown DEF Whereabouts
<1>3. Spots'[g] = "queued"
  BY <1>1, WhereaboutsNext DEF Whereabouts
<1>4. \A h \in Subs : h # g => SameHolders(h)
  BY <1>1 DEF SameHolders, SubsOf, Ledger, TInv, TypeOK
<1>5. Spots' = [Spots EXCEPT ![g] = "queued"]
  BY <1>3, <1>4, OneMoves
<1> QED
  BY <1>1, <1>2, <1>5, Moves DEF Promise!Submit

\* A committed dequeue takes the job in hand, or drops it when no handler knows it.
LEMMA DequeueTakes ==
  ASSUME Ledger, Ledger', NEW w \in Workers, CommitDequeue(w)
  PROVE  \E g \in Subs : Promise!Take(g) \/ Promise!Drop(g)
<1> USE DEF Ledger, TInv
<1>1. PICK r \in claim[w] :
        /\ queue' = queue \ {r} /\ UNCHANGED <<dlq, runs>>
        /\ \/ /\ tasks' = [tasks EXCEPT ![w] = @ \cup {TaskAt(r, "waiting")}]
              /\ fate' = fate
           \/ fate' = [fate EXCEPT ![r.sub] = "dropped"] /\ tasks' = tasks
  BY DEF CommitDequeue
<1>2. r \in queue
  BY DEF Book
<1>3. PICK g \in Subs : g = r.sub
  BY <1>2 DEF TypeOK, Row
<1>4. Spots[g] = "queued"
  BY <1>2, <1>3, WhereaboutsKnown DEF Whereabouts
<1>5. PICK n : n = TaskAt(r, "waiting") /\ n.sub = g /\ n.pc = "waiting"
  BY ONLY <1>3, TaskAtFields
<1>6. \A h \in Subs : h # g =>
        \A v \in Workers : {u \in tasks'[v] : u.sub = h} = {u \in tasks[v] : u.sub = h}
  BY <1>1, <1>5 DEF TypeOK
<1>7. \A h \in Subs : h # g => SameHolders(h)
  BY <1>1, <1>3, <1>6 DEF SameHolders, SubsOf, TypeOK
<1>8. CASE tasks' = [tasks EXCEPT ![w] = @ \cup {TaskAt(r, "waiting")}]
  <2>1. n \in tasks'[w]
    BY <1>5, <1>8 DEF TypeOK
  <2>2. Spots'[g] = "taken"
    BY <1>5, <2>1, WhereaboutsNext DEF Whereabouts, Stage
  <2>3. Spots' = [Spots EXCEPT ![g] = "taken"]
    BY <1>7, <2>2, OneMoves
  <2> QED
    BY <1>1, <1>4, <2>3, Moves DEF Promise!Take
<1>9. CASE fate' = [fate EXCEPT ![r.sub] = "dropped"]
  <2>1. fate'[g] = "dropped"
    BY <1>3, <1>9 DEF TypeOK
  <2>2. Spots'[g] = "dropped"
    BY <2>1, WhereaboutsNext DEF Whereabouts
  <2>3. Spots' = [Spots EXCEPT ![g] = "dropped"]
    BY <1>7, <2>2, OneMoves
  <2> QED
    BY <1>1, <1>4, <2>3, Moves DEF Promise!Drop
<1> QED
  BY <1>1, <1>8, <1>9

\* A coroutine that enters its handler, or whose handler raised, is where its new program
\* counter says.
LEMMA StageChanges ==
  ASSUME Ledger, Ledger', NEW w \in Workers, NEW t \in tasks[w], NEW pc, Replace(w, t, pc),
         UNCHANGED <<queue, dlq, fate>>
  PROVE  t.sub \in Subs /\ Promise!Goes(t.sub, Stage(t.pc), Stage(pc))
<1> USE DEF Ledger, TInv
<1>1. PICK g \in Subs : g = t.sub
  BY DEF TypeOK, Task
<1>2. PICK n : n = TaskAt(t, pc) /\ n.sub = g /\ n.pc = pc
  BY ONLY <1>1, TaskAtFields
<1>3. tasks' = [tasks EXCEPT ![w] = (@ \ {t}) \cup {n}]
  BY <1>2 DEF Replace
<1>4. n \in tasks'[w]
  BY <1>3 DEF TypeOK
<1>5. Spots[g] = Stage(t.pc)
  BY <1>1, WhereaboutsKnown DEF Whereabouts
<1>6. Spots'[g] = Stage(pc)
  BY <1>2, <1>4, WhereaboutsNext DEF Whereabouts
<1>7. \A h \in Subs : h # g => SameHolders(h)
  <2>1. \A m \in {n} : m.sub = t.sub
    BY <1>1, <1>2
  <2>2. \A h \in Subs : h # t.sub =>
          \A v \in Workers : {u \in tasks'[v] : u.sub = h} = {u \in tasks[v] : u.sub = h}
    BY <1>3, <2>1, OtherTasksStay
  <2> QED
    BY <1>1, <2>2 DEF SameHolders
<1>8. Spots' = [Spots EXCEPT ![g] = Stage(pc)]
  BY <1>6, <1>7, OneMoves
<1>9. Promise!Goes(g, Stage(t.pc), Stage(pc))
  BY <1>5, <1>8, Moves
<1> QED
  BY <1>1, <1>9

\* Entering the handler is one run.
LEMMA StartRuns ==
  ASSUME Ledger, Ledger', NEW w \in Workers, NEW t \in tasks[w], StartHandler(w, t)
  PROVE  \E g \in Subs : Promise!Run(g)
<1>1. /\ Replace(w, t, "handling") /\ UNCHANGED <<queue, dlq, fate>>
      /\ t.pc = "waiting" /\ runs' = [runs EXCEPT ![t.sub] = @ + 1]
  BY DEF StartHandler
<1>2. t.sub \in Subs /\ Promise!Goes(t.sub, Stage(t.pc), Stage("handling"))
  BY <1>1, StageChanges
<1>3. Stage(t.pc) = "taken" /\ Stage("handling") = "running"
  BY <1>1 DEF Stage
<1> QED
  BY <1>1, <1>2, <1>3 DEF Promise!Run

\* An exception of the handler is a stumble, whether a retry or the DLQ follows.
LEMMA FailStumbles ==
  ASSUME Ledger, Ledger', NEW w \in Workers, NEW t \in tasks[w], Fail(w, t)
  PROVE  \E g \in Subs : Promise!Stumble(g)
<1>1. PICK pc \in {"backoff", "burying"} :
        /\ Replace(w, t, pc) /\ UNCHANGED <<queue, dlq, fate, runs>> /\ t.pc = "handling"
  BY DEF Fail
<1>2. t.sub \in Subs /\ Promise!Goes(t.sub, Stage(t.pc), Stage(pc))
  BY <1>1, StageChanges
<1>3. Stage(t.pc) = "running" /\ Stage(pc) = "failed"
  BY <1>1 DEF Stage
<1> QED
  BY <1>1, <1>2, <1>3 DEF Promise!Stumble

\* A coroutine that hands its submission over, or ends it, touches no other.
LEMMA TaskEnds ==
  ASSUME TypeOK, NEW w \in Workers, NEW t \in tasks[w],
         tasks' = [tasks EXCEPT ![w] = @ \ {t}],
         \A g \in Subs : g # t.sub =>
           /\ g \in SubsOf(queue') <=> g \in SubsOf(queue)
           /\ g \in SubsOf(dlq') <=> g \in SubsOf(dlq)
           /\ fate'[g] = fate[g]
  PROVE  t.sub \in Subs /\ \A g \in Subs : g # t.sub => SameHolders(g)
<1>1. tasks' = [tasks EXCEPT ![w] = (@ \ {t}) \cup {}]
  OBVIOUS
<1>2. \A g \in Subs : g # t.sub =>
        \A v \in Workers : {u \in tasks'[v] : u.sub = g} = {u \in tasks[v] : u.sub = g}
  BY <1>1, OtherTasksStay
<1> QED
  BY <1>2 DEF SameHolders, TypeOK, Task

\* A handler that returned has finished its job.
LEMMA SucceedFinishes ==
  ASSUME Ledger, Ledger', NEW w \in Workers, NEW t \in tasks[w], Succeed(w, t)
  PROVE  \E g \in Subs : Promise!Finish(g)
<1> USE DEF Ledger, TInv
<1>1. /\ tasks' = [tasks EXCEPT ![w] = @ \ {t}] /\ UNCHANGED <<queue, dlq, runs>>
      /\ fate' = [fate EXCEPT ![t.sub] = "done"] /\ t.pc = "handling"
  BY DEF Succeed
<1>2. \A g \in Subs : g # t.sub => fate'[g] = fate[g]
  BY <1>1 DEF TypeOK
<1>3. t.sub \in Subs /\ \A g \in Subs : g # t.sub => SameHolders(g)
  BY <1>1, <1>2, TaskEnds
<1>4. Spots[t.sub] = "running"
  BY <1>1, WhereaboutsKnown DEF Whereabouts, Stage
<1>5. fate'[t.sub] = "done"
  BY <1>1, <1>3 DEF TypeOK
<1>6. Spots'[t.sub] = "done"
  BY <1>3, <1>5, WhereaboutsNext DEF Whereabouts
<1>7. Spots' = [Spots EXCEPT ![t.sub] = "done"]
  BY <1>3, <1>6, OneMoves
<1> QED
  BY <1>1, <1>3, <1>4, <1>7, Moves DEF Promise!Finish

\* nack puts the job back for a next try.
LEMMA NackRetries ==
  ASSUME Ledger, Ledger', NEW w \in Workers, NEW t \in tasks[w], Nack(w, t)
  PROVE  \E g \in Subs : Promise!Retry(g)
<1> USE DEF Ledger, TInv
<1>1. PICK r : /\ r.sub = t.sub /\ queue' = queue \cup {r}
               /\ tasks' = [tasks EXCEPT ![w] = @ \ {t}]
               /\ UNCHANGED <<dlq, fate, runs>> /\ t.pc = "backoff"
  BY DEF Nack
<1>2. \A g \in Subs : g # t.sub => (g \in SubsOf(queue') <=> g \in SubsOf(queue))
  BY <1>1 DEF SubsOf
<1>3. t.sub \in Subs /\ \A g \in Subs : g # t.sub => SameHolders(g)
  BY <1>1, <1>2, TaskEnds
<1>4. Spots[t.sub] = "failed"
  BY <1>1, WhereaboutsKnown DEF Whereabouts, Stage
<1>5. Spots'[t.sub] = "queued"
  BY <1>1, WhereaboutsNext DEF Whereabouts
<1>6. Spots' = [Spots EXCEPT ![t.sub] = "queued"]
  BY <1>3, <1>5, OneMoves
<1>7. runs[t.sub] < MaxRetries
  BY <1>1 DEF AttemptsCount, PcOK
<1> QED
  BY <1>1, <1>3, <1>4, <1>6, <1>7, Moves DEF Promise!Retry

\* to_dlq parks the job after its last try.
LEMMA ToDlqParks ==
  ASSUME Ledger, Ledger', NEW w \in Workers, NEW t \in tasks[w], ToDlq(w, t)
  PROVE  \E g \in Subs : Promise!Park(g)
<1> USE DEF Ledger, TInv
<1>1. PICK e : /\ e.sub = t.sub /\ dlq' = dlq \cup {e}
               /\ tasks' = [tasks EXCEPT ![w] = @ \ {t}]
               /\ UNCHANGED <<queue, fate, runs>> /\ t.pc = "burying"
  BY DEF ToDlq
<1>2. \A g \in Subs : g # t.sub => (g \in SubsOf(dlq') <=> g \in SubsOf(dlq))
  BY <1>1 DEF SubsOf
<1>3. t.sub \in Subs /\ \A g \in Subs : g # t.sub => SameHolders(g)
  BY <1>1, <1>2, TaskEnds
<1>4. Spots[t.sub] = "failed"
  BY <1>1, WhereaboutsKnown DEF Whereabouts, Stage
<1>5. Spots'[t.sub] = "parked"
  BY <1>1, WhereaboutsNext DEF Whereabouts
<1>6. Spots' = [Spots EXCEPT ![t.sub] = "parked"]
  BY <1>3, <1>5, OneMoves
<1>7. runs[t.sub] = MaxRetries
  BY <1>1 DEF AttemptsCount, PcOK
<1> QED
  BY <1>1, <1>3, <1>4, <1>6, <1>7, Moves DEF Promise!Park

\* delete_dlq_entry deletes a parked job.
LEMMA DeleteDeletes ==
  ASSUME Ledger, Ledger', NEW e \in dlq, DeleteEntry(e)
  PROVE  \E g \in Subs : Promise!Delete(g)
<1> USE DEF Ledger, TInv
<1>1. /\ dlq' = dlq \ {e} /\ fate' = [fate EXCEPT ![e.sub] = "deleted"]
      /\ UNCHANGED <<queue, tasks, runs>>
  BY DEF DeleteEntry
<1>2. PICK g \in Subs : g = e.sub
  BY DEF TypeOK, Entry
<1>3. \A h \in Subs : h # g => SameHolders(h)
  BY <1>1, <1>2 DEF SameHolders, SubsOf, TypeOK
<1>4. Spots[g] = "parked"
  BY <1>2, WhereaboutsKnown DEF Whereabouts
<1>5. fate'[g] = "deleted"
  BY <1>1, <1>2 DEF TypeOK
<1>6. Spots'[g] = "deleted"
  BY <1>5, WhereaboutsNext DEF Whereabouts
<1>7. Spots' = [Spots EXCEPT ![g] = "deleted"]
  BY <1>3, <1>6, OneMoves
<1> QED
  BY <1>1, <1>4, <1>7, Moves DEF Promise!Delete

\* A worker that stops loses what it has in hand, and nothing else.
LEMMA StopLoses ==
  ASSUME Ledger, Ledger', NEW w \in Workers, NEW why \in {"cancelled", "crashed"},
         LoseTasks(w, why)
  PROVE  Promise!Lose(SubsOf(tasks[w]), why) /\ SubsOf(tasks[w]) \subseteq Subs
<1> USE DEF Ledger, TInv
<1> DEFINE lost == SubsOf(tasks[w])
<1>1. /\ tasks' = [tasks EXCEPT ![w] = {}] /\ UNCHANGED <<queue, dlq, runs>>
      /\ fate' = [g \in Subs |-> IF g \in lost THEN why ELSE fate[g]]
  BY DEF LoseTasks
<1>2. lost \subseteq Subs
  BY DEF SubsOf, TypeOK, Task
<1>3. ASSUME NEW g \in lost PROVE Spots[g] \in Promise!InHand /\ Spots'[g] = why
  <2>1. PICK t \in tasks[w] : t.sub = g
    BY <1>3 DEF SubsOf
  <2>2. Spots[g] = Stage(t.pc)
    BY <2>1, WhereaboutsKnown DEF Whereabouts
  <2>3. fate'[g] = why /\ g \in Subs
    BY <1>1, <1>2, <1>3
  <2>4. Spots'[g] = why
    BY <2>3, WhereaboutsNext DEF Whereabouts
  <2> QED
    BY <2>2, <2>4 DEF Stage, Promise!InHand
<1>4. ASSUME NEW g \in Subs \ lost PROVE Spots'[g] = Spots[g]
  <2>1. \A v \in Workers : {t \in tasks'[v] : t.sub = g} = {t \in tasks[v] : t.sub = g}
    BY <1>1, <1>4 DEF TypeOK, SubsOf
  <2>2. SameHolders(g)
    BY <1>1, <1>4, <2>1 DEF SameHolders
  <2> QED
    BY <2>2, Unmoved
<1>5. Spots' = [g \in Subs |-> IF g \in lost THEN why ELSE Spots[g]]
  BY <1>3, <1>4 DEF Spots
<1> QED
  BY <1>1, <1>2, <1>3, <1>5 DEF Spots, Promise!Lose

\* The names not yet given out are those the promise calls unused.
LEMMA UnusedNowhere == Ledger => Promise!At("none") = Unused
<1> SUFFICES ASSUME Ledger, NEW g \in Subs PROVE Spots[g] = "none" <=> fate[g] = "none"
  BY DEF Spots, Promise!At, Unused
<1>1. ASSUME fate[g] = "none" PROVE Spots[g] = "none"
  BY <1>1, WhereaboutsKnown DEF Whereabouts
<1>2. ASSUME Spots[g] = "none" PROVE fate[g] = "none"
  BY <1>2 DEF Spots, Place
<1> QED
  BY <1>1, <1>2

\* A committed requeue restarts the entries it read under new names, and removes parked
\* jobs only: those it read and, for requeue-all, those that came since.
LEMMA CommitRequeues ==
  ASSUME Ledger, Ledger', NEW a \in Admins, CommitRequeue(a)
  PROVE  \E seen \in SUBSET (Subs \ Promise!At("none")),
            removed \in SUBSET Promise!At("parked") :
              \E child \in [seen -> Promise!At("none")] : Promise!Requeue(seen, child, removed)
<1> USE DEF Ledger, TInv
<1> DEFINE E       == req[a].entries
           seen    == SubsOf(E)
           removed == SubsOf(Doomed(a))
<1>1. PICK child \in [seen -> Unused] :
        LET new == {child[g] : g \in DOMAIN child} IN
        /\ \A g, h \in DOMAIN child : child[g] = child[h] => g = h
        /\ queue' = queue \cup {[sub |-> child[e.sub], kind |-> e.kind, attempt |-> 1,
                                 at |-> clock] : e \in E}
        /\ dlq' = dlq \ Doomed(a)
        /\ fate' = [g \in Subs |->
                     IF g \in new THEN "live"
                     ELSE IF g \in removed
                       THEN IF g \in DOMAIN child THEN "requeued" ELSE "swept"
                     ELSE fate[g]]
  BY DEF CommitRequeue
<1> DEFINE new == {child[g] : g \in seen}
<1>2. UNCHANGED <<tasks, runs>>
  BY DEF CommitRequeue
<1>3. /\ \A g, h \in seen : child[g] = child[h] => g = h
      /\ fate' = [g \in Subs |->
                   IF g \in new THEN "live"
                   ELSE IF g \in removed THEN IF g \in seen THEN "requeued" ELSE "swept"
                   ELSE fate[g]]
  BY <1>1
<1>4. seen \in SUBSET (Subs \ Unused)
  BY DEF Book, Unused, SubsOf, TypeOK, Request, Entry
<1>5. removed \in SUBSET Promise!At("parked")
  <2>1. Doomed(a) \subseteq dlq
    BY DEF Doomed
  <2>2. \A e \in dlq : e.sub \in Subs /\ Spots[e.sub] = "parked"
    BY WhereaboutsKnown DEF Whereabouts, TypeOK, Entry
  <2> QED
    BY <2>1, <2>2 DEF SubsOf, Spots, Promise!At
<1>6. ASSUME NEW g \in new PROVE Spots'[g] = "queued"
  <2>1. PICK e \in E : g = child[e.sub]
    BY <1>6 DEF SubsOf
  <2> DEFINE r == [sub |-> child[e.sub], kind |-> e.kind, attempt |-> 1, at |-> clock]
  <2>2. r.sub = g
    BY <2>1
  <2>3. queue' = queue \cup {[sub |-> child[x.sub], kind |-> x.kind, attempt |-> 1,
                              at |-> clock] : x \in E}
    BY <1>1
  <2>4. r \in queue'
    BY <2>3
  <2> HIDE DEF r
  <2> QED
    BY <2>2, <2>4, WhereaboutsNext DEF Whereabouts
<1>7. ASSUME NEW g \in Subs \ new, g \in removed
      PROVE  Spots'[g] = IF g \in seen THEN "requeued" ELSE "swept"
  <2>1. fate'[g] = IF g \in seen THEN "requeued" ELSE "swept"
    BY <1>3, <1>7
  <2> QED
    BY <2>1, WhereaboutsNext DEF Whereabouts
<1>8. ASSUME NEW g \in Subs \ new, g \notin removed PROVE Spots'[g] = Spots[g]
  <2>1. fate'[g] = fate[g]
    BY <1>3, <1>8
  <2>2. g \in SubsOf(dlq') <=> g \in SubsOf(dlq)
    BY <1>1, <1>8 DEF SubsOf
  <2>3. \A r \in queue' : r \in queue \/ r.sub \in new
    BY <1>1 DEF SubsOf
  <2>4. queue \subseteq queue'
    BY <1>1
  <2>5. g \in SubsOf(queue') <=> g \in SubsOf(queue)
    BY <1>8, <2>3, <2>4 DEF SubsOf
  <2>6. SameHolders(g)
    BY <1>2, <2>1, <2>2, <2>5 DEF SameHolders
  <2> QED
    BY <2>6, Unmoved
<1>9. Spots' = [g \in Subs |->
                  IF \E h \in seen : child[h] = g THEN "queued"
                  ELSE IF g \in removed THEN IF g \in seen THEN "requeued" ELSE "swept"
                  ELSE Spots[g]]
  <2>1. \A g \in Subs : (\E h \in seen : child[h] = g) <=> g \in new
    OBVIOUS
  <2>2. Spots' = [g \in Subs |-> Spots'[g]]
    BY DEF Spots
  <2> HIDE DEF seen, removed, new
  <2> QED
    BY <1>6, <1>7, <1>8, <2>1, <2>2
<1>10. Promise!Requeue(seen, child, removed)
  BY <1>2, <1>3, <1>9 DEF Spots, Promise!Requeue
<1> QED
  BY <1>1, <1>4, <1>5, <1>10, UnusedNowhere

-----------------------------------------------------------------------------
(* Every step of the queue is one of the promise's or is not seen. *)

\* All submissions start unused.
LEMMA PromiseInit == Init => Promise!Init
<1> SUFFICES ASSUME Init PROVE Promise!Init
  OBVIOUS
<1>1. Whereabouts
  BY LedgerInit, WhereaboutsKnown
<1>2. Spots = [g \in Subs |-> "none"]
  BY <1>1 DEF Whereabouts, Spots, Init
<1> QED
  BY <1>2 DEF Spots, Init, Promise!Init

\* From a state of the ledger, whatever acts.
LEMMA PromiseStep == Ledger /\ Ledger' /\ [Next]_vars => [Promise!Next]_Promise!pvars
<1> SUFFICES ASSUME Ledger, Ledger', [Next]_vars PROVE [Promise!Next]_Promise!pvars
  OBVIOUS
<1>1. ASSUME NEW g \in Subs, NEW kind \in Kinds, Enqueue(g, kind) PROVE Promise!Next
  BY <1>1, EnqueueSubmits DEF Promise!Next
<1>2. ASSUME NEW w \in Workers, Dispatch(w) PROVE [Promise!Next]_Promise!pvars
  <2>1. CASE Claim(w)
    BY <2>1, Unseen DEF Claim
  <2>2. CASE CommitDequeue(w)
    BY <2>2, DequeueTakes DEF Promise!Next
  <2>3. ASSUME NEW t \in tasks[w], StartHandler(w, t) PROVE Promise!Next
    BY <2>3, StartRuns DEF Promise!Next
  <2>4. ASSUME NEW t \in tasks[w], Succeed(w, t) PROVE Promise!Next
    BY <2>4, SucceedFinishes DEF Promise!Next
  <2>5. ASSUME NEW t \in tasks[w], Fail(w, t) PROVE Promise!Next
    BY <2>5, FailStumbles DEF Promise!Next
  <2>6. ASSUME NEW t \in tasks[w], Nack(w, t) PROVE Promise!Next
    BY <2>6, NackRetries DEF Promise!Next
  <2>7. ASSUME NEW t \in tasks[w], ToDlq(w, t) PROVE Promise!Next
    BY <2>7, ToDlqParks DEF Promise!Next
  <2> QED
    BY <1>2, <2>1, <2>2, <2>3, <2>4, <2>5, <2>6, <2>7 DEF Dispatch
<1>3. ASSUME NEW w \in Workers, Stop(w) PROVE [Promise!Next]_Promise!pvars
  <2>1. CASE Sigterm(w) \/ Start(w)
    BY <2>1, Unseen DEF Sigterm, Start
  <2>2. ASSUME NEW why \in {"cancelled", "crashed"}, LoseTasks(w, why) PROVE Promise!Next
    BY <2>2, StopLoses DEF Promise!Next
  <2> QED
    BY <1>3, <2>1, <2>2 DEF Stop, CancelTasks, Abort
<1>4. ASSUME NEW a \in Admins, Administer(a) PROVE [Promise!Next]_Promise!pvars
  <2>1. CASE CommitRequeue(a)
    BY <2>1, CommitRequeues DEF Promise!Next
  <2>2. ASSUME SelectAll(a) \/ \E e \in dlq : SelectOne(a, e)
        PROVE  UNCHANGED Promise!pvars
    BY <2>2, Unseen DEF SelectAll, SelectOne
  <2> QED
    BY <1>4, <2>1, <2>2 DEF Administer
<1>5. ASSUME NEW e \in dlq, DeleteEntry(e) PROVE Promise!Next
  BY <1>5, DeleteDeletes DEF Promise!Next
<1>6. CASE UNCHANGED vars
  BY <1>6, Unseen DEF vars
<1> QED
  BY <1>1, <1>2, <1>3, <1>4, <1>5, <1>6 DEF Next

\* The tables, the workers and the DLQ endpoints keep the queue's promise to those who
\* enqueue, for any number of jobs, workers, concurrent requests and stops and any limits.
THEOREM PromiseKept == Spec => KeepsPromise
<1>1. Ledger /\ [Next]_vars => [Promise!Next]_Promise!pvars
  BY LedgerStep, PromiseStep
<1> QED
  BY <1>1, PromiseInit, LedgerInvariant, PTL DEF Spec, KeepsPromise, Promise!Spec
=============================================================================
