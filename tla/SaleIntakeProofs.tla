-------------------------- MODULE SaleIntakeProofs --------------------------
(***************************************************************************)
(* Proofs about SaleIntake, for every value of its constants.              *)
(*                                                                         *)
(* The inductive invariant is Intake.  Serial, at most one open transaction *)
(* per sale, is what the contact's row lock buys; what a transaction has   *)
(* decided (Decisions) and sold (SalesInHand) is still true when it        *)
(* commits only because of it.                                             *)
(***************************************************************************)
EXTENDS SaleIntake, FiniteSetTheorems, SequenceTheorems, TLAPS

\* A request past its first step holds the key of an event.
Keyed == \A r \in Requests : http[r].pc # "idle" => http[r].key \in Keys

\* What a reprocess request has selected is finitely many rows.
ReadFinite == \A a \in Admins : read[a] # None => IsFiniteSet(read[a])

\* The row lock of the contact: one open transaction per sale.
Serial == \A i, j \in DOMAIN jobs :
  /\ jobs[i].pc \in Inside /\ jobs[j].pc \in Inside
  /\ jobs[i].sale = jobs[j].sale
  => i = j

\* The jobs that have left a row of event e in the log.
DoneJobs(e) == {i \in DOMAIN jobs :
                  jobs[i].pc = "done" /\ jobs[i].sale = e[1] /\ jobs[i].kind = e[2]}

\* Every event row is the trace of exactly one completed job.
RowsCounted == \A e \in Events : log[e] = Cardinality(DoneJobs(e))

Routed == {"matched", "unmatched", "enrolled", "sold"}

\* What an open transaction has read and decided: as long as the mapping is the one it has
\* looked up, its verdict is the mapping's; and a sale it judged unmatched has no enrollment
\* but from an earlier lookup.
Decisions == \A j \in DOMAIN jobs :
  /\ jobs[j].flows # {} => jobs[j].match
  /\ jobs[j].pc = "matched" => jobs[j].match
  /\ jobs[j].pc \notin Routed => ~jobs[j].match
  /\ jobs[j].pc \in Routed =>
       jobs[j].at <= changes /\ (jobs[j].at = changes => (jobs[j].match <=> mapped))
  /\ jobs[j].pc \in Routed /\ ~jobs[j].match /\ enrolled[jobs[j].sale] # {} =>
       enrolledAt[jobs[j].sale] < jobs[j].at

\* An enrollment is proof that the product was mapped when it was looked up.
EnrolledMapped == \A s \in Sales : enrolled[s] # {} =>
  enrolledAt[s] <= changes /\ (enrolledAt[s] = changes => mapped)

\* A purchase that has flushed its access case is the first of its sale.
SalesInHand == \A j \in DOMAIN jobs : jobs[j].pc = "sold" =>
  /\ jobs[j].kind = "activated"
  /\ jobs[j].sale \notin cases

\* The sale has a case, or the transaction that writes it is open.
Sold(s) == s \in cases \/ \E j \in DOMAIN jobs : jobs[j].sale = s /\ jobs[j].pc = "sold"

\* Beyond the one welcome of a sale that is sold, each stands for a fault.
WelcomesCounted == \A s \in Sales :
  welcomed[s] <= (IF Sold(s) THEN 1 ELSE 0) + faults

Typing == TypeOK /\ Keyed /\ ReadFinite /\ Serial /\ RowsCounted
Intake == /\ Typing
          /\ Decisions /\ EnrolledMapped /\ PendingIsNewer
          /\ SalesInHand /\ PurchaseLoggedWithCase /\ WelcomesCounted

-----------------------------------------------------------------------------
(* The list of jobs *)

\* Step's effect on job j: it is rewritten, every other job is left alone, and
\* no job changes the event it stands for.
Rewrites(j) ==
  /\ jobs' \in Seq(Job) /\ Len(jobs') = Len(jobs) /\ DOMAIN jobs' = DOMAIN jobs
  /\ \A i \in DOMAIN jobs : i # j => jobs'[i] = jobs[i]
  /\ \A i \in DOMAIN jobs :
       jobs'[i].sale = jobs[i].sale /\ jobs'[i].kind = jobs[i].kind

\* Writing one element of a sequence.
LEMMA SeqWrite ==
  ASSUME NEW S, NEW q \in Seq(S), NEW j \in DOMAIN q, NEW x \in S
  PROVE  LET p == [q EXCEPT ![j] = x] IN
         /\ p \in Seq(S) /\ Len(p) = Len(q) /\ DOMAIN p = DOMAIN q
         /\ p[j] = x /\ \A i \in DOMAIN q : i # j => p[i] = q[i]
<1> DEFINE p == [q EXCEPT ![j] = x]
<1>1. DOMAIN q = 1..Len(q) /\ Len(q) \in Nat /\ \A i \in 1..Len(q) : q[i] \in S
  BY LenProperties, ElementOfSeq
<1>2. p \in [1..Len(q) -> S]
  BY <1>1
<1>3. p \in Seq(S)
  BY <1>1, <1>2, SeqDef
<1> QED
  BY <1>1, <1>2, <1>3, LenProperties

\* A list of jobs holds jobs, numbered from 1.
LEMMA JobsList ==
  ASSUME TypeOK
  PROVE  /\ Len(jobs) \in Nat /\ DOMAIN jobs = 1..Len(jobs)
         /\ \A j \in DOMAIN jobs : jobs[j] \in Job
  BY LenProperties, ElementOfSeq DEF TypeOK

\* A job of the list replaced by a job of the same event.
LEMMA JobWritten ==
  ASSUME TypeOK, NEW j \in DOMAIN jobs, NEW x \in Job,
         x.sale = jobs[j].sale, x.kind = jobs[j].kind,
         jobs' = [jobs EXCEPT ![j] = x]
  PROVE  Rewrites(j) /\ jobs'[j] = x
<1>1. jobs \in Seq(Job)
  BY DEF TypeOK
<1> QED
  BY <1>1, SeqWrite DEF Rewrites

\* A handler's progress changes the place it is at.
LEMMA GotoEffect ==
  ASSUME TypeOK, NEW j \in DOMAIN jobs, NEW pc \in Inside, Goto(j, pc)
  PROVE  Rewrites(j) /\ jobs'[j] = [jobs[j] EXCEPT !.pc = pc]
<1> DEFINE x == [jobs[j] EXCEPT !.pc = pc]
<1>1. jobs[j] \in Job
  BY JobsList
<1>2. x \in Job /\ x.sale = jobs[j].sale /\ x.kind = jobs[j].kind
  BY <1>1 DEF Job
<1>3. jobs' = [jobs EXCEPT ![j] = x]
  BY DEF Goto
<1> HIDE DEF x
<1>4. Rewrites(j) /\ jobs'[j] = x
  BY <1>2, <1>3, JobWritten
<1> QED
  BY <1>4 DEF x

\* The verdict on the product.
LEMMA RouteEffect ==
  ASSUME TypeOK, NEW j \in DOMAIN jobs, Route(j)
  PROVE  /\ Rewrites(j)
         /\ jobs'[j] = [jobs[j] EXCEPT !.pc = IF mapped THEN "matched" ELSE "unmatched",
                                       !.match = mapped, !.at = changes]
<1> DEFINE x == [jobs[j] EXCEPT !.pc = IF mapped THEN "matched" ELSE "unmatched",
                                !.match = mapped, !.at = changes]
<1>1. jobs[j] \in Job
  BY JobsList
<1>2. x \in Job /\ x.sale = jobs[j].sale /\ x.kind = jobs[j].kind
  BY <1>1 DEF Job, Inside, TypeOK
<1>3. jobs' = [jobs EXCEPT ![j] = x]
  BY DEF Route
<1> HIDE DEF x
<1>4. Rewrites(j) /\ jobs'[j] = x
  BY <1>2, <1>3, JobWritten
<1> QED
  BY <1>4 DEF x

\* The flows the buyer is enrolled in, were the transaction to commit.
LEMMA EnrollEffect ==
  ASSUME TypeOK, NEW j \in DOMAIN jobs, NEW fs \in SUBSET Flows,
         jobs' = [jobs EXCEPT ![j].pc = "enrolled", ![j].flows = fs]
  PROVE  Rewrites(j) /\ jobs'[j] = [jobs[j] EXCEPT !.pc = "enrolled", !.flows = fs]
<1> DEFINE x == [jobs[j] EXCEPT !.pc = "enrolled", !.flows = fs]
<1>1. jobs[j] \in Job
  BY JobsList
<1>2. x \in Job /\ x.sale = jobs[j].sale /\ x.kind = jobs[j].kind
  BY <1>1 DEF Job, Inside
<1>3. jobs' = [jobs EXCEPT ![j] = x]
  OBVIOUS
<1> HIDE DEF x
<1>4. Rewrites(j) /\ jobs'[j] = x
  BY <1>2, <1>3, JobWritten
<1> QED
  BY <1>4 DEF x

\* A failure leaves nothing of the transaction; the job waits or is buried.
LEMMA RaiseEffect ==
  ASSUME TypeOK, NEW j \in DOMAIN jobs, Raise(j)
  PROVE  /\ Rewrites(j)
         /\ jobs'[j].pc \in {"queued", "dead"}
         /\ ~jobs'[j].match /\ jobs'[j].flows = {}
<1> DEFINE x == [jobs[j] EXCEPT !.pc = IF jobs[j].attempt < MaxRetries THEN "queued" ELSE "dead",
                                !.attempt = IF @ < MaxRetries THEN @ + 1 ELSE @,
                                !.match = FALSE, !.at = 0, !.flows = {}]
<1>1. jobs[j] \in Job
  BY JobsList
<1>2. x \in Job /\ x.sale = jobs[j].sale /\ x.kind = jobs[j].kind
  <2>1. (IF jobs[j].attempt < MaxRetries THEN jobs[j].attempt + 1
                                         ELSE jobs[j].attempt) \in 1..MaxRetries
    BY <1>1, BoundsAssumption DEF Job
  <2>2. (IF jobs[j].attempt < MaxRetries THEN "queued" ELSE "dead") \in {"queued", "dead"}
    OBVIOUS
  <2>3. 0 \in 0..MaxChanges
    BY BoundsAssumption
  <2> QED
    BY <1>1, <2>1, <2>2, <2>3 DEF Job
<1>3. jobs' = [jobs EXCEPT ![j] = x]
  BY DEF Raise
<1>4. x.pc \in {"queued", "dead"} /\ ~x.match /\ x.flows = {}
  BY <1>1 DEF Job
<1> HIDE DEF x
<1>5. Rewrites(j) /\ jobs'[j] = x
  BY <1>2, <1>3, JobWritten
<1> QED
  BY <1>4, <1>5

\* An ended job is a job of the same event.
LEMMA EndedJob ==
  ASSUME NEW x \in Job, NEW pc \in {"done", "lost"}
  PROVE  /\ Ended(x, pc) \in Job
         /\ Ended(x, pc).sale = x.sale /\ Ended(x, pc).kind = x.kind
         /\ Ended(x, pc).pc = pc /\ ~Ended(x, pc).match /\ Ended(x, pc).flows = {}
<1>1. 1 \in 1..MaxRetries /\ 0 \in 0..MaxChanges
  BY BoundsAssumption
<1> QED
  BY <1>1 DEF Job, Ended

\* A committed job is done.
LEMMA CommitEffect ==
  ASSUME TypeOK, NEW j \in DOMAIN jobs, Commit(j)
  PROVE  /\ Rewrites(j)
         /\ jobs'[j].pc = "done" /\ ~jobs'[j].match /\ jobs'[j].flows = {}
<1> DEFINE x == Ended(jobs[j], "done")
<1>1. jobs[j] \in Job
  BY JobsList
<1>2. /\ x \in Job /\ x.sale = jobs[j].sale /\ x.kind = jobs[j].kind
      /\ x.pc = "done" /\ ~x.match /\ x.flows = {}
  BY <1>1, EndedJob
<1>3. jobs' = [jobs EXCEPT ![j] = x]
  BY DEF Commit
<1> HIDE DEF x
<1>4. Rewrites(j) /\ jobs'[j] = x
  BY <1>2, <1>3, JobWritten
<1> QED
  BY <1>2, <1>4

\* A requeued job starts over.
LEMMA RequeueEffect ==
  ASSUME TypeOK, NEW j \in DOMAIN jobs, Requeue(j)
  PROVE  Rewrites(j) /\ jobs'[j] = [jobs[j] EXCEPT !.pc = "queued", !.attempt = 1]
<1> DEFINE x == [jobs[j] EXCEPT !.pc = "queued", !.attempt = 1]
<1>1. jobs[j] \in Job
  BY JobsList
<1>2. x \in Job /\ x.sale = jobs[j].sale /\ x.kind = jobs[j].kind
  <2>1. 1 \in 1..MaxRetries
    BY BoundsAssumption
  <2> QED
    BY <1>1, <2>1 DEF Job
<1>3. jobs' = [jobs EXCEPT ![j] = x]
  BY DEF Requeue
<1> HIDE DEF x
<1>4. Rewrites(j) /\ jobs'[j] = x
  BY <1>2, <1>3, JobWritten
<1> QED
  BY <1>4 DEF x

\* Step's effect when jobs are inserted: they are queued, with nothing decided.
Grows ==
  /\ jobs' \in Seq(Job) /\ Len(jobs') <= MaxJobs
  /\ DOMAIN jobs \subseteq DOMAIN jobs'
  /\ \A i \in DOMAIN jobs : jobs'[i] = jobs[i]
  /\ \A i \in DOMAIN jobs' \ DOMAIN jobs :
       jobs'[i].pc = "queued" /\ ~jobs'[i].match /\ jobs'[i].flows = {}

\* A sequence of new jobs inserted behind the others.
LEMMA JobsInserted ==
  ASSUME TypeOK, NEW q \in Seq(Job), jobs' = jobs \o q, Len(jobs) + Len(q) <= MaxJobs,
         \A i \in DOMAIN q : q[i].pc = "queued" /\ ~q[i].match /\ q[i].flows = {}
  PROVE  Grows
<1>1. /\ jobs \in Seq(Job) /\ Len(jobs) \in Nat /\ DOMAIN jobs = 1..Len(jobs)
      /\ Len(q) \in Nat /\ DOMAIN q = 1..Len(q)
  BY LenProperties DEF TypeOK
<1>2. /\ jobs' \in Seq(Job) /\ Len(jobs') = Len(jobs) + Len(q)
      /\ \A i \in 1..Len(jobs) + Len(q) :
           jobs'[i] = IF i <= Len(jobs) THEN jobs[i] ELSE q[i - Len(jobs)]
  BY <1>1, ConcatProperties
<1>3. DOMAIN jobs' = 1..Len(jobs) + Len(q)
  BY <1>2, LenProperties
<1>4. \A i \in DOMAIN jobs' \ DOMAIN jobs :
        jobs'[i].pc = "queued" /\ ~jobs'[i].match /\ jobs'[i].flows = {}
  <2> TAKE i \in DOMAIN jobs' \ DOMAIN jobs
  <2>1. i - Len(jobs) \in DOMAIN q /\ jobs'[i] = q[i - Len(jobs)]
    BY <1>1, <1>2, <1>3
  <2> QED
    BY <2>1
<1>5. DOMAIN jobs \subseteq DOMAIN jobs' /\ \A i \in DOMAIN jobs : jobs'[i] = jobs[i]
  BY <1>1, <1>2, <1>3
<1> QED
  BY <1>2, <1>4, <1>5 DEF Grows

\* The row a request or the reprocess page inserts.
LEMMA NewJobType ==
  ASSUME TypeOK, NEW route \in {"hubla", "purchase", "reprocess"},
         NEW sale \in Sales, NEW kind \in Kinds
  PROVE  /\ NewJob(route, sale, kind) \in Job
         /\ NewJob(route, sale, kind).pc = "queued"
         /\ ~NewJob(route, sale, kind).match /\ NewJob(route, sale, kind).flows = {}
<1>1. 1 \in 1..MaxRetries /\ 0 \in 0..MaxChanges /\ (mapped /\ route = "reprocess") \in BOOLEAN
  BY BoundsAssumption
<1> QED
  BY <1>1 DEF Job, NewJob

\* A webhook's insert.
LEMMA EnqueueEffect ==
  ASSUME TypeOK, Keyed, NEW r \in Requests, Enqueue(r)
  PROVE  Grows
<1> DEFINE k == http[r].key
           x == NewJob(k.route, k.sale, k.kind)
<1>1. k \in Keys
  BY DEF Keyed, Enqueue
<1>2. k.route \in {"hubla", "purchase", "reprocess"} /\ k.sale \in Sales /\ k.kind \in Kinds
  BY <1>1 DEF Keys, Events
<1>3. x \in Job /\ x.pc = "queued" /\ ~x.match /\ x.flows = {}
  BY <1>2, NewJobType
<1>4. jobs' = Append(jobs, x) /\ Len(jobs) < MaxJobs
  BY DEF Enqueue
<1> HIDE DEF x
<1>5. jobs' = jobs \o <<x>>
  BY <1>3, <1>4, AppendIsConcat DEF TypeOK
<1>6. <<x>> \in Seq(Job) /\ Len(<<x>>) = 1 /\ DOMAIN <<x>> = {1} /\ <<x>>[1] = x
  BY <1>3
<1>7. Len(jobs) + 1 <= MaxJobs
  BY <1>4, JobsList, BoundsAssumption
<1> QED
  BY <1>3, <1>5, <1>6, <1>7, JobsInserted

\* The elements of a finite set, one after the other.
LEMMA SetToSeqLists ==
  ASSUME NEW S, IsFiniteSet(S)
  PROVE  /\ SetToSeq(S) \in Seq(S) /\ Len(SetToSeq(S)) = Cardinality(S)
         /\ \A i \in DOMAIN SetToSeq(S) : SetToSeq(S)[i] \in S
<1>1. Cardinality(S) \in Nat /\ ExistsBijection(1..Cardinality(S), S)
  BY FS_CardinalityType
<1>2. \E f \in [1..Cardinality(S) -> S] : IsInjective(f)
  BY <1>1 DEF ExistsBijection, Bijection, Injection, IsInjective
<1>3. SetToSeq(S) \in [1..Cardinality(S) -> S]
  BY <1>2 DEF SetToSeq
<1> QED
  BY <1>1, <1>3, SeqDef, LenProperties

\* The inserts of a reprocess request: one job per selected row.
LEMMA ReprocessEffect ==
  ASSUME TypeOK, ReadFinite, NEW a \in Admins, ReprocessCommits(a)
  PROVE  Grows
<1> DEFINE rows == SetToSeq(read[a])
           q == [i \in DOMAIN rows |-> NewJob("reprocess", rows[i][1][1], rows[i][1][2])]
<1>1. IsFiniteSet(read[a]) /\ read[a] \subseteq Events \X (1..MaxJobs)
  BY DEF ReadFinite, TypeOK, ReprocessCommits
<1>2. /\ Len(rows) \in Nat /\ Len(rows) = Cardinality(read[a]) /\ DOMAIN rows = 1..Len(rows)
      /\ \A i \in DOMAIN rows : rows[i] \in read[a]
  BY <1>1, SetToSeqLists, LenProperties
<1>3. jobs' = jobs \o q /\ Len(jobs) + Len(rows) <= MaxJobs
  BY <1>2 DEF ReprocessCommits
<1> HIDE DEF rows
<1>4. ASSUME NEW i \in DOMAIN rows
      PROVE  q[i] \in Job /\ q[i].pc = "queued" /\ ~q[i].match /\ q[i].flows = {}
  <2>1. rows[i] \in Events \X (1..MaxJobs)
    BY <1>1, <1>2
  <2>2. rows[i][1][1] \in Sales /\ rows[i][1][2] \in Kinds
    BY <2>1 DEF Events
  <2>3. q[i] = NewJob("reprocess", rows[i][1][1], rows[i][1][2])
    OBVIOUS
  <2> HIDE DEF q
  <2> QED
    BY <2>2, <2>3, NewJobType
<1>5. q \in [1..Len(rows) -> Job]
  BY <1>2, <1>4
<1>6. DOMAIN q = DOMAIN rows
  OBVIOUS
<1> HIDE DEF q
<1>7. q \in Seq(Job) /\ Len(q) = Len(rows)
  BY <1>2, <1>5, <1>6, SeqDef, LenProperties
<1> QED
  BY <1>3, <1>4, <1>6, <1>7, JobsInserted

\* A crash ends open transactions and some queued jobs; nothing else changes.
LEMMA CrashEffect ==
  ASSUME TypeOK, WorkerCrash
  PROVE  /\ jobs' \in Seq(Job) /\ Len(jobs') = Len(jobs) /\ DOMAIN jobs' = DOMAIN jobs
         /\ \A i \in DOMAIN jobs :
              /\ jobs'[i].sale = jobs[i].sale /\ jobs'[i].kind = jobs[i].kind
              /\ \/ jobs'[i] = jobs[i] /\ jobs[i].pc \notin Inside
                 \/ /\ jobs[i].pc \in Inside \cup {"queued"}
                    /\ jobs'[i].pc = "lost" /\ ~jobs'[i].match /\ jobs'[i].flows = {}
<1>1. PICK S \in SUBSET {j \in DOMAIN jobs : jobs[j].pc = "queued"} :
        jobs' = [j \in DOMAIN jobs |->
                   IF j \in S \/ jobs[j].pc \in Inside THEN Ended(jobs[j], "lost") ELSE jobs[j]]
  BY DEF WorkerCrash
<1>2. /\ Len(jobs) \in Nat /\ DOMAIN jobs = 1..Len(jobs)
      /\ \A j \in DOMAIN jobs : jobs[j] \in Job
  BY JobsList
<1>3. \A j \in DOMAIN jobs :
        /\ Ended(jobs[j], "lost") \in Job
        /\ Ended(jobs[j], "lost").sale = jobs[j].sale
        /\ Ended(jobs[j], "lost").kind = jobs[j].kind
        /\ Ended(jobs[j], "lost").pc = "lost"
        /\ ~Ended(jobs[j], "lost").match /\ Ended(jobs[j], "lost").flows = {}
  BY <1>2, EndedJob
<1>4. jobs' \in [1..Len(jobs) -> Job]
  BY <1>1, <1>2, <1>3
<1>5. jobs' \in Seq(Job) /\ Len(jobs') = Len(jobs) /\ DOMAIN jobs' = DOMAIN jobs
  BY <1>2, <1>4, SeqDef, LenProperties
<1>6. ASSUME NEW i \in DOMAIN jobs
      PROVE  /\ jobs'[i].sale = jobs[i].sale /\ jobs'[i].kind = jobs[i].kind
             /\ \/ jobs'[i] = jobs[i] /\ jobs[i].pc \notin Inside
                \/ /\ jobs[i].pc \in Inside \cup {"queued"}
                   /\ jobs'[i].pc = "lost" /\ ~jobs'[i].match /\ jobs'[i].flows = {}
  BY <1>1, <1>3
<1> QED
  BY <1>5, <1>6

-----------------------------------------------------------------------------
(* The steps, by what they do to the jobs and the tables *)

\* Outside the handler: at most new jobs, or a change of the mapping.
Quiet ==
  /\ jobs' = jobs \/ Grows
  /\ UNCHANGED tables
  /\ UNCHANGED catalog \/ changes' = changes + 1
  /\ faults' \in {faults, faults + 1}

\* A job whose transaction, if it had one, is rolled back.
RollsBack(j) ==
  /\ Rewrites(j)
  /\ UNCHANGED <<tables, catalog>>
  /\ jobs[j].pc # "done"
  /\ jobs'[j].pc \in {"queued", "dead"} /\ ~jobs'[j].match /\ jobs'[j].flows = {}
  /\ faults' \in {faults, faults + 1}
  /\ jobs[j].pc = "sold" => faults' = faults + 1

\* The sale goes through: there is no case of it yet.
Sells(j) == Sell(j) /\ jobs[j].sale \notin cases

\* Every step is of one of these kinds.
LEMMA StepCases ==
  ASSUME TypeOK, Keyed, ReadFinite, Decisions, [Next]_vars
  PROVE  \/ Quiet \/ WorkerCrash
         \/ \E j \in DOMAIN jobs :
              Persist(j) \/ Route(j) \/ Enroll(j) \/ Sells(j) \/ Commit(j) \/ RollsBack(j)
<1>1. ASSUME NEW r \in Requests, NEW k \in Keys, Receive(r, k) PROVE Quiet
  BY <1>1 DEF Receive, Quiet
<1>2. ASSUME NEW r \in Requests, Enqueue(r) PROVE Quiet
  <2>1. Grows
    BY <1>2, EnqueueEffect
  <2>2. UNCHANGED <<tables, catalog>> /\ faults' \in {faults, faults + 1}
    BY <1>2 DEF Enqueue, Fault
  <2> QED
    BY <2>1, <2>2 DEF Quiet
<1>3. ASSUME NEW r \in Requests, RequestFails(r) PROVE Quiet
  BY <1>3 DEF RequestFails, Fault, Quiet
<1>4. ASSUME NEW k \in Keys, KeyExpires(k) PROVE Quiet
  BY <1>4 DEF KeyExpires, Quiet
<1>5. ASSUME NEW j \in DOMAIN jobs, Sell(j) PROVE Sells(j) \/ RollsBack(j)
  <2>1. CASE jobs[j].sale \in cases
    <3>1. Raise(j) /\ UNCHANGED <<tables, catalog, faults>>
      BY <1>5, <2>1 DEF Sell, tables, sales, api
    <3>2. jobs[j].pc \in {"enrolled", "unmatched"}
      BY <1>5 DEF Sell
    <3> QED
      BY <3>1, <3>2, RaiseEffect DEF RollsBack
  <2> QED
    BY <1>5, <2>1 DEF Sells
<1>6. ASSUME NEW j \in DOMAIN jobs, HandlerFails(j) PROVE RollsBack(j)
  <2>1. Raise(j) /\ UNCHANGED <<tables, catalog>> /\ faults' = faults + 1
    BY <1>6 DEF HandlerFails, Fault, api
  <2>2. jobs[j].pc # "done"
    BY <1>6 DEF HandlerFails, Inside
  <2> QED
    BY <2>1, <2>2, RaiseEffect DEF RollsBack
<1>7. ASSUME NEW j \in DOMAIN jobs, Requeue(j) PROVE RollsBack(j)
  <2>1. jobs[j].pc = "dead" /\ UNCHANGED <<tables, catalog, faults>>
    BY <1>7 DEF Requeue, api
  <2>2. jobs[j] \in Job
    BY JobsList
  <2>3. ~jobs[j].match /\ jobs[j].flows = {}
    BY <2>1 DEF Decisions, Routed
  <2>4. Rewrites(j) /\ jobs'[j] = [jobs[j] EXCEPT !.pc = "queued", !.attempt = 1]
    BY <1>7, RequeueEffect
  <2>5. jobs'[j].pc = "queued" /\ ~jobs'[j].match /\ jobs'[j].flows = {}
    BY <2>2, <2>3, <2>4 DEF Job
  <2> QED
    BY <2>1, <2>4, <2>5 DEF RollsBack
<1>8. ASSUME NEW a \in Admins, ReprocessReads(a) PROVE Quiet
  BY <1>8 DEF ReprocessReads, Quiet
<1>9. ASSUME NEW a \in Admins, ReprocessCommits(a) PROVE Quiet
  <2>1. Grows
    BY <1>9, ReprocessEffect
  <2>2. UNCHANGED <<tables, catalog, faults>>
    BY <1>9 DEF ReprocessCommits
  <2> QED
    BY <2>1, <2>2 DEF Quiet
<1>10. CASE Resolve \/ EditProducts
  BY <1>10 DEF Resolve, EditProducts, Remap, Quiet
<1>11. CASE UNCHANGED vars
  BY <1>11 DEF vars, Quiet
<1> QED
  BY <1>1, <1>2, <1>3, <1>4, <1>5, <1>6, <1>7, <1>8, <1>9, <1>10, <1>11 DEF Next, Handle

-----------------------------------------------------------------------------
(* The inductive invariant *)

\* The invariant holds before anything has happened.
LEMMA InitIntake == Init => Intake
<1> SUFFICES ASSUME Init PROVE Intake
  OBVIOUS
<1>1. jobs = << >> /\ jobs \in Seq(Job) /\ Len(jobs) = 0 /\ DOMAIN jobs = {}
  BY DEF Init
<1>2. TypeOK
  BY <1>1, BoundsAssumption DEF Init, TypeOK
<1>3. Keyed /\ ReadFinite /\ Serial
  BY <1>1 DEF Init, Keyed, ReadFinite, Serial
<1>4. RowsCounted
  <2>1. \A e \in Events : DoneJobs(e) = {}
    BY <1>1 DEF DoneJobs
  <2> QED
    BY <2>1, FS_EmptySet DEF Init, RowsCounted
<1>5. Decisions /\ EnrolledMapped /\ PendingIsNewer
  BY <1>1 DEF Init, Decisions, EnrolledMapped, PendingIsNewer
<1>6. SalesInHand /\ PurchaseLoggedWithCase
  BY <1>1 DEF Init, SalesInHand, PurchaseLoggedWithCase, Events
<1>7. WelcomesCounted
  BY <1>1 DEF Init, WelcomesCounted
<1> QED
  BY <1>2, <1>3, <1>4, <1>5, <1>6, <1>7 DEF Intake, Typing

\* What StepCases leaves to consider.
Ready == TypeOK /\ Keyed /\ ReadFinite /\ Decisions

\* The contact's row lock: a handler that upserts the contact of a sale finds no
\* transaction of that sale open, and no other step opens one.
LEMMA SerialStep == Ready /\ Serial /\ [Next]_vars => Serial'
<1> SUFFICES ASSUME Ready, Serial, [Next]_vars PROVE Serial'
  OBVIOUS
<1> USE DEF Ready
<1>1. CASE Quiet
  <2>1. \A i \in DOMAIN jobs' : jobs'[i].pc \in Inside =>
           i \in DOMAIN jobs /\ jobs'[i] = jobs[i]
    BY <1>1 DEF Quiet, Grows, Inside
  <2> QED
    BY <2>1 DEF Serial
<1>2. CASE WorkerCrash
  <2>1. \A i \in DOMAIN jobs' : jobs'[i].pc \notin Inside
    BY <1>2, CrashEffect DEF Inside
  <2> QED
    BY <2>1 DEF Serial
<1>3. ASSUME NEW j \in DOMAIN jobs, Persist(j) PROVE Serial'
  <2>1. Rewrites(j)
    BY <1>3, GotoEffect DEF Persist, Inside
  <2>2. \A i \in DOMAIN jobs : jobs[i].sale = jobs[j].sale => jobs[i].pc \notin Inside
    BY <1>3 DEF Persist, ContactLocked
  <2> QED
    BY <2>1, <2>2 DEF Serial, Rewrites
<1>4. ASSUME NEW j \in DOMAIN jobs, Rewrites(j), jobs[j].pc \in Inside \/ jobs'[j].pc \notin Inside
      PROVE  Serial'
  BY <1>4 DEF Serial, Rewrites
<1>5. ASSUME NEW j \in DOMAIN jobs, Route(j) \/ Enroll(j) \/ Sells(j) \/ Commit(j)
      PROVE  jobs[j].pc \in Inside
  BY <1>5 DEF Route, Enroll, Sells, Sell, Commit, Inside
<1>6. ASSUME NEW j \in DOMAIN jobs, Route(j) \/ Enroll(j) \/ Sells(j) \/ Commit(j)
      PROVE  Rewrites(j)
  BY <1>6, RouteEffect, EnrollEffect, CommitEffect, GotoEffect DEF Enroll, Sells, Sell, FlowsFor, Inside
<1>7. ASSUME NEW j \in DOMAIN jobs, RollsBack(j)
      PROVE  Rewrites(j) /\ jobs'[j].pc \notin Inside
  BY <1>7 DEF RollsBack, Inside
<1> QED
  BY <1>1, <1>2, <1>3, <1>4, <1>5, <1>6, <1>7, StepCases

\* The completed jobs of an event are finitely many, fewer than the jobs there are
\* as long as one job is not done.
LEMMA DoneFinite ==
  ASSUME TypeOK, NEW e
  PROVE  /\ IsFiniteSet(DoneJobs(e)) /\ Cardinality(DoneJobs(e)) \in Nat
         /\ \A j \in DOMAIN jobs :
              jobs[j].pc # "done" => Cardinality(DoneJobs(e)) < Len(jobs)
<1>1. DOMAIN jobs = 1..Len(jobs) /\ Len(jobs) \in Nat
  BY JobsList
<1>2. IsFiniteSet(DOMAIN jobs) /\ Cardinality(DOMAIN jobs) = Len(jobs)
  <2>1. /\ IsFiniteSet(1..Len(jobs))
        /\ Cardinality(1..Len(jobs)) = IF 1 > Len(jobs) THEN 0 ELSE Len(jobs) - 1 + 1
    BY <1>1, FS_Interval
  <2>2. (IF 1 > Len(jobs) THEN 0 ELSE Len(jobs) - 1 + 1) = Len(jobs)
    BY <1>1
  <2> QED
    BY <1>1, <2>1, <2>2
<1>3. DoneJobs(e) \in SUBSET (DOMAIN jobs)
  BY DEF DoneJobs
<1>4. IsFiniteSet(DoneJobs(e)) /\ Cardinality(DoneJobs(e)) \in Nat
  BY <1>2, <1>3, FS_Subset, FS_CardinalityType
<1>5. ASSUME NEW j \in DOMAIN jobs, jobs[j].pc # "done"
      PROVE  Cardinality(DoneJobs(e)) < Len(jobs)
  <2>1. DoneJobs(e) # DOMAIN jobs
    BY <1>5 DEF DoneJobs
  <2>2. Cardinality(DoneJobs(e)) <= Len(jobs) /\ Cardinality(DoneJobs(e)) # Len(jobs)
    BY <1>2, <1>3, <2>1, FS_Subset
  <2> QED
    BY <1>1, <1>4, <2>2
<1> QED
  BY <1>4, <1>5

\* The rows a SELECT of the reprocess page finds are finitely many.
LEMMA SelectionFinite ==
  ASSUME TypeOK, RowsCounted
  PROVE  IsFiniteSet({row \in Events \X (1..MaxJobs) :
                        lead[row[1][1]] = "unmatched" /\ row[2] <= log[row[1]]})
<1> DEFINE T == {row \in Events \X (1..MaxJobs) :
                   lead[row[1][1]] = "unmatched" /\ row[2] <= log[row[1]]}
           event == [i \in DOMAIN jobs |-> <<jobs[i].sale, jobs[i].kind>>]
           E == {event[i] : i \in DOMAIN jobs}
<1>1. IsFiniteSet(DOMAIN jobs)
  BY JobsList, FS_Interval
<1>2. event \in Surjection(DOMAIN jobs, E)
  BY DEF Surjection
<1>3. IsFiniteSet(E)
  BY <1>1, <1>2, FS_Surjection
<1>4. IsFiniteSet(1..MaxJobs)
  BY BoundsAssumption, FS_Interval
<1>5. IsFiniteSet(E \X (1..MaxJobs))
  BY <1>3, <1>4, FS_Product
<1>6. ASSUME NEW row \in T PROVE row \in E \X (1..MaxJobs)
  <2>1. row[1] \in Events /\ row[2] \in 1..MaxJobs /\ row[2] <= log[row[1]]
        /\ row = <<row[1], row[2]>>
    OBVIOUS
  <2>2. log[row[1]] = Cardinality(DoneJobs(row[1])) /\ log[row[1]] \in Nat
    BY <2>1, BoundsAssumption DEF RowsCounted, TypeOK
  <2>3. DoneJobs(row[1]) # {}
    BY <2>1, <2>2, FS_EmptySet
  <2>4. PICK i \in DOMAIN jobs : jobs[i].sale = row[1][1] /\ jobs[i].kind = row[1][2]
    BY <2>3 DEF DoneJobs
  <2>5. row[1] = event[i]
    BY <2>1, <2>4 DEF Events
  <2> QED
    BY <2>1, <2>5
<1>7. T \in SUBSET (E \X (1..MaxJobs))
  BY <1>6
<1> QED
  BY <1>5, <1>7, FS_Subset

\* The event log: a commit is the only step that completes a job, and it writes
\* one row of that job's event.
LEMMA RowsStep == Ready /\ RowsCounted /\ [Next]_vars => RowsCounted'
<1> SUFFICES ASSUME Ready, RowsCounted, [Next]_vars PROVE RowsCounted'
  OBVIOUS
<1> USE DEF Ready
<1>1. ASSUME UNCHANGED log,
             \A i \in DOMAIN jobs : i \in DOMAIN jobs' /\ jobs'[i].sale = jobs[i].sale
                /\ jobs'[i].kind = jobs[i].kind /\ (jobs'[i].pc = "done" <=> jobs[i].pc = "done"),
             \A i \in DOMAIN jobs' \ DOMAIN jobs : jobs'[i].pc # "done"
      PROVE  RowsCounted'
  <2>1. \A e \in Events : DoneJobs(e)' = DoneJobs(e)
    BY <1>1 DEF DoneJobs
  <2> QED
    BY <1>1, <2>1 DEF RowsCounted
<1>2. CASE Quiet
  BY <1>1, <1>2 DEF Quiet, Grows, tables, sales
<1>3. CASE WorkerCrash
  <2>1. UNCHANGED log
    BY <1>3 DEF WorkerCrash, tables, sales
  <2> QED
    BY <1>1, <1>3, <2>1, CrashEffect DEF Inside
<1>4. ASSUME NEW j \in DOMAIN jobs, Rewrites(j), UNCHANGED log,
             jobs[j].pc # "done", jobs'[j].pc # "done"
      PROVE  RowsCounted'
  BY <1>1, <1>4 DEF Rewrites
<1>5. ASSUME NEW j \in DOMAIN jobs, RollsBack(j) PROVE RowsCounted'
  BY <1>4, <1>5 DEF RollsBack, tables, sales
<1>6. ASSUME NEW j \in DOMAIN jobs, Persist(j) \/ Route(j) \/ Enroll(j) \/ Sells(j)
      PROVE  RowsCounted'
  <2>1. UNCHANGED log
    BY <1>6 DEF Persist, Route, Enroll, Sells, Sell, tables, sales
  <2>2. jobs[j].pc # "done"
    BY <1>6 DEF Persist, Route, Enroll, Sells, Sell
  <2>3. jobs[j] \in Job
    BY JobsList
  <2>4. Rewrites(j) /\ jobs'[j].pc # "done"
    <3>1. CASE Persist(j)
      BY <3>1, <2>3, GotoEffect DEF Persist, Job, Inside
    <3>2. CASE Route(j)
      BY <3>2, <2>3, RouteEffect DEF Job
    <3>3. CASE Enroll(j)
      BY <3>3, <2>3, EnrollEffect DEF Enroll, FlowsFor, Job
    <3>4. CASE Sells(j)
      BY <3>4, <2>3, GotoEffect DEF Sells, Sell, Job, Inside
    <3> QED
      BY <1>6, <3>1, <3>2, <3>3, <3>4
  <2> QED
    BY <1>4, <2>1, <2>2, <2>4
<1>7. ASSUME NEW j \in DOMAIN jobs, Commit(j) PROVE RowsCounted'
  <2>1. Rewrites(j) /\ jobs'[j].pc = "done"
    BY <1>7, CommitEffect
  <2>2. jobs[j] \in Job /\ jobs[j].pc # "done"
    BY <1>7, JobsList DEF Commit
  <2>3. PICK e0 \in Events : e0 = <<jobs[j].sale, jobs[j].kind>>
    BY <2>2 DEF Job, Events
  <2>4. log \in [Events -> Int] /\ log' = [log EXCEPT ![e0] = @ + 1]
    BY <1>7, <2>3, BoundsAssumption DEF TypeOK, Commit
  <2>5. ASSUME NEW e \in Events, e # e0 PROVE log'[e] = Cardinality(DoneJobs(e)')
    <3>1. ~(jobs[j].sale = e[1] /\ jobs[j].kind = e[2])
      BY <2>3, <2>5 DEF Events
    <3>2. DoneJobs(e)' = DoneJobs(e)
      BY <2>1, <3>1 DEF DoneJobs, Rewrites
    <3>3. log'[e] = log[e]
      BY <2>4, <2>5
    <3> QED
      BY <3>2, <3>3 DEF RowsCounted
  <2>6. log'[e0] = Cardinality(DoneJobs(e0)')
    <3>1. DoneJobs(e0)' = DoneJobs(e0) \cup {j} /\ j \notin DoneJobs(e0)
      BY <2>1, <2>2, <2>3 DEF DoneJobs, Rewrites
    <3>2. Cardinality(DoneJobs(e0) \cup {j}) = Cardinality(DoneJobs(e0)) + 1
      BY <3>1, DoneFinite, FS_AddElement
    <3>3. log'[e0] = log[e0] + 1
      BY <2>3, <2>4
    <3> QED
      BY <2>3, <3>1, <3>2, <3>3 DEF RowsCounted
  <2> QED
    BY <2>5, <2>6 DEF RowsCounted
<1> QED
  BY <1>2, <1>3, <1>5, <1>6, <1>7, StepCases

\* Every step keeps the type invariant: no row is written for a job that has
\* already written one, so the log never outgrows the list of jobs.
LEMMA TypeStep == Typing /\ Decisions /\ [Next]_vars => (TypeOK /\ Keyed /\ ReadFinite)'
<1> SUFFICES ASSUME Typing, Decisions, [Next]_vars PROVE (TypeOK /\ Keyed /\ ReadFinite)'
  OBVIOUS
<1> USE DEF Typing
<1> DEFINE JobsType == jobs' \in Seq(Job) /\ Len(jobs') <= MaxJobs
           Tables == /\ log' \in [Events -> 0..MaxJobs]
                     /\ lead' \in [Sales -> {"none", "matched", "unmatched"}]
                     /\ enrolled' \in [Sales -> SUBSET Flows]
                     /\ judged' \in [Sales -> 0..MaxChanges]
                     /\ enrolledAt' \in [Sales -> 0..MaxChanges]
                     /\ cases' \subseteq Sales
                     /\ welcomed' \in [Sales -> Nat]
           Rest == /\ marks' \subseteq Keys
                   /\ http' \in [Requests -> [key : Keys \cup {None},
                        pc : {"idle", "marked", "accepted", "duplicate", "failed"}]]
                   /\ mapped' \in BOOLEAN /\ changes' \in 0..MaxChanges
                   /\ read' \in [Admins -> {None} \cup SUBSET (Events \X (1..MaxJobs))]
                   /\ faults' \in 0..MaxFaults /\ expiries' \in 0..MaxExpiries
                   /\ Keyed' /\ ReadFinite'
<1>1. JobsType
  <2>1. CASE Quiet
    BY <2>1 DEF Quiet, Grows, TypeOK
  <2>2. CASE WorkerCrash
    BY <2>2, CrashEffect DEF TypeOK
  <2>3. ASSUME NEW j \in DOMAIN jobs, Rewrites(j) PROVE JobsType
    BY <2>3 DEF Rewrites, TypeOK
  <2>4. ASSUME NEW j \in DOMAIN jobs,
               Persist(j) \/ Route(j) \/ Enroll(j) \/ Sells(j) \/ Commit(j) \/ RollsBack(j)
        PROVE  Rewrites(j)
    BY <2>4, GotoEffect, RouteEffect, EnrollEffect, CommitEffect
       DEF Persist, Enroll, FlowsFor, Sells, Sell, RollsBack, Inside
  <2> QED
    BY <2>1, <2>2, <2>3, <2>4, StepCases
<1>2. Tables
  <2>1. CASE UNCHANGED tables
    BY <2>1 DEF tables, sales, TypeOK
  <2>2. ASSUME NEW j \in DOMAIN jobs, Sells(j) PROVE Tables
    <3>1. jobs[j].sale \in Sales
      BY JobsList DEF Job
    <3>2. welcomed' \in [Sales -> Nat]
      <4>1. welcomed \in [Sales -> Nat]
        BY DEF TypeOK
      <4>2. welcomed' = welcomed \/ welcomed' = [welcomed EXCEPT ![jobs[j].sale] = @ + 1]
        BY <2>2 DEF Sells, Sell
      <4> QED
        BY ONLY <3>1, <4>1, <4>2
    <3> QED
      BY <2>2, <3>2 DEF Sells, Sell, sales, TypeOK
  <2>3. ASSUME NEW j \in DOMAIN jobs, Commit(j) PROVE Tables
    <3>1. jobs[j] \in Job /\ jobs[j].pc # "done"
      BY <2>3, JobsList DEF Commit
    <3>2. PICK e \in Events : e = <<jobs[j].sale, jobs[j].kind>>
      BY <3>1 DEF Job, Events
    <3>3. log[e] \in Nat /\ log[e] + 1 <= MaxJobs
      <4>1. log[e] = Cardinality(DoneJobs(e)) /\ log[e] < Len(jobs)
        BY <3>1, DoneFinite DEF RowsCounted
      <4> QED
        BY <4>1, JobsList, BoundsAssumption DEF TypeOK
    <3>4. log' = [log EXCEPT ![e] = log[e] + 1]
      BY <2>3, <3>2 DEF Commit
    <3>5. log' \in [Events -> 0..MaxJobs]
      BY <3>3, <3>4, BoundsAssumption DEF TypeOK
    <3>6. lead' \in [Sales -> {"none", "matched", "unmatched"}]
      BY <2>3, <3>1 DEF Commit, TypeOK, Job
    <3>7. enrolled' \in [Sales -> SUBSET Flows]
      BY <2>3, <3>1 DEF Commit, TypeOK, Job
    <3>8. cases' \subseteq Sales /\ welcomed' = welcomed
      BY <2>3, <3>1 DEF Commit, TypeOK, Job
    <3>9. judged' \in [Sales -> 0..MaxChanges] /\ enrolledAt' \in [Sales -> 0..MaxChanges]
      <4>1. jobs[j].at \in 0..MaxChanges
        BY <3>1 DEF Job
      <4>2. /\ judged' = [judged EXCEPT ![jobs[j].sale] = jobs[j].at]
            /\ \/ enrolledAt' = [enrolledAt EXCEPT ![jobs[j].sale] = @]
               \/ enrolledAt' = [enrolledAt EXCEPT ![jobs[j].sale] = jobs[j].at]
        BY <2>3 DEF Commit
      <4> QED
        BY <4>1, <4>2 DEF TypeOK
    <3> QED
      BY <3>5, <3>6, <3>7, <3>8, <3>9 DEF TypeOK
  <2>4. ASSUME NEW j \in DOMAIN jobs, Persist(j) \/ Route(j) \/ Enroll(j) \/ RollsBack(j)
        PROVE  UNCHANGED tables
    BY <2>4 DEF Persist, Route, Enroll, RollsBack
  <2>5. Quiet \/ WorkerCrash => UNCHANGED tables
    BY DEF Quiet, WorkerCrash
  <2> HIDE DEF Tables
  <2> QED
    BY <2>1, <2>2, <2>3, <2>4, <2>5, StepCases
<1>3. Rest
  <2> USE BoundsAssumption DEF TypeOK, Keyed, ReadFinite, catalog
  <2>1. ASSUME NEW r \in Requests, NEW k \in Keys, Receive(r, k) PROVE Rest
    BY <2>1 DEF Receive
  <2>2. ASSUME NEW r \in Requests, Enqueue(r) \/ RequestFails(r) PROVE Rest
    <3>1. UNCHANGED <<marks, catalog, read, expiries>>
      BY <2>2 DEF Enqueue, RequestFails
    <3>2. faults' \in 0..MaxFaults
      BY <2>2 DEF Enqueue, RequestFails, Fault
    <3>3. /\ http[r].pc = "marked"
          /\ \/ http' = [http EXCEPT ![r].pc = "accepted"]
             \/ http' = [http EXCEPT ![r].pc = "failed"]
      BY <2>2 DEF Enqueue, RequestFails
    <3>4. http' \in [Requests -> [key : Keys \cup {None},
                        pc : {"idle", "marked", "accepted", "duplicate", "failed"}]]
          /\ \A q \in Requests : http'[q].pc # "idle" => http'[q].key \in Keys
      <4> DEFINE PCs == {"idle", "marked", "accepted", "duplicate", "failed"}
      <4>1. PICK pc \in {"accepted", "failed"} : http' = [http EXCEPT ![r].pc = pc]
        BY <3>3
      <4>2. /\ http \in [Requests -> [key : Keys \cup {None}, pc : PCs]]
            /\ \A q \in Requests : http[q].pc # "idle" => http[q].key \in Keys
            /\ pc \in PCs
        OBVIOUS
      <4>3. http' \in [Requests -> [key : Keys \cup {None}, pc : PCs]]
        BY ONLY <4>1, <4>2
      <4>4. ASSUME NEW q \in Requests, http'[q].pc # "idle" PROVE http'[q].key \in Keys
        <5>1. CASE q = r
          BY ONLY <4>1, <4>2, <3>3, <5>1
        <5>2. CASE q # r
          BY ONLY <4>1, <4>2, <4>4, <5>2
        <5> QED
          BY <5>1, <5>2
      <4> QED
        BY <4>3, <4>4
    <3> QED
      BY <3>1, <3>2, <3>4
  <2>3. ASSUME NEW k \in Keys, KeyExpires(k) PROVE Rest
    BY <2>3 DEF KeyExpires
  <2>4. ASSUME NEW j \in DOMAIN jobs, Handle(j) \/ HandlerFails(j) \/ Requeue(j) PROVE Rest
    <3>1. UNCHANGED <<marks, http, catalog, read, expiries>>
      BY <2>4 DEF Handle, Persist, Route, Enroll, Sell, Commit, HandlerFails, Requeue, api
    <3>2. UNCHANGED faults \/ Fault
      BY <2>4 DEF Handle, Persist, Route, Enroll, Sell, Commit, HandlerFails, Requeue
    <3> QED
      BY <3>1, <3>2 DEF Fault
  <2>5. ASSUME NEW a \in Admins, ReprocessReads(a) PROVE Rest
    <3> DEFINE T == {row \in Events \X (1..MaxJobs) :
                       lead[row[1][1]] = "unmatched" /\ row[2] <= log[row[1]]}
    <3>1. IsFiniteSet(T) /\ T \subseteq Events \X (1..MaxJobs)
      BY SelectionFinite
    <3>2. read' = [read EXCEPT ![a] = T]
      BY <2>5 DEF ReprocessReads
    <3> HIDE DEF T
    <3>3. ReadFinite' /\ read' \in [Admins -> {None} \cup SUBSET (Events \X (1..MaxJobs))]
      BY <3>1, <3>2
    <3> QED
      BY <2>5, <3>3 DEF ReprocessReads
  <2>6. ASSUME NEW a \in Admins, ReprocessCommits(a) PROVE Rest
    BY <2>6 DEF ReprocessCommits
  <2>7. CASE Resolve \/ EditProducts
    <3>1. mapped' = ~mapped
      BY <2>7 DEF Resolve, EditProducts, Remap
    <3>2. mapped' \in BOOLEAN
      BY ONLY <3>1
    <3>3. /\ changes' = changes + 1 /\ changes < MaxChanges
          /\ UNCHANGED <<marks, http, read, faults, expiries>>
      BY <2>7 DEF Resolve, EditProducts, Remap
    <3>4. changes' \in 0..MaxChanges
      BY <3>3, BoundsAssumption
    <3> QED
      BY <3>2, <3>3, <3>4
  <2>8. CASE WorkerCrash
    BY <2>8 DEF WorkerCrash, Fault, api
  <2>9. CASE UNCHANGED vars
    BY <2>9 DEF vars
  <2> HIDE DEF Rest
  <2> QED
    BY <2>1, <2>2, <2>3, <2>4, <2>5, <2>6, <2>7, <2>8, <2>9 DEF Next
<1> QED
  BY <1>1, <1>2, <1>3 DEF TypeOK

Verdicts == Decisions /\ EnrolledMapped /\ PendingIsNewer

\* The verdict of an open transaction stays good: a later change of the mapping is later than
\* its lookup, and the sale's enrollments are written by no other transaction.
LEMMA VerdictsStep == Typing /\ Verdicts /\ [Next]_vars => Verdicts'
<1> SUFFICES ASSUME Typing, Verdicts, [Next]_vars PROVE Verdicts'
  OBVIOUS
<1> USE DEF Typing, Verdicts
<1> DEFINE Sound(i) == /\ jobs'[i].flows # {} => jobs'[i].match
                       /\ jobs'[i].pc = "matched" => jobs'[i].match
                       /\ jobs'[i].pc \notin Routed => ~jobs'[i].match
                       /\ jobs'[i].pc \in Routed =>
                            /\ jobs'[i].at <= changes'
                            /\ jobs'[i].at = changes' => (jobs'[i].match <=> mapped')
                       /\ jobs'[i].pc \in Routed /\ ~jobs'[i].match
                          /\ enrolled'[jobs'[i].sale] # {}
                            => enrolledAt'[jobs'[i].sale] < jobs'[i].at
<1>0. /\ changes \in Nat /\ \A s \in Sales : enrolledAt[s] \in Nat
      /\ \A j \in DOMAIN jobs : jobs[j].at \in Nat
  <2>1. changes \in Nat
    BY BoundsAssumption DEF TypeOK
  <2>2. \A s \in Sales : enrolledAt[s] \in Nat
    <3>1. enrolledAt \in [Sales -> 0..MaxChanges]
      BY DEF TypeOK
    <3> QED
      BY <3>1, BoundsAssumption
  <2>3. ASSUME NEW j \in DOMAIN jobs PROVE jobs[j].at \in Nat
    <3>1. jobs[j] \in Job
      BY JobsList
    <3>2. jobs[j].at \in 0..MaxChanges
      BY <3>1 DEF Job
    <3> QED
      BY <3>2, BoundsAssumption
  <2> QED
    BY <2>1, <2>2, <2>3
<1>1. ASSUME UNCHANGED tables, UNCHANGED catalog \/ changes' = changes + 1,
             \A i \in DOMAIN jobs' : Sound(i) \/ (i \in DOMAIN jobs /\ jobs'[i] = jobs[i])
      PROVE  Verdicts'
  <2>1. enrolled' = enrolled /\ enrolledAt' = enrolledAt /\ lead' = lead /\ judged' = judged
    BY <1>1 DEF tables, sales
  <2>2. \/ changes' = changes /\ mapped' = mapped
        \/ changes' = changes + 1
    BY <1>1 DEF catalog
  <2>3. ASSUME NEW i \in DOMAIN jobs' PROVE Sound(i)
    <3>1. CASE i \in DOMAIN jobs /\ jobs'[i] = jobs[i]
      <4>1. jobs[i].at \in Nat
        BY <1>0, <3>1
      <4>2. jobs[i].pc \in Routed =>
              /\ jobs[i].at <= changes'
              /\ jobs[i].at = changes' => (jobs[i].match <=> mapped')
        <5>1. CASE changes' = changes /\ mapped' = mapped
          BY <3>1, <5>1 DEF Decisions
        <5>2. CASE changes' = changes + 1
          <6>1. jobs[i].pc \in Routed => jobs[i].at <= changes
            BY <3>1 DEF Decisions
          <6> QED
            BY <1>0, <4>1, <5>2, <6>1
        <5> QED
          BY <2>2, <5>1, <5>2
      <4>3. /\ jobs[i].flows # {} => jobs[i].match
            /\ jobs[i].pc = "matched" => jobs[i].match
            /\ jobs[i].pc \notin Routed => ~jobs[i].match
            /\ jobs[i].pc \in Routed /\ ~jobs[i].match /\ enrolled[jobs[i].sale] # {} =>
                 enrolledAt[jobs[i].sale] < jobs[i].at
        BY <3>1 DEF Decisions
      <4>4. jobs'[i].pc \in Routed =>
              /\ jobs'[i].at <= changes'
              /\ jobs'[i].at = changes' => (jobs'[i].match <=> mapped')
        BY ONLY <3>1, <4>2, Zenon
      <4>5. jobs'[i].pc \in Routed /\ ~jobs'[i].match /\ enrolled'[jobs'[i].sale] # {}
              => enrolledAt'[jobs'[i].sale] < jobs'[i].at
        BY ONLY <2>1, <3>1, <4>3, Zenon
      <4>6. /\ jobs'[i].flows # {} => jobs'[i].match
            /\ jobs'[i].pc = "matched" => jobs'[i].match
            /\ jobs'[i].pc \notin Routed => ~jobs'[i].match
        BY <3>1, <4>3
      <4> QED
        BY <4>4, <4>5, <4>6
    <3> QED
      BY <1>1, <3>1
  <2>4. Decisions'
    BY <2>3 DEF Decisions
  <2>5. EnrolledMapped'
    BY <1>0, <2>1, <2>2 DEF EnrolledMapped
  <2> QED
    BY <2>1, <2>4, <2>5 DEF PendingIsNewer
<1>2. CASE Quiet
  <2>1. \A i \in DOMAIN jobs' :
          \/ i \in DOMAIN jobs /\ jobs'[i] = jobs[i]
          \/ jobs'[i].pc = "queued" /\ ~jobs'[i].match /\ jobs'[i].flows = {}
    BY <1>2 DEF Quiet, Grows
  <2>2. \A i \in DOMAIN jobs' : Sound(i) \/ (i \in DOMAIN jobs /\ jobs'[i] = jobs[i])
    BY <2>1 DEF Routed
  <2> QED
    BY <1>1, <1>2, <2>2 DEF Quiet
<1>3. CASE WorkerCrash
  <2>1. UNCHANGED tables /\ UNCHANGED catalog
    BY <1>3 DEF WorkerCrash, api
  <2>2. \A i \in DOMAIN jobs' :
          \/ i \in DOMAIN jobs /\ jobs'[i] = jobs[i]
          \/ jobs'[i].pc = "lost" /\ ~jobs'[i].match /\ jobs'[i].flows = {}
    <3>1. TypeOK /\ DOMAIN jobs' = DOMAIN jobs
      BY <1>3, CrashEffect
    <3>2. \A i \in DOMAIN jobs :
            \/ jobs'[i] = jobs[i]
            \/ jobs'[i].pc = "lost" /\ ~jobs'[i].match /\ jobs'[i].flows = {}
      BY <1>3, <3>1, CrashEffect
    <3> QED
      BY <3>1, <3>2
  <2>3. \A i \in DOMAIN jobs' : Sound(i) \/ (i \in DOMAIN jobs /\ jobs'[i] = jobs[i])
    BY <2>2 DEF Routed
  <2> QED
    BY <1>1, <2>1, <2>3
<1>4. ASSUME NEW j \in DOMAIN jobs, Rewrites(j), Sound(j), UNCHANGED tables, UNCHANGED catalog
      PROVE  Verdicts'
  <2>1. \A i \in DOMAIN jobs' : Sound(i) \/ (i \in DOMAIN jobs /\ jobs'[i] = jobs[i])
    BY <1>4 DEF Rewrites
  <2> HIDE DEF Sound
  <2> QED
    BY <1>1, <1>4, <2>1
<1>5. ASSUME NEW j \in DOMAIN jobs, RollsBack(j) PROVE Verdicts'
  BY <1>4, <1>5 DEF RollsBack, Routed
<1>6. ASSUME NEW j \in DOMAIN jobs, Persist(j) PROVE Verdicts'
  <2>1. jobs[j] \in Job
    BY JobsList
  <2>2. Rewrites(j) /\ jobs'[j] = [jobs[j] EXCEPT !.pc = "persisted"]
    BY <1>6, GotoEffect DEF Persist, Inside
  <2>3. UNCHANGED tables /\ UNCHANGED catalog /\ jobs[j].pc = "queued"
    BY <1>6 DEF Persist, api
  <2>4. jobs'[j].pc = "persisted" /\ jobs'[j].match = jobs[j].match /\ jobs'[j].flows = jobs[j].flows
    BY <2>1, <2>2 DEF Job
  <2>5. Sound(j)
    BY <2>3, <2>4 DEF Decisions, Routed
  <2> QED
    BY <1>4, <2>2, <2>3, <2>5
<1>7. ASSUME NEW j \in DOMAIN jobs, Route(j) PROVE Verdicts'
  <2>1. jobs[j] \in Job
    BY JobsList
  <2>2. /\ Rewrites(j)
        /\ jobs'[j] = [jobs[j] EXCEPT !.pc = IF mapped THEN "matched" ELSE "unmatched",
                                      !.match = mapped, !.at = changes]
    BY <1>7, RouteEffect
  <2>3. UNCHANGED tables /\ UNCHANGED catalog /\ jobs[j].pc = "persisted"
    BY <1>7 DEF Route, api
  <2>4. /\ jobs'[j].match = mapped /\ jobs'[j].at = changes
        /\ jobs'[j].flows = jobs[j].flows /\ jobs'[j].sale = jobs[j].sale
        /\ jobs'[j].pc \in Routed /\ (jobs'[j].pc = "matched" => mapped)
    BY <2>1, <2>2 DEF Job, Routed
  <2>5. jobs[j].flows = {}
    BY <2>3 DEF Decisions, Routed
  <2>6. ~mapped /\ enrolled[jobs[j].sale] # {} => enrolledAt[jobs[j].sale] < changes
    <3>1. jobs[j].sale \in Sales
      BY <2>1 DEF Job
    <3> QED
      BY <1>0, <3>1 DEF EnrolledMapped
  <2>7. Sound(j)
    BY <1>0, <2>3, <2>4, <2>5, <2>6 DEF catalog, tables, sales
  <2> QED
    BY <1>4, <2>2, <2>3, <2>7
<1>8. ASSUME NEW j \in DOMAIN jobs, Enroll(j) PROVE Verdicts'
  <2>1. jobs[j] \in Job
    BY JobsList
  <2>2. PICK fs \in SUBSET Flows : jobs' = [jobs EXCEPT ![j].pc = "enrolled", ![j].flows = fs]
    BY <1>8 DEF Enroll, FlowsFor
  <2>3. Rewrites(j) /\ jobs'[j] = [jobs[j] EXCEPT !.pc = "enrolled", !.flows = fs]
    BY <2>2, EnrollEffect
  <2>4. UNCHANGED tables /\ UNCHANGED catalog /\ jobs[j].pc = "matched"
    BY <1>8 DEF Enroll, api
  <2>5. /\ jobs'[j].match = jobs[j].match /\ jobs'[j].at = jobs[j].at
        /\ jobs'[j].sale = jobs[j].sale /\ jobs'[j].pc = "enrolled"
    BY <2>1, <2>3 DEF Job
  <2>6. jobs[j].match
    BY <2>4 DEF Decisions
  <2>7. Sound(j)
    BY <2>4, <2>5, <2>6 DEF Decisions, Routed, catalog, tables, sales
  <2> QED
    BY <1>4, <2>3, <2>4, <2>7
<1>9. ASSUME NEW j \in DOMAIN jobs, Sells(j) PROVE Verdicts'
  <2>1. jobs[j] \in Job
    BY JobsList
  <2>2. Rewrites(j) /\ jobs'[j] = [jobs[j] EXCEPT !.pc = "sold"]
    BY <1>9, GotoEffect DEF Sells, Sell, Inside
  <2>3. /\ UNCHANGED <<enrolled, enrolledAt, lead, judged, mapped, changes>>
        /\ jobs[j].pc \in {"enrolled", "unmatched"}
    BY <1>9 DEF Sells, Sell, sales, api, catalog
  <2>4. /\ jobs'[j].match = jobs[j].match /\ jobs'[j].at = jobs[j].at
        /\ jobs'[j].sale = jobs[j].sale
        /\ jobs'[j].flows = jobs[j].flows /\ jobs'[j].pc = "sold"
    BY <2>1, <2>2 DEF Job
  <2>5. Sound(j)
    BY <2>3, <2>4 DEF Decisions, Routed
  <2>6. \A i \in DOMAIN jobs' : i \in DOMAIN jobs /\ (jobs'[i] = jobs[i] \/ Sound(i))
    BY <2>2, <2>5 DEF Rewrites
  <2>7. Decisions'
    BY <2>3, <2>6 DEF Decisions
  <2> QED
    BY <2>3, <2>7 DEF EnrolledMapped, PendingIsNewer
<1>10. ASSUME NEW j \in DOMAIN jobs, Commit(j) PROVE Verdicts'
  <2> DEFINE s == jobs[j].sale
  <2>1. jobs[j] \in Job /\ s \in Sales /\ jobs[j].flows \subseteq Flows
    BY JobsList DEF Job
  <2>2. Rewrites(j) /\ jobs'[j].pc = "done" /\ ~jobs'[j].match /\ jobs'[j].flows = {}
    BY <1>10, CommitEffect
  <2>3. /\ jobs[j].pc \in Routed /\ jobs[j].pc \in Inside
        /\ mapped' = mapped /\ changes' = changes
    BY <1>10 DEF Commit, Routed, Inside, api, catalog
  <2>4. /\ lead' = [lead EXCEPT ![s] = IF jobs[j].match THEN "matched" ELSE "unmatched"]
        /\ judged' = [judged EXCEPT ![s] = jobs[j].at]
        /\ enrolled' = [enrolled EXCEPT ![s] = @ \cup jobs[j].flows]
        /\ enrolledAt' = [enrolledAt EXCEPT ![s] = IF jobs[j].flows = {} THEN @ ELSE jobs[j].at]
    BY <1>10 DEF Commit
  <2>5. /\ \A x \in Sales : x # s => /\ lead'[x] = lead[x] /\ judged'[x] = judged[x]
                                     /\ enrolled'[x] = enrolled[x]
                                     /\ enrolledAt'[x] = enrolledAt[x]
        /\ lead'[s] = (IF jobs[j].match THEN "matched" ELSE "unmatched")
        /\ judged'[s] = jobs[j].at /\ enrolled'[s] = enrolled[s] \cup jobs[j].flows
        /\ jobs[j].flows = {} => enrolledAt'[s] = enrolledAt[s]
        /\ jobs[j].flows # {} => enrolledAt'[s] = jobs[j].at
    BY <2>1, <2>4 DEF TypeOK
  <2>6. /\ jobs[j].flows # {} => jobs[j].match
        /\ jobs[j].at <= changes /\ (jobs[j].at = changes => (jobs[j].match <=> mapped))
        /\ ~jobs[j].match /\ enrolled[s] # {} => enrolledAt[s] < jobs[j].at
    BY <2>3 DEF Decisions
  <2>7. PendingIsNewer'
    BY <2>5, <2>6 DEF PendingIsNewer
  <2>8. EnrolledMapped'
    BY <2>3, <2>5, <2>6 DEF EnrolledMapped
  <2>9. ASSUME NEW i \in DOMAIN jobs, i # j, jobs[i].pc \in Routed PROVE jobs[i].sale # s
    BY <2>3, <2>9 DEF Serial, Routed, Inside
  <2>10. \A i \in DOMAIN jobs : jobs[i].sale \in Sales
    BY JobsList DEF Job
  <2>11. ASSUME NEW i \in DOMAIN jobs' PROVE Sound(i)
    <3>1. CASE i = j
      BY <2>2, <3>1 DEF Routed
    <3>2. CASE i # j
      <4>1. i \in DOMAIN jobs /\ jobs'[i] = jobs[i]
        BY <2>2, <3>2 DEF Rewrites
      <4>2. jobs[i].pc \in Routed => /\ enrolled'[jobs[i].sale] = enrolled[jobs[i].sale]
                                    /\ enrolledAt'[jobs[i].sale] = enrolledAt[jobs[i].sale]
        BY <2>5, <2>9, <2>10, <3>2, <4>1
      <4> QED
        BY <2>3, <4>1, <4>2 DEF Decisions
    <3> QED
      BY <3>1, <3>2
  <2>12. Decisions'
    BY <2>11 DEF Decisions
  <2> QED
    BY <2>7, <2>8, <2>12
<1> QED
  BY <1>2, <1>3, <1>5, <1>6, <1>7, <1>8, <1>9, <1>10, StepCases

Purchases == SalesInHand /\ PurchaseLoggedWithCase /\ WelcomesCounted

\* The purchase: a case is written once, with its event row, by the only open
\* transaction of the sale, and a second welcome has cost a fault.
LEMMA PurchasesStep == Typing /\ Decisions /\ Purchases /\ [Next]_vars => Purchases'
<1> SUFFICES ASSUME Typing, Decisions, Purchases, [Next]_vars PROVE Purchases'
  OBVIOUS
<1> USE DEF Typing, Purchases
<1>0. faults \in Nat /\ welcomed \in [Sales -> Nat] /\ \A j \in DOMAIN jobs : jobs[j] \in Job
  BY JobsList, BoundsAssumption DEF TypeOK
\* a sold job that is still there, or a fault for each that is not
<1>1. ASSUME UNCHANGED tables, faults' \in {faults, faults + 1},
             \A i \in DOMAIN jobs' : jobs'[i].pc = "sold" =>
               /\ i \in DOMAIN jobs /\ jobs[i].pc = "sold"
               /\ jobs'[i].sale = jobs[i].sale /\ jobs'[i].kind = jobs[i].kind,
             \/ faults' = faults + 1
             \/ \A i \in DOMAIN jobs : jobs[i].pc = "sold" =>
                  i \in DOMAIN jobs' /\ jobs'[i].pc = "sold" /\ jobs'[i].sale = jobs[i].sale
      PROVE  Purchases'
  <2>1. cases' = cases /\ welcomed' = welcomed /\ log' = log
    BY <1>1 DEF tables, sales
  <2>2. SalesInHand'
    BY <1>1, <2>1 DEF SalesInHand
  <2>3. PurchaseLoggedWithCase'
    BY <2>1 DEF PurchaseLoggedWithCase
  <2>4. ASSUME NEW s \in Sales
        PROVE  welcomed'[s] <= (IF Sold(s)' THEN 1 ELSE 0) + faults'
    <3>1. welcomed[s] <= (IF Sold(s) THEN 1 ELSE 0) + faults /\ welcomed[s] \in Nat
      BY <1>0 DEF WelcomesCounted
    <3>2. CASE faults' = faults + 1
      BY <1>0, <2>1, <3>1, <3>2
    <3>3. CASE faults' = faults /\ (Sold(s) => Sold(s)')
      BY <1>0, <2>1, <3>1, <3>3
    <3>4. \/ faults' = faults + 1
          \/ faults' = faults /\ (Sold(s) => Sold(s)')
      BY <1>1, <2>1 DEF Sold
    <3> QED
      BY <3>2, <3>3, <3>4
  <2> QED
    BY <2>2, <2>3, <2>4 DEF WelcomesCounted
<1>2. CASE Quiet
  BY <1>1, <1>2 DEF Quiet, Grows
<1>3. CASE WorkerCrash
  <2>1. UNCHANGED tables /\ faults' = faults + 1
    BY <1>3 DEF WorkerCrash, Fault
  <2>2. \A i \in DOMAIN jobs' : jobs'[i].pc = "sold" => i \in DOMAIN jobs /\ jobs'[i] = jobs[i]
    BY <1>3, CrashEffect
  <2> QED
    BY <1>1, <2>1, <2>2
<1>4. ASSUME NEW j \in DOMAIN jobs, Rewrites(j), UNCHANGED tables, jobs'[j].pc # "sold",
             faults' \in {faults, faults + 1}, faults' = faults + 1 \/ jobs[j].pc # "sold"
      PROVE  Purchases'
  BY <1>1, <1>4 DEF Rewrites
<1>5. ASSUME NEW j \in DOMAIN jobs, RollsBack(j) PROVE Purchases'
  BY <1>4, <1>5 DEF RollsBack
<1>6. ASSUME NEW j \in DOMAIN jobs, Persist(j) \/ Route(j) \/ Enroll(j) PROVE Purchases'
  <2>1. UNCHANGED tables /\ faults' \in {faults, faults + 1} /\ jobs[j].pc # "sold"
    BY <1>6 DEF Persist, Route, Enroll, Fault
  <2>2. Rewrites(j) /\ jobs'[j].pc # "sold"
    <3>1. CASE Persist(j)
      BY <3>1, <1>0, GotoEffect DEF Persist, Job, Inside
    <3>2. CASE Route(j)
      BY <3>2, <1>0, RouteEffect DEF Job
    <3>3. CASE Enroll(j)
      <4>1. PICK fs \in SUBSET Flows : jobs' = [jobs EXCEPT ![j].pc = "enrolled", ![j].flows = fs]
        BY <3>3 DEF Enroll, FlowsFor
      <4>2. Rewrites(j) /\ jobs'[j] = [jobs[j] EXCEPT !.pc = "enrolled", !.flows = fs]
        BY <4>1, EnrollEffect
      <4> QED
        BY <1>0, <4>2 DEF Job
    <3> QED
      BY <1>6, <3>1, <3>2, <3>3
  <2> QED
    BY <1>4, <2>1, <2>2
<1>7. ASSUME NEW j \in DOMAIN jobs, Sells(j) PROVE Purchases'
  <2>1. Rewrites(j) /\ jobs'[j] = [jobs[j] EXCEPT !.pc = "sold"]
    BY <1>7, GotoEffect DEF Sells, Sell, Inside
  <2>2. jobs'[j].pc = "sold" /\ jobs'[j].sale = jobs[j].sale /\ jobs'[j].kind = jobs[j].kind
    BY <1>0, <2>1 DEF Job
  <2>3. /\ UNCHANGED <<log, cases, faults>>
        /\ jobs[j].kind = "activated" /\ jobs[j].sale \notin cases
        /\ jobs[j].pc \in {"enrolled", "unmatched"}
    BY <1>7 DEF Sells, Sell, sales, Purchase, PurchaseKinds
  <2>4. SalesInHand'
    BY <2>1, <2>2, <2>3 DEF SalesInHand, Rewrites
  <2>5. PurchaseLoggedWithCase'
    BY <2>3 DEF PurchaseLoggedWithCase
  <2>6. PICK t \in Sales : t = jobs[j].sale
    BY <1>0 DEF Job
  <2>7. ~Sold(t) /\ Sold(t)'
    <3>1. ASSUME NEW i \in DOMAIN jobs, jobs[i].sale = t, jobs[i].pc = "sold" PROVE FALSE
      BY <2>3, <2>6, <3>1 DEF Serial, Inside
    <3>2. j \in DOMAIN jobs'
      BY <2>1 DEF Rewrites
    <3> QED
      BY <2>2, <2>3, <2>6, <3>1, <3>2 DEF Sold
  <2>8. \A s \in Sales : s # t => (Sold(s)' <=> Sold(s))
    BY <2>1, <2>2, <2>3, <2>6 DEF Sold, Rewrites
  <2>9. welcomed' = welcomed \/ welcomed' = [welcomed EXCEPT ![t] = @ + 1]
    BY <1>7, <2>6 DEF Sells, Sell
  <2>10. ASSUME NEW s \in Sales
         PROVE  welcomed'[s] <= (IF Sold(s)' THEN 1 ELSE 0) + faults'
    <3>1. welcomed[s] <= (IF Sold(s) THEN 1 ELSE 0) + faults /\ welcomed[s] \in Nat
      BY <1>0 DEF WelcomesCounted
    <3>2. CASE s = t
      <4>1. welcomed'[s] \in {welcomed[s], welcomed[s] + 1}
        BY <1>0, <2>9
      <4> QED
        BY <1>0, <2>3, <2>7, <3>1, <3>2, <4>1
    <3>3. CASE s # t
      <4>1. welcomed'[s] = welcomed[s]
        BY <1>0, <2>9, <3>3
      <4> QED
        BY <2>3, <2>8, <3>1, <3>3, <4>1
    <3> QED
      BY <3>2, <3>3
  <2> QED
    BY <2>4, <2>5, <2>10 DEF WelcomesCounted
<1>8. ASSUME NEW j \in DOMAIN jobs, Commit(j) PROVE Purchases'
  <2>1. Rewrites(j) /\ jobs'[j].pc = "done"
    BY <1>8, CommitEffect
  <2>2. PICK t \in Sales : t = jobs[j].sale
    BY <1>0 DEF Job
  <2>3. jobs[j].pc \in Inside /\ UNCHANGED <<welcomed, faults>>
    BY <1>8 DEF Commit, Inside
  <2>4. ASSUME NEW i \in DOMAIN jobs, jobs[i].sale = t, i # j PROVE jobs[i].pc # "sold"
    BY <2>2, <2>3, <2>4 DEF Serial, Inside
  <2>5. cases' = IF jobs[j].kind = "activated" THEN cases \cup {t} ELSE cases
    BY <1>8, <2>2 DEF Commit, Purchase, PurchaseKinds
  <2>6. SalesInHand'
    BY <2>1, <2>2, <2>4, <2>5 DEF SalesInHand, Rewrites
  <2>7. ASSUME NEW s \in Sales, Sold(s) PROVE Sold(s)'
    <3>1. CASE s \in cases
      BY <2>5, <3>1 DEF Sold
    <3>2. CASE \E i \in DOMAIN jobs : jobs[i].sale = s /\ jobs[i].pc = "sold"
      <4>1. PICK i \in DOMAIN jobs : jobs[i].sale = s /\ jobs[i].pc = "sold"
        BY <3>2
      <4>2. CASE i = j
        BY <2>2, <2>5, <4>1, <4>2 DEF SalesInHand, Sold
      <4>3. CASE i # j
        BY <2>1, <4>1, <4>3 DEF Sold, Rewrites
      <4> QED
        BY <4>2, <4>3
    <3> QED
      BY <2>7, <3>1, <3>2 DEF Sold
  <2>8. ASSUME NEW s \in Sales
        PROVE  welcomed'[s] <= (IF Sold(s)' THEN 1 ELSE 0) + faults'
    <3>1. welcomed[s] <= (IF Sold(s) THEN 1 ELSE 0) + faults /\ welcomed[s] \in Nat
      BY <1>0 DEF WelcomesCounted
    <3> QED
      BY <1>0, <2>3, <2>7, <3>1
  <2>9. PurchaseLoggedWithCase'
    <3> SUFFICES ASSUME "activated" \in Kinds, NEW s \in Sales
                 PROVE  log'[<<s, "activated">>] = IF s \in cases' THEN 1 ELSE 0
      BY DEF PurchaseLoggedWithCase
    <3>1. <<s, "activated">> \in Events /\ log \in [Events -> 0..MaxJobs]
      BY DEF Events, TypeOK
    <3>2. log[<<s, "activated">>] = IF s \in cases THEN 1 ELSE 0
      BY DEF PurchaseLoggedWithCase
    <3>3. log' = [log EXCEPT ![<<t, jobs[j].kind>>] = @ + 1]
      BY <1>8, <2>2 DEF Commit
    <3>4. CASE s = t /\ jobs[j].kind = "activated"
      <4>1. jobs[j].pc = "sold"
        BY <1>8, <3>4 DEF Commit, Purchase, PurchaseKinds
      <4>2. s \notin cases /\ s \in cases'
        BY <2>2, <2>5, <3>4, <4>1 DEF SalesInHand
      <4> QED
        BY <3>1, <3>2, <3>3, <3>4, <4>2
    <3>5. CASE s # t \/ jobs[j].kind # "activated"
      <4>1. <<s, "activated">> # <<t, jobs[j].kind>>
        BY <3>5
      <4>2. log'[<<s, "activated">>] = log[<<s, "activated">>]
        BY <3>1, <3>3, <4>1
      <4>3. s \in cases' <=> s \in cases
        BY <2>5, <3>5
      <4> QED
        BY <3>2, <4>2, <4>3
    <3> QED
      BY <3>4, <3>5
  <2> QED
    BY <2>6, <2>8, <2>9 DEF WelcomesCounted
<1> QED
  BY <1>2, <1>3, <1>5, <1>6, <1>7, <1>8, StepCases

\* Every step keeps the inductive invariant.
LEMMA IntakeStep == Intake /\ [Next]_vars => Intake'
  BY TypeStep, SerialStep, RowsStep, VerdictsStep, PurchasesStep
     DEF Intake, Typing, Ready, Verdicts, Purchases

-----------------------------------------------------------------------------
(* The theorems *)

\* In every reachable state the invariant holds.
THEOREM IntakeInvariant == Spec => []Intake
<1>1. Init => Intake
  BY InitIntake
<1>2. Intake /\ [Next]_vars => Intake'
  BY IntakeStep
<1> QED
  BY <1>1, <1>2, PTL DEF Spec

\* Every variable keeps its type: in particular the event log never has more rows
\* of an event than there were jobs, and what reprocess selects are rows of events.
THEOREM IntakeTypes == Spec => []TypeOK
<1>1. Intake => TypeOK
  BY DEF Intake, Typing
<1> QED
  BY <1>1, IntakeInvariant, PTL

\* A lead shown as pending although its buyer is enrolled was judged by a lookup made after a
\* later change of the mapping than the one that enrolled him saw, however the events of the
\* sale and the pages of the catalog interleave (set_product_unmatched under the row lock of
\* the contact).
THEOREM PendingLeadsWait == Spec => []PendingIsNewer
<1>1. Intake => PendingIsNewer
  BY DEF Intake
<1> QED
  BY <1>1, IntakeInvariant, PTL

\* A purchase takes effect once and whole: its event row and its access case come
\* together, once per sale, and a welcome beyond the first has cost a fault.
THEOREM PurchasesTakeEffectOnce == Spec => []PurchaseOnce
<1>1. Intake => PurchaseOnce
  <2> SUFFICES ASSUME Intake, NEW s \in Sales PROVE welcomed[s] <= 1 + faults
    BY DEF Intake, PurchaseOnce, WelcomesExplained
  <2>1. welcomed[s] \in Nat /\ faults \in Nat
    BY BoundsAssumption DEF Intake, Typing, TypeOK
  <2> QED
    BY <2>1 DEF Intake, WelcomesCounted
<1> QED
  BY <1>1, IntakeInvariant, PTL

\* The event log is exact: each row of hubla_events is the trace of one job that
\* committed, whatever is retried, requeued or lost in a crash.
THEOREM EventRowsExact == Spec => []RowsCounted
<1>1. Intake => RowsCounted
  BY DEF Intake, Typing
<1> QED
  BY <1>1, IntakeInvariant, PTL

=============================================================================
