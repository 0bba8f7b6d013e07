--------------------------- MODULE DispatchProofs ---------------------------
(***************************************************************************)
(* Proofs about Dispatch, for every number of steps, requests, resyncs and *)
(* faults.                                                                 *)
(*                                                                         *)
(* The inductive invariant is Books.  Its parts say who may own which      *)
(* version of a row and where the owner then is (Locks), what an           *)
(* uncommitted or an overtaken status can be (Progress), what job ids that *)
(* were read still stand for (References), how an uncommitted change to a  *)
(* job is made good before its commit (Covered), and how the sends of a    *)
(* step are paid for (Paid, Sound) and counted (LastCompletes).            *)
(***************************************************************************)
EXTENDS Dispatch, FiniteSetTheorems, TLAPS

PCs == {"idle", "ready", "reset", "cancel_job", "load", "check", "send", "mark_failed",
        "mark_cancelled", "history", "get", "update", "count", "complete", "dispatched",
        "skipped", "done"}
Out == {"idle", "ready", "done"}                     \* no transaction open
Written == {"count", "complete", "dispatched"}       \* the step is updated
Section == {"get", "update"} \cup Written            \* the history row is locked
Settled == {"sent", "failed", "cancelled"}

\* Where each transaction can be.
ControlOK ==
  /\ pc \in [Senders -> PCs] /\ dirty \in [Senders -> SUBSET {"status", "job"}]
  /\ pc["worker"] \notin {"ready", "reset", "cancel_job", "done"}
  /\ \A c \in Clicks : pc[c] # "idle"
  /\ \A t \in Senders : pc[t] \notin Out => at[t] \in Steps /\ step[at[t]].status # "none"
  /\ pc["worker"] # "idle" => current # None /\ at["worker"] = target[current]

-----------------------------------------------------------------------------
(* Who owns what, and where the owner is *)

\* The version of a row that nobody owns is the committed one.
FreeRows ==
  /\ \A s \in Steps : stepOwner[s] = None => stepNew[s] = step[s]
  /\ \A j \in Jobs : jobOwner[j] = None => jobNew[j] = job[j]

\* A sender owns the row of the step it dispatches, the worker only once it has written it.
SenderOwns ==
  /\ \A s \in Steps : stepOwner[s] \in Senders =>
       at[stepOwner[s]] = s /\ pc[stepOwner[s]] \notin Out \cup {"reset"}
  /\ \A s \in Steps : stepOwner[s] = "worker" => pc["worker"] \in Written \cup {"skipped"}
  /\ \A c \in Clicks : pc[c] \notin Out \cup {"reset"} => stepOwner[at[c]] = c
  /\ \A t \in Senders : pc[t] \in Written => stepOwner[at[t]] = t

\* A resync owns rows and has something to do only while it writes.
ResyncOwns ==
  /\ \A s \in Steps : stepOwner[s] \in Resyncs => phase[stepOwner[s]] = "write"
  /\ \A r \in Resyncs, s \in Synced : phase[r] # "write" => plan[r][s].do = "none"

\* The history row serialises the senders from its update to their commit.
OneInSection ==
  /\ \A t \in Senders : histOwner = t <=> pc[t] \in Section
  /\ enrOwner # None => pc[enrOwner] = "dispatched"

Locks == FreeRows /\ SenderOwns /\ ResyncOwns /\ OneInSection

-----------------------------------------------------------------------------
(* What a status can be, committed or not *)

ResyncVersions == \A s \in Steps : stepOwner[s] \in Resyncs =>
  stepNew[s].status \in {"pending", "cancelled"} /\ step[s].status \in {"none", "pending"}

ClickVersions == \A c \in Clicks : pc[c] \notin Out \cup {"reset"} =>
  /\ clicked[at[c]] > 0
  /\ pc[c] \in Written \cup {"skipped"} => stepNew[at[c]].status \in Settled
  /\ pc[c] \notin Written \cup {"skipped"} => stepNew[at[c]].status = "pending"
  /\ stepNew[at[c]].status = "sent" => pc[c] \in Written

WorkerVersions == \A s \in Steps : stepOwner[s] = "worker" =>
  /\ stepNew[s].status \in Settled
  /\ stepNew[s].status = "sent" => pc["worker"] \in Written
  /\ pc["worker"] = "skipped" => step[s].status = "pending"
  /\ pc["worker"] \in Written => stepNew[s].status \in {"sent", step[s].status}

\* The worker leaves its step settled; what settled it meanwhile was a dispatch-now request,
\* or a resync that cancelled it.
WorkerSettles ==
  /\ pc["worker"] = "skipped" => StepOf("worker", at["worker"]).status \in Settled
  /\ pc["worker"] \notin {"idle", "load", "skipped"} =>
       step[at["worker"]].status \in {"pending", "cancelled"} \/ clicked[at["worker"]] > 0
  /\ \A t \in Senders : pc[t] = "update" /\ "status" \notin dirty[t] =>
       StepOf(t, at[t]).status \in Settled

\* A resync has not written what it still plans to write; the rows it adds are its own.
PlansAhead == \A r \in Resyncs, s \in Synced :
  /\ plan[r][s].do # "none" => stepOwner[s] # r
  /\ plan[r][s].do \notin {"none", "add"} => step[s].status # "none"
  /\ plan[r][s].do = "add" =>
       /\ step[s].status = "none" /\ stepOwner[s] = None
       /\ \A q \in Resyncs : plan[q][s].do = "add" => q = r

Progress == ResyncVersions /\ ClickVersions /\ WorkerVersions /\ WorkerSettles /\ PlansAhead

-----------------------------------------------------------------------------
(* Ids that were read or written still name the step's jobs *)

\* A job of step s that exists for every transaction.
IsJobOf(j, s) == j \in Jobs /\ target[j] = s /\ job[j] # "none"

StepNamesJob == \A s \in Steps : step[s].status # "none" => IsJobOf(step[s].job, s)

VersionNamesJob == \A s \in Steps : stepOwner[s] # None =>
  \/ IsJobOf(stepNew[s].job, s)
  \/ /\ stepOwner[s] \in Resyncs
     /\ stepNew[s].job \in Jobs /\ target[stepNew[s].job] = s
     /\ jobOwner[stepNew[s].job] = stepOwner[s]

ReadNamesJob ==
  /\ \A t \in Senders : pc[t] \notin Out /\ (t = "worker" => pc[t] # "load") =>
       IsJobOf(loaded[t], at[t])
  /\ \A r \in Resyncs, s \in Synced :
       plan[r][s].do \in {"reschedule", "cancel"} => IsJobOf(plan[r][s].job, s)

JobNamesStep ==
  \A j \in Jobs : job[j] # "none" => target[j] \in Steps /\ step[target[j]].status # "none"

References == StepNamesJob /\ VersionNamesJob /\ ReadNamesJob /\ JobNamesStep

-----------------------------------------------------------------------------
(* What an owner has done to a job row *)

ClickChanges == \A j \in Jobs : jobOwner[j] \in Clicks =>
  /\ job[j] = "pending" /\ jobNew[j] = "cancelled" /\ target[j] = at[jobOwner[j]]
  /\ pc[jobOwner[j]] \notin Out \cup {"reset", "cancel_job"}

ResyncChanges == \A j \in Jobs : jobOwner[j] \in Resyncs =>
  /\ phase[jobOwner[j]] = "write"
  /\ \/ job[j] = "pending" /\ jobNew[j] = "cancelled"
     \/ /\ job[j] = "none" /\ jobNew[j] = "pending" /\ target[j] \in Steps
        /\ stepOwner[target[j]] = jobOwner[j] \/ step[target[j]].status # "none"

\* The tick executes a job only when its step is settled.
TickChanges ==
  /\ \A j \in Jobs : jobOwner[j] = "tick" =>
       /\ job[j] = "pending" /\ jobNew[j] \in {"pending", "executed"}
       /\ jobNew[j] = "executed" => step[target[j]].status \in Settled
  /\ todo # None => \A j \in todo : jobOwner[j] = "tick" /\ jobNew[j] = "pending"
  /\ current # None => todo # None /\ current \in todo
  /\ current # None /\ pc["worker"] = "idle" => step[target[current]].status \in Settled

Changes == ClickChanges /\ ResyncChanges /\ TickChanges

-----------------------------------------------------------------------------
(* The job of a pending step is pending *)

\* A transaction that has changed the job of a pending step will have settled the step, or
\* given it another job, when it commits.
JobStands == \A s \in Steps : step[s].status = "pending" =>
  LET j == step[s].job IN
  /\ job[j] = "pending"
  /\ jobOwner[j] # None /\ jobNew[j] # "pending" =>
       \/ jobOwner[j] \in Clicks
       \/ /\ jobOwner[j] \in Resyncs
          /\ \/ s \in Synced /\ plan[jobOwner[j]][s].do \in {"renew", "close"}
             \/ /\ stepOwner[s] = jobOwner[j]
                /\ stepNew[s].status = "cancelled" \/ stepNew[s].job # j

\* The version a resync will commit names the committed job or one it has inserted.
NewJobStands == \A s \in Steps : stepOwner[s] \in Resyncs /\ stepNew[s].status = "pending" =>
  \/ step[s].status = "pending" /\ stepNew[s].job = step[s].job
  \/ jobOwner[stepNew[s].job] = stepOwner[s] /\ jobNew[stepNew[s].job] = "pending"

Covered == JobStands /\ NewJobStands

-----------------------------------------------------------------------------
(* What the sends of a step are paid for, and counted *)

\* The dispatch-now requests that have reset step s and not yet sent it.
Armed(s) == {c \in Clicks : at[c] = s /\ pc[c] \in {"cancel_job", "load", "check", "send"}}
WorkerAt(s, pcs) == IF at["worker"] = s /\ pc["worker"] \in pcs THEN 1 ELSE 0
AfterSend == {"history", "get", "update", "count", "complete", "dispatched"}

\* Each send of a step, done or about to be done, is its first one, or is paid for
\* by a click or a rolled back send; a pending step still has its first one.
Paid ==
  /\ \A s \in Steps : IsFiniteSet(Armed(s))
  /\ \A s \in Steps :
       sends[s] + Cardinality(Armed(s)) + WorkerAt(s, {"check", "send"})
         <= 1 + wasted[s] + clicked[s]
  /\ \A s \in Steps : step[s].status \in {"none", "pending"} =>
       sends[s] + Cardinality(Armed(s)) <= wasted[s] + clicked[s] + WorkerAt(s, AfterSend)

\* The senders that have sent step s and not yet committed.
InFlight(s) == {t \in Senders : at[t] = s /\ HasSent(t)}

\* The sends of a step are rolled back, in flight or recorded.
Sound ==
  /\ \A s \in Steps : IsFiniteSet(InFlight(s))
  /\ \A s \in Steps :
       wasted[s] + Cardinality(InFlight(s)) + (IF step[s].status = "sent" THEN 1 ELSE 0)
         <= sends[s]

\* A dispatch that does not complete the enrollment has seen a step that is not
\* sent, and it stays so: only one sender at a time is past the history's lock.
LastCompletes ==
  /\ AllSentCompletes
  /\ \A t \in Senders : pc[t] = "dispatched" =>
       \/ enr = "completed" \/ enrOwner = t
       \/ \E s \in Steps : StepOf(t, s).status \notin {"sent", "none"}

Rows == TypeOK /\ ControlOK /\ Locks /\ Progress /\ References /\ Changes /\ Covered
Books == Rows /\ Paid /\ Sound /\ LastCompletes


-----------------------------------------------------------------------------
(* Rows, transactions and names *)

\* The kinds of transaction are told apart by their names, and None is none of them.
LEMMA Names ==
  /\ "worker" \notin Clicks /\ "worker" \notin Resyncs
  /\ "tick" \notin Clicks /\ "tick" \notin Resyncs
  /\ None \notin Clicks /\ None \notin Resyncs /\ None # "worker" /\ None # "tick"
  /\ None \notin Steps /\ None \notin Jobs /\ \A c \in Clicks : c \notin Resyncs
  /\ Later \subseteq Synced /\ Synced \subseteq Steps
  /\ "worker" \in Senders /\ \A c \in Clicks : c \in Senders
  /\ \A t \in Senders : t = "worker" \/ t \in Clicks
  /\ "tick" \notin Senders /\ None \notin Senders /\ \A t \in Senders : t \notin Resyncs
BY NamesAssumption, RowsAssumption, BoundAssumption DEF Txs, Senders

StepRow == [status : Statuses \cup {"none"}, job : Jobs \cup {None}]

\* A transaction sees a version of a row that is a row.
LEMMA RowSeen ==
  ASSUME TypeOK, NEW t, NEW s \in Steps
  PROVE  /\ StepOf(t, s) \in StepRow
         /\ \A x \in Statuses : [StepOf(t, s) EXCEPT !.status = x] \in StepRow
         /\ \A j \in Jobs : [StepOf(t, s) EXCEPT !.job = j] \in StepRow
<1> DEFINE row == StepOf(t, s)
<1>1. row \in StepRow
  BY DEF TypeOK, StepOf, StepRow
<1> HIDE DEF row
<1>2. \A x \in Statuses : [row EXCEPT !.status = x] \in StepRow
  BY <1>1 DEF StepRow
<1>3. \A j \in Jobs : [row EXCEPT !.job = j] \in StepRow
  BY <1>1 DEF StepRow
<1> QED BY <1>1, <1>2, <1>3 DEF row

\* What UPDATE ... WHERE id = s does.
LEMMA StepWritten ==
  ASSUME TypeOK, NEW t \in Senders \cup Resyncs, NEW s \in Steps, NEW v \in StepRow,
         WriteStep(t, s, v)
  PROVE  /\ stepNew' \in [Steps -> StepRow]
         /\ stepOwner' \in [Steps -> Senders \cup Resyncs \cup {None}]
         /\ step' = step /\ stepOwner[s] \in {None, t}
         /\ \A u \in Steps : stepNew'[u] = IF u = s THEN v ELSE stepNew[u]
         /\ \A u \in Steps : stepOwner'[u] = IF u = s THEN t ELSE stepOwner[u]
BY DEF TypeOK, WriteStep, StepRow

\* What the cancelling of a pending job does.
LEMMA JobCancelled ==
  ASSUME TypeOK, NEW t \in Clicks \cup Resyncs, NEW j \in Jobs, CancelJob(t, j)
  PROVE  /\ jobNew' \in [Jobs -> {"none", "pending", "executed", "cancelled"}]
         /\ jobOwner' \in [Jobs -> Clicks \cup Resyncs \cup {"tick", None}]
         /\ job' = job /\ target' = target
         /\ \/ /\ JobOf(t, j) = "pending" /\ jobOwner[j] \in {None, t}
               /\ \A k \in Jobs : jobNew'[k] = IF k = j THEN "cancelled" ELSE jobNew[k]
               /\ \A k \in Jobs : jobOwner'[k] = IF k = j THEN t ELSE jobOwner[k]
            \/ JobOf(t, j) # "pending" /\ jobNew' = jobNew /\ jobOwner' = jobOwner
BY DEF TypeOK, CancelJob, JobOf, jobs

\* A rollback of the transactions in T restores the rows they own and forgets the jobs they
\* have inserted.
LEMMA RollsBack ==
  ASSUME TypeOK, NEW T, None \notin T, EndTx(T, {})
  PROVE  /\ step' = step /\ job' = job /\ enr' = enr
         /\ \A s \in Steps : stepNew'[s] = IF stepOwner[s] \in T THEN step[s] ELSE stepNew[s]
         /\ \A s \in Steps : stepOwner'[s] = IF stepOwner[s] \in T THEN None ELSE stepOwner[s]
         /\ \A j \in Jobs : jobNew'[j] = IF jobOwner[j] \in T THEN job[j] ELSE jobNew[j]
         /\ \A j \in Jobs : jobOwner'[j] = IF jobOwner[j] \in T THEN None ELSE jobOwner[j]
         /\ \A j \in Jobs : target'[j] = IF jobOwner[j] \in T /\ job[j] = "none" THEN None
                                         ELSE target[j]
         /\ enrOwner' = IF enrOwner \in T THEN None ELSE enrOwner
         /\ histOwner' = IF histOwner \in T THEN None ELSE histOwner
BY DEF TypeOK, EndTx

\* A commit of t publishes the rows it owns.
LEMMA Commits ==
  ASSUME TypeOK, NEW t, None # t, EndTx({t}, {t})
  PROVE  /\ stepNew' = stepNew /\ jobNew' = jobNew /\ target' = target
         /\ \A s \in Steps : step'[s] = IF stepOwner[s] = t THEN stepNew[s] ELSE step[s]
         /\ \A s \in Steps : stepOwner'[s] = IF stepOwner[s] = t THEN None ELSE stepOwner[s]
         /\ \A j \in Jobs : job'[j] = IF jobOwner[j] = t THEN jobNew[j] ELSE job[j]
         /\ \A j \in Jobs : jobOwner'[j] = IF jobOwner[j] = t THEN None ELSE jobOwner[j]
         /\ enr' = IF enrOwner = t THEN "completed" ELSE enr
         /\ enrOwner' = IF enrOwner = t THEN None ELSE enrOwner
         /\ histOwner' = IF histOwner = t THEN None ELSE histOwner
BY DEF TypeOK, EndTx

\* The end of a transaction keeps the rows rows.
LEMMA EndTyped ==
  ASSUME TypeOK, NEW T, NEW C, EndTx(T, C)
  PROVE  /\ step' \in [Steps -> StepRow] /\ stepNew' \in [Steps -> StepRow]
         /\ stepOwner' \in [Steps -> Senders \cup Resyncs \cup {None}]
         /\ {job', jobNew'} \subseteq [Jobs -> {"none", "pending", "executed", "cancelled"}]
         /\ jobOwner' \in [Jobs -> Clicks \cup Resyncs \cup {"tick", None}]
         /\ target' \in [Jobs -> Steps \cup {None}]
         /\ enr' \in {"active", "completed"}
         /\ {enrOwner', histOwner'} \subseteq Senders \cup {None}
BY DEF TypeOK, EndTx, StepRow

\* When one sender of T ends, its sends are the wasted ones.
LEMMA WasteOfOne ==
  ASSUME TypeOK, NEW T, NEW t, Senders \cap T = {t}, Waste(T)
  PROVE  /\ wasted' \in [Steps -> Nat]
         /\ \A s \in Steps :
              wasted'[s] = wasted[s] + (IF at[t] = s /\ HasSent(t) THEN 1 ELSE 0)
<1> DEFINE W(s) == {u \in Senders \cap T : at[u] = s /\ HasSent(u)}
<1>1. ASSUME NEW s \in Steps
      PROVE  Cardinality(W(s)) = IF at[t] = s /\ HasSent(t) THEN 1 ELSE 0
  <2>1. W(s) = IF at[t] = s /\ HasSent(t) THEN {t} ELSE {}
    OBVIOUS
  <2> QED BY <2>1, FS_Singleton, FS_EmptySet
<1>2. wasted' = [s \in Steps |-> wasted[s] + Cardinality(W(s))]
  BY DEF Waste
<1> HIDE DEF W
<1>3. wasted \in [Steps -> Nat]
  BY DEF TypeOK
<1> QED BY ONLY <1>1, <1>2, <1>3

\* The new job is a row nobody has used.
LEMMA NewJobIsFree ==
  ASSUME TypeOK, NEW r \in Resyncs, NEW s \in Steps, InsertJob(r, s)
  PROVE  \E n \in Jobs :
           /\ NewJob = n /\ job[n] = "none" /\ jobOwner[n] = None
           /\ jobNew' \in [Jobs -> {"none", "pending", "executed", "cancelled"}]
           /\ jobOwner' \in [Jobs -> Clicks \cup Resyncs \cup {"tick", None}]
           /\ target' \in [Jobs -> Steps \cup {None}]
           /\ \A j \in Jobs : jobNew'[j] = IF j = n THEN "pending" ELSE jobNew[j]
           /\ \A j \in Jobs : jobOwner'[j] = IF j = n THEN r ELSE jobOwner[j]
           /\ \A j \in Jobs : target'[j] = IF j = n THEN s ELSE target[j]
<1>1. NewJob \in Free
  BY DEF InsertJob, NewJob
<1>2. NewJob \in Jobs /\ job[NewJob] = "none" /\ jobOwner[NewJob] = None
  BY <1>1 DEF Free
<1> HIDE DEF NewJob
<1> QED BY <1>2 DEF InsertJob, TypeOK

-----------------------------------------------------------------------------
(* Moving on inside a transaction, and ending it *)

\* Parts that only look at rows and plans.
LEMMA RowsStay ==
  ASSUME Rows, UNCHANGED <<step, stepNew, stepOwner, job, jobNew, jobOwner, target, phase, plan>>
  PROVE  /\ FreeRows' /\ ResyncOwns' /\ ResyncVersions' /\ PlansAhead'
         /\ StepNamesJob' /\ VersionNamesJob' /\ JobNamesStep'
         /\ ResyncChanges' /\ JobStands' /\ NewJobStands'
BY DEF Rows, Locks, Progress, References, Changes, Covered, FreeRows, ResyncOwns, ResyncVersions,
       PlansAhead, StepNamesJob, VersionNamesJob, JobNamesStep, ResyncChanges, JobStands,
       NewJobStands, IsJobOf

\* A sender goes on inside its transaction without writing a step or a job.
LEMMA MoveKeeps ==
  ASSUME Rows, NEW t \in Senders, NEW p \in PCs, Goto(t, p), TypeOK',
         UNCHANGED <<steps, jobs, tick, script, at, clicked>>,
         pc[t] \notin Out \cup {"reset", "cancel_job", "skipped"},
         p \notin Out \cup {"reset", "cancel_job", "load"},
         p \in Written <=> pc[t] \in Written,
         p = "skipped" => t = "worker" /\ step[at[t]].status \in Settled,
         pc[t] = "load" /\ p # "skipped" => StepOf(t, at[t]).status = "pending",
         dirty' \in [Senders -> SUBSET {"status", "job"}],
         \A u \in Senders : u # t => dirty'[u] = dirty[u] /\ loaded'[u] = loaded[u],
         p = "update" /\ "status" \notin dirty'[t] => StepOf(t, at[t]).status \in Settled,
         IsJobOf(loaded'[t], at[t]),
         \A u \in Senders : histOwner' = u <=> pc'[u] \in Section,
         enrOwner' # None => pc'[enrOwner'] = "dispatched"
  PROVE  Rows'
<1> USE Names DEF Rows, Locks, Progress, References, Changes, Covered
<1>1. /\ step' = step /\ stepNew' = stepNew /\ stepOwner' = stepOwner /\ job' = job
      /\ jobNew' = jobNew /\ jobOwner' = jobOwner /\ target' = target /\ todo' = todo
      /\ current' = current /\ at' = at /\ phase' = phase /\ plan' = plan /\ clicked' = clicked
  BY DEF steps, jobs, tick, script
<1>2. /\ pc' \in [Senders -> PCs]
      /\ \A u \in Senders : pc'[u] = IF u = t THEN p ELSE pc[u]
  BY DEF Goto, ControlOK
<1>3. /\ FreeRows' /\ ResyncOwns' /\ ResyncVersions' /\ PlansAhead'
      /\ StepNamesJob' /\ VersionNamesJob' /\ JobNamesStep'
      /\ ResyncChanges' /\ JobStands' /\ NewJobStands'
  BY <1>1, RowsStay
<1>4. \A j, s : IsJobOf(j, s)' <=> IsJobOf(j, s)
  BY <1>1 DEF IsJobOf
<1>5. \A u \in Senders, s \in Steps : StepOf(u, s)' = StepOf(u, s)
  BY <1>1 DEF StepOf
<1>6. ControlOK'
  BY <1>1, <1>2 DEF ControlOK, Out
<1>7. SenderOwns'
  BY <1>1, <1>2 DEF SenderOwns, Out, Written
<1>8. OneInSection'
  BY DEF OneInSection
<1>9. ClickVersions' /\ WorkerVersions'
  BY <1>1, <1>2 DEF ClickVersions, WorkerVersions, SenderOwns, Written
<1>10. WorkerSettles'
  <2>1. t = "worker" /\ pc[t] = "load" /\ p # "skipped" => step[at[t]].status = "pending"
    BY DEF StepOf, SenderOwns, ControlOK, Out, Written
  <2>2. p = "skipped" => StepOf("worker", at["worker"]).status \in Settled
    BY DEF StepOf, SenderOwns, ControlOK, Out, Written
  <2> QED BY <1>1, <1>2, <1>5, <2>1, <2>2 DEF WorkerSettles, ControlOK, Out
<1>11. ReadNamesJob'
  BY <1>1, <1>2, <1>4 DEF ReadNamesJob
<1>12. ClickChanges'
  BY <1>1, <1>2 DEF ClickChanges
<1>13. TickChanges'
  BY <1>1, <1>2 DEF TickChanges, Out
<1> QED
  BY <1>3, <1>6, <1>7, <1>8, <1>9, <1>10, <1>11, <1>12, <1>13

\* A rollback of the transactions in T, which ends the tick with its handler and the resyncs.
LEMMA RollbackKeeps ==
  ASSUME Rows, NEW T, None \notin T, EndTx(T, {}), "worker" \in T <=> "tick" \in T,
         \A u \in Senders : u \in T => pc'[u] = IF u = "worker" THEN "idle" ELSE "done",
         \A u \in Senders : u \notin T => pc'[u] = pc[u],
         \A u \in Senders : u \notin T => at'[u] = at[u],
         \A u \in Senders : u \notin T => loaded'[u] = loaded[u],
         \A u \in Senders : u \notin T => dirty'[u] = dirty[u],
         "tick" \in T => todo' = None /\ current' = None,
         "tick" \notin T => UNCHANGED tick,
         \A r \in Resyncs : r \in T => phase'[r] # "write" /\ plan'[r] = Nothing,
         \A r \in Resyncs : r \notin T => phase'[r] = phase[r] /\ plan'[r] = plan[r],
         TypeOK', pc' \in [Senders -> PCs], dirty' \in [Senders -> SUBSET {"status", "job"}],
         UNCHANGED <<due, flow, sends, clicked>>
  PROVE  Rows'
<1> USE Names DEF Rows, Locks, Progress, References, Changes, Covered
<1>1. /\ step' = step /\ job' = job
      /\ \A s \in Steps : stepNew'[s] = IF stepOwner[s] \in T THEN step[s] ELSE stepNew[s]
      /\ \A s \in Steps : stepOwner'[s] = IF stepOwner[s] \in T THEN None ELSE stepOwner[s]
      /\ \A j \in Jobs : jobNew'[j] = IF jobOwner[j] \in T THEN job[j] ELSE jobNew[j]
      /\ \A j \in Jobs : jobOwner'[j] = IF jobOwner[j] \in T THEN None ELSE jobOwner[j]
      /\ \A j \in Jobs : target'[j] = IF jobOwner[j] \in T /\ job[j] = "none" THEN None
                                      ELSE target[j]
      /\ enrOwner' = IF enrOwner \in T THEN None ELSE enrOwner
      /\ histOwner' = IF histOwner \in T THEN None ELSE histOwner
  BY RollsBack
<1>2. \A u \in Senders : pc'[u] \notin Out =>
        /\ u \notin T /\ pc'[u] = pc[u] /\ at'[u] = at[u] /\ loaded'[u] = loaded[u]
        /\ dirty'[u] = dirty[u] /\ at[u] \in Steps
  BY DEF ControlOK, Out
<1>3. \A j, s : IsJobOf(j, s) => IsJobOf(j, s)'
  BY <1>1 DEF IsJobOf
<1>4. \A u \in Senders, s \in Steps : u \notin T => StepOf(u, s)' = StepOf(u, s)
  BY <1>1 DEF StepOf
<1>5. ControlOK'
  <2>1. pc'["worker"] \notin {"ready", "reset", "cancel_job", "done"}
    BY DEF ControlOK
  <2>2. \A c \in Clicks : pc'[c] # "idle"
    BY DEF ControlOK
  <2>3. pc'["worker"] # "idle" => current' # None /\ at'["worker"] = target'[current']
    <3>1. SUFFICES ASSUME pc'["worker"] # "idle"
                   PROVE  at'["worker"] = target'[current'] /\ current' # None
      OBVIOUS
    <3>2. /\ "worker" \notin T /\ current' = current /\ at'["worker"] = at["worker"]
          /\ pc["worker"] # "idle"
      BY <3>1 DEF tick
    <3>3. current \in Jobs /\ job[current] # "none" 
      BY <3>2 DEF ControlOK, TypeOK, TickChanges
    <3> QED BY <1>1, <3>2, <3>3 DEF ControlOK
  <2> QED BY <1>1, <1>2, <2>1, <2>2, <2>3 DEF ControlOK
<1>6. FreeRows'
  BY <1>1 DEF FreeRows, TypeOK
<1>7. SenderOwns'
  BY <1>1, <1>2 DEF SenderOwns, ControlOK, Out, Written
<1>8. ResyncOwns'
  BY <1>1 DEF ResyncOwns, Nothing, Done
<1>9. OneInSection'
  <2>1. \A u \in Senders : u \in T => pc'[u] \notin Section
    BY DEF Section, Written
  <2>2. \A u \in Senders : histOwner' = u <=> pc'[u] \in Section
    BY <1>1, <2>1 DEF OneInSection
  <2>3. enrOwner' # None => pc'[enrOwner'] = "dispatched"
    BY <1>1 DEF OneInSection, TypeOK
  <2> QED BY <2>2, <2>3 DEF OneInSection
<1>10. ResyncVersions' /\ WorkerVersions'
  BY <1>1 DEF ResyncVersions, WorkerVersions
<1>11. ClickVersions'
  BY <1>1, <1>2 DEF ClickVersions, SenderOwns
<1>12. WorkerSettles'
  BY <1>1, <1>2, <1>4 DEF WorkerSettles, Out
<1>13. PlansAhead'
  BY <1>1 DEF PlansAhead, Nothing, Done
<1>14. StepNamesJob' /\ JobNamesStep'
  BY <1>1, <1>3 DEF StepNamesJob, JobNamesStep
<1>15. VersionNamesJob'
  BY <1>1, <1>3 DEF VersionNamesJob
<1>16. ReadNamesJob'
  BY <1>1, <1>2, <1>3 DEF ReadNamesJob, Nothing, Done
<1>17. ClickChanges'
  BY <1>1, <1>2 DEF ClickChanges
<1>18. ResyncChanges'
  BY <1>1 DEF ResyncChanges
<1>19. TickChanges'
  BY <1>1 DEF TickChanges, tick, TypeOK
<1>20. JobStands'
  BY <1>1 DEF JobStands, StepNamesJob, IsJobOf
<1>21. NewJobStands'
  BY <1>1 DEF NewJobStands, VersionNamesJob, IsJobOf
<1> QED
  BY <1>5, <1>6, <1>7, <1>8, <1>9, <1>10, <1>11, <1>12, <1>13, <1>14, <1>15, <1>16, <1>17,
     <1>18, <1>19, <1>20, <1>21

\* Where Leave leaves the senders.
LEMMA Left ==
  ASSUME TypeOK, ControlOK, NEW T, Leave(T)
  PROVE  /\ pc' \in [Senders -> PCs] /\ dirty' \in [Senders -> SUBSET {"status", "job"}]
         /\ at' \in [Senders -> Steps \cup {None}] /\ loaded' \in [Senders -> Jobs \cup {None}]
         /\ \A u \in Senders : u \in T => pc'[u] = IF u = "worker" THEN "idle" ELSE "done"
         /\ \A u \in Senders : u \in T => at'[u] = None
         /\ \A u \in Senders : u \notin T => pc'[u] = pc[u]
         /\ \A u \in Senders : u \notin T => at'[u] = at[u]
         /\ \A u \in Senders : u \notin T => loaded'[u] = loaded[u]
         /\ \A u \in Senders : u \notin T => dirty'[u] = dirty[u]
BY DEF Leave, TypeOK, ControlOK, PCs

-----------------------------------------------------------------------------
(* Writing and publishing the rows *)

\* A sender writes a settled status into the row of its step.
LEMMA SettlesKeeps ==
  ASSUME Rows, NEW t \in Senders, NEW v \in StepRow, NEW p \in {"skipped", "count"},
         pc[t] \in {"mark_failed", "mark_cancelled", "update"}, p = "count" <=> pc[t] = "update",
         WriteStep(t, at[t], v), v.status \in Settled, IsJobOf(v.job, at[t]),
         v.status = "sent" => p = "count",
         t = "worker" /\ p = "skipped" => step[at[t]].status = "pending",
         t = "worker" /\ p = "count" => v.status \in {"sent", step[at[t]].status},
         Goto(t, p),
         UNCHANGED <<jobs, enr, enrOwner, histOwner, tick, at, loaded, dirty, script, env, hist>>
  PROVE  Rows'
<1> USE Names DEF Rows, Locks, Progress, References, Changes, Covered
<1>1. /\ at[t] \in Steps /\ step[at[t]].status # "none"
      /\ pc[t] \notin Out \cup Written \cup {"reset", "skipped", "load"}
  BY DEF ControlOK, Out, Written
<1>2. /\ stepNew' \in [Steps -> StepRow]
      /\ stepOwner' \in [Steps -> Senders \cup Resyncs \cup {None}]
      /\ step' = step /\ stepOwner[at[t]] \in {None, t}
      /\ \A u \in Steps : stepNew'[u] = IF u = at[t] THEN v ELSE stepNew[u]
      /\ \A u \in Steps : stepOwner'[u] = IF u = at[t] THEN t ELSE stepOwner[u]
  BY <1>1, StepWritten
<1>3. /\ pc' \in [Senders -> PCs]
      /\ \A u \in Senders : pc'[u] = IF u = t THEN p ELSE pc[u]
  BY DEF Goto, ControlOK, PCs
<1>4. /\ job' = job /\ jobNew' = jobNew /\ jobOwner' = jobOwner /\ target' = target
      /\ enrOwner' = enrOwner /\ histOwner' = histOwner /\ todo' = todo /\ current' = current
      /\ at' = at /\ loaded' = loaded /\ dirty' = dirty /\ phase' = phase /\ plan' = plan
      /\ clicked' = clicked
  BY DEF jobs, tick, script, hist
<1>5. \A u \in Senders : pc'[u] \notin Out => pc[u] \notin Out
  BY <1>1, <1>3
<1>6. \A u \in Senders, s \in Steps : u # t => StepOf(u, s)' = StepOf(u, s)
  BY <1>2 DEF StepOf
<1>7. \A j, s : IsJobOf(j, s)' <=> IsJobOf(j, s)
  BY <1>4 DEF IsJobOf
<1>10. TypeOK'
  BY <1>2, <1>4 DEF TypeOK, StepRow, jobs, tick, script, env, hist
<1>11. ControlOK'
  BY <1>1, <1>2, <1>3, <1>4 DEF ControlOK, Out
<1>12. FreeRows'
  BY <1>2, <1>4 DEF FreeRows
<1>13. SenderOwns'
  BY <1>1, <1>2, <1>3, <1>4 DEF SenderOwns, ControlOK, Out, Written
<1>14. ResyncOwns' /\ ResyncVersions' /\ PlansAhead'
  BY <1>1, <1>2, <1>4 DEF ResyncOwns, ResyncVersions, PlansAhead
<1>15. OneInSection'
  BY <1>1, <1>3, <1>4 DEF OneInSection, TypeOK, Section, Written
<1>16. ClickVersions'
  BY <1>1, <1>2, <1>3, <1>4 DEF ClickVersions, SenderOwns, ControlOK, Out, Written
<1>17. WorkerVersions'
  BY <1>1, <1>2, <1>3, <1>4 DEF WorkerVersions, SenderOwns, Written
<1>18. WorkerSettles'
  <2>1. StepOf(t, at[t])'.status \in Settled
    BY <1>1, <1>2, <1>4 DEF StepOf
  <2> QED BY <1>1, <1>2, <1>3, <1>4, <1>6, <2>1 DEF WorkerSettles, ControlOK, Out
<1>19. References'
  BY <1>1, <1>2, <1>3, <1>4, <1>5, <1>7 DEF StepNamesJob, VersionNamesJob, ReadNamesJob, JobNamesStep
<1>20. ClickChanges' /\ ResyncChanges'
  BY <1>1, <1>2, <1>3, <1>4 DEF ClickChanges, ResyncChanges, Out
<1>21. TickChanges'
  BY <1>1, <1>2, <1>3, <1>4 DEF TickChanges
<1>22. Covered'
  BY <1>2, <1>4 DEF JobStands, NewJobStands
<1> QED
  BY <1>10, <1>11, <1>12, <1>13, <1>14, <1>15, <1>16, <1>17, <1>18, <1>19, <1>20, <1>21, <1>22

\* A dispatch commits.
LEMMA CommitKeeps ==
  ASSUME Rows, NEW t \in Senders, Commit(t)
  PROVE  Rows'
<1> USE Names DEF Rows, Locks, Progress, References, Changes, Covered
<1>1. /\ EndTx({t}, {t}) /\ Leave({t}) /\ pc[t] \in {"skipped", "dispatched"}
      /\ UNCHANGED <<tick, script, env, hist>>
  BY DEF Commit
<1>2. \A s \in Steps : stepOwner[s] = t =>
        s = at[t] /\ stepNew[s].status \in Settled /\ IsJobOf(stepNew[s].job, s)
  BY <1>1 DEF SenderOwns, ClickVersions, WorkerVersions, VersionNamesJob, Settled, Written, Out
<1>3. /\ stepNew' = stepNew /\ target' = target
      /\ \A s \in Steps : step'[s] = IF stepOwner[s] = t THEN stepNew[s] ELSE step[s]
      /\ \A s \in Steps : stepOwner'[s] = IF stepOwner[s] = t THEN None ELSE stepOwner[s]
      /\ enrOwner' = IF enrOwner = t THEN None ELSE enrOwner
      /\ histOwner' = IF histOwner = t THEN None ELSE histOwner
  BY <1>1, Commits
<1>4. /\ \A s \in Steps : step[s].status # "none" => step'[s].status # "none"
      /\ \A s \in Steps : step[s].status \in Settled => step'[s].status \in Settled
      /\ \A s \in Steps : step'[s] # step[s] => stepOwner[s] = t /\ step'[s].status \in Settled
  BY <1>2, <1>3 DEF Settled
<1>5. \A j \in Jobs : jobOwner[j] = t =>
        /\ job[j] = "pending" /\ jobNew[j] = "cancelled" /\ target[j] = at[t]
        /\ t \in Clicks /\ stepOwner[at[t]] = t
  BY <1>1 DEF TypeOK, ClickChanges, SenderOwns, Out
<1>6. /\ \A j \in Jobs : job'[j] = IF jobOwner[j] = t THEN "cancelled" ELSE job[j]
      /\ \A j \in Jobs : jobOwner'[j] = IF jobOwner[j] = t THEN None ELSE jobOwner[j]
      /\ jobNew' = jobNew
  <2>1. /\ \A j \in Jobs : job'[j] = IF jobOwner[j] = t THEN jobNew[j] ELSE job[j]
        /\ \A j \in Jobs : jobOwner'[j] = IF jobOwner[j] = t THEN None ELSE jobOwner[j]
        /\ jobNew' = jobNew
    BY <1>1, Commits
  <2> QED BY <1>5, <2>1
<1>7. /\ \A u \in Senders : pc'[u] \notin Out =>
           /\ u # t /\ pc'[u] = pc[u] /\ at'[u] = at[u] /\ loaded'[u] = loaded[u]
           /\ dirty'[u] = dirty[u] /\ at[u] \in Steps
      /\ \A u \in Senders : u # t => pc'[u] = pc[u] /\ at'[u] = at[u]
      /\ t = "worker" => pc'[t] = "idle"
      /\ t \in Clicks => pc'[t] = "done"
  BY <1>1 DEF Leave, Out, ControlOK
<1>8. /\ pc' \in [Senders -> PCs] /\ dirty' \in [Senders -> SUBSET {"status", "job"}]
      /\ at' \in [Senders -> Steps \cup {None}] /\ loaded' \in [Senders -> Jobs \cup {None}]
  BY <1>1 DEF Leave, PCs, ControlOK, TypeOK
<1>9. \A j, s : IsJobOf(j, s) => IsJobOf(j, s)'
  BY <1>3, <1>6 DEF IsJobOf
<1>10. TypeOK'
  <2>1. /\ step' \in [Steps -> StepRow] /\ stepNew' \in [Steps -> StepRow]
        /\ stepOwner' \in [Steps -> Senders \cup Resyncs \cup {None}]
        /\ {job', jobNew'} \subseteq [Jobs -> {"none", "pending", "executed", "cancelled"}]
        /\ jobOwner' \in [Jobs -> Clicks \cup Resyncs \cup {"tick", None}]
        /\ target' \in [Jobs -> Steps \cup {None}]
        /\ enr' \in {"active", "completed"}
        /\ {enrOwner', histOwner'} \subseteq Senders \cup {None}
    BY <1>1, EndTyped
  <2> QED BY <1>1, <1>8, <2>1 DEF TypeOK, StepRow, tick, script, env, hist
<1>11. ControlOK'
  <2>1. pc'["worker"] \notin {"ready", "reset", "cancel_job", "done"}
    BY <1>7 DEF ControlOK
  <2>2. \A c \in Clicks : pc'[c] # "idle"
    BY <1>7 DEF ControlOK
  <2>3. pc'["worker"] # "idle" => current' # None /\ at'["worker"] = target'[current']
    BY <1>1, <1>3, <1>7 DEF ControlOK, tick
  <2> QED BY <1>4, <1>7, <1>8, <2>1, <2>2, <2>3 DEF ControlOK
<1>12. FreeRows'
  BY <1>3, <1>5, <1>6 DEF FreeRows
<1>13. SenderOwns'
  BY <1>3, <1>7 DEF SenderOwns, Out, Written
<1>14. ResyncOwns' /\ ResyncVersions'
  BY <1>1, <1>3 DEF ResyncOwns, ResyncVersions, script
<1>15. OneInSection'
  <2>1. pc'[t] \notin Section
    BY <1>7 DEF Section, Written
  <2>2. \A u \in Senders : histOwner' = u <=> pc'[u] \in Section
    BY <1>3, <1>7, <2>1 DEF OneInSection
  <2>3. enrOwner' # None => pc'[enrOwner'] = "dispatched"
    BY <1>3, <1>7 DEF OneInSection, TypeOK
  <2> QED BY <2>2, <2>3 DEF OneInSection
<1>16. ClickVersions' /\ WorkerVersions'
  BY <1>1, <1>3, <1>7 DEF ClickVersions, WorkerVersions, hist
<1>17. WorkerSettles'
  <2>1. \A u \in Senders : pc'[u] \notin Out =>
          StepOf(u, at[u])' = StepOf(u, at[u]) \/ StepOf(u, at[u])'.status \in Settled
    BY <1>3, <1>4, <1>7 DEF StepOf
  <2>2. pc'["worker"] \notin {"idle", "load", "skipped"} =>
          \/ step'[at'["worker"]].status \in {"pending", "cancelled"}
          \/ clicked'[at'["worker"]] > 0
    <3>1. SUFFICES ASSUME pc'["worker"] \notin {"idle", "load", "skipped"}
                   PROVE  \/ step'[at["worker"]].status \in {"pending", "cancelled"}
                          \/ clicked[at["worker"]] > 0
      BY <1>1, <1>7 DEF Out, hist
    <3>2. /\ step[at["worker"]].status \in {"pending", "cancelled"} \/ clicked[at["worker"]] > 0
          /\ t \in Clicks /\ at["worker"] \in Steps
      BY <1>7, <3>1 DEF WorkerSettles, ControlOK, Out
    <3>3. stepOwner[at["worker"]] = t => clicked[at["worker"]] > 0
      BY <1>1, <1>2, <3>2 DEF ClickVersions, Out
    <3> QED BY <1>3, <3>2, <3>3
  <2> QED BY <1>7, <2>1, <2>2 DEF WorkerSettles, Out
<1>18. PlansAhead'
  BY <1>1, <1>3, <1>4 DEF PlansAhead, script
<1>19. StepNamesJob'
  BY <1>2, <1>3, <1>9 DEF StepNamesJob
<1>20. VersionNamesJob'
  BY <1>3, <1>6, <1>9 DEF VersionNamesJob
<1>21. ReadNamesJob'
  BY <1>1, <1>7, <1>9 DEF ReadNamesJob, script
<1>22. JobNamesStep'
  BY <1>3, <1>4, <1>5, <1>6 DEF JobNamesStep
<1>23. ClickChanges'
  BY <1>3, <1>6, <1>7 DEF ClickChanges, Out
<1>24. ResyncChanges'
  BY <1>1, <1>3, <1>4, <1>6 DEF ResyncChanges, script
<1>25. TickChanges'
  <2>1. \A j \in Jobs : jobOwner'[j] = "tick" =>
          /\ job'[j] = "pending" /\ jobNew'[j] \in {"pending", "executed"}
          /\ jobNew'[j] = "executed" => step'[target'[j]].status \in Settled
    BY <1>3, <1>4, <1>6 DEF TickChanges, JobNamesStep
  <2>2. todo' # None => \A j \in todo' : jobOwner'[j] = "tick" /\ jobNew'[j] = "pending"
    BY <1>1, <1>6 DEF TickChanges, tick, TypeOK
  <2>3. current' # None /\ pc'["worker"] = "idle" => step'[target'[current']].status \in Settled
    <3>1. CASE t = "worker"
      <4>1. at["worker"] = target[current] /\ at["worker"] \in Steps
        BY <1>1, <3>1 DEF ControlOK, Out
      <4>2. stepOwner[at["worker"]] # "worker" => step[at["worker"]].status \in Settled
        BY <1>1, <3>1 DEF SenderOwns, Written, WorkerSettles, StepOf
      <4> QED BY <1>1, <1>2, <1>3, <3>1, <4>1, <4>2 DEF tick
    <3>2. CASE t # "worker"
      <4>1. current # None => current \in Jobs /\ job[current] # "none"
        BY DEF TickChanges, TypeOK
      <4> QED BY <1>1, <1>3, <1>4, <1>7, <3>2, <4>1 DEF TickChanges, JobNamesStep, tick
    <3> QED BY <3>1, <3>2
  <2> QED BY <1>1, <2>1, <2>2, <2>3 DEF TickChanges, tick
<1>26. JobStands'
  BY <1>1, <1>2, <1>3, <1>4, <1>5, <1>6 DEF JobStands, StepNamesJob, IsJobOf, script, Settled
<1>27. NewJobStands'
  BY <1>3, <1>6 DEF NewJobStands, VersionNamesJob, IsJobOf
<1> QED
  BY <1>10, <1>11, <1>12, <1>13, <1>14, <1>15, <1>16, <1>17, <1>18, <1>19, <1>20, <1>21, <1>22,
     <1>23, <1>24, <1>25, <1>26, <1>27

\* A resync commits.
LEMMA ResyncCommitsKeeps ==
  ASSUME Rows, NEW r \in Resyncs, ResyncCommits(r)
  PROVE  Rows'
<1> USE Names DEF Rows, Locks, Progress, References, Changes, Covered
<1>1. /\ EndTx({r}, {r}) /\ phase[r] = "write" /\ phase' = [phase EXCEPT ![r] = "over"]
      /\ UNCHANGED <<plan, tick, disp, env, hist>>
  BY DEF ResyncCommits
<1>2. /\ stepNew' = stepNew /\ jobNew' = jobNew /\ target' = target
      /\ \A s \in Steps : step'[s] = IF stepOwner[s] = r THEN stepNew[s] ELSE step[s]
      /\ \A s \in Steps : stepOwner'[s] = IF stepOwner[s] = r THEN None ELSE stepOwner[s]
      /\ \A j \in Jobs : job'[j] = IF jobOwner[j] = r THEN jobNew[j] ELSE job[j]
      /\ \A j \in Jobs : jobOwner'[j] = IF jobOwner[j] = r THEN None ELSE jobOwner[j]
  BY <1>1, Commits
<1>3. enrOwner' = enrOwner /\ histOwner' = histOwner
  <2>1. /\ enrOwner' = IF enrOwner = r THEN None ELSE enrOwner
        /\ histOwner' = IF histOwner = r THEN None ELSE histOwner
    BY <1>1, Commits
  <2> QED BY <2>1 DEF TypeOK
<1>4. \A s \in Steps : stepOwner[s] = r =>
        /\ stepNew[s].status \in {"pending", "cancelled"} /\ step[s].status \in {"none", "pending"}
        /\ step'[s] = stepNew[s]
  BY <1>2 DEF ResyncVersions
<1>5. /\ \A s \in Steps : step[s].status # "none" => step'[s].status # "none"
      /\ \A s \in Steps : step[s].status \in Settled => step'[s].status \in Settled
      /\ \A s \in Steps : step[s].status \in Settled => step'[s] = step[s]
  BY <1>2, <1>4 DEF Settled
<1>6. \A j, s : IsJobOf(j, s) => IsJobOf(j, s)'
  BY <1>2 DEF IsJobOf, ResyncChanges
<1>7. /\ \A s \in Synced : plan[r][s].do = "none"
      /\ \A q \in Resyncs : q # r => phase'[q] = phase[q]
      /\ phase'[r] = "over" /\ phase' \in [Resyncs -> {"read", "write", "over"}]
  BY <1>1 DEF ResyncCommits, ToDo, TypeOK
<1>10. TypeOK'
  <2>1. /\ step' \in [Steps -> StepRow] /\ stepNew' \in [Steps -> StepRow]
        /\ stepOwner' \in [Steps -> Senders \cup Resyncs \cup {None}]
        /\ {job', jobNew'} \subseteq [Jobs -> {"none", "pending", "executed", "cancelled"}]
        /\ jobOwner' \in [Jobs -> Clicks \cup Resyncs \cup {"tick", None}]
        /\ target' \in [Jobs -> Steps \cup {None}]
        /\ enr' \in {"active", "completed"}
        /\ {enrOwner', histOwner'} \subseteq Senders \cup {None}
    BY <1>1, EndTyped
  <2> QED BY <1>1, <1>7, <2>1 DEF TypeOK, StepRow, tick, disp, env, hist
<1>11. ControlOK'
  BY <1>1, <1>2, <1>5 DEF ControlOK, disp, tick
<1>12. FreeRows'
  BY <1>2 DEF FreeRows
<1>13. SenderOwns' /\ OneInSection'
  BY <1>1, <1>2, <1>3 DEF SenderOwns, OneInSection, ControlOK, Out, Written, disp
<1>14. ResyncOwns'
  BY <1>1, <1>2, <1>7 DEF ResyncOwns
<1>15. ResyncVersions' /\ ClickVersions' /\ WorkerVersions'
  BY <1>1, <1>2 DEF ResyncVersions, ClickVersions, WorkerVersions, disp, hist
<1>16. WorkerSettles'
  BY <1>1, <1>2, <1>4, <1>5 DEF WorkerSettles, StepOf, ControlOK, Out, disp, hist
<1>17. PlansAhead'
  BY <1>1, <1>2, <1>5 DEF PlansAhead
<1>18. StepNamesJob'
  BY <1>2, <1>6 DEF StepNamesJob, VersionNamesJob, ResyncChanges, IsJobOf
<1>19. VersionNamesJob'
  BY <1>2, <1>6 DEF VersionNamesJob
<1>20. ReadNamesJob'
  BY <1>1, <1>6 DEF ReadNamesJob, disp
<1>21. JobNamesStep'
  BY <1>2, <1>4, <1>5 DEF JobNamesStep, ResyncChanges
<1>22. ClickChanges' /\ ResyncChanges'
  BY <1>1, <1>2, <1>5, <1>7 DEF ClickChanges, ResyncChanges, disp
<1>23. TickChanges'
  <2>1. current # None => current \in Jobs /\ job[current] # "none"
    BY DEF TickChanges, TypeOK
  <2>2. \A j \in Jobs : jobOwner'[j] = "tick" => jobOwner[j] = "tick" /\ job'[j] = job[j]
    BY <1>2
  <2>3. todo # None => \A j \in todo : j \in Jobs /\ jobOwner'[j] = jobOwner[j]
    BY <1>2 DEF TypeOK, TickChanges
  <2> QED BY <1>1, <1>2, <1>5, <2>1, <2>2, <2>3 DEF TickChanges, JobNamesStep, disp, tick
<1>24. JobStands'
  <2>1. SUFFICES ASSUME NEW s \in Steps, step'[s].status = "pending"
                 PROVE  LET j == step'[s].job IN
                        /\ job'[j] = "pending"
                        /\ jobOwner'[j] # None /\ jobNew'[j] # "pending" =>
                             \/ jobOwner'[j] \in Clicks
                             \/ /\ jobOwner'[j] \in Resyncs
                                /\ \/ s \in Synced /\ plan'[jobOwner'[j]][s].do \in {"renew", "close"}
                                   \/ /\ stepOwner'[s] = jobOwner'[j]
                                      /\ stepNew'[s].status = "cancelled" \/ stepNew'[s].job # j
    BY DEF JobStands
  <2>2. step'[s].job \in Jobs
    BY <1>2, <1>18, <2>1 DEF StepNamesJob, IsJobOf
  <2>3. CASE step[s].status = "pending" /\ step'[s].job = step[s].job
    BY <1>1, <1>2, <1>4, <1>7, <2>1, <2>2, <2>3 DEF JobStands
  <2>4. CASE ~(step[s].status = "pending" /\ step'[s].job = step[s].job)
    BY <1>2, <2>1, <2>2, <2>4 DEF NewJobStands
  <2> QED BY <2>3, <2>4
<1>25. NewJobStands'
  BY <1>2 DEF NewJobStands, VersionNamesJob, IsJobOf
<1> QED
  BY <1>10, <1>11, <1>12, <1>13, <1>14, <1>15, <1>16, <1>17, <1>18, <1>19, <1>20, <1>21, <1>22,
     <1>23, <1>24, <1>25

\* A dispatch-now request resets its step.
LEMMA ResetKeeps ==
  ASSUME Rows, NEW c \in Clicks, Reset(c)
  PROVE  Rows'
<1> USE Names DEF Rows, Locks, Progress, References, Changes, Covered
<1>1. /\ at[c] \in Steps /\ step[at[c]].status # "none" /\ pc[c] = "reset"
      /\ WriteStep(c, at[c], [StepOf(c, at[c]) EXCEPT !.status = "pending"])
  BY DEF Reset, ControlOK, Out
<1>2. stepOwner[at[c]] = None
  BY <1>1 DEF WriteStep, SenderOwns
<1> DEFINE v == [step[at[c]] EXCEPT !.status = "pending"]
<1>3. v \in StepRow /\ v.status = "pending" /\ v.job = step[at[c]].job
  <2>1. step[at[c]] \in [status : Statuses \cup {"none"}, job : Jobs \cup {None}]
    BY <1>1 DEF TypeOK
  <2>2. PICK row \in [status : Statuses \cup {"none"}, job : Jobs \cup {None}] : row = step[at[c]]
    BY <2>1
  <2>3. v = [row EXCEPT !.status = "pending"]
    BY <2>2
  <2> HIDE DEF v
  <2> QED BY <2>2, <2>3 DEF StepRow, Statuses
<1>4. WriteStep(c, at[c], v)
  BY <1>1, <1>2 DEF StepOf
<1> HIDE DEF v
<1>5. /\ stepNew' \in [Steps -> StepRow]
      /\ stepOwner' \in [Steps -> Senders \cup Resyncs \cup {None}]
      /\ step' = step
      /\ \A s \in Steps : stepNew'[s] = IF s = at[c] THEN v ELSE stepNew[s]
      /\ \A s \in Steps : stepOwner'[s] = IF s = at[c] THEN c ELSE stepOwner[s]
  BY <1>1, <1>3, <1>4, StepWritten
<1>6. /\ pc' \in [Senders -> PCs]
      /\ \A u \in Senders : pc'[u] = IF u = c THEN "cancel_job" ELSE pc[u]
  BY DEF Reset, Goto, ControlOK, PCs
<1>7. /\ clicked' \in [Steps -> Nat] /\ clicked'[at[c]] > 0
      /\ \A s \in Steps : clicked[s] > 0 => clicked'[s] > 0
  <2>1. clicked \in [Steps -> Nat] /\ clicked' = [clicked EXCEPT ![at[c]] = @ + 1]
    BY DEF Reset, TypeOK
  <2> QED BY ONLY <1>1, <2>1
<1>8. /\ job' = job /\ jobNew' = jobNew /\ jobOwner' = jobOwner /\ target' = target
      /\ enr' = enr /\ enrOwner' = enrOwner /\ histOwner' = histOwner
      /\ todo' = todo /\ current' = current
      /\ at' = at /\ loaded' = loaded /\ dirty' = dirty /\ phase' = phase /\ plan' = plan
      /\ UNCHANGED <<due, flow, faults, sends, wasted>>
  BY DEF Reset, jobs, tick, script, env
<1>9. \A j, s : IsJobOf(j, s)' <=> IsJobOf(j, s)
  BY <1>8 DEF IsJobOf
<1>10. TypeOK'
  BY <1>5, <1>7, <1>8 DEF TypeOK, StepRow
<1>11. ControlOK'
  BY <1>1, <1>5, <1>6, <1>8 DEF ControlOK, Out
<1>12. FreeRows'
  BY <1>5, <1>8 DEF FreeRows
<1>13. SenderOwns'
  BY <1>1, <1>2, <1>5, <1>6, <1>8 DEF SenderOwns, ControlOK, Out, Written
<1>14. ResyncOwns' /\ ResyncVersions' /\ PlansAhead'
  BY <1>1, <1>5, <1>8 DEF ResyncOwns, ResyncVersions, PlansAhead
<1>15. OneInSection'
  BY <1>1, <1>6, <1>8 DEF OneInSection, TypeOK, Section, Written
<1>16. ClickVersions'
  BY <1>1, <1>2, <1>3, <1>5, <1>6, <1>7, <1>8 DEF ClickVersions, SenderOwns, ControlOK, Out, Written
<1>17. WorkerVersions'
  BY <1>2, <1>5, <1>6, <1>8 DEF WorkerVersions
<1>18. WorkerSettles'
  <2>1. \A u \in Senders, s \in Steps : u # c => StepOf(u, s)' = StepOf(u, s)
    BY <1>2, <1>5 DEF StepOf
  <2> QED BY <1>5, <1>6, <1>7, <1>8, <2>1 DEF WorkerSettles, ControlOK, Out
<1>19. StepNamesJob' /\ VersionNamesJob'
  BY <1>1, <1>3, <1>5, <1>8, <1>9 DEF StepNamesJob, VersionNamesJob
<1>20. ReadNamesJob' /\ JobNamesStep'
  BY <1>1, <1>5, <1>6, <1>8, <1>9 DEF ReadNamesJob, JobNamesStep, Out
<1>21. ClickChanges' /\ ResyncChanges'
  BY <1>1, <1>5, <1>6, <1>8 DEF ClickChanges, ResyncChanges, Out
<1>22. TickChanges'
  BY <1>5, <1>6, <1>8 DEF TickChanges
<1>23. Covered'
  BY <1>2, <1>5, <1>8 DEF JobStands, NewJobStands
<1> QED
  BY <1>10, <1>11, <1>12, <1>13, <1>14, <1>15, <1>16, <1>17, <1>18, <1>19, <1>20, <1>21, <1>22,
     <1>23

-----------------------------------------------------------------------------
(* What a resync and the request before its dispatch do *)

\* A resync updates the content of a step or closes it.
LEMMA ResyncWritesStepKeeps ==
  ASSUME Rows, NEW r \in Resyncs, ResyncWritesStep(r)
  PROVE  Rows'
<1> USE Names DEF Rows, Locks, Progress, References, Changes, Covered
<1>1. PICK s \in Synced :
        /\ phase[r] = "write" /\ plan[r][s].do \in {"content", "close"}
        /\ WriteIfPending(r, s, IF plan[r][s].do = "content" THEN StepOf(r, s)
                                ELSE [StepOf(r, s) EXCEPT !.status = "cancelled"])
        /\ plan' = [plan EXCEPT ![r][s] = Done] /\ phase' = phase
  BY DEF ResyncWritesStep, Doing, Proceed
<1>2. s \in Steps /\ stepOwner[s] # r
  BY <1>1 DEF PlansAhead
<1>3. /\ UNCHANGED <<job, jobNew, jobOwner, target, enr, enrOwner, histOwner, todo, current,
                     pc, at, loaded, dirty, due, flow, faults, sends, wasted, clicked>>
  BY DEF ResyncWritesStep, jobs, tick, disp, env, hist
<1>4. /\ plan' \in [Resyncs -> [Synced -> Work]]
      /\ \A q \in Resyncs, u \in Synced : plan'[q][u] = IF q = r /\ u = s THEN Done ELSE plan[q][u]
  <2>1. plan \in [Resyncs -> [Synced -> Work]] /\ Done \in Work
    BY DEF TypeOK, Done, Work
  <2> QED BY ONLY <1>1, <2>1
<1>5. ASSUME step[s].status # "pending"
      PROVE  UNCHANGED <<step, stepNew, stepOwner>>
  BY <1>1, <1>2, <1>5 DEF WriteIfPending, StepOf, steps
<1>6. ASSUME step[s].status = "pending"
      PROVE  \E v \in StepRow :
               /\ v.status \in {"pending", "cancelled"} /\ v.job = step[s].job
               /\ plan[r][s].do = "content" => v.status = "pending"
               /\ plan[r][s].do = "close" => v.status = "cancelled"
               /\ WriteStep(r, s, v)
  <2>1. step[s] \in [status : Statuses \cup {"none"}, job : Jobs \cup {None}]
    BY <1>2 DEF TypeOK
  <2>2. PICK row \in [status : Statuses \cup {"none"}, job : Jobs \cup {None}] :
          row = step[s]
    BY <2>1
  <2> DEFINE w == IF plan[r][s].do = "content" THEN row ELSE [row EXCEPT !.status = "cancelled"]
  <2>3. WriteStep(r, s, w)
    BY <1>1, <1>2, <1>6, <2>2 DEF WriteIfPending, StepOf
  <2>4. /\ w \in StepRow /\ w.job = row.job
        /\ w.status = IF plan[r][s].do = "content" THEN row.status ELSE "cancelled"
    BY <2>2 DEF StepRow, Statuses
  <2> HIDE DEF w
  <2> QED BY <1>1, <1>6, <2>2, <2>3, <2>4
<1>7. /\ stepNew' \in [Steps -> StepRow]
      /\ stepOwner' \in [Steps -> Senders \cup Resyncs \cup {None}]
      /\ step' = step
      /\ \A u \in Steps : u # s => stepNew'[u] = stepNew[u] /\ stepOwner'[u] = stepOwner[u]
      /\ \/ stepNew'[s] = stepNew[s] /\ stepOwner'[s] = stepOwner[s] /\ step[s].status # "pending"
         \/ /\ stepOwner[s] = None /\ stepOwner'[s] = r /\ step[s].status = "pending"
            /\ stepNew'[s].status \in {"pending", "cancelled"} /\ stepNew'[s].job = step[s].job
            /\ plan[r][s].do = "close" => stepNew'[s].status = "cancelled"
  <2>1. CASE step[s].status # "pending"
    BY <1>5, <2>1 DEF TypeOK, StepRow
  <2>2. CASE step[s].status = "pending"
    <3>1. PICK v \in StepRow :
            /\ v.status \in {"pending", "cancelled"} /\ v.job = step[s].job
            /\ plan[r][s].do = "close" => v.status = "cancelled"
            /\ WriteStep(r, s, v)
      BY <1>6, <2>2
    <3>2. /\ stepNew' \in [Steps -> StepRow]
          /\ stepOwner' \in [Steps -> Senders \cup Resyncs \cup {None}]
          /\ step' = step /\ stepOwner[s] \in {None, r}
          /\ \A u \in Steps : stepNew'[u] = IF u = s THEN v ELSE stepNew[u]
          /\ \A u \in Steps : stepOwner'[u] = IF u = s THEN r ELSE stepOwner[u]
      BY <1>2, <3>1, StepWritten
    <3> QED BY <1>2, <2>2, <3>1, <3>2
  <2> QED BY <2>1, <2>2
<1>8. \A u \in Senders, q \in Steps : StepOf(u, q)' = StepOf(u, q)
  BY <1>7 DEF StepOf
<1>9. \A j, q : IsJobOf(j, q)' <=> IsJobOf(j, q)
  BY <1>3 DEF IsJobOf
<1>10. TypeOK'
  BY <1>1, <1>3, <1>4, <1>7 DEF TypeOK, StepRow
<1>11. ControlOK'
  BY <1>3, <1>7 DEF ControlOK
<1>12. FreeRows'
  BY <1>2, <1>3, <1>7 DEF FreeRows
<1>13. SenderOwns'
  BY <1>3, <1>7 DEF SenderOwns, ControlOK, Out, Written
<1>14. ResyncOwns' /\ ResyncVersions'
  BY <1>1, <1>4, <1>7 DEF ResyncOwns, ResyncVersions, Done
<1>15. PlansAhead'
  BY <1>1, <1>4, <1>7 DEF PlansAhead, Done
<1>16. OneInSection' /\ TickChanges' /\ ClickChanges'
  BY <1>3, <1>7 DEF OneInSection, TickChanges, ClickChanges
<1>17. ClickVersions' /\ WorkerVersions'
  BY <1>3, <1>7 DEF ClickVersions, WorkerVersions, SenderOwns, ControlOK, Out
<1>18. WorkerSettles'
  BY <1>3, <1>7, <1>8 DEF WorkerSettles, ControlOK, Out
<1>19. StepNamesJob' /\ JobNamesStep' /\ VersionNamesJob'
  BY <1>3, <1>7, <1>9 DEF StepNamesJob, JobNamesStep, VersionNamesJob
<1>20. ReadNamesJob'
  BY <1>1, <1>3, <1>4, <1>9 DEF ReadNamesJob, Done
<1>21. ResyncChanges'
  BY <1>1, <1>3, <1>7 DEF ResyncChanges
<1>22. JobStands'
  BY <1>1, <1>2, <1>3, <1>4, <1>7 DEF JobStands, Done
<1>23. NewJobStands'
  BY <1>3, <1>7 DEF NewJobStands
<1> QED
  BY <1>10, <1>11, <1>12, <1>13, <1>14, <1>15, <1>16, <1>17, <1>18, <1>19, <1>20, <1>21, <1>22,
     <1>23

\* A dispatch-now request cancels the job it has read.
LEMMA ClickCancelsJobKeeps ==
  ASSUME Rows, NEW c \in Clicks, ClickCancelsJob(c)
  PROVE  Rows'
<1> USE Names DEF Rows, Locks, Progress, References, Changes, Covered
<1>1. /\ pc[c] = "cancel_job" /\ at[c] \in Steps /\ stepOwner[at[c]] = c
      /\ IsJobOf(loaded[c], at[c]) /\ loaded[c] \in Jobs
      /\ stepNew[at[c]].status = "pending" /\ CancelJob(c, loaded[c])
  BY DEF ClickCancelsJob, ControlOK, SenderOwns, ReadNamesJob, ClickVersions, IsJobOf, Out, Written
<1>2. UNCHANGED <<step, stepNew, stepOwner, enr, enrOwner, histOwner, todo, current, at, loaded,
                  dirty, phase, plan, due, flow, faults, sends, wasted, clicked>>
  BY DEF ClickCancelsJob, steps, tick, script, env, hist
<1>3. /\ pc' \in [Senders -> PCs]
      /\ \A u \in Senders : pc'[u] = IF u = c THEN "load" ELSE pc[u]
  BY DEF ClickCancelsJob, Goto, ControlOK, PCs
<1>4. /\ jobNew' \in [Jobs -> {"none", "pending", "executed", "cancelled"}]
      /\ jobOwner' \in [Jobs -> Clicks \cup Resyncs \cup {"tick", None}]
      /\ job' = job /\ target' = target
      /\ \/ /\ JobOf(c, loaded[c]) = "pending" /\ jobOwner[loaded[c]] \in {None, c}
            /\ \A j \in Jobs : jobNew'[j] = IF j = loaded[c] THEN "cancelled" ELSE jobNew[j]
            /\ \A j \in Jobs : jobOwner'[j] = IF j = loaded[c] THEN c ELSE jobOwner[j]
         \/ jobNew' = jobNew /\ jobOwner' = jobOwner
  BY <1>1, JobCancelled
<1>5. JobOf(c, loaded[c]) = "pending" /\ jobOwner[loaded[c]] \in {None, c} =>
        job[loaded[c]] = "pending" /\ jobOwner[loaded[c]] = None
  BY <1>1 DEF JobOf, ClickChanges
<1>6. /\ \A j \in Jobs : j # loaded[c] => jobNew'[j] = jobNew[j] /\ jobOwner'[j] = jobOwner[j]
      /\ \/ /\ job[loaded[c]] = "pending" /\ jobOwner[loaded[c]] = None
            /\ jobNew'[loaded[c]] = "cancelled" /\ jobOwner'[loaded[c]] = c
         \/ jobNew'[loaded[c]] = jobNew[loaded[c]] /\ jobOwner'[loaded[c]] = jobOwner[loaded[c]]
  BY <1>1, <1>4, <1>5
<1>7. \A j, s : IsJobOf(j, s)' <=> IsJobOf(j, s)
  BY <1>4 DEF IsJobOf
<1>10. TypeOK'
  BY <1>2, <1>4 DEF TypeOK
<1>11. ControlOK'
  BY <1>1, <1>2, <1>3, <1>4 DEF ControlOK, Out
<1>12. FreeRows'
  BY <1>2, <1>4, <1>6 DEF FreeRows
<1>13. SenderOwns'
  BY <1>1, <1>2, <1>3 DEF SenderOwns, Out, Written
<1>14. ResyncOwns' /\ ResyncVersions' /\ WorkerVersions' /\ PlansAhead'
  BY <1>2, <1>3 DEF ResyncOwns, ResyncVersions, WorkerVersions, PlansAhead
<1>15. OneInSection'
  BY <1>1, <1>2, <1>3 DEF OneInSection, TypeOK, Section, Written
<1>16. ClickVersions'
  BY <1>1, <1>2, <1>3 DEF ClickVersions, Out, Written
<1>17. WorkerSettles'
  BY <1>2, <1>3 DEF WorkerSettles, StepOf
<1>18. StepNamesJob' /\ JobNamesStep'
  BY <1>2, <1>4, <1>7 DEF StepNamesJob, JobNamesStep
<1>19. VersionNamesJob'
  BY <1>1, <1>2, <1>4, <1>6, <1>7 DEF VersionNamesJob
<1>20. ReadNamesJob'
  BY <1>1, <1>2, <1>3, <1>7 DEF ReadNamesJob
<1>21. ClickChanges'
  BY <1>1, <1>2, <1>3, <1>4, <1>6 DEF ClickChanges, IsJobOf, Out
<1>22. ResyncChanges'
  BY <1>2, <1>4, <1>6 DEF ResyncChanges
<1>23. TickChanges'
  BY <1>2, <1>3, <1>4, <1>6 DEF TickChanges, TypeOK
<1>24. JobStands'
  BY <1>2, <1>4, <1>6 DEF JobStands, StepNamesJob, IsJobOf
<1>25. NewJobStands'
  BY <1>2, <1>4, <1>6 DEF NewJobStands, VersionNamesJob, IsJobOf
<1> QED
  BY <1>10, <1>11, <1>12, <1>13, <1>14, <1>15, <1>16, <1>17, <1>18, <1>19, <1>20, <1>21, <1>22,
     <1>23, <1>24, <1>25

\* A resync cancels the job it has read, and plans to replace or close its step.
LEMMA ResyncCancelsJobKeeps ==
  ASSUME Rows, NEW r \in Resyncs, ResyncCancelsJob(r)
  PROVE  Rows'
<1> USE Names DEF Rows, Locks, Progress, References, Changes, Covered
<1>1. PICK s \in Synced :
        /\ phase[r] = "write" /\ plan[r][s].do \in {"reschedule", "cancel"}
        /\ CancelJob(r, plan[r][s].job)
        /\ plan' = [plan EXCEPT ![r][s] =
                      [do |-> IF plan[r][s].do = "cancel" THEN "close" ELSE "renew", job |-> None]]
        /\ phase' = phase
  BY DEF ResyncCancelsJob, Doing, Proceed
<1>2. PICK k \in Jobs : k = plan[r][s].job /\ IsJobOf(k, s)
  BY <1>1 DEF ReadNamesJob, IsJobOf
<1>3. UNCHANGED <<step, stepNew, stepOwner, enr, enrOwner, histOwner, todo, current, pc, at,
                  loaded, dirty, due, flow, faults, sends, wasted, clicked>>
  BY DEF ResyncCancelsJob, steps, tick, disp, env, hist
<1>4. PICK w \in Work :
        /\ w.do \in {"close", "renew"}
        /\ plan' \in [Resyncs -> [Synced -> Work]]
        /\ \A q \in Resyncs, u \in Synced : plan'[q][u] = IF q = r /\ u = s THEN w ELSE plan[q][u]
  <2> DEFINE w == [do |-> IF plan[r][s].do = "cancel" THEN "close" ELSE "renew", job |-> None]
  <2>1. plan \in [Resyncs -> [Synced -> Work]] /\ w \in Work /\ w.do \in {"close", "renew"}
    BY DEF TypeOK, Work
  <2>2. plan' = [plan EXCEPT ![r][s] = w]
    BY <1>1
  <2> HIDE DEF w
  <2>3. /\ plan' \in [Resyncs -> [Synced -> Work]]
        /\ \A q \in Resyncs, u \in Synced : plan'[q][u] = IF q = r /\ u = s THEN w ELSE plan[q][u]
    BY ONLY <2>1, <2>2
  <2> QED BY <2>1, <2>3
<1>5. /\ jobNew' \in [Jobs -> {"none", "pending", "executed", "cancelled"}]
      /\ jobOwner' \in [Jobs -> Clicks \cup Resyncs \cup {"tick", None}]
      /\ job' = job /\ target' = target
      /\ \/ /\ JobOf(r, k) = "pending" /\ jobOwner[k] \in {None, r}
            /\ \A j \in Jobs : jobNew'[j] = IF j = k THEN "cancelled" ELSE jobNew[j]
            /\ \A j \in Jobs : jobOwner'[j] = IF j = k THEN r ELSE jobOwner[j]
         \/ jobNew' = jobNew /\ jobOwner' = jobOwner
  BY <1>1, <1>2, JobCancelled
<1>6. JobOf(r, k) = "pending" /\ jobOwner[k] \in {None, r} =>
        job[k] = "pending" /\ jobOwner[k] = None
  BY <1>2 DEF JobOf, ResyncChanges, IsJobOf
<1>7. /\ \A j \in Jobs : j # k => jobNew'[j] = jobNew[j] /\ jobOwner'[j] = jobOwner[j]
      /\ \/ /\ job[k] = "pending" /\ jobOwner[k] = None
            /\ jobNew'[k] = "cancelled" /\ jobOwner'[k] = r
         \/ jobNew'[k] = jobNew[k] /\ jobOwner'[k] = jobOwner[k]
  BY <1>5, <1>6
<1>8. \A j, q : IsJobOf(j, q)' <=> IsJobOf(j, q)
  BY <1>5 DEF IsJobOf
<1>10. TypeOK'
  BY <1>1, <1>3, <1>4, <1>5 DEF TypeOK
<1>11. ControlOK'
  BY <1>3, <1>5 DEF ControlOK
<1>12. FreeRows'
  BY <1>3, <1>5, <1>7 DEF FreeRows
<1>13. SenderOwns' /\ OneInSection' /\ ResyncVersions' /\ ClickVersions' /\ WorkerVersions'
  BY <1>3 DEF SenderOwns, OneInSection, ResyncVersions, ClickVersions, WorkerVersions
<1>14. ResyncOwns'
  BY <1>1, <1>3, <1>4 DEF ResyncOwns
<1>15. WorkerSettles'
  BY <1>3 DEF WorkerSettles, StepOf
<1>16. PlansAhead'
  BY <1>1, <1>3, <1>4 DEF PlansAhead
<1>17. StepNamesJob' /\ JobNamesStep'
  BY <1>3, <1>5, <1>8 DEF StepNamesJob, JobNamesStep
<1>18. VersionNamesJob'
  BY <1>2, <1>3, <1>5, <1>7, <1>8 DEF VersionNamesJob, IsJobOf
<1>19. ReadNamesJob'
  BY <1>3, <1>4, <1>8 DEF ReadNamesJob
<1>20. ClickChanges' /\ ResyncChanges'
  BY <1>1, <1>3, <1>5, <1>7 DEF ClickChanges, ResyncChanges
<1>21. TickChanges'
  BY <1>3, <1>5, <1>7 DEF TickChanges, TypeOK
<1>22. JobStands'
  BY <1>1, <1>2, <1>3, <1>4, <1>5, <1>7 DEF JobStands, StepNamesJob, IsJobOf
<1>23. NewJobStands'
  BY <1>2, <1>3, <1>5, <1>7 DEF NewJobStands, VersionNamesJob, ResyncChanges, IsJobOf
<1> QED
  BY <1>10, <1>11, <1>12, <1>13, <1>14, <1>15, <1>16, <1>17, <1>18, <1>19, <1>20, <1>21, <1>22,
     <1>23

\* A resync inserts a job and gives it to its step.
LEMMA RescheduleKeeps ==
  ASSUME Rows, NEW r \in Resyncs, Reschedule(r)
  PROVE  Rows'
<1> USE Names DEF Rows, Locks, Progress, References, Changes, Covered
<1>1. PICK s \in Synced :
        /\ phase[r] = "write" /\ plan[r][s].do \in {"add", "renew"}
        /\ InsertJob(r, s)
        /\ IF plan[r][s].do = "add" THEN WriteStep(r, s, [status |-> "pending", job |-> NewJob])
           ELSE WriteIfPending(r, s, [StepOf(r, s) EXCEPT !.job = NewJob])
        /\ plan' = [plan EXCEPT ![r][s] = Done] /\ phase' = phase
  BY DEF Reschedule, Doing, Proceed
<1>2. s \in Steps /\ stepOwner[s] # r
  BY <1>1 DEF PlansAhead
<1>3. PICK n \in Jobs :
        /\ NewJob = n /\ job[n] = "none" /\ jobOwner[n] = None
        /\ jobNew' \in [Jobs -> {"none", "pending", "executed", "cancelled"}]
        /\ jobOwner' \in [Jobs -> Clicks \cup Resyncs \cup {"tick", None}]
        /\ target' \in [Jobs -> Steps \cup {None}]
        /\ \A j \in Jobs : jobNew'[j] = IF j = n THEN "pending" ELSE jobNew[j]
        /\ \A j \in Jobs : jobOwner'[j] = IF j = n THEN r ELSE jobOwner[j]
        /\ \A j \in Jobs : target'[j] = IF j = n THEN s ELSE target[j]
  BY <1>1, <1>2, NewJobIsFree
<1>4. UNCHANGED <<job, enr, enrOwner, histOwner, todo, current, pc, at, loaded, dirty,
                  due, flow, faults, sends, wasted, clicked>>
  BY DEF Reschedule, tick, disp, env, hist
<1>5. /\ plan' \in [Resyncs -> [Synced -> Work]]
      /\ \A q \in Resyncs, u \in Synced : plan'[q][u] = IF q = r /\ u = s THEN Done ELSE plan[q][u]
  <2>1. plan \in [Resyncs -> [Synced -> Work]] /\ Done \in Work
    BY DEF TypeOK, Done, Work
  <2> QED BY ONLY <1>1, <2>1
<1>6. plan[r][s].do = "add" => step[s].status = "none" /\ stepOwner[s] = None
  BY <1>1 DEF PlansAhead
<1>7. ASSUME plan[r][s].do = "add" \/ step[s].status = "pending"
      PROVE  \E v \in StepRow : v.status = "pending" /\ v.job = n /\ WriteStep(r, s, v)
  <2>1. CASE plan[r][s].do = "add"
    <3> DEFINE v == [status |-> "pending", job |-> n]
    <3>1. WriteStep(r, s, v)
      BY <1>1, <1>3, <2>1
    <3>2. v \in StepRow /\ v.status = "pending" /\ v.job = n
      BY DEF StepRow, Statuses
    <3> HIDE DEF v
    <3> QED BY <3>1, <3>2
  <2>2. CASE plan[r][s].do # "add"
    <3>1. step[s] \in [status : Statuses \cup {"none"}, job : Jobs \cup {None}]
      BY <1>2 DEF TypeOK
    <3>2. PICK row \in [status : Statuses \cup {"none"}, job : Jobs \cup {None}] :
            row = step[s]
      BY <3>1
    <3> DEFINE v == [row EXCEPT !.job = n]
    <3>3. WriteStep(r, s, v)
      BY <1>1, <1>2, <1>3, <1>7, <2>2, <3>2 DEF WriteIfPending, StepOf
    <3>4. v \in StepRow /\ v.status = row.status /\ v.job = n
      BY <3>2 DEF StepRow
    <3> HIDE DEF v
    <3> QED BY <1>7, <2>2, <3>2, <3>3, <3>4
  <2> QED BY <2>1, <2>2
<1>8. ASSUME ~(plan[r][s].do = "add" \/ step[s].status = "pending")
      PROVE  UNCHANGED <<step, stepNew, stepOwner>>
  BY <1>1, <1>2, <1>8 DEF WriteIfPending, StepOf, steps
<1>9. /\ stepNew' \in [Steps -> StepRow]
      /\ stepOwner' \in [Steps -> Senders \cup Resyncs \cup {None}]
      /\ step' = step
      /\ \A u \in Steps : u # s => stepNew'[u] = stepNew[u] /\ stepOwner'[u] = stepOwner[u]
      /\ \/ /\ stepNew'[s] = stepNew[s] /\ stepOwner'[s] = stepOwner[s]
            /\ step[s].status \notin {"none", "pending"}
         \/ /\ stepOwner[s] = None /\ stepOwner'[s] = r /\ step[s].status \in {"none", "pending"}
            /\ stepNew'[s].status = "pending" /\ stepNew'[s].job = n
  <2>1. CASE ~(plan[r][s].do = "add" \/ step[s].status = "pending")
    BY <1>1, <1>8, <2>1 DEF TypeOK, StepRow, PlansAhead
  <2>2. CASE plan[r][s].do = "add" \/ step[s].status = "pending"
    <3>1. PICK v \in StepRow : v.status = "pending" /\ v.job = n /\ WriteStep(r, s, v)
      BY <1>7, <2>2
    <3>2. /\ stepNew' \in [Steps -> StepRow]
          /\ stepOwner' \in [Steps -> Senders \cup Resyncs \cup {None}]
          /\ step' = step /\ stepOwner[s] \in {None, r}
          /\ \A u \in Steps : stepNew'[u] = IF u = s THEN v ELSE stepNew[u]
          /\ \A u \in Steps : stepOwner'[u] = IF u = s THEN r ELSE stepOwner[u]
      BY <1>2, <3>1, StepWritten
    <3> QED BY <1>2, <1>6, <2>2, <3>1, <3>2
  <2> QED BY <2>1, <2>2
<1>10. \A u \in Senders, q \in Steps : StepOf(u, q)' = StepOf(u, q)
  BY <1>9 DEF StepOf
<1>11. \A j, q : IsJobOf(j, q)' <=> IsJobOf(j, q)
  BY <1>3, <1>4 DEF IsJobOf
<1>12. TypeOK'
  BY <1>1, <1>3, <1>4, <1>5, <1>9 DEF TypeOK, StepRow
<1>13. ControlOK'
  <2>1. current # None => target'[current] = target[current]
    BY <1>3 DEF TickChanges, TypeOK
  <2> QED BY <1>4, <1>9, <2>1 DEF ControlOK
<1>14. FreeRows'
  BY <1>2, <1>3, <1>4, <1>9 DEF FreeRows
<1>15. SenderOwns'
  BY <1>4, <1>9 DEF SenderOwns, ControlOK, Out, Written
<1>16. ResyncOwns' /\ ResyncVersions'
  BY <1>1, <1>5, <1>9 DEF ResyncOwns, ResyncVersions, Done
<1>17. PlansAhead'
  BY <1>1, <1>5, <1>9 DEF PlansAhead, Done
<1>18. OneInSection'
  BY <1>4 DEF OneInSection
<1>19. ClickVersions' /\ WorkerVersions'
  BY <1>4, <1>9 DEF ClickVersions, WorkerVersions, SenderOwns, ControlOK, Out
<1>20. WorkerSettles'
  BY <1>4, <1>9, <1>10 DEF WorkerSettles, ControlOK, Out
<1>21. StepNamesJob' /\ JobNamesStep'
  BY <1>3, <1>4, <1>9, <1>11 DEF StepNamesJob, JobNamesStep
<1>22. VersionNamesJob'
  BY <1>2, <1>3, <1>9, <1>11 DEF VersionNamesJob
<1>23. ReadNamesJob'
  BY <1>4, <1>5, <1>11 DEF ReadNamesJob, Done
<1>24. ClickChanges'
  BY <1>3, <1>4 DEF ClickChanges
<1>25. ResyncChanges'
  BY <1>1, <1>2, <1>3, <1>4, <1>9 DEF ResyncChanges
<1>26. TickChanges'
  <2>1. current # None => target'[current] = target[current]
    BY <1>3 DEF TickChanges, TypeOK
  <2> QED BY <1>3, <1>4, <1>9, <2>1 DEF TickChanges, TypeOK
<1>27. JobStands'
  BY <1>1, <1>2, <1>3, <1>4, <1>5, <1>9 DEF JobStands, StepNamesJob, IsJobOf, Done
<1>28. NewJobStands'
  BY <1>2, <1>3, <1>4, <1>9 DEF NewJobStands, VersionNamesJob, IsJobOf
<1> QED
  BY <1>12, <1>13, <1>14, <1>15, <1>16, <1>17, <1>18, <1>19, <1>20, <1>21, <1>22, <1>23, <1>24,
     <1>25, <1>26, <1>27, <1>28

\* A resync plans changes to pending steps and new rows.
LEMMA ResyncReadsKeeps ==
  ASSUME Rows, NEW r \in Resyncs, ResyncReads(r)
  PROVE  Rows'
<1> USE Names DEF Rows, Locks, Progress, References, Changes, Covered
<1>1. PICK op \in [Synced -> {"none", "add", "reschedule", "content", "cancel"}] :
        /\ \A s \in Synced : /\ op[s] = "add" => s \in Unused
                             /\ op[s] \notin {"none", "add"} => step[s].status = "pending"
        /\ plan' = [plan EXCEPT ![r] = [s \in Synced |->
                      [do |-> op[s], job |-> IF op[s] \in {"reschedule", "cancel"}
                                               THEN step[s].job ELSE None]]]
  BY DEF ResyncReads
<1>2. phase[r] = "read" /\ phase' = [phase EXCEPT ![r] = "write"]
  BY DEF ResyncReads
<1>3. UNCHANGED <<step, stepNew, stepOwner, job, jobNew, jobOwner, target, enr, enrOwner, histOwner,
                  todo, current, pc, at, loaded, dirty, due, flow, faults, sends, wasted, clicked>>
  BY DEF ResyncReads, rows, steps, jobs, tick, disp, env, hist
<1>4. /\ \A q \in Resyncs : q # r => plan'[q] = plan[q] /\ phase'[q] = phase[q]
      /\ phase' \in [Resyncs -> {"read", "write", "over"}] /\ phase'[r] = "write"
      /\ \A s \in Synced : plan'[r][s].do = op[s]
      /\ \A s \in Synced : op[s] \in {"reschedule", "cancel"} => plan'[r][s].job = step[s].job
  BY <1>1, <1>2 DEF TypeOK
<1>5. plan' \in [Resyncs -> [Synced -> Work]]
  <2> DEFINE p == [s \in Synced |-> [do |-> op[s], job |-> IF op[s] \in {"reschedule", "cancel"}
                                                             THEN step[s].job ELSE None]]
  <2>1. \A s \in Synced : step[s].job \in Jobs \cup {None}
    BY DEF TypeOK
  <2>2. p \in [Synced -> Work]
    BY <2>1 DEF Work
  <2>3. plan' = [plan EXCEPT ![r] = p]
    BY <1>1
  <2> HIDE DEF p
  <2> QED BY <2>2, <2>3 DEF TypeOK
<1>6. \A s \in Synced : plan[r][s].do = "none"
  BY <1>2 DEF ResyncOwns
<1>7. \A s \in Synced : op[s] = "add" =>
        /\ step[s].status = "none" /\ stepOwner[s] = None
        /\ \A q \in Resyncs : plan[q][s].do # "add"
  BY <1>1 DEF Unused
<1>8. \A s \in Steps : stepOwner[s] # r
  BY <1>2 DEF ResyncOwns
<1>9. \A j, s : IsJobOf(j, s)' <=> IsJobOf(j, s)
  BY <1>3 DEF IsJobOf
<1>10. TypeOK'
  BY <1>3, <1>4, <1>5 DEF TypeOK
<1>11. ControlOK'
  BY <1>3 DEF ControlOK
<1>12. FreeRows' /\ SenderOwns' /\ OneInSection'
  BY <1>3 DEF FreeRows, SenderOwns, OneInSection
<1>13. ResyncOwns'
  BY <1>3, <1>4 DEF ResyncOwns
<1>14. ResyncVersions' /\ ClickVersions' /\ WorkerVersions' /\ WorkerSettles'
  BY <1>3 DEF ResyncVersions, ClickVersions, WorkerVersions, WorkerSettles, StepOf
<1>15. PlansAhead'
  BY <1>1, <1>3, <1>4, <1>7, <1>8 DEF PlansAhead
<1>16. StepNamesJob' /\ VersionNamesJob' /\ JobNamesStep'
  BY <1>3, <1>9 DEF StepNamesJob, VersionNamesJob, JobNamesStep
<1>17. ReadNamesJob'
  BY <1>1, <1>3, <1>4, <1>9 DEF ReadNamesJob, StepNamesJob
<1>18. ClickChanges' /\ ResyncChanges' /\ TickChanges'
  BY <1>3, <1>4 DEF ClickChanges, ResyncChanges, TickChanges
<1>19. JobStands'
  BY <1>3, <1>4, <1>6 DEF JobStands
<1>20. NewJobStands'
  BY <1>3 DEF NewJobStands
<1> QED
  BY <1>10, <1>11, <1>12, <1>13, <1>14, <1>15, <1>16, <1>17, <1>18, <1>19, <1>20

\* The tick commits.
LEMMA CommitTickKeeps ==
  ASSUME Rows, CommitTick
  PROVE  Rows'
<1> USE Names DEF Rows, Locks, Progress, References, Changes, Covered
<1>1. /\ EndTx({"tick"}, {"tick"}) /\ todo = {} /\ current = None /\ todo' = None
      /\ UNCHANGED <<current, disp, script, env, hist>>
  BY DEF CommitTick
<1>2. /\ stepNew' = stepNew /\ jobNew' = jobNew /\ target' = target
      /\ \A s \in Steps : step'[s] = IF stepOwner[s] = "tick" THEN stepNew[s] ELSE step[s]
      /\ \A s \in Steps : stepOwner'[s] = IF stepOwner[s] = "tick" THEN None ELSE stepOwner[s]
      /\ \A j \in Jobs : job'[j] = IF jobOwner[j] = "tick" THEN jobNew[j] ELSE job[j]
      /\ \A j \in Jobs : jobOwner'[j] = IF jobOwner[j] = "tick" THEN None ELSE jobOwner[j]
      /\ enr' = IF enrOwner = "tick" THEN "completed" ELSE enr
      /\ enrOwner' = IF enrOwner = "tick" THEN None ELSE enrOwner
      /\ histOwner' = IF histOwner = "tick" THEN None ELSE histOwner
  BY <1>1, Commits
<1>3. \A s \in Steps : step'[s] = step[s] /\ stepOwner'[s] = stepOwner[s]
  BY <1>2 DEF TypeOK
<1>4. enrOwner' = enrOwner /\ histOwner' = histOwner
  BY <1>2 DEF TypeOK
<1>5. \A j \in Jobs : jobOwner[j] = "tick" =>
        /\ job[j] = "pending" /\ job'[j] \in {"pending", "executed"}
        /\ job'[j] = "executed" => step[target[j]].status \in Settled
  BY <1>2 DEF TickChanges
<1>6. /\ \A j, s : IsJobOf(j, s)' <=> IsJobOf(j, s)
      /\ \A s \in Steps, u \in Senders : StepOf(u, s)' = StepOf(u, s)
  BY <1>2, <1>3, <1>5 DEF IsJobOf, StepOf
<1>10. TypeOK'
  <2>1. /\ step' \in [Steps -> StepRow] /\ stepNew' \in [Steps -> StepRow]
        /\ stepOwner' \in [Steps -> Senders \cup Resyncs \cup {None}]
        /\ {job', jobNew'} \subseteq [Jobs -> {"none", "pending", "executed", "cancelled"}]
        /\ jobOwner' \in [Jobs -> Clicks \cup Resyncs \cup {"tick", None}]
        /\ target' \in [Jobs -> Steps \cup {None}]
        /\ enr' \in {"active", "completed"}
        /\ {enrOwner', histOwner'} \subseteq Senders \cup {None}
    BY <1>1, EndTyped
  <2> QED BY <1>1, <2>1 DEF TypeOK, StepRow, disp, script, env, hist
<1>11. ControlOK'
  BY <1>1, <1>2, <1>3 DEF ControlOK, disp
<1>12. FreeRows'
  BY <1>2, <1>3 DEF FreeRows
<1>13. SenderOwns' /\ OneInSection'
  BY <1>1, <1>3, <1>4 DEF SenderOwns, OneInSection, ControlOK, Out, Written, disp
<1>14. ResyncOwns' /\ ResyncVersions' /\ PlansAhead'
  BY <1>1, <1>2, <1>3 DEF ResyncOwns, ResyncVersions, PlansAhead, script
<1>15. ClickVersions' /\ WorkerVersions'
  BY <1>1, <1>2, <1>3 DEF ClickVersions, WorkerVersions, disp, hist
<1>16. WorkerSettles'
  BY <1>1, <1>3, <1>6 DEF WorkerSettles, ControlOK, Out, disp, hist
<1>17. StepNamesJob' /\ JobNamesStep'
  BY <1>2, <1>3, <1>5, <1>6 DEF StepNamesJob, JobNamesStep
<1>18. VersionNamesJob'
  BY <1>2, <1>3, <1>6 DEF VersionNamesJob
<1>19. ReadNamesJob'
  BY <1>1, <1>6 DEF ReadNamesJob, disp, script
<1>20. ClickChanges' /\ ResyncChanges' /\ TickChanges'
  BY <1>1, <1>2, <1>3 DEF ClickChanges, ResyncChanges, TickChanges, disp, script
<1>21. JobStands'
  BY <1>1, <1>2, <1>3, <1>5 DEF JobStands, StepNamesJob, IsJobOf, script, Settled
<1>22. NewJobStands'
  BY <1>2, <1>3 DEF NewJobStands, VersionNamesJob, IsJobOf
<1> QED
  BY <1>10, <1>11, <1>12, <1>13, <1>14, <1>15, <1>16, <1>17, <1>18, <1>19, <1>20, <1>21, <1>22

-----------------------------------------------------------------------------
(* The steps of a dispatch *)

\* Load: a request finds its own reset, so only the worker can find its step settled.
LEMMA LoadKeeps ==
  ASSUME Rows, NEW t \in Senders, Load(t)
  PROVE  Rows'
<1> USE Names DEF Rows, Locks, Progress, References
<1>1. PICK p \in {"check", "skipped"} :
        /\ p = "check" <=> StepOf(t, at[t]).status = "pending"
        /\ pc[t] = "load" /\ at[t] \in Steps /\ step[at[t]].status # "none"
        /\ Goto(t, p) /\ loaded' = [loaded EXCEPT ![t] = StepOf(t, at[t]).job]
        /\ UNCHANGED <<rows, tick, at, dirty, script, env, hist>>
  BY DEF Load, ControlOK, Out, PCs
<1>2. StepOf(t, at[t]) \in StepRow
  BY <1>1, RowSeen
<1>3. p = "skipped" => t = "worker" /\ step[at[t]].status \in Settled
  BY <1>1, <1>2 DEF StepOf, SenderOwns, ClickVersions, StepRow, Statuses, Settled, Out, Written
<1>4. IsJobOf(loaded'[t], at[t]) /\ \A u \in Senders : u # t => loaded'[u] = loaded[u]
  BY <1>1 DEF StepOf, StepNamesJob, VersionNamesJob, TypeOK
<1>5. loaded' \in [Senders -> Jobs \cup {None}]
  BY <1>1, <1>2 DEF TypeOK, StepRow
<1>6. TypeOK'
  BY <1>1, <1>5 DEF TypeOK, rows, steps, jobs, tick, script, env, hist
<1>7. /\ \A u \in Senders : histOwner' = u <=> pc'[u] \in Section
      /\ enrOwner' # None => pc'[enrOwner'] = "dispatched"
  BY <1>1 DEF OneInSection, TypeOK, Goto, ControlOK, rows, Section, Written
<1>8. /\ pc[t] \notin Out \cup {"reset", "cancel_job", "skipped"}
      /\ p \notin Out \cup {"reset", "cancel_job", "load"}
      /\ p \in Written <=> pc[t] \in Written
      /\ UNCHANGED <<steps, jobs, tick, script, at, clicked>> /\ dirty' = dirty /\ p # "update"
      /\ p # "skipped" => StepOf(t, at[t]).status = "pending"
      /\ p \in PCs
  BY <1>1 DEF Out, Written, PCs, rows, hist
<1>9. dirty' \in [Senders -> SUBSET {"status", "job"}]
  BY <1>1 DEF ControlOK
<1> HIDE DEF Rows
<1> QED
  BY <1>1, <1>3, <1>4, <1>6, <1>7, <1>8, <1>9, MoveKeeps

\* CheckFlow writes nothing.
LEMMA CheckFlowKeeps ==
  ASSUME Rows, NEW t \in Senders, CheckFlow(t)
  PROVE  Rows'
<1> USE Names DEF Rows, Locks, References
<1>1. PICK p \in {"mark_cancelled", "send"} :
        /\ pc[t] = "check" /\ Goto(t, p)
        /\ UNCHANGED <<rows, tick, at, loaded, dirty, script, env, hist>>
  BY DEF CheckFlow
<1>2. TypeOK'
  BY <1>1 DEF TypeOK, rows, steps, jobs, tick, script, env, hist
<1>3. /\ \A u \in Senders : histOwner' = u <=> pc'[u] \in Section
      /\ enrOwner' # None => pc'[enrOwner'] = "dispatched"
  BY <1>1 DEF OneInSection, TypeOK, Goto, ControlOK, rows, Section, Written
<1>4. /\ pc[t] \notin Out \cup {"reset", "cancel_job", "skipped"} /\ IsJobOf(loaded'[t], at[t])
      /\ p \notin Out \cup {"reset", "cancel_job", "load"}
      /\ p \in Written <=> pc[t] \in Written
      /\ UNCHANGED <<steps, jobs, tick, script, at, clicked, loaded, dirty>>
      /\ p \notin {"skipped", "update"} /\ p \in PCs
  BY <1>1 DEF ReadNamesJob, Out, Written, PCs, rows, hist
<1>5. dirty' \in [Senders -> SUBSET {"status", "job"}]
  BY <1>1 DEF ControlOK
<1> HIDE DEF Rows
<1> QED
  BY <1>1, <1>2, <1>3, <1>4, <1>5, MoveKeeps

\* Send writes nothing.
LEMMA SendKeeps ==
  ASSUME Rows, NEW t \in Senders, Send(t)
  PROVE  Rows'
<1> USE Names DEF Rows, Locks, References
<1>1. /\ pc[t] = "send" /\ at[t] \in Steps /\ Goto(t, "history") /\ "history" \in PCs
      /\ sends' = [sends EXCEPT ![at[t]] = @ + 1]
      /\ UNCHANGED <<rows, tick, at, loaded, dirty, script, env, wasted, clicked>>
  BY DEF Send, ControlOK, Out, PCs
<1>2. sends' \in [Steps -> Nat]
  <2>1. sends \in [Steps -> Nat]
    BY DEF TypeOK
  <2> QED BY ONLY <1>1, <2>1
<1>3. TypeOK'
  BY <1>1, <1>2 DEF TypeOK, rows, steps, jobs, tick, script, env
<1>4. /\ \A u \in Senders : histOwner' = u <=> pc'[u] \in Section
      /\ enrOwner' # None => pc'[enrOwner'] = "dispatched"
  BY <1>1 DEF OneInSection, TypeOK, Goto, ControlOK, rows, Section, Written
<1>5. /\ pc[t] \notin Out \cup {"reset", "cancel_job", "skipped"} /\ IsJobOf(loaded'[t], at[t])
      /\ "history" \notin Out \cup {"reset", "cancel_job", "load"}
      /\ "history" \in Written <=> pc[t] \in Written
      /\ UNCHANGED <<steps, jobs, tick, script, at, clicked, loaded, dirty>>
  BY <1>1 DEF ReadNamesJob, Out, Written, rows
<1>6. dirty' \in [Senders -> SUBSET {"status", "job"}]
  BY <1>1 DEF ControlOK
<1> HIDE DEF Rows
<1> QED
  BY <1>1, <1>3, <1>4, <1>5, <1>6, MoveKeeps

\* A failed send is a fault and writes nothing.
LEMMA SendFailsKeeps ==
  ASSUME Rows, NEW t \in Senders, SendFails(t)
  PROVE  Rows'
<1> USE Names DEF Rows, Locks, References
<1>1. /\ pc[t] = "send" /\ Goto(t, "mark_failed") /\ "mark_failed" \in PCs
      /\ faults < MaxFaults /\ faults' = faults + 1
      /\ UNCHANGED <<rows, tick, at, loaded, dirty, script, due, flow, hist>>
  BY DEF SendFails, PCs
<1>2. faults' \in 0..MaxFaults
  <2>1. faults \in 0..MaxFaults
    BY DEF TypeOK
  <2> QED BY ONLY <1>1, <2>1, BoundAssumption
<1>3. TypeOK'
  BY <1>1, <1>2 DEF TypeOK, rows, steps, jobs, tick, script, hist
<1>4. /\ \A u \in Senders : histOwner' = u <=> pc'[u] \in Section
      /\ enrOwner' # None => pc'[enrOwner'] = "dispatched"
  BY <1>1 DEF OneInSection, TypeOK, Goto, ControlOK, rows, Section, Written
<1>5. /\ pc[t] \notin Out \cup {"reset", "cancel_job", "skipped"} /\ IsJobOf(loaded'[t], at[t])
      /\ "mark_failed" \notin Out \cup {"reset", "cancel_job", "load"}
      /\ "mark_failed" \in Written <=> pc[t] \in Written
      /\ UNCHANGED <<steps, jobs, tick, script, at, clicked, loaded, dirty>>
  BY <1>1 DEF ReadNamesJob, Out, Written, rows, hist
<1>6. dirty' \in [Senders -> SUBSET {"status", "job"}]
  BY <1>1 DEF ControlOK
<1> HIDE DEF Rows
<1> QED
  BY <1>1, <1>3, <1>4, <1>5, <1>6, MoveKeeps

\* SaveHistory takes the history's lock, so the section past it has one sender.
LEMMA SaveHistoryKeeps ==
  ASSUME Rows, NEW t \in Senders, SaveHistory(t)
  PROVE  Rows'
<1> USE Names DEF Rows, Locks, References
<1>1. /\ pc[t] = "history" /\ Goto(t, "get") /\ "get" \in PCs
      /\ histOwner = None /\ histOwner' = t
      /\ UNCHANGED <<steps, jobs, enr, enrOwner, tick, at, loaded, dirty, script, env, hist>>
  BY DEF SaveHistory, PCs
<1>2. TypeOK'
  BY <1>1 DEF TypeOK, steps, jobs, tick, script, env, hist
<1>3. /\ \A u \in Senders : histOwner' = u <=> pc'[u] \in Section
      /\ enrOwner' # None => pc'[enrOwner'] = "dispatched"
  BY <1>1 DEF OneInSection, TypeOK, Goto, ControlOK, Section, Written
<1>4. /\ pc[t] \notin Out \cup {"reset", "cancel_job", "skipped"} /\ IsJobOf(loaded'[t], at[t])
      /\ "get" \notin Out \cup {"reset", "cancel_job", "load"}
      /\ "get" \in Written <=> pc[t] \in Written
      /\ UNCHANGED <<steps, jobs, tick, script, at, clicked, loaded, dirty>>
  BY <1>1 DEF ReadNamesJob, Out, Written, hist
<1>5. dirty' \in [Senders -> SUBSET {"status", "job"}]
  BY <1>1 DEF ControlOK
<1> HIDE DEF Rows
<1> QED
  BY <1>1, <1>2, <1>3, <1>4, <1>5, MoveKeeps

\* GetStep leaves the status out of the update only when it reads sent.
LEMMA GetStepKeeps ==
  ASSUME Rows, NEW t \in Senders, GetStep(t)
  PROVE  Rows'
<1> USE Names DEF Rows, Locks, References
<1> DEFINE d == (IF StepOf(t, at[t]).status # "sent" THEN {"status"} ELSE {})
                \cup (IF StepOf(t, at[t]).job # loaded[t] THEN {"job"} ELSE {})
<1>1. /\ pc[t] = "get" /\ Goto(t, "update") /\ "update" \in PCs /\ dirty' = [dirty EXCEPT ![t] = d]
      /\ UNCHANGED <<rows, tick, at, loaded, script, env, hist>>
  BY DEF GetStep, PCs
<1>2. d \in SUBSET {"status", "job"} /\ ("status" \notin d => StepOf(t, at[t]).status = "sent")
  OBVIOUS
<1> HIDE DEF d
<1>3. /\ dirty' \in [Senders -> SUBSET {"status", "job"}]
      /\ \A u \in Senders : u # t => dirty'[u] = dirty[u]
      /\ "status" \notin dirty'[t] => StepOf(t, at[t]).status \in Settled
  BY <1>1, <1>2 DEF ControlOK, Settled
<1>4. TypeOK'
  BY <1>1 DEF TypeOK, rows, steps, jobs, tick, script, env, hist
<1>5. /\ \A u \in Senders : histOwner' = u <=> pc'[u] \in Section
      /\ enrOwner' # None => pc'[enrOwner'] = "dispatched"
  BY <1>1 DEF OneInSection, TypeOK, Goto, ControlOK, rows, Section, Written
<1>6. /\ pc[t] \notin Out \cup {"reset", "cancel_job", "skipped"} /\ IsJobOf(loaded'[t], at[t])
      /\ "update" \notin Out \cup {"reset", "cancel_job", "load"}
      /\ "update" \in Written <=> pc[t] \in Written
      /\ UNCHANGED <<steps, jobs, tick, script, at, clicked, loaded>>
  BY <1>1 DEF ReadNamesJob, Out, Written, rows, hist
<1> QED
  BY <1>1, <1>3, <1>4, <1>5, <1>6, MoveKeeps

\* Count writes nothing.
LEMMA CountKeeps ==
  ASSUME Rows, NEW t \in Senders, Count(t)
  PROVE  Rows'
<1> USE Names DEF Rows, Locks, References
<1>1. PICK p \in {"complete", "dispatched"} :
        /\ pc[t] = "count" /\ Goto(t, p)
        /\ UNCHANGED <<rows, tick, at, loaded, dirty, script, env, hist>>
  BY DEF Count
<1>2. TypeOK'
  BY <1>1 DEF TypeOK, rows, steps, jobs, tick, script, env, hist
<1>3. /\ \A u \in Senders : histOwner' = u <=> pc'[u] \in Section
      /\ enrOwner' # None => pc'[enrOwner'] = "dispatched"
  BY <1>1 DEF OneInSection, TypeOK, Goto, ControlOK, rows, Section, Written
<1>4. /\ pc[t] \notin Out \cup {"reset", "cancel_job", "skipped"} /\ IsJobOf(loaded'[t], at[t])
      /\ p \notin Out \cup {"reset", "cancel_job", "load", "skipped", "update"} /\ p \in PCs
      /\ p \in Written <=> pc[t] \in Written
      /\ UNCHANGED <<steps, jobs, tick, script, at, clicked, loaded, dirty>>
  BY <1>1 DEF ReadNamesJob, Out, Written, PCs, rows, hist
<1>5. dirty' \in [Senders -> SUBSET {"status", "job"}]
  BY <1>1 DEF ControlOK
<1> HIDE DEF Rows
<1> QED
  BY <1>1, <1>2, <1>3, <1>4, <1>5, MoveKeeps

\* Complete takes the row of the enrollment on the way to the commit.
LEMMA CompleteKeeps ==
  ASSUME Rows, NEW t \in Senders, Complete(t)
  PROVE  Rows'
<1> USE Names DEF Rows, Locks, References
<1>1. /\ pc[t] = "complete" /\ Goto(t, "dispatched") /\ "dispatched" \in PCs
      /\ enrOwner = None /\ enrOwner' \in {None, t}
      /\ UNCHANGED <<steps, jobs, enr, histOwner, tick, at, loaded, dirty, script, env, hist>>
  BY DEF Complete, PCs
<1>2. TypeOK'
  BY <1>1 DEF TypeOK, steps, jobs, tick, script, env, hist
<1>3. /\ \A u \in Senders : histOwner' = u <=> pc'[u] \in Section
      /\ enrOwner' # None => pc'[enrOwner'] = "dispatched"
  BY <1>1 DEF OneInSection, TypeOK, Goto, ControlOK, Section, Written
<1>4. /\ pc[t] \notin Out \cup {"reset", "cancel_job", "skipped"} /\ IsJobOf(loaded'[t], at[t])
      /\ "dispatched" \notin Out \cup {"reset", "cancel_job", "load"}
      /\ "dispatched" \in Written <=> pc[t] \in Written
      /\ UNCHANGED <<steps, jobs, tick, script, at, clicked, loaded, dirty>>
  BY <1>1 DEF ReadNamesJob, Out, Written, hist
<1>5. dirty' \in [Senders -> SUBSET {"status", "job"}]
  BY <1>1 DEF ControlOK
<1> HIDE DEF Rows
<1> QED
  BY <1>1, <1>2, <1>3, <1>4, <1>5, MoveKeeps

\* mark_failed and mark_cancelled find the step pending and settle it, or find it settled.
LEMMA MarkKeeps ==
  ASSUME Rows, NEW t \in Senders, Mark(t)
  PROVE  Rows'
<1> USE Names DEF Rows, Locks, Progress, References
<1>1. /\ pc[t] \in {"mark_failed", "mark_cancelled"} /\ at[t] \in Steps
      /\ step[at[t]].status # "none" /\ Goto(t, "skipped")
      /\ UNCHANGED <<jobs, enr, enrOwner, histOwner, tick, at, loaded, dirty, script, env, hist>>
  BY DEF Mark, ControlOK, Out
<1>2. PICK x \in {"failed", "cancelled"} :
        WriteIfPending(t, at[t], [StepOf(t, at[t]) EXCEPT !.status = x])
  BY DEF Mark
<1>3. StepOf(t, at[t]) \in StepRow /\ IsJobOf(StepOf(t, at[t]).job, at[t])
  <2>1. StepOf(t, at[t]) \in StepRow
    BY <1>1, RowSeen
  <2>2. IsJobOf(StepOf(t, at[t]).job, at[t])
    BY <1>1 DEF StepOf, StepNamesJob, VersionNamesJob
  <2> QED BY <2>1, <2>2
<1>4. t = "worker" => StepOf(t, at[t]) = step[at[t]]
  BY <1>1 DEF StepOf, SenderOwns, Written
<1>5. CASE StepOf(t, at[t]).status = "pending"
  <2>1. PICK row \in StepRow : row = StepOf(t, at[t])
    BY <1>3
  <2> DEFINE w == [row EXCEPT !.status = x]
  <2>2. w \in StepRow /\ w.status = x /\ w.job = row.job
    BY DEF StepRow, Statuses
  <2>3. WriteStep(t, at[t], w)
    BY <1>2, <1>5, <2>1 DEF WriteIfPending
  <2> HIDE DEF w
  <2>4. PICK v \in StepRow : v.status = x /\ v.job = row.job /\ WriteStep(t, at[t], v)
    BY <2>2, <2>3
  <2>5. v.status \in Settled /\ v.status # "sent" /\ IsJobOf(v.job, at[t])
    BY <1>3, <2>1, <2>4 DEF Settled
  <2>6. pc[t] \in {"mark_failed", "mark_cancelled", "update"} /\ pc[t] # "update"
    BY <1>1
  <2>7. t = "worker" => step[at[t]].status = "pending"
    BY <1>4, <1>5
  <2> HIDE DEF Rows
  <2> QED
    BY <1>1, <2>4, <2>5, <2>6, <2>7, SettlesKeeps
<1>6. CASE StepOf(t, at[t]).status # "pending"
  <2>1. UNCHANGED <<step, stepNew, stepOwner>> /\ UNCHANGED steps
    BY <1>2, <1>6 DEF WriteIfPending, steps
  <2>2. t = "worker" /\ step[at[t]].status \in Settled
    BY <1>1, <1>3, <1>4, <1>6 DEF StepOf, SenderOwns, ClickVersions, StepRow, Statuses, Settled, Out,
                                 Written
  <2>3. TypeOK'
    BY <1>1, <2>1 DEF TypeOK, jobs, tick, script, env, hist
  <2>4. /\ \A u \in Senders : histOwner' = u <=> pc'[u] \in Section
        /\ enrOwner' # None => pc'[enrOwner'] = "dispatched"
    BY <1>1 DEF OneInSection, TypeOK, Goto, ControlOK, Section, Written
  <2>5. /\ pc[t] \notin Out \cup {"reset", "cancel_job", "skipped", "load"}
        /\ IsJobOf(loaded'[t], at[t])
        /\ "skipped" \notin Out \cup {"reset", "cancel_job", "load"} /\ "skipped" \in PCs
        /\ "skipped" \in Written <=> pc[t] \in Written
        /\ UNCHANGED <<steps, jobs, tick, script, at, clicked, loaded, dirty>>
    BY <1>1, <2>1 DEF ReadNamesJob, Out, Written, PCs, hist
  <2>6. dirty' \in [Senders -> SUBSET {"status", "job"}]
    BY <1>1 DEF ControlOK
  <2> HIDE DEF Rows
  <2> QED
    BY <1>1, <2>2, <2>3, <2>4, <2>5, <2>6, MoveKeeps
<1> QED BY <1>5, <1>6

\* update_step writes sent, or leaves a status that is settled.
LEMMA UpdateStepKeeps ==
  ASSUME Rows, NEW t \in Senders, UpdateStep(t)
  PROVE  Rows'
<1> USE Names DEF Rows, Locks, Progress, References
<1>1. /\ pc[t] = "update" /\ at[t] \in Steps /\ Goto(t, "count")
      /\ UNCHANGED <<jobs, enr, enrOwner, histOwner, tick, at, loaded, dirty, script, env, hist>>
  BY DEF UpdateStep, ControlOK, Out
<1>2. PICK old \in StepRow : old = StepOf(t, at[t])
  BY <1>1, RowSeen
<1>3. IsJobOf(old.job, at[t]) /\ IsJobOf(loaded[t], at[t])
  BY <1>1, <1>2 DEF StepOf, StepNamesJob, VersionNamesJob, ReadNamesJob, ControlOK, Out
<1>4. "status" \notin dirty[t] => old.status \in Settled
  BY <1>1, <1>2 DEF WorkerSettles
<1>5. t = "worker" => old = step[at[t]]
  BY <1>1, <1>2 DEF StepOf, SenderOwns, Written
<1> DEFINE w == [status |-> IF "status" \in dirty[t] THEN "sent" ELSE old.status,
                 job    |-> IF "job" \in dirty[t] THEN loaded[t] ELSE old.job]
<1>6. WriteStep(t, at[t], w)
  BY <1>2 DEF UpdateStep
<1>7. /\ w \in StepRow /\ w.status \in {"sent", old.status} /\ w.status \in Settled
      /\ w.job \in {loaded[t], old.job}
  BY <1>1, <1>4 DEF TypeOK, StepRow, Statuses, Settled
<1> HIDE DEF w
<1>8. PICK v \in StepRow : /\ v.status \in {"sent", old.status} /\ v.status \in Settled
                           /\ v.job \in {loaded[t], old.job} /\ WriteStep(t, at[t], v)
  BY <1>6, <1>7
<1>9. IsJobOf(v.job, at[t])
  BY <1>3, <1>8
<1>10. t = "worker" => v.status \in {"sent", step[at[t]].status}
  BY <1>5, <1>8
<1> HIDE DEF Rows
<1> QED
  BY <1>1, <1>8, <1>9, <1>10, SettlesKeeps

-----------------------------------------------------------------------------
(* The tick and the other actors *)

\* Pick takes pending jobs nobody owns.
LEMMA PickKeeps ==
  ASSUME Rows, Pick
  PROVE  Rows'
<1> USE Names DEF Rows, Locks, Progress, References, Changes, Covered
<1>1. /\ UNCHANGED <<step, stepNew, stepOwner, job, jobNew, target, enr, enrOwner, histOwner, current,
                     pc, at, loaded, dirty, phase, plan, due, flow, faults, sends, wasted, clicked>>
      /\ todo = None /\ todo' = Pickable
  BY DEF Pick, steps, disp, script, env, hist
<1>2. \A j \in Pickable : j \in due /\ j \in Jobs /\ job[j] = "pending" /\ jobOwner[j] = None
  BY DEF Pickable, TypeOK
<1>3. /\ jobOwner' \in [Jobs -> Clicks \cup Resyncs \cup {"tick", None}]
      /\ \A j \in Jobs : jobOwner'[j] = IF j \in Pickable THEN "tick" ELSE jobOwner[j]
  BY DEF Pick, TypeOK
<1>4. current = None
  BY <1>1 DEF TickChanges
<1> HIDE DEF Pickable
<1>5. TypeOK'
  BY <1>1, <1>2, <1>3, <1>4 DEF TypeOK
<1>6. ControlOK'
  BY <1>1 DEF ControlOK
<1>7. FreeRows'
  BY <1>1, <1>3 DEF FreeRows
<1>8. SenderOwns' /\ ResyncOwns' /\ OneInSection'
  BY <1>1 DEF SenderOwns, ResyncOwns, OneInSection
<1>9. ResyncVersions' /\ ClickVersions' /\ WorkerVersions' /\ WorkerSettles' /\ PlansAhead'
  BY <1>1 DEF ResyncVersions, ClickVersions, WorkerVersions, WorkerSettles, PlansAhead, StepOf
<1>10. StepNamesJob' /\ ReadNamesJob' /\ JobNamesStep'
  BY <1>1 DEF StepNamesJob, ReadNamesJob, JobNamesStep, IsJobOf
<1>11. VersionNamesJob'
  BY <1>1, <1>2, <1>3 DEF VersionNamesJob, IsJobOf
<1>12. ClickChanges' /\ ResyncChanges'
  BY <1>1, <1>3 DEF ClickChanges, ResyncChanges
<1>13. TickChanges'
  BY <1>1, <1>2, <1>3, <1>4 DEF TickChanges, FreeRows
<1>14. JobStands'
  BY <1>1, <1>2, <1>3 DEF JobStands, FreeRows, StepNamesJob, IsJobOf
<1>15. NewJobStands'
  BY <1>1, <1>2, <1>3 DEF NewJobStands, VersionNamesJob, IsJobOf
<1> QED
  BY <1>5, <1>6, <1>7, <1>8, <1>9, <1>10, <1>11, <1>12, <1>13, <1>14, <1>15

\* Handle turns the worker to the step of a job of the tick, which exists.
LEMMA HandleKeeps ==
  ASSUME Rows, Handle
  PROVE  Rows'
<1> USE Names DEF Rows, Locks, Progress, References, Changes, Covered
<1>1. PICK j \in todo : current' = j /\ at' = [at EXCEPT !["worker"] = target[j]]
  BY DEF Handle
<1>2. /\ todo # None /\ current = None /\ pc["worker"] = "idle"
      /\ UNCHANGED <<step, stepNew, stepOwner, job, jobNew, jobOwner, target, enr, enrOwner,
                     histOwner, todo, loaded, dirty, phase, plan, due, flow, faults, sends, wasted,
                     clicked>>
  BY DEF Handle, ControlOK, rows, steps, jobs, script, env, hist
<1>3. /\ j \in Jobs /\ j # None /\ target[j] \in Steps /\ step[target[j]].status # "none"
  BY <1>2 DEF TypeOK, TickChanges, JobNamesStep
<1>4. /\ pc' \in [Senders -> PCs]
      /\ \A u \in Senders : pc'[u] = IF u = "worker" THEN "load" ELSE pc[u]
  BY DEF Handle, Goto, ControlOK, PCs
<1>5. /\ at' \in [Senders -> Steps \cup {None}]
      /\ \A u \in Senders : at'[u] = IF u = "worker" THEN target[j] ELSE at[u]
  BY <1>1, <1>3 DEF TypeOK
<1>6. /\ FreeRows' /\ ResyncOwns' /\ ResyncVersions' /\ PlansAhead'
      /\ StepNamesJob' /\ VersionNamesJob' /\ JobNamesStep'
      /\ ResyncChanges' /\ JobStands' /\ NewJobStands'
  BY <1>2, RowsStay
<1>7. TypeOK'
  BY <1>1, <1>2, <1>5 DEF TypeOK
<1>8. ControlOK'
  BY <1>1, <1>2, <1>3, <1>4, <1>5 DEF ControlOK, Out
<1>9. SenderOwns'
  BY <1>2, <1>4, <1>5 DEF SenderOwns, Out, Written
<1>10. OneInSection'
  BY <1>2, <1>4 DEF OneInSection, TypeOK, Section, Written
<1>11. ClickVersions'
  BY <1>2, <1>4, <1>5 DEF ClickVersions
<1>12. WorkerVersions'
  BY <1>2 DEF WorkerVersions, SenderOwns, Written
<1>13. WorkerSettles'
  BY <1>2, <1>4, <1>5 DEF WorkerSettles, StepOf
<1>14. ReadNamesJob'
  BY <1>2, <1>4, <1>5 DEF ReadNamesJob, IsJobOf
<1>15. ClickChanges'
  BY <1>2, <1>4, <1>5 DEF ClickChanges
<1>16. TickChanges'
  BY <1>1, <1>2, <1>4 DEF TickChanges
<1> QED
  BY <1>6, <1>7, <1>8, <1>9, <1>10, <1>11, <1>12, <1>13, <1>14, <1>15, <1>16

\* MarkExecuted follows a handler that has left its step settled.
LEMMA MarkExecutedKeeps ==
  ASSUME Rows, MarkExecuted
  PROVE  Rows'
<1> USE Names DEF Rows, Locks, Progress, References, Changes, Covered
<1>1. /\ current # None /\ pc["worker"] = "idle" /\ todo' = todo \ {current} /\ current' = None
      /\ UNCHANGED <<step, stepNew, stepOwner, job, jobOwner, target, enr, enrOwner, histOwner,
                     pc, at, loaded, dirty, phase, plan, due, flow, faults, sends, wasted, clicked>>
  BY DEF MarkExecuted, steps, disp, script, env, hist
<1>2. /\ todo # None /\ current \in todo /\ todo \subseteq due /\ current \in Jobs
      /\ jobOwner[current] = "tick" /\ job[current] = "pending"
      /\ step[target[current]].status \in Settled /\ target[current] \in Steps
  BY <1>1 DEF TypeOK, TickChanges, JobNamesStep
<1>3. /\ jobNew' \in [Jobs -> {"none", "pending", "executed", "cancelled"}]
      /\ \A j \in Jobs : jobNew'[j] = IF j = current THEN "executed" ELSE jobNew[j]
  BY DEF MarkExecuted, TypeOK
<1>4. TypeOK'
  BY <1>1, <1>2, <1>3 DEF TypeOK
<1>5. ControlOK'
  BY <1>1 DEF ControlOK
<1>6. FreeRows'
  BY <1>1, <1>2, <1>3 DEF FreeRows
<1>7. SenderOwns' /\ ResyncOwns' /\ OneInSection'
  BY <1>1 DEF SenderOwns, ResyncOwns, OneInSection
<1>8. ResyncVersions' /\ ClickVersions' /\ WorkerVersions' /\ WorkerSettles' /\ PlansAhead'
  BY <1>1 DEF ResyncVersions, ClickVersions, WorkerVersions, WorkerSettles, PlansAhead, StepOf
<1>9. StepNamesJob' /\ VersionNamesJob' /\ ReadNamesJob' /\ JobNamesStep'
  BY <1>1 DEF StepNamesJob, VersionNamesJob, ReadNamesJob, JobNamesStep, IsJobOf
<1>10. ClickChanges' /\ ResyncChanges'
  BY <1>1, <1>2, <1>3 DEF ClickChanges, ResyncChanges
<1>11. TickChanges'
  BY <1>1, <1>2, <1>3 DEF TickChanges, TypeOK
<1>12. JobStands'
  BY <1>1, <1>2, <1>3 DEF JobStands, StepNamesJob, IsJobOf, Settled
<1>13. NewJobStands'
  BY <1>1, <1>2, <1>3 DEF NewJobStands, VersionNamesJob, IsJobOf
<1> QED
  BY <1>4, <1>5, <1>6, <1>7, <1>8, <1>9, <1>10, <1>11, <1>12, <1>13

\* Click reads a step and the job it names.
LEMMA ClickKeeps ==
  ASSUME Rows, NEW c \in Clicks, NEW s \in Steps, Click(c, s)
  PROVE  Rows'
<1> USE Names DEF Rows, Locks, Progress, References, Changes, Covered
<1>1. /\ pc[c] = "ready" /\ step[s].status # "none"
      /\ UNCHANGED <<step, stepNew, stepOwner, job, jobNew, jobOwner, target, enr, enrOwner,
                     histOwner, todo, current, dirty, phase, plan, due, flow, faults, sends, wasted,
                     clicked>>
  BY DEF Click, rows, steps, jobs, tick, script, env, hist
<1>2. /\ pc' \in [Senders -> PCs]
      /\ \A u \in Senders : pc'[u] = IF u = c THEN "reset" ELSE pc[u]
  BY DEF Click, Goto, ControlOK, PCs
<1>3. /\ at' \in [Senders -> Steps \cup {None}] /\ loaded' \in [Senders -> Jobs \cup {None}]
      /\ \A u \in Senders : at'[u] = IF u = c THEN s ELSE at[u]
      /\ \A u \in Senders : loaded'[u] = IF u = c THEN step[s].job ELSE loaded[u]
  BY DEF Click, TypeOK
<1>4. /\ FreeRows' /\ ResyncOwns' /\ ResyncVersions' /\ PlansAhead'
      /\ StepNamesJob' /\ VersionNamesJob' /\ JobNamesStep'
      /\ ResyncChanges' /\ JobStands' /\ NewJobStands'
  BY <1>1, RowsStay
<1>5. TypeOK'
  BY <1>1, <1>3 DEF TypeOK
<1>6. ControlOK'
  BY <1>1, <1>2, <1>3 DEF ControlOK, Out
<1>7. SenderOwns'
  BY <1>1, <1>2, <1>3 DEF SenderOwns, Out, Written
<1>8. OneInSection'
  BY <1>1, <1>2 DEF OneInSection, TypeOK, Section, Written
<1>9. ClickVersions'
  BY <1>1, <1>2, <1>3 DEF ClickVersions
<1>10. WorkerVersions'
  BY <1>1, <1>2 DEF WorkerVersions
<1>11. WorkerSettles'
  BY <1>1, <1>2, <1>3 DEF WorkerSettles, StepOf
<1>12. ReadNamesJob'
  BY <1>1, <1>2, <1>3 DEF ReadNamesJob, StepNamesJob, IsJobOf
<1>13. ClickChanges'
  BY <1>1, <1>2, <1>3 DEF ClickChanges, Out
<1>14. TickChanges'
  BY <1>1, <1>2 DEF TickChanges
<1> QED
  BY <1>4, <1>5, <1>6, <1>7, <1>8, <1>9, <1>10, <1>11, <1>12, <1>13, <1>14

\* The clock, the administrator and a stuttering step touch nothing the invariant reads.
LEMMA OutsideKeeps ==
  ASSUME Rows, TypeOK', UNCHANGED <<rows, tick, disp, script, clicked>>
  PROVE  Rows'
BY DEF rows, steps, jobs, tick, disp, script, Rows, ControlOK, Locks, FreeRows, SenderOwns,
       ResyncOwns, OneInSection, Progress, ResyncVersions, ClickVersions, WorkerVersions,
       WorkerSettles, PlansAhead, References, StepNamesJob, VersionNamesJob, ReadNamesJob,
       JobNamesStep, Changes, ClickChanges, ResyncChanges, TickChanges, Covered, JobStands,
       NewJobStands, IsJobOf, StepOf

\* Time passes.
LEMMA BecomesDueKeeps ==
  ASSUME Rows, NEW j \in Jobs, BecomesDue(j)
  PROVE  Rows'
<1>1. TypeOK' /\ UNCHANGED <<rows, tick, disp, script, clicked>>
  BY DEF Rows, TypeOK, BecomesDue, rows, steps, jobs, tick, disp, script, hist
<1> QED BY <1>1, OutsideKeeps

\* The administrator edits the flow.
LEMMA EditFlowKeeps ==
  ASSUME Rows, EditFlow
  PROVE  Rows'
<1>1. TypeOK' /\ UNCHANGED <<rows, tick, disp, script, clicked>>
  BY DEF Rows, TypeOK, EditFlow, rows, steps, jobs, tick, disp, script, hist
<1> QED BY <1>1, OutsideKeeps

-----------------------------------------------------------------------------
(* Exceptions and crashes *)

\* What the end of a transaction leaves of the rows' types.
LEMMA RolledBackTyped ==
  ASSUME TypeOK, NEW T, NEW C, EndTx(T, C), wasted' \in [Steps -> Nat],
         at' \in [Senders -> Steps \cup {None}], loaded' \in [Senders -> Jobs \cup {None}],
         phase' \in [Resyncs -> {"read", "write", "over"}],
         plan' \in [Resyncs -> [Synced -> Work]], faults' \in 0..MaxFaults,
         (todo' = None /\ current' = None) \/ (todo' = todo /\ current' = current),
         due' = due, flow' = flow, sends' = sends, clicked' = clicked
  PROVE  TypeOK'
<1>1. /\ step' \in [Steps -> StepRow] /\ stepNew' \in [Steps -> StepRow]
      /\ stepOwner' \in [Steps -> Senders \cup Resyncs \cup {None}]
      /\ job' \in [Jobs -> {"none", "pending", "executed", "cancelled"}]
      /\ jobNew' \in [Jobs -> {"none", "pending", "executed", "cancelled"}]
      /\ jobOwner' \in [Jobs -> Clicks \cup Resyncs \cup {"tick", None}]
      /\ target' \in [Jobs -> Steps \cup {None}]
      /\ enr' \in {"active", "completed"}
      /\ enrOwner' \in Senders \cup {None} /\ histOwner' \in Senders \cup {None}
  BY EndTyped
<1>2. /\ todo' = None \/ todo' \subseteq due'
      /\ current' = None \/ current' \in todo'
  BY DEF TypeOK
<1>3. due' \subseteq Jobs /\ flow' \in {"active", "inactive", "deleted"}
  BY DEF TypeOK
<1>4. sends' \in [Steps -> Nat] /\ clicked' \in [Steps -> Nat]
  BY DEF TypeOK
<1> QED BY <1>1, <1>2, <1>3, <1>4 DEF TypeOK, StepRow

\* A dispatch-now request that fails.
LEMMA ClickRaisesKeeps ==
  ASSUME Rows, NEW c \in Clicks, ClickRaises(c), faults' \in 0..MaxFaults
  PROVE  Rows'
<1> USE Names
<1>1. /\ EndTx({c}, {}) /\ Waste({c}) /\ Leave({c}) /\ UNCHANGED tick
      /\ todo' = todo /\ current' = current /\ phase' = phase /\ plan' = plan
      /\ due' = due /\ flow' = flow /\ sends' = sends /\ clicked' = clicked
  BY DEF ClickRaises, tick, script
<1>2. /\ Senders \cap {c} = {c} /\ None \notin {c}
      /\ "worker" \notin {c} /\ "tick" \notin {c} /\ \A r \in Resyncs : r \notin {c}
  OBVIOUS
<1>3. TypeOK /\ ControlOK
  BY DEF Rows
<1>4. /\ pc' \in [Senders -> PCs] /\ dirty' \in [Senders -> SUBSET {"status", "job"}]
      /\ at' \in [Senders -> Steps \cup {None}] /\ loaded' \in [Senders -> Jobs \cup {None}]
      /\ \A u \in Senders : u \in {c} => pc'[u] = IF u = "worker" THEN "idle" ELSE "done"
      /\ \A u \in Senders : u \notin {c} => pc'[u] = pc[u]
      /\ \A u \in Senders : u \notin {c} => at'[u] = at[u]
      /\ \A u \in Senders : u \notin {c} => loaded'[u] = loaded[u]
      /\ \A u \in Senders : u \notin {c} => dirty'[u] = dirty[u]
  BY <1>1, <1>3, Left
<1>5. wasted' \in [Steps -> Nat]
  BY <1>1, <1>2, <1>3, WasteOfOne
<1>6. phase' \in [Resyncs -> {"read", "write", "over"}] /\ plan' \in [Resyncs -> [Synced -> Work]]
  BY <1>1, <1>3 DEF TypeOK
<1>7. TypeOK'
  BY <1>1, <1>3, <1>4, <1>5, <1>6, RolledBackTyped
<1>8. UNCHANGED <<due, flow, sends, clicked>>
  BY <1>1
<1> QED
  BY <1>1, <1>2, <1>4, <1>7, <1>8, RollbackKeeps

\* A handler that raises, and the tick with it.
LEMMA WorkerRaisesKeeps ==
  ASSUME Rows, WorkerRaises, faults' \in 0..MaxFaults
  PROVE  Rows'
<1> USE Names
<1> DEFINE T == {"worker", "tick"}
<1>1. /\ EndTx(T, {}) /\ Waste({"worker"}) /\ Leave({"worker"})
      /\ todo' = None /\ current' = None /\ phase' = phase /\ plan' = plan
      /\ due' = due /\ flow' = flow /\ sends' = sends /\ clicked' = clicked
  BY DEF WorkerRaises, script
<1>2. /\ Senders \cap {"worker"} = {"worker"} /\ None \notin T
      /\ "worker" \in T /\ "tick" \in T /\ \A r \in Resyncs : r \notin T
      /\ \A u \in Senders : u \in T <=> u \in {"worker"}
  OBVIOUS
<1> HIDE DEF T
<1>3. TypeOK /\ ControlOK
  BY DEF Rows
<1>4. /\ pc' \in [Senders -> PCs] /\ dirty' \in [Senders -> SUBSET {"status", "job"}]
      /\ at' \in [Senders -> Steps \cup {None}] /\ loaded' \in [Senders -> Jobs \cup {None}]
      /\ \A u \in Senders : u \in {"worker"} => pc'[u] = IF u = "worker" THEN "idle" ELSE "done"
      /\ \A u \in Senders : u \notin {"worker"} => pc'[u] = pc[u]
      /\ \A u \in Senders : u \notin {"worker"} => at'[u] = at[u]
      /\ \A u \in Senders : u \notin {"worker"} => loaded'[u] = loaded[u]
      /\ \A u \in Senders : u \notin {"worker"} => dirty'[u] = dirty[u]
  BY <1>1, <1>3, Left
<1>5. wasted' \in [Steps -> Nat]
  BY <1>1, <1>2, <1>3, WasteOfOne
<1>6. phase' \in [Resyncs -> {"read", "write", "over"}] /\ plan' \in [Resyncs -> [Synced -> Work]]
  BY <1>1, <1>3 DEF TypeOK
<1>7. TypeOK'
  <2>1. /\ EndTx(T, {}) /\ due' = due /\ flow' = flow /\ sends' = sends /\ clicked' = clicked
        /\ (todo' = None /\ current' = None) \/ (todo' = todo /\ current' = current)
    BY <1>1
  <2> QED BY <1>3, <1>4, <1>5, <1>6, <2>1, RolledBackTyped
<1>8. UNCHANGED <<due, flow, sends, clicked>>
  BY <1>1
<1> QED
  BY <1>1, <1>2, <1>4, <1>7, <1>8, RollbackKeeps

\* A resync that fails: its savepoint rolls back.
LEMMA ResyncRaisesKeeps ==
  ASSUME Rows, NEW r \in Resyncs, ResyncRaises(r), faults' \in 0..MaxFaults
  PROVE  Rows'
<1> USE Names
<1>1. /\ EndTx({r}, {}) /\ UNCHANGED tick
      /\ phase' = [phase EXCEPT ![r] = "over"] /\ plan' = [plan EXCEPT ![r] = Nothing]
      /\ todo' = todo /\ current' = current
      /\ pc' = pc /\ at' = at /\ loaded' = loaded /\ dirty' = dirty
      /\ due' = due /\ flow' = flow /\ sends' = sends /\ wasted' = wasted /\ clicked' = clicked
  BY DEF ResyncRaises, tick, disp, hist
<1>2. /\ None \notin {r} /\ \A u \in Senders : u \notin {r}
      /\ "worker" \notin {r} /\ "tick" \notin {r}
  OBVIOUS
<1>3. TypeOK /\ ControlOK
  BY DEF Rows
<1>4. Nothing \in [Synced -> Work]
  BY DEF Nothing, Done, Work
<1>5. phase \in [Resyncs -> {"read", "write", "over"}] /\ plan \in [Resyncs -> [Synced -> Work]]
  BY <1>3 DEF TypeOK
<1>6. /\ phase' \in [Resyncs -> {"read", "write", "over"}] /\ plan' \in [Resyncs -> [Synced -> Work]]
      /\ phase'[r] # "write" /\ plan'[r] = Nothing
      /\ \A q \in Resyncs : q \notin {r} => phase'[q] = phase[q] /\ plan'[q] = plan[q]
  BY ONLY <1>1, <1>4, <1>5, r \in Resyncs
<1>7. /\ wasted' \in [Steps -> Nat] /\ at' \in [Senders -> Steps \cup {None}]
      /\ loaded' \in [Senders -> Jobs \cup {None}]
  BY <1>1, <1>3 DEF TypeOK
<1>8. TypeOK'
  BY <1>1, <1>3, <1>6, <1>7, RolledBackTyped
<1>9. /\ UNCHANGED <<due, flow, sends, clicked>>
      /\ pc' \in [Senders -> PCs] /\ dirty' \in [Senders -> SUBSET {"status", "job"}]
  BY <1>1, <1>3 DEF ControlOK
<1> QED
  BY <1>1, <1>2, <1>6, <1>8, <1>9, RollbackKeeps

\* The worker process dies.
LEMMA WorkerCrashKeeps ==
  ASSUME Rows, WorkerCrash
  PROVE  Rows'
<1> USE Names
<1> DEFINE T == {"worker", "tick"} \cup Resyncs
<1>1. /\ EndTx(T, {}) /\ Waste(T) /\ Leave({"worker"})
      /\ todo' = None /\ current' = None
      /\ phase' = [r \in Resyncs |-> IF phase[r] = "read" THEN "read" ELSE "over"]
      /\ plan' = [r \in Resyncs |-> Nothing]
      /\ due' = due /\ flow' = flow /\ sends' = sends /\ clicked' = clicked
      /\ faults < MaxFaults /\ faults' = faults + 1
  BY DEF WorkerCrash
<1>2. /\ Senders \cap T = {"worker"} /\ None \notin T
      /\ "worker" \in T /\ "tick" \in T /\ \A r \in Resyncs : r \in T
      /\ \A u \in Senders : u \in T <=> u \in {"worker"}
  OBVIOUS
<1> HIDE DEF T
<1>3. TypeOK /\ ControlOK
  BY DEF Rows
<1>4. /\ pc' \in [Senders -> PCs] /\ dirty' \in [Senders -> SUBSET {"status", "job"}]
      /\ at' \in [Senders -> Steps \cup {None}] /\ loaded' \in [Senders -> Jobs \cup {None}]
      /\ \A u \in Senders : u \in {"worker"} => pc'[u] = IF u = "worker" THEN "idle" ELSE "done"
      /\ \A u \in Senders : u \notin {"worker"} => pc'[u] = pc[u]
      /\ \A u \in Senders : u \notin {"worker"} => at'[u] = at[u]
      /\ \A u \in Senders : u \notin {"worker"} => loaded'[u] = loaded[u]
      /\ \A u \in Senders : u \notin {"worker"} => dirty'[u] = dirty[u]
  BY <1>1, <1>3, Left
<1>5. wasted' \in [Steps -> Nat]
  BY <1>1, <1>2, <1>3, WasteOfOne
<1>6. Nothing \in [Synced -> Work]
  BY DEF Nothing, Done, Work
<1>7. /\ phase' \in [Resyncs -> {"read", "write", "over"}] /\ plan' \in [Resyncs -> [Synced -> Work]]
      /\ \A r \in Resyncs : phase'[r] # "write" /\ plan'[r] = Nothing
  BY ONLY <1>1, <1>6
<1>8. faults' \in 0..MaxFaults
  BY <1>1, <1>3, BoundAssumption DEF TypeOK
<1>9. TypeOK'
  <2>1. /\ EndTx(T, {}) /\ due' = due /\ flow' = flow /\ sends' = sends /\ clicked' = clicked
        /\ (todo' = None /\ current' = None) \/ (todo' = todo /\ current' = current)
    BY <1>1
  <2> QED BY <1>3, <1>4, <1>5, <1>7, <1>8, <2>1, RolledBackTyped
<1>10. UNCHANGED <<due, flow, sends, clicked>>
  BY <1>1
<1> QED
  BY <1>1, <1>2, <1>4, <1>7, <1>9, <1>10, RollbackKeeps

-----------------------------------------------------------------------------
(* Every step keeps the rows in order *)

\* What may raise, raises and leaves the rows in order.
LEMMA RaisesKeep ==
  ASSUME Rows, NEW t \in Txs, Fault(t) \/ DetectDeadlock(t)
  PROVE  Rows'
<1>1. Raises(t)
  BY DEF Fault, DetectDeadlock
<1>2. faults' \in 0..MaxFaults
  <2>1. faults \in 0..MaxFaults
    BY DEF Rows, TypeOK
  <2>2. faults' = faults \/ (faults < MaxFaults /\ faults' = faults + 1)
    BY DEF Fault, DetectDeadlock
  <2> QED BY ONLY <2>1, <2>2, BoundAssumption
<1> QED BY <1>1, <1>2, WorkerRaisesKeeps, ClickRaisesKeeps, ResyncRaisesKeeps DEF Raises

\* Every step of the system leaves the rows in order.
LEMMA RowsStep ==
  ASSUME Rows, [Next]_vars
  PROVE  Rows'
<1>1. CASE Ticking
  BY <1>1, PickKeeps, HandleKeeps, MarkExecutedKeeps, CommitTickKeeps DEF Ticking
<1>2. ASSUME NEW t \in Senders, Dispatching(t) \/ SendFails(t) PROVE Rows'
  BY <1>2, LoadKeeps, CheckFlowKeeps, SendKeeps, SendFailsKeeps, MarkKeeps, SaveHistoryKeeps,
     GetStepKeeps, UpdateStepKeeps, CountKeeps, CompleteKeeps, CommitKeeps DEF Dispatching
<1>3. ASSUME NEW c \in Clicks, Clicking(c) \/ \E s \in Steps : Click(c, s) PROVE Rows'
  BY <1>3, ResetKeeps, ClickCancelsJobKeeps, ClickKeeps DEF Clicking
<1>4. ASSUME NEW r \in Resyncs, Resyncing(r) PROVE Rows'
  BY <1>4, ResyncReadsKeeps, ResyncCancelsJobKeeps, RescheduleKeeps, ResyncWritesStepKeeps,
     ResyncCommitsKeeps DEF Resyncing
<1>5. CASE WorkerCrash
  BY <1>5, WorkerCrashKeeps
<1>6. ASSUME NEW j \in Jobs, BecomesDue(j) PROVE Rows'
  BY <1>6, BecomesDueKeeps
<1>7. CASE EditFlow
  BY <1>7, EditFlowKeeps
<1>8. CASE UNCHANGED vars
  <2>1. TypeOK'
    BY <1>8 DEF Rows, TypeOK, vars, rows, steps, jobs, tick, disp, script, env, hist
  <2>2. UNCHANGED <<rows, tick, disp, script, clicked>>
    BY <1>8 DEF vars, hist
  <2> QED BY <2>1, <2>2, OutsideKeeps
<1> QED
  BY <1>1, <1>2, <1>3, <1>4, <1>5, <1>6, <1>7, <1>8, RaisesKeep DEF Next

\* At first no transaction is open and every step scheduled has its job.
LEMMA InitRows ==
  ASSUME Init
  PROVE  Rows
<1> USE Names
<1> DEFINE First == Steps \ Later
<1>1. /\ step = [s \in Steps |-> IF s \in Later THEN [status |-> "none", job |-> None]
                                 ELSE [status |-> "pending", job |-> s]]
      /\ stepNew = step /\ stepOwner = [s \in Steps |-> None]
      /\ target = [j \in Jobs |-> IF j \in First THEN j ELSE None]
      /\ job = [j \in Jobs |-> IF target[j] = None THEN "none" ELSE "pending"]
      /\ jobNew = job /\ jobOwner = [j \in Jobs |-> None]
      /\ enr = "active" /\ enrOwner = None /\ histOwner = None
      /\ todo = None /\ current = None
      /\ pc = [t \in Senders |-> IF t \in Clicks THEN "ready" ELSE "idle"]
      /\ at = [t \in Senders |-> None] /\ loaded = at
      /\ dirty = [t \in Senders |-> {}]
      /\ phase = [r \in Resyncs |-> "read"] /\ plan = [r \in Resyncs |-> Nothing]
      /\ due = {} /\ flow = "active" /\ faults = 0
      /\ sends = [s \in Steps |-> 0] /\ wasted = sends /\ clicked = sends
  BY DEF Init
<1>2. First \subseteq Jobs /\ First \subseteq Steps
  BY RowsAssumption
<1>3. step \in [Steps -> StepRow]
  BY <1>1, <1>2 DEF StepRow, Statuses
<1>4. /\ \A s \in First : step[s].status = "pending" /\ step[s].job = s
      /\ \A s \in Later : step[s].status = "none"
      /\ \A s \in Steps : s \in First \/ s \in Later
  BY <1>1, <1>2
<1>5. /\ target \in [Jobs -> Steps \cup {None}]
      /\ \A j \in Jobs : target[j] = IF j \in First THEN j ELSE None
  BY <1>1, <1>2
<1> HIDE DEF First
<1>6. /\ job \in [Jobs -> {"none", "pending", "executed", "cancelled"}]
      /\ \A j \in Jobs : job[j] = IF j \in First THEN "pending" ELSE "none"
  <2>1. \A j \in First : j # None
    BY <1>2
  <2> QED BY <1>1, <1>5, <2>1
<1>7. Nothing \in [Synced -> Work] /\ \A s \in Synced : Nothing[s].do = "none"
  BY DEF Nothing, Done, Work
<1> HIDE DEF Nothing
<1>8. 0 \in 0..MaxFaults
  BY BoundAssumption
<1>9. TypeOK
  <2>1. sends \in [Steps -> Nat] /\ plan \in [Resyncs -> [Synced -> Work]]
    BY <1>1, <1>7
  <2> QED BY <1>1, <1>3, <1>5, <1>6, <1>8, <2>1 DEF TypeOK, StepRow
<1>10. ControlOK
  BY <1>1 DEF ControlOK, PCs, Out
<1>11. FreeRows /\ SenderOwns /\ ResyncOwns
  BY <1>1, <1>7 DEF FreeRows, SenderOwns, ResyncOwns, Out, Written
<1>12. OneInSection
  BY <1>1 DEF OneInSection, Section, Written
<1>13. ResyncVersions /\ ClickVersions /\ WorkerVersions /\ WorkerSettles /\ PlansAhead
  BY <1>1, <1>7 DEF ResyncVersions, ClickVersions, WorkerVersions, WorkerSettles, PlansAhead, Out
<1>14. StepNamesJob /\ JobNamesStep
  <2>1. \A s \in First : s \in Jobs /\ s \in Steps
    BY <1>2
  <2> QED BY <1>4, <1>5, <1>6, <2>1 DEF StepNamesJob, JobNamesStep, IsJobOf
<1>15. VersionNamesJob /\ ReadNamesJob
  BY <1>1, <1>7 DEF VersionNamesJob, ReadNamesJob, Out
<1>16. ClickChanges /\ ResyncChanges /\ TickChanges
  BY <1>1 DEF ClickChanges, ResyncChanges, TickChanges
<1>17. JobStands
  <2>1. \A s \in First : s \in Jobs /\ s \in Steps
    BY <1>2
  <2>2. \A j \in Jobs : jobOwner[j] = None
    BY <1>1
  <2> QED BY <1>4, <1>6, <2>1, <2>2 DEF JobStands
<1>18. NewJobStands
  BY <1>1 DEF NewJobStands
<1> QED
  BY <1>9, <1>10, <1>11, <1>12, <1>13, <1>14, <1>15, <1>16, <1>17, <1>18
  DEF Rows, Locks, Progress, References, Changes, Covered

-----------------------------------------------------------------------------
(* The sends of a step are paid for and recorded *)

\* A set that gains or loses one element.
LEMMA MemberMoves ==
  ASSUME NEW S, NEW S2, NEW x, IsFiniteSet(S), \A y : y # x => (y \in S <=> y \in S2)
  PROVE  /\ IsFiniteSet(S2) /\ Cardinality(S) \in Nat /\ Cardinality(S2) \in Nat
         /\ Cardinality(S2) + (IF x \in S THEN 1 ELSE 0)
              = Cardinality(S) + (IF x \in S2 THEN 1 ELSE 0)
<1> DEFINE R == S \ {x}
<1>1. IsFiniteSet(R) /\ Cardinality(R) = IF x \in S THEN Cardinality(S) - 1 ELSE Cardinality(S)
  BY FS_RemoveElement
<1>2. S2 = IF x \in S2 THEN R \cup {x} ELSE R
  OBVIOUS
<1>3. x \notin R
  OBVIOUS
<1> HIDE DEF R
<1>4. /\ IsFiniteSet(R \cup {x}) /\ Cardinality(R \cup {x}) = Cardinality(R) + 1
  BY <1>1, <1>3, FS_AddElement
<1>5. IsFiniteSet(S2) /\ Cardinality(S2) = IF x \in S2 THEN Cardinality(R) + 1 ELSE Cardinality(R)
  BY <1>1, <1>2, <1>4
<1>6. Cardinality(S) \in Nat /\ Cardinality(R) \in Nat
  BY <1>1, FS_CardinalityType
<1> QED BY <1>1, <1>5, <1>6

\* What one sender counts for.
Arms(t, s) == IF t \in Armed(s) THEN 1 ELSE 0
Flies(t, s) == IF t \in InFlight(s) THEN 1 ELSE 0
IsSent(s) == IF step[s].status = "sent" THEN 1 ELSE 0
Open == {"none", "pending"}

\* What t adds to the sends of step s done or about to be done, and to those of a step
\* that stays open, is paid for; what it adds to the recorded and wasted ones was sent.
SendsPaid(t, s) ==
  sends'[s] + Arms(t, s)' + WorkerAt(s, {"check", "send"})' + wasted[s] + clicked[s]
    <= sends[s] + Arms(t, s) + WorkerAt(s, {"check", "send"}) + wasted'[s] + clicked'[s]
FirstPaid(t, s) == step'[s].status \in Open =>
  /\ step[s].status \in Open
  /\ sends'[s] + Arms(t, s)' + wasted[s] + clicked[s] + WorkerAt(s, AfterSend)
       <= sends[s] + Arms(t, s) + wasted'[s] + clicked'[s] + WorkerAt(s, AfterSend)'
WasSent(t, s) ==
  wasted'[s] + Flies(t, s)' + IsSent(s)' + sends[s] <= wasted[s] + Flies(t, s) + IsSent(s) + sends'[s]

\* When one sender moves, the counts of a step change by what it counted for.
LEMMA OneSenderCounts ==
  ASSUME Paid, Sound, NEW t \in Senders,
         \A u \in Senders : u # t => pc'[u] = pc[u] /\ at'[u] = at[u]
  PROVE  \A s \in Steps :
           /\ IsFiniteSet(Armed(s)') /\ IsFiniteSet(InFlight(s)')
           /\ Cardinality(Armed(s)) \in Nat /\ Cardinality(Armed(s)') \in Nat
           /\ Cardinality(InFlight(s)) \in Nat /\ Cardinality(InFlight(s)') \in Nat
           /\ Cardinality(Armed(s)') + Arms(t, s) = Cardinality(Armed(s)) + Arms(t, s)'
           /\ Cardinality(InFlight(s)') + Flies(t, s) = Cardinality(InFlight(s)) + Flies(t, s)'
<1> TAKE s \in Steps
<1>1. \A y : y # t => (y \in Armed(s) <=> y \in Armed(s)')
  BY Names DEF Armed
<1>2. \A y : y # t => (y \in InFlight(s) <=> y \in InFlight(s)')
  BY DEF InFlight, HasSent
<1>3. IsFiniteSet(Armed(s)) /\ IsFiniteSet(InFlight(s))
  BY DEF Paid, Sound
<1>4. /\ IsFiniteSet(Armed(s)') /\ Cardinality(Armed(s)) \in Nat /\ Cardinality(Armed(s)') \in Nat
      /\ Cardinality(Armed(s)') + Arms(t, s) = Cardinality(Armed(s)) + Arms(t, s)'
  BY <1>1, <1>3, MemberMoves DEF Arms
<1>5. /\ IsFiniteSet(InFlight(s)')
      /\ Cardinality(InFlight(s)) \in Nat /\ Cardinality(InFlight(s)') \in Nat
      /\ Cardinality(InFlight(s)') + Flies(t, s) = Cardinality(InFlight(s)) + Flies(t, s)'
  BY <1>2, <1>3, MemberMoves DEF Flies
<1> QED BY <1>4, <1>5

\* The books balance when what the moving sender adds is covered.
LEMMA Balances ==
  ASSUME TypeOK, TypeOK', Paid, Sound, NEW t \in Senders,
         \A u \in Senders : u # t => pc'[u] = pc[u] /\ at'[u] = at[u],
         \A s \in Steps :
           \/ SendsPaid(t, s)
           \/ /\ step[s].status = "pending" /\ WorkerAt(s, AfterSend) = 0
              /\ sends'[s] + Arms(t, s)' + wasted[s] + clicked[s]
                   <= sends[s] + Arms(t, s) + wasted'[s] + clicked'[s],
         \A s \in Steps : FirstPaid(t, s) /\ WasSent(t, s)
  PROVE  Paid' /\ Sound'
<1>1. \A s \in Steps :
        /\ IsFiniteSet(Armed(s)') /\ IsFiniteSet(InFlight(s)')
        /\ Cardinality(Armed(s)) \in Nat /\ Cardinality(Armed(s)') \in Nat
        /\ Cardinality(InFlight(s)) \in Nat /\ Cardinality(InFlight(s)') \in Nat
        /\ Cardinality(Armed(s)') + Arms(t, s) = Cardinality(Armed(s)) + Arms(t, s)'
        /\ Cardinality(InFlight(s)') + Flies(t, s) = Cardinality(InFlight(s)) + Flies(t, s)'
  BY OneSenderCounts
<1>2. \A s \in Steps :
        /\ sends[s] \in Nat /\ wasted[s] \in Nat /\ clicked[s] \in Nat
        /\ sends'[s] \in Nat /\ wasted'[s] \in Nat /\ clicked'[s] \in Nat
  BY DEF TypeOK
<1>3. \A s \in Steps :
        /\ Arms(t, s) \in {0, 1} /\ Arms(t, s)' \in {0, 1}
        /\ Flies(t, s) \in {0, 1} /\ Flies(t, s)' \in {0, 1}
        /\ IsSent(s) \in {0, 1} /\ IsSent(s)' \in {0, 1}
        /\ WorkerAt(s, {"check", "send"}) \in {0, 1} /\ WorkerAt(s, {"check", "send"})' \in {0, 1}
        /\ WorkerAt(s, AfterSend) \in {0, 1} /\ WorkerAt(s, AfterSend)' \in {0, 1}
  BY DEF Arms, Flies, IsSent, WorkerAt
<1>4. ASSUME NEW s \in Steps
      PROVE  sends'[s] + Cardinality(Armed(s)') + WorkerAt(s, {"check", "send"})'
               <= 1 + wasted'[s] + clicked'[s]
  <2>1. sends[s] + Cardinality(Armed(s)) + WorkerAt(s, {"check", "send"})
          <= 1 + wasted[s] + clicked[s]
    BY DEF Paid
  <2>2. step[s].status = "pending" =>
          sends[s] + Cardinality(Armed(s)) <= wasted[s] + clicked[s] + WorkerAt(s, AfterSend)
    BY DEF Paid
  <2> QED BY <1>1, <1>2, <1>3, <2>1, <2>2 DEF SendsPaid
<1>5. ASSUME NEW s \in Steps, step'[s].status \in {"none", "pending"}
      PROVE  sends'[s] + Cardinality(Armed(s)')
               <= wasted'[s] + clicked'[s] + WorkerAt(s, AfterSend)'
  <2>1. sends[s] + Cardinality(Armed(s)) <= wasted[s] + clicked[s] + WorkerAt(s, AfterSend)
    BY <1>5 DEF Paid, Open, FirstPaid
  <2> QED BY <1>1, <1>2, <1>3, <1>5, <2>1 DEF Open, FirstPaid
<1>6. ASSUME NEW s \in Steps
      PROVE  wasted'[s] + Cardinality(InFlight(s)') + IsSent(s)' <= sends'[s]
  <2>1. wasted[s] + Cardinality(InFlight(s)) + IsSent(s) <= sends[s]
    BY DEF Sound, IsSent
  <2> QED BY <1>1, <1>2, <1>3, <2>1 DEF WasSent
<1>7. Paid'
  BY <1>1, <1>4, <1>5 DEF Paid
<1>8. Sound'
  BY <1>1, <1>6 DEF Sound, IsSent
<1> QED BY <1>7, <1>8

\* No sender moves, and no step becomes open or sent.
LEMMA NobodyMoves ==
  ASSUME Rows, Paid, Sound, pc' = pc, at' = at, sends' = sends, wasted' = wasted,
         clicked' = clicked,
         \A s \in Steps : /\ step'[s].status \in Open => step[s].status \in Open
                          /\ step'[s].status = "sent" => step[s].status = "sent"
  PROVE  Paid' /\ Sound'
<1>1. \A s \in Steps : /\ Armed(s)' = Armed(s) /\ InFlight(s)' = InFlight(s)
                       /\ WorkerAt(s, {"check", "send"})' = WorkerAt(s, {"check", "send"})
                       /\ WorkerAt(s, AfterSend)' = WorkerAt(s, AfterSend)
  BY DEF Armed, InFlight, HasSent, WorkerAt
<1>2. Paid'
  BY <1>1 DEF Paid, Open
<1>3. ASSUME NEW s \in Steps
      PROVE  /\ IsFiniteSet(InFlight(s)')
             /\ wasted'[s] + Cardinality(InFlight(s)') + IsSent(s)' <= sends'[s]
  <2>1. /\ IsFiniteSet(InFlight(s))
        /\ wasted[s] + Cardinality(InFlight(s)) + IsSent(s) <= sends[s]
    BY DEF Sound, IsSent
  <2>2. Cardinality(InFlight(s)) \in Nat
    BY <2>1, FS_CardinalityType
  <2>3. wasted[s] \in Nat /\ sends[s] \in Nat
    BY DEF Rows, TypeOK
  <2>4. IsSent(s)' \in {0, 1} /\ IsSent(s) \in {0, 1} /\ IsSent(s)' <= IsSent(s)
    BY DEF IsSent
  <2> QED BY <1>1, <2>1, <2>2, <2>3, <2>4
<1>4. Sound'
  BY <1>3 DEF Sound, IsSent
<1> QED BY <1>2, <1>4

\* A sender goes on without sending: a request stays armed only if it was, the worker is about
\* to send only if it was.
LEMMA GoesOn ==
  ASSUME Rows, Rows', Paid, Sound, NEW t \in Senders, NEW p \in PCs, Goto(t, p),
         at' = at, step' = step, UNCHANGED hist,
         p \in {"cancel_job", "load", "check", "send"} =>
           pc[t] \in {"cancel_job", "load", "check", "send"},
         t = "worker" /\ p \in {"check", "send"} => pc[t] \in {"check", "send"},
         p \in AfterSend <=> pc[t] \in AfterSend
  PROVE  Paid' /\ Sound'
<1>1. \A u \in Senders : pc'[u] = IF u = t THEN p ELSE pc[u]
  BY DEF Goto, Rows, ControlOK
<1>2. sends' = sends /\ wasted' = wasted /\ clicked' = clicked
  BY DEF hist
<1>3. TypeOK /\ TypeOK'
  BY DEF Rows
<1>4. \A s \in Steps : sends[s] \in Nat /\ wasted[s] \in Nat /\ clicked[s] \in Nat
  BY <1>3 DEF TypeOK
<1>5. \A s \in Steps : /\ Arms(t, s)' <= Arms(t, s) /\ Flies(t, s)' = Flies(t, s)
                       /\ IsSent(s)' = IsSent(s)
                       /\ Arms(t, s) \in {0, 1} /\ Arms(t, s)' \in {0, 1}
                       /\ Flies(t, s) \in {0, 1} /\ IsSent(s) \in {0, 1}
  BY <1>1, Names DEF Arms, Armed, Flies, InFlight, HasSent, IsSent, AfterSend
<1>6. \A s \in Steps :
        /\ WorkerAt(s, {"check", "send"})' <= WorkerAt(s, {"check", "send"})
        /\ WorkerAt(s, AfterSend)' = WorkerAt(s, AfterSend)
        /\ WorkerAt(s, {"check", "send"}) \in {0, 1} /\ WorkerAt(s, {"check", "send"})' \in {0, 1}
        /\ WorkerAt(s, AfterSend) \in {0, 1}
  BY <1>1, Names DEF WorkerAt
<1>7. \A s \in Steps : SendsPaid(t, s) /\ FirstPaid(t, s) /\ WasSent(t, s)
  BY <1>2, <1>4, <1>5, <1>6 DEF SendsPaid, FirstPaid, WasSent
<1>8. \A u \in Senders : u # t => pc'[u] = pc[u] /\ at'[u] = at[u]
  BY <1>1
<1> QED BY <1>3, <1>7, <1>8, Balances

\* A step found pending has its first send still to come.
LEMMA LoadBalances ==
  ASSUME Rows, Rows', Paid, Sound, NEW t \in Senders, Load(t)
  PROVE  Paid' /\ Sound'
<1> USE Names
<1>1. /\ pc[t] = "load" /\ at[t] \in Steps
      /\ \A u \in Senders : u # t => pc'[u] = pc[u]
      /\ pc'[t] = IF StepOf(t, at[t]).status = "pending" THEN "check" ELSE "skipped"
      /\ at' = at /\ step' = step /\ sends' = sends /\ wasted' = wasted /\ clicked' = clicked
  BY DEF Load, Goto, Rows, ControlOK, Out, rows, steps, hist
<1>2. t = "worker" => StepOf(t, at[t]) = step[at[t]]
  BY <1>1 DEF Rows, Locks, SenderOwns, StepOf, Written
<1>3. TypeOK /\ TypeOK'
  BY DEF Rows
<1>4. \A s \in Steps : sends[s] \in Nat /\ wasted[s] \in Nat /\ clicked[s] \in Nat
  BY <1>3 DEF TypeOK
<1>5. \A s \in Steps : /\ Arms(t, s)' <= Arms(t, s) /\ Flies(t, s)' = 0 /\ Flies(t, s) = 0
                       /\ IsSent(s)' = IsSent(s)
                       /\ Arms(t, s) \in {0, 1} /\ Arms(t, s)' \in {0, 1}
                       /\ IsSent(s) \in {0, 1}
  BY <1>1 DEF Arms, Armed, Flies, InFlight, HasSent, IsSent
<1>6. \A s \in Steps :
        /\ WorkerAt(s, AfterSend)' = WorkerAt(s, AfterSend)
        /\ WorkerAt(s, {"check", "send"}) \in {0, 1} /\ WorkerAt(s, {"check", "send"})' \in {0, 1}
        /\ WorkerAt(s, AfterSend) \in {0, 1}
        /\ \/ WorkerAt(s, {"check", "send"})' = WorkerAt(s, {"check", "send"})
           \/ t = "worker" /\ s = at[t] /\ step[s].status = "pending" /\ WorkerAt(s, AfterSend) = 0
  BY <1>1, <1>2 DEF WorkerAt, AfterSend
<1>7. \A s \in Steps :
        \/ SendsPaid(t, s)
        \/ /\ step[s].status = "pending" /\ WorkerAt(s, AfterSend) = 0
           /\ sends'[s] + Arms(t, s)' + wasted[s] + clicked[s]
                <= sends[s] + Arms(t, s) + wasted'[s] + clicked'[s]
  BY <1>1, <1>4, <1>5, <1>6 DEF SendsPaid
<1>8. \A s \in Steps : FirstPaid(t, s) /\ WasSent(t, s)
  BY <1>1, <1>4, <1>5, <1>6 DEF FirstPaid, WasSent
<1>9. \A u \in Senders : u # t => pc'[u] = pc[u] /\ at'[u] = at[u]
  BY <1>1
<1> QED BY <1>3, <1>7, <1>8, <1>9, Balances

\* What is about to be sent becomes sent.
LEMMA SendBalances ==
  ASSUME Rows, Rows', Paid, Sound, NEW t \in Senders, Send(t)
  PROVE  Paid' /\ Sound'
<1> USE Names
<1>1. /\ pc[t] = "send" /\ at[t] \in Steps /\ pc'[t] = "history"
      /\ \A u \in Senders : u # t => pc'[u] = pc[u]
      /\ at' = at /\ step' = step /\ wasted' = wasted /\ clicked' = clicked
  BY DEF Send, Goto, Rows, ControlOK, Out, rows, steps
<1>2. TypeOK /\ TypeOK'
  BY DEF Rows
<1>3. \A s \in Steps : sends[s] \in Nat /\ wasted[s] \in Nat /\ clicked[s] \in Nat
  BY <1>2 DEF TypeOK
<1>4. \A s \in Steps : sends'[s] = IF s = at[t] THEN sends[s] + 1 ELSE sends[s]
  <2>1. sends \in [Steps -> Nat] /\ sends' = [sends EXCEPT ![at[t]] = @ + 1]
    BY <1>2 DEF TypeOK, Send
  <2> QED BY ONLY <1>1, <2>1
<1>5. \A s \in Steps :
        /\ Arms(t, s)' = 0 /\ Arms(t, s) = IF t # "worker" /\ s = at[t] THEN 1 ELSE 0
        /\ Flies(t, s) = 0 /\ Flies(t, s)' = IF s = at[t] THEN 1 ELSE 0
        /\ IsSent(s)' = IsSent(s) /\ IsSent(s) \in {0, 1}
  BY <1>1 DEF Arms, Armed, Flies, InFlight, HasSent, IsSent
<1>6. \A s \in Steps :
        /\ WorkerAt(s, {"check", "send"}) \in {0, 1} /\ WorkerAt(s, AfterSend) \in {0, 1}
        /\ IF t = "worker" /\ s = at[t]
             THEN /\ WorkerAt(s, {"check", "send"}) = 1 /\ WorkerAt(s, {"check", "send"})' = 0
                  /\ WorkerAt(s, AfterSend) = 0 /\ WorkerAt(s, AfterSend)' = 1
             ELSE /\ WorkerAt(s, {"check", "send"})' = WorkerAt(s, {"check", "send"})
                  /\ WorkerAt(s, AfterSend)' = WorkerAt(s, AfterSend)
  BY <1>1 DEF WorkerAt, AfterSend
<1>7. \A s \in Steps : SendsPaid(t, s) /\ FirstPaid(t, s) /\ WasSent(t, s)
  BY <1>1, <1>3, <1>4, <1>5, <1>6 DEF SendsPaid, FirstPaid, WasSent
<1>8. \A u \in Senders : u # t => pc'[u] = pc[u] /\ at'[u] = at[u]
  BY <1>1
<1> QED BY <1>2, <1>7, <1>8, Balances

\* A dispatch-now request pays for the send it is about to make.
LEMMA ResetBalances ==
  ASSUME Rows, Rows', Paid, Sound, NEW c \in Clicks, Reset(c)
  PROVE  Paid' /\ Sound'
<1> USE Names
<1>1. /\ pc[c] = "reset" /\ at[c] \in Steps /\ pc'[c] = "cancel_job"
      /\ \A u \in Senders : u # c => pc'[u] = pc[u]
      /\ at' = at /\ step' = step /\ wasted' = wasted /\ sends' = sends
  BY DEF Reset, Goto, Rows, ControlOK, Out, WriteStep
<1>2. TypeOK /\ TypeOK'
  BY DEF Rows
<1>3. \A s \in Steps : sends[s] \in Nat /\ wasted[s] \in Nat /\ clicked[s] \in Nat
  BY <1>2 DEF TypeOK
<1>4. \A s \in Steps : clicked'[s] = IF s = at[c] THEN clicked[s] + 1 ELSE clicked[s]
  <2>1. clicked \in [Steps -> Nat] /\ clicked' = [clicked EXCEPT ![at[c]] = @ + 1]
    BY <1>2 DEF TypeOK, Reset
  <2> QED BY ONLY <1>1, <2>1
<1>5. \A s \in Steps :
        /\ Arms(c, s) = 0 /\ Arms(c, s)' = IF s = at[c] THEN 1 ELSE 0
        /\ Flies(c, s) = 0 /\ Flies(c, s)' = 0
        /\ IsSent(s)' = IsSent(s) /\ IsSent(s) \in {0, 1}
  BY <1>1 DEF Arms, Armed, Flies, InFlight, HasSent, IsSent
<1>6. \A s \in Steps :
        /\ WorkerAt(s, {"check", "send"}) \in {0, 1} /\ WorkerAt(s, AfterSend) \in {0, 1}
        /\ WorkerAt(s, {"check", "send"})' = WorkerAt(s, {"check", "send"})
        /\ WorkerAt(s, AfterSend)' = WorkerAt(s, AfterSend)
  BY <1>1 DEF WorkerAt
<1>7. \A s \in Steps : SendsPaid(c, s) /\ FirstPaid(c, s) /\ WasSent(c, s)
  BY <1>1, <1>3, <1>4, <1>5, <1>6 DEF SendsPaid, FirstPaid, WasSent
<1>8. \A u \in Senders : u # c => pc'[u] = pc[u] /\ at'[u] = at[u]
  BY <1>1
<1> QED BY <1>2, <1>7, <1>8, Balances

\* A sender that turns to a step has not yet anything to send.
LEMMA TurnsTo ==
  ASSUME Rows, Rows', Paid, Sound, NEW t \in Senders,
         \A u \in Senders : u # t => pc'[u] = pc[u] /\ at'[u] = at[u],
         pc[t] \in {"idle", "ready"},
         pc'[t] \in {"load", "reset"}, pc'[t] = "load" => t = "worker",
         step' = step, UNCHANGED hist
  PROVE  Paid' /\ Sound'
<1> USE Names
<1>1. sends' = sends /\ wasted' = wasted /\ clicked' = clicked
  BY DEF hist
<1>2. TypeOK /\ TypeOK'
  BY DEF Rows
<1>3. \A s \in Steps : sends[s] \in Nat /\ wasted[s] \in Nat /\ clicked[s] \in Nat
  BY <1>2 DEF TypeOK
<1>4. \A s \in Steps :
        /\ Arms(t, s) = 0 /\ Arms(t, s)' = 0 /\ Flies(t, s) = 0 /\ Flies(t, s)' = 0
        /\ IsSent(s)' = IsSent(s) /\ IsSent(s) \in {0, 1}
  BY DEF Arms, Armed, Flies, InFlight, HasSent, IsSent
<1>5. \A s \in Steps :
        /\ WorkerAt(s, {"check", "send"}) \in {0, 1} /\ WorkerAt(s, AfterSend) \in {0, 1}
        /\ WorkerAt(s, {"check", "send"})' = WorkerAt(s, {"check", "send"})
        /\ WorkerAt(s, AfterSend)' = WorkerAt(s, AfterSend)
  BY DEF WorkerAt, AfterSend
<1>6. \A s \in Steps : SendsPaid(t, s) /\ FirstPaid(t, s) /\ WasSent(t, s)
  BY <1>1, <1>3, <1>4, <1>5 DEF SendsPaid, FirstPaid, WasSent
<1> QED BY <1>2, <1>6, Balances

\* A sender leaves: what it had sent is recorded or was wasted.
LEMMA LeavesBalanced ==
  ASSUME Rows, Rows', Paid, Sound, NEW t \in Senders,
         \A u \in Senders : u # t => pc'[u] = pc[u] /\ at'[u] = at[u],
         pc'[t] \in {"idle", "done"}, sends' = sends, clicked' = clicked,
         \/ /\ step' = step
            /\ \A s \in Steps :
                 wasted'[s] = wasted[s] + (IF at[t] = s /\ HasSent(t) THEN 1 ELSE 0)
         \/ /\ wasted' = wasted
            /\ \A s \in Steps : step'[s].status \in Open =>
                 step[s].status \in Open /\ ~(at[t] = s /\ HasSent(t) /\ t = "worker")
            /\ \A s \in Steps : step'[s].status = "sent" =>
                 step[s].status = "sent" \/ (at[t] = s /\ HasSent(t))
  PROVE  Paid' /\ Sound'
<1> USE Names
<1>1. TypeOK /\ TypeOK'
  BY DEF Rows
<1>2. \A s \in Steps : /\ sends[s] \in Nat /\ wasted[s] \in Nat /\ clicked[s] \in Nat
                       /\ wasted'[s] \in Nat
  BY <1>1 DEF TypeOK
<1> DEFINE sent(s) == at[t] = s /\ HasSent(t)
<1>3. \A s \in Steps :
        /\ Arms(t, s)' = 0 /\ Arms(t, s) \in {0, 1}
        /\ Flies(t, s)' = 0 /\ Flies(t, s) = IF sent(s) THEN 1 ELSE 0
        /\ IsSent(s) \in {0, 1} /\ IsSent(s)' \in {0, 1}
        /\ IsSent(s) = 1 <=> step[s].status = "sent"
        /\ IsSent(s)' = 1 <=> step'[s].status = "sent"
  BY DEF Arms, Armed, Flies, InFlight, HasSent, IsSent
<1>4. \A s \in Steps :
        /\ WorkerAt(s, {"check", "send"}) \in {0, 1} /\ WorkerAt(s, AfterSend) \in {0, 1}
        /\ WorkerAt(s, {"check", "send"})' \in {0, 1} /\ WorkerAt(s, AfterSend)' \in {0, 1}
        /\ WorkerAt(s, {"check", "send"})' <= WorkerAt(s, {"check", "send"})
        /\ IF t = "worker" /\ sent(s) THEN WorkerAt(s, AfterSend) = 1 /\ WorkerAt(s, AfterSend)' = 0
           ELSE WorkerAt(s, AfterSend)' = WorkerAt(s, AfterSend)
  BY DEF WorkerAt, AfterSend, HasSent
<1> HIDE DEF sent
<1>5. /\ \A s \in Steps : wasted'[s] >= wasted[s]
      /\ \A s \in Steps : step'[s].status \in Open =>
           /\ step[s].status \in Open
           /\ t = "worker" /\ sent(s) => wasted'[s] = wasted[s] + 1
      /\ \A s \in Steps : wasted'[s] + IsSent(s)' <= wasted[s] + Flies(t, s) + IsSent(s)
  <2>1. CASE /\ step' = step
             /\ \A s \in Steps :
                  wasted'[s] = wasted[s] + (IF at[t] = s /\ HasSent(t) THEN 1 ELSE 0)
    <3>1. \A s \in Steps : IsSent(s)' = IsSent(s)
      BY <2>1 DEF IsSent
    <3>2. \A s \in Steps : wasted'[s] = wasted[s] + (IF sent(s) THEN 1 ELSE 0)
      BY <2>1 DEF sent
    <3> QED BY <1>2, <1>3, <2>1, <3>1, <3>2
  <2>2. CASE /\ wasted' = wasted
             /\ \A s \in Steps : step'[s].status \in Open =>
                  step[s].status \in Open /\ ~(at[t] = s /\ HasSent(t) /\ t = "worker")
             /\ \A s \in Steps : step'[s].status = "sent" =>
                  step[s].status = "sent" \/ (at[t] = s /\ HasSent(t))
    <3>1. \A s \in Steps : step'[s].status \in Open =>
                  step[s].status \in Open /\ ~(sent(s) /\ t = "worker")
      BY <2>2 DEF sent
    <3>2. \A s \in Steps : step'[s].status = "sent" => step[s].status = "sent" \/ sent(s)
      BY <2>2 DEF sent
    <3> QED BY <1>2, <1>3, <2>2, <3>1, <3>2
  <2> QED BY <2>1, <2>2
<1>6. \A s \in Steps : SendsPaid(t, s) /\ FirstPaid(t, s) /\ WasSent(t, s)
  BY <1>2, <1>3, <1>4, <1>5 DEF SendsPaid, FirstPaid, WasSent
<1> QED BY <1>1, <1>6, Balances

-----------------------------------------------------------------------------
(* The last dispatch completes the enrollment *)

\* Nothing is committed, and no sender reaches the end of its dispatch.
LEMMA NothingPublished ==
  ASSUME LastCompletes, step' = step, enr' = enr,
         \A u \in Senders : pc'[u] = "dispatched" =>
           /\ pc[u] = "dispatched"
           /\ enrOwner = u => enrOwner' = u
           /\ \A s \in Steps : StepOf(u, s)' = StepOf(u, s)
  PROVE  LastCompletes'
<1>1. AllSentCompletes'
  BY DEF LastCompletes, AllSentCompletes
<1>2. ASSUME NEW u \in Senders, pc'[u] = "dispatched"
      PROVE  \/ enr' = "completed" \/ enrOwner' = u
             \/ \E s \in Steps : StepOf(u, s)'.status \notin {"sent", "none"}
  <2>1. \/ enr = "completed" \/ enrOwner = u
        \/ \E s \in Steps : StepOf(u, s).status \notin {"sent", "none"}
    BY <1>2 DEF LastCompletes
  <2> QED BY <1>2, <2>1
<1> QED BY <1>1, <1>2 DEF LastCompletes

\* A row that t writes is no other sender's version of it.
LEMMA WriteSeenByNoOther ==
  ASSUME TypeOK, NEW t \in Senders \cup Resyncs, NEW s \in Steps, NEW v, WriteStep(t, s, v),
         NEW u \in Senders, u # t
  PROVE  \A z \in Steps : StepOf(u, z)' = StepOf(u, z)
BY Names DEF TypeOK, WriteStep, StepOf

\* A dispatch that finds every step sent goes on to complete the enrollment.
LEMMA CountLast ==
  ASSUME Rows, LastCompletes, NEW t \in Senders, Count(t)
  PROVE  LastCompletes'
<1>1. /\ step' = step /\ stepNew' = stepNew /\ stepOwner' = stepOwner /\ enr' = enr
      /\ enrOwner' = enrOwner
      /\ \A u \in Senders : u # t => pc'[u] = pc[u]
      /\ pc'[t] = "dispatched" => \E s \in Steps : StepOf(t, s).status \notin {"sent", "none"}
  BY DEF Count, Goto, Rows, ControlOK, rows, steps
<1>2. \A u \in Senders, s \in Steps : StepOf(u, s)' = StepOf(u, s)
  BY <1>1 DEF StepOf
<1>3. AllSentCompletes'
  BY <1>1 DEF LastCompletes, AllSentCompletes
<1>4. ASSUME NEW u \in Senders, pc'[u] = "dispatched"
      PROVE  \/ enr' = "completed" \/ enrOwner' = u
             \/ \E s \in Steps : StepOf(u, s)'.status \notin {"sent", "none"}
  BY <1>1, <1>2, <1>4 DEF LastCompletes
<1> QED BY <1>3, <1>4 DEF LastCompletes

\* Complete makes the sender the one that completes the enrollment, unless it is completed.
LEMMA CompleteLast ==
  ASSUME Rows, LastCompletes, NEW t \in Senders, Complete(t)
  PROVE  LastCompletes'
<1>1. /\ step' = step /\ stepNew' = stepNew /\ stepOwner' = stepOwner /\ enr' = enr
      /\ enrOwner = None /\ enrOwner' = IF enr = "completed" THEN None ELSE t
      /\ \A u \in Senders : u # t => pc'[u] = pc[u]
  BY DEF Complete, Goto, Rows, ControlOK, steps
<1>2. \A u \in Senders, s \in Steps : StepOf(u, s)' = StepOf(u, s)
  BY <1>1 DEF StepOf
<1>3. AllSentCompletes'
  BY <1>1 DEF LastCompletes, AllSentCompletes
<1>4. ASSUME NEW u \in Senders, pc'[u] = "dispatched"
      PROVE  \/ enr' = "completed" \/ enrOwner' = u
             \/ \E s \in Steps : StepOf(u, s)'.status \notin {"sent", "none"}
  BY <1>1, <1>2, <1>4, Names DEF LastCompletes
<1> QED BY <1>3, <1>4 DEF LastCompletes

\* A transaction commits: what it publishes is either its own count of the steps or a step
\* that is not sent; no other sender is past the history's lock when a dispatch commits.
LEMMA PublishLast ==
  ASSUME Rows, LastCompletes, NEW x \in Senders \cup Resyncs, EndTx({x}, {x}),
         \A u \in Senders : u # x => pc'[u] = pc[u],
         x \in Senders => pc'[x] # "dispatched" /\ pc[x] \in {"skipped", "dispatched"}
  PROVE  LastCompletes'
<1> USE Names
<1>1. /\ stepNew' = stepNew
      /\ \A s \in Steps : step'[s] = IF stepOwner[s] = x THEN stepNew[s] ELSE step[s]
      /\ \A s \in Steps : stepOwner'[s] = IF stepOwner[s] = x THEN None ELSE stepOwner[s]
      /\ enr' = IF enrOwner = x THEN "completed" ELSE enr
      /\ enrOwner' = IF enrOwner = x THEN None ELSE enrOwner
  BY Commits DEF Rows
<1>2. \/ x \in Senders /\ pc[x] = "dispatched"
      \/ \A s \in Steps : stepOwner[s] = x => stepNew[s].status \notin {"sent", "none"}
  <2>1. CASE x \in Resyncs
    BY <2>1 DEF Rows, Progress, ResyncVersions
  <2>2. CASE x \in Senders /\ pc[x] = "skipped"
    BY <2>2 DEF Rows, Locks, SenderOwns, Progress, ClickVersions, WorkerVersions, Settled, Out, Written
  <2> QED BY <2>1, <2>2
<1>3. AllSentCompletes'
  <2>1. SUFFICES ASSUME \A s \in Steps : step'[s].status \in {"sent", "none"}
                 PROVE  enr' = "completed"
    BY DEF AllSentCompletes
  <2>2. CASE x \in Senders /\ pc[x] = "dispatched"
    <3>1. \A s \in Steps : StepOf(x, s).status \in {"sent", "none"}
      BY <1>1, <2>1 DEF StepOf
    <3> QED BY <1>1, <2>2, <3>1 DEF LastCompletes
  <2>3. CASE \A s \in Steps : stepOwner[s] = x => stepNew[s].status \notin {"sent", "none"}
    <3>1. \A s \in Steps : step'[s] = step[s]
      BY <1>1, <2>1, <2>3
    <3>2. enr = "completed"
      BY <2>1, <3>1 DEF LastCompletes, AllSentCompletes
    <3> QED BY <1>1, <3>2
  <2> QED BY <1>2, <2>2, <2>3
<1>4. ASSUME NEW u \in Senders, pc'[u] = "dispatched"
      PROVE  \/ enr' = "completed" \/ enrOwner' = u
             \/ \E s \in Steps : StepOf(u, s)'.status \notin {"sent", "none"}
  <2>1. u # x /\ pc[u] = "dispatched"
    BY <1>4
  <2>2. \A s \in Steps : stepOwner[s] = x => stepNew[s].status \notin {"sent", "none"}
    <3>1. histOwner = u /\ (x \in Senders /\ pc[x] = "dispatched" => histOwner = x)
      BY <2>1 DEF Rows, Locks, OneInSection, Section, Written
    <3> QED BY <1>2, <2>1, <3>1
  <2>3. \A s \in Steps : StepOf(u, s).status \notin {"sent", "none"} =>
          StepOf(u, s)'.status \notin {"sent", "none"}
    BY <1>1, <2>1, <2>2 DEF StepOf
  <2>4. \/ enr = "completed" \/ enrOwner = u
        \/ \E s \in Steps : StepOf(u, s).status \notin {"sent", "none"}
    BY <2>1 DEF LastCompletes
  <2> QED BY <1>1, <2>1, <2>3, <2>4
<1> QED BY <1>3, <1>4 DEF LastCompletes

\* A rollback takes back what no other transaction has seen.
LEMMA RollbackLast ==
  ASSUME Rows, LastCompletes, NEW T, None \notin T, EndTx(T, {}),
         \A u \in Senders : pc'[u] = "dispatched" => pc[u] = "dispatched" /\ u \notin T
  PROVE  LastCompletes'
<1>1. /\ step' = step /\ enr' = enr
      /\ \A s \in Steps : stepNew'[s] = IF stepOwner[s] \in T THEN step[s] ELSE stepNew[s]
      /\ \A s \in Steps : stepOwner'[s] = IF stepOwner[s] \in T THEN None ELSE stepOwner[s]
      /\ enrOwner' = IF enrOwner \in T THEN None ELSE enrOwner
  BY RollsBack DEF Rows
<1>2. \A u \in Senders, s \in Steps : u \notin T => StepOf(u, s)' = StepOf(u, s)
  BY <1>1, Names DEF StepOf
<1> QED BY <1>1, <1>2, NothingPublished

-----------------------------------------------------------------------------
(* Every step keeps the books *)

Ledger == Paid /\ Sound /\ LastCompletes

\* What touches neither the steps nor the senders.
LEMMA ElsewhereBalances ==
  ASSUME Rows, Ledger, UNCHANGED <<steps, enr, enrOwner, pc, at, sends, wasted, clicked>>
  PROVE  Ledger'
<1>1. /\ step' = step /\ stepNew' = stepNew /\ stepOwner' = stepOwner /\ pc' = pc /\ at' = at
      /\ enr' = enr /\ enrOwner' = enrOwner
      /\ sends' = sends /\ wasted' = wasted /\ clicked' = clicked
  BY DEF steps
<1>2. Paid' /\ Sound'
  BY <1>1, NobodyMoves DEF Ledger
<1>3. \A u \in Senders, s \in Steps : StepOf(u, s)' = StepOf(u, s)
  BY <1>1 DEF StepOf
<1>4. LastCompletes'
  BY <1>1, <1>3, NothingPublished DEF Ledger
<1> QED BY <1>2, <1>4 DEF Ledger

\* The tick sends nothing and publishes no step.
LEMMA TickBalances ==
  ASSUME Rows, Rows', Ledger, Ticking
  PROVE  Ledger'
<1>1. CASE Pick \/ MarkExecuted
  BY <1>1, ElsewhereBalances DEF Pick, MarkExecuted, disp, hist
<1>2. CASE Handle
  <2>1. /\ UNCHANGED <<rows, hist>> /\ pc["worker"] = "idle"
        /\ pc'["worker"] = "load"
        /\ \A u \in Senders : u # "worker" => pc'[u] = pc[u] /\ at'[u] = at[u]
    <3>1. pc["worker"] = "idle"
      BY <1>2 DEF Handle, Rows, ControlOK
    <3> QED BY <1>2, <3>1, Names DEF Handle, Goto, Rows, ControlOK, TypeOK
  <2>2. Paid' /\ Sound'
    BY <2>1, Names, TurnsTo DEF rows, steps, Ledger
  <2>3. \A u \in Senders : pc'[u] = "dispatched" => pc[u] = "dispatched"
    BY <2>1
  <2>4. \A u \in Senders, s \in Steps : StepOf(u, s)' = StepOf(u, s)
    BY <2>1 DEF StepOf, rows, steps
  <2>5. LastCompletes'
    BY <2>1, <2>3, <2>4, NothingPublished DEF rows, steps, Ledger
  <2> QED BY <2>2, <2>5 DEF Ledger
<1>3. CASE CommitTick
  <2>1. EndTx({"tick"}, {"tick"}) /\ UNCHANGED <<disp, hist>>
    BY <1>3 DEF CommitTick
  <2>2. /\ \A s \in Steps : stepOwner[s] # "tick"
        /\ enrOwner # "tick"
    BY Names DEF Rows, TypeOK
  <2>3. /\ stepNew' = stepNew /\ enr' = enr /\ enrOwner' = enrOwner
        /\ \A s \in Steps : step'[s] = step[s] /\ stepOwner'[s] = stepOwner[s]
    <3>1. TypeOK /\ None # "tick"
      BY Names DEF Rows
    <3>2. /\ stepNew' = stepNew /\ jobNew' = jobNew /\ target' = target
          /\ \A s \in Steps : step'[s] = IF stepOwner[s] = "tick" THEN stepNew[s] ELSE step[s]
          /\ \A s \in Steps :
               stepOwner'[s] = IF stepOwner[s] = "tick" THEN None ELSE stepOwner[s]
          /\ \A j \in Jobs : job'[j] = IF jobOwner[j] = "tick" THEN jobNew[j] ELSE job[j]
          /\ \A j \in Jobs :
               jobOwner'[j] = IF jobOwner[j] = "tick" THEN None ELSE jobOwner[j]
          /\ enr' = IF enrOwner = "tick" THEN "completed" ELSE enr
          /\ enrOwner' = IF enrOwner = "tick" THEN None ELSE enrOwner
          /\ histOwner' = IF histOwner = "tick" THEN None ELSE histOwner
      BY <2>1, <3>1, Commits
    <3> QED BY <2>2, <3>2
  <2>4. step' = step /\ stepOwner' = stepOwner
    <3>1. /\ step \in [Steps -> StepRow] /\ step' \in [Steps -> StepRow]
          /\ stepOwner \in [Steps -> Senders \cup Resyncs \cup {None}]
          /\ stepOwner' \in [Steps -> Senders \cup Resyncs \cup {None}]
      BY DEF Rows, TypeOK, StepRow
    <3> QED BY ONLY <2>3, <3>1
  <2> QED BY <2>1, <2>3, <2>4, ElsewhereBalances DEF steps, disp, hist
<1> QED BY <1>1, <1>2, <1>3 DEF Ticking

\* The steps of a dispatch that commit nothing.
LEMMA DispatchBalances ==
  ASSUME Rows, Rows', Ledger, NEW t \in Senders,
         \/ Load(t) \/ CheckFlow(t) \/ Send(t) \/ SendFails(t) \/ Mark(t) \/ SaveHistory(t)
         \/ GetStep(t) \/ UpdateStep(t) \/ Count(t) \/ Complete(t)
  PROVE  Ledger'
<1> USE Names
<1>1. pc[t] \notin Out /\ at[t] \in Steps
  BY DEF Rows, ControlOK, Load, CheckFlow, Send, SendFails, Mark, SaveHistory, GetStep, UpdateStep,
         Count, Complete, Out
<1>2. CASE Load(t)
  <2>1. Paid' /\ Sound'
    BY <1>2, LoadBalances DEF Ledger
  <2>2. /\ UNCHANGED rows
        /\ \A u \in Senders : pc'[u] = "dispatched" => pc[u] = "dispatched"
    BY <1>2 DEF Load, Goto, Rows, ControlOK
  <2>3. LastCompletes'
    BY <2>2, NothingPublished DEF rows, steps, StepOf, Ledger
  <2> QED BY <2>1, <2>3 DEF Ledger
<1>3. CASE Send(t)
  <2>1. Paid' /\ Sound'
    BY <1>3, SendBalances DEF Ledger
  <2>2. /\ UNCHANGED rows
        /\ \A u \in Senders : pc'[u] = "dispatched" => pc[u] = "dispatched"
    BY <1>3 DEF Send, Goto, Rows, ControlOK
  <2>3. LastCompletes'
    BY <2>2, NothingPublished DEF rows, steps, StepOf, Ledger
  <2> QED BY <2>1, <2>3 DEF Ledger
<1>4. CASE CheckFlow(t) \/ SendFails(t) \/ GetStep(t)
  <2>1. PICK p \in {"mark_cancelled", "send", "mark_failed", "update"} :
          /\ Goto(t, p) /\ UNCHANGED <<rows, at, hist>>
          /\ p = "send" => pc[t] = "check"
          /\ p = "update" <=> pc[t] = "get"
          /\ pc[t] \in {"check", "send", "get"}
    BY <1>4 DEF CheckFlow, SendFails, GetStep
  <2>2. /\ p \in PCs /\ at' = at /\ step' = step /\ UNCHANGED hist
        /\ p \in {"cancel_job", "load", "check", "send"} =>
             pc[t] \in {"cancel_job", "load", "check", "send"}
        /\ t = "worker" /\ p \in {"check", "send"} => pc[t] \in {"check", "send"}
        /\ p \in AfterSend <=> pc[t] \in AfterSend
    BY <2>1 DEF PCs, AfterSend, rows, steps
  <2>3. Paid' /\ Sound'
    BY <2>1, <2>2, GoesOn DEF Ledger
  <2>4. \A u \in Senders : pc'[u] = "dispatched" => pc[u] = "dispatched"
    BY <2>1 DEF Goto, Rows, ControlOK
  <2>5. LastCompletes'
    BY <2>1, <2>4, NothingPublished DEF rows, steps, StepOf, Ledger
  <2> QED BY <2>3, <2>5 DEF Ledger
<1>5. CASE Mark(t) \/ UpdateStep(t)
  <2>1. PICK p \in {"skipped", "count"} :
          /\ Goto(t, p) /\ UNCHANGED <<enr, enrOwner, at, hist>>
          /\ p = "count" <=> pc[t] = "update"
          /\ pc[t] \in {"mark_failed", "mark_cancelled", "update"}
          /\ (\E v : WriteStep(t, at[t], v)) \/ UNCHANGED steps
    BY <1>5 DEF Mark, UpdateStep, WriteIfPending
  <2>2. step' = step
    BY <2>1 DEF WriteStep, steps
  <2>3. /\ p \in PCs /\ at' = at /\ UNCHANGED hist
        /\ p \notin {"cancel_job", "load", "check", "send"}
        /\ p \in AfterSend <=> pc[t] \in AfterSend
    BY <2>1 DEF PCs, AfterSend
  <2>4. Paid' /\ Sound'
    BY <2>1, <2>2, <2>3, GoesOn DEF Ledger
  <2>5. \A u \in Senders : pc'[u] = "dispatched" => pc[u] = "dispatched" /\ u # t
    BY <2>1 DEF Goto, Rows, ControlOK
  <2>6. \A u \in Senders : u # t => \A s \in Steps : StepOf(u, s)' = StepOf(u, s)
    <3>1. CASE UNCHANGED steps
      BY <3>1 DEF steps, StepOf
    <3>2. CASE \E v : WriteStep(t, at[t], v)
      <4>1. PICK s \in Steps : s = at[t]
        BY <1>1
      <4>2. PICK v : WriteStep(t, s, v)
        BY <3>2, <4>1
      <4> QED BY <4>2, WriteSeenByNoOther DEF Rows
    <3> QED BY <2>1, <3>1, <3>2
  <2>7. LastCompletes'
    BY <2>1, <2>2, <2>5, <2>6, NothingPublished DEF Ledger
  <2> QED BY <2>4, <2>7 DEF Ledger
<1>6. CASE SaveHistory(t)
  <2>1. /\ Goto(t, "get") /\ UNCHANGED <<steps, enr, enrOwner, at, hist>> /\ pc[t] = "history"
    BY <1>6 DEF SaveHistory
  <2>2. "get" \in PCs /\ at' = at /\ step' = step /\ ("get" \in AfterSend <=> pc[t] \in AfterSend)
    BY <2>1 DEF PCs, AfterSend, steps
  <2>3. Paid' /\ Sound'
    BY <2>1, <2>2, GoesOn DEF Ledger
  <2>4. \A u \in Senders : pc'[u] = "dispatched" => pc[u] = "dispatched"
    BY <2>1 DEF Goto, Rows, ControlOK
  <2>5. LastCompletes'
    BY <2>1, <2>4, NothingPublished DEF steps, StepOf, Ledger
  <2> QED BY <2>3, <2>5 DEF Ledger
<1>7. CASE Count(t) \/ Complete(t)
  <2>1. PICK p \in {"complete", "dispatched"} :
          /\ Goto(t, p) /\ UNCHANGED <<steps, at, hist>> /\ pc[t] \in {"count", "complete"}
    BY <1>7 DEF Count, Complete, rows
  <2>2. /\ p \in PCs /\ at' = at /\ step' = step /\ (p \in AfterSend <=> pc[t] \in AfterSend)
        /\ p \notin {"cancel_job", "load", "check", "send"}
    BY <2>1 DEF PCs, AfterSend, steps
  <2>3. Paid' /\ Sound'
    BY <2>1, <2>2, GoesOn DEF Ledger
  <2>4. LastCompletes'
    BY <1>7, CountLast, CompleteLast DEF Ledger
  <2> QED BY <2>3, <2>4 DEF Ledger
<1> QED BY <1>2, <1>3, <1>4, <1>5, <1>6, <1>7

\* A dispatch that commits records what it sent.
LEMMA CommitBalances ==
  ASSUME Rows, Rows', Ledger, NEW t \in Senders, Commit(t)
  PROVE  Ledger'
<1> USE Names
<1>1. /\ EndTx({t}, {t}) /\ pc[t] \in {"skipped", "dispatched"}
      /\ pc'[t] \in {"idle", "done"}
      /\ \A u \in Senders : u # t => pc'[u] = pc[u] /\ at'[u] = at[u]
      /\ sends' = sends /\ wasted' = wasted /\ clicked' = clicked
  BY DEF Commit, Leave, hist
<1>2. \A s \in Steps : step'[s] = IF stepOwner[s] = t THEN stepNew[s] ELSE step[s]
  BY <1>1, Commits DEF Rows
<1>3. \A s \in Steps : stepOwner[s] = t =>
        /\ s = at[t] /\ stepNew[s].status \in Settled
        /\ stepNew[s].status = "sent" => HasSent(t)
  BY <1>1 DEF Rows, Locks, SenderOwns, Progress, ClickVersions, WorkerVersions, Settled, Out,
              Written, HasSent
<1>4. at[t] \in Steps /\ (HasSent(t) => stepOwner[at[t]] = t)
  BY <1>1 DEF Rows, ControlOK, Locks, SenderOwns, Out, Written, HasSent
<1>5. \A s \in Steps : step'[s].status \in Open =>
        step[s].status \in Open /\ ~(at[t] = s /\ HasSent(t) /\ t = "worker")
  BY <1>2, <1>3, <1>4 DEF Open, Settled
<1>6. \A s \in Steps : step'[s].status = "sent" =>
        step[s].status = "sent" \/ (at[t] = s /\ HasSent(t))
  BY <1>2, <1>3
<1>7. Paid' /\ Sound'
  BY <1>1, <1>5, <1>6, LeavesBalanced DEF Ledger
<1>8. LastCompletes'
  BY <1>1, PublishLast DEF Ledger
<1> QED BY <1>7, <1>8 DEF Ledger

\* A dispatch-now request pays for its send before it makes it.
LEMMA ClickingBalances ==
  ASSUME Rows, Rows', Ledger, NEW c \in Clicks, Clicking(c) \/ \E s \in Steps : Click(c, s)
  PROVE  Ledger'
<1> USE Names
<1>1. CASE Reset(c)
  <2>1. Paid' /\ Sound'
    BY <1>1, ResetBalances DEF Ledger
  <2>2. PICK s \in Steps : s = at[c]
    BY <1>1 DEF Reset, Rows, ControlOK, Out
  <2>3. PICK v : WriteStep(c, s, v)
    BY <1>1, <2>2 DEF Reset
  <2>4. /\ enr' = enr /\ enrOwner' = enrOwner /\ step' = step
        /\ \A u \in Senders : pc'[u] = "dispatched" => pc[u] = "dispatched" /\ u # c
    BY <1>1, <2>3 DEF Reset, Goto, Rows, ControlOK, WriteStep
  <2>5. \A u \in Senders : u # c => \A z \in Steps : StepOf(u, z)' = StepOf(u, z)
    BY <2>3, WriteSeenByNoOther DEF Rows
  <2>6. LastCompletes'
    BY <2>4, <2>5, NothingPublished DEF Ledger
  <2> QED BY <2>1, <2>6 DEF Ledger
<1>2. CASE ClickCancelsJob(c)
  <2>1. /\ Goto(c, "load") /\ UNCHANGED <<steps, enr, enrOwner, at, hist>> /\ pc[c] = "cancel_job"
    BY <1>2 DEF ClickCancelsJob
  <2>2. "load" \in PCs /\ at' = at /\ step' = step /\ ("load" \in AfterSend <=> pc[c] \in AfterSend)
    BY <2>1 DEF PCs, AfterSend, steps
  <2>3. Paid' /\ Sound'
    BY <2>1, <2>2, GoesOn DEF Ledger
  <2>4. \A u \in Senders : pc'[u] = "dispatched" => pc[u] = "dispatched"
    BY <2>1 DEF Goto, Rows, ControlOK
  <2>5. LastCompletes'
    BY <2>1, <2>4, NothingPublished DEF steps, StepOf, Ledger
  <2> QED BY <2>3, <2>5 DEF Ledger
<1>3. ASSUME NEW s \in Steps, Click(c, s)
      PROVE  Ledger'
  <2>1. /\ UNCHANGED <<rows, hist>> /\ pc[c] = "ready" /\ pc'[c] = "reset"
        /\ \A u \in Senders : u # c => pc'[u] = pc[u] /\ at'[u] = at[u]
    BY <1>3 DEF Click, Goto, Rows, ControlOK, TypeOK
  <2>2. Paid' /\ Sound'
    BY <2>1, TurnsTo DEF rows, steps, Ledger
  <2>3. \A u \in Senders : pc'[u] = "dispatched" => pc[u] = "dispatched"
    BY <2>1
  <2>4. LastCompletes'
    BY <2>1, <2>3, NothingPublished DEF rows, steps, StepOf, Ledger
  <2> QED BY <2>2, <2>4 DEF Ledger
<1> QED BY <1>1, <1>2, <1>3 DEF Clicking

\* A resync neither sends nor opens a settled step.
LEMMA ResyncBalances ==
  ASSUME Rows, Rows', Ledger, NEW r \in Resyncs, Resyncing(r)
  PROVE  Ledger'
<1> USE Names
<1>1. CASE ResyncReads(r) \/ ResyncCancelsJob(r)
  BY <1>1, ElsewhereBalances DEF ResyncReads, ResyncCancelsJob, rows, disp, hist
<1>2. CASE Reschedule(r) \/ ResyncWritesStep(r)
  <2>1. /\ UNCHANGED <<enr, enrOwner, disp, hist>>
        /\ (\E s \in Steps : \E v : WriteStep(r, s, v)) \/ UNCHANGED steps
    BY <1>2 DEF Reschedule, ResyncWritesStep, WriteIfPending
  <2>2. step' = step
    BY <2>1 DEF WriteStep, steps
  <2>3. Paid' /\ Sound'
    BY <2>1, <2>2, NobodyMoves DEF disp, hist, Ledger
  <2>4. \A u \in Senders, s \in Steps : StepOf(u, s)' = StepOf(u, s)
    <3>1. CASE UNCHANGED steps
      BY <3>1 DEF steps, StepOf
    <3>2. ASSUME NEW s \in Steps, NEW v, WriteStep(r, s, v)
          PROVE  \A u \in Senders, z \in Steps : StepOf(u, z)' = StepOf(u, z)
      BY <3>2, WriteSeenByNoOther DEF Rows
    <3> QED BY <2>1, <3>1, <3>2
  <2>5. LastCompletes'
    BY <2>1, <2>2, <2>4, NothingPublished DEF disp, Ledger
  <2> QED BY <2>3, <2>5 DEF Ledger
<1>3. CASE ResyncCommits(r)
  <2>1. EndTx({r}, {r}) /\ UNCHANGED <<disp, hist>>
    BY <1>3 DEF ResyncCommits
  <2>2. \A s \in Steps : step'[s] = IF stepOwner[s] = r THEN stepNew[s] ELSE step[s]
    BY <2>1, Commits DEF Rows
  <2>3. \A s \in Steps : stepOwner[s] = r =>
          stepNew[s].status \in {"pending", "cancelled"} /\ step[s].status \in {"none", "pending"}
    BY DEF Rows, Progress, ResyncVersions
  <2>4. Paid' /\ Sound'
    BY <2>1, <2>2, <2>3, NobodyMoves DEF Open, disp, hist, Ledger
  <2>5. LastCompletes'
    BY <2>1, PublishLast DEF disp, Ledger
  <2> QED BY <2>4, <2>5 DEF Ledger
<1> QED BY <1>1, <1>2, <1>3 DEF Resyncing

\* A sender that ends without a commit has wasted what it sent.
LEMMA RaisesBalance ==
  ASSUME Rows, Rows', Ledger, NEW t \in Senders, NEW T, None \notin T, Senders \cap T = {t},
         EndTx(T, {}), NEW W, Senders \cap W = {t}, Waste(W), Leave({t}),
         sends' = sends, clicked' = clicked
  PROVE  Ledger'
<1> USE Names
<1>1. /\ pc'[t] \in {"idle", "done"} /\ t \in T
      /\ \A u \in Senders : u # t => pc'[u] = pc[u] /\ at'[u] = at[u] /\ u \notin T
  BY DEF Leave
<1>2. step' = step
  BY RollsBack DEF Rows
<1>3. \A s \in Steps : wasted'[s] = wasted[s] + (IF at[t] = s /\ HasSent(t) THEN 1 ELSE 0)
  BY WasteOfOne DEF Rows
<1>4. Paid' /\ Sound'
  BY <1>1, <1>2, <1>3, LeavesBalanced DEF Ledger
<1>5. LastCompletes'
  BY <1>1, RollbackLast DEF Ledger
<1> QED BY <1>4, <1>5 DEF Ledger

\* Exceptions and crashes waste what was sent and not yet committed.
LEMMA FaultBalances ==
  ASSUME Rows, Rows', Ledger, (\E t \in Txs : Raises(t)) \/ WorkerCrash
  PROVE  Ledger'
<1> USE Names
<1>1. CASE WorkerRaises
  <2>1. /\ EndTx({"worker", "tick"}, {}) /\ Waste({"worker"}) /\ Leave({"worker"})
        /\ sends' = sends /\ clicked' = clicked
    BY <1>1 DEF WorkerRaises
  <2>2. /\ None \notin {"worker", "tick"} /\ Senders \cap {"worker", "tick"} = {"worker"}
        /\ Senders \cap {"worker"} = {"worker"}
    OBVIOUS
  <2> QED BY <2>1, <2>2, RaisesBalance
<1>2. ASSUME NEW c \in Clicks, ClickRaises(c)
      PROVE  Ledger'
  <2>1. /\ EndTx({c}, {}) /\ Waste({c}) /\ Leave({c}) /\ sends' = sends /\ clicked' = clicked
    BY <1>2 DEF ClickRaises
  <2>2. None \notin {c} /\ Senders \cap {c} = {c} /\ c \in Senders
    OBVIOUS
  <2> QED BY <2>1, <2>2, RaisesBalance
<1>3. ASSUME NEW r \in Resyncs, ResyncRaises(r)
      PROVE  Ledger'
  <2>1. EndTx({r}, {}) /\ UNCHANGED <<disp, hist>>
    BY <1>3 DEF ResyncRaises
  <2>2. None \notin {r} /\ \A u \in Senders : u \notin {r}
    OBVIOUS
  <2>3. step' = step
    BY <2>1, <2>2, RollsBack DEF Rows
  <2>4. Paid' /\ Sound'
    BY <2>1, <2>3, NobodyMoves DEF disp, hist, Ledger
  <2>5. LastCompletes'
    BY <2>1, <2>2, RollbackLast DEF disp, Ledger
  <2> QED BY <2>4, <2>5 DEF Ledger
<1>4. CASE WorkerCrash
  <2> DEFINE T == {"worker", "tick"} \cup Resyncs
  <2>1. EndTx(T, {}) /\ Waste(T) /\ Leave({"worker"}) /\ sends' = sends /\ clicked' = clicked
    BY <1>4 DEF WorkerCrash
  <2>2. None \notin T /\ Senders \cap T = {"worker"}
    OBVIOUS
  <2> HIDE DEF T
  <2> QED BY <2>1, <2>2, RaisesBalance
<1> QED BY <1>1, <1>2, <1>3, <1>4 DEF Raises

-----------------------------------------------------------------------------
(* The invariant *)

\* The books are in order at first: some step is pending, and nothing was sent.
LEMMA InitBooks ==
  ASSUME Init
  PROVE  Books
<1>1. Rows
  BY InitRows
<1>2. /\ pc = [t \in Senders |-> IF t \in Clicks THEN "ready" ELSE "idle"]
      /\ step = [s \in Steps |-> IF s \in Later THEN [status |-> "none", job |-> None]
                                 ELSE [status |-> "pending", job |-> s]]
      /\ sends = [s \in Steps |-> 0] /\ wasted = sends /\ clicked = sends
  BY DEF Init
<1>3. \A s \in Steps : /\ Armed(s) = {} /\ InFlight(s) = {} /\ WorkerAt(s, {"check", "send"}) = 0
                       /\ WorkerAt(s, AfterSend) = 0
                       /\ sends[s] = 0 /\ wasted[s] = 0 /\ clicked[s] = 0
                       /\ step[s].status # "sent"
  BY <1>2, Names DEF Armed, InFlight, HasSent, WorkerAt, AfterSend
<1>4. Paid /\ Sound
  <2>1. \A s \in Steps : /\ IsFiniteSet(Armed(s)) /\ Cardinality(Armed(s)) = 0
                         /\ IsFiniteSet(InFlight(s)) /\ Cardinality(InFlight(s)) = 0
    BY <1>3, FS_EmptySet
  <2> QED BY <1>3, <2>1 DEF Paid, Sound
<1>5. LastCompletes
  <2>1. PICK s \in Steps : s \notin Later
    BY RowsAssumption
  <2>2. step[s].status = "pending"
    BY <1>2, <2>1
  <2>3. AllSentCompletes
    BY <2>2 DEF AllSentCompletes
  <2>4. \A t \in Senders : pc[t] # "dispatched"
    BY <1>2
  <2> QED BY <2>3, <2>4 DEF LastCompletes
<1> QED BY <1>1, <1>4, <1>5 DEF Books

\* Every step of the system keeps the books.
LEMMA BooksStep ==
  ASSUME Books, [Next]_vars
  PROVE  Books'
<1>1. Rows /\ Ledger
  BY DEF Books, Ledger
<1>2. Rows'
  BY <1>1, RowsStep
<1>3. Ledger'
  <2>1. CASE Ticking
    BY <1>1, <1>2, <2>1, TickBalances
  <2>2. ASSUME NEW t \in Senders, Dispatching(t) \/ SendFails(t) PROVE Ledger'
    BY <1>1, <1>2, <2>2, DispatchBalances, CommitBalances DEF Dispatching
  <2>3. ASSUME NEW c \in Clicks, Clicking(c) \/ \E s \in Steps : Click(c, s) PROVE Ledger'
    BY <1>1, <1>2, <2>3, ClickingBalances
  <2>4. ASSUME NEW r \in Resyncs, Resyncing(r) PROVE Ledger'
    BY <1>1, <1>2, <2>4, ResyncBalances
  <2>5. CASE (\E t \in Txs : Fault(t) \/ DetectDeadlock(t)) \/ WorkerCrash
    BY <1>1, <1>2, <2>5, FaultBalances DEF Fault, DetectDeadlock
  <2>6. CASE (\E j \in Jobs : BecomesDue(j)) \/ EditFlow \/ UNCHANGED vars
    BY <1>1, <2>6, ElsewhereBalances DEF BecomesDue, EditFlow, vars, rows, disp, hist
  <2> QED BY <2>1, <2>2, <2>3, <2>4, <2>5, <2>6 DEF Next
<1> QED BY <1>2, <1>3 DEF Books, Ledger

-----------------------------------------------------------------------------
(* Settled steps *)

\* Committed statuses change when a dispatch or a resync commits, and only then.
LEMMA OnlyCommitsPublish ==
  ASSUME Rows, Next
  PROVE  step' = step \/ (\E t \in Senders : Commit(t)) \/ (\E r \in Resyncs : ResyncCommits(r))
<1> USE Names
<1>1. ASSUME Ticking PROVE step' = step
  <2>1. CASE Pick \/ Handle \/ MarkExecuted
    BY <2>1 DEF Pick, Handle, MarkExecuted, rows, steps
  <2>2. CASE CommitTick
    <3>1. step' = [s \in Steps |-> IF stepOwner[s] \in {"tick"} THEN stepNew[s] ELSE step[s]]
      BY <2>2 DEF CommitTick, EndTx
    <3>2. step \in [Steps -> StepRow] /\ \A s \in Steps : stepOwner[s] # "tick"
      BY DEF Rows, TypeOK, StepRow
    <3> QED BY ONLY <3>1, <3>2
  <2> QED BY <1>1, <2>1, <2>2 DEF Ticking
<1>2. ASSUME NEW t \in Senders, Dispatching(t) \/ SendFails(t) PROVE step' = step \/ Commit(t)
  BY <1>2 DEF Dispatching, Load, CheckFlow, Send, SendFails, Mark, SaveHistory, GetStep, UpdateStep,
              Count, Complete, WriteIfPending, WriteStep, rows, steps
<1>3. ASSUME NEW c \in Clicks, Clicking(c) \/ \E s \in Steps : Click(c, s) PROVE step' = step
  BY <1>3 DEF Clicking, Reset, ClickCancelsJob, Click, WriteStep, rows, steps
<1>4. ASSUME NEW r \in Resyncs, Resyncing(r) PROVE step' = step \/ ResyncCommits(r)
  BY <1>4 DEF Resyncing, ResyncReads, ResyncCancelsJob, Reschedule, ResyncWritesStep,
              WriteIfPending, WriteStep, rows, steps
<1>5. ASSUME (\E t \in Txs : Fault(t) \/ DetectDeadlock(t)) \/ WorkerCrash PROVE step' = step
  <2>1. WorkerCrash \/ WorkerRaises \/ (\E c \in Clicks : ClickRaises(c))
          \/ (\E r \in Resyncs : ResyncRaises(r))
    BY <1>5 DEF Fault, DetectDeadlock, Raises
  <2>2. \E T : None \notin T /\ EndTx(T, {})
    BY <2>1 DEF WorkerCrash, WorkerRaises, ClickRaises, ResyncRaises
  <2> QED BY <2>2, RollsBack DEF Rows
<1>6. ASSUME (\E j \in Jobs : BecomesDue(j)) \/ EditFlow PROVE step' = step
  BY <1>6 DEF BecomesDue, EditFlow, rows, steps
<1> QED BY <1>1, <1>2, <1>3, <1>4, <1>5, <1>6 DEF Next

\* What SettledStays says of one step of the system.
StaysSettled ==
  \A s \in Steps :
    step[s].status \notin {"none", "pending"} /\ step'[s].status # step[s].status
      => /\ step'[s].status # "pending"
         /\ clicked[s] > 0 \/ (step[s].status = "cancelled" /\ step'[s].status = "sent")

\* Only a commit changes a status, and it settles an open step but for the two exceptions.
LEMMA SettledStep ==
  ASSUME Rows, Next
  PROVE  StaysSettled
<1> USE Names DEF Rows, Locks, Progress
<1>1. CASE step' = step
  BY <1>1 DEF StaysSettled
<1>2. ASSUME NEW r \in Resyncs, ResyncCommits(r)
      PROVE  StaysSettled
  <2>1. EndTx({r}, {r})
    BY <1>2 DEF ResyncCommits
  <2>2. \A s \in Steps : step'[s] = IF stepOwner[s] = r THEN stepNew[s] ELSE step[s]
    BY <2>1, Commits
  <2>3. \A s \in Steps : stepOwner[s] = r => step[s].status \in {"none", "pending"}
    BY DEF ResyncVersions
  <2> QED BY <2>2, <2>3 DEF StaysSettled
<1>3. ASSUME NEW t \in Senders, Commit(t)
      PROVE  StaysSettled
  <2>1. EndTx({t}, {t}) /\ pc[t] \in {"skipped", "dispatched"}
    BY <1>3 DEF Commit
  <2>2. \A s \in Steps : step'[s] = IF stepOwner[s] = t THEN stepNew[s] ELSE step[s]
    BY <2>1, Commits
  <2>3. ASSUME NEW s \in Steps, stepOwner[s] = t, t \in Clicks
        PROVE  stepNew[s].status \in Settled /\ clicked[s] > 0
    BY <2>1, <2>3 DEF SenderOwns, ClickVersions, Out, Written
  <2>4. ASSUME NEW s \in Steps, stepOwner[s] = "worker", t = "worker"
        PROVE  /\ stepNew[s].status \in Settled
               /\ stepNew[s].status # step[s].status =>
                    \/ step[s].status = "pending" \/ clicked[s] > 0
                    \/ step[s].status = "cancelled" /\ stepNew[s].status = "sent"
    BY <2>1, <2>4 DEF SenderOwns, WorkerVersions, WorkerSettles, Written
  <2> QED BY <2>2, <2>3, <2>4 DEF StaysSettled, Settled
<1> QED BY <1>1, <1>2, <1>3, OnlyCommitsPublish

-----------------------------------------------------------------------------
(* The theorems *)

\* In every reachable state the invariant holds.
THEOREM BooksInvariant == Spec => []Books
<1>1. Init => Books
  BY InitBooks
<1>2. Books /\ [Next]_vars => Books'
  BY BooksStep
<1> QED
  BY <1>1, <1>2, PTL DEF Spec

\* Every variable keeps its type; in particular the tick only ever holds jobs whose run_at
\* has passed (pick_due_jobs).
THEOREM DispatchTypes == Spec => []TypeOK
<1>1. Books => TypeOK
  BY DEF Books, Rows
<1> QED
  BY <1>1, BooksInvariant, PTL

\* No pending step is forgotten: the scheduled_job_id of its row always names a pending job
\* that will dispatch it, whatever ticks, dispatch-now requests and resyncs do at once.
THEOREM PendingStepsScheduled == Spec => []PendingHasJob
<1>1. Books => PendingHasJob
  BY DEF Books, Rows, References, StepNamesJob, IsJobOf, Covered, JobStands, PendingHasJob
<1> QED
  BY <1>1, BooksInvariant, PTL

\* The scheduler and the resync never repeat a message: each send of a step beyond the first is
\* paid for by a dispatch-now request or by a send that was rolled back.
THEOREM RepeatedSendsPaid == Spec => []DuplicatesExplained
<1>1. Books => DuplicatesExplained
  <2> SUFFICES ASSUME Books, NEW s \in Steps PROVE sends[s] <= 1 + wasted[s] + clicked[s]
    BY DEF DuplicatesExplained
  <2>1. /\ IsFiniteSet(Armed(s))
        /\ sends[s] + Cardinality(Armed(s)) + WorkerAt(s, {"check", "send"})
             <= 1 + wasted[s] + clicked[s]
    BY DEF Books, Paid
  <2>2. Cardinality(Armed(s)) \in Nat
    BY <2>1, FS_CardinalityType
  <2>3. WorkerAt(s, {"check", "send"}) \in {0, 1}
    BY DEF WorkerAt
  <2>4. sends[s] \in Nat /\ wasted[s] \in Nat /\ clicked[s] \in Nat
    BY DEF Books, Rows, TypeOK
  <2> QED BY <2>1, <2>2, <2>3, <2>4
<1> QED
  BY <1>1, BooksInvariant, PTL

\* A step whose row says sent was sent by a transaction that committed.
THEOREM RecordedSendsHappened == Spec => []SentWasSent
<1>1. Books => SentWasSent
  <2> SUFFICES ASSUME Books, NEW s \in Steps, step[s].status = "sent" PROVE sends[s] > wasted[s]
    BY DEF SentWasSent
  <2>1. /\ IsFiniteSet(InFlight(s))
        /\ wasted[s] + Cardinality(InFlight(s)) + 1 <= sends[s]
    BY DEF Books, Sound
  <2>2. Cardinality(InFlight(s)) \in Nat
    BY <2>1, FS_CardinalityType
  <2>3. sends[s] \in Nat /\ wasted[s] \in Nat
    BY DEF Books, Rows, TypeOK
  <2> QED BY <2>1, <2>2, <2>3
<1> QED
  BY <1>1, BooksInvariant, PTL

\* The enrollment completes with its last message, also when two senders dispatch the last two
\* steps at once: the history row they share makes the second wait (all_steps_sent).
THEOREM LastSendCompletes == Spec => []AllSentCompletes
<1>1. Books => AllSentCompletes
  BY DEF Books, LastCompletes
<1> QED
  BY <1>1, BooksInvariant, PTL

\* A settled step stays settled, and keeps its status but for dispatch-now requests and for the
\* job of one resync that another, which cancels the step, cannot name.
THEOREM SettledStepsStay == Spec => SettledStays
<1>1. Books /\ [Next]_vars => [StaysSettled]_vars
  BY SettledStep DEF Books
<1> QED
  BY <1>1, BooksInvariant, PTL DEF Spec, SettledStays, StaysSettled

=============================================================================
