------------------------------ MODULE Dispatch ------------------------------
(***************************************************************************)
(* Sending the steps of one onboarding enrollment: the scheduler's tick,   *)
(* the dispatch-now endpoint and the resync of the enrollment with an      *)
(* edited flow, as PostgreSQL transactions over the same rows.             *)
(*                                                                         *)
(* Isolation is READ COMMITTED: a transaction reads the last committed     *)
(* version of a row or its own; an UPDATE waits for the row's owner, then  *)
(* re-evaluates its WHERE; commit publishes, rollback discards.  The tick  *)
(* keeps its job rows locked (FOR UPDATE) while each handler works in a    *)
(* session of its own, so it waits for the handler where the database      *)
(* cannot see it.                                                          *)
(*                                                                         *)
(* run_at is abstracted to due or not due, so due jobs come in any order;  *)
(* message contents are left out; of the conversation history only the     *)
(* row lock is kept; the flow is active, inactive or deleted (which sets   *)
(* the enrollment's flow_id to NULL).                                      *)
(***************************************************************************)
EXTENDS Naturals, Sequences, FiniteSets, SequencesExt

CONSTANTS Steps,      \* enrollment steps of the enrollment, numbered by position
          Later,      \* those that only a resync adds
          Synced,     \* those with a flow_step_id, which resync may touch
          Jobs,       \* scheduled_jobs rows; step s was scheduled with job s
          Clicks,     \* dispatch-now requests
          Resyncs,    \* executions of the resync_flow handler
          MaxFaults,  \* bound on failed sends, exceptions and crashes
          None        \* no transaction, no step, no job

ASSUME RowsAssumption ==
  /\ Steps \subseteq Nat /\ Jobs \subseteq Nat
  /\ Later \subseteq Synced /\ Synced \subseteq Steps
  /\ Steps \ Later \subseteq Jobs
  /\ Steps \ Later # {}   \* a flow without steps enrolls nobody
ASSUME BoundAssumption == MaxFaults \in Nat

Senders == {"worker"} \cup Clicks   \* transactions that run DispatchOnboardingStep
Txs == Senders \cup Resyncs \cup {"tick"}
ASSUME NamesAssumption ==
  /\ Clicks \cap Resyncs = {} /\ None \notin Txs /\ None \notin Steps /\ None \notin Jobs
  /\ {"worker", "tick"} \cap (Clicks \cup Resyncs) = {}

VARIABLES
  step,      \* committed status and scheduled_job_id of each step
  stepNew,   \* the version its owner has written; the committed one if nobody owns it
  stepOwner, \* the transaction holding the row's lock, or None
  job,       \* committed status of each scheduled job
  jobNew, jobOwner,
  target,    \* the enrollment_step_id in the job's payload
  enr,       \* the enrollment's status
  enrOwner,  \* the transaction that has set it to completed
  histOwner, \* the transaction that has saved the contact's conversation history
  todo,      \* jobs picked by the running tick and not yet handled; None if none runs
  current,   \* the job whose handler is running
  pc,        \* per sender: its next operation
  at,        \* per sender: the step it is dispatching
  loaded,    \* per sender: the scheduled_job_id it has read
  dirty,     \* per sender: the columns its update_step will write
  phase,     \* per resync: it reads, then writes, then is over
  plan,      \* per resync and step: what it has still to do
  due,       \* jobs whose run_at has passed
  flow,
  faults,
  sends,     \* history: messages sent for each step
  wasted,    \* history: sends whose transaction was then rolled back
  clicked    \* history: dispatch-now requests that reset the step

steps == <<step, stepNew, stepOwner>>
jobs  == <<job, jobNew, jobOwner, target>>
rows  == <<steps, jobs, enr, enrOwner, histOwner>>
tick  == <<todo, current>>
disp  == <<pc, at, loaded, dirty>>
script == <<phase, plan>>
env   == <<due, flow, faults>>
hist  == <<sends, wasted, clicked>>
vars  == <<rows, tick, disp, script, env, hist>>

Statuses == {"pending", "sent", "failed", "cancelled"}

\* A resync has nothing to do, or nothing more.
Done == [do |-> "none", job |-> None]
Nothing == [s \in Synced |-> Done]

Init ==
  /\ step = [s \in Steps |-> IF s \in Later THEN [status |-> "none", job |-> None]
                             ELSE [status |-> "pending", job |-> s]]
  /\ stepNew = step /\ stepOwner = [s \in Steps |-> None]
  /\ target = [j \in Jobs |-> IF j \in Steps \ Later THEN j ELSE None]
  /\ job = [j \in Jobs |-> IF target[j] = None THEN "none" ELSE "pending"]
  /\ jobNew = job /\ jobOwner = [j \in Jobs |-> None]
  /\ enr = "active" /\ enrOwner = None /\ histOwner = None
  /\ todo = None /\ current = None
  /\ pc = [t \in Senders |-> IF t \in Clicks THEN "ready" ELSE "idle"]
  /\ at = [t \in Senders |-> None] /\ loaded = at
  /\ dirty = [t \in Senders |-> {}]
  /\ phase = [r \in Resyncs |-> "read"] /\ plan = [r \in Resyncs |-> Nothing]
  /\ due = {} /\ flow = "active" /\ faults = 0
  /\ sends = [s \in Steps |-> 0] /\ wasted = sends /\ clicked = sends

-----------------------------------------------------------------------------
(* Rows and locks *)

StepOf(t, s) == IF stepOwner[s] = t THEN stepNew[s] ELSE step[s]
JobOf(t, j)  == IF jobOwner[j] = t THEN jobNew[j] ELSE job[j]

\* UPDATE ... WHERE id = s: waits for the row's owner.
WriteStep(t, s, v) ==
  /\ stepOwner[s] \in {None, t}
  /\ stepNew' = [stepNew EXCEPT ![s] = v]
  /\ stepOwner' = [stepOwner EXCEPT ![s] = t]
  /\ UNCHANGED step

\* UPDATE ... WHERE id = s AND status = 'pending': no row, no lock and no wait.
WriteIfPending(t, s, v) ==
  IF StepOf(t, s).status = "pending" THEN WriteStep(t, s, v) ELSE UNCHANGED steps

\* UPDATE scheduled_jobs SET status = 'cancelled' WHERE id = j AND status = 'pending'.
CancelJob(t, j) ==
  IF JobOf(t, j) = "pending"
    THEN /\ jobOwner[j] \in {None, t}
         /\ jobNew' = [jobNew EXCEPT ![j] = "cancelled"]
         /\ jobOwner' = [jobOwner EXCEPT ![j] = t]
         /\ UNCHANGED <<job, target>>
    ELSE UNCHANGED jobs

\* End of the transactions in T: those in C commit, the others roll back.
EndTx(T, C) ==
  LET Lost(o) == o \in T \ C IN
  /\ step' = [s \in Steps |-> IF stepOwner[s] \in C THEN stepNew[s] ELSE step[s]]
  /\ stepNew' = [s \in Steps |-> IF Lost(stepOwner[s]) THEN step[s] ELSE stepNew[s]]
  /\ stepOwner' = [s \in Steps |-> IF stepOwner[s] \in T THEN None ELSE stepOwner[s]]
  /\ job' = [j \in Jobs |-> IF jobOwner[j] \in C THEN jobNew[j] ELSE job[j]]
  /\ jobNew' = [j \in Jobs |-> IF Lost(jobOwner[j]) THEN job[j] ELSE jobNew[j]]
  /\ target' = [j \in Jobs |-> IF Lost(jobOwner[j]) /\ job[j] = "none" THEN None ELSE target[j]]
  /\ jobOwner' = [j \in Jobs |-> IF jobOwner[j] \in T THEN None ELSE jobOwner[j]]
  /\ enr' = IF enrOwner \in C THEN "completed" ELSE enr
  /\ enrOwner' = IF enrOwner \in T THEN None ELSE enrOwner
  /\ histOwner' = IF histOwner \in T THEN None ELSE histOwner

Goto(t, next) == pc' = [pc EXCEPT ![t] = next]

\* The senders in T are through: a request is over, the worker waits for the next job.
Leave(T) ==
  /\ pc' = [t \in Senders |-> IF t \notin T THEN pc[t] ELSE IF t = "worker" THEN "idle" ELSE "done"]
  /\ at' = [t \in Senders |-> IF t \in T THEN None ELSE at[t]]
  /\ loaded' = [t \in Senders |-> IF t \in T THEN None ELSE loaded[t]]
  /\ dirty' = [t \in Senders |-> IF t \in T THEN {} ELSE dirty[t]]

-----------------------------------------------------------------------------
(* SchedulerRunner.tick *)

\* Faulty variant: pick_due_jobs forgets run_at <= now.
PickableEarly == {j \in Jobs : job[j] = "pending" /\ jobOwner[j] = None}

\* pick_due_jobs: SELECT ... FOR UPDATE SKIP LOCKED.
Pickable == {j \in due : job[j] = "pending" /\ jobOwner[j] = None}

Pick ==
  /\ todo = None /\ Pickable # {}
  /\ todo' = Pickable
  /\ jobOwner' = [j \in Jobs |-> IF j \in Pickable THEN "tick" ELSE jobOwner[j]]
  /\ UNCHANGED <<steps, job, jobNew, target, enr, enrOwner, histOwner, current, disp, script,
                 env, hist>>

\* await handler(job): handle_scheduled opens a session of its own.
Handle ==
  /\ todo # None /\ current = None
  /\ \E j \in todo : /\ current' = j
                     /\ at' = [at EXCEPT !["worker"] = target[j]]
  /\ Goto("worker", "load")
  /\ UNCHANGED <<rows, todo, loaded, dirty, script, env, hist>>

\* Faulty variant: the tick never records that a job was executed.
MarkExecutedForgets ==
  /\ current # None /\ pc["worker"] = "idle"
  /\ todo' = todo \ {current}
  /\ current' = None
  /\ UNCHANGED <<rows, disp, script, env, hist>>

\* The handler has returned: mark_executed, in the tick's own transaction.
MarkExecuted ==
  /\ current # None /\ pc["worker"] = "idle"
  /\ jobNew' = [jobNew EXCEPT ![current] = "executed"]
  /\ todo' = todo \ {current}
  /\ current' = None
  /\ UNCHANGED <<steps, job, jobOwner, target, enr, enrOwner, histOwner, disp, script, env, hist>>

CommitTick ==
  /\ todo = {} /\ current = None
  /\ EndTx({"tick"}, {"tick"})
  /\ todo' = None
  /\ UNCHANGED <<current, disp, script, env, hist>>

Ticking == Pick \/ Handle \/ MarkExecuted \/ CommitTick

-----------------------------------------------------------------------------
(* DispatchOnboardingStep.execute, by the worker or inside a dispatch-now request *)

\* Faulty variant: a step is dispatched whatever its status.
LoadUnchecked(t) ==
  /\ pc[t] = "load"
  /\ Goto(t, "check")
  /\ loaded' = [loaded EXCEPT ![t] = StepOf(t, at[t]).job]
  /\ UNCHANGED <<rows, tick, at, dirty, script, env, hist>>

\* find_step_by_id and the check that the step is still pending.
Load(t) ==
  /\ pc[t] = "load"
  /\ Goto(t, IF StepOf(t, at[t]).status = "pending" THEN "check" ELSE "skipped")
  /\ loaded' = [loaded EXCEPT ![t] = StepOf(t, at[t]).job]
  /\ UNCHANGED <<rows, tick, at, dirty, script, env, hist>>

\* The flow check. A deleted flow leaves flow_id NULL and is not checked.
CheckFlow(t) ==
  /\ pc[t] = "check"
  /\ Goto(t, IF flow = "inactive" THEN "mark_cancelled" ELSE "send")
  /\ UNCHANGED <<rows, tick, at, loaded, dirty, script, env, hist>>

\* send_message or send_template, before anything is written.
Send(t) ==
  /\ pc[t] = "send"
  /\ Goto(t, "history")
  /\ sends' = [sends EXCEPT ![at[t]] = @ + 1]
  /\ UNCHANGED <<rows, tick, at, loaded, dirty, script, env, wasted, clicked>>

\* Faulty variant: the exception of a failed send is swallowed.
SendFailsUnnoticed(t) ==
  /\ pc[t] = "send" /\ faults < MaxFaults
  /\ Goto(t, "history")
  /\ faults' = faults + 1
  /\ UNCHANGED <<rows, tick, at, loaded, dirty, script, due, flow, hist>>

SendFails(t) ==
  /\ pc[t] = "send" /\ faults < MaxFaults
  /\ Goto(t, "mark_failed")
  /\ faults' = faults + 1
  /\ UNCHANGED <<rows, tick, at, loaded, dirty, script, due, flow, hist>>

\* mark_failed and mark_cancelled.
Mark(t) ==
  /\ pc[t] \in {"mark_failed", "mark_cancelled"}
  /\ WriteIfPending(t, at[t],
       [StepOf(t, at[t]) EXCEPT !.status = IF pc[t] = "mark_failed" THEN "failed"
                                                                  ELSE "cancelled"])
  /\ Goto(t, "skipped")
  /\ UNCHANGED <<jobs, enr, enrOwner, histOwner, tick, at, loaded, dirty, script, env, hist>>

\* Faulty variant: the history is not saved in the transaction of the dispatch.
SaveHistoryOutside(t) ==
  /\ pc[t] = "history"
  /\ Goto(t, "get")
  /\ UNCHANGED <<rows, tick, at, loaded, dirty, script, env, hist>>

\* history.save: the upsert locks the one row of the contact's thread.
SaveHistory(t) ==
  /\ pc[t] = "history" /\ histOwner = None
  /\ histOwner' = t
  /\ Goto(t, "get")
  /\ UNCHANGED <<steps, jobs, enr, enrOwner, tick, at, loaded, dirty, script, env, hist>>

\* update_step reads the row again: only the columns that differ will be written.
GetStep(t) ==
  /\ pc[t] = "get"
  /\ dirty' = [dirty EXCEPT ![t] =
                 (IF StepOf(t, at[t]).status # "sent" THEN {"status"} ELSE {})
                 \cup (IF StepOf(t, at[t]).job # loaded[t] THEN {"job"} ELSE {})]
  /\ Goto(t, "update")
  /\ UNCHANGED <<rows, tick, at, loaded, script, env, hist>>

\* Its UPDATE ... WHERE id = s, whatever the row says by now.
UpdateStep(t) ==
  /\ pc[t] = "update"
  /\ LET old == StepOf(t, at[t]) IN
     WriteStep(t, at[t],
       [status |-> IF "status" \in dirty[t] THEN "sent" ELSE old.status,
        job    |-> IF "job" \in dirty[t] THEN loaded[t] ELSE old.job])
  /\ Goto(t, "count")
  /\ UNCHANGED <<jobs, enr, enrOwner, histOwner, tick, at, loaded, dirty, script, env, hist>>

\* all_steps_sent, over the versions this transaction sees.
Count(t) ==
  /\ pc[t] = "count"
  /\ Goto(t, IF \A s \in Steps : StepOf(t, s).status \in {"sent", "none"}
             THEN "complete" ELSE "dispatched")
  /\ UNCHANGED <<rows, tick, at, loaded, dirty, script, env, hist>>

\* update_enrollment_status: the ORM writes nothing when it reads completed.
Complete(t) ==
  /\ pc[t] = "complete" /\ enrOwner = None
  /\ enrOwner' = IF enr = "completed" THEN None ELSE t
  /\ Goto(t, "dispatched")
  /\ UNCHANGED <<steps, jobs, enr, histOwner, tick, at, loaded, dirty, script, env, hist>>

Commit(t) ==
  /\ pc[t] \in {"skipped", "dispatched"}
  /\ EndTx({t}, {t})
  /\ Leave({t})
  /\ UNCHANGED <<tick, script, env, hist>>

Dispatching(t) ==
  \/ Load(t) \/ CheckFlow(t) \/ Send(t) \/ Mark(t) \/ SaveHistory(t) \/ GetStep(t)
  \/ UpdateStep(t) \/ Count(t) \/ Complete(t) \/ Commit(t)

-----------------------------------------------------------------------------
(* dispatch_step_now *)

\* Read the step, whatever its status.
Click(c, s) ==
  /\ pc[c] = "ready" /\ step[s].status # "none"
  /\ at' = [at EXCEPT ![c] = s]
  /\ loaded' = [loaded EXCEPT ![c] = step[s].job]
  /\ Goto(c, "reset")
  /\ UNCHANGED <<rows, tick, dirty, script, env, hist>>

\* UPDATE ... SET status = 'pending', failure_reason = NULL WHERE id = s.
Reset(c) ==
  /\ pc[c] = "reset"
  /\ WriteStep(c, at[c], [StepOf(c, at[c]) EXCEPT !.status = "pending"])
  /\ clicked' = [clicked EXCEPT ![at[c]] = @ + 1]
  /\ Goto(c, "cancel_job")
  /\ UNCHANGED <<jobs, enr, enrOwner, histOwner, tick, at, loaded, dirty, script, env,
                 sends, wasted>>

ClickCancelsJob(c) ==
  /\ pc[c] = "cancel_job"
  /\ CancelJob(c, loaded[c])
  /\ Goto(c, "load")
  /\ UNCHANGED <<steps, enr, enrOwner, histOwner, tick, at, loaded, dirty, script, env, hist>>

Clicking(c) == Reset(c) \/ ClickCancelsJob(c)

-----------------------------------------------------------------------------
(* ResyncEnrollmentUseCase for the enrollment, inside handle_resync_flow *)

Work == [do : {"none", "add", "reschedule", "renew", "content", "cancel", "close"},
         job : Jobs \cup {None}]

\* to_add, to_reschedule, to_update_content and to_cancel, in this order, each by position.
\* A step to reschedule or to cancel takes two statements: its job is cancelled by the id read,
\* then the step gets a new job ("renew") or is closed.
Rank(do) == CASE do = "add" -> 1
              [] do \in {"reschedule", "renew"} -> 2
              [] do = "content" -> 3
              [] OTHER -> 4

ToDo(r) == {s \in Synced : plan[r][s].do # "none"}
NextUp(r) ==
  {s \in ToDo(r) : \A u \in ToDo(r) :
     \/ Rank(plan[r][s].do) < Rank(plan[r][u].do)
     \/ Rank(plan[r][s].do) = Rank(plan[r][u].do) /\ s <= u}

\* The next statement of r is about step s and one of those in dos.
Doing(r, s, dos) == phase[r] = "write" /\ s \in NextUp(r) /\ plan[r][s].do \in dos

Proceed(r, s, work) == plan' = [plan EXCEPT ![r][s] = work] /\ UNCHANGED phase

\* Rows nobody has used yet: an added step is a new row with an id of its own.
Unused == {s \in Later : /\ step[s].status = "none" /\ stepOwner[s] = None
                         /\ \A r \in Resyncs : plan[r][s].do # "add"}

\* find_active_by_flow, get_with_steps and compute_diff: the edits of the flow may have asked
\* for any change to a pending step and for new steps.
ResyncReads(r) ==
  /\ phase[r] = "read"
  /\ \E op \in [Synced -> {"none", "add", "reschedule", "content", "cancel"}] :
       /\ \A s \in Synced : /\ op[s] = "add" => s \in Unused
                            /\ op[s] \notin {"none", "add"} => step[s].status = "pending"
       /\ enr # "active" \/ flow = "deleted" => \A s \in Synced : op[s] = "none"
       /\ plan' = [plan EXCEPT ![r] = [s \in Synced |->
                     [do |-> op[s], job |-> IF op[s] \in {"reschedule", "cancel"}
                                              THEN step[s].job ELSE None]]]
  /\ phase' = [phase EXCEPT ![r] = "write"]
  /\ UNCHANGED <<rows, tick, disp, env, hist>>

ResyncCancelsJob(r) ==
  /\ \E s \in Synced :
       /\ Doing(r, s, {"reschedule", "cancel"})
       /\ CancelJob(r, plan[r][s].job)
       /\ Proceed(r, s, [do |-> IF plan[r][s].do = "cancel" THEN "close" ELSE "renew",
                         job |-> None])
  /\ UNCHANGED <<steps, enr, enrOwner, histOwner, tick, disp, env, hist>>

\* schedule: a new row, invisible until the commit. Jobs bounds the rows ever inserted.
Free == {j \in Jobs : job[j] = "none" /\ jobOwner[j] = None}
NewJob == CHOOSE j \in Free : TRUE

InsertJob(r, s) ==
  /\ Free # {}
  /\ jobNew' = [jobNew EXCEPT ![NewJob] = "pending"]
  /\ jobOwner' = [jobOwner EXCEPT ![NewJob] = r]
  /\ target' = [target EXCEPT ![NewJob] = s]

\* Faulty variant: apply_step_update without the new job's id.
RescheduleKeepsJob(r) ==
  /\ \E s \in Synced :
       /\ Doing(r, s, {"add", "renew"})
       /\ InsertJob(r, s)
       /\ IF plan[r][s].do = "add" THEN WriteStep(r, s, [status |-> "pending", job |-> NewJob])
          ELSE WriteIfPending(r, s, StepOf(r, s))
       /\ Proceed(r, s, Done)
  /\ UNCHANGED <<job, enr, enrOwner, histOwner, tick, disp, env, hist>>

\* Schedule a job, then add_step_with_job or apply_step_update.
Reschedule(r) ==
  /\ \E s \in Synced :
       /\ Doing(r, s, {"add", "renew"})
       /\ InsertJob(r, s)
       /\ IF plan[r][s].do = "add" THEN WriteStep(r, s, [status |-> "pending", job |-> NewJob])
          ELSE WriteIfPending(r, s, [StepOf(r, s) EXCEPT !.job = NewJob])
       /\ Proceed(r, s, Done)
  /\ UNCHANGED <<job, enr, enrOwner, histOwner, tick, disp, env, hist>>

\* Faulty variant: the UPDATEs lack AND status = 'pending'.
ResyncWritesAnyStep(r) ==
  /\ \E s \in Synced :
       /\ Doing(r, s, {"content", "close"})
       /\ WriteStep(r, s, IF plan[r][s].do = "content" THEN StepOf(r, s)
                          ELSE [StepOf(r, s) EXCEPT !.status = "cancelled"])
       /\ Proceed(r, s, Done)
  /\ UNCHANGED <<jobs, enr, enrOwner, histOwner, tick, disp, env, hist>>

\* apply_step_update of the content alone, or cancel_step.
ResyncWritesStep(r) ==
  /\ \E s \in Synced :
       /\ Doing(r, s, {"content", "close"})
       /\ WriteIfPending(r, s, IF plan[r][s].do = "content" THEN StepOf(r, s)
                               ELSE [StepOf(r, s) EXCEPT !.status = "cancelled"])
       /\ Proceed(r, s, Done)
  /\ UNCHANGED <<jobs, enr, enrOwner, histOwner, tick, disp, env, hist>>

ResyncCommits(r) ==
  /\ phase[r] = "write" /\ ToDo(r) = {}
  /\ EndTx({r}, {r})
  /\ phase' = [phase EXCEPT ![r] = "over"]
  /\ UNCHANGED <<plan, tick, disp, env, hist>>

Resyncing(r) ==
  \/ ResyncReads(r) \/ ResyncCancelsJob(r) \/ Reschedule(r) \/ ResyncWritesStep(r)
  \/ ResyncCommits(r)

-----------------------------------------------------------------------------
(* Waiting, exceptions and crashes *)

\* The owner of the row that transaction t is waiting for, None if it is not waiting.
Blocker(t) ==
  LET Held(o) == IF o = t THEN None ELSE o
      OfStep(s, wherePending) ==
        IF wherePending /\ StepOf(t, s).status # "pending" THEN None ELSE Held(stepOwner[s])
      OfJob(j) == IF JobOf(t, j) = "pending" THEN Held(jobOwner[j]) ELSE None
  IN IF t \in Senders
       THEN CASE pc[t] \in {"reset", "update"} -> OfStep(at[t], FALSE)
              [] pc[t] \in {"mark_failed", "mark_cancelled"} -> OfStep(at[t], TRUE)
              [] pc[t] = "cancel_job" -> OfJob(loaded[t])
              [] pc[t] = "history" -> histOwner
              [] pc[t] = "complete" -> enrOwner
              [] OTHER -> None
     ELSE IF t \in Resyncs /\ phase[t] = "write" /\ ToDo(t) # {}
       THEN LET s == CHOOSE s \in NextUp(t) : TRUE IN
            CASE plan[t][s].do \in {"reschedule", "cancel"} -> OfJob(plan[t][s].job)
              [] plan[t][s].do = "add" -> None
              [] OTHER -> OfStep(s, TRUE)
     ELSE None

\* Following the waits-for function W from t leads back to t.
OnCycle(t, W) ==
  LET ahead[n \in 1..Cardinality(DOMAIN W)] ==
        IF n = 1 THEN W[t] ELSE IF ahead[n - 1] = None THEN None ELSE W[ahead[n - 1]]
  IN \E n \in DOMAIN ahead : ahead[n] = t

Deadlocked(t) == Blocker(t) # None /\ OnCycle(t, [u \in Txs |-> Blocker(u)])

\* The tick waits for its handler in Python; PostgreSQL sees no edge there.
Stuck ==
  /\ current # None /\ pc["worker"] # "idle"
  /\ OnCycle("tick", [u \in Txs |-> IF u = "tick" THEN "worker" ELSE Blocker(u)])

HasSent(t) == pc[t] \in {"history", "get", "update", "count", "complete", "dispatched"}

\* Sends of the transactions in T, about to be rolled back.
Waste(T) == wasted' = [s \in Steps |-> wasted[s] +
                         Cardinality({t \in Senders \cap T : at[t] = s /\ HasSent(t)})]

\* An exception leaves the handler, and then the tick: both sessions roll back.
WorkerRaises ==
  /\ pc["worker"] # "idle"
  /\ EndTx({"worker", "tick"}, {})
  /\ Waste({"worker"})
  /\ Leave({"worker"})
  /\ todo' = None /\ current' = None
  /\ UNCHANGED <<script, due, flow, sends, clicked>>

\* The request fails, or the API process dies.
ClickRaises(c) ==
  /\ pc[c] \notin {"ready", "done"}
  /\ EndTx({c}, {})
  /\ Waste({c})
  /\ Leave({c})
  /\ UNCHANGED <<tick, script, due, flow, sends, clicked>>

\* The savepoint of the enrollment rolls back; handle_resync_flow logs it and goes on.
ResyncRaises(r) ==
  /\ phase[r] = "write"
  /\ EndTx({r}, {})
  /\ phase' = [phase EXCEPT ![r] = "over"] /\ plan' = [plan EXCEPT ![r] = Nothing]
  /\ UNCHANGED <<tick, disp, due, flow, hist>>

Raises(t) == \/ t = "worker" /\ WorkerRaises
             \/ t \in Clicks /\ ClickRaises(t)
             \/ t \in Resyncs /\ ResyncRaises(t)

Fault(t) == faults < MaxFaults /\ faults' = faults + 1 /\ Raises(t)

\* PostgreSQL's deadlock detector aborts one of the transactions on a cycle. (The worker as the
\* victim is a Fault: it would come back and could be the victim for ever.)
DetectDeadlock(t) == t # "worker" /\ Deadlocked(t) /\ UNCHANGED faults /\ Raises(t)

\* The worker process dies: the tick, its handler and the running resyncs are gone, and their
\* jobs with them (module JobQueue).
WorkerCrash ==
  /\ faults < MaxFaults /\ faults' = faults + 1
  /\ LET T == {"worker", "tick"} \cup Resyncs IN
     /\ EndTx(T, {})
     /\ Waste(T)
  /\ Leave({"worker"})
  /\ todo' = None /\ current' = None
  /\ phase' = [r \in Resyncs |-> IF phase[r] = "read" THEN "read" ELSE "over"]
  /\ plan' = [r \in Resyncs |-> Nothing]
  /\ UNCHANGED <<due, flow, sends, clicked>>

-----------------------------------------------------------------------------
(* The clock and the administrator *)

BecomesDue(j) ==
  /\ job[j] = "pending" /\ j \notin due
  /\ due' = due \cup {j}
  /\ UNCHANGED <<rows, tick, disp, script, flow, faults, hist>>

\* update_flow toggles is_active; delete_flow sets the enrollment's flow_id to NULL.
EditFlow ==
  /\ flow # "deleted" /\ enrOwner = None
  /\ flow' \in {"active", "inactive", "deleted"} \ {flow}
  /\ UNCHANGED <<rows, tick, disp, script, due, faults, hist>>

Next ==
  \/ Ticking
  \/ \E t \in Senders : Dispatching(t) \/ SendFails(t)
  \/ \E c \in Clicks : Clicking(c) \/ \E s \in Steps : Click(c, s)
  \/ \E r \in Resyncs : Resyncing(r)
  \/ \E t \in Txs : Fault(t) \/ DetectDeadlock(t)
  \/ WorkerCrash
  \/ \E j \in Jobs : BecomesDue(j)
  \/ EditFlow

Spec == Init /\ [][Next]_vars

\* The tick loop runs for ever, a request and a handler go on unless they wait for a lock, and
\* the deadlock detector runs; nothing is assumed of clicks, edits, the clock and faults.
Fairness ==
  /\ WF_vars(Ticking)
  /\ \A t \in Senders : WF_vars(Dispatching(t))
  /\ \A c \in Clicks : WF_vars(Clicking(c))
  /\ \A r \in Resyncs : WF_vars(Resyncing(r))
  /\ WF_vars(\E t \in Txs : DetectDeadlock(t))

FairSpec == Spec /\ Fairness

-----------------------------------------------------------------------------
(* Properties *)

TypeOK ==
  /\ step \in [Steps -> [status : Statuses \cup {"none"}, job : Jobs \cup {None}]]
  /\ stepNew \in [Steps -> [status : Statuses \cup {"none"}, job : Jobs \cup {None}]]
  /\ stepOwner \in [Steps -> Senders \cup Resyncs \cup {None}]
  /\ {job, jobNew} \subseteq [Jobs -> {"none", "pending", "executed", "cancelled"}]
  /\ jobOwner \in [Jobs -> Clicks \cup Resyncs \cup {"tick", None}]
  /\ target \in [Jobs -> Steps \cup {None}]
  /\ enr \in {"active", "completed"} /\ {enrOwner, histOwner} \subseteq Senders \cup {None}
  /\ todo = None \/ todo \subseteq due
  /\ current = None \/ current \in todo
  /\ at \in [Senders -> Steps \cup {None}] /\ loaded \in [Senders -> Jobs \cup {None}]
  /\ due \subseteq Jobs /\ flow \in {"active", "inactive", "deleted"} /\ faults \in 0..MaxFaults
  /\ phase \in [Resyncs -> {"read", "write", "over"}] /\ plan \in [Resyncs -> [Synced -> Work]]
  /\ {sends, wasted, clicked} \subseteq [Steps -> Nat]

\* A step is messaged again only after a send whose transaction was rolled back or on a
\* dispatch-now request: the scheduler, which redoes a whole tick when a handler raises, and a
\* resync, which replaces jobs, never repeat a message.
DuplicatesExplained == \A s \in Steps : sends[s] <= 1 + wasted[s] + clicked[s]

\* A step recorded as sent was sent by a transaction that was not rolled back.
SentWasSent == \A s \in Steps : step[s].status = "sent" => sends[s] > wasted[s]

\* A pending step is not forgotten: the job it names is pending and will dispatch it, whatever
\* ticks, dispatch-now requests and resyncs have cancelled, replaced or rolled back.
PendingHasJob ==
  \A s \in Steps : step[s].status = "pending" =>
                     /\ job[step[s].job] = "pending"
                     /\ target[step[s].job] = s

\* The enrollment completes with its last message, also when the scheduler and a dispatch-now
\* request send the last two at once and each reads the other's step as still pending: the
\* update of the history row they share makes the second wait for the first.
AllSentCompletes ==
  (\A s \in Steps : step[s].status \in {"sent", "none"}) => enr = "completed"

\* A step that was sent, failed or was cancelled never becomes pending again, and keeps its
\* status unless a dispatch-now request has reset it (then the scheduler may overwrite what the
\* request recorded: it may have cancelled a job that a resync had replaced), or unless it was
\* cancelled and turns out to be sent: of two resyncs that overlap, the one that cancels the
\* step knows the other's new job by no id and does not stop its dispatch.
SettledStays ==
  [][\A s \in Steps :
       step[s].status \notin {"none", "pending"} /\ step'[s].status # step[s].status
         => /\ step'[s].status # "pending"
            /\ clicked[s] > 0 \/ (step[s].status = "cancelled" /\ step'[s].status = "sent")]_vars

\* Every job whose time has come is executed or cancelled, or the scheduler is stuck for ever:
\* no job stays due and pending (a settled one is never pending again, and jobs are finitely many).
DueSettles == []<>((\A j \in due : job[j] # "pending") \/ Stuck)

\* To be violated: the scheduler does not freeze on the row locks of a transaction that never
\* ends (runner.py:39-41 says this was corrected).
NeverStuck == ~Stuck

=============================================================================
