------------------------------ MODULE FlowSync ------------------------------
(***************************************************************************)
(* Keeping an enrollment in step with the onboarding flow it was made      *)
(* from.  An edit of the flow's steps commits together with a resync_flow  *)
(* job (outbox); the worker's handler later reads the flow and the         *)
(* enrollment, computes a diff (compute_diff) and applies it.  The         *)
(* synchronisation of the templates with Meta deletes steps too, and       *)
(* queues no resync.  Enrollment (EnrollContact), edits, resyncs and       *)
(* dispatches are interleaved at the points where they read and commit;    *)
(* the row locks under a resync are in module Dispatch.                    *)
(*                                                                         *)
(* Times are minutes after the purchase; the content of a message (its     *)
(* template, text and variables) is one value; is_active is left out.      *)
(***************************************************************************)
EXTENDS Naturals, FiniteSets, SequencesExt

CONSTANTS StepIds,    \* identities of flow steps
          Delays, Contents, Positions,
          FirstFlow,  \* the flow's steps at the start
          Enrollers,  \* deliveries of the one purchase that enrolls the contact
          Resyncs,    \* resync_flow handlers that can run at once
          Outcomes,   \* what a dispatch can leave a step as
          MaxEdits,   \* bound on the changes of the flow's steps
          Null

Step == [position : Positions, delay : Delays, content : Contents]

ASSUME DataAssumption == Delays \subseteq Nat /\ Positions \subseteq Nat
ASSUME FlowAssumption ==
  \E S \in SUBSET StepIds : IsFiniteSet(S) /\ FirstFlow \in [S -> Step]
ASSUME OutcomesAssumption == Outcomes \subseteq {"sent", "failed", "cancelled"}
ASSUME NullAssumption == Null \notin StepIds \cup Nat
ASSUME EditsAssumption == MaxEdits \in Nat

VARIABLES
  flow,       \* the flow's steps, a function of their identities
  live,       \* FALSE once the flow is deleted
  used,       \* identities ever given to a step
  enr,        \* the enrollment's status
  rows,       \* its steps; <<f, k>> is the k-th row made from the flow step f
  reading,    \* per enroller: the flow's steps it has read
  queued,     \* resync_flow jobs in the queue
  plan,       \* per resync: the diff it has computed
  version,    \* history: number of the changes of the flow's steps so far
  promised,   \* history: version of the last of them that queued a resync
  newest,     \* history: latest version a resync has read
  applied,    \* history: version of the last diff applied to the enrollment, Null if none
  overlapped, \* history: two resyncs were between reading and committing at once
  lost        \* history: a resync job died with the worker or failed

edited == <<flow, live, used, version, promised>>
hist   == <<newest, applied, overlapped, lost>>
vars   == <<edited, enr, rows, reading, queued, plan, hist>>

Statuses == {"pending", "sent", "failed", "cancelled"}

Init ==
  /\ flow = FirstFlow /\ live = TRUE /\ used = DOMAIN FirstFlow
  /\ enr = "none" /\ rows = <<>>
  /\ reading = [e \in Enrollers |-> Null]
  /\ queued = 0 /\ plan = [r \in Resyncs |-> Null]
  /\ version = 0 /\ promised = 0 /\ newest = 0 /\ applied = Null
  /\ overlapped = FALSE /\ lost = FALSE

-----------------------------------------------------------------------------
(* admin/onboarding.py: each edit commits with its resync job *)

\* Faulty variant: the request enqueues the job itself, besides the outbox.
EditQueuedTwice ==
  /\ live /\ version < MaxEdits
  /\ version' = version + 1 /\ promised' = version + 1
  /\ queued' = queued + 2
  /\ UNCHANGED <<live, enr, rows, reading, plan, hist>>

Edit ==
  /\ live /\ version < MaxEdits
  /\ version' = version + 1 /\ promised' = version + 1
  /\ queued' = queued + 1
  /\ UNCHANGED <<live, enr, rows, reading, plan, hist>>

\* The position is the request's or len(existing) + 1.
CreateStep ==
  /\ Edit
  /\ \E f \in StepIds \ used, v \in Step :
       /\ flow' = [g \in DOMAIN flow \cup {f} |-> IF g = f THEN v ELSE flow[g]]
       /\ used' = used \cup {f}

\* update_step and reorder_steps, which moves any number of steps.
UpdateSteps ==
  /\ Edit
  /\ \/ \E f \in DOMAIN flow, v \in Step : flow' = [flow EXCEPT ![f] = v]
     \/ \E p \in [DOMAIN flow -> Positions] :
          flow' = [f \in DOMAIN flow |-> [flow[f] EXCEPT !.position = p[f]]]
  /\ UNCHANGED used

DeleteStep ==
  /\ Edit
  /\ \E f \in DOMAIN flow : flow' = [g \in DOMAIN flow \ {f} |-> flow[g]]
  /\ UNCHANGED used

\* SyncMetaTemplates deletes the steps whose template Meta no longer lists, all in one
\* transaction, and queues no resync. Which steps these are depends on Meta: any of them.
SyncTemplates ==
  /\ live /\ version < MaxEdits
  /\ \E gone \in SUBSET DOMAIN flow \ {{}} :
       flow' = [g \in DOMAIN flow \ gone |-> flow[g]]
  /\ version' = version + 1
  /\ UNCHANGED <<live, used, promised, enr, rows, reading, queued, plan, hist>>

\* delete_flow cascades to the steps, sets the enrollment's flow_id to NULL and queues nothing.
DeleteFlow ==
  /\ live
  /\ live' = FALSE /\ flow' = <<>>
  /\ UNCHANGED <<used, version, promised, enr, rows, reading, queued, plan, hist>>

-----------------------------------------------------------------------------
(* EnrollContact *)

BeginEnroll(e) ==
  /\ reading[e] = Null /\ live /\ DOMAIN flow # {}
  /\ reading' = [reading EXCEPT ![e] = flow]
  /\ UNCHANGED <<edited, enr, rows, queued, plan, hist>>

DelaysOf(fl) == [f \in DOMAIN fl |-> fl[f].delay]

\* The steps in the order the query returns them: by position, ties in any order.
Orders(fl) == {q \in SetToSeqs(DOMAIN fl) :
                 \A i, j \in DOMAIN q : i < j => fl[q[i]].position <= fl[q[j]].position}

\* create_with_steps: run_at accumulates along the order; flow_step_id is not written.
FirstRows(fl, q) ==
  [x \in {<<f, 1>> : f \in DOMAIN fl} |->
     LET n == CHOOSE i \in DOMAIN q : q[i] = x[1] IN
     [fs |-> Null, status |-> "pending", delay |-> fl[x[1]].delay, content |-> fl[x[1]].content,
      runAt |-> SumFunctionOnSet(DelaysOf(fl), {q[i] : i \in 1..n})]]

\* The unique key of the purchase, or the foreign key to a deleted flow, undoes the savepoint.
CommitEnroll(e) ==
  /\ reading[e] # Null
  /\ IF enr = "none" /\ live
       THEN /\ enr' = "active"
            /\ \E q \in Orders(reading[e]) : rows' = FirstRows(reading[e], q)
       ELSE UNCHANGED <<enr, rows>>
  /\ reading' = [reading EXCEPT ![e] = Null]
  /\ UNCHANGED <<edited, queued, plan, hist>>

-----------------------------------------------------------------------------
(* compute_diff and ResyncEnrollmentUseCase *)

RowsOf(f, rs) == {x \in DOMAIN rs : rs[x].fs = f}

Known(rs) == {rs[x].fs : x \in DOMAIN rs} \ {Null}

\* enr_by_flow_step: one row for each flow_step_id, the last one if there are several.
Indexes(rs) == {d \in [Known(rs) -> DOMAIN rs] : \A f \in Known(rs) : d[f] \in RowsOf(f, rs)}

\* Faulty variant: a changed content goes unnoticed unless the delay changed too.
DiffOfDelays(fl, rs, d) ==
  [add        |-> DOMAIN fl \ DOMAIN d,
   reschedule |-> {d[f] : f \in {g \in DOMAIN fl \cap DOMAIN d :
                                   rs[d[g]].status = "pending" /\ rs[d[g]].delay # fl[g].delay}},
   update     |-> {},
   cancel     |-> {x \in DOMAIN rs : /\ rs[x].fs # Null /\ rs[x].fs \notin DOMAIN fl
                                     /\ rs[x].status = "pending"}]

\* compute_diff(flow_steps, enrollment_steps), for an index d of the rows.
Diff(fl, rs, d) ==
  LET open == {f \in DOMAIN fl \cap DOMAIN d : rs[d[f]].status = "pending"}
      moved == {f \in open : rs[d[f]].delay # fl[f].delay}
  IN [add        |-> DOMAIN fl \ DOMAIN d,
      reschedule |-> {d[f] : f \in moved},
      update     |-> {d[f] : f \in {g \in open \ moved : rs[d[g]].content # fl[g].content}},
      cancel     |-> {x \in DOMAIN rs : /\ rs[x].fs # Null /\ rs[x].fs \notin DOMAIN fl
                                        /\ rs[x].status = "pending"}]

\* run_at_by_position: steps with equal positions all get the last one's time.
RunAt(fl, f) ==
  SumFunctionOnSet(DelaysOf(fl), {g \in DOMAIN fl : fl[g].position <= fl[f].position})

Copied(row, fl, f) == [row EXCEPT !.delay = fl[f].delay, !.content = fl[f].content]

Fresh(rs, f) == <<f, 1 + Cardinality({x \in DOMAIN rs : x[1] = f})>>

\* The UPDATEs of steps apply WHERE status = 'pending'.
Apply(rs, fl, df) ==
  LET new == {Fresh(rs, f) : f \in df.add} IN
  [x \in DOMAIN rs \cup new |->
     IF x \in new
       THEN [fs |-> x[1], status |-> "pending", delay |-> fl[x[1]].delay,
             content |-> fl[x[1]].content, runAt |-> RunAt(fl, x[1])]
     ELSE IF rs[x].status # "pending" THEN rs[x]
     ELSE IF x \in df.reschedule
       THEN [Copied(rs[x], fl, rs[x].fs) EXCEPT !.runAt = RunAt(fl, rs[x].fs)]
     ELSE IF x \in df.update THEN Copied(rs[x], fl, rs[x].fs)
     ELSE IF x \in df.cancel THEN [rs[x] EXCEPT !.status = "cancelled"]
     ELSE rs[x]]

Running == {r \in Resyncs : plan[r] # Null}

\* handle_resync_flow starts and reads: find_active_by_flow, get_with_steps, get_steps. A
\* deleted flow has no enrollments left.
ResyncReads(r) ==
  /\ plan[r] = Null /\ queued > 0
  /\ queued' = queued - 1
  /\ newest' = version
  /\ IF enr = "active" /\ live
       THEN /\ \E d \in Indexes(rows) :
                 plan' = [plan EXCEPT ![r] = [flow |-> flow, diff |-> Diff(flow, rows, d),
                                              version |-> version]]
            /\ overlapped' = (overlapped \/ Running # {})
       ELSE UNCHANGED <<plan, overlapped>>
  /\ UNCHANGED <<edited, enr, rows, reading, applied, lost>>

ResyncCommits(r) ==
  /\ plan[r] # Null
  /\ rows' = Apply(rows, plan[r].flow, plan[r].diff)
  /\ plan' = [plan EXCEPT ![r] = Null]
  /\ applied' = plan[r].version
  /\ UNCHANGED <<edited, enr, reading, queued, newest, overlapped, lost>>

\* The savepoint rolls back and the error is only logged, or the worker dies.
ResyncFails(r) ==
  /\ plan[r] # Null
  /\ plan' = [plan EXCEPT ![r] = Null]
  /\ lost' = TRUE
  /\ UNCHANGED <<edited, enr, rows, reading, queued, newest, applied, overlapped>>

\* The worker dies with the job taken from the queue and nothing read yet (module JobQueue).
LoseJob ==
  /\ queued > 0
  /\ queued' = queued - 1
  /\ lost' = TRUE
  /\ UNCHANGED <<edited, enr, rows, reading, plan, newest, applied, overlapped>>

\* DispatchOnboardingStep (module Dispatch), at any time.
Dispatch(x) ==
  /\ rows[x].status = "pending"
  /\ \E status \in Outcomes : rows' = [rows EXCEPT ![x].status = status]
  /\ enr' = IF \A y \in DOMAIN rows : rows'[y].status = "sent" THEN "completed" ELSE enr
  /\ UNCHANGED <<edited, reading, queued, plan, hist>>

Next ==
  \/ CreateStep \/ UpdateSteps \/ DeleteStep \/ SyncTemplates \/ DeleteFlow
  \/ \E e \in Enrollers : BeginEnroll(e) \/ CommitEnroll(e)
  \/ \E r \in Resyncs : ResyncReads(r) \/ ResyncCommits(r) \/ ResyncFails(r)
  \/ LoseJob
  \/ \E x \in DOMAIN rows : Dispatch(x)

Spec == Init /\ [][Next]_vars

-----------------------------------------------------------------------------
(* Properties *)

Row == [fs : StepIds \cup {Null}, status : Statuses, delay : Delays, content : Contents,
        runAt : Nat]

TypeOK ==
  /\ flow \in [DOMAIN flow -> Step] /\ DOMAIN flow \subseteq used /\ used \subseteq StepIds
  /\ live \in BOOLEAN /\ enr \in {"none", "active", "completed"}
  /\ rows \in [DOMAIN rows -> Row]
  /\ DOMAIN rows \subseteq used \X Nat
  /\ \A e \in Enrollers : reading[e] = Null \/ reading[e] \in [DOMAIN reading[e] -> Step]
  /\ \A r \in Running : plan[r].flow \in [DOMAIN plan[r].flow -> Step]
  /\ version \in 0..MaxEdits /\ promised \in 0..version
  /\ queued \in 0..promised /\ newest \in 0..version
  /\ applied \in 0..newest \cup {Null}

\* An edit in the panel is never committed without its resync: until a resync has read the
\* latest such edit one is queued, unless the worker died with it. (The deletions of the
\* template synchronisation come without one.)
EditIsQueued == newest < promised => queued > 0 \/ lost

\* Once a resync has applied the latest change of the flow to an enrollment, and no two resyncs
\* overlapped, its steps mirror the flow: each flow step has one row of its own, and each
\* pending row that stands for a flow step has that step's delay and content.
Mirrors(fl, rs) ==
  /\ \A f \in DOMAIN fl : Cardinality(RowsOf(f, rs)) = 1
  /\ \A x \in DOMAIN rs : rs[x].fs # Null /\ rs[x].status = "pending" =>
       /\ rs[x].fs \in DOMAIN fl
       /\ rs[x].delay = fl[rs[x].fs].delay /\ rs[x].content = fl[rs[x].fs].content

Converges == applied = version /\ live /\ ~overlapped => Mirrors(flow, rows)

\* An edit of the flow is on its way to the enrollment or has arrived there; what the template
\* synchronisation deleted arrives with the next edit's resync.
EditArrives == EditIsQueued /\ Converges

=============================================================================
