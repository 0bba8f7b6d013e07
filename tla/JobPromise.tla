------------------------------ MODULE JobPromise ------------------------------
(***************************************************************************)
(* What the job queue promises those who enqueue, whatever tables, workers *)
(* and requests are behind it: a job is worked on by one worker at a time, *)
(* at most MaxRetries times; it ends once, and only from a worker's hands; *)
(* it is parked in the dead-letter table after exactly MaxRetries failures *)
(* and leaves it only by an administrator's hand.  What is promised least: *)
(* a job in a worker's hands is lost with the worker.                      *)
(***************************************************************************)
EXTENDS Naturals

CONSTANTS Subs, MaxRetries

VARIABLES place,  \* where each submission is, or how it ended
          tries   \* how often its handler was entered

pvars == <<place, tries>>

InHand == {"taken", "running", "failed"}
Places == {"none", "queued", "parked", "done", "dropped", "deleted", "requeued",
           "swept", "cancelled", "crashed"} \cup InHand

At(p) == {g \in Subs : place[g] = p}

Init ==
  /\ place = [g \in Subs |-> "none"]
  /\ tries = [g \in Subs |-> 0]

Goes(g, from, to) == place[g] = from /\ place' = [place EXCEPT ![g] = to]

Submit(g) == Goes(g, "none", "queued") /\ UNCHANGED tries

Take(g) == Goes(g, "queued", "taken") /\ UNCHANGED tries

\* No handler for its kind.
Drop(g) == Goes(g, "queued", "dropped") /\ UNCHANGED tries

Run(g) == Goes(g, "taken", "running") /\ tries' = [tries EXCEPT ![g] = @ + 1]

Finish(g) == Goes(g, "running", "done") /\ UNCHANGED tries

Stumble(g) == Goes(g, "running", "failed") /\ UNCHANGED tries

Retry(g) == tries[g] < MaxRetries /\ Goes(g, "failed", "queued") /\ UNCHANGED tries

Park(g) == tries[g] = MaxRetries /\ Goes(g, "failed", "parked") /\ UNCHANGED tries

Delete(g) == Goes(g, "parked", "deleted") /\ UNCHANGED tries

\* A worker goes, and what it had in hand with it.
Lose(lost, why) ==
  /\ \A g \in lost : place[g] \in InHand
  /\ place' = [g \in Subs |-> IF g \in lost THEN why ELSE place[g]]
  /\ UNCHANGED tries

\* Some parked jobs are seen and start anew under other names; what is removed
\* was seen, or is swept along.
Requeue(seen, child, removed) ==
  /\ \A g, h \in seen : child[g] = child[h] => g = h
  /\ place' = [g \in Subs |->
                 IF \E h \in seen : child[h] = g THEN "queued"
                 ELSE IF g \in removed THEN IF g \in seen THEN "requeued" ELSE "swept"
                 ELSE place[g]]
  /\ UNCHANGED tries

Next ==
  \/ \E g \in Subs : \/ Submit(g) \/ Take(g) \/ Drop(g) \/ Run(g) \/ Finish(g)
                     \/ Stumble(g) \/ Retry(g) \/ Park(g) \/ Delete(g)
  \/ \E lost \in SUBSET Subs, why \in {"cancelled", "crashed"} : Lose(lost, why)
  \/ \E seen \in SUBSET (Subs \ At("none")), removed \in SUBSET At("parked") :
       \E child \in [seen -> At("none")] : Requeue(seen, child, removed)

Spec == Init /\ [][Next]_pvars

=============================================================================
