----------------------------- MODULE SaleIntake -----------------------------
(***************************************************************************)
(* A sale's way from the payment gateway into the tables: the two Hubla    *)
(* webhooks with their Redis deduplication, the hubla_event job that       *)
(* records the event and the lead, enrolls the buyer in the onboarding     *)
(* flows and opens the access case, and the administrator who maps an      *)
(* unknown product and reprocesses the events that met it.                 *)
(*                                                                         *)
(* One product id is followed, mapped to a course or not; the pages of the *)
(* catalog map it and take the mapping away again.  Every buyer has a      *)
(* valid phone.  The job queue is what JobQueue promises: a job is         *)
(* executed, retried up to MaxRetries attempts, then kept in the DLQ.      *)
(* webhook_events is written by every accepted request and read by         *)
(* nothing, so it is left out.                                             *)
(***************************************************************************)
EXTENDS Integers, Sequences, FiniteSets, SequencesExt

CONSTANTS Sales,       \* subscription ids; a buyer buys once
          Kinds,       \* event types the gateway emits for a sale
          Requests,    \* HTTP requests of the gateway
          Admins,      \* reprocess requests
          Flows,       \* active flows of the course, all on an activation event
          Welcome,     \* is welcome_purchase_template configured?
          MaxRetries,  \* attempts of a job
          MaxFaults,   \* bound on failed calls and crashes
          MaxJobs,     \* bound on jobs ever inserted
          MaxExpiries, \* bound on deduplication keys that reach their TTL
          MaxChanges,  \* bound on changes of the product's mapping
          None         \* nothing read, no request

ASSUME KindsAssumption == Kinds \subseteq {"activated", "added", "canceled"}
ASSUME BoundsAssumption ==
  /\ MaxRetries \in Nat \ {0} /\ MaxFaults \in Nat /\ MaxJobs \in Nat
  /\ MaxExpiries \in Nat /\ MaxChanges \in Nat /\ Welcome \in BOOLEAN
ASSUME NoneAssumption == None \notin Sales

VARIABLES
  marks,    \* dedup keys present in Redis
  http,     \* per request: the key it computed and how far it is
  jobs,     \* jobs in order of insertion, ended ones included
  log,      \* rows of hubla_events per sale and kind
  lead,     \* per sale: no row, or its product_unmatched
  judged,   \* history, per sale: when the product was looked up for that verdict
  enrolled, \* per sale: flows with an enrollment
  enrolledAt, \* history, per sale: when the product was looked up for the latest of them
  cases,    \* sales with an access case (purchase_id is unique)
  welcomed, \* per sale: welcome templates the buyer has been sent
  mapped,   \* does the product id, an alias or the name resolve to a course?
  changes,  \* how often the mapping has changed: the time of a lookup
  read,     \* per reprocess request: the hubla_events rows it has selected
  faults, expiries

sales   == <<log, lead, judged, enrolled, enrolledAt, cases>>
tables  == <<sales, welcomed>>
catalog == <<mapped, changes>>
vars    == <<marks, http, jobs, tables, catalog, read, faults, expiries>>

Events == Sales \X Kinds
PurchaseKinds == {"activated"}              \* PURCHASE_EVENT_TYPES
ActivationKinds == {"activated", "added"}   \* ACTIVATION_EVENT_TYPES

\* dedup:hubla:{type}:{sale} and dedup:purchase:{sale}; the older endpoint
\* parses subscription.activated only and refuses the rest with a 422.
Keys == {[route |-> "hubla", sale |-> e[1], kind |-> e[2]] : e \in Events}
        \cup {[route |-> "purchase", sale |-> e[1], kind |-> e[2]] :
                e \in Sales \X (Kinds \cap PurchaseKinds)}

Inside == {"persisted", "matched", "unmatched", "enrolled", "sold"}   \* transaction open
Job == [route : {"hubla", "purchase", "reprocess"}, sale : Sales, kind : Kinds,
        hope : BOOLEAN, attempt : 1..MaxRetries,
        pc : {"queued", "done", "dead", "lost"} \cup Inside,
        match : BOOLEAN, at : 0..MaxChanges, flows : SUBSET Flows]

TypeOK ==
  /\ marks \subseteq Keys
  /\ http \in [Requests -> [key : Keys \cup {None},
                            pc : {"idle", "marked", "accepted", "duplicate", "failed"}]]
  /\ jobs \in Seq(Job) /\ Len(jobs) <= MaxJobs
  /\ log \in [Events -> 0..MaxJobs]
  /\ lead \in [Sales -> {"none", "matched", "unmatched"}]
  /\ enrolled \in [Sales -> SUBSET Flows]
  /\ judged \in [Sales -> 0..MaxChanges] /\ enrolledAt \in [Sales -> 0..MaxChanges]
  /\ cases \subseteq Sales
  /\ welcomed \in [Sales -> Nat]
  /\ mapped \in BOOLEAN /\ changes \in 0..MaxChanges
  /\ read \in [Admins -> {None} \cup SUBSET (Events \X (1..MaxJobs))]
  /\ faults \in 0..MaxFaults /\ expiries \in 0..MaxExpiries

Init ==
  /\ marks = {} /\ jobs = << >> /\ cases = {}
  /\ http = [r \in Requests |-> [key |-> None, pc |-> "idle"]]
  /\ log = [e \in Events |-> 0]
  /\ lead = [s \in Sales |-> "none"]
  /\ enrolled = [s \in Sales |-> {}]
  /\ judged = [s \in Sales |-> 0] /\ enrolledAt = [s \in Sales |-> 0]
  /\ welcomed = [s \in Sales |-> 0]
  /\ mapped \in BOOLEAN /\ changes = 0
  /\ read = [a \in Admins |-> None]
  /\ faults = 0 /\ expiries = 0

Fault == faults < MaxFaults /\ faults' = faults + 1

-----------------------------------------------------------------------------
(* The webhooks.  The gateway delivers an event as often as it likes, on    *)
(* either endpoint, again in particular after anything but a 2xx answer.    *)

\* try_mark, SET key NX EX: the first request owns the key, the others are
\* answered 202 with duplicate: true.
Receive(r, k) ==
  /\ http[r].pc = "idle"
  /\ http' = [http EXCEPT ![r] =
                [key |-> k, pc |-> IF k \in marks THEN "duplicate" ELSE "marked"]]
  /\ marks' = marks \cup {k}
  /\ UNCHANGED <<jobs, tables, catalog, read, faults, expiries>>

\* An inserted row of job_queue; hope marks those reprocessed for a mapped product.
NewJob(route, sale, kind) ==
  [route |-> route, sale |-> sale, kind |-> kind,
   hope |-> mapped /\ route = "reprocess", attempt |-> 1,
   pc |-> "queued", match |-> FALSE, at |-> 0, flows |-> {}]

\* queue.enqueue commits; a fault here is a crash before the answer is out.
Enqueue(r) ==
  /\ http[r].pc = "marked" /\ Len(jobs) < MaxJobs
  /\ LET k == http[r].key IN jobs' = Append(jobs, NewJob(k.route, k.sale, k.kind))
  /\ \/ http' = [http EXCEPT ![r].pc = "accepted"] /\ UNCHANGED faults
     \/ http' = [http EXCEPT ![r].pc = "failed"] /\ Fault
  /\ UNCHANGED <<marks, tables, catalog, read, expiries>>

\* insert_if_new or enqueue raises, or the API process dies: no 202 is sent.
RequestFails(r) ==
  /\ http[r].pc = "marked"
  /\ http' = [http EXCEPT ![r].pc = "failed"]
  /\ Fault
  /\ UNCHANGED <<marks, jobs, tables, catalog, read, expiries>>

InFlight(k) == \E r \in Requests : http[r].key = k /\ http[r].pc = "marked"

\* A key's TTL, 24 hours, is longer than any request.
KeyExpires(k) ==
  /\ k \in marks /\ ~InFlight(k)
  /\ expiries < MaxExpiries
  /\ marks' = marks \ {k}
  /\ expiries' = expiries + 1
  /\ UNCHANGED <<http, jobs, tables, catalog, read, faults>>

-----------------------------------------------------------------------------
(* HublaEventHandler: one transaction, opened by the contact's upsert.      *)

api == <<marks, http, catalog, read, expiries>>

Goto(j, pc) == jobs' = [jobs EXCEPT ![j].pc = pc]

\* An ended job, with nothing of its transaction left.
Ended(job, pc) == [job EXCEPT !.pc = pc, !.attempt = 1, !.match = FALSE, !.at = 0, !.flows = {}]

\* Faulty variant: INSERT ... ON CONFLICT DO NOTHING, which locks no row.
UnlockedContact(s) == FALSE

\* Some open transaction has upserted the buyer's contact: ON CONFLICT DO
\* UPDATE waits for it.
ContactLocked(s) == \E i \in DOMAIN jobs : jobs[i].sale = s /\ jobs[i].pc \in Inside

\* dequeue, contact_repo.upsert, hubla_event_repo.insert and lead_repo.upsert.
Persist(j) ==
  /\ jobs[j].pc = "queued" /\ ~ContactLocked(jobs[j].sale)
  /\ Goto(j, "persisted")
  /\ UNCHANGED <<api, tables, faults>>

\* _route: the product by hubla_id, by alias or by name.
Route(j) ==
  /\ jobs[j].pc = "persisted"
  /\ jobs' = [jobs EXCEPT ![j].pc = IF mapped THEN "matched" ELSE "unmatched",
                          ![j].match = mapped, ![j].at = changes]
  /\ UNCHANGED <<api, tables, faults>>

FlowsFor(kind) == IF kind \in ActivationKinds THEN Flows ELSE {}

\* The loop over the flows: a failure is logged and the loop goes on; a flow the
\* buyer is already enrolled in only rolls its savepoint back.
Enroll(j) ==
  /\ jobs[j].pc = "matched"
  /\ \E fs \in SUBSET FlowsFor(jobs[j].kind) :
        /\ jobs' = [jobs EXCEPT ![j].pc = "enrolled", ![j].flows = fs]
        /\ IF fs = FlowsFor(jobs[j].kind) THEN UNCHANGED faults ELSE Fault
  /\ UNCHANGED <<api, tables>>

\* Faulty variant: the job is not inserted again.
RaiseForgets(j) == jobs' = [jobs EXCEPT ![j] = Ended(@, "done")]

\* Faulty variant: one attempt too many.
RaiseLate(j) ==
  jobs' = [jobs EXCEPT ![j].pc = IF jobs[j].attempt <= MaxRetries THEN "queued" ELSE "dead",
                       ![j].attempt = @ + 1, ![j].match = FALSE, ![j].at = 0, ![j].flows = {}]

\* The transaction is rolled back; the dispatcher retries or buries the job.
Raise(j) ==
  jobs' = [jobs EXCEPT ![j].pc = IF jobs[j].attempt < MaxRetries THEN "queued" ELSE "dead",
                       ![j].attempt = IF @ < MaxRetries THEN @ + 1 ELSE @,
                       ![j].match = FALSE, ![j].at = 0, ![j].flows = {}]

Purchase(j) == jobs[j].kind \in PurchaseKinds

\* Faulty variant: a second case of the sale is tolerated like a failed flow.
SellTolerant(j) ==
  /\ Purchase(j) /\ jobs[j].pc \in {"enrolled", "unmatched"}
  /\ Goto(j, "sold")
  /\ welcomed' = IF Welcome /\ jobs[j].sale \notin cases
                   THEN [welcomed EXCEPT ![jobs[j].sale] = @ + 1] ELSE welcomed
  /\ UNCHANGED <<api, sales, faults>>

\* PurchaseHandler.handle_one: the access case is flushed, then the optional
\* welcome template is sent.  A second case of a purchase_id is an
\* IntegrityError that no one catches.
Sell(j) ==
  /\ Purchase(j) /\ jobs[j].pc \in {"enrolled", "unmatched"}
  /\ IF jobs[j].sale \in cases
       THEN Raise(j) /\ UNCHANGED welcomed
       ELSE /\ Goto(j, "sold")
            /\ welcomed' = IF Welcome THEN [welcomed EXCEPT ![jobs[j].sale] = @ + 1] ELSE welcomed
  /\ UNCHANGED <<api, sales, faults>>

\* set_product_unmatched(not matched), mark_processed, commit.
Commit(j) ==
  /\ IF Purchase(j) THEN jobs[j].pc = "sold" ELSE jobs[j].pc \in {"enrolled", "unmatched"}
  /\ LET s == jobs[j].sale IN
       /\ log' = [log EXCEPT ![<<s, jobs[j].kind>>] = @ + 1]
       /\ lead' = [lead EXCEPT ![s] = IF jobs[j].match THEN "matched" ELSE "unmatched"]
       /\ judged' = [judged EXCEPT ![s] = jobs[j].at]
       /\ enrolled' = [enrolled EXCEPT ![s] = @ \cup jobs[j].flows]
       /\ enrolledAt' = [enrolledAt EXCEPT ![s] = IF jobs[j].flows = {} THEN @ ELSE jobs[j].at]
       /\ cases' = IF Purchase(j) THEN cases \cup {s} ELSE cases
  /\ jobs' = [jobs EXCEPT ![j] = Ended(@, "done")]
  /\ UNCHANGED <<api, welcomed, faults>>

\* ChatNexo answers an error in handle_one, or the database fails.
HandlerFails(j) ==
  /\ jobs[j].pc \in Inside
  /\ Raise(j) /\ Fault
  /\ UNCHANGED <<api, tables>>

\* The worker dies: its transactions roll back, and the jobs it has dequeued,
\* which may wait for a lock or a slot, are gone.
WorkerCrash ==
  /\ Fault
  /\ \E S \in SUBSET {j \in DOMAIN jobs : jobs[j].pc = "queued"} :
        jobs' = [j \in DOMAIN jobs |->
                   IF j \in S \/ jobs[j].pc \in Inside
                     THEN Ended(jobs[j], "lost")
                     ELSE jobs[j]]
  /\ UNCHANGED <<api, tables>>

-----------------------------------------------------------------------------
(* The administrator *)

Remap ==
  /\ changes < MaxChanges
  /\ mapped' = ~mapped /\ changes' = changes + 1
  /\ UNCHANGED <<marks, http, jobs, tables, read, faults, expiries>>

\* POST /unmapped-products/resolve: an alias maps the product id.  (Nothing happens if the
\* id has an alias already, that of a product no longer active.)
Resolve == ~mapped /\ Remap

\* POST, PUT and DELETE /products: a product without flows is deleted, one is deactivated or
\* gets another id or name, a namesake makes the name ambiguous; or the reverse.
EditProducts == Remap

\* The SELECT of reprocess: the events of leads still unmatched.
ReprocessReads(a) ==
  /\ read[a] = None
  /\ read' = [read EXCEPT ![a] =
                {row \in Events \X (1..MaxJobs) :
                   lead[row[1][1]] = "unmatched" /\ row[2] <= log[row[1]]}]
  /\ UNCHANGED <<marks, http, jobs, tables, catalog, faults, expiries>>

\* Its INSERTs, one job per event row, and the commit.
ReprocessCommits(a) ==
  /\ read[a] # None
  /\ Len(jobs) + Cardinality(read[a]) <= MaxJobs
  /\ LET rows == SetToSeq(read[a]) IN
       jobs' = jobs \o [i \in DOMAIN rows |->
                          NewJob("reprocess", rows[i][1][1], rows[i][1][2])]
  /\ read' = [read EXCEPT ![a] = None]
  /\ UNCHANGED <<marks, http, tables, catalog, faults, expiries>>

\* POST /dlq/{id}/requeue.
Requeue(j) ==
  /\ jobs[j].pc = "dead"
  /\ jobs' = [jobs EXCEPT ![j].pc = "queued", ![j].attempt = 1]
  /\ UNCHANGED <<api, tables, faults>>

Handle(j) == Persist(j) \/ Route(j) \/ Enroll(j) \/ Sell(j) \/ Commit(j)

Next ==
  \/ \E r \in Requests, k \in Keys : Receive(r, k)
  \/ \E r \in Requests : Enqueue(r) \/ RequestFails(r)
  \/ \E k \in Keys : KeyExpires(k)
  \/ \E j \in DOMAIN jobs : Handle(j) \/ HandlerFails(j) \/ Requeue(j)
  \/ \E a \in Admins : ReprocessReads(a) \/ ReprocessCommits(a)
  \/ Resolve \/ EditProducts \/ WorkerCrash

Spec == Init /\ [][Next]_vars

\* The dispatcher keeps running what it has dequeued; a row lock is granted in
\* the order of the waiters, so a waiting handler is not overtaken for ever.
Fairness == \A j \in 1..MaxJobs :
  /\ WF_vars(j \in DOMAIN jobs /\ Handle(j))
  /\ SF_vars(j \in DOMAIN jobs /\ Persist(j))

FairSpec == Spec /\ Fairness

-----------------------------------------------------------------------------
(* What must hold *)

\* A lead shown as pending although its buyer is enrolled was judged after the mapping was
\* taken away: of two events of one sale, the one that met no product cannot overwrite the
\* verdict of one that met it at the same time or later, because the product is looked up
\* under the contact's row lock.
PendingIsNewer ==
  \A s \in Sales : lead[s] = "unmatched" /\ enrolled[s] # {} => enrolledAt[s] < judged[s]

\* The event row of a purchase and its access case come into being together,
\* and once per sale, whatever is redelivered, retried, reprocessed or lost.
PurchaseLoggedWithCase ==
  \A s \in Sales : "activated" \in Kinds =>
     log[<<s, "activated">>] = (IF s \in cases THEN 1 ELSE 0)

\* A buyer is welcomed more than once only after a call failed or a worker died
\* in between, never because an event came again.
WelcomesExplained == \A s \in Sales : welcomed[s] <= 1 + faults

\* A purchase takes effect once, whole.
PurchaseOnce == PurchaseLoggedWithCase /\ WelcomesExplained

\* An event accepted as new reaches the event log, unless a crash has taken a
\* job or as many calls failed as a job has attempts: time and again (an accepted
\* request stays accepted, a row stays in the log) none is missing.
AcceptedArrives ==
  []<>(\A k \in Keys : (\E r \in Requests : http[r] = [key |-> k, pc |-> "accepted"])
         => \/ log[<<k.sale, k.kind>>] > 0
            \/ faults >= MaxRetries
            \/ \E j \in DOMAIN jobs : jobs[j].pc = "lost")

\* What webhook_hubla says of its deduplication, better process twice than lose
\* a sale in silence: once the gateway has a 202, the event has a job.
NoSilentLoss ==
  \A r \in Requests :
     http[r].pc \in {"accepted", "duplicate"} /\ ~InFlight(http[r].key)
       => \E j \in DOMAIN jobs :
            jobs[j].sale = http[r].key.sale /\ jobs[j].kind = http[r].key.kind

\* What unmapped_products says of reprocess, the pipeline runs again and now
\* matches the product: with no call failing, no such job ends in the DLQ.
ReprocessWorks ==
  \A j \in DOMAIN jobs :
     jobs[j].hope /\ faults = 0 => jobs[j].pc # "dead"

=============================================================================
