# Formal models of the Nexo agent platform

TLA+ specifications of the API and the worker in `src/apps/api`, checked with TLC and, where
"Proofs" says so, proved with TLAPS. Paths below are relative to `src/apps/api/src` unless they start
with `src/`.

    tlc -workers 2 -config JobQueue.cfg JobQueue        # any run: see "Runs"
    tlapm JobQueueProofs.tla                            # and the other ...Proofs modules

`PROJECT.json` lists the components, the runs with their properties, a faulty variant of the code
for every property (TLC must find the property violated with it), the source lines behind every
definition, the hazards of the code and the theorems.

## The system

A payment gateway (Hubla) and a chat platform (ChatNexo) call webhooks of a FastAPI process. The
webhooks deduplicate in Redis and write jobs to PostgreSQL. One worker process runs an asyncio
dispatcher over the job queue and a scheduler loop over timed jobs. Administrators use the same
API from a web UI. API, dispatcher coroutines and scheduler share nothing but the database and
Redis, each handler in a session of its own at PostgreSQL's default isolation, READ COMMITTED.
Messages go out through ChatNexo or a message buffer, templates are kept at Meta.

### Inventory

| Component | State | Operations | What makes it hard | Module |
|---|---|---|---|---|
| Job queue and dispatcher (`shared/adapters/db/queue.py`, `interface/worker/dispatcher.py`, `worker.py`, `routers/admin/dlq.py`) | `job_queue`, `job_dlq`, coroutines in memory | enqueue, dequeue (delete before processing), run under a semaphore, retry, bury, stop, DLQ delete and requeue | several workers, stops between deletion and handling, concurrent DLQ requests | JobQueue, JobPromise |
| Scheduler (`application/scheduler/runner.py`, `interface/worker/scheduler.py`, `repositories/scheduled_job.py`) | `scheduled_jobs`, row locks of the tick | schedule, cancel, pick due jobs, mark executed | one transaction for the whole tick around handlers with their own sessions | Dispatch |
| Onboarding dispatch (`onboarding/dispatch_onboarding_step.py`, `routers/admin/onboarding_enrollments.py`) | enrollment, its steps, the contact's history | dispatch by the scheduler, dispatch-now by an administrator | messages leave before the commit; the two race with each other and with a resync | Dispatch |
| Enrollment and resync (`enroll_contact.py`, `diff_flow_steps.py`, `resync_enrollment.py`, `handlers/resync.py`, `routers/admin/onboarding.py`) | flow, flow steps, enrollment steps, outbox jobs | enroll, edit the flow, diff and apply | edits, resyncs and dispatches overlap; reads are applied later | FlowSync |
| Webhook intake and Hubla events (`webhook_hubla.py`, `webhook_purchase.py`, `redis/dedup.py`, `hubla_event_handler.py`, `purchase_handler.py`) | dedup keys, `hubla_events`, `leads`, enrollments, `access_cases` | receive, deduplicate, enqueue, handle in one transaction | redelivery, two endpoints for one sale, key expiry, retries | SaleIntake |
| Unmapped products (`admin/unmapped_products.py`) | aliases, `product_unmatched` | resolve, reprocess | reprocessing meets what the first run left | SaleIntake, Leads |
| Leads (`hubla_event_handler.py`, `lead_repo.py`, `product_repo.py`, `routers/admin/leads.py`, `leads_pubsub.py`) | lead rows, catalog of courses, the page's list | classify an event, upsert, publish, list, stream | events out of order, envelopes ahead of their commit, edits of the catalog | Leads |
| Message webhook and agent (`webhook_message.py`, `handlers/message.py`, `agent/`) | threads of messages, jobs | receive, run the loop with guards and skills, save, answer in parts | no lock per contact, whole-list write-back, answer after the commit | Conversation |
| Outreach (`chatnexo/client.py`, `message_splitter.py`, `agent_picker.py`, `message_buffer/client.py`, `webhook_outbound.py`, `unmapped_alert.py`, `v1_normalizer.py`, `phone.py`) | contacts and conversations at ChatNexo, attendants' keys | find or make contact and conversation, send parts | retried POSTs, lookup and creation apart, numbers in several forms | Outreach, Rendering |
| Step templates (`variable_resolver.py`, `validators.py`) | none | validate, resolve, format, split | three sources must agree on the parameters | Rendering |
| Meta templates (`use_cases/meta_templates/`, `meta/template_client.py`, `meta_template_repo.py`) | rows, templates at Meta, steps that name them | create, edit, delete, list, synchronise | two systems of record and no transaction over both | Templates |
| Accounts, members, profiles, audit (`routers/admin/auth.py`, `users.py`, `profiles.py`, `me.py`, `middleware.py`, `deps/`) | identities, memberships, profiles, tokens, mails, audit rows | log in, select, manage members and profiles, reset passwords | check-then-act at READ COMMITTED, mail before the commit, two generations of tables | Access |
| Configuration and tokens (`account_config_repo.py`, `settings.py`, `api_tokens.py`) | single rows | read, patch | a patch rewrites the whole JSON it has read | only what Outreach reads |
| Knowledge base, agent skills' use cases, conversation lifecycle, legacy Redis queue, web UI | | | | see "Not modelled" |

### Interactions

* webhooks -> `job_queue` -> dispatcher -> handlers; a handler's exception leads to a retry with
  back-off and, after `max_retries` attempts, to `job_dlq`. The modules of the handlers
  (SaleIntake, Conversation, Leads) use only the promise that JobPromise states.
* `hubla_event` handler -> `EnrollContact` -> `scheduled_jobs` -> scheduler tick ->
  `DispatchOnboardingStep` -> ChatNexo or message buffer. Leads says which flows, Outreach into
  which conversation, SaleIntake that it happens, Dispatch when a step goes, Rendering what it says.
* flow edit -> outbox job `resync_flow` in the same transaction -> dispatcher -> diff -> steps and
  jobs of the enrollments. The template synchronisation deletes steps without such a job.
* dispatch-now runs `DispatchOnboardingStep` inside the HTTP request, beside the scheduler.
* the template endpoints refuse to delete what a flow's step names; the synchronisation deletes
  such steps.

## Modules

### JobQueue and JobPromise

`queue`, `dlq`: the two tables. `claim[w]`: the row a worker's open dequeue transaction has locked
(`FOR UPDATE SKIP LOCKED`), `Claim` and `CommitDequeue` being the two halves of `dequeue`.
`tasks[w]`: coroutines, each waiting for the semaphore, handling, in back-off or about to bury.
`req[a]`: a DLQ request between its SELECT and its commit. `Sigterm`, `CancelTasks`, `Abort` and
`Start` are the ways a worker ends and comes back. A *submission* names an insertion from outside
the dispatcher; retries keep the name. `fate`, `runs` and `parent` are history variables that no
guard reads except to give out names. All inserts use the same priority, so the order is the order
of creation. `max_retries` is `MaxRetries` and the back-off time is left out (any time may pass).

JobPromise is the same queue for those who enqueue: each submission is in one `place` and moves
along a graph (queued, taken, running, failed, queued or parked, done ...), `tries` counts
executions. There are no tables, workers or requests in it. JobQueue implements it under the
mapping `place <- Place(g)`, `tries <- runs` (property `KeepsPromise`): a dequeue that hands a row
to two workers, a retry beyond the limit or a requeue that forgets a job is a step JobPromise does
not have.

### Dispatch

One enrollment at the level of row locks. `step`, `job` are committed rows, `stepNew`, `jobNew`
the versions of the transactions in `stepOwner`, `jobOwner`; a reader sees the committed version
or its own (`StepOf`, `JobOf`), an UPDATE waits for the owner and re-evaluates its WHERE
(`WriteIfPending`), `EndTx` commits and rolls back. Three kinds of transaction run: the tick with
its handler (`Pick` ... `CommitTick`, the handler in a second transaction), dispatch-now
(`Click`, `Reset`, `ClickCancelsJob`, then the handler's steps in the same transaction) and the
resync. What a resync still has to do is its `plan`, one entry per step; `NextUp` is the step its
next statement is about, in the order of `compute_diff`'s four lists (`Rank`). Every statement that waits or reads is a step of
its own. `Blocker` and `OnCycle` are PostgreSQL's deadlock detector; `Stuck` is the cycle that it
cannot see because one edge is a Python `await`. A dispatch that goes through the message buffer
is treated like one through ChatNexo: the buffer gets an idempotency key, but what it does with it
is not in this repository.

### FlowSync (values in MCFlowSync)

A flow, an enrollment made from it and the resyncs that follow edits, at the points where they read
and commit. `Edit` is the part every edit in the panel shares: it commits with a queued resync.
`SyncTemplates` deletes steps and queues none (`promised` is the latest version that came with a
resync). `FirstRows` is
what `create_with_steps` inserts, `Diff` is `compute_diff`, `Apply` what the resync writes, `RunAt`
the accumulated delays. Row `<<f, k>>` is the k-th row made from flow step `f`; its `fs` is the
`flow_step_id` the code has written. A dispatch may leave a row sent, failed or cancelled at any
time. What happens between a resync's statements is Dispatch's subject.

### SaleIntake

One action per stage of a request (`Receive`, `Enqueue`, `RequestFails`) and of the event handler's
transaction (`Persist`, `Route`, `Enroll`, `Sell`, `Commit`), plus the administrator's `Resolve`,
`EditProducts`, `ReprocessReads`, `ReprocessCommits`. `mapped` says whether the product id resolves
to a course; `EditProducts` stands for every request of the products page that changes that, in
either direction. `changes` counts the changes and dates the lookups (`judged`, `enrolledAt`, a
job's `at`): history that no guard of the code's actions reads. The transaction starts by upserting the contact, whose row
lock serialises the events of a buyer (`ContactLocked`); the product is looked up after that. A
job's `match` and `flows` are what its open transaction will commit. One product id is followed;
phones are valid and events carry a sale id (without one the endpoint does not deduplicate);
`webhook_events` is written and never read.

### Leads (values in MCLeads)

The same handler seen from the panel: which product an event's id, alias or name resolves to
(`Resolve`), which flows it triggers, what `upsert` writes into the lead (`Upsert`, `Flagged`), the
envelope that is published before the commit (`Publish`, then commit or rollback; a publish that
fails, `Lose`, does not keep the transaction from committing), and a list page with its filter, its
open stream and its reloads. `log` is the committed events, `outdated` marks sales whose lookup an
edit of the catalog has overtaken, `past` the enrollments whose lookup one has, `stale` the sales the
page is known to have missed. Where SaleIntake follows one sale through the whole intake, Leads follows several through
the handler only, with payloads that disagree.

### Conversation (values in MCConversation)

Messages of one contact: the webhook's deduplication (`Receive`, `Enqueue`, `RequestFails`), and a
job's run in four stages, `Begin` (load and cut the history), `Think` (a completion; the API
refuses a malformed list), `Act` (the calls of the completion through `DispatchAll`, then the
guards), `Save`;
then `SendPart` outside the transaction. `history` is kept per thread because the message handler
and the onboarding dispatch name the contact's thread differently. Nothing locks a contact, so the
jobs interleave freely.

### Outreach and Rendering (values in MCOutreach)

Rendering is operators only: the template validator, the parameter format, the resolution of
variables, and the splitter. Outreach is runs that make one HTTP call per action: an event's two
lookups (for the flow and for the purchase), an outbound text, an alert, an enrollment's step.
`contact`, `linked`, `conv` are ChatNexo's side, as the client's calls and their handling of 404
and 422 tell of it; a POST is tried three times and an attempt may have done its work though its
answer was lost. A phone number is a person in one of four written forms. Keys may be revoked and
conversations resolved at any time.

### Templates (values in MCTemplates)

`meta` is Meta's side, `rows` the table, `step` what the flows' steps name. A request is a
transaction around calls to Meta: what it tells Meta stands, what it writes may be rolled back.
A listing is Meta's first page and may be outdated when applied. The unique index of
(account, name) is `Conflict`. `lost`, `raced` and `blind` record why a row or a step may be left
without its template: `lost` also when a delete or an edit commits without touching a row of its
name that was imported after it had read the old one (`Anew`).

### Access (values in MCAccess)

The initial states are what the migration to identities and memberships makes of any table
`users`, with the seed that follows it. A request of the panel is a transaction at READ COMMITTED:
one action where an index or key makes overlapping ones behave as if in sequence, several
(`Begin...`, `Flush...`, `Mail`, `Commit...`) where they do not. A request ends in `Answer` or in
`Raise`. After an answer, `Audit` writes the row in a transaction of its own, which may fail or not
come about (a fault): `resolve_audit_action`, `audit_ctx` and `Recorded` decide whether there is one.
An exception that reaches the middleware leaves none. `unaudited` records the requests without a row,
why, and whether they changed the tables.

## Runs

| Run | Question | Bounds and why they are enough |
|---|---|---|
| job_queue | Is every job held once, counted, settled, and every step one that JobPromise allows? | 3 submissions, 2 workers, 1 stop, 1 DLQ request at a time, 2 attempts: a requeue of a job buried by one worker while another takes the next, and a stop in every stage. The proofs cover all other sizes. |
| dispatch | Do scheduler, dispatch-now and a resync keep an enrollment consistent under one fault? Do due jobs settle? | 2 steps, one of which a resync adds; 3 job rows; 1 click, 1 resync, 1 failed send, exception or crash anywhere. Two overlapping resyncs were also run by hand on one step with a fault (444,546 states) and on two steps without (5.25 million): the invariants hold. |
| flow_sync | Do edits reach the enrollments, and only pending steps? | a flow of 1 step to which edits add, 2 edits or synchronisations, 2 resyncs at once; delays and contents of two values |
| sale_intake | Do log, case, verdict and enrollments agree under redelivery, retry, reprocess, crash and a changing catalog? Does an accepted event arrive? | one sale, an activating and a second event, 2 requests, 3 jobs, 1 fault, 1 key expiry, 1 change of the mapping from either state (2, there and back, were run by hand: 1.1 million states) |
| conversation | What may be forgotten, said twice or buried, and is only what was saved said? | 2 messages, one of which names a lawyer; 2 completions per run, a memory of 4 entries (a cut inside the older turn), 1 fault, 1 key expiry |
| access | Do admins, mailed passwords, profiles and the audit trail survive overlapping requests? | 2 requests over 2 companies (overlapping grants of one profile among them), an address in two spellings, the two kinds of table the migration may meet, 1 fault (mail, commit, audit row or a stop) |
| templates | Do rows stand for templates, and can steps be sent? | 2 names, 2 languages, pages of one template, 2 overlapping requests, 1 change at Meta, 1 fault |
| leads | What does a lead tell, what does the page show, which course is a buyer enrolled in? | 3 payloads that disagree on two sales, 2 concurrent runs, 1 fault (a rollback or a lost envelope), 1 edit of the catalog, 2 loads of the page |
| outreach | Do messages reach the right person, whole, with the right parameters? | 2 of 9 requests at once or in sequence, 2 buyers, 3 written forms, 1 fault, 1 change beside the runs |
| dispatch_stuck | Does the scheduler ever freeze? (it can) | 1 step, 1 click |
| sale_lost | Can a sale be lost silently? (yes) | 1 fault, 2 requests |
| sale_reprocess | Does reprocessing a mapped purchase work? (never) | no fault |

Bounds in guards: `MaxStops`, `MaxFaults`, `MaxEdits`, `MaxJobs`, `MaxExpiries`, `MaxRuns`,
`MaxBusy`, `MaxChanges`, `MaxLoads`, `MaxMails`, `MaxRequests`, `MaxSessions`, `MaxOutside`,
`MaxNotes`, and the sets `Subs`, `Clicks`, `Resyncs`, `Requests`, `Admins` themselves. The runs stop
when the inputs are used up, so deadlock checking is off. `SettledStays` lets a dispatch turn
`cancelled` into `sent`, and only that: with two overlapping resyncs one cancels a step without
knowing the job the other has just given it, and that job still sends. `DueSettles` allows for `Stuck`, which `dispatch_stuck` shows on its
own. Symmetry is used only in runs of invariants, over requests, workers and names that no
definition tells apart.

Properties named `...Explained` say when the code leaves its ideal and nothing more: for instance
a committed turn leaves the history only when a run that had loaded before it committed after it.
They separate the losses the design accepts from those it would not.

### Fairness

* JobQueue: the event loop steps every coroutine, handlers return or raise (their I/O has
  timeouts), main reaches its cancellation, and the container is restarted. Nothing forces a stop,
  a submission or an administrator. `Settles` needs no strong fairness: a waiting row is the oldest
  one eventually, since names are finitely many.
* Dispatch: the tick loop catches every exception and goes on; requests and handlers go on unless
  they wait for a lock; the database's detector runs. Nothing is assumed of clicks, edits, faults
  and the clock.
* SaleIntake: the dispatcher runs what it has dequeued; row locks are granted in the order of the
  waiters, so `Persist` is strongly fair.
* The other modules state no liveness: their requests may be abandoned at any point.

### What the violations show

1. `dispatch_stuck`: dispatch-now updates the step and then the job; the tick holds the job and
   waits for a handler that waits for the step. `runner.py:39-41` calls a frozen scheduler a
   corrected bug.
2. `sale_lost`: the dedup key is set first and not removed when the request fails afterwards;
   `webhook_hubla.py:68-69` prefers processing twice to losing a sale.
3. `sale_reprocess`: the access case of the first run makes every reprocessed purchase end in the
   DLQ.

### Known divergences without a run of their own

Met while modelling; the models do what the code does.

* Job queue: main cancels the dispatcher on SIGTERM, though `dispatcher.py:40-41` promises to drain
  it; jobs in flight are lost (`Lose` in JobPromise).
* FlowSync: `create_with_steps` writes no `flow_step_id`, so the first resync schedules every step
  again, although `src/apps/api/tests/unit/test_enroll_contact_v2.py:42` says that the identity must
  be carried. Only steps whose own delay changed are moved, though delays are relative to the
  previous message. Positions are not unique, and steps that share one all get the last one's time.
  `sync_templates.py:160` deletes steps of a flow and queues no `resync_flow`, which REQ-006
  (`src/.taskmaster/docs/prd-followup-v2.md:167`) asks for after every deletion: enrollments keep the
  step until the next edit's resync. `EditIsQueued` therefore speaks of edits in the panel only.
* Conversation: a memory that begins with a tool's answer is refused by the API, and since the
  history only grows by whole turns the contact may stay mute. Onboarding notes are saved under a
  thread that the agent never loads. Nothing creates conversation rows, so the attendant that
  onboarding has chosen is never kept.
* Skills: all but the knowledge searches call a method that their adapter does not have; the agent
  tells the contact of a transfer (`escalar_para_humano/instructions.md:14`) that does not happen.
* Access: two overlapping updates of a profile leave the union of both; the audit table's foreign
  key names `users`, so nothing done by members added after the migration is recorded; a change of
  one's own password has a rule (`middleware.py:62`), but its dependency sets no `audit_ctx`, so that
  it leaves no row. Neither does a request that fails with an unhandled exception.
* Templates: two languages of one name make the list fail; the synchronisation updates only the
  status, and deletes rows and steps when Meta's list is read incompletely; an edit of a pending
  template deletes it at Meta first; a template whose status is outdated is deleted by an edit; a
  delete goes by the row's id, so a row of the name that a listing has imported anew stays.
* Leads: the envelope precedes the commit, and its loss is only logged; the stream does not apply the pending filter; an update
  of an enrollment carries no lead; reprocessing from now rewrites the activation date.
* Outreach: `webhook_outbound.py:96` and the alert take a number as it is written; a header's
  variable is never sent; a bound variable that is not in the text renumbers positional parameters;
  mixed placeholders pass the validator; short paragraphs are dropped although
  `message_splitter.py:14` speaks of parts of a sentence split; a text whose later part fails is
  marked failed though its first parts have arrived; a step goes to the conversation stored in the
  enrollment even when it is closed; `client.py:344` calls the PATCH best-effort, but a timeout of
  it ends the send.
* Configuration: `account_config_repo.update` writes back the JSON it has read, so one of two
  concurrent patches is lost.

## Proofs

Every theorem holds for every value of the constants that meets the named assumptions of its
module. No theorem has other hypotheses; those about Outreach name the ones they need (`Assumed`),
because an instance does not bring its module's assumptions along. An invariant the runs check is
seldom inductive: each ...Proofs module defines a stronger one for each component it is about,
which TLC checked on the run's instance before it was proved, shows that the initial states satisfy
it and that each action preserves it (one lemma per part or per action), and derives the listed
theorems from it.

### JobQueue: JobQueueProofs

Theorems, for every number of submissions, workers and administrators and every retry limit, from
`SubsAssumption` (submissions are numbered), `RetriesAssumption` (at least one attempt) and
`BoundsAssumption`:

* `TypeCorrect`, `JobsConserved`, `AttemptsCounted`: the safety invariants of the run `job_queue`;
* `JobsHeldOnce`, `RequeuesLiveOn` and `EndedStaysEnded`: facts about JobQueue's own variables that
  the run checks through `KeepsPromise` only;
* `PromiseKept`: `Spec => KeepsPromise`, every behaviour of JobQueue is one of JobPromise under the
  refinement mapping.

None of them is inductive alone. `Ledger` is their conjunction with
`PcOK` (a coroutine in back-off has attempts left, one that buries has none) and `Book` (a locked
row is still in the table and has one owner; a request names no unused submission; an unused
submission has no runs and no row). `Conserved` and `HeldOnce` are proved together (`HeldStep`):
taking a row out of the queue keeps the ledger only if no other row or coroutine has its name, and
giving a name out keeps names unique only because an unused one is nowhere. `AttemptsStep` needs
`HeldOnce`, since an execution is counted for the name and must belong to one coroutine.
`RequeuedStep` needs that a request's entries are distinct submissions. Each lemma has one step per
action; `LedgerInvariant` combines them, and the theorems follow from `Ledger`.

The refinement is an argument from `Ledger` in both states of a step. `WhereaboutsKnown`: a row, a
coroutine or a DLQ entry determines the place of its submission, because no other holds it
(`HeldOnce`), and a submission that is not live is nowhere (`Conserved`). `Unmoved` and `OneMoves`:
a step that leaves a submission's holders alone leaves its place alone. With these, each action is
one step of JobPromise: a committed dequeue takes or drops, a handler runs, finishes or stumbles,
`Nack` retries and `ToDlq` parks (their limits on tries are `AttemptsCount` and `PcOK`), a stop
loses what the worker had in hand, a committed requeue restarts what it read and removes parked
jobs only; `Claim`, `Sigterm`, `Start` and the SELECTs are not seen.

### SaleIntake: SaleIntakeProofs

`IntakeTypes`, `PendingLeadsWait` (`PendingIsNewer`), `PurchasesTakeEffectOnce` (`PurchaseOnce`) and
`EventRowsExact`, for any number of sales, events, requests, jobs, faults and changes of the mapping,
from `KindsAssumption`, `BoundsAssumption` and `NoneAssumption`. The inductive invariant is `Intake`:

* `Serial`: of the open transactions at most one is about a given sale. This is what the lock on
  the contact's row buys, and all the rest needs it: between a lookup and its commit nobody else
  enrolls the buyer or sells to him.
* `Decisions`, `EnrolledMapped`: lookups are dated by the number of changes before them. While the
  mapping is the one a transaction has met, its verdict is the mapping's, and an enrollment shows
  that the product was mapped at its date. So a transaction that met no product although its buyer
  is enrolled looked later than the enrollment's; `PendingIsNewer` at its commit says just this.
* `SalesInHand`, `WelcomesCounted`: a transaction that has written its access case is the first of
  its sale to do so; a sale's welcomes beyond the one of its case were each followed by a fault,
  because only a rollback can make a second one possible.
* `RowsCounted`: an event's rows are as many as the jobs that ended well on it, hence finite
  (`DoneJobs`). `PurchaseLoggedWithCase` follows row and case through the same commit.

### Dispatch: DispatchProofs

`DispatchTypes`, `PendingStepsScheduled` (`PendingHasJob`), `RepeatedSendsPaid`
(`DuplicatesExplained`), `RecordedSendsHappened` (`SentWasSent`), `LastSendCompletes`
(`AllSentCompletes`) and the action property `SettledStepsStay` (`SettledStays`), for any number
of steps, jobs, dispatch-now requests, overlapping resyncs and faults, from `RowsAssumption` (the
enrollment starts with a step, and with a job for each), `NamesAssumption` and `BoundAssumption`.
`Books` is `Rows` with `Paid`, `Sound` and `LastCompletes`:

* `Locks` says whose version a row has and where its owner then stands, and that at most one
  sender is between its update of the history row and its commit.
* `Progress` says what an uncommitted or overtaken status can be, `References` that an id read
  earlier still names a job of the same step, `Changes` what an owner has done to a job.
* `Covered` is why `PendingHasJob` survives although step and job change at different times: a
  pending step whose job is no longer pending for everybody belongs to the transaction that
  changes the job, and that transaction leaves the step settled or with a new job before it commits.
* `Paid` counts: the transactions that hold a step armed, the sends so far and the worker's own
  position never exceed what clicks, rolled back sends and the first dispatch pay for. `Sound`
  counts the sends of a sent step against those in flight. Each action changes one term by one.
* `LastCompletes` needs `Locks`: of two dispatches that write the last two steps, the second to
  take the history row counts after the first has committed.

`Rows` is proved action by action, `Paid` and `Sound` by the effect of an action on each term.
`SettledStays` needs only that statuses become visible in commits, and `Progress` for what a
committed version can be. The proof attempt found the property's first form, which allowed no
change at all, false with two overlapping resyncs; TLC then showed the trace that the run's single
resync cannot make, and the property now names that exception.

### Access: AccessProofs

`AccessTypes`, `AdminsRemain`, `MailedPasswordsWork` (`MailedWorks`), `ProfilesGrantAsked`
(`ProfilesGrant`) and `UnauditedAreExplained`, for any number of accounts, people, profiles,
spellings and overlapping requests, from the named assumptions of Access: the tables the migration
may meet are finite and their addresses unique (`LegacyAssumption`, `FoundersAssumption`), the
keys that only admins may use are keys (`KeysAssumption`), and names do not clash. The inductive
invariant is `House`:

* `Migrated`, `Memberships`: memberships are finitely many, one per person and account, their
  people known and the owners admins, so that "another admin" can be counted.
* `Overlaps`: requests about one thing that are open together have marked it in `raced`. Without
  it "unless two requests overlap" would say nothing about the moment of a commit.
* `Spare`: an account that is not raced and had an admin keeps one, and one besides the member that
  the request in progress is about to take away. The check for another admin is made in
  `Begin...`, the change comes with `Commit...`; this part carries the finding over.
* `Exclusive`, `AddsNew`, `Addresses`: an identity's row or a new address has one holder between
  flush and commit, so what an open addition has found is still true.
* `Passwords`: until its holder commits, a mailed password is in a transaction that holds the
  identity; afterwards it is the identity's, and must be changed unless a reset has overlapped.
* `ProfileRows`: a profile's permissions are a disjoint union of whole grants that requests have
  asked for, of which an update in progress has seen some and will delete exactly those.
  `ProfilesOwn` says whose profiles members carry.

`UnauditedExplained` is a part of `House` by itself: every action's effect on the trail is one of
those `Trail` names. An entry that was raised has changed nothing because a rollback leaves every
table as it was, and one that was lost stays explained because faults are only counted up.

The proof changed the model: a DELETE of permission rows removes the rows it has seen, and a key
inserted again by an overlapping update is a new row. Access now keeps the rows apart, and its run
has overlapping grants.

### Leads: LeadsProofs

`LeadsTypes`, `LeadsTellOfEvents` (`LeadTells`), `PageShowsTable` (`ShownExplained`) and
`CoursesAreRight` (`RightCourse`), for any number of sales, payloads, products, workers, faults,
edits and page loads, from the named assumptions of Leads: payloads are well formed, filters are
the panel's, a catalog has finitely many products (`CatalogsAssumption`), names do not clash
(`NoneAssumption`). The inductive invariant is `Panel`:

* `OneAtATime`: a sale has at most one open transaction, which the upsert's row lock gives; so what
  `Writes` says of the row it found, and of the lead made of it, is still so at the commit.
* `Verdicts`: a lookup still says what it said, or is marked as overtaken by an edit and its sale is
  in `outdated`. `LeadTells` at a commit is this part and `Writes`.
* `IdsApart`: an id was given once, for one sale, wherever a lead is (table, transaction or page).
  The page looks rows up by id, so without it an envelope could change another sale's line.
* `Told`: what the page has read or been sent about a sale is what the table holds or what an open
  transaction has published, unless the sale is in `stale`, where a failed publish puts it. `ShownExplained` follows a line from there, through the rollback that
  leaves an envelope behind and the reload that heals it.
* `CatalogFits`, `Courses`: what a transaction has looked up since the last edit are flows its event
  starts (`Starts`); at the commit they are, or an edit has come between and `past` names them. That
  an id is one product's rests on the unique index that every edit meets. An event that names a
  course by title needs the catalog to be finite, or "no other has this title" says nothing.

### Conversation: ConversationProofs

`ConversationTypes`, `TurnsForgottenOnlyByOverlap` (`ForgottenOnlyByOverlap`),
`RepeatedPartsExplained` (`RepeatsExplained`), `AnswersWereSaved` (`AnsweredWasSaved`) and
`BurialsExplained` (`BuriedExplained`), for any number of messages, requests, jobs, parts, faults
and expired keys, any memory and iteration limit and whatever the model answers, from
`BoundsAssumption` (limits are positive), `CompletionsAssumption` (completions are well formed, the
skills finitely many), `LegalAssumption` (no message is `None`) and `OlderAssumption`: the histories
the thread may begin with are lists of entries whose tool messages follow their calls. Earlier runs
wrote them, and `Lists` shows that a run writes nothing else. The inductive invariant is `Talk`; as
nothing locks a contact, no part of it says that runs exclude each other:

* `Stages`, `Committed`: where a job's counters are, and that one which sends has committed.
* `Numbered`, `Remembered`: commits are numbered in their order, and what an open run will write
  back holds its own message and every turn committed before it loaded, but for those already
  overtaken. Its commit then overtakes whatever turn it lacks.
* `Copies`: of each part, the copies delivered, the requests that own the message's key, the jobs
  that have not come to that part and the key if it is free are together at most one more than the
  faults and the expired keys. Every action moves one term into another or is counted: a retry after
  the commit is ahead of all the parts again, and was a fault.
* `Lists`: the API's rule for tool messages, from the history into a run and back. A list is cut in
  two and written back whole, so its tool messages keep their calls; after an accepted completion
  `DispatchAll` answers every call of it (`DispatchIs`), so the next list is accepted. What is left
  for `BuriedExplained` is a run's first list.

### FlowSync: FlowSyncProofs

`FlowTypes` and `EditsArrive` (`EditArrives`), for any flow, any number of enrollers, resyncs, edits
and template synchronisations and any contents, from the named assumptions of FlowSync: delays and positions are natural
(`DataAssumption`), the flow starts with finitely many steps (`FlowAssumption`), a dispatch leaves a
known status (`OutcomesAssumption`), `NullAssumption` and `EditsAssumption`. The inductive invariant
is `InStep`; `Converges` speaks of the moment after a commit, and what makes it true is what the
resync read and how little has happened since:

* `Alone`: while no two resyncs overlap, a flow step has at most one row, the diff in progress adds
  exactly the steps without a row, and of every pending row it tells what there is to do
  (`Noticed`). Dispatches may settle rows meanwhile, which `WHERE status = 'pending'` then spares;
  an edit makes the diff an old one.
* `DiffApplies`: with overlap a diff still speaks of rows that are there, since nothing deletes
  rows, and of steps of the flow it has read. `OwnStep` says which row a step may have.
* `Finite`: times are sums of delays along the flow. `SumIsNat` shows that such a sum exists and is
  natural; as induction over data is out of reach, it argues from a smallest set without one.

`DiffIs` and `ApplyIs` say what `compute_diff` and the resync's writes do to each row.

### Templates: MessagingProofs

`TemplateTypes`, `RowsAreTemplates` (`RowsStand`) and `StepsFindTheirTemplate` (`StepsSend`), for
any number of names, languages, steps, overlapping requests and failures and any page size, from
`NamesAssumption`, `PastsAssumption` (what Meta had at the start is finite, with an id and a name
each) and `RequestsAssumption` (finitely many requests at once, so that there is a new id). The
inductive invariant is `Shelf`:

* `OneName` of `Ids` and of `RowKeys`: an id, at Meta, in the table, on a page or with a request
  that has just been given it, is of one name, and so is a key. Rows are deleted by key and
  compared by name; this is what makes the two agree, and what says that a template of an old page
  is the one Meta has if it has that id (`MergeIs`).
* `Overlaps`: two requests on one name have noted it in `raced`, so that a loss caused by the other
  request is on record.
* `Made`, `Stands`: the template a request has created is there when its row is committed; every
  row stands unless a request that has told Meta is about to commit. When that request ends, its
  row is gone, replaced, or its name is on record.
* `Going`: steps that name what a delete in progress takes away were saved blindly, and those whose
  row a synchronisation is about to delete too unless it has found them. `StepsStand` follows.

A step of a request is looked at from three sides: what Meta loses (`Recorded`), which rows are
there afterwards (`Placed`), what the steps still find (`Served`). `Turn` shows once that these
three preserve `Shelf`; each action then has a lemma that establishes them.

The proof changed the model: `RowsStand` with two requests in the run held, but `Stands` could not
be shown for a delete. TLC with three requests found why: a synchronisation with an incomplete
answer removes a row, a listing imports it again under a new key, and the delete that had read the
old row removes the template at Meta and no row. The code does that; the name is now in `lost`,
as for every other template that Meta has lost without its row.

### Outreach: MessagingProofs

`MessagesReachTheirBuyer` (`RightContact`) and `ConversationsAreShared` (`OneConversation`), for any
number of buyers, contacts, agents, requests, runs and failures. MessagingProofs declares Outreach's
constants and variables, under names of their own where Templates has the same, and takes the
module as the instance `Out`. The hypothesis `Assumed` restates of Outreach's assumptions, which TLC
evaluates on its run, what the proof needs: `None` is not a number, `MaxRuns` is a natural number,
and every request is to somebody. The inductive invariant is `Met`:

* `Person`: between its calls a run holds a number, and conversations, of the person it is for.
  The number is looked up by its digits, so that each conversation found is with that contact.
* `Smooth`: as long as nothing has failed, no call is a repeated one and the run of an event of
  access given neither fails nor loses what its flow has found; when it ends, the buyer is enrolled.
  `HandledRight` shows that every name of such an event in either version, and every way to write
  the number, comes to one the handlers know.
* `Sought`: a run that is making a conversation knows of every open one of the time it looked
  (`seen`): those there now have been opened since. With it, `OpenConv` makes a second one only
  when `doubled` notes it (`Single`).

Another run's step, an attendant's or an operator's takes nothing of this back (`Onward`, `Kept`),
so that each action has a lemma about its own run (`Proceeds`).

### Only model-checked

* Liveness under fairness: `Settles`, `DueSettles`, `AcceptedArrives`. The prover has no proof
  rules for fairness and ENABLED.
* Of Outreach, `SentWhole`, the types of a run's parts in `TypeOK`, and `ParametersMatch`. The first
  two depend on what the splitter's folds compute, which takes induction over the text;
  `ParametersMatch` is about Rendering's validator and formats, whose inputs are bounded in the code
  too and which the run goes through.

## Plan

Done: JobQueue with JobPromise and the proofs of both, Dispatch, FlowSync, SaleIntake, Leads,
Conversation, Access, Templates, Outreach with Rendering. Proved: the safety properties of all of
them but those of what Outreach sends (see above).

Modules are written to be proved about: constants with named assumptions, one action per
operation, invariants as conjunctions of named parts, no RECURSIVE operators.

## Not modelled

* Agent skills' own use cases and the refund mutex: no call reaches them at this commit.
  `agent/prompt.py` is text.
* Conversation lifecycle and the idle jobs (nothing schedules them, and `handle_scheduled` compares
  their types in another case), `MessageDispatcher`, the legacy Redis queue and the
  `ProcessPurchaseWebhook` handler (always raises): not wired.
* The knowledge base: one transaction per request; what a search returns is data.
* Configuration, API tokens, search, metrics and reports: single-row writes and reads.
* In the modelled parts: the validator's checks of name, category, language and media files; expiry
  of tokens; the audit of routers other than Access's; the scheduler's Redis mutex (one worker runs
  one loop); priorities other than NORMAL, which have no producer.
* The web UI, but for the list of leads.
