-------------------------------- MODULE Leads --------------------------------
(***************************************************************************)
(* The catalog and the leads: products, the aliases of their Hubla ids and *)
(* the flows that hang on them; the rows of leads that the events of a     *)
(* sale write one after the other; the operator's list of leads, which a   *)
(* fetch fills and a stream of Redis messages keeps up to date.            *)
(*                                                                         *)
(* How an event reaches the queue is SaleIntake's: here the handler may run *)
(* on any payload at any time, again in particular, as redelivery, retries *)
(* and reprocessing make it.  Of a lead's columns those are kept that      *)
(* later events rewrite or that the list filters on; the list has one page,*)
(* and a message published is on the screen at once or never.              *)
(***************************************************************************)
EXTENDS Integers, FiniteSets, FiniteSetsExt

CONSTANTS Products, Names,  \* catalog rows, product names
          Codes,            \* Hubla ids: of products, or of offers (v1 events)
          Flows, Sales,
          Payloads,         \* what the gateway may send: see Payload
          Catalogs,         \* catalogs the run starts from
          Filters,          \* filters the operator tries
          Workers,          \* handler coroutines at work at once
          MaxRuns,          \* bound on handler runs
          MaxFaults,        \* bound on failed runs and publishes, dropped streams
          MaxEdits,         \* bound on requests that change the catalog
          MaxLoads,         \* bound on changes of the list's filter
          None

ASSUME BoundsAssumption == {MaxRuns, MaxFaults, MaxEdits, MaxLoads} \subseteq Nat

Statuses == {"active", "inactive"}
Kinds == {"activated", "added", "canceled"}
ActivationKinds == {"activated", "added"}    \* ACTIVATION_EVENT_TYPES

Payload == [sale : Sales, code : Codes, name : Names, kind : Kinds,
            status : Statuses, phone : BOOLEAN]
ASSUME PayloadsAssumption == Payloads \subseteq Payload

\* subscription_status and unmatched, of the list's query parameters.
Filter == [status : Statuses \cup {None}, unmatched : BOOLEAN]
ASSUME FiltersAssumption == Filters \subseteq Filter

VARIABLES
  product,  \* products: [name, code, active], or None
  alias,    \* per Hubla id: the product it is an alias of, or None
  flow,     \* per flow: [product, kind, active], or None
  log,      \* payloads with a row in hubla_events
  row,      \* per sale: its committed lead, or None
  enrolled, \* per sale: flows with a committed enrollment
  run,      \* per worker: the transaction it is in
  page,     \* the operator's list, its filter, its fetch and its stream
  outdated, \* history: sales whose product was looked up before the last edit
  past,     \* history, per sale: enrollments looked up before the last edit
  stale,    \* history: sales the page has missed something about
  runs, faults, edits, loads

catalog == <<product, alias, flow>>
tables == <<log, row, enrolled>>
history == <<outdated, past>>
vars == <<catalog, tables, run, page, history, stale, runs, faults, edits, loads>>

Product == [name : Names, code : Codes, active : BOOLEAN]
Flow == [product : Products, kind : Kinds, active : BOOLEAN]
Lead == [id : 1..MaxRuns, sale : Sales, code : Codes, status : Statuses,
         last : Kinds, activated : BOOLEAN, contact : BOOLEAN, unmatched : BOOLEAN]

Statement == {"idle", "upserted", "routed", "published"}   \* the last one made
Transaction == [pc : Statement, ev : Payloads \cup {None}, lead : Lead \cup {None},
                new : BOOLEAN, match : BOOLEAN \cup {None}, flows : SUBSET Flows,
                dated : BOOLEAN, at : 0..MaxEdits]
Page == [filter : Filter, fetch : {"never", "asked", "read", "shown"}, got : SUBSET Lead,
         late : SUBSET Sales, rows : SUBSET Lead, open : BOOLEAN]

\* A database holds finitely many products, and no two with one id.
ASSUME CatalogsAssumption == \A c \in Catalogs :
  /\ c.product \in [Products -> Product \cup {None}] /\ c.alias \in [Codes -> Products \cup {None}]
  /\ c.flow \in [Flows -> Flow \cup {None}]
  /\ IsFiniteSet({p \in Products : c.product[p] # None})
  /\ \A p, q \in Products : c.product[p] # None /\ c.product[q] # None
                              /\ c.product[p].code = c.product[q].code => p = q
ASSUME NoneAssumption ==
  /\ None \notin Products /\ None \notin Statuses /\ None \notin BOOLEAN
  /\ None \notin Payload /\ None \notin Product /\ None \notin Flow /\ None \notin Lead

Idle == [pc |-> "idle", ev |-> None, lead |-> None, new |-> FALSE,
         match |-> None, flows |-> {}, dated |-> FALSE, at |-> 0]

Fault == faults < MaxFaults /\ faults' = faults + 1

-----------------------------------------------------------------------------
(* The catalog *)

Live(p) == product[p] # None /\ product[p].active

ByCode(c) == {p \in Products : Live(p) /\ product[p].code = c}
ByAlias(c) == {p \in Products : Live(p) /\ alias[c] = p}
ByName(n) == {p \in Products : Live(p) /\ product[p].name = n}

\* Faulty variant: of several products with the name, any will do.
ResolveAny(c, n) ==
  IF ByCode(c) # {} THEN ByCode(c)
  ELSE IF ByAlias(c) # {} THEN ByAlias(c) ELSE ByName(n)

\* find_active_by_hubla_id, by the product's own id and then by an alias, and
\* find_active_by_name, which answers only when one product has the name.
Resolve(c, n) ==
  IF ByCode(c) # {} THEN ByCode(c)
  ELSE IF ByAlias(c) # {} THEN ByAlias(c)
  ELSE IF Cardinality(ByName(n)) = 1 THEN ByName(n) ELSE {}

Recognized(ev) == Resolve(ev.code, ev.name) # {}

\* list_active_by_product_and_events: any activation event of the group stands
\* for any other; the rest match exactly.
FlowsFor(p, kind) ==
  {f \in Flows : /\ flow[f] # None /\ flow[f].active /\ flow[f].product = p
                 /\ \/ flow[f].kind = kind
                    \/ {flow[f].kind, kind} \subseteq ActivationKinds}

\* The flows that an event starts.
Triggered(ev) == UNION {FlowsFor(p, ev.kind) : p \in Resolve(ev.code, ev.name)}

Edit ==
  /\ edits < MaxEdits /\ edits' = edits + 1
  /\ past' = enrolled
  /\ UNCHANGED <<tables, page, stale, runs, faults, loads>>

\* The lookups made so far may now come out otherwise.
Outdate ==
  /\ outdated' = Sales
  /\ run' = [w \in Workers |-> [run[w] EXCEPT !.dated = run[w].match # None]]

WriteProduct(p, new) ==
  /\ \A q \in Products \ {p} : product[q] # None => product[q].code # new.code
  /\ product' = [product EXCEPT ![p] = new]
  /\ Edit /\ Outdate
  /\ UNCHANGED <<alias, flow>>

\* POST and PUT /products; a second product with the id is refused with 409.
CreateProduct(p, new) == product[p] = None /\ WriteProduct(p, new)
UpdateProduct(p, new) == product[p] \notin {None, new} /\ WriteProduct(p, new)

\* count_flows, and the foreign key of the flow on its product.
Hanging(p) == {f \in Flows : flow[f] # None /\ flow[f].product = p}

\* DELETE /products: refused while a flow hangs on it, by the count or, for a
\* flow created since, by the foreign key; its aliases go with it.
DeleteProduct(p) ==
  /\ product[p] # None
  /\ Hanging(p) = {}
  /\ product' = [product EXCEPT ![p] = None]
  /\ alias' = [c \in Codes |-> IF alias[c] = p THEN None ELSE alias[c]]
  /\ Edit /\ Outdate
  /\ UNCHANGED flow

\* POST /unmapped-products/resolve: INSERT ... ON CONFLICT DO NOTHING.
AddAlias(c, p) ==
  /\ product[p] # None
  /\ alias' = [alias EXCEPT ![c] = IF @ = None THEN p ELSE @]
  /\ Edit /\ Outdate
  /\ UNCHANGED <<product, flow>>

WriteFlow(f, new) == flow[f] # new /\ flow' = [flow EXCEPT ![f] = new]

\* POST and PUT /onboarding/flows: the product must exist.
SaveFlow(f, new) ==
  /\ product[new.product] # None
  /\ WriteFlow(f, new)
  /\ Edit
  /\ UNCHANGED <<product, alias, outdated, run>>

-----------------------------------------------------------------------------
(* The operator's list: page.tsx and useLeadsStream.ts *)

\* SqlLeadRepository.paginate, over committed rows.
Listed(filter) ==
  {l \in {row[s] : s \in Sales} \ {None} :
     /\ filter.status \in {None, l.status}
     /\ filter.unmatched => l.unmatched}

\* _envelope_matches_filters: the stream has no parameter for unmatched.
Passes(filter, lead) == filter.status \in {None, lead.status}

\* Transactions that have told the page of a row it cannot read yet.
Announced == {run[w].lead.sale : w \in {v \in Workers : run[v].pc = "published"}}

page0 == <<catalog, tables, run, history, runs, edits>>

\* A new filter: the pending fetch is disowned, both effects start over.
SetFilter(filter) ==
  /\ loads < MaxLoads /\ loads' = loads + 1
  /\ filter # page.filter \/ page.fetch = "never"
  /\ page' = [page EXCEPT !.filter = filter, !.fetch = "asked", !.got = {},
                          !.late = {}, !.open = FALSE]
  /\ UNCHANGED <<page0, stale, faults>>

\* GET /leads reads ...
Read ==
  /\ page.fetch = "asked"
  /\ page' = [page EXCEPT !.fetch = "read", !.got = Listed(page.filter),
                          !.late = Announced \cup IF page.open THEN {} ELSE Sales]
  /\ UNCHANGED <<page0, stale, faults, loads>>

\* ... and its answer replaces the list, with what the stream has put there.
Show ==
  /\ page.fetch = "read"
  /\ page' = [page EXCEPT !.fetch = "shown", !.rows = page.got, !.got = {}, !.late = {}]
  /\ stale' = page.late
  /\ UNCHANGED <<page0, faults, loads>>

\* GET /leads/stream subscribes to the account's channel.
Subscribe ==
  /\ page.fetch # "never" /\ ~page.open
  /\ page' = [page EXCEPT !.open = TRUE]
  /\ UNCHANGED <<page0, stale, faults, loads>>

\* The connection breaks; EventSource will connect again.
Drop ==
  /\ page.open /\ Fault
  /\ page' = [page EXCEPT !.open = FALSE]
  /\ UNCHANGED <<page0, stale, loads>>

\* onLeadUpserted: the row with the lead's id is replaced; a new lead is put on
\* top; an old one that is not on the page is passed over.
Upserted(rows, lead, new) ==
  IF \E l \in rows : l.id = lead.id
    THEN {l \in rows : l.id # lead.id} \cup {lead}
    ELSE IF new THEN rows \cup {lead} ELSE rows

\* What the page is known to miss: nothing is kept for a stream that is not
\* connected or whose filter the lead fails; the filter on pending leads is not
\* the stream's; a lead that comes to match is not on the page.
Missed(lead, new) ==
  \/ ~page.open \/ ~Passes(page.filter, lead)
  \/ page.filter.unmatched /\ ~lead.unmatched
  \/ ~new /\ \A l \in page.rows : l.id # lead.id

\* What a fetch under way may have read too early.
Late(s) == IF page.fetch = "read" THEN page.late \cup {s} ELSE page.late

\* LeadsPubSub.publish of a lead.upserted envelope.
Tell(lead, new) ==
  /\ page' = [page EXCEPT !.rows = IF page.open /\ Passes(page.filter, lead)
                                     THEN Upserted(@, lead, new) ELSE @,
                          !.late = Late(lead.sale)]
  /\ stale' = IF Missed(lead, new) THEN stale \cup {lead.sale} ELSE stale

\* Redis does not answer: the envelope is lost, which is only logged.
Lose(lead) ==
  /\ page' = [page EXCEPT !.late = Late(lead.sale)]
  /\ stale' = stale \cup {lead.sale}

-----------------------------------------------------------------------------
(* The handler's transaction *)

\* The upsert of the sale's row waits for the transaction that has written it.
Locked(s) == \E w \in Workers : run[w].pc # "idle" /\ run[w].ev.sale = s

\* The values of the INSERT.
Inserted(ev) ==
  [id |-> runs + 1, sale |-> ev.sale, code |-> ev.code, status |-> ev.status,
   last |-> ev.kind, activated |-> ev.kind = "activated",
   contact |-> ev.phone, unmatched |-> FALSE]

\* ON CONFLICT DO UPDATE: status and last event always, the activation and the
\* contact only from an event that has them; the rest is the first event's.
Merged(l, ev) ==
  [l EXCEPT !.status = ev.status, !.last = ev.kind,
            !.activated = @ \/ ev.kind = "activated", !.contact = @ \/ ev.phone]

\* handle, up to lead_repo.upsert.
Upsert(w, ev) ==
  /\ run[w].pc = "idle" /\ ~Locked(ev.sale)
  /\ runs < MaxRuns /\ runs' = runs + 1
  /\ LET old == row[ev.sale] IN
       run' = [run EXCEPT ![w] =
                 [Idle EXCEPT !.pc = "upserted", !.ev = ev, !.new = old = None,
                    !.lead = IF old = None THEN Inserted(ev) ELSE Merged(old, ev)]]
  /\ UNCHANGED <<catalog, tables, page, history, stale, faults, edits, loads>>

\* _route: without a contact there is no verdict; else the product is looked
\* up and the buyer enrolled in its flows; those that fail are only logged.
Route(w) ==
  /\ run[w].pc = "upserted"
  /\ LET ev == run[w].ev
     IN IF ~ev.phone
          THEN run' = [run EXCEPT ![w].pc = "routed"] /\ UNCHANGED faults
          ELSE \E got \in SUBSET Triggered(ev) :
                 /\ run' = [run EXCEPT ![w].pc = "routed", ![w].flows = got,
                                       ![w].match = Recognized(ev), ![w].at = edits]
                 /\ IF got = Triggered(ev) THEN UNCHANGED faults ELSE Fault
  /\ UNCHANGED <<catalog, tables, page, history, stale, runs, edits, loads>>

\* Faulty variant: a product found does not clear the flag.
FlaggedForGood(r) == [r.lead EXCEPT !.unmatched = @ \/ r.match = FALSE]

\* Faulty variant: no verdict is taken for one.
FlaggedAnyway(r) == [r.lead EXCEPT !.unmatched = IF r.match = TRUE THEN FALSE ELSE r.match]

\* set_product_unmatched: a verdict sets the flag or clears it.
Flagged(r) == [r.lead EXCEPT !.unmatched = IF r.match = None THEN @ ELSE ~r.match]

\* Faulty variant: the flag is set in the table only.
PublishEarly(w) ==
  /\ run[w].pc = "routed"
  /\ run' = [run EXCEPT ![w].pc = "published", ![w].lead = Flagged(run[w])]
  /\ Tell(run[w].lead, run[w].new)
  /\ UNCHANGED <<catalog, tables, history, runs, faults, edits, loads>>

\* The flag, in the table and in the entity, and the envelope.
Publish(w) ==
  /\ run[w].pc = "routed"
  /\ run' = [run EXCEPT ![w].pc = "published", ![w].lead = Flagged(run[w])]
  /\ \/ Tell(Flagged(run[w]), run[w].new) /\ UNCHANGED faults
     \/ Lose(Flagged(run[w])) /\ Fault
  /\ UNCHANGED <<catalog, tables, history, runs, edits, loads>>

\* mark_processed and the commit.
Commit(w) ==
  /\ run[w].pc = "published"
  /\ LET r == run[w]
         s == r.ev.sale
     IN /\ row' = [row EXCEPT ![s] = r.lead]
        /\ log' = log \cup {r.ev}
        /\ enrolled' = [enrolled EXCEPT ![s] = @ \cup r.flows]
        /\ outdated' = IF r.match = None \/ r.dated THEN outdated ELSE outdated \ {s}
        /\ past' = [past EXCEPT ![s] = IF r.at = edits THEN @ \ r.flows
                                       ELSE @ \cup (r.flows \ enrolled[s])]
  /\ run' = [run EXCEPT ![w] = Idle]
  /\ UNCHANGED <<catalog, page, stale, runs, faults, edits, loads>>

\* An error or a crash rolls the transaction back; what was published stays.
Fail(w) ==
  /\ run[w].pc # "idle" /\ Fault
  /\ stale' = IF run[w].pc = "published" THEN stale \cup {run[w].ev.sale} ELSE stale
  /\ page' = IF run[w].pc = "published" THEN [page EXCEPT !.late = Late(run[w].ev.sale)]
                                        ELSE page
  /\ run' = [run EXCEPT ![w] = Idle]
  /\ UNCHANGED <<catalog, tables, history, runs, edits, loads>>

-----------------------------------------------------------------------------
Init ==
  /\ \E c \in Catalogs : product = c.product /\ alias = c.alias /\ flow = c.flow
  /\ log = {} /\ outdated = {} /\ stale = {}
  /\ row = [s \in Sales |-> None]
  /\ enrolled = [s \in Sales |-> {}] /\ past = enrolled
  /\ run = [w \in Workers |-> Idle]
  /\ page = [filter |-> [status |-> None, unmatched |-> FALSE], fetch |-> "never",
             got |-> {}, late |-> {}, rows |-> {}, open |-> FALSE]
  /\ runs = 0 /\ faults = 0 /\ edits = 0 /\ loads = 0

Catalog ==
  \/ \E p \in Products, n \in Names, c \in Codes, a \in BOOLEAN :
        LET new == [name |-> n, code |-> c, active |-> a]
        IN CreateProduct(p, new) \/ UpdateProduct(p, new)
  \/ \E p \in Products : DeleteProduct(p)
  \/ \E c \in Codes, p \in Products : AddAlias(c, p)
  \/ \E f \in Flows, p \in Products, k \in Kinds, a \in BOOLEAN :
        SaveFlow(f, [product |-> p, kind |-> k, active |-> a])

Handle(w) ==
  \/ \E ev \in Payloads : Upsert(w, ev)
  \/ Route(w) \/ Publish(w) \/ Commit(w) \/ Fail(w)

Screen ==
  \/ \E filter \in Filters : SetFilter(filter)
  \/ Read \/ Show \/ Subscribe \/ Drop

Next == Catalog \/ Screen \/ \E w \in Workers : Handle(w)

Spec == Init /\ [][Next]_vars

-----------------------------------------------------------------------------
(* What must hold *)

TypeOK ==
  /\ product \in [Products -> Product \cup {None}]
  /\ alias \in [Codes -> Products \cup {None}]
  /\ flow \in [Flows -> Flow \cup {None}]
  /\ log \subseteq Payloads /\ outdated \subseteq Sales /\ stale \subseteq Sales
  /\ row \in [Sales -> Lead \cup {None}]
  /\ enrolled \in [Sales -> SUBSET Flows] /\ past \in [Sales -> SUBSET Flows]
  /\ run \in [Workers -> Transaction]
  /\ \A w \in Workers : \/ run[w] = Idle
                        \/ run[w].pc # "idle" /\ run[w].ev \in Payloads /\ run[w].lead \in Lead
  /\ page \in Page
  /\ runs \in 0..MaxRuns /\ faults \in 0..MaxFaults
  /\ edits \in 0..MaxEdits /\ loads \in 0..MaxLoads

\* The list shows a lead as the table has it, and every lead its filter selects,
\* but for what a transaction has announced and not committed and for what the
\* page is known to have missed (no stream, a filter, a late answer, a publish
\* that failed): the envelope carries what is committed.
ShownExplained ==
  page.fetch = "shown" =>
    \A s \in Sales \ (stale \cup Announced) :
      {l \in page.rows : l.sale = s} = {l \in Listed(page.filter) : l.sale = s}

\* A lead's status, last event and pending flag tell of one event: the flag is
\* that event's lookup, unless it had no contact or the catalog has changed
\* since; a lead once pending is not pending for ever.
PendingExplained ==
  \A s \in Sales : row[s] # None =>
    \E ev \in log :
      /\ ev.sale = s /\ ev.kind = row[s].last /\ ev.status = row[s].status
      /\ ev.phone /\ s \notin outdated => row[s].unmatched = ~Recognized(ev)

\* Once an activation is in the log, no later or older event, retried or not,
\* takes the lead's activation date away.
ActivatedKept ==
  \A ev \in log : ev.kind = "activated" => row[ev.sale].activated

\* Whatever the order in which the events of a sale are handled and retried, its lead tells
\* of them.
LeadTells == PendingExplained /\ ActivatedKept

\* The flow is active, and on the course that the event names: by its id, which wins; by
\* an alias; or by a name that no other course has.
Starts(ev, f) ==
  LET p == flow[f].product IN
    /\ ev.phone /\ flow[f].active /\ Live(p)
    /\ \A q \in Products \ {p} : ~(Live(q) /\ product[q].code = ev.code)
    /\ \/ product[p].code = ev.code \/ alias[ev.code] = p
       \/ \A q \in Products : Live(q) /\ product[q].name = ev.name <=> q = p

\* However products, aliases and flows are edited around it, what a buyer was enrolled in by
\* a lookup that no edit has overtaken is an active flow of a course that an event of the
\* sale names, even if that lookup's transaction committed long after.
RightCourse ==
  \A s \in Sales : \A f \in enrolled[s] \ past[s] :
    \E ev \in log : ev.sale = s /\ Starts(ev, f)

=============================================================================
