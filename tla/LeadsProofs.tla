----------------------------- MODULE LeadsProofs -----------------------------
(***************************************************************************)
(* Proofs about Leads, for every value of its constants.                   *)
(*                                                                         *)
(* The inductive invariant is Panel.  OneAtATime, the row lock of the      *)
(* sale's lead, carries most of it: what an open transaction has read      *)
(* (Writes) and looked up (Verdicts) is still so when it commits, and the  *)
(* envelope it has published is what the page shows of its sale, or on     *)
(* record as missed (Told).  Courses dates what it has found: a lookup as  *)
(* old as the last edit is right by the catalog as it stands.              *)
(***************************************************************************)
EXTENDS Leads, FiniteSetTheorems, TLAPS

Busy(w) == run[w].pc # "idle"

\* The upsert's row lock: one open transaction per sale.
OneAtATime == \A v, w \in Workers :
  Busy(v) /\ Busy(w) /\ run[v].ev.sale = run[w].ev.sale => v = w

\* A row is its sale's, and a logged event has left one.
RowsStand ==
  /\ \A s \in Sales : row[s] # None => row[s].sale = s
  /\ \A ev \in log : row[ev.sale] # None

\* What an open transaction has made of the row it found, which is still there.
Writes == \A w \in Workers : Busy(w) =>
  LET r == run[w] IN
    /\ r.lead.sale = r.ev.sale /\ r.lead.status = r.ev.status /\ r.lead.last = r.ev.kind
    /\ r.ev.kind = "activated" => r.lead.activated
    /\ r.new <=> row[r.ev.sale] = None
    /\ row[r.ev.sale] # None => /\ r.lead.id = row[r.ev.sale].id
                                /\ row[r.ev.sale].activated => r.lead.activated

\* The leads that are anywhere: in the table, in a transaction, on the page.
Around == ({row[s] : s \in Sales} \ {None}) \cup {run[w].lead : w \in {v \in Workers : Busy(v)}}
          \cup page.rows \cup page.got

\* An id was given out once, for one sale.
IdsApart ==
  /\ \A l \in Around : l.id <= runs
  /\ \A l, m \in Around : l.id = m.id => l.sale = m.sale

\* A verdict is what the lookup still says, unless an edit has overtaken it and is on record.
Verdicts == \A w \in Workers :
  LET r == run[w] IN
    /\ r.pc \in {"idle", "upserted"} => r.match = None /\ r.flows = {}
    /\ r.pc \in {"routed", "published"} /\ r.ev.phone => r.match # None
    /\ r.match = None => ~r.dated
    /\ r.match # None => IF r.dated THEN r.ev.sale \in outdated ELSE r.match = Recognized(r.ev)
    /\ r.pc = "published" /\ r.match # None => r.lead.unmatched = ~r.match

\* Finitely many products, no two with one id.
CatalogFits ==
  /\ IsFiniteSet({p \in Products : product[p] # None})
  /\ \A p, q \in Products : product[p] # None /\ product[q] # None
                              /\ product[p].code = product[q].code => p = q

\* What a transaction has looked up since the last edit are flows its event starts.
Courses == \A w \in Workers :
  /\ run[w].flows # {} => run[w].pc \in {"routed", "published"} /\ run[w].at <= edits
  /\ run[w].at = edits => \A f \in run[w].flows : Starts(run[w].ev, f)

OfSale(leads, s) == {l \in leads : l.sale = s}
Selects(filter, l) == filter.status \in {None, l.status} /\ (filter.unmatched => l.unmatched)

\* A fetch has, of the sales it is not late for, what the table has; the page shows of the
\* sales it has not missed what was published of them.
Told ==
  /\ page.fetch = "read" =>
       /\ Announced \subseteq page.late
       /\ \A s \in Sales \ page.late : OfSale(page.got, s) = OfSale(Listed(page.filter), s)
  /\ page.fetch = "shown" =>
       \A w \in Workers : run[w].pc = "published" /\ run[w].ev.sale \notin stale =>
         /\ OfSale(page.rows, run[w].ev.sale) = {run[w].lead}
         /\ Selects(page.filter, run[w].lead)

Panel == /\ TypeOK /\ OneAtATime /\ RowsStand /\ Writes /\ IdsApart
         /\ Verdicts /\ LeadTells /\ CatalogFits /\ Courses /\ RightCourse
         /\ Told /\ ShownExplained

-----------------------------------------------------------------------------
(* Transactions and the types of what the actions write *)

\* A worker's transaction is rewritten and no other.
LEMMA RunWrite ==
  ASSUME NEW w \in Workers, NEW r \in Transaction, TypeOK, run' = [run EXCEPT ![w] = r]
  PROVE  /\ run' \in [Workers -> Transaction] /\ run'[w] = r
         /\ \A v \in Workers : v # w => run'[v] = run[v]
BY DEF TypeOK

\* None is no row of any kind.
LEMMA Nothing ==
  /\ None \notin Lead /\ None \notin Product /\ None \notin Flow /\ None \notin Products
  /\ None \notin BOOLEAN /\ None \notin Payloads
  /\ Payloads \subseteq Payload
BY NoneAssumption, PayloadsAssumption

\* An idle worker's record is one of a transaction.
LEMMA IdleType == Idle \in Transaction
BY BoundsAssumption DEF Idle, Transaction, Statement

\* An idle worker is at no statement.
LEMMA IdleRuns == Idle.pc = "idle"
BY DEF Idle

\* A busy worker has an event and a lead.
LEMMA BusyHas ==
  ASSUME TypeOK, NEW w \in Workers, Busy(w)
  PROVE  run[w] \in Transaction /\ run[w].ev \in Payloads /\ run[w].lead \in Lead
         /\ run[w].ev.sale \in Sales /\ run[w].ev \in Payload
BY Nothing DEF TypeOK, Busy, Idle, Payload

\* The leads that an upsert writes are leads.
LEMMA LeadTypes ==
  ASSUME TypeOK, NEW ev \in Payload
  PROVE  /\ runs < MaxRuns => Inserted(ev) \in Lead
         /\ \A l \in Lead : Merged(l, ev) \in Lead
<1>1. runs < MaxRuns => Inserted(ev) \in Lead
  BY BoundsAssumption DEF TypeOK, Inserted, Lead, Payload
<1>2. ASSUME NEW l \in Lead PROVE Merged(l, ev) \in Lead
  BY DEF Merged, Lead, Payload
<1> QED BY <1>1, <1>2

\* What an upsert does: the transaction begins with the row it found, merged with the event.
LEMMA UpsertEffect ==
  ASSUME TypeOK, NEW w \in Workers, NEW ev \in Payloads, Upsert(w, ev)
  PROVE  /\ run[w].pc = "idle" /\ ~Locked(ev.sale) /\ runs < MaxRuns /\ runs' = runs + 1
         /\ run' \in [Workers -> Transaction] /\ \A v \in Workers : v # w => run'[v] = run[v]
         /\ run'[w].pc = "upserted" /\ run'[w].ev = ev /\ run'[w].lead \in Lead
         /\ run'[w].match = None /\ run'[w].flows = {} /\ ~run'[w].dated
         /\ run'[w].new <=> row[ev.sale] = None
         /\ run'[w].lead = IF row[ev.sale] = None THEN Inserted(ev) ELSE Merged(row[ev.sale], ev)
         /\ UNCHANGED <<catalog, tables, page, history, stale, faults, edits, loads>>
<1> DEFINE old == row[ev.sale]
           lead == IF old = None THEN Inserted(ev) ELSE Merged(old, ev)
           r == [Idle EXCEPT !.pc = "upserted", !.ev = ev, !.new = old = None, !.lead = lead]
<1>1. ev \in Payload /\ ev.sale \in Sales
  BY Nothing DEF Payload
<1>2. old \in Lead \cup {None}
  BY <1>1 DEF TypeOK
<1>3. runs < MaxRuns
  BY DEF Upsert
<1>4. lead \in Lead
  BY <1>1, <1>2, <1>3, LeadTypes
<1>5. run' = [run EXCEPT ![w] = r]
  BY DEF Upsert
<1> HIDE DEF lead
<1>6. r.pc = "upserted" /\ r.ev = ev /\ r.lead = lead /\ r.match = None /\ r.flows = {}
      /\ ~r.dated /\ (r.new <=> old = None)
  BY DEF Idle
<1>7. \A b \in BOOLEAN : [Idle EXCEPT !.pc = "upserted", !.ev = ev, !.new = b, !.lead = lead]
                           \in Transaction
  BY <1>4, IdleType DEF Transaction, Statement
<1>8. r \in Transaction
  BY <1>7
<1> HIDE DEF r
<1>9. /\ run' \in [Workers -> Transaction] /\ run'[w] = r
      /\ \A v \in Workers : v # w => run'[v] = run[v]
  BY <1>5, <1>8, RunWrite
<1> QED BY <1>3, <1>4, <1>6, <1>9 DEF Upsert, lead

\* What routing does: a verdict and flows, but for an event without a contact.
LEMMA RouteEffect ==
  ASSUME TypeOK, NEW w \in Workers, Route(w)
  PROVE  LET ev == run[w].ev IN
         /\ run[w].pc = "upserted"
         /\ run' \in [Workers -> Transaction] /\ \A v \in Workers : v # w => run'[v] = run[v]
         /\ run'[w].pc = "routed" /\ run'[w].ev = ev /\ run'[w].lead = run[w].lead
         /\ run'[w].new = run[w].new /\ run'[w].dated = run[w].dated
         /\ IF ev.phone
              THEN /\ run'[w].match = Recognized(ev) /\ run'[w].flows \subseteq Triggered(ev)
                   /\ run'[w].at = edits
              ELSE /\ run'[w].match = run[w].match /\ run'[w].flows = run[w].flows
                   /\ run'[w].at = run[w].at
         /\ faults' \in 0..MaxFaults
         /\ UNCHANGED <<catalog, tables, page, history, stale, runs, edits, loads>>
<1> DEFINE ev == run[w].ev
<1>1. run \in [Workers -> Transaction] /\ run[w] \in Transaction /\ faults \in 0..MaxFaults
  BY DEF TypeOK
<1>2. /\ run[w].pc = "upserted"
      /\ UNCHANGED <<catalog, tables, page, history, stale, runs, edits, loads>>
  BY DEF Route
<1>3. CASE ~ev.phone
  <2>1. run' = [run EXCEPT ![w].pc = "routed"] /\ UNCHANGED faults
    BY <1>3 DEF Route
  <2>2. [run[w] EXCEPT !.pc = "routed"] \in Transaction
    BY <1>1 DEF Transaction, Statement
  <2>3. /\ run' \in [Workers -> Transaction] /\ run'[w] = [run[w] EXCEPT !.pc = "routed"]
        /\ \A v \in Workers : v # w => run'[v] = run[v]
    BY <1>1, <2>1, <2>2
  <2> QED BY <1>1, <1>2, <1>3, <2>1, <2>3 DEF Transaction
<1>4. CASE ev.phone
  <2>1. PICK got \in SUBSET Triggered(ev) :
          /\ run' = [run EXCEPT ![w].pc = "routed", ![w].flows = got,
                                ![w].match = Recognized(ev), ![w].at = edits]
          /\ IF got = Triggered(ev) THEN UNCHANGED faults ELSE Fault
    BY <1>4 DEF Route
  <2>2. Triggered(ev) \subseteq Flows
    BY DEF FlowsFor, Triggered
  <2> DEFINE r == [run[w] EXCEPT !.pc = "routed", !.flows = got,
                              !.match = Recognized(ev), !.at = edits]
  <2>3. \A b \in BOOLEAN :
          [run[w] EXCEPT !.pc = "routed", !.flows = got, !.match = b, !.at = edits] \in Transaction
    BY <1>1, <2>1, <2>2 DEF Transaction, Statement, TypeOK
  <2>4. r \in Transaction
    BY <2>3 DEF Recognized
  <2>5. /\ r.pc = "routed" /\ r.ev = ev /\ r.lead = run[w].lead /\ r.new = run[w].new
        /\ r.dated = run[w].dated /\ r.match = Recognized(ev) /\ r.flows = got /\ r.at = edits
    BY <1>1 DEF Transaction
  <2>6. run' = [run EXCEPT ![w] = r]
    BY <2>1, <1>1
  <2> HIDE DEF r
  <2>7. /\ run' \in [Workers -> Transaction] /\ run'[w] = r
        /\ \A v \in Workers : v # w => run'[v] = run[v]
    BY <2>4, <2>6, RunWrite
  <2>8. faults' \in 0..MaxFaults
    BY <1>1, <2>1, BoundsAssumption DEF Fault
  <2> QED BY <1>2, <1>4, <2>1, <2>5, <2>7, <2>8
<1> QED BY <1>3, <1>4

\* The flag of a lead that is published is a Boolean.
LEMMA FlaggedType ==
  ASSUME TypeOK, NEW w \in Workers, Busy(w)
  PROVE  /\ Flagged(run[w]) \in Lead
         /\ LET l == run[w].lead  m == Flagged(run[w]) IN
              /\ m.id = l.id /\ m.sale = l.sale /\ m.status = l.status /\ m.last = l.last
              /\ m.activated = l.activated
              /\ run[w].match # None => m.unmatched = ~run[w].match
<1> DEFINE r == run[w]
           l == r.lead
<1>1. r \in Transaction /\ l \in Lead
  BY BusyHas
<1>2. r.match \in BOOLEAN \cup {None}
  BY <1>1 DEF Transaction
<1> DEFINE flag == IF r.match = None THEN l.unmatched ELSE ~r.match
<1>3. flag \in BOOLEAN
  BY <1>1, <1>2 DEF Lead
<1>4. Flagged(r) = [l EXCEPT !.unmatched = flag]
  BY DEF Flagged
<1>5. r.match # None => flag = ~r.match
  OBVIOUS
<1> HIDE DEF flag
<1>6. [l EXCEPT !.unmatched = flag] \in Lead
  BY <1>1, <1>3 DEF Lead
<1> QED BY <1>1, <1>4, <1>5, <1>6 DEF Lead

\* What publishing does: the flag, then the envelope to the page.
LEMMA PublishEffect ==
  ASSUME TypeOK, NEW w \in Workers, Publish(w)
  PROVE  LET lead == Flagged(run[w]) IN
         /\ run[w].pc = "routed"
         /\ run' \in [Workers -> Transaction] /\ \A v \in Workers : v # w => run'[v] = run[v]
         /\ run'[w].pc = "published" /\ run'[w].lead = lead /\ run'[w].ev = run[w].ev
         /\ run'[w].new = run[w].new /\ run'[w].match = run[w].match
         /\ run'[w].flows = run[w].flows /\ run'[w].dated = run[w].dated
         /\ run'[w].at = run[w].at
         /\ Tell(lead, run[w].new) \/ Lose(lead)
         /\ faults' \in 0..MaxFaults
         /\ UNCHANGED <<catalog, tables, history, runs, edits, loads>>
<1> DEFINE lead == Flagged(run[w])
           r == [run[w] EXCEPT !.pc = "published", !.lead = lead]
<1>1. run[w].pc = "routed" /\ (Tell(lead, run[w].new) \/ Lose(lead))
      /\ UNCHANGED <<catalog, tables, history, runs, edits, loads>>
      /\ run' = [run EXCEPT ![w].pc = "published", ![w].lead = lead]
  BY DEF Publish
<1>7. faults' \in 0..MaxFaults
  BY BoundsAssumption DEF Publish, Fault, TypeOK
<1>2. run \in [Workers -> Transaction] /\ run[w] \in Transaction
  BY DEF TypeOK
<1>3. lead \in Lead
  BY <1>1, FlaggedType DEF Busy
<1> HIDE DEF lead
<1>4. /\ r \in Transaction
      /\ r.pc = "published" /\ r.lead = lead /\ r.ev = run[w].ev /\ r.new = run[w].new
      /\ r.match = run[w].match /\ r.flows = run[w].flows /\ r.dated = run[w].dated
      /\ r.at = run[w].at
  BY <1>2, <1>3 DEF Transaction, Statement
<1>5. run' = [run EXCEPT ![w] = r]
  BY <1>1, <1>2
<1> HIDE DEF r
<1>6. /\ run' \in [Workers -> Transaction] /\ run'[w] = r
      /\ \A v \in Workers : v # w => run'[v] = run[v]
  BY <1>4, <1>5, RunWrite
<1> QED BY <1>1, <1>4, <1>6, <1>7 DEF lead

\* What the envelope does to the page's fields.
LEMMA TellEffect ==
  ASSUME TypeOK, NEW lead \in Lead, NEW new \in BOOLEAN, Tell(lead, new)
  PROVE  /\ page' \in Page
         /\ page'.filter = page.filter /\ page'.fetch = page.fetch /\ page'.got = page.got
         /\ page'.open = page.open
         /\ page'.rows = IF page.open /\ Passes(page.filter, lead)
                           THEN Upserted(page.rows, lead, new) ELSE page.rows
         /\ page'.late = IF page.fetch = "read" THEN page.late \cup {lead.sale} ELSE page.late
         /\ stale' = IF Missed(lead, new) THEN stale \cup {lead.sale} ELSE stale
<1> DEFINE rows == IF page.open /\ Passes(page.filter, lead)
                     THEN Upserted(page.rows, lead, new) ELSE page.rows
           late == Late(lead.sale)
<1>1. page \in Page /\ lead.sale \in Sales
  BY DEF TypeOK, Lead
<1>2. rows \subseteq Lead
  BY <1>1 DEF Page, Upserted
<1>3. late \subseteq Sales
  BY <1>1 DEF Page, Late
<1>4. page' = [page EXCEPT !.rows = rows, !.late = late]
  BY DEF Tell
<1>5. stale' = IF Missed(lead, new) THEN stale \cup {lead.sale} ELSE stale
  BY DEF Tell
<1> HIDE DEF rows, late
<1>6. page' \in Page /\ page'.rows = rows /\ page'.late = late
      /\ page'.filter = page.filter /\ page'.fetch = page.fetch /\ page'.got = page.got
      /\ page'.open = page.open
  BY <1>1, <1>2, <1>3, <1>4 DEF Page
<1> QED BY <1>5, <1>6 DEF rows, late, Late

\* A lost envelope leaves the list as it is and the sale on record.
LEMMA LoseEffect ==
  ASSUME TypeOK, NEW lead \in Lead, Lose(lead)
  PROVE  /\ page' \in Page
         /\ page'.filter = page.filter /\ page'.fetch = page.fetch /\ page'.got = page.got
         /\ page'.open = page.open /\ page'.rows = page.rows
         /\ page'.late = IF page.fetch = "read" THEN page.late \cup {lead.sale} ELSE page.late
         /\ stale' = stale \cup {lead.sale}
<1> DEFINE late == Late(lead.sale)
<1>1. page \in Page /\ lead.sale \in Sales
  BY DEF TypeOK, Lead
<1>2. late \subseteq Sales
  BY <1>1 DEF Page, Late
<1>3. page' = [page EXCEPT !.late = late] /\ stale' = stale \cup {lead.sale}
  BY DEF Lose
<1> HIDE DEF late
<1>4. page' \in Page /\ page'.rows = page.rows /\ page'.late = late
      /\ page'.filter = page.filter /\ page'.fetch = page.fetch /\ page'.got = page.got
      /\ page'.open = page.open
  BY <1>1, <1>2, <1>3 DEF Page
<1> QED BY <1>3, <1>4 DEF late, Late

\* What a commit does.
LEMMA CommitEffect ==
  ASSUME TypeOK, NEW w \in Workers, Commit(w)
  PROVE  LET r == run[w]  s == run[w].ev.sale IN
         /\ r.pc = "published" /\ s \in Sales /\ r.lead \in Lead /\ r.ev \in Payloads
         /\ run' \in [Workers -> Transaction] /\ \A v \in Workers : v # w => run'[v] = run[v]
         /\ run'[w] = Idle
         /\ row' \in [Sales -> Lead \cup {None}] /\ row'[s] = r.lead
         /\ \A t \in Sales : t # s => row'[t] = row[t]
         /\ log' = log \cup {r.ev}
         /\ enrolled' \in [Sales -> SUBSET Flows] /\ enrolled'[s] = enrolled[s] \cup r.flows
         /\ \A t \in Sales : t # s => enrolled'[t] = enrolled[t]
         /\ outdated' = IF r.match = None \/ r.dated THEN outdated ELSE outdated \ {s}
         /\ past' \in [Sales -> SUBSET Flows]
         /\ past'[s] = IF r.at = edits THEN past[s] \ r.flows
                                       ELSE past[s] \cup (r.flows \ enrolled[s])
         /\ \A t \in Sales : t # s => past'[t] = past[t]
         /\ UNCHANGED <<catalog, page, stale, runs, faults, edits, loads>>
<1>1. run[w].pc = "published" /\ run' = [run EXCEPT ![w] = Idle]
  BY DEF Commit
<1>2. run[w] \in Transaction /\ run[w].ev \in Payloads /\ run[w].lead \in Lead
      /\ run[w].ev.sale \in Sales
  BY <1>1, BusyHas DEF Busy
<1>3. /\ run' \in [Workers -> Transaction] /\ run'[w] = Idle
      /\ \A v \in Workers : v # w => run'[v] = run[v]
  BY <1>1, IdleType, RunWrite
<1>4. run[w].flows \subseteq Flows
  BY <1>2 DEF Transaction
<1> QED BY <1>1, <1>2, <1>3, <1>4 DEF Commit, TypeOK

\* What a rollback does.
LEMMA FailEffect ==
  ASSUME TypeOK, NEW w \in Workers, Fail(w)
  PROVE  LET told == run[w].pc = "published"  s == run[w].ev.sale IN
         /\ Busy(w) /\ s \in Sales /\ faults' \in 0..MaxFaults
         /\ run' \in [Workers -> Transaction] /\ \A v \in Workers : v # w => run'[v] = run[v]
         /\ run'[w] = Idle
         /\ stale' = IF told THEN stale \cup {s} ELSE stale
         /\ page' \in Page
         /\ page'.filter = page.filter /\ page'.fetch = page.fetch /\ page'.got = page.got
         /\ page'.open = page.open /\ page'.rows = page.rows
         /\ page'.late = IF told /\ page.fetch = "read" THEN page.late \cup {s} ELSE page.late
         /\ UNCHANGED <<catalog, tables, history, runs, edits, loads>>
<1>1. Busy(w) /\ run' = [run EXCEPT ![w] = Idle] /\ Fault
  BY DEF Fail, Busy
<1>2. run[w].ev.sale \in Sales /\ page \in Page
  BY <1>1, BusyHas DEF TypeOK
<1>3. /\ run' \in [Workers -> Transaction] /\ run'[w] = Idle
      /\ \A v \in Workers : v # w => run'[v] = run[v]
  BY <1>1, IdleType, RunWrite
<1>4. faults' \in 0..MaxFaults
  BY <1>1, BoundsAssumption DEF Fault, TypeOK
<1>5. /\ page' \in Page
      /\ page'.filter = page.filter /\ page'.fetch = page.fetch /\ page'.got = page.got
      /\ page'.open = page.open /\ page'.rows = page.rows
      /\ page'.late = IF run[w].pc = "published" /\ page.fetch = "read"
                        THEN page.late \cup {run[w].ev.sale} ELSE page.late
  <2>1. CASE run[w].pc = "published" /\ page.fetch = "read"
    <3>1. page' = [page EXCEPT !.late = page.late \cup {run[w].ev.sale}]
      BY <2>1 DEF Fail, Late
    <3>2. page.late \cup {run[w].ev.sale} \subseteq Sales
      BY <1>2 DEF Page
    <3> QED BY <1>2, <2>1, <3>1, <3>2 DEF Page
  <2>2. CASE run[w].pc = "published" /\ page.fetch # "read"
    BY <1>2, <2>2 DEF Fail, Late, Page
  <2>3. CASE run[w].pc # "published"
    BY <1>2, <2>3 DEF Fail
  <2> QED BY <2>1, <2>2, <2>3
<1> QED BY <1>1, <1>2, <1>3, <1>4, <1>5 DEF Fail

\* What an edit of products or aliases does to the transactions: what they have looked up is
\* dated.
Outdates ==
  /\ outdated' = Sales
  /\ run' \in [Workers -> Transaction]
  /\ \A w \in Workers :
       /\ run'[w].pc = run[w].pc /\ run'[w].ev = run[w].ev /\ run'[w].lead = run[w].lead
       /\ run'[w].new = run[w].new /\ run'[w].match = run[w].match
       /\ run'[w].flows = run[w].flows /\ run'[w].at = run[w].at
       /\ run'[w].dated <=> run[w].match # None
       /\ run[w] = Idle => run'[w] = Idle

\* An edit of products or aliases dates the lookups made so far.
LEMMA OutdateEffect ==
  ASSUME TypeOK, Outdate
  PROVE  Outdates
<1>1. run \in [Workers -> Transaction]
  BY DEF TypeOK
<1>2. \A w \in Workers, b \in BOOLEAN : [run[w] EXCEPT !.dated = b] \in Transaction
  BY <1>1 DEF Transaction
<1>3. \A w \in Workers : [run[w] EXCEPT !.dated = run[w].match # None] \in Transaction
  BY <1>2
<1>4. run' = [w \in Workers |-> [run[w] EXCEPT !.dated = run[w].match # None]]
      /\ outdated' = Sales
  BY DEF Outdate
<1>5. run' \in [Workers -> Transaction]
  BY <1>3, <1>4
<1>6. ASSUME NEW w \in Workers
      PROVE  /\ run'[w].pc = run[w].pc /\ run'[w].ev = run[w].ev /\ run'[w].lead = run[w].lead
             /\ run'[w].new = run[w].new /\ run'[w].match = run[w].match
             /\ run'[w].flows = run[w].flows /\ run'[w].at = run[w].at
             /\ run'[w].dated <=> run[w].match # None
  BY <1>1, <1>4 DEF Transaction
<1>7. ASSUME NEW w \in Workers, run[w] = Idle PROVE run'[w] = Idle
  <2>1. (run[w].match # None) = FALSE
    BY <1>7 DEF Idle
  <2>2. run'[w] = [run[w] EXCEPT !.dated = FALSE]
    BY <1>4, <2>1
  <2>3. \A b : b = Idle.dated => [Idle EXCEPT !.dated = b] = Idle
    BY DEF Idle
  <2>4. FALSE = Idle.dated
    BY DEF Idle
  <2> QED BY <1>7, <2>2, <2>3, <2>4
<1> QED BY <1>4, <1>5, <1>6, <1>7 DEF Outdates

\* The requests that change the catalog: a lookup may come out otherwise only with the
\* lookups made so far on record as dated.
LEMMA CatalogEffect ==
  ASSUME TypeOK, Catalog
  PROVE  /\ edits \in 0..MaxEdits /\ edits' = edits + 1 /\ edits' \in 0..MaxEdits
         /\ product' \in [Products -> Product \cup {None}]
         /\ alias' \in [Codes -> Products \cup {None}] /\ flow' \in [Flows -> Flow \cup {None}]
         /\ Outdates \/ UNCHANGED <<product, alias, outdated, run>>
         /\ past' = enrolled
         /\ UNCHANGED <<tables, page, stale, runs, faults, loads>>
<1>1. ASSUME Edit PROVE edits \in 0..MaxEdits /\ edits' = edits + 1 /\ edits' \in 0..MaxEdits
                           /\ past' = enrolled
  BY <1>1, BoundsAssumption DEF Edit, TypeOK
<1>2. ASSUME NEW p \in Products, NEW n \in Names, NEW c \in Codes, NEW a \in BOOLEAN,
             WriteProduct(p, [name |-> n, code |-> c, active |-> a])
      PROVE  Edit /\ Outdate /\ product' \in [Products -> Product \cup {None}]
             /\ UNCHANGED <<alias, flow>>
  BY <1>2 DEF WriteProduct, TypeOK, Product
<1>3. ASSUME NEW p \in Products, DeleteProduct(p)
      PROVE  Edit /\ Outdate /\ product' \in [Products -> Product \cup {None}]
             /\ alias' \in [Codes -> Products \cup {None}] /\ UNCHANGED flow
  BY <1>3 DEF DeleteProduct, TypeOK
<1>4. ASSUME NEW c \in Codes, NEW p \in Products, AddAlias(c, p)
      PROVE  Edit /\ Outdate /\ alias' \in [Codes -> Products \cup {None}]
             /\ UNCHANGED <<product, flow>>
  BY <1>4 DEF AddAlias, TypeOK
<1>5. ASSUME NEW f \in Flows, NEW p \in Products, NEW k \in Kinds, NEW a \in BOOLEAN,
             SaveFlow(f, [product |-> p, kind |-> k, active |-> a])
      PROVE  Edit /\ flow' \in [Flows -> Flow \cup {None}]
             /\ UNCHANGED <<product, alias, outdated, run>>
  BY <1>5 DEF SaveFlow, WriteFlow, TypeOK, Flow
<1>6. Edit /\ (Outdate \/ UNCHANGED <<product, alias, outdated, run>>)
      /\ product' \in [Products -> Product \cup {None}]
      /\ alias' \in [Codes -> Products \cup {None}] /\ flow' \in [Flows -> Flow \cup {None}]
  BY <1>2, <1>3, <1>4, <1>5 DEF Catalog, CreateProduct, UpdateProduct, TypeOK
<1> QED BY <1>1, <1>6, OutdateEffect DEF Edit

\* What the page's own steps do to its fields.
ToFilter == page'.fetch = "asked"
ToRead == /\ page'.fetch = "read" /\ page'.filter = page.filter
          /\ page'.got = Listed(page.filter) /\ Announced \subseteq page'.late
ToShow == /\ page.fetch = "read" /\ page'.fetch = "shown" /\ page'.filter = page.filter
          /\ page'.rows = page.got /\ stale' = page.late
ToStream == /\ page'.fetch = page.fetch /\ page'.filter = page.filter /\ page'.got = page.got
            /\ page'.late = page.late /\ page'.rows = page.rows /\ stale' = stale

\* Each of the page's own steps is one of these, and leaves tables and transactions alone.
LEMMA ScreenEffect ==
  ASSUME TypeOK, Screen
  PROVE  /\ page' \in Page /\ stale' \subseteq Sales
         /\ faults' \in 0..MaxFaults /\ loads' \in 0..MaxLoads
         /\ page'.rows \subseteq page.rows \cup page.got
         /\ page'.got \subseteq page.got \cup Listed(page.filter)
         /\ ToFilter \/ ToRead \/ ToShow \/ ToStream
         /\ UNCHANGED <<catalog, tables, run, history, runs, edits>>
<1>1. page \in Page /\ stale \subseteq Sales /\ faults \in 0..MaxFaults /\ loads \in 0..MaxLoads
  BY DEF TypeOK
<1>2. Listed(page.filter) \subseteq Lead
  BY DEF Listed, TypeOK
<1>3. Announced \subseteq Sales
  BY BusyHas DEF Announced, TypeOK, Busy, Lead
<1>4. ASSUME NEW filter \in Filters, SetFilter(filter)
      PROVE  /\ page' \in Page /\ page'.rows = page.rows /\ page'.got = {} /\ ToFilter
             /\ loads' \in 0..MaxLoads /\ UNCHANGED <<page0, stale, faults>>
  <2>1. filter \in Filter
    BY FiltersAssumption
  <2>2. page' = [page EXCEPT !.filter = filter, !.fetch = "asked", !.got = {},
                             !.late = {}, !.open = FALSE]
    BY <1>4 DEF SetFilter
  <2>3. loads' \in 0..MaxLoads /\ UNCHANGED <<page0, stale, faults>>
    BY <1>1, <1>4, BoundsAssumption DEF SetFilter
  <2> QED BY <1>1, <2>1, <2>2, <2>3 DEF Page, ToFilter
<1>5. ASSUME Read
      PROVE  /\ page' \in Page /\ page'.rows = page.rows /\ ToRead
             /\ UNCHANGED <<page0, stale, faults, loads>>
  <2> DEFINE late == Announced \cup IF page.open THEN {} ELSE Sales
             got == Listed(page.filter)
  <2>1. late \subseteq Sales /\ Announced \subseteq late
    BY <1>3
  <2>2. page' = [page EXCEPT !.fetch = "read", !.got = got, !.late = late]
    BY <1>5 DEF Read
  <2>3. UNCHANGED <<page0, stale, faults, loads>>
    BY <1>5 DEF Read
  <2>4. got \subseteq Lead
    BY <1>2
  <2> HIDE DEF late, got
  <2>5. page' \in Page /\ page'.rows = page.rows /\ page'.fetch = "read"
        /\ page'.filter = page.filter /\ page'.got = got /\ page'.late = late
    BY <1>1, <2>1, <2>2, <2>4 DEF Page
  <2> QED BY <2>1, <2>3, <2>5 DEF ToRead, got
<1>6. ASSUME Show
      PROVE  /\ page' \in Page /\ page'.got = {} /\ ToShow
             /\ UNCHANGED <<page0, faults, loads>>
  BY <1>1, <1>6 DEF Show, Page, ToShow
<1>7. ASSUME Subscribe \/ Drop
      PROVE  /\ page' \in Page /\ ToStream
             /\ UNCHANGED <<page0, loads>> /\ faults' \in 0..MaxFaults
  <2>1. CASE Subscribe
    BY <1>1, <2>1 DEF Subscribe, Page, ToStream
  <2>2. CASE Drop
    <3>1. faults' \in 0..MaxFaults
      BY <1>1, <2>2, BoundsAssumption DEF Drop, Fault
    <3> QED BY <1>1, <2>2, <3>1 DEF Drop, Page, ToStream
  <2> QED BY <1>7, <2>1, <2>2
<1>8. CASE \E filter \in Filters : SetFilter(filter)
  BY <1>1, <1>4, <1>8 DEF page0
<1>9. CASE Read
  BY <1>1, <1>5, <1>9 DEF page0, ToRead
<1>10. CASE Show
  BY <1>1, <1>6, <1>10 DEF page0, ToShow, Page
<1>11. CASE Subscribe \/ Drop
  BY <1>1, <1>7, <1>11 DEF page0, ToStream
<1> QED BY <1>8, <1>9, <1>10, <1>11 DEF Screen

\* The handler's steps and their cases.
LEMMA HandleCases ==
  ASSUME NEW w \in Workers, Handle(w)
  PROVE  (\E ev \in Payloads : Upsert(w, ev)) \/ Route(w) \/ Publish(w) \/ Commit(w) \/ Fail(w)
BY DEF Handle

\* A worker is idle or has an event and a lead.
AtWork(r) == \/ r = Idle
             \/ r.pc # "idle" /\ r.ev \in Payloads /\ r.lead \in Lead

\* Every step keeps the types.
LEMMA TypesStep ==
  ASSUME TypeOK, [Next]_vars
  PROVE  TypeOK'
<1> DEFINE Held == /\ run' \in [Workers -> Transaction]
                   /\ \A w \in Workers : AtWork(run'[w])
           Tables == /\ past' \in [Sales -> SUBSET Flows] /\ log' \subseteq Payloads /\ row' \in [Sales -> Lead \cup {None}]
                     /\ enrolled' \in [Sales -> SUBSET Flows]
           Listing == page' \in Page /\ stale' \subseteq Sales /\ outdated' \subseteq Sales
           Rest == /\ product' \in [Products -> Product \cup {None}]
                   /\ alias' \in [Codes -> Products \cup {None}]
                   /\ flow' \in [Flows -> Flow \cup {None}]
           Counts == /\ runs' \in 0..MaxRuns /\ faults' \in 0..MaxFaults
                     /\ edits' \in 0..MaxEdits /\ loads' \in 0..MaxLoads
<1>1. \A w \in Workers : AtWork(run[w])
  BY DEF TypeOK, AtWork
<1>2. SUFFICES Held /\ Tables /\ Listing /\ Rest /\ Counts
  BY DEF TypeOK, AtWork
<1>3. CASE Catalog
  <2>1. Counts /\ Rest /\ Tables
    BY <1>3, CatalogEffect DEF TypeOK, tables
  <2>2. Listing /\ Held
    <3>1. CASE Outdates
      <4>1. Listing
        BY <1>3, <3>1, CatalogEffect DEF TypeOK, Outdates
      <4>2. Held
        BY <1>1, <3>1 DEF Outdates, AtWork
      <4> QED BY <4>1, <4>2
    <3>2. CASE UNCHANGED <<product, alias, outdated, run>>
      BY <1>1, <1>3, <3>2, CatalogEffect DEF TypeOK
    <3> QED BY <1>3, <3>1, <3>2, CatalogEffect
  <2> QED BY <2>1, <2>2
<1>4. CASE Screen
  BY <1>1, <1>4, ScreenEffect DEF TypeOK, catalog, tables, history
<1>5. ASSUME NEW w \in Workers, Handle(w)
      PROVE  Held /\ Tables /\ Listing /\ Rest /\ Counts
  <2>1. ASSUME NEW ev \in Payloads, Upsert(w, ev)
        PROVE  Held /\ Tables /\ Listing /\ Rest /\ Counts
    <3>1. Held
      BY <1>1, <2>1, UpsertEffect DEF AtWork
    <3>2. runs' \in 0..MaxRuns
      BY <2>1, UpsertEffect, BoundsAssumption DEF TypeOK
    <3> QED BY <2>1, <3>1, <3>2, UpsertEffect DEF TypeOK, catalog, tables, history
  <2>2. CASE Route(w)
    <3>1. Held
      <4>1. /\ run[w].pc = "upserted" /\ run' \in [Workers -> Transaction]
            /\ \A v \in Workers : v # w => run'[v] = run[v]
            /\ run'[w].pc = "routed" /\ run'[w].ev = run[w].ev /\ run'[w].lead = run[w].lead
        BY <2>2, RouteEffect
      <4>2. run[w].ev \in Payloads /\ run[w].lead \in Lead
        BY <4>1, BusyHas DEF Busy
      <4> QED BY <1>1, <4>1, <4>2 DEF AtWork
    <3>2. /\ faults' \in 0..MaxFaults
          /\ UNCHANGED <<catalog, tables, page, history, stale, runs, edits, loads>>
      BY <2>2, RouteEffect
    <3> QED BY <3>1, <3>2 DEF TypeOK, catalog, tables, history
  <2>3. CASE Publish(w)
    <3>1. Busy(w) /\ Flagged(run[w]) \in Lead /\ run[w].lead \in Lead /\ run[w].ev \in Payloads
      BY <2>3, PublishEffect, FlaggedType, BusyHas DEF Busy
    <3>2. Held
      BY <1>1, <2>3, <3>1, PublishEffect DEF AtWork
    <3>3. run[w].new \in BOOLEAN
      BY <3>1, BusyHas DEF Transaction
    <3>4. Tell(Flagged(run[w]), run[w].new) \/ Lose(Flagged(run[w]))
      BY <2>3, PublishEffect
    <3>5. page' \in Page /\ stale' \subseteq stale \cup {Flagged(run[w]).sale}
      BY <3>1, <3>3, <3>4, TellEffect, LoseEffect
    <3>6. Listing
      BY <2>3, <3>1, <3>5, PublishEffect DEF TypeOK, Lead, history
    <3> QED BY <2>3, <3>2, <3>6, PublishEffect DEF TypeOK, catalog, tables, history
  <2>4. CASE Commit(w)
    <3>1. Held
      BY <1>1, <2>4, CommitEffect DEF AtWork
    <3>2. Tables
      <4>1. /\ past' \in [Sales -> SUBSET Flows] /\ row' \in [Sales -> Lead \cup {None}]
            /\ enrolled' \in [Sales -> SUBSET Flows]
        BY <2>4, CommitEffect
      <4>2. log' = log \cup {run[w].ev} /\ run[w].ev \in Payloads
        BY <2>4, CommitEffect
      <4> QED BY <4>1, <4>2 DEF TypeOK
    <3>3. Listing /\ Rest /\ Counts
      BY <2>4, CommitEffect DEF TypeOK, catalog
    <3> QED BY <3>1, <3>2, <3>3
  <2>5. CASE Fail(w)
    <3>1. Held
      BY <1>1, <2>5, FailEffect DEF AtWork
    <3> QED BY <2>5, <3>1, FailEffect DEF TypeOK, catalog, tables, history
  <2> QED BY <1>5, <2>1, <2>2, <2>3, <2>4, <2>5, HandleCases
<1>6. CASE UNCHANGED vars
  BY <1>1, <1>6 DEF TypeOK, vars, catalog, tables, history
<1> QED BY <1>3, <1>4, <1>5, <1>6 DEF Next

-----------------------------------------------------------------------------
(* The lead's row, its lock and its id *)

\* Steps outside the handlers leave what the transactions do alone.
SameWork == \A w \in Workers :
  /\ run'[w].pc = run[w].pc /\ run'[w].ev = run[w].ev /\ run'[w].lead = run[w].lead
  /\ run'[w].new = run[w].new /\ run'[w].match = run[w].match /\ run'[w].flows = run[w].flows
  /\ run'[w].at = run[w].at

\* Edits and the page leave the transactions' work and the tables alone.
LEMMA OthersKeepWork ==
  ASSUME TypeOK, Catalog \/ Screen \/ UNCHANGED vars
  PROVE  SameWork /\ UNCHANGED <<tables, runs>>
<1>1. CASE Catalog
  BY <1>1, CatalogEffect DEF SameWork, Outdates
<1>2. CASE Screen
  BY <1>2, ScreenEffect DEF SameWork
<1>3. CASE UNCHANGED vars
  BY <1>3 DEF SameWork, vars
<1> QED BY <1>1, <1>2, <1>3

\* Only an upsert, which has waited for the lock, makes a worker busy.
LEMMA OneAtATimeStep ==
  ASSUME TypeOK, OneAtATime, [Next]_vars
  PROVE  OneAtATime'
<1>1. CASE Catalog \/ Screen \/ UNCHANGED vars
  BY <1>1, OthersKeepWork DEF OneAtATime, Busy, SameWork
<1>2. ASSUME NEW w \in Workers, Handle(w)
      PROVE  OneAtATime'
  <2>1. ASSUME NEW ev \in Payloads, Upsert(w, ev) PROVE OneAtATime'
    <3>1. /\ \A v \in Workers : v # w => run'[v] = run[v]
          /\ run'[w].ev = ev /\ ~Locked(ev.sale)
      BY <2>1, UpsertEffect
    <3> QED BY <3>1 DEF OneAtATime, Busy, Locked
  <2>2. ASSUME \A v \in Workers : v # w => run'[v] = run[v],
               Busy(w), run'[w] = Idle \/ run'[w].ev = run[w].ev
        PROVE  OneAtATime'
    BY <2>2 DEF OneAtATime, Busy, Idle
  <2>3. CASE Route(w)
    BY <2>2, <2>3, RouteEffect DEF Busy
  <2>4. CASE Publish(w)
    BY <2>2, <2>4, PublishEffect DEF Busy
  <2>5. CASE Commit(w)
    BY <2>2, <2>5, CommitEffect DEF Busy
  <2>6. CASE Fail(w)
    BY <2>2, <2>6, FailEffect
  <2> QED BY <1>2, <2>1, <2>3, <2>4, <2>5, <2>6, HandleCases
<1> QED BY <1>1, <1>2 DEF Next

\* What Writes says of one worker.
WritesOf(w) ==
  LET r == run[w] IN
    /\ r.lead.sale = r.ev.sale /\ r.lead.status = r.ev.status /\ r.lead.last = r.ev.kind
    /\ r.ev.kind = "activated" => r.lead.activated
    /\ r.new <=> row[r.ev.sale] = None
    /\ row[r.ev.sale] # None => /\ r.lead.id = row[r.ev.sale].id
                                /\ row[r.ev.sale].activated => r.lead.activated

\* A commit changes the row of its own sale only, on which no other transaction is.
LEMMA RowsStep ==
  ASSUME TypeOK, OneAtATime, RowsStand, Writes, [Next]_vars
  PROVE  RowsStand' /\ Writes'
<1> DEFINE Kept(v) == Busy(v)' => WritesOf(v)'
<1>1. SUFFICES RowsStand' /\ \A v \in Workers : Kept(v)
  BY DEF Writes, WritesOf
<1>2. \A v \in Workers : Busy(v) => WritesOf(v)
  BY DEF Writes, WritesOf
<1>3. CASE Catalog \/ Screen \/ UNCHANGED vars
  <2>1. SameWork /\ UNCHANGED <<row, log>>
    BY <1>3, OthersKeepWork DEF tables
  <2> QED BY <1>2, <2>1 DEF RowsStand, WritesOf, Busy, SameWork
<1>4. ASSUME NEW w \in Workers, Handle(w)
      PROVE  RowsStand' /\ \A v \in Workers : Kept(v)
  <2>1. ASSUME UNCHANGED <<row, log>>, \A v \in Workers : v # w => run'[v] = run[v], Kept(w)
        PROVE  RowsStand' /\ \A v \in Workers : Kept(v)
    BY <1>2, <2>1 DEF RowsStand, WritesOf, Busy
  <2>2. ASSUME NEW ev \in Payloads, Upsert(w, ev) PROVE Kept(w)
    <3> DEFINE old == row[ev.sale]
    <3>1. /\ run'[w].ev = ev /\ row' = row /\ (run'[w].new <=> old = None)
          /\ run'[w].lead = IF old = None THEN Inserted(ev) ELSE Merged(old, ev)
      BY <2>2, UpsertEffect DEF tables
    <3>2. ev \in Payload /\ ev.sale \in Sales /\ old \in Lead \cup {None}
      BY Nothing DEF Payload, TypeOK
    <3>3. CASE old = None
      <4>1. /\ run'[w].lead.sale = ev.sale /\ run'[w].lead.status = ev.status
            /\ run'[w].lead.last = ev.kind
            /\ run'[w].lead.activated = (ev.kind = "activated")
        BY <3>1, <3>3 DEF Inserted
      <4> QED BY <3>1, <3>3, <4>1 DEF WritesOf
    <3>4. CASE old # None
      <4>1. old \in Lead /\ old.sale = ev.sale
        BY <3>2, <3>4 DEF RowsStand
      <4>2. /\ run'[w].lead.sale = ev.sale /\ run'[w].lead.status = ev.status
            /\ run'[w].lead.last = ev.kind /\ run'[w].lead.id = old.id
            /\ run'[w].lead.activated = (old.activated \/ ev.kind = "activated")
        BY <3>1, <3>4, <4>1 DEF Merged, Lead
      <4> QED BY <3>1, <3>4, <4>2 DEF WritesOf
    <3> QED BY <3>3, <3>4
  <2>3. CASE \E ev \in Payloads : Upsert(w, ev)
    BY <2>1, <2>2, <2>3, UpsertEffect DEF tables
  <2>4. CASE Route(w)
    <3>1. Kept(w)
      BY <1>2, <2>4, RouteEffect DEF WritesOf, Busy, tables
    <3> QED BY <2>1, <2>4, <3>1, RouteEffect DEF tables
  <2>5. CASE Publish(w)
    <3>1. Busy(w)
      BY <2>5, PublishEffect DEF Busy
    <3>2. Kept(w)
      BY <1>2, <2>5, <3>1, PublishEffect, FlaggedType DEF WritesOf, tables
    <3> QED BY <2>1, <2>5, <3>2, PublishEffect DEF tables
  <2>6. CASE Commit(w)
    <3> DEFINE s == run[w].ev.sale
    <3>1. /\ Busy(w) /\ s \in Sales /\ run[w].lead \in Lead /\ run'[w] = Idle
          /\ row'[s] = run[w].lead /\ \A t \in Sales : t # s => row'[t] = row[t]
          /\ log' = log \cup {run[w].ev} /\ \A v \in Workers : v # w => run'[v] = run[v]
      BY <2>6, CommitEffect DEF Busy
    <3>2. run[w].lead # None /\ run[w].lead.sale = s
      BY <1>2, <3>1, Nothing DEF WritesOf
    <3>3. log \subseteq Payloads /\ \A ev \in Payloads : ev.sale \in Sales
      BY Nothing DEF TypeOK, Payload
    <3>4. RowsStand'
      BY <3>1, <3>2, <3>3 DEF RowsStand
    <3>5. ASSUME NEW v \in Workers PROVE Kept(v)
      <4>1. CASE v = w
        BY <3>1, <4>1 DEF Busy, Idle
      <4>2. CASE v # w
        <5>1. Busy(v) => run[v].ev.sale \in Sales /\ run[v].ev.sale # s
          BY <3>1, <4>2, BusyHas DEF OneAtATime
        <5> QED BY <1>2, <3>1, <4>2, <5>1 DEF WritesOf, Busy
      <4> QED BY <4>1, <4>2
    <3> QED BY <3>4, <3>5
  <2>7. CASE Fail(w)
    <3>1. run'[w] = Idle
      BY <2>7, FailEffect
    <3>2. Kept(w)
      BY <3>1 DEF Busy, Idle
    <3> QED BY <2>1, <2>7, <3>2, FailEffect DEF tables
  <2> QED BY <1>4, <2>3, <2>4, <2>5, <2>6, <2>7, HandleCases
<1> QED BY <1>3, <1>4 DEF Next

\* Where the leads around are, pointwise.
LEMMA AroundIs ==
  ASSUME NEW l
  PROVE  l \in Around <=> \/ l # None /\ \E s \in Sales : l = row[s]
                          \/ \E w \in Workers : Busy(w) /\ l = run[w].lead
                          \/ l \in page.rows \/ l \in page.got
BY DEF Around

\* The page lists rows of the table.
LEMMA ListedAround == Listed(page.filter) \subseteq Around
BY DEF Listed, Around

\* The leads around are leads.
LEMMA AroundTypes ==
  ASSUME TypeOK
  PROVE  Around \subseteq Lead
<1>1. row \in [Sales -> Lead \cup {None}] /\ page.rows \subseteq Lead /\ page.got \subseteq Lead
  BY DEF TypeOK, Page
<1>2. \A w \in Workers : Busy(w) => run[w].lead \in Lead
  BY BusyHas
<1> QED BY <1>1, <1>2, AroundIs

\* Every lead around was around before, or is new by its id, or bears the id and the sale of
\* one that was.
Successor(l) == \E m \in Around : m.id = l.id /\ m.sale = l.sale

\* Ids stay apart when every lead around comes from one that was.
LEMMA IdsByOrigin ==
  ASSUME TypeOK, IdsApart, runs' \in Nat, runs <= runs',
         \A l \in Around' : l \in Around \/ Successor(l)
  PROVE  IdsApart'
<1>1. \A l \in Around' : \E m \in Around : m.id = l.id /\ m.sale = l.sale
  BY DEF Successor
<1>2. \A m \in Around : m.id \in Nat
  BY AroundTypes, BoundsAssumption DEF Lead
<1>3. runs \in Nat
  BY BoundsAssumption DEF TypeOK
<1> QED BY <1>1, <1>2, <1>3 DEF IdsApart

\* An upsert gives out the next id or keeps the row's; the other steps move leads about.
LEMMA IdsStep ==
  ASSUME TypeOK, RowsStand, Writes, IdsApart, [Next]_vars
  PROVE  IdsApart'
<1>0. runs \in Nat /\ MaxRuns \in Nat
  BY BoundsAssumption DEF TypeOK
<1>1. CASE Catalog \/ Screen \/ UNCHANGED vars
  <2>1. SameWork /\ UNCHANGED <<row, runs>>
    BY <1>1, OthersKeepWork DEF tables
  <2>2. page'.rows \subseteq page.rows \cup page.got
        /\ page'.got \subseteq page.got \cup Listed(page.filter)
    BY <1>1, CatalogEffect, ScreenEffect DEF vars
  <2>3. ASSUME NEW l \in Around' PROVE l \in Around
    <3>1. \/ l # None /\ \E s \in Sales : l = row'[s]
          \/ \E w \in Workers : run'[w].pc # "idle" /\ l = run'[w].lead
          \/ l \in page'.rows \/ l \in page'.got
      BY <2>3 DEF Around, Busy
    <3> QED BY <2>1, <2>2, <3>1, ListedAround, AroundIs DEF SameWork, Busy
  <2> QED BY <1>0, <2>1, <2>3, IdsByOrigin
<1>2. ASSUME NEW w \in Workers, Handle(w)
      PROVE  IdsApart'
  <2>1. ASSUME NEW ev \in Payloads, Upsert(w, ev) PROVE IdsApart'
    <3> DEFINE old == row[ev.sale]
               lead == run'[w].lead
    <3>1. /\ UNCHANGED <<row, page>> /\ \A v \in Workers : v # w => run'[v] = run[v]
          /\ lead = IF old = None THEN Inserted(ev) ELSE Merged(old, ev)
          /\ runs' = runs + 1
      BY <2>1, UpsertEffect DEF tables
    <3>2. ASSUME NEW l \in Around' PROVE l \in Around \/ l = lead
      <4>1. \/ l # None /\ \E s \in Sales : l = row'[s]
            \/ \E v \in Workers : run'[v].pc # "idle" /\ l = run'[v].lead
            \/ l \in page'.rows \/ l \in page'.got
        BY <3>2 DEF Around, Busy
      <4> QED BY <3>1, <4>1, AroundIs DEF Busy
    <3>3. ev \in Payload /\ ev.sale \in Sales /\ old \in Lead \cup {None}
      BY Nothing DEF Payload, TypeOK
    <3>4. CASE old # None
      <4>1. old \in Lead /\ old.sale = ev.sale /\ old \in Around
        BY <3>3, <3>4, AroundIs DEF RowsStand
      <4>2. lead.id = old.id /\ lead.sale = old.sale
        BY <3>1, <3>4, <4>1 DEF Merged, Lead
      <4>3. Successor(lead)
        BY <4>1, <4>2 DEF Successor
      <4> HIDE DEF lead
      <4>4. runs' \in Nat /\ runs <= runs'
        BY <1>0, <3>1
      <4> QED BY <3>2, <4>3, <4>4, IdsByOrigin
    <3>5. CASE old = None
      <4>1. lead.id = runs + 1
        BY <3>1, <3>5 DEF Inserted
      <4>2. \A m \in Around : m.id \in Nat /\ m.id <= runs
        BY AroundTypes DEF IdsApart, Lead
      <4> HIDE DEF lead
      <4> QED BY <1>0, <3>1, <3>2, <4>1, <4>2 DEF IdsApart
    <3> QED BY <3>4, <3>5
  <2>2. CASE Route(w)
    <3>1. UNCHANGED <<row, page, runs>> /\ \A v \in Workers : v # w => run'[v] = run[v]
      BY <2>2, RouteEffect DEF tables
    <3>2. run'[w].lead = run[w].lead /\ Busy(w)
      BY <2>2, RouteEffect DEF Busy
    <3>3. ASSUME NEW l \in Around' PROVE l \in Around
      <4>1. \/ l # None /\ \E s \in Sales : l = row'[s]
            \/ \E v \in Workers : run'[v].pc # "idle" /\ l = run'[v].lead
            \/ l \in page'.rows \/ l \in page'.got
        BY <3>3 DEF Around, Busy
      <4> QED BY <3>1, <3>2, <4>1, AroundIs DEF Busy
    <3> QED BY <1>0, <3>1, <3>3, IdsByOrigin
  <2>3. CASE Publish(w)
    <3> DEFINE lead == Flagged(run[w])
    <3>1. /\ Busy(w) /\ UNCHANGED <<row, runs>> /\ (Tell(lead, run[w].new) \/ Lose(lead))
          /\ run'[w].lead = lead /\ \A v \in Workers : v # w => run'[v] = run[v]
      BY <2>3, PublishEffect DEF tables, Busy
    <3>2. lead \in Lead /\ lead.id = run[w].lead.id /\ lead.sale = run[w].lead.sale
          /\ run[w].new \in BOOLEAN
      BY <3>1, FlaggedType, BusyHas DEF Transaction
    <3>3. Successor(lead)
      BY <3>1, <3>2, AroundIs DEF Successor
    <3>4. page'.rows \subseteq page.rows \cup {lead} /\ page'.got = page.got
      BY <3>1, <3>2, TellEffect, LoseEffect DEF Upserted
    <3> HIDE DEF lead
    <3>5. ASSUME NEW l \in Around' PROVE l \in Around \/ l = lead
      <4>1. \/ l # None /\ \E s \in Sales : l = row'[s]
            \/ \E v \in Workers : run'[v].pc # "idle" /\ l = run'[v].lead
            \/ l \in page'.rows \/ l \in page'.got
        BY <3>5 DEF Around, Busy
      <4> QED BY <3>1, <3>4, <4>1, AroundIs DEF Busy
    <3> QED BY <1>0, <3>1, <3>3, <3>5, IdsByOrigin
  <2>4. CASE Commit(w)
    <3> DEFINE s == run[w].ev.sale
    <3>1. /\ Busy(w) /\ UNCHANGED <<page, runs>> /\ run'[w] = Idle
          /\ row'[s] = run[w].lead /\ \A t \in Sales : t # s => row'[t] = row[t]
          /\ \A v \in Workers : v # w => run'[v] = run[v]
      BY <2>4, CommitEffect DEF Busy
    <3>2. ASSUME NEW l \in Around' PROVE l \in Around
      <4>1. \/ l # None /\ \E t \in Sales : l = row'[t]
            \/ \E v \in Workers : run'[v].pc # "idle" /\ l = run'[v].lead
            \/ l \in page'.rows \/ l \in page'.got
        BY <3>2 DEF Around, Busy
      <4>2. run'[w].pc = "idle"
        BY <3>1 DEF Idle
      <4> QED BY <3>1, <4>1, <4>2, AroundIs DEF Busy
    <3> QED BY <1>0, <3>1, <3>2, IdsByOrigin
  <2>5. CASE Fail(w)
    <3>1. /\ UNCHANGED <<row, runs>> /\ page'.rows = page.rows /\ page'.got = page.got
          /\ run'[w] = Idle /\ \A v \in Workers : v # w => run'[v] = run[v]
      BY <2>5, FailEffect DEF tables
    <3>2. ASSUME NEW l \in Around' PROVE l \in Around
      <4>1. \/ l # None /\ \E t \in Sales : l = row'[t]
            \/ \E v \in Workers : run'[v].pc # "idle" /\ l = run'[v].lead
            \/ l \in page'.rows \/ l \in page'.got
        BY <3>2 DEF Around, Busy
      <4>2. run'[w].pc = "idle"
        BY <3>1 DEF Idle
      <4> QED BY <3>1, <4>1, <4>2, AroundIs DEF Busy
    <3> QED BY <1>0, <3>1, <3>2, IdsByOrigin
  <2> QED BY <1>2, <2>1, <2>2, <2>3, <2>4, <2>5, HandleCases
<1> QED BY <1>1, <1>2 DEF Next

-----------------------------------------------------------------------------
(* Lookups and what the lead tells *)

\* What Verdicts says of one worker.
VerdictOf(w) ==
  LET r == run[w] IN
    /\ r.pc \in {"idle", "upserted"} => r.match = None /\ r.flows = {}
    /\ r.pc \in {"routed", "published"} /\ r.ev.phone => r.match # None
    /\ r.match = None => ~r.dated
    /\ r.match # None => IF r.dated THEN r.ev.sale \in outdated ELSE r.match = Recognized(r.ev)
    /\ r.pc = "published" /\ r.match # None => r.lead.unmatched = ~r.match

\* With the catalog as it was, every lookup comes out as before.
LEMMA LookupsStand ==
  ASSUME UNCHANGED <<product, alias>>
  PROVE  \A ev : Recognized(ev)' = Recognized(ev)
BY DEF Recognized, Resolve, ByCode, ByAlias, ByName, Live

\* An idle worker has found nothing.
LEMMA IdleVerdict ==
  ASSUME NEW w \in Workers, run'[w] = Idle
  PROVE  VerdictOf(w)'
<1>1. /\ run'[w].pc = "idle" /\ run'[w].match = None /\ run'[w].flows = {} /\ ~run'[w].dated
  BY DEF Idle
<1> QED BY <1>1 DEF VerdictOf

\* An edit dates every lookup made, and every sale is then on record; a commit takes only its
\* own sale off the record.
LEMMA VerdictsStep ==
  ASSUME TypeOK, OneAtATime, Verdicts, [Next]_vars
  PROVE  Verdicts'
<1>1. SUFFICES \A w \in Workers : VerdictOf(w)'
  BY DEF Verdicts, VerdictOf
<1>2. \A w \in Workers : VerdictOf(w)
  BY DEF Verdicts, VerdictOf
<1>3. \A w \in Workers : run[w] \in Transaction /\ run[w].dated \in BOOLEAN
  BY DEF TypeOK, Transaction
<1>4. CASE Catalog \/ Screen \/ UNCHANGED vars
  <2>1. SameWork
    BY <1>4, OthersKeepWork
  <2>2. CASE Outdates
    <3>1. ASSUME NEW w \in Workers PROVE VerdictOf(w)'
      <4>1. /\ run'[w].pc = run[w].pc /\ run'[w].ev = run[w].ev
            /\ run'[w].lead = run[w].lead /\ run'[w].match = run[w].match
            /\ run'[w].flows = run[w].flows
        BY <2>1 DEF SameWork
      <4>2. outdated' = Sales /\ (run'[w].dated <=> run[w].match # None)
        BY <2>2 DEF Outdates
      <4>3. run[w].match # None => run[w].ev.sale \in Sales
        BY <1>2, BusyHas DEF VerdictOf, Busy
      <4> QED BY <1>2, <4>1, <4>2, <4>3 DEF VerdictOf
    <3> QED BY <3>1
  <2>3. CASE UNCHANGED <<product, alias, outdated, run>>
    BY <1>2, <2>3, LookupsStand DEF VerdictOf
  <2> QED BY <1>4, <2>2, <2>3, CatalogEffect, ScreenEffect DEF vars, catalog, history
<1>5. ASSUME NEW w \in Workers, Handle(w), NEW v \in Workers
      PROVE  VerdictOf(v)'
  <2>1. ASSUME v # w, UNCHANGED <<product, alias>>, \A u \in Workers : u # w => run'[u] = run[u],
               outdated \ {run[w].ev.sale} \subseteq outdated', Busy(w) \/ UNCHANGED outdated
        PROVE  VerdictOf(v)'
    <3>1. run'[v] = run[v]
      BY <2>1
    <3>2. run[v].match # None /\ run[v].dated => run[v].ev.sale \in outdated'
      <4>1. ASSUME run[v].match # None, run[v].dated
            PROVE  run[v].ev.sale \in outdated'
        <5>1. Busy(v) /\ run[v].ev.sale \in outdated
          BY <1>2, <4>1 DEF VerdictOf, Busy
        <5>2. Busy(w) => run[v].ev.sale # run[w].ev.sale
          BY <2>1, <5>1 DEF OneAtATime
        <5> QED BY <2>1, <5>1, <5>2
      <4> QED BY <4>1
    <3> QED BY <1>2, <2>1, <3>1, <3>2, LookupsStand DEF VerdictOf
  <2>2. ASSUME NEW ev \in Payloads, Upsert(w, ev) PROVE VerdictOf(v)'
    <3>1. /\ UNCHANGED <<product, alias, outdated>> /\ \A u \in Workers : u # w => run'[u] = run[u]
          /\ run'[w].pc = "upserted" /\ run'[w].match = None /\ run'[w].flows = {}
          /\ ~run'[w].dated
      BY <2>2, UpsertEffect DEF catalog, history
    <3>2. CASE v # w
      BY <2>1, <3>1, <3>2
    <3>3. CASE v = w
      BY <3>1, <3>3 DEF VerdictOf
    <3> QED BY <3>2, <3>3
  <2>3. CASE Route(w)
    <3>0. PICK ev : ev = run[w].ev
      OBVIOUS
    <3>1. /\ UNCHANGED <<product, alias, outdated>> /\ \A u \in Workers : u # w => run'[u] = run[u]
          /\ run[w].pc = "upserted" /\ run'[w].pc = "routed" /\ run'[w].ev = ev
          /\ run'[w].dated = run[w].dated
          /\ IF ev.phone THEN run'[w].match = Recognized(ev) ELSE run'[w].match = run[w].match
      BY <2>3, <3>0, RouteEffect DEF catalog, history
    <3>2. CASE v # w
      BY <2>1, <3>1, <3>2
    <3>3. CASE v = w
      <4>1. run[w].match = None /\ ~run[w].dated
        BY <1>2, <3>1 DEF VerdictOf
      <4>2. Recognized(ev) \in BOOLEAN
        BY DEF Recognized
      <4>3. Recognized(ev) # None /\ Recognized(ev)' = Recognized(ev)
        BY <3>1, <4>2, Nothing, LookupsStand
      <4> QED BY <3>1, <3>3, <4>1, <4>3 DEF VerdictOf
    <3> QED BY <3>2, <3>3
  <2>4. CASE Publish(w)
    <3>1. /\ UNCHANGED <<product, alias, outdated>> /\ \A u \in Workers : u # w => run'[u] = run[u]
          /\ run[w].pc = "routed" /\ run'[w].pc = "published" /\ run'[w].ev = run[w].ev
          /\ run'[w].dated = run[w].dated /\ run'[w].match = run[w].match
          /\ run'[w].lead = Flagged(run[w])
      BY <2>4, PublishEffect DEF catalog, history
    <3>2. CASE v # w
      BY <2>1, <3>1, <3>2
    <3>3. CASE v = w
      <4>1. run[w].match # None => Flagged(run[w]).unmatched = ~run[w].match
        BY <3>1, FlaggedType DEF Busy
      <4> QED BY <1>2, <3>1, <3>3, <4>1, LookupsStand DEF VerdictOf
    <3> QED BY <3>2, <3>3
  <2>5. CASE Commit(w)
    <3>1. /\ UNCHANGED <<product, alias>> /\ \A u \in Workers : u # w => run'[u] = run[u]
          /\ Busy(w) /\ run'[w] = Idle /\ outdated \ {run[w].ev.sale} \subseteq outdated'
      BY <2>5, CommitEffect DEF catalog, history, Busy
    <3> QED BY <2>1, <3>1, IdleVerdict
  <2>6. CASE Fail(w)
    <3>1. /\ UNCHANGED <<product, alias, outdated>> /\ \A u \in Workers : u # w => run'[u] = run[u]
          /\ run'[w] = Idle
      BY <2>6, FailEffect DEF catalog, history
    <3> QED BY <2>1, <3>1, IdleVerdict
  <2> QED BY <1>5, <2>2, <2>3, <2>4, <2>5, <2>6, HandleCases
<1> QED BY <1>4, <1>5 DEF Next

\* What LeadTells says of one sale.
ToldBy(s, ev) ==
  /\ ev.sale = s /\ ev.kind = row[s].last /\ ev.status = row[s].status
  /\ ev.phone /\ s \notin outdated => row[s].unmatched = ~Recognized(ev)

\* A commit's row tells of its event, which is in the log from then on.
LEMMA TellsStep ==
  ASSUME TypeOK, OneAtATime, RowsStand, Writes, Verdicts, LeadTells, [Next]_vars
  PROVE  LeadTells'
<1> DEFINE Pending(s) == row'[s] # None => \E ev \in log' : ToldBy(s, ev)'
           Active(ev) == ev.kind = "activated" => row'[ev.sale].activated
<1>1. SUFFICES (\A s \in Sales : Pending(s)) /\ \A ev \in log' : Active(ev)
  BY DEF LeadTells, PendingExplained, ActivatedKept, ToldBy
<1>2. /\ \A s \in Sales : row[s] # None => \E ev \in log : ToldBy(s, ev)
      /\ \A ev \in log : ev.kind = "activated" => row[ev.sale].activated
  BY DEF LeadTells, PendingExplained, ActivatedKept, ToldBy
<1>3. ASSUME UNCHANGED <<row, log>>,
             outdated' = Sales \/ UNCHANGED <<product, alias, outdated>>
      PROVE  (\A s \in Sales : Pending(s)) /\ \A ev \in log' : Active(ev)
  <2>1. ASSUME NEW s \in Sales, NEW ev \in log, ToldBy(s, ev) PROVE ToldBy(s, ev)'
    <3>1. CASE outdated' = Sales
      BY <1>3, <2>1, <3>1 DEF ToldBy
    <3>2. CASE UNCHANGED <<product, alias, outdated>>
      BY <1>3, <2>1, <3>2, LookupsStand DEF ToldBy
    <3> QED BY <1>3, <3>1, <3>2
  <2> QED BY <1>2, <1>3, <2>1
<1>4. CASE Catalog \/ Screen \/ UNCHANGED vars
  <2>1. UNCHANGED <<row, log>>
    BY <1>4, OthersKeepWork DEF tables
  <2>2. outdated' = Sales \/ UNCHANGED <<product, alias, outdated>>
    BY <1>4, CatalogEffect, ScreenEffect DEF Outdates, vars, catalog, history
  <2> QED BY <1>3, <2>1, <2>2
<1>5. ASSUME NEW w \in Workers, Handle(w)
      PROVE  (\A s \in Sales : Pending(s)) /\ \A ev \in log' : Active(ev)
  <2>1. CASE Commit(w)
    <3>1. PICK e \in Payloads : e = run[w].ev
      BY <2>1, CommitEffect
    <3> DEFINE r == run[w]
               t == e.sale
    <3>2. /\ Busy(w) /\ r.pc = "published" /\ t \in Sales /\ r.lead \in Lead
          /\ UNCHANGED <<product, alias>>
          /\ row'[t] = r.lead /\ \A s \in Sales : s # t => row'[s] = row[s]
          /\ log' = log \cup {e}
          /\ outdated' = IF r.match = None \/ r.dated THEN outdated ELSE outdated \ {t}
      BY <2>1, <3>1, CommitEffect DEF Busy, catalog
    <3>3. WritesOf(w) /\ VerdictOf(w)
      BY <3>2 DEF Writes, WritesOf, Verdicts, VerdictOf
    <3>4. ASSUME NEW s \in Sales, s # t PROVE Pending(s)
      <4>1. ASSUME NEW ev \in log, ToldBy(s, ev) PROVE ToldBy(s, ev)'
        BY <3>2, <3>4, <4>1, LookupsStand DEF ToldBy
      <4> QED BY <1>2, <3>2, <3>4, <4>1
    <3>5. ToldBy(t, e)'
      <4>1. row'[t].last = e.kind /\ row'[t].status = e.status
        BY <3>1, <3>2, <3>3 DEF WritesOf
      <4>2. ASSUME e.phone, t \notin outdated'
            PROVE  row'[t].unmatched = ~Recognized(e)
        <5>1. r.match # None
          BY <3>1, <3>2, <3>3, <4>2 DEF VerdictOf
        <5>2. ~r.dated
          BY <3>1, <3>2, <3>3, <4>2, <5>1 DEF VerdictOf
        <5>3. r.match = Recognized(e) /\ r.lead.unmatched = ~r.match
          BY <3>1, <3>2, <3>3, <5>1, <5>2 DEF VerdictOf
        <5> QED BY <3>2, <5>3
      <4>3. Recognized(e)' = Recognized(e)
        BY <3>2, LookupsStand
      <4> QED BY <4>1, <4>2, <4>3 DEF ToldBy
    <3>6. Pending(t)
      BY <3>2, <3>5
    <3>7. ASSUME NEW ev \in log', ev.kind = "activated"
          PROVE  row'[ev.sale].activated
      <4>1. ev.sale \in Sales
        BY <3>2, <3>7, Nothing DEF TypeOK, Payload
      <4>2. CASE ev.sale # t
        BY <1>2, <3>2, <3>7, <4>1, <4>2
      <4>3. CASE ev.sale = t
        <5>1. CASE ev = e
          BY <3>1, <3>2, <3>3, <3>7, <4>3, <5>1 DEF WritesOf
        <5>2. CASE ev \in log
          <6>1. row[t] # None /\ row[t].activated
            BY <1>2, <3>7, <4>3, <5>2 DEF RowsStand
          <6> QED BY <3>1, <3>2, <3>3, <4>3, <6>1 DEF WritesOf
        <5> QED BY <3>2, <3>7, <5>1, <5>2
      <4> QED BY <4>2, <4>3
    <3> QED BY <3>4, <3>6, <3>7
  <2>2. CASE ~Commit(w)
    <3>1. UNCHANGED <<row, log, product, alias, outdated>>
      BY <1>5, <2>2, HandleCases, UpsertEffect, RouteEffect, PublishEffect, FailEffect
      DEF tables, catalog, history
    <3> QED BY <1>3, <3>1
  <2> QED BY <2>1, <2>2
<1> QED BY <1>4, <1>5 DEF Next

-----------------------------------------------------------------------------
(* Courses *)

\* With finitely many products and each id once, an event starts the flows that are right.
LEMMA TriggeredRight ==
  ASSUME CatalogFits, NEW ev \in Payload, ev.phone, NEW f \in Triggered(ev)
  PROVE  Starts(ev, f)
<1>1. PICK p \in Resolve(ev.code, ev.name) : f \in FlowsFor(p, ev.kind)
  BY DEF Triggered
<1>2. flow[f].product = p /\ flow[f].active
  BY <1>1 DEF FlowsFor
<1>3. CASE p \in ByCode(ev.code)
  <2>1. p \in Products /\ Live(p) /\ product[p].code = ev.code
    BY <1>3 DEF ByCode
  <2>2. \A q \in Products \ {p} : ~(Live(q) /\ product[q].code = ev.code)
    BY <2>1 DEF CatalogFits, Live
  <2> QED BY <1>2, <2>1, <2>2 DEF Starts
<1>4. CASE ByCode(ev.code) = {} /\ p \in ByAlias(ev.code)
  BY <1>2, <1>4 DEF ByCode, ByAlias, Starts
<1>5. CASE ByCode(ev.code) = {} /\ p \in ByName(ev.name) /\ Cardinality(ByName(ev.name)) = 1
  <2>1. IsFiniteSet(ByName(ev.name))
    <3>1. ByName(ev.name) \subseteq {q \in Products : product[q] # None}
      BY DEF ByName, Live
    <3> QED BY <3>1, FS_Subset DEF CatalogFits
  <2>2. ByName(ev.name) = {p}
    BY <1>5, <2>1, FS_Singleton
  <2>3. \A q \in Products : Live(q) /\ product[q].name = ev.name <=> q = p
    BY <2>2 DEF ByName
  <2>4. Live(p) /\ \A q \in Products : ~(Live(q) /\ product[q].code = ev.code)
    BY <1>5 DEF ByCode, ByName
  <2> QED BY <1>2, <2>3, <2>4 DEF Starts
<1> QED BY <1>1, <1>3, <1>4, <1>5 DEF Resolve

\* Requests keep the products few and their ids apart: the unique index refuses the rest.
LEMMA CatalogFitsStep ==
  ASSUME TypeOK, CatalogFits, Catalog
  PROVE  CatalogFits'
<1> DEFINE Stored == {p \in Products : product[p] # None}
<1>1. ASSUME NEW p \in Products, NEW new \in Product, WriteProduct(p, new) PROVE CatalogFits'
  <2>1. /\ \A q \in Products \ {p} : product[q] # None => product[q].code # new.code
        /\ product' = [product EXCEPT ![p] = new]
    BY <1>1 DEF WriteProduct
  <2>2. product'[p] = new /\ \A q \in Products \ {p} : product'[q] = product[q]
    BY <2>1 DEF TypeOK
  <2>3. IsFiniteSet(Stored \cup {p})
    BY FS_AddElement DEF CatalogFits
  <2>4. {q \in Products : product'[q] # None} \subseteq Stored \cup {p}
    BY <2>2
  <2>5. IsFiniteSet({q \in Products : product'[q] # None})
    BY <2>3, <2>4, FS_Subset
  <2> QED BY <2>1, <2>2, <2>5 DEF CatalogFits
<1>2. ASSUME NEW p \in Products, DeleteProduct(p) PROVE CatalogFits'
  <2>1. product' = [product EXCEPT ![p] = None]
    BY <1>2 DEF DeleteProduct
  <2>2. \A q \in Products : product'[q] # None => product'[q] = product[q]
    BY <2>1 DEF TypeOK
  <2>3. {q \in Products : product'[q] # None} \subseteq Stored
    BY <2>2
  <2>4. IsFiniteSet({q \in Products : product'[q] # None})
    BY <2>3, FS_Subset DEF CatalogFits
  <2> QED BY <2>2, <2>4 DEF CatalogFits
<1>3. ASSUME UNCHANGED product PROVE CatalogFits'
  BY <1>3 DEF CatalogFits
<1>4. ASSUME NEW p \in Products, NEW n \in Names, NEW c \in Codes, NEW a \in BOOLEAN,
             WriteProduct(p, [name |-> n, code |-> c, active |-> a])
      PROVE  CatalogFits'
  <2>1. [name |-> n, code |-> c, active |-> a] \in Product
    BY DEF Product
  <2> QED BY <1>1, <1>4, <2>1
<1> QED BY <1>2, <1>3, <1>4 DEF Catalog, CreateProduct, UpdateProduct, AddAlias, SaveFlow

\* The page and the handlers leave the catalog, and the count of its edits, alone.
LEMMA OthersKeepCatalog ==
  ASSUME TypeOK, [Next]_vars, ~Catalog
  PROVE  UNCHANGED <<product, alias, flow, edits>>
<1>1. CASE Screen
  BY <1>1, ScreenEffect DEF catalog
<1>2. ASSUME NEW w \in Workers, Handle(w) PROVE UNCHANGED <<product, alias, flow, edits>>
  <2>1. CASE \E ev \in Payloads : Upsert(w, ev)
    BY <2>1, UpsertEffect DEF catalog
  <2>2. CASE Route(w)
    BY <2>2, RouteEffect DEF catalog
  <2>3. CASE Publish(w)
    BY <2>3, PublishEffect DEF catalog
  <2>4. CASE Commit(w)
    BY <2>4, CommitEffect DEF catalog
  <2>5. CASE Fail(w)
    BY <2>5, FailEffect DEF catalog
  <2> QED BY <1>2, <2>1, <2>2, <2>3, <2>4, <2>5, HandleCases
<1>3. CASE UNCHANGED vars
  BY <1>3 DEF vars, catalog
<1> QED BY <1>1, <1>2, <1>3 DEF Next

\* What routing finds and a commit enrolls is right by the catalog of the lookup; an edit puts
\* what was enrolled before it on record, and a lookup made before it is of an earlier time.
LEMMA CoursesStep ==
  ASSUME TypeOK, CatalogFits, Courses, RightCourse, [Next]_vars
  PROVE  CatalogFits' /\ Courses' /\ RightCourse'
<1>0. edits \in Nat /\ \A w \in Workers : run[w].at \in Nat
  BY BoundsAssumption DEF TypeOK, Transaction
<1>1. CASE Catalog
  <2>1. edits' = edits + 1 /\ past' = enrolled /\ enrolled' = enrolled
    BY <1>1, CatalogEffect DEF tables
  <2>2. SameWork
    BY <1>1, OthersKeepWork
  <2>3. RightCourse'
    BY <2>1 DEF RightCourse
  <2>4. Courses'
    BY <1>0, <2>1, <2>2 DEF Courses, SameWork
  <2> QED BY <1>1, <2>3, <2>4, CatalogFitsStep
<1>2. CASE ~Catalog
  <2>1. UNCHANGED <<product, alias, flow, edits>>
    BY <1>2, OthersKeepCatalog
  <2>2. CatalogFits'
    BY <2>1 DEF CatalogFits
  <2>3. \A ev, f : Starts(ev, f)' <=> Starts(ev, f)
    BY <2>1 DEF Starts, Live
  <2> DEFINE Mine(w) ==
               /\ run'[w].flows # {} =>
                    run'[w].pc \in {"routed", "published"} /\ run'[w].at <= edits
               /\ run'[w].at = edits => \A f \in run'[w].flows : Starts(run'[w].ev, f)
             Theirs == \A s \in Sales : \A f \in enrolled'[s] \ past'[s] :
                         \E ev \in log' : ev.sale = s /\ Starts(ev, f)
  <2>4. ASSUME \A w \in Workers : Mine(w), Theirs PROVE Courses' /\ RightCourse'
    BY <2>1, <2>3, <2>4 DEF Courses, RightCourse
  <2>5. /\ \A w \in Workers :
             /\ run[w].flows # {} => run[w].pc \in {"routed", "published"} /\ run[w].at <= edits
             /\ run[w].at = edits => \A f \in run[w].flows : Starts(run[w].ev, f)
        /\ \A s \in Sales : \A f \in enrolled[s] \ past[s] :
             \E ev \in log : ev.sale = s /\ Starts(ev, f)
    BY DEF Courses, RightCourse
  <2>6. CASE Screen \/ UNCHANGED vars
    <3>1. SameWork /\ UNCHANGED tables /\ UNCHANGED past
      BY <2>6, OthersKeepWork, ScreenEffect DEF history, vars
    <3> QED BY <2>2, <2>4, <2>5, <3>1 DEF SameWork, tables
  <2>7. ASSUME NEW w \in Workers, Handle(w) PROVE Courses' /\ RightCourse'
    <3>1. ASSUME \A v \in Workers : v # w => run'[v] = run[v], Mine(w)
          PROVE  \A v \in Workers : Mine(v)
      BY <2>5, <3>1
    <3>2. ASSUME UNCHANGED <<tables, past>> PROVE Theirs
      BY <2>5, <3>2 DEF tables
    <3>3. ASSUME NEW ev \in Payloads, Upsert(w, ev) PROVE Courses' /\ RightCourse'
      <4>1. /\ \A v \in Workers : v # w => run'[v] = run[v]
            /\ run'[w].flows = {} /\ UNCHANGED <<tables, past>>
        BY <3>3, UpsertEffect DEF history
      <4> QED BY <2>4, <3>1, <3>2, <4>1
    <3>4. CASE Route(w)
      <4>1. PICK ev \in Payload : ev = run[w].ev
        BY <3>4, RouteEffect, BusyHas DEF Busy
      <4>2. /\ \A v \in Workers : v # w => run'[v] = run[v]
            /\ UNCHANGED <<tables, past>> /\ run[w].pc = "upserted"
            /\ run'[w].pc = "routed" /\ run'[w].ev = ev
            /\ IF ev.phone THEN run'[w].flows \subseteq Triggered(ev) /\ run'[w].at = edits
                           ELSE run'[w].flows = run[w].flows
        BY <3>4, <4>1, RouteEffect DEF history
      <4>3. run[w].flows = {}
        BY <2>5, <4>2
      <4>4. ev.phone => \A f \in Triggered(ev) : Starts(ev, f)
        BY TriggeredRight
      <4>5. Mine(w)
        BY <1>0, <4>2, <4>3, <4>4
      <4> QED BY <2>4, <3>1, <3>2, <4>2, <4>5
    <3>5. CASE Publish(w)
      <4>1. /\ \A v \in Workers : v # w => run'[v] = run[v]
            /\ UNCHANGED <<tables, past>> /\ run'[w].pc = "published"
            /\ run'[w].ev = run[w].ev /\ run'[w].flows = run[w].flows /\ run'[w].at = run[w].at
        BY <3>5, PublishEffect DEF history
      <4>2. Mine(w)
        BY <2>5, <4>1
      <4> QED BY <2>4, <3>1, <3>2, <4>1, <4>2
    <3>6. CASE Commit(w)
      <4>1. PICK s \in Sales : s = run[w].ev.sale
        BY <3>6, CommitEffect
      <4> DEFINE r == run[w]
      <4>2. /\ run'[w] = Idle /\ \A v \in Workers : v # w => run'[v] = run[v]
            /\ log' = log \cup {r.ev} /\ enrolled'[s] = enrolled[s] \cup r.flows
            /\ past'[s] = IF r.at = edits THEN past[s] \ r.flows
                                          ELSE past[s] \cup (r.flows \ enrolled[s])
            /\ \A t \in Sales : t # s => enrolled'[t] = enrolled[t] /\ past'[t] = past[t]
        BY <3>6, <4>1, CommitEffect
      <4>3. Mine(w)
        BY <4>2 DEF Idle
      <4>4. ASSUME NEW f \in enrolled'[s] \ past'[s]
            PROVE  \E ev \in log' : ev.sale = s /\ Starts(ev, f)
        <5>1. CASE r.at = edits /\ f \in r.flows
          BY <2>5, <4>1, <4>2, <5>1
        <5>2. CASE ~(r.at = edits /\ f \in r.flows)
          <6>1. f \in enrolled[s] \ past[s]
            BY <4>2, <4>4, <5>2
          <6> QED BY <2>5, <4>2, <6>1
        <5> QED BY <5>1, <5>2
      <4>5. Theirs
        BY <2>5, <4>2, <4>4
      <4> QED BY <2>4, <3>1, <4>2, <4>3, <4>5
    <3>7. CASE Fail(w)
      <4>1. /\ \A v \in Workers : v # w => run'[v] = run[v]
            /\ run'[w] = Idle /\ UNCHANGED <<tables, past>>
        BY <3>7, FailEffect DEF history
      <4>2. Mine(w)
        BY <4>1 DEF Idle
      <4> QED BY <2>4, <3>1, <3>2, <4>1, <4>2
    <3> QED BY <2>7, <3>3, <3>4, <3>5, <3>6, <3>7, HandleCases
  <2> QED BY <1>2, <2>2, <2>6, <2>7 DEF Next
<1> QED BY <1>1, <1>2

-----------------------------------------------------------------------------
(* What the page shows *)

\* The row of a sale, if the filter selects it.
Standing(filter, s) == IF row[s] # None /\ Selects(filter, row[s]) THEN {row[s]} ELSE {}

\* A transaction has told the page of sale s and not ended.
Pending(s) == \E w \in Workers : run[w].pc = "published" /\ run[w].ev.sale = s

\* Told and ShownExplained, sale by sale.
FetchOK == page.fetch = "read" => \A s \in Sales :
  /\ Pending(s) => s \in page.late
  /\ s \notin page.late => OfSale(page.got, s) = Standing(page.filter, s)
EnvelopeOK == page.fetch = "shown" =>
  \A w \in Workers : run[w].pc = "published" /\ run[w].ev.sale \notin stale =>
    /\ OfSale(page.rows, run[w].ev.sale) = {run[w].lead}
    /\ Selects(page.filter, run[w].lead)
RowsOK == page.fetch = "shown" => \A s \in Sales :
  s \notin stale /\ ~Pending(s) => OfSale(page.rows, s) = Standing(page.filter, s)
View == FetchOK /\ EnvelopeOK /\ RowsOK

\* A listing has the row of a sale or nothing of it.
LEMMA ListedOf ==
  ASSUME TypeOK, RowsStand, NEW filter, NEW s \in Sales
  PROVE  OfSale(Listed(filter), s) = Standing(filter, s)
<1>1. \A l : l \in Listed(filter) <=> /\ l # None /\ Selects(filter, l)
                                      /\ \E t \in Sales : l = row[t]
  BY DEF Listed, Selects
<1>2. \A l : l \in OfSale(Listed(filter), s) <=> l # None /\ Selects(filter, l) /\ l = row[s]
  <2>1. \A t \in Sales : row[t] # None => row[t].sale = t
    BY DEF RowsStand
  <2> QED BY <1>1, <2>1 DEF OfSale
<1> QED BY <1>2 DEF Standing

\* Told and ShownExplained say what View says.
LEMMA ViewIs == TypeOK /\ RowsStand /\ Writes => (Told /\ ShownExplained <=> View)
<1> SUFFICES ASSUME TypeOK, RowsStand, Writes PROVE Told /\ ShownExplained <=> View
  OBVIOUS
<1>1. \A s : s \in Announced <=> Pending(s)
  <2>1. \A w \in Workers : run[w].pc = "published" => run[w].lead.sale = run[w].ev.sale
    BY DEF Writes, Busy
  <2> QED BY <2>1 DEF Announced, Pending
<1>2. \A s : Pending(s) => s \in Sales
  BY BusyHas DEF Pending, Busy
<1>3. \A s \in Sales : OfSale(Listed(page.filter), s) = Standing(page.filter, s)
  BY ListedOf
<1>4. (page.fetch = "read" =>
         /\ Announced \subseteq page.late
         /\ \A s \in Sales \ page.late : OfSale(page.got, s) = OfSale(Listed(page.filter), s))
      <=> FetchOK
  BY <1>1, <1>2, <1>3 DEF FetchOK
<1>5. Told <=> FetchOK /\ EnvelopeOK
  BY <1>4 DEF Told, EnvelopeOK
<1>6. ShownExplained <=> RowsOK
  <2>1. ShownExplained <=> (page.fetch = "shown" => \A s \in Sales \ (stale \cup Announced) :
          OfSale(page.rows, s) = OfSale(Listed(page.filter), s))
    BY DEF ShownExplained, OfSale
  <2> QED BY <1>1, <1>3, <2>1 DEF RowsOK
<1> QED BY <1>5, <1>6 DEF View

\* The same after a step.
LEMMA ViewIsNext == (TypeOK /\ RowsStand /\ Writes => (Told /\ ShownExplained <=> View))'
BY ViewIs, PTL

\* A step that tells the page nothing and commits nothing.
LEMMA Unseen ==
  ASSUME View, UNCHANGED row, stale' = stale,
         page'.fetch = page.fetch, page'.filter = page.filter, page'.got = page.got,
         page'.late = page.late, page'.rows = page.rows,
         \A w \in Workers : /\ run'[w].pc = "published" <=> run[w].pc = "published"
                            /\ run[w].pc = "published" =>
                                 run'[w].ev = run[w].ev /\ run'[w].lead = run[w].lead
  PROVE  View'
<1>1. \A s : Pending(s)' <=> Pending(s)
  BY DEF Pending
<1>2. \A s : Standing(page.filter, s)' = Standing(page.filter, s)
  BY DEF Standing
<1>3. FetchOK'
  BY <1>1, <1>2 DEF View, FetchOK
<1>4. EnvelopeOK'
  BY DEF View, EnvelopeOK
<1>5. RowsOK'
  BY <1>1, <1>2 DEF View, RowsOK
<1> QED BY <1>3, <1>4, <1>5 DEF View

\* An envelope changes on the page what is of its own sale.
LEMMA OthersShown ==
  ASSUME IdsApart, NEW w \in Workers, Busy(w), NEW lead, NEW new, NEW s,
         lead.id = run[w].lead.id, lead.sale = run[w].lead.sale, s # lead.sale
  PROVE  OfSale(Upserted(page.rows, lead, new), s) = OfSale(page.rows, s)
<1>1. \A l \in page.rows : l.id = lead.id => l.sale = lead.sale
  BY AroundIs DEF IdsApart
<1> QED BY <1>1 DEF OfSale, Upserted

\* The envelope of the committed-to-be lead is what the page then has of its sale, or the page
\* is known to have missed it.
LEMMA ViewPublish ==
  ASSUME TypeOK, OneAtATime, RowsStand, Writes, IdsApart, View, NEW w \in Workers, Publish(w)
  PROVE  View'
<1>1. PICK s \in Sales, lead \in Lead, new \in BOOLEAN :
        s = run[w].ev.sale /\ lead = Flagged(run[w]) /\ new = run[w].new
  BY PublishEffect, FlaggedType, BusyHas DEF Busy, Transaction
<1>2. /\ run[w].pc = "routed" /\ Busy(w) /\ row' = row
      /\ \A v \in Workers : v # w => run'[v] = run[v]
      /\ run'[w].pc = "published" /\ run'[w].lead = lead /\ run'[w].ev = run[w].ev
  BY <1>1, PublishEffect DEF Busy, tables
<1>3. lead.id = run[w].lead.id /\ lead.sale = run[w].lead.sale
  BY <1>1, <1>2, FlaggedType
<1>4. WritesOf(w)
  BY <1>2 DEF Writes, WritesOf
<1>5. lead.sale = s
  BY <1>1, <1>3, <1>4 DEF WritesOf
<1>6. Tell(lead, new) \/ Lose(lead)
  BY <1>1, PublishEffect
<1>7. /\ page'.filter = page.filter /\ page'.fetch = page.fetch /\ page'.got = page.got
      /\ page'.late = IF page.fetch = "read" THEN page.late \cup {s} ELSE page.late
      /\ \/ stale' = stale \cup {s} /\ page'.rows = page.rows
         \/ /\ stale' = IF Missed(lead, new) THEN stale \cup {s} ELSE stale
            /\ page'.rows = IF page.open /\ Passes(page.filter, lead)
                              THEN Upserted(page.rows, lead, new) ELSE page.rows
  BY <1>2, <1>5, <1>6, TellEffect, LoseEffect
<1>8. \A t : Pending(t)' <=> Pending(t) \/ t = s
  BY <1>1, <1>2 DEF Pending
<1>9. ~Pending(s) /\ \A v \in Workers : v # w /\ Busy(v) => run[v].ev.sale # s
  BY <1>1, <1>2 DEF OneAtATime, Pending, Busy
<1>10. \A t : Standing(page.filter, t)' = Standing(page.filter, t)
  BY <1>2, <1>7 DEF Standing
<1>11. \A t : t # s => OfSale(page'.rows, t) = OfSale(page.rows, t)
  <2>1. ASSUME NEW t, t # s
        PROVE  OfSale(Upserted(page.rows, lead, new), t) = OfSale(page.rows, t)
    <3>1. Busy(w) /\ t # lead.sale
      BY <1>2, <1>5, <2>1
    <3> QED BY ONLY IdsApart, <1>3, <3>1, OthersShown
  <2> QED BY <1>7, <2>1
<1>12. FetchOK'
  BY <1>7, <1>8, <1>10 DEF View, FetchOK
<1>13. RowsOK'
  BY <1>7, <1>8, <1>10, <1>11 DEF View, RowsOK
<1>14. ASSUME page.fetch = "shown", s \notin stale'
       PROVE  OfSale(page'.rows, s) = {lead} /\ Selects(page.filter, lead)
  <2>1. s \notin stale /\ ~Missed(lead, new)
    BY <1>7, <1>14
  <2>2. page.open /\ Selects(page.filter, lead) /\ page'.rows = Upserted(page.rows, lead, new)
        /\ (new \/ \E l \in page.rows : l.id = lead.id)
    BY <1>7, <1>14, <2>1 DEF Missed, Passes, Selects
  <2>3. OfSale(page.rows, s) = Standing(page.filter, s)
    BY <1>9, <1>14, <2>1 DEF View, RowsOK
  <2>4. new <=> row[s] = None
    BY <1>1, <1>4 DEF WritesOf
  <2>5. row[s] # None => row[s].id = lead.id
    BY <1>1, <1>3, <1>4 DEF WritesOf
  <2>6. \A l \in page.rows : l.id = lead.id => l.sale = s
    <3>1. run[w].lead \in Around /\ \A l \in page.rows : l \in Around
      BY <1>2, AroundIs
    <3> QED BY <1>3, <1>5, <3>1 DEF IdsApart
  <2>7. \A l \in page.rows : l.sale = s => ~new /\ l.id = lead.id
    BY <2>3, <2>4, <2>5 DEF OfSale, Standing
  <2>8. \A l : l \in OfSale(Upserted(page.rows, lead, new), s) <=> l = lead
    BY <1>5, <2>2, <2>6, <2>7 DEF OfSale, Upserted
  <2> QED BY <2>2, <2>8
<1>15. EnvelopeOK'
  <2>1. ASSUME page.fetch = "shown", NEW v \in Workers, run'[v].pc = "published",
               run'[v].ev.sale \notin stale'
        PROVE  OfSale(page'.rows, run'[v].ev.sale) = {run'[v].lead}
               /\ Selects(page'.filter, run'[v].lead)
    <3>1. CASE v = w
      BY <1>1, <1>2, <1>7, <1>14, <2>1, <3>1
    <3>2. CASE v # w
      <4>1. run'[v] = run[v] /\ Busy(v) /\ run[v].ev.sale # s
        BY <1>2, <1>9, <2>1, <3>2 DEF Busy
      <4>2. run[v].ev.sale \notin stale
        BY <1>7, <2>1, <4>1
      <4>3. OfSale(page.rows, run[v].ev.sale) = {run[v].lead} /\ Selects(page.filter, run[v].lead)
        BY <2>1, <4>1, <4>2 DEF View, EnvelopeOK
      <4> QED BY <1>7, <1>11, <4>1, <4>3
    <3> QED BY <3>1, <3>2
  <2> QED BY <1>7, <2>1 DEF EnvelopeOK
<1> QED BY <1>12, <1>13, <1>15 DEF View

\* A commit puts into the table what was published.
LEMMA ViewCommit ==
  ASSUME TypeOK, OneAtATime, RowsStand, Writes, View, NEW w \in Workers, Commit(w)
  PROVE  View'
<1>1. PICK s \in Sales, lead \in Lead : s = run[w].ev.sale /\ lead = run[w].lead
  BY CommitEffect
<1>2. /\ run[w].pc = "published" /\ UNCHANGED <<page, stale>> /\ run'[w].pc = "idle"
      /\ \A v \in Workers : v # w => run'[v] = run[v]
      /\ row'[s] = lead /\ \A t \in Sales : t # s => row'[t] = row[t]
  BY <1>1, CommitEffect, IdleRuns
<1>3. Pending(s) /\ \A v \in Workers : run'[v].pc = "published" => run[v].ev.sale # s
  BY <1>1, <1>2 DEF OneAtATime, Pending, Busy
<1>4. \A t : Pending(t)' <=> Pending(t) /\ t # s
  BY <1>1, <1>2, <1>3 DEF Pending
<1>5. \A t \in Sales : t # s => Standing(page.filter, t)' = Standing(page.filter, t)
  BY <1>2 DEF Standing
<1>6. FetchOK'
  BY <1>2, <1>3, <1>4, <1>5 DEF View, FetchOK
<1>7. EnvelopeOK'
  BY <1>2 DEF View, EnvelopeOK
<1>8. page.fetch = "shown" /\ s \notin stale => OfSale(page.rows, s) = Standing(page.filter, s)'
  BY <1>1, <1>2, Nothing DEF View, EnvelopeOK, Standing
<1>9. RowsOK'
  BY <1>2, <1>4, <1>5, <1>8 DEF View, RowsOK
<1> QED BY <1>6, <1>7, <1>9 DEF View

\* What was published and rolled back is on record.
LEMMA ViewFail ==
  ASSUME TypeOK, View, NEW w \in Workers, Fail(w)
  PROVE  View'
<1>1. PICK s \in Sales : s = run[w].ev.sale
  BY FailEffect
<1>2. /\ run'[w].pc = "idle" /\ \A v \in Workers : v # w => run'[v] = run[v]
      /\ stale' = IF run[w].pc = "published" THEN stale \cup {s} ELSE stale
      /\ page'.filter = page.filter /\ page'.fetch = page.fetch /\ page'.got = page.got
      /\ page'.rows = page.rows
      /\ page'.late = IF run[w].pc = "published" /\ page.fetch = "read"
                        THEN page.late \cup {s} ELSE page.late
      /\ row' = row
  BY <1>1, FailEffect, IdleRuns DEF tables
<1>3. \A t : (Pending(t)' => Pending(t)) /\ (Pending(t) => Pending(t)' \/ t = s)
  BY <1>1, <1>2 DEF Pending
<1>4. run[w].pc # "published" => \A t : Pending(t)' <=> Pending(t)
  BY <1>2 DEF Pending
<1>5. \A t : Standing(page.filter, t)' = Standing(page.filter, t)
  BY <1>2 DEF Standing
<1>6. FetchOK'
  BY <1>2, <1>3, <1>5 DEF View, FetchOK
<1>7. EnvelopeOK'
  BY <1>2 DEF View, EnvelopeOK
<1>8. RowsOK'
  BY <1>2, <1>3, <1>4, <1>5 DEF View, RowsOK
<1> QED BY <1>6, <1>7, <1>8 DEF View

\* No step lets the page and the table drift apart unrecorded.
LEMMA ViewStep ==
  ASSUME TypeOK, OneAtATime, RowsStand, Writes, IdsApart, View, [Next]_vars
  PROVE  View'
<1>1. CASE Catalog \/ UNCHANGED vars
  <2>1. SameWork /\ UNCHANGED <<row, page, stale>>
    BY <1>1, OthersKeepWork, CatalogEffect DEF tables, vars
  <2> QED BY <2>1, Unseen DEF SameWork
<1>2. CASE Screen
  <2>1. UNCHANGED <<row, run>>
    BY <1>2, ScreenEffect DEF tables
  <2>2. CASE ToFilter
    BY <2>2 DEF ToFilter, View, FetchOK, EnvelopeOK, RowsOK
  <2>3. CASE ToRead
    <3>1. \A s \in Sales : OfSale(Listed(page.filter), s) = Standing(page.filter, s)
      BY ListedOf
    <3>2. \A s : Pending(s)' => s \in Announced
      <4>1. \A v \in Workers : run[v].pc = "published" => run[v].lead.sale = run[v].ev.sale
        BY DEF Writes, Busy
      <4> QED BY <2>1, <4>1 DEF Announced, Pending
    <3>3. \A s : Standing(page.filter, s)' = Standing(page.filter, s)
      BY <2>1, <2>3 DEF Standing, ToRead
    <3>4. FetchOK'
      BY <2>3, <3>1, <3>2, <3>3 DEF FetchOK, ToRead
    <3> QED BY <2>3, <3>4 DEF View, EnvelopeOK, RowsOK, ToRead
  <2>4. CASE ToShow
    <3>1. \A s : Pending(s)' <=> Pending(s)
      BY <2>1 DEF Pending
    <3>2. \A s : Standing(page.filter, s)' = Standing(page.filter, s)
      BY <2>1, <2>4 DEF Standing, ToShow
    <3>3. RowsOK'
      BY <2>4, <3>1, <3>2 DEF View, FetchOK, RowsOK, ToShow
    <3>4. EnvelopeOK'
      <4>1. ASSUME NEW v \in Workers, run[v].pc = "published"
            PROVE  run[v].ev.sale \in page.late
        <5>1. run[v].ev.sale \in Sales /\ Pending(run[v].ev.sale)
          BY <4>1, BusyHas DEF Busy, Pending
        <5> QED BY <2>4, <5>1 DEF View, FetchOK, ToShow
      <4> QED BY <2>1, <2>4, <4>1 DEF EnvelopeOK, ToShow
    <3> QED BY <2>4, <3>3, <3>4 DEF View, FetchOK, ToShow
  <2>5. CASE ToStream
    BY <2>1, <2>5, Unseen DEF ToStream
  <2> QED BY <1>2, <2>2, <2>3, <2>4, <2>5, ScreenEffect
<1>3. ASSUME NEW w \in Workers, Handle(w)
      PROVE  View'
  <2>1. ASSUME NEW ev \in Payloads, Upsert(w, ev) PROVE View'
    <3>1. /\ UNCHANGED <<row, page, stale>> /\ \A v \in Workers : v # w => run'[v] = run[v]
          /\ run[w].pc = "idle" /\ run'[w].pc = "upserted"
      BY <2>1, UpsertEffect DEF tables
    <3> QED BY <3>1, Unseen
  <2>2. CASE Route(w)
    <3>1. /\ UNCHANGED <<row, page, stale>> /\ \A v \in Workers : v # w => run'[v] = run[v]
          /\ run[w].pc = "upserted" /\ run'[w].pc = "routed"
      BY <2>2, RouteEffect DEF tables
    <3> QED BY <3>1, Unseen
  <2> QED BY <1>3, <2>1, <2>2, HandleCases, ViewPublish, ViewCommit, ViewFail
<1> QED BY <1>1, <1>2, <1>3 DEF Next

-----------------------------------------------------------------------------
(* The invariant and what it gives *)

\* The invariant holds initially, whatever catalog the run starts from.
LEMMA InitPanel == Init => Panel
<1> SUFFICES ASSUME Init PROVE Panel
  OBVIOUS
<1>1. PICK c \in Catalogs : product = c.product /\ alias = c.alias /\ flow = c.flow
  BY DEF Init
<1>2. \A w \in Workers : run[w] = Idle
  BY DEF Init
<1>3. Idle.pc = "idle" /\ Idle.match = None /\ Idle.flows = {} /\ ~Idle.dated
  BY DEF Idle
<1>4. TypeOK
  <2>1. page \in Page
    BY DEF Init, Page, Filter
  <2>2. run \in [Workers -> Transaction]
    BY IdleType DEF Init
  <2>3. /\ product \in [Products -> Product \cup {None}]
        /\ alias \in [Codes -> Products \cup {None}] /\ flow \in [Flows -> Flow \cup {None}]
    BY <1>1, CatalogsAssumption
  <2> QED BY <1>2, <2>1, <2>2, <2>3, BoundsAssumption DEF Init, TypeOK
<1>5. OneAtATime /\ RowsStand /\ Writes
  BY <1>2, <1>3 DEF Init, OneAtATime, RowsStand, Writes, Busy
<1>6. IdsApart
  <2>1. Around = {}
    BY <1>2, <1>3 DEF Init, Around, Busy
  <2> QED BY <2>1 DEF IdsApart
<1>7. Verdicts
  BY <1>2, <1>3 DEF Verdicts
<1>8. LeadTells /\ RightCourse
  BY DEF Init, LeadTells, PendingExplained, ActivatedKept, RightCourse
<1>9. CatalogFits /\ Courses
  BY <1>1, <1>2, <1>3, CatalogsAssumption DEF CatalogFits, Courses
<1>10. Told /\ ShownExplained
  BY DEF Init, Told, ShownExplained
<1> QED BY <1>4, <1>5, <1>6, <1>7, <1>8, <1>9, <1>10 DEF Panel

\* Every step keeps the invariant.
LEMMA PanelStep == Panel /\ [Next]_vars => Panel'
<1> SUFFICES ASSUME Panel, [Next]_vars PROVE Panel'
  OBVIOUS
<1>1. TypeOK /\ OneAtATime /\ RowsStand /\ Writes /\ IdsApart /\ Verdicts /\ LeadTells
      /\ CatalogFits /\ Courses /\ RightCourse /\ Told /\ ShownExplained
  BY DEF Panel
<1>2. TypeOK' /\ OneAtATime' /\ RowsStand' /\ Writes' /\ IdsApart'
  BY <1>1, TypesStep, OneAtATimeStep, RowsStep, IdsStep
<1>3. Verdicts' /\ LeadTells' /\ CatalogFits' /\ Courses' /\ RightCourse'
  BY <1>1, VerdictsStep, TellsStep, CoursesStep
<1>4. View
  BY <1>1, ViewIs
<1>5. View'
  BY <1>1, <1>4, ViewStep
<1>6. Told' /\ ShownExplained'
  BY <1>2, <1>5, ViewIsNext
<1> QED BY <1>2, <1>3, <1>6 DEF Panel

\* For any number of products, sales, handlers and edits, and any payloads the gateway may
\* send: open transactions, their lookups, the leads' rows and ids, and the page fit together
\* in every state.
THEOREM PanelInvariant == Spec => []Panel
<1>1. Init => Panel
  BY InitPanel
<1>2. Panel /\ [Next]_vars => Panel'
  BY PanelStep
<1> QED BY <1>1, <1>2, PTL DEF Spec

\* The catalog, the leads, the transactions and the page keep their types.
THEOREM LeadsTypes == Spec => []TypeOK
<1>1. Panel => TypeOK
  BY DEF Panel
<1> QED BY <1>1, PanelInvariant, PTL

\* A lead tells of one event of its sale, pending only by that event's own lookup, and keeps
\* its activation, in whatever order _route and upsert meet the events, retries and edits.
THEOREM LeadsTellOfEvents == Spec => []LeadTells
<1>1. Panel => LeadTells
  BY DEF Panel
<1> QED BY <1>1, PanelInvariant, PTL

\* The page shows what the table has, but for what was announced and not committed and for
\* what a failed publish (leads_pubsub), a closed stream, a filter or a late answer is known
\* to have kept from it.
THEOREM PageShowsTable == Spec => []ShownExplained
<1>1. Panel => ShownExplained
  BY DEF Panel
<1> QED BY <1>1, PanelInvariant, PTL

\* For any catalog and any edits of it between lookup and commit: enrollments that no edit has
\* overtaken are in active flows of a course that an event of the sale names, its own id before
\* an alias and a name only when no other course has it (find_active_by_hubla_id and _name).
THEOREM CoursesAreRight == Spec => []RightCourse
<1>1. Panel => RightCourse
  BY DEF Panel
<1> QED BY <1>1, PanelInvariant, PTL

========================================
