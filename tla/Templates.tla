------------------------------ MODULE Templates ------------------------------
(***************************************************************************)
(* The message templates of WhatsApp in two places: at Meta, which reviews *)
(* them and sends by name, and in the table meta_templates, which the      *)
(* panel shows and the steps of the onboarding flows name.  Nothing makes  *)
(* a change at Meta and the commit of its row one step, and the steps      *)
(* refer to a template by its name only.                                   *)
(*                                                                         *)
(* A request of the panel is one transaction: what it writes is visible at *)
(* its commit, while its calls to Meta take effect at once.  Ids (UUIDs,   *)
(* Meta's ids) are the least numbers that nothing refers to.               *)
(***************************************************************************)
EXTENDS Naturals, FiniteSets

CONSTANTS Names, Langs,   \* of templates
          Steps,          \* steps of onboarding flows
          Contents,       \* bytes of uploaded media
          Requests,       \* concurrent requests of the panel
          Pasts,          \* templates, with an id each, as a past synchronisation left them
          PageSize,       \* templates in one answer of message_templates
          MaxRequests,    \* bound on requests
          MaxOutside,     \* bound on changes made in Meta's own panel
          MaxFaults,      \* bound on lost answers of Meta and failed commits
          NoName, Gone

ASSUME NamesAssumption == {NoName, Gone} \cap Names = {} /\ NoName # Gone
Statuses == {"PENDING", "APPROVED", "REJECTED"}

Template == [id : Nat, name : Names, lang : Langs, status : Statuses]
Row      == [key : Nat, id : Nat, name : Names, lang : Langs, status : Statuses]

ASSUME PastsAssumption ==
  \A past \in Pasts : /\ past \subseteq Template /\ IsFiniteSet(past)
                      /\ \A t, u \in past : t # u => t.id # u.id /\ t.name # u.name
ASSUME RequestsAssumption == IsFiniteSet(Requests)
ASSUME PageAssumption  == PageSize \in Nat \ {0}

VARIABLES
  meta,     \* the templates at Meta
  rows,     \* rows of meta_templates
  step,     \* meta_template_name of each step, NoName for free text, Gone for no step
  media,    \* sha256 of the rows of meta_template_media
  req,      \* requests in progress
  begun, outside, faults,
  lost,     \* history: names whose template Meta lost without the commit of a row that says so
  raced,    \* history: names that overlapping requests changed, or that a list imported when
            \* Meta had them no longer
  blind     \* history: steps saved with a name not at Meta or in the table, or about to leave them

vars == <<meta, rows, step, media, req, begun, outside, faults, lost, raced, blind>>
hist == <<lost, raced, blind>>

Idle == [pc |-> "idle", op |-> "idle", name |-> NoName, lang |-> NoName, id |-> 0,
         page |-> {}, local |-> {}, found |-> {}, content |-> NoName]

NamesOf(S) == {t.name : t \in S}
Named(S, n) == {t \in S : t.name = n}

Least(used) == CHOOSE i \in 1..(Cardinality(used) + 1) :
                 i \notin used /\ \A j \in 1..(i - 1) : j \in used

IdsOf(S) == {t.id : t \in S}
NewId == Least(IdsOf(meta) \cup IdsOf(rows) \cup {req[r].id : r \in Requests}
               \cup UNION {IdsOf(req[r].page) \cup IdsOf(req[r].local) : r \in Requests})

Keys == {t.key : t \in rows} \cup UNION {{t.key : t \in req[r].local} : r \in Requests}

\* A row as ListTemplates and SyncMetaTemplates insert it.
Import(m, key) == [key |-> key, id |-> m.id, name |-> m.name, lang |-> m.lang, status |-> m.status]

Init ==
  /\ meta \in Pasts
  /\ rows = {Import(t, t.id) : t \in meta}
  /\ step \in [Steps -> NamesOf(meta) \cup {NoName, Gone}]
  /\ media = {}
  /\ req = [r \in Requests |-> Idle]
  /\ begun = 0 /\ outside = 0 /\ faults = 0
  /\ lost = {} /\ raced = {} /\ blind = {}

-----------------------------------------------------------------------------
(* Requests *)

At(r, op, pc) == req[r].op = op /\ req[r].pc = pc

Begin(r, rec) ==
  /\ req[r].pc = "idle" /\ begun < MaxRequests
  /\ begun' = begun + 1
  /\ req' = [req EXCEPT ![r] = rec]
  /\ raced' = IF \E q \in Requests : rec.name \in {req[q].name} \ {NoName}
                THEN raced \cup {rec.name} ELSE raced
  /\ UNCHANGED <<meta, rows, step, media, outside, faults, lost, blind>>

Goto(r, pc) == req' = [req EXCEPT ![r].pc = pc]
End(r) == req' = [req EXCEPT ![r] = Idle]

Fault == faults < MaxFaults /\ faults' = faults + 1

\* The row of a template deleted at Meta stays.
Loses(r) ==
  lost' = IF req[r].op \in {"delete", "edit"} THEN lost \cup {req[r].name} ELSE lost

\* Meta is about to lose the templates of this name, or has, for a request in progress.
Leaving(n) == \E r \in Requests : req[r].name = n /\ req[r].op \in {"delete", "edit"}
                                  /\ req[r].pc \in {"ask", "told", "made"}

\* A synchronisation has looked and is about to delete its row.
Cut(n) == \E r \in Requests :
  At(r, "sync", "looked") /\ n \in NamesOf(req[r].local) \ NamesOf(req[r].page)

-----------------------------------------------------------------------------
(* Listing, which imports, and the full synchronisation *)

\* MetaTemplateClient.list_templates asks for one page and follows no cursor.
Page == {p \in SUBSET meta : p = meta \/ (Cardinality(p) = PageSize /\ PageSize < Cardinality(meta))}

\* The call to Meta; with dry_run the answer is all there is.
BeginList(r, op) == \E p \in Page :
  Begin(r, [Idle EXCEPT !.op = op, !.pc = "listed", !.page = p])

\* list_by_account and, for sync, find_steps_by_template_name of the rows that Meta lacks.
Look(r) ==
  /\ req[r].op \in {"list", "sync"} /\ req[r].pc = "listed"
  /\ LET away == NamesOf(rows) \ NamesOf(req[r].page) IN
     req' = [req EXCEPT ![r].pc = "looked", ![r].local = rows,
               ![r].found = IF req[r].op = "sync" THEN {s \in Steps : step[s] \in away} ELSE {}]
  /\ UNCHANGED <<meta, rows, step, media, begun, outside, faults, hist>>

\* update_status: nothing but the status.
Updated(page, local) ==
  {t \in local : \E m \in Named(page, t.name) : m.status # t.status}

\* Faulty variant: no unique index.
OnlyGone(new, changed) == \E t \in changed : t.key \notin {x.key : x \in rows}

\* Two templates of one name, or a row inserted meanwhile, violate uq_meta_template_account_name;
\* the exception is swallowed but the session is lost.  A row deleted meanwhile cannot be updated.
Conflict(new, changed) ==
  \/ \E m, n \in new : m # n /\ m.name = n.name
  \/ NamesOf(new) \cap NamesOf(rows) # {}
  \/ \E t \in changed : t.key \notin {x.key : x \in rows}

\* Distinct fresh keys.
Inserted(new) ==
  {f \in [new -> 1..(Cardinality(Keys) + Cardinality(new))] :
     /\ \A m \in new : f[m] \notin Keys /\ \A k \in 1..(f[m] - 1) : k \in Keys \cup {f[x] : x \in new}
     /\ \A m, n \in new : m # n => f[m] # f[n]}

\* Of two templates with one name the last in Meta's answer counts.
LastPerName(page) ==
  {p \in SUBSET page : NamesOf(p) = NamesOf(page) /\ \A m, n \in p : m.name = n.name => m = n}

\* The rows for what is new, the statuses for what is known, and the rows of what is gone.
Merge(new, known, local, gone) ==
  \E key \in Inserted(new) :
    /\ rows' = {IF t.key \in {x.key : x \in Updated(known, local)}
                  THEN [t EXCEPT !.status = (CHOOSE m \in Named(known, t.name) : TRUE).status]
                  ELSE t : t \in {x \in rows : x.key \notin {y.key : y \in gone}}}
               \cup {Import(m, key[m]) : m \in new}
    /\ raced' = raced \cup {m.name : m \in {x \in new : x.id \notin IdsOf(meta)}}

New(page, r) == {m \in page : m.name \notin NamesOf(req[r].local)}

\* ListTemplates: imports and statuses; nothing is removed.
ApplyList(r) ==
  /\ At(r, "list", "looked")
  /\ \E known \in LastPerName(req[r].page \ New(req[r].page, r)) :
       IF Conflict(New(req[r].page, r), Updated(known, req[r].local))
         THEN UNCHANGED <<rows, raced>>
         ELSE Merge(New(req[r].page, r), known, req[r].local, {})
  /\ End(r)
  /\ UNCHANGED <<meta, step, media, begun, outside, faults, lost, blind>>

\* SyncMetaTemplates also removes what is gone, and the steps it has found.
ApplySync(r) ==
  /\ At(r, "sync", "looked")
  /\ \E page \in LastPerName(req[r].page) :
       IF Conflict(New(page, r), Updated(page, req[r].local))
         THEN UNCHANGED <<rows, raced, step>>
         ELSE /\ Merge(New(page, r), page \ New(page, r), req[r].local,
                       {t \in req[r].local : t.name \notin NamesOf(page)})
              /\ step' = [s \in Steps |-> IF s \in req[r].found THEN Gone ELSE step[s]]
  /\ End(r)
  /\ UNCHANGED <<meta, media, begun, outside, faults, lost, blind>>

-----------------------------------------------------------------------------
(* Creating, editing, deleting *)

\* The bytes of a template's media are stored, and uploaded before it is created.
HasBytes(c) == c # NoName => c \in media

\* CreateTemplate, validated.
BeginCreate(r, n, lang) == \E c \in Contents \cup {NoName} :
  /\ HasBytes(c)
  /\ Begin(r, [Idle EXCEPT !.op = "create", !.pc = "told", !.name = n, !.lang = lang, !.content = c])

\* EditMetaTemplate goes by the status of the row.  A rejected template is edited in place.
BeginPatch(r, t) ==
  /\ t.status = "REJECTED"
  /\ Begin(r, [Idle EXCEPT !.op = "patch", !.pc = "ask", !.name = t.name, !.id = t.id])

\* An approved one is refused, any other is deleted and created anew.
BeginEdit(r, t) ==
  /\ t.status \notin {"APPROVED", "REJECTED"}
  /\ Begin(r, [Idle EXCEPT !.op = "edit", !.pc = "ask", !.name = t.name, !.lang = t.lang,
                 !.local = {t}])

\* Faulty variant: a template in use may be deleted.
NeverUsed(n) == TRUE

\* _flow_usage_check.
Unused(n) == \A s \in Steps : step[s] # n

BeginDelete(r, t) ==
  /\ Unused(t.name)
  /\ Begin(r, [Idle EXCEPT !.op = "delete", !.pc = "ask", !.name = t.name, !.local = {t}])

\* MetaTemplateClient.delete_template: all languages of the name; 404 if there are none.
DeleteAtMeta(r) ==
  /\ req[r].op \in {"delete", "edit"} /\ req[r].pc = "ask"
  /\ Named(meta, req[r].name) # {}
  /\ meta' = meta \ Named(meta, req[r].name)
  /\ \/ Goto(r, "told") /\ UNCHANGED <<faults, lost>>
     \/ Fault /\ End(r) /\ Loses(r)
  /\ UNCHANGED <<rows, step, media, begun, outside, raced, blind>>

\* MetaTemplateClient.create_template: one template per name and language.
CreateAtMeta(r) ==
  /\ req[r].op \in {"create", "edit"} /\ req[r].pc = "told"
  /\ LET q == req[r] IN
     /\ \A t \in Named(meta, q.name) : t.lang # q.lang
     /\ meta' = meta \cup {[id |-> NewId, name |-> q.name, lang |-> q.lang, status |-> "PENDING"]}
     /\ \/ req' = [req EXCEPT ![r].pc = "made", ![r].id = NewId] /\ UNCHANGED <<faults, lost>>
        \/ Fault /\ End(r) /\ Loses(r)
  /\ UNCHANGED <<rows, step, media, begun, outside, raced, blind>>

\* MetaTemplateClient.edit_template: a rejected template, by its id, is under review again.
EditAtMeta(r) ==
  /\ At(r, "patch", "ask")
  /\ \E t \in meta :
       /\ t.id = req[r].id /\ t.status = "REJECTED"
       /\ meta' = (meta \ {t}) \cup {[t EXCEPT !.status = "PENDING"]}
  /\ \/ Goto(r, "told") /\ UNCHANGED faults
     \/ Fault /\ End(r)
  /\ UNCHANGED <<rows, step, media, begun, outside, hist>>

\* Meta refuses, is out of reach, or the media of an edit is refused after its template is
\* deleted at Meta.
RefusedByMeta(r) ==
  /\ req[r].pc = "ask" \/ At(r, "create", "told") \/ At(r, "edit", "told")
  /\ End(r)
  /\ IF req[r].pc = "told" THEN Loses(r) ELSE UNCHANGED lost
  /\ UNCHANGED <<meta, rows, step, media, begun, outside, faults, raced, blind>>

\* Faulty variant: the row stays when the template has been deleted.
KeepsRow(r) == UNCHANGED rows

\* MetaTemplateRepository.delete, by the id that was read.
Unlink(r) == rows' = {t \in rows : t.key \notin {x.key : x \in req[r].local}}

\* Rows of the name that the request has not read: imported since, of a template that Meta has
\* lost now.
Anew(r) == {t \in Named(rows, req[r].name) : t.key \notin {x.key : x \in req[r].local}}

CommitDelete(r) ==
  /\ At(r, "delete", "told")
  /\ Unlink(r)
  /\ End(r)
  /\ IF Anew(r) # {} THEN Loses(r) ELSE UNCHANGED lost
  /\ UNCHANGED <<meta, step, media, begun, outside, faults, raced, blind>>

\* The new row of a create or an edit, in place of the one an edit has read; a row of that
\* name that another request has committed violates the unique index.
CommitNew(r) ==
  /\ req[r].pc = "made"
  /\ LET q == req[r]
         rest == {t \in rows : t.key \notin {x.key : x \in q.local}} IN
     IF Anew(r) # {} THEN UNCHANGED rows /\ Loses(r)
     ELSE /\ rows' = rest \cup {[key |-> Least(Keys), id |-> q.id, name |-> q.name,
                                 lang |-> q.lang, status |-> "PENDING"]}
          /\ UNCHANGED lost
  /\ End(r)
  /\ UNCHANGED <<meta, step, media, begun, outside, faults, raced, blind>>

\* The row of an edit in place: its content, which is not modelled; its status stays REJECTED.
CommitPatch(r) ==
  /\ At(r, "patch", "told")
  /\ End(r)
  /\ UNCHANGED <<meta, rows, step, media, begun, outside, faults, hist>>

\* The commit fails after Meta has been told.
CommitFails(r) ==
  /\ req[r].pc = "made" \/ At(r, "delete", "told")
  /\ Fault /\ End(r) /\ Loses(r)
  /\ UNCHANGED <<meta, rows, step, media, begun, outside, raced, blind>>

-----------------------------------------------------------------------------
(* Media and steps *)

\* UploadTemplateMedia: a row with the same sha256 is answered as it is.
Stored(c) == c \in media

BeginUpload(r, c) ==
  /\ ~Stored(c)
  /\ Begin(r, [Idle EXCEPT !.op = "upload", !.pc = "read", !.content = c])

\* The second of two inserts violates uq_meta_template_media_account_sha.
Upload(r) ==
  /\ At(r, "upload", "read")
  /\ media' = media \cup {req[r].content}
  /\ End(r)
  /\ UNCHANGED <<meta, rows, step, begun, outside, faults, hist>>

\* create_step and update_step take any name.
SaveStep(s, n) ==
  /\ begun < MaxRequests /\ begun' = begun + 1
  /\ step' = [step EXCEPT ![s] = n]
  /\ blind' = IF n \notin NamesOf(meta) \cap NamesOf(rows) \/ Leaving(n) \/ Cut(n)
                THEN blind \cup {s} ELSE blind \ {s}
  /\ UNCHANGED <<meta, rows, media, req, outside, faults, lost, raced>>

-----------------------------------------------------------------------------
(* Meta: its review, and its own panel *)

Review(t) ==
  /\ t.status = "PENDING"
  /\ \E s \in {"APPROVED", "REJECTED"} : meta' = (meta \ {t}) \cup {[t EXCEPT !.status = s]}
  /\ UNCHANGED <<rows, step, media, req, begun, outside, faults, hist>>

Outside ==
  /\ outside < MaxOutside /\ outside' = outside + 1
  /\ \/ \E n \in NamesOf(meta) :
          meta' = meta \ Named(meta, n) /\ lost' = lost \cup {n}
     \/ \E n \in Names, lang \in Langs :
          /\ \A t \in Named(meta, n) : t.lang # lang
          /\ meta' = meta \cup {[id |-> NewId, name |-> n, lang |-> lang, status |-> "PENDING"]}
          /\ UNCHANGED lost
  /\ UNCHANGED <<rows, step, media, req, begun, faults, raced, blind>>

-----------------------------------------------------------------------------
Ask(r) ==
  \/ \E op \in {"list", "sync"} : BeginList(r, op)
  \/ \E n \in Names, lang \in Langs : BeginCreate(r, n, lang)
  \/ \E t \in rows : BeginPatch(r, t) \/ BeginEdit(r, t) \/ BeginDelete(r, t)
  \/ \E c \in Contents : BeginUpload(r, c)

Handle(r) ==
  \/ Look(r) \/ ApplyList(r) \/ ApplySync(r)
  \/ DeleteAtMeta(r) \/ CreateAtMeta(r) \/ EditAtMeta(r) \/ RefusedByMeta(r)
  \/ CommitDelete(r) \/ CommitNew(r) \/ CommitPatch(r) \/ CommitFails(r) \/ Upload(r)

Next ==
  \/ \E r \in Requests : Ask(r) \/ Handle(r)
  \/ \E s \in Steps, n \in Names : SaveStep(s, n)
  \/ \E t \in meta : Review(t)
  \/ Outside

Spec == Init /\ [][Next]_vars
-----------------------------------------------------------------------------
(* Properties *)

TypeOK ==
  /\ meta \subseteq Template /\ rows \subseteq Row
  /\ step \in [Steps -> Names \cup {NoName, Gone}]
  /\ media \subseteq Contents
  /\ \A r \in Requests : req[r].page \subseteq Template /\ req[r].local \subseteq Row
  /\ \A t, u \in rows : t # u => t.key # u.key /\ t.name # u.name
  /\ blind \subseteq Steps /\ lost \cup raced \subseteq Names

\* Every row stands for a template that Meta has, under the id Meta gave it, whatever
\* requests overlap: except while a request has told Meta and not yet committed, where Meta's
\* side was lost (outside, or by a failure between the two), where requests on one name have
\* overlapped, and for a row imported from a list that Meta had outdated meanwhile.
RowsStand ==
  \A t \in rows :
    \/ t.id \in IdsOf(Named(meta, t.name))
    \/ Leaving(t.name) \/ t.name \in lost \cup raced

\* A step of a flow names a template that can be sent and that the panel shows, unless it was
\* saved blindly or the template was lost: the panel does not delete a template in use, and
\* the synchronisation takes the steps with their template.
StepsSend ==
  \A s \in Steps : step[s] \in Names =>
    \/ step[s] \in NamesOf(meta) \cap NamesOf(rows)
    \/ s \in blind \/ Leaving(step[s]) \/ step[s] \in lost

=============================================================================
