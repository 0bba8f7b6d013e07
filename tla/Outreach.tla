------------------------------- MODULE Outreach -------------------------------
(***************************************************************************)
(* How a message finds its way to a buyer: the event's payload and phone   *)
(* are brought to one form, the contact and an open conversation are looked *)
(* up at ChatNexo or made there, call by call, and the step of the         *)
(* enrollment, an outside system's text or an alert is sent in it.         *)
(*                                                                         *)
(* Contacts, conversations and credentials live at ChatNexo, which is      *)
(* modelled from the calls made to it.  Which step runs when is Dispatch's, *)
(* which flow an event starts Leads'; what is sent is Rendering's.         *)
(***************************************************************************)
EXTENDS Rendering

CONSTANTS Buyers,
          Requests,    \* what may be asked for: see Request
          Drafts,      \* templates that operators submit
          Synced,      \* templates that come from Meta
          Contexts,    \* data of the buyer and the sale
          Agents,      \* attendants with a key of their own
          Contacts,    \* contacts ChatNexo has at the start
          Buffering,   \* the values message_buffer_enabled may have
          MaxRuns, MaxBusy,  \* bounds on runs, and on those at work at once
          MaxFaults,   \* bound on failed calls and lost answers
          MaxChanges   \* bound on what changes beside the runs

ASSUME BufferingAssumption == Buffering \subseteq BOOLEAN
ASSUME NoneAssumption == None \notin Nat
ASSUME BoundsAssumption == {MaxRuns, MaxBusy, MaxFaults, MaxChanges} \subseteq Nat

\* A phone number as it is written: +55..., 55..., without the country, or not one.
Forms == {"e164", "country", "local", "invalid"}
Written == [who : Buyers, form : Forms]

\* What is left when only the digits are kept: ChatNexo's contacts are told apart
\* by them, and are written for them here.
Digits(p) == [p EXCEPT !.form = IF @ = "e164" THEN "country" ELSE @]

\* Phone.parse
ParsePhone(p) == [p EXCEPT !.form = IF @ = "invalid" THEN @ ELSE "e164"]

EventTypes == {"NewSale", "Renewal", "Canceled", "subscription.activated",
               "customer.member_added", "member.access_granted",
               "subscription.deactivated"}
ActivationTypes == {"subscription.activated", "customer.member_added"}

\* A Hubla event, an outside system's text, an alert, or the step of a buyer's
\* enrollment with its free text or the bindings of its template.
Request ==
  [kind : {"event"}, to : Written, v1 : BOOLEAN, type : EventTypes]
    \cup [kind : {"outbound", "alert"}, to : Written,
          text : Seq(Seq([id : Nat, len : Nat]))]
ASSUME RequestsAssumption ==
  \A q \in Requests : q.to \in Written /\ (q.kind = "event" => q.type \in EventTypes)

\* What MetaTemplateRepository can hold.
Library == {t \in Drafts : ValidTemplate(t)} \cup Synced \cup {None}

Keys == Agents \cup {"master"}

VARIABLES
  agent,    \* chatnexo_agents: per agent "active", "inactive" or None
  revoked,  \* keys ChatNexo no longer takes
  contact,  \* ChatNexo's contacts
  linked,   \* those with a contact_inbox
  conv,     \* ChatNexo's conversations: [contact, open]
  enrolled, \* per buyer: the conversation of the enrollment, or None
  run,      \* per run: request, place, and what it has done
  doubled,  \* history: contacts for which a POST came twice or runs overlapped
  runs, faults, changes

config == <<agent, revoked>>
chatnexo == <<contact, linked, conv>>
vars == <<config, chatnexo, enrolled, run, doubled, runs, faults, changes>>

NoRun == [pc |-> "none", q |-> None, to |-> None, key |-> None, conv |-> None, flow |-> None,
          seen |-> 0, tries |-> 0, parts |-> <<>>, out |-> <<>>, lost |-> FALSE]

Live == {r \in 1..runs : run[r].pc \notin {"done", "failed"}}

Fault == faults < MaxFaults /\ faults' = faults + 1

-----------------------------------------------------------------------------
(* Keys *)

\* build_chatnexo_client: an active agent at random, else the account's own key.
KeysInUse ==
  LET active == {a \in Agents : agent[a] = "active"}
  IN IF active = {} THEN {"master"} ELSE active

Change == changes < MaxChanges /\ changes' = changes + 1

ChangeAgent(a, status) ==
  /\ agent[a] # status /\ agent' = [agent EXCEPT ![a] = status] /\ Change
  /\ UNCHANGED <<revoked, chatnexo, enrolled, run, doubled, runs, faults>>

CreateAgent(a) == agent[a] = None /\ ChangeAgent(a, "active")
UpdateAgent(a, active) ==
  agent[a] # None /\ ChangeAgent(a, IF active THEN "active" ELSE "inactive")
DeleteAgent(a) == agent[a] # None /\ ChangeAgent(a, None)

\* At ChatNexo: a key is taken back, an attendant resolves a conversation.
Revoke(k) ==
  /\ k \notin revoked /\ revoked' = revoked \cup {k} /\ Change
  /\ UNCHANGED <<agent, chatnexo, enrolled, run, doubled, runs, faults>>

Close(c) ==
  /\ conv[c].open /\ conv' = [conv EXCEPT ![c].open = FALSE] /\ Change
  /\ UNCHANGED <<config, contact, linked, enrolled, run, doubled, runs, faults>>

-----------------------------------------------------------------------------
(* Runs *)

\* normalize_v1_payload, and the names an earlier version of the code used.
V1ToV2 == [NewSale |-> "subscription.activated", Renewal |-> "subscription.activated",
           Canceled |-> "subscription.deactivated"]

NormalizeV1(q) ==
  IF q.v1 /\ q.type \in DOMAIN V1ToV2 THEN V1ToV2[q.type] ELSE q.type

NormalizeType(type) ==
  IF type = "member.access_granted" THEN "customer.member_added" ELSE type

HandledType(q) == NormalizeType(NormalizeV1(q))

Start(q, started) ==
  /\ runs < MaxRuns /\ Cardinality(Live) < MaxBusy
  /\ runs' = runs + 1
  /\ \E k \in KeysInUse : run' = [run EXCEPT ![runs + 1] = [started EXCEPT !.q = q, !.key = k]]
  /\ UNCHANGED <<config, chatnexo, enrolled, doubled, changes>>

\* HublaEventHandler.handle: without a valid phone there is no contact, and
\* without access given no flow here to look a conversation up for.
StartEvent(q) ==
  LET phone == ParsePhone(q.to) IN
  /\ q.kind = "event"
  /\ Start(q, [NoRun EXCEPT !.to = phone,
                 !.pc = IF phone.form = "e164" /\ HandledType(q) \in ActivationTypes
                          THEN "search" ELSE "done"])
  /\ UNCHANGED faults

\* send_outbound without a conversation_id, and make_unmapped_alert's hook: the
\* number is taken as given.
StartText(q) ==
  /\ q.kind \in {"outbound", "alert"}
  /\ Start(q, [NoRun EXCEPT !.to = q.to, !.pc = "search", !.parts = SplitMessage(q.text)])
  /\ UNCHANGED faults

\* DispatchOnboardingStep, in the enrollment's conversation, of these messages;
\* the message buffer takes the number and the whole, in one call made once.
StartStep(q, parts, buffered) ==
  /\ enrolled[q.to.who] # None
  /\ Start(q, IF buffered THEN [NoRun EXCEPT !.to = q.to, !.pc = "buffer", !.parts = parts]
             ELSE [NoRun EXCEPT !.to = q.to, !.pc = "post", !.parts = parts,
                                !.conv = enrolled[q.to.who]])
  /\ UNCHANGED faults

StartStepText(q) ==
  /\ q.kind = "step"
  /\ \E buffered \in Buffering :
       StartStep(q, IF buffered THEN <<Whole(q.text)>> ELSE SplitMessage(q.text), buffered)

\* A template: the call carries the message made of it.
StartStepTemplate(q, template, ctx) ==
  /\ q.kind = "template"
  /\ \E buffered \in Buffering :
       StartStep(q, <<[template |-> template, ctx |-> ctx,
                       message |-> TemplateMessage(template, q.bindings, ctx, buffered)]>>,
                 buffered)

\* The parts of a run's record that a step of it gives new values.
Goto(r, new) == run' = [run EXCEPT ![r] = new]

\* A run that is over keeps only its outcome.
Ended(me, pc) ==
  [me EXCEPT !.pc = pc, !.key = None, !.seen = 0, !.tries = 0, !.parts = <<>>, !.flow = None]

\* An event's flow has a conversation, or 0 for none: a purchase has a lookup of
\* its own, which PurchaseHandler makes.
Looked(me, c) ==
  [me EXCEPT !.flow = c, !.tries = 0,
             !.pc = IF HandledType(me.q) = "subscription.activated" THEN "search" ELSE "commit"]

\* An error: of a flow's lookup, it is logged; of the purchase's, the event is
\* rolled back; a text is answered 502, an alert given up, a step marked FAILED.
Failed(me) ==
  IF me.q.kind = "event" /\ me.flow = None THEN Looked(me, 0) ELSE Ended(me, "failed")

Resolved(me, c) ==
  IF me.q.kind # "event" THEN [me EXCEPT !.pc = "post", !.conv = c, !.tries = 0]
  ELSE IF me.flow = None THEN Looked(me, c)
  ELSE [me EXCEPT !.pc = "commit", !.conv = c]

\* A key that is refused ends the call, without another attempt.
Refused(me) == me.key \in revoked

Get(r, pc) == run[r].pc = pc /\ ~Refused(run[r])
Post(r, pc) == run[r].pc = pc /\ ~Refused(run[r])

Posts == {"contact", "link", "open", "post"}

\* A POST is tried three times: an attempt may fail with its work not done, or
\* done and the answer lost.
Retry(r) ==
  /\ run[r].tries < 2
  /\ IF run[r].tries = 0 THEN Fault ELSE UNCHANGED faults
  /\ Goto(r, [run[r] EXCEPT !.tries = @ + 1])

\* A call fails for good: refused, or out of attempts, which only a POST has
\* more than one of; after the link's 422 comes a GET.
Fail(r) ==
  LET me == run[r] IN
  /\ \/ me.pc \in Posts \cup {"search", "list", "again"} /\ Refused(me) /\ UNCHANGED faults
     \/ me.pc \in Posts /\ me.tries = 2 /\ UNCHANGED faults
     \/ me.pc \in {"search", "list", "again", "patch", "buffer"} /\ Fault
     \/ me.pc = "link" /\ Digits(me.to) \in linked /\ Fault
  /\ Goto(r, Failed(me))
  /\ UNCHANGED <<config, chatnexo, enrolled, doubled, runs, changes>>

Outside == <<config, enrolled, runs, changes>>

-----------------------------------------------------------------------------
(* get_open_conversation *)

\* Faulty variant: the first contact the search returns, which is fuzzy.
SearchFuzzy(r) ==
  LET me == run[r] IN
  /\ Get(r, "search")
  /\ \/ \E c \in contact : Goto(r, [me EXCEPT !.pc = "list", !.to = c])
     \/ contact = {} /\ Goto(r, [me EXCEPT !.pc = "contact", !.seen = Len(conv)])
  /\ UNCHANGED <<chatnexo, doubled, faults>> /\ UNCHANGED Outside

\* Faulty variant: the number is compared as it is written.
SearchAsWritten(r) ==
  LET me == run[r] IN
  /\ Get(r, "search")
  /\ Goto(r, IF me.to \in contact THEN [me EXCEPT !.pc = "list"]
             ELSE [me EXCEPT !.pc = "contact", !.seen = Len(conv)])
  /\ UNCHANGED <<chatnexo, doubled, faults>> /\ UNCHANGED Outside

\* The contact with exactly these digits among those found.
Search(r) ==
  LET me == run[r] IN
  /\ Get(r, "search")
  /\ Goto(r, IF Digits(me.to) \in contact THEN [me EXCEPT !.pc = "list"]
             ELSE [me EXCEPT !.pc = "contact", !.seen = Len(conv)])
  /\ UNCHANGED <<chatnexo, doubled, faults>> /\ UNCHANGED Outside

OpenConvs(c) == {i \in DOMAIN conv : conv[i].contact = c /\ conv[i].open}

\* The first that is open.
ListConvs(r) ==
  LET me == run[r]
      open == OpenConvs(Digits(me.to)) IN
  /\ Get(r, "list")
  /\ IF open = {} THEN Goto(r, [me EXCEPT !.pc = "contact", !.seen = Len(conv)])
     ELSE \E i \in open : Goto(r, Resolved(me, i))
  /\ UNCHANGED <<chatnexo, doubled, faults>> /\ UNCHANGED Outside

-----------------------------------------------------------------------------
(* create_conversation *)

\* POST /contacts: 422 when there is one.
PostContact(r) ==
  LET me == run[r]
      d == Digits(me.to) IN
  /\ Post(r, "contact")
  /\ \/ /\ d \notin contact
        /\ contact' = contact \cup {d}
        /\ \/ Goto(r, [me EXCEPT !.pc = "link", !.tries = 0]) /\ UNCHANGED faults
           \/ Retry(r)
     \/ /\ d \in contact
        /\ Goto(r, [me EXCEPT !.pc = "again", !.tries = 0])
        /\ UNCHANGED <<contact, faults>>
     \/ Retry(r) /\ UNCHANGED contact
  /\ UNCHANGED <<linked, conv, doubled>> /\ UNCHANGED Outside

\* Faulty variant: a contact that exists is taken to be in the inbox.
SearchAgainLinked(r) ==
  LET me == run[r] IN
  /\ Get(r, "again")
  /\ Digits(me.to) \in contact
  /\ Goto(r, [me EXCEPT !.pc = "open"])
  /\ UNCHANGED <<chatnexo, doubled, faults>> /\ UNCHANGED Outside

\* The contact is searched again; its name or e-mail may be out of date.
SearchAgain(r) ==
  LET me == run[r] IN
  /\ Get(r, "again")
  /\ Digits(me.to) \in contact
  /\ \/ Goto(r, [me EXCEPT !.pc = "link"])
     \/ me.q.kind = "event" /\ Goto(r, [me EXCEPT !.pc = "patch"])
  /\ UNCHANGED <<chatnexo, doubled, faults>> /\ UNCHANGED Outside

\* PATCH /contacts: a refusal is put up with, a timeout is not (see Fail).
PatchContact(r) ==
  /\ run[r].pc = "patch"
  /\ Goto(r, [run[r] EXCEPT !.pc = "link"])
  /\ UNCHANGED <<chatnexo, doubled, faults>> /\ UNCHANGED Outside

\* POST /contact_inboxes; on 422 the link is read.
LinkInbox(r) ==
  LET me == run[r] IN
  /\ Post(r, "link")
  /\ \/ /\ linked' = linked \cup {Digits(me.to)}
        /\ \/ Goto(r, [me EXCEPT !.pc = "open", !.tries = 0]) /\ UNCHANGED faults
           \/ Digits(me.to) \notin linked /\ Retry(r)
     \/ Retry(r) /\ UNCHANGED linked
  /\ UNCHANGED <<contact, conv, doubled>> /\ UNCHANGED Outside

\* POST /conversations
OpenConv(r) ==
  LET me == run[r]
      d == Digits(me.to)
      late == \E i \in OpenConvs(d) : i > me.seen IN
  /\ Post(r, "open")
  /\ \/ /\ conv' = Append(conv, [contact |-> d, open |-> TRUE])
        /\ \/ /\ Goto(r, Resolved(me, Len(conv')))
              /\ doubled' = IF late THEN doubled \cup {d} ELSE doubled
              /\ UNCHANGED faults
           \/ Retry(r) /\ doubled' = doubled \cup {d}
     \/ Retry(r) /\ UNCHANGED <<conv, doubled>>
  /\ UNCHANGED <<contact, linked>> /\ UNCHANGED Outside

-----------------------------------------------------------------------------
(* What the run is for *)

\* Of a template there is nothing to tell apart but that it is one.
Said(me) == IF me.q.kind = "template" THEN <<>> ELSE Head(me.parts)

Arrived(me) == [me EXCEPT !.out = Append(@, Said(me))]

NextPart(me) ==
  IF Len(me.parts) = 1 THEN Ended(me, "done") ELSE [me EXCEPT !.parts = Tail(@), !.tries = 0]

\* Faulty variant: a part that cannot be sent is left out.
PostPartSkipping(r) ==
  LET me == run[r] IN
  /\ Post(r, "post")
  /\ \/ Goto(r, NextPart(Arrived(me))) /\ UNCHANGED faults
     \/ Goto(r, NextPart(me)) /\ Fault
  /\ UNCHANGED <<chatnexo, doubled>> /\ UNCHANGED Outside

\* send_message: one POST after the other.
PostPart(r) ==
  LET me == run[r] IN
  /\ Post(r, "post")
  /\ \/ Goto(r, NextPart(Arrived(me))) /\ UNCHANGED faults
     \/ Retry(r)
     \/ /\ me.tries < 2 /\ IF me.tries = 0 THEN Fault ELSE UNCHANGED faults
        /\ Goto(r, [Arrived(me) EXCEPT !.tries = @ + 1, !.lost = TRUE])
  /\ UNCHANGED <<chatnexo, doubled>> /\ UNCHANGED Outside

\* MessageBufferClient: one call, with the phone number; the buffer finds the
\* conversation.
PostBuffer(r) ==
  /\ run[r].pc = "buffer"
  /\ Goto(r, NextPart(Arrived(run[r])))
  /\ UNCHANGED <<chatnexo, doubled, faults>> /\ UNCHANGED Outside

\* The event's transaction, with the enrollment unless its lookup failed.
Commit(r) ==
  LET me == run[r]
      who == me.to.who IN
  /\ me.pc = "commit"
  /\ enrolled' = IF me.flow # 0 /\ enrolled[who] = None
                   THEN [enrolled EXCEPT ![who] = me.flow] ELSE enrolled
  /\ Goto(r, Ended(me, "done"))
  /\ UNCHANGED <<config, chatnexo, doubled, runs, faults, changes>>

-----------------------------------------------------------------------------
Init ==
  /\ agent \in [Agents -> {"active", None}]
  /\ revoked = {}
  /\ contact \in SUBSET Contacts /\ linked = {}
  /\ conv = <<>>
  /\ enrolled = [b \in Buyers |-> None]
  /\ run = [r \in 1..MaxRuns |-> NoRun]
  /\ doubled = {}
  /\ runs = 0 /\ faults = 0 /\ changes = 0

Administration ==
  \/ \E a \in Agents : CreateAgent(a) \/ DeleteAgent(a)
  \/ \E a \in Agents, active \in BOOLEAN : UpdateAgent(a, active)
  \/ \E k \in Keys : Revoke(k)
  \/ \E c \in DOMAIN conv : Close(c)

Begin(q) ==
  \/ StartEvent(q) \/ StartText(q) \/ StartStepText(q)
  \/ \E template \in Library, ctx \in Contexts : StartStepTemplate(q, template, ctx)

Step(r) ==
  \/ Search(r) \/ ListConvs(r)
  \/ PostContact(r) \/ SearchAgain(r) \/ PatchContact(r) \/ LinkInbox(r) \/ OpenConv(r)
  \/ PostPart(r) \/ PostBuffer(r) \/ Commit(r) \/ Fail(r)

Next ==
  \/ Administration
  \/ \E q \in Requests : Begin(q)
  \/ \E r \in Live : Step(r)

Spec == Init /\ [][Next]_vars

-----------------------------------------------------------------------------
(* What must hold *)

TypeOK ==
  /\ agent \in [Agents -> {"active", "inactive", None}] /\ revoked \subseteq Keys
  /\ linked \subseteq contact /\ \A c \in contact : c.who \in Buyers
  /\ \A i \in DOMAIN conv : conv[i].contact \in linked /\ conv[i].open \in BOOLEAN
  /\ enrolled \in [Buyers -> DOMAIN conv \cup {None}]
  /\ \A r \in Live : run[r].key \in Keys /\ run[r].tries \in 0..2
  /\ \A r \in Live : run[r].pc = "post" => run[r].conv \in DOMAIN conv /\ run[r].parts # <<>>
  /\ runs \in 0..MaxRuns /\ faults \in 0..MaxFaults /\ changes \in 0..MaxChanges

\* Payloads that tell of access given, whatever their version calls it.
GrantsAccess(q) ==
  \/ q.v1 /\ q.type \in {"NewSale", "Renewal"}
  \/ q.type \in {"subscription.activated", "customer.member_added", "member.access_granted"}

\* A message goes into a conversation of the person it is for, however many
\* contacts look alike; and an event of access given, of either version and with
\* the phone written in any valid way, ends in that person's enrollment unless a
\* call has failed.
RightContact ==
  /\ \A r \in 1..runs : run[r].out # <<>> /\ run[r].conv # None =>
       conv[run[r].conv].contact.who = run[r].q.to.who
  /\ \A b \in Buyers : enrolled[b] # None => conv[enrolled[b]].contact.who = b
  /\ faults = 0 /\ revoked = {} =>
       \A r \in 1..runs : LET q == run[r].q IN
         run[r].pc = "done" /\ q.kind = "event" /\ GrantsAccess(q) /\ q.to.form # "invalid" =>
           enrolled[q.to.who] # None

\* A contact has two open conversations only when two runs looked for one at the
\* same time, or when the POST of one was repeated: an event's own lookups, one
\* after the other, and those of later events share the conversation.
OneConversation ==
  \A c \in contact \ doubled : \A i, j \in OpenConvs(c) : i = j

\* A text that is reported as sent has been: every sentence of it that is long
\* enough, in order, and nothing twice unless an answer was lost.
SentWhole ==
  \A r \in 1..runs : LET me == run[r] IN
    me.pc = "done" /\ me.q.kind \in {"outbound", "alert", "step"} =>
      LET said == FlattenSeq(me.out)
          told == SelectSeq(Whole(me.q.text), LAMBDA s : s.len >= MinChars)
      IN /\ me.lost \/ IsInjective(said)
         /\ ToSet(told) \subseteq ToSet(said)
         /\ ~me.lost => \A i, j \in DOMAIN said : i < j => said[i].id < said[j].id

\* Placeholders of one kind, and an example, if any, of that kind.
OneKind(body) ==
  \/ Variables(body.text) \subseteq Nat /\ body.example # "NAMED"
  \/ Variables(body.text) \subseteq Named /\ body.example # "POSITIONAL"

\* A template from the table, of one kind, whose step binds no variable that is not in it goes
\* out with one parameter per placeholder, in the template's own format, each with its own
\* value, and with none left in the text: what the validator lets through, what is
\* synchronised and what the step binds agree.
ParametersMatch ==
  \A r \in Live : LET me == run[r] IN
    me.q.kind = "template" /\ Head(me.parts).template # None =>
      LET sent == Head(me.parts)
          m == sent.message
          body == BodyOf(sent.template)
          used == Variables(body.text)
      IN OneKind(body) /\ DOMAIN me.q.bindings \subseteq used =>
           /\ DOMAIN m.params = used
           /\ ToSet(m.content) \cap used = {}
           /\ used \cap Nat # {} => m.format = "POSITIONAL" /\ used = 1..Cardinality(used)
           /\ used \cap Named # {} => m.format = "NAMED"
           /\ \A v \in used : m.params[v] = ResolveVariable(v, me.q.bindings, sent.ctx)

=============================================================================
