---------------------------- MODULE AccessProofs ----------------------------
(***************************************************************************)
(* Proofs about Access, for every value of its constants.                  *)
(*                                                                         *)
(* The inductive invariant is House.  Its parts say what a request in      *)
(* progress knows about the tables it has not locked (Calls, Overlaps),    *)
(* which rows the unique indexes keep apart (Memberships, Addresses),      *)
(* that an account not raced has an admin to spare (Spare), where the last *)
(* mailed password is (Passwords), and of which requests the permissions   *)
(* of a profile are left (ProfileRows).                                    *)
(***************************************************************************)
EXTENDS Access, FiniteSetTheorems, TLAPS

Managing == {"update", "delete"}
Resetting == {"reset", "change"}
Ops == Managing \cup Resetting \cup {"add", "profile"}

Call == [op : Ops \cup {"idle"},
         pc : {"idle", "read", "loaded", "flushed", "sent", "deleted"},
         by : Emails \cup {None}, acc : Accounts \cup {None}, who : Emails \cup {None},
         fresh : BOOLEAN, role : Roles \cup {None}, active : BOOLEAN,
         profile : Profiles \cup {None}, writesMust : BOOLEAN, secret : 0..MaxMails,
         seen : SUBSET Keys, new : SUBSET Keys]

\* What a request is about and how far it can be.
Shape(q) ==
  /\ q.op = "idle" <=> q.pc = "idle"
  /\ q.op # "idle" => q.by \in Emails
  /\ q.op \in Managing => q.pc = "read" /\ q.acc \in Accounts /\ q.who \in Emails
  /\ q.op = "update" => q.role \in Roles
  /\ q.op = "add" => /\ q.pc \in {"read", "flushed", "sent"} /\ q.acc \in Accounts
                     /\ q.who \in Emails /\ q.role \in Roles
  /\ q.op \in Resetting => q.pc \in {"read", "loaded", "flushed", "sent"} /\ q.who \in Emails
  /\ q.op = "profile" => q.pc \in {"read", "deleted"} /\ q.profile \in Profiles
  /\ q.op = "change" \/ (q.op = "add" /\ ~q.fresh) => q.secret = 0 /\ q.pc # "flushed"
  /\ (q.op = "reset" \/ (q.op = "add" /\ q.fresh)) /\ q.pc # "read" => q.secret # 0

\* A token for an account names it.
TokensName == \A i \in Emails :
  session[i] # None /\ session[i].scope = "full" => session[i].acc \in Accounts

Calls == req \in [Requests -> Call] /\ (\A r \in Requests : Shape(req[r])) /\ TokensName

\* Two requests that change one thing at once are on record.
Overlaps == \A r, q \in Requests :
  r # q /\ Thing(req[r]) # None /\ Thing(req[r]) = Thing(req[q]) => Thing(req[r]) \in raced

-----------------------------------------------------------------------------
(* Memberships and their accounts' admins *)

Memberships ==
  /\ IsFiniteSet(members)
  /\ \A m, n \in members : m.who = n.who /\ m.acc = n.acc => m = n
  /\ \A m \in members : ident[m.who] # None
  /\ \A m \in members : m.owner => m.role = "admin"
  /\ \A r \in Requests : req[r].op \in Managing =>
       \A m \in Member(req[r].who, req[r].acc) : ~m.owner

\* The row locks of an identity and of a new address.
Exclusive == \A r, q \in Requests, i \in Emails : r # q =>
  /\ ~(Holds(r, i, {"add"}) /\ Holds(q, i, {"add"}))
  /\ ~(Holds(r, i, Resetting) /\ Holds(q, i, Resetting))

\* A request that has flushed a new membership is the only one to give it.
AddsNew == \A r \in Requests : req[r].op = "add" /\ req[r].pc # "read" =>
  /\ Member(req[r].who, req[r].acc) = {}
  /\ ProfileOf(req[r].profile, req[r].acc)
  /\ req[r].fresh => ident[req[r].who] = None

\* What a request has found about the address it was asked for.
Addresses ==
  /\ \A r \in Requests : req[r].op \in Resetting \/ (req[r].op = "add" /\ ~req[r].fresh) =>
       ident[req[r].who] # None
  /\ \A r \in Requests : req[r].op = "add" /\ req[r].fresh =>
       \A j \in Emails : ident[j] # None /\ Lower(j) = Lower(req[r].who) =>
         Lower(j) \in raced

\* A request that leaves its member no active admin.
Takes(q, a) == /\ q.op \in Managing /\ q.acc = a
               /\ q.op = "update" => q.role # "admin" \/ ~q.active

HadAdmin(a) == \E m \in Migrated : m.acc = a /\ m.role = "admin" /\ m.active

\* An account not raced has an active admin, and another one than the member a request in
\* progress takes away.
Spare == \A a \in Accounts : HadAdmin(a) /\ a \notin raced =>
  /\ ActiveAdmins(a) # {}
  /\ \A r \in Requests : Takes(req[r], a) => \E m \in ActiveAdmins(a) : m.who # req[r].who

-----------------------------------------------------------------------------
(* Passwords *)

\* The mail of a password is under the row's lock from then to the commit.
MailsLocked ==
  /\ \A r \in Requests : req[r].pc = "sent" /\ req[r].secret # 0 =>
       mailed[req[r].who] = req[r].secret
  /\ \A i \in Emails : \/ mailed[i] = 0 \/ i \in excused
                       \/ ident[i] # None /\ ident[i].password = mailed[i]
                       \/ \E r \in Requests : /\ Holds(r, i, {"add", "reset"})
                                              /\ req[r].pc = "sent" /\ req[r].secret = mailed[i]

\* A reset that will not write the flag has found it set.
ForcedStays == \A r \in Requests :
  req[r].op = "reset" /\ req[r].pc # "read" /\ ~req[r].writesMust =>
    ident[req[r].who].must \/ Lower(req[r].who) \in raced

Passwords == MailsLocked /\ ForcedStays /\ TemporaryIsForced

-----------------------------------------------------------------------------
(* Profiles *)

\* The updates of p whose DELETE has run.
Deleting(p) == {r \in Requests : At(r, "profile", "deleted") /\ req[r].profile = p}

\* The keys of the sets in B are those of u.
Joins(u, B) == \A k : k \in u <=> \E X \in B : k \in X

\* The permissions of a profile are the whole grants B of some requests, no key in two of
\* them, and a DELETE has seen some of these grants.
Whole(p, B) ==
  /\ Joins(profile[p].perms, B)
  /\ \A X, Y \in B : X # Y => X \cap Y = {}
  /\ \A r \in Deleting(p) : \E C \in SUBSET B : Joins(req[r].seen, C)

\* Without overlapping updates it is the grant of one, and a DELETE has seen it.
Single(p) ==
  /\ profile[p].perms \in asked[p]
  /\ \A r \in Deleting(p) : req[r].seen = profile[p].perms

\* What the permissions of a profile are made of.
Granted(p) ==
  /\ \E B \in SUBSET asked[p] : Whole(p, B)
  /\ p \notin raced => Single(p)

ProfileRows ==
  /\ \A p \in Profiles : asked[p] = {} => profile[p] = None
  /\ \A r \in Requests : req[r].op = "profile" => req[r].new \in asked[req[r].profile]
  /\ \A p \in Profiles : profile[p] # None => Granted(p)

House == /\ TypeOK /\ Migrated \subseteq Membership /\ Calls /\ Overlaps /\ Memberships /\ Exclusive /\ AddsNew /\ Addresses
         /\ Spare /\ Passwords /\ ProfilesOwn /\ ProfileRows /\ UnauditedExplained

-----------------------------------------------------------------------------
(* Requests and what they are about *)

\* The assumptions about names in the form the proofs use.
LEMMA Names ==
  /\ None \notin Accounts /\ None \notin Profiles /\ \A i \in Emails : Lower(i) # None
  /\ DefaultAccount \in Accounts /\ "Admin" \in Profiles /\ "Operador" \in Profiles
  /\ None \notin Identity /\ None \notin Profile /\ None \notin Session
  /\ MaxMails \in Nat /\ MaxRequests \in Nat /\ MaxFaults \in Nat
BY AccountsAssumption, ProfilesAssumption, NoneAssumption, BoundsAssumption

\* What a request is about, by its operation.
LEMMA ThingOf ==
  ASSUME NEW q, q \in Call
  PROVE  /\ q.op \in Managing => Thing(q) = q.acc
         /\ q.op \in Resetting \cup {"add"} => Thing(q) = Lower(q.who)
         /\ q.op = "profile" => Thing(q) = q.profile
         /\ q.op = "idle" => Thing(q) = None
BY DEF Thing, Managing, Resetting, Call

\* A request in progress is about something.
LEMMA ThingSome ==
  ASSUME NEW q, q \in Call, Shape(q), q.op # "idle"
  PROVE  Thing(q) # None
<1>1. q.op \in Ops
  BY DEF Call
<1> QED BY <1>1, ThingOf, Names DEF Shape, Ops, Managing, Resetting

\* No request is a request, and about nothing.
LEMMA IdleCall == Idle \in Call /\ Shape(Idle) /\ Idle.op = "idle" /\ Idle.pc = "idle"
BY Names DEF Idle, Call, Shape, Ops, Managing, Resetting

-----------------------------------------------------------------------------
(* What a step does to the requests *)

\* The next step leaves what q was asked for, and where it is.
Kept(q) ==
  /\ req'[q].op = req[q].op /\ req'[q].by = req[q].by /\ req'[q].acc = req[q].acc
  /\ req'[q].who = req[q].who /\ req'[q].fresh = req[q].fresh /\ req'[q].role = req[q].role
  /\ req'[q].active = req[q].active /\ req'[q].profile = req[q].profile
  /\ req'[q].new = req[q].new

Stays(q) == /\ Kept(q) /\ req'[q].pc = req[q].pc /\ req'[q].secret = req[q].secret
            /\ req'[q].writesMust = req[q].writesMust

\* Only r is concerned.
OnlyOne(r) == \A q \in Requests : q # r => req'[q] = req[q]

\* A step of r, which goes on or ends.
Concerns(r) == /\ \A q \in Requests : q # r => Stays(q)
               /\ Kept(r) \/ req'[r] = Idle

\* One request written.
LEMMA CallWritten ==
  ASSUME Calls, NEW r \in Requests, NEW x \in Call, Shape(x), req' = [req EXCEPT ![r] = x],
         session' = session
  PROVE  Calls' /\ req'[r] = x /\ OnlyOne(r)
BY DEF Calls, OnlyOne, TokensName

\* The end of a request.
LEMMA EndEffect ==
  ASSUME Calls, NEW r \in Requests, Ends(r), session' = session
  PROVE  Calls' /\ req'[r] = Idle /\ OnlyOne(r) /\ Concerns(r)
<1>1. req' = [req EXCEPT ![r] = Idle]
  BY DEF Ends
<1> HIDE DEF Idle
<1>2. Calls' /\ req'[r] = Idle /\ OnlyOne(r)
  BY <1>1, IdleCall, CallWritten
<1> QED BY <1>2 DEF Concerns, OnlyOne, Stays, Kept

\* A request written that keeps what it was asked for.
LEMMA Going ==
  ASSUME Calls, NEW r \in Requests, NEW x \in Call, Shape(x), req' = [req EXCEPT ![r] = x],
         session' = session,
         x.op = req[r].op, x.by = req[r].by, x.acc = req[r].acc, x.who = req[r].who,
         x.fresh = req[r].fresh, x.role = req[r].role, x.active = req[r].active,
         x.profile = req[r].profile, x.new = req[r].new
  PROVE  Calls' /\ req'[r] = x /\ OnlyOne(r) /\ Kept(r) /\ Concerns(r)
<1>1. Calls' /\ req'[r] = x /\ OnlyOne(r)
  BY CallWritten
<1>2. Kept(r)
  BY <1>1 DEF Kept
<1> QED BY <1>1, <1>2 DEF Concerns, OnlyOne, Stays, Kept

\* The tables do not change.
SameTables == ident' = ident /\ members' = members /\ profile' = profile /\ legacy' = legacy

\* What a step adds to the history of the audit trail is explained.
Trail ==
  /\ faults' \in 0..MaxFaults /\ (faults > 0 => faults' > 0)
  /\ \A u \in unaudited' : u \in unaudited \/ (u.by \in Emails /\ Explained(u)')

\* A step that has nothing to do with the trail.
LEMMA NoTrail ==
  ASSUME TypeOK, faults' = faults, unaudited' = unaudited
  PROVE  Trail
BY DEF Trail, TypeOK

\* A fault on record.
LEMMA FaultEffect ==
  ASSUME TypeOK, Fault
  PROVE  faults' \in 0..MaxFaults /\ faults' > 0
BY Names DEF Fault, TypeOK

\* A request without a row, and why.
LEMMA MissingEffect ==
  ASSUME TypeOK, NEW op, NEW by \in Emails, NEW how, Missing(op, by, how), faults' \in 0..MaxFaults,
         faults > 0 => faults' > 0,
         \/ op = "change" \/ \A old \in legacy' : old.who # by
         \/ how = "raised" /\ tables' = tables
         \/ how = "lost" /\ faults' > 0
  PROVE  Trail
<1> DEFINE u == [op |-> op, by |-> by, how |-> how, changed |-> tables' # tables]
<1>1. unaudited' = unaudited \cup {u}
  BY DEF Missing
<1>2. u.op = op /\ u.by = by /\ u.how = how /\ (tables' = tables => ~u.changed)
  OBVIOUS
<1> HIDE DEF u
<1>3. ASSUME NEW x \in unaudited', x \notin unaudited
      PROVE  x.by \in Emails /\ Explained(x)'
  <2>1. x = u
    BY <1>1, <1>3
  <2> QED BY <1>2, <2>1 DEF Explained
<1> QED BY <1>3 DEF Trail

\* The middleware after a response.
LEMMA AuditEffect ==
  ASSUME TypeOK, NEW op \in Ops \cup {"create_profile", "delete_profile"}, NEW by \in Emails,
         legacy' = legacy, Audit(op, by)
  PROVE  Trail
<1>1. resolve_audit_action(op) /\ (audit_ctx(op) <=> op # "change")
  BY DEF resolve_audit_action, audit_ctx, Ops, Managing, Resetting
<1>2. CASE UNCHANGED <<unaudited, faults>>
  BY <1>2, NoTrail
<1>3. CASE Missing(op, by, "lost") /\ Fault
  BY <1>3, FaultEffect, MissingEffect
<1>4. CASE /\ op = "change" \/ ~Recorded(by)
           /\ Missing(op, by, "answered") /\ UNCHANGED faults
  <2>1. op = "change" \/ \A old \in legacy' : old.who # by
    BY <1>4 DEF Recorded
  <2>2. faults' \in 0..MaxFaults
    BY <1>4 DEF TypeOK
  <2> QED BY <1>4, <2>1, <2>2, MissingEffect
<1> QED BY <1>1, <1>2, <1>3, <1>4 DEF Audit

\* A request that raises, with the tables as they were.
LEMMA RaiseEffect ==
  ASSUME TypeOK, NEW op, NEW by \in Emails, SameTables, Missing(op, by, "raised"),
         UNCHANGED faults \/ Fault
  PROVE  Trail
<1>1. tables' = tables
  BY DEF SameTables, tables
<1>2. faults' \in 0..MaxFaults /\ (faults > 0 => faults' > 0)
  BY FaultEffect DEF TypeOK
<1> QED BY <1>1, <1>2, MissingEffect

\* LoadRow reads the row of an identity.
LEMMA LoadRowEffect ==
  ASSUME TypeOK, Calls, NEW r \in Requests, LoadRow(r)
  PROVE  /\ Calls' /\ OnlyOne(r) /\ Kept(r) /\ Concerns(r) /\ SameTables
         /\ req[r].op \in Resetting /\ req[r].pc = "read" /\ req'[r].pc = "loaded"
         /\ req'[r].writesMust = (ident[req[r].who].must # (req[r].op = "reset"))
         /\ req'[r].secret = (IF req[r].op = "reset" THEN mails + 1 ELSE 0)
         /\ mails' \in 0..MaxMails /\ req'[r].secret <= mails'
         /\ mailed' = mailed /\ begun' = begun /\ faults' = faults /\ session' = session
         /\ asked' = asked /\ raced' = raced /\ excused' = excused /\ unaudited' = unaudited
<1> DEFINE sec == IF req[r].op = "reset" THEN mails + 1 ELSE 0
<1> DEFINE x == [req[r] EXCEPT !.pc = "loaded", !.secret = sec, !.writesMust = WritesMust(r)]
<1>1. req[r] \in Call /\ Shape(req[r])
  BY DEF Calls
<1>2. req[r].pc = "read" /\ req[r].op \in Resetting
  BY DEF LoadRow, Resetting
<1>3. mails' = (IF req[r].op = "reset" THEN mails + 1 ELSE mails) /\ mails' <= MaxMails
  BY DEF LoadRow
<1>4. mails \in 0..MaxMails /\ MaxMails \in Nat
  BY Names DEF TypeOK
<1>5. WritesMust(r) \in BOOLEAN
  BY DEF WritesMust
<1>10. sec \in 0..MaxMails /\ sec <= mails' /\ (req[r].op = "reset" <=> sec # 0)
       /\ mails' \in 0..MaxMails
  BY <1>3, <1>4
<1>7. req' = [req EXCEPT ![r] = x] /\ session' = session
  BY <1>1 DEF LoadRow, Call, Calls
<1>11. sec = IF req[r].op = "reset" THEN mails + 1 ELSE 0
  OBVIOUS
<1> HIDE DEF sec
<1>6. /\ x \in Call /\ x.pc = "loaded" /\ x.writesMust = WritesMust(r) /\ x.secret = sec
      /\ x.op = req[r].op /\ x.by = req[r].by /\ x.acc = req[r].acc /\ x.who = req[r].who
      /\ x.fresh = req[r].fresh /\ x.role = req[r].role /\ x.active = req[r].active
      /\ x.profile = req[r].profile /\ x.new = req[r].new
  BY <1>1, <1>5, <1>10 DEF Call
<1> HIDE DEF x
<1>8. Shape(x)
  BY <1>1, <1>2, <1>6, <1>10 DEF Shape, Resetting, Managing
<1>9. Calls' /\ req'[r] = x /\ OnlyOne(r) /\ Kept(r) /\ Concerns(r)
  BY <1>6, <1>7, <1>8, Going
<1> QED BY <1>2, <1>6, <1>9, <1>10, <1>11 DEF LoadRow, WritesMust, tables, hist, past, SameTables

\* FlushRow takes the lock of the row.
LEMMA FlushRowEffect ==
  ASSUME TypeOK, Calls, NEW r \in Requests, FlushRow(r)
  PROVE  /\ Calls' /\ OnlyOne(r) /\ Kept(r) /\ Concerns(r) /\ SameTables
         /\ req[r].op \in Resetting /\ req[r].pc = "loaded"
         /\ req'[r].pc = (IF req[r].op = "reset" THEN "flushed" ELSE "sent")
         /\ req'[r].writesMust = req[r].writesMust /\ req'[r].secret = req[r].secret
         /\ \A q \in Requests : q # r => ~Holds(q, req[r].who, Resetting)
         /\ mails' = mails /\ mailed' = mailed /\ begun' = begun /\ faults' = faults
         /\ session' = session
         /\ asked' = asked /\ raced' = raced /\ excused' = excused /\ unaudited' = unaudited
<1> DEFINE x == [req[r] EXCEPT !.pc = IF req[r].op = "reset" THEN "flushed" ELSE "sent"]
<1>1. req[r] \in Call /\ Shape(req[r])
  BY DEF Calls
<1>2. req[r].pc = "loaded" /\ req[r].op \in Resetting
  BY <1>1 DEF FlushRow, Shape, Call, Ops
<1>6. /\ x \in Call /\ x.pc = (IF req[r].op = "reset" THEN "flushed" ELSE "sent")
      /\ x.writesMust = req[r].writesMust /\ x.secret = req[r].secret
      /\ x.op = req[r].op /\ x.by = req[r].by /\ x.acc = req[r].acc /\ x.who = req[r].who
      /\ x.fresh = req[r].fresh /\ x.role = req[r].role /\ x.active = req[r].active
      /\ x.profile = req[r].profile /\ x.new = req[r].new
  BY <1>1 DEF Call
<1>7. req' = [req EXCEPT ![r] = x] /\ session' = session
  BY <1>1 DEF FlushRow, Call, Calls
<1> HIDE DEF x
<1>8. Shape(x)
  BY <1>1, <1>2, <1>6 DEF Shape, Resetting, Managing
<1>9. Calls' /\ req'[r] = x /\ OnlyOne(r) /\ Kept(r) /\ Concerns(r)
  BY <1>6, <1>7, <1>8, Going
<1>10. \A q \in Requests : q # r => ~Holds(q, req[r].who, Resetting)
  BY DEF FlushRow, Locked, Resetting
<1> QED BY <1>2, <1>6, <1>9, <1>10 DEF FlushRow, tables, hist, past, SameTables

\* FlushAdd inserts the rows, or is refused by an index or a foreign key.
LEMMA FlushAddEffect ==
  ASSUME TypeOK, Calls, NEW r \in Requests, FlushAdd(r)
  PROVE  /\ Calls' /\ OnlyOne(r) /\ Concerns(r) /\ SameTables
         /\ req[r].op = "add" /\ req[r].pc = "read"
         /\ \A q \in Requests : q # r => ~Holds(q, req[r].who, {"add"})
         /\ \/ req'[r] = Idle
            \/ /\ Kept(r)
               /\ req'[r].pc = (IF req[r].fresh THEN "flushed" ELSE "sent")
               /\ req[r].fresh => ident[req[r].who] = None
               /\ Member(req[r].who, req[r].acc) = {}
               /\ ProfileOf(req[r].profile, req[r].acc)
         /\ mails' \in 0..MaxMails
         /\ mailed' = mailed /\ begun' = begun /\ session' = session
         /\ asked' = asked /\ raced' = raced /\ excused' = excused
         /\ Trail
<1> DEFINE sec == IF req[r].fresh THEN mails' ELSE 0
<1> DEFINE x == [req[r] EXCEPT !.pc = IF req[r].fresh THEN "flushed" ELSE "sent", !.secret = sec]
<1>1. req[r] \in Call /\ Shape(req[r]) /\ req[r].op = "add" /\ req[r].pc = "read"
      /\ req[r].by \in Emails
  BY DEF Calls, FlushAdd, At, Shape
<1>2. mails \in 0..MaxMails /\ MaxMails \in Nat
  BY Names DEF TypeOK
<1>3. /\ SameTables /\ session' = session /\ mailed' = mailed /\ begun' = begun
      /\ asked' = asked /\ raced' = raced /\ excused' = excused
      /\ \A q \in Requests : q # r => ~Holds(q, req[r].who, {"add"})
  BY DEF FlushAdd, tables, past, SameTables
<1>4. CASE (Raise(r) \/ Answer(r)) /\ mails' = mails
  <2>1. Calls' /\ req'[r] = Idle /\ OnlyOne(r) /\ Concerns(r)
    BY <1>3, <1>4, EndEffect DEF Answer, Raise
  <2>2. Trail
    BY <1>1, <1>3, <1>4, AuditEffect, RaiseEffect DEF Answer, Raise, SameTables, Ops
  <2> QED BY <1>1, <1>2, <1>3, <1>4, <2>1, <2>2
<1>5. CASE /\ ~((req[r].fresh /\ ident[req[r].who] # None) \/ Member(req[r].who, req[r].acc) # {}
                \/ ~ProfileOf(req[r].profile, req[r].acc))
           /\ mails' = (IF req[r].fresh THEN mails + 1 ELSE mails)
           /\ mails' <= MaxMails /\ unaudited' = unaudited
           /\ faults' = faults
           /\ req' = [req EXCEPT ![r].pc = IF req[r].fresh THEN "flushed" ELSE "sent",
                                 ![r].secret = IF req[r].fresh THEN mails' ELSE 0]
  <2>1. sec \in 0..MaxMails /\ (req[r].fresh <=> sec # 0) /\ mails' \in 0..MaxMails
    BY <1>1, <1>2, <1>5 DEF Call
  <2>2. req' = [req EXCEPT ![r] = x]
    BY <1>1, <1>5 DEF Call, Calls
  <2> HIDE DEF sec
  <2>3. /\ x \in Call /\ x.pc = (IF req[r].fresh THEN "flushed" ELSE "sent") /\ x.secret = sec
        /\ x.op = req[r].op /\ x.by = req[r].by /\ x.acc = req[r].acc /\ x.who = req[r].who
        /\ x.fresh = req[r].fresh /\ x.role = req[r].role /\ x.active = req[r].active
        /\ x.profile = req[r].profile /\ x.new = req[r].new
    BY <1>1, <2>1 DEF Call
  <2> HIDE DEF x
  <2>4. Shape(x)
    BY <1>1, <2>1, <2>3 DEF Shape, Resetting, Managing
  <2>5. Calls' /\ req'[r] = x /\ OnlyOne(r) /\ Kept(r) /\ Concerns(r)
    BY <1>3, <2>2, <2>3, <2>4, Going
  <2> QED BY <1>1, <1>3, <1>5, <2>1, <2>3, <2>5, NoTrail
<1> QED BY <1>4, <1>5 DEF FlushAdd

\* Mail sends the temporary password.
LEMMA MailEffect ==
  ASSUME TypeOK, Calls, NEW r \in Requests, Mail(r)
  PROVE  /\ Calls' /\ OnlyOne(r) /\ Kept(r) /\ Concerns(r) /\ SameTables
         /\ req[r].op \in {"add", "reset"} /\ req[r].pc = "flushed" /\ req'[r].pc = "sent"
         /\ req[r].who \in Emails
         /\ req'[r].writesMust = req[r].writesMust /\ req'[r].secret = req[r].secret
         /\ mailed' = [mailed EXCEPT ![req[r].who] = req[r].secret]
         /\ mailed' \in [Emails -> 0..MaxMails]
         /\ mails' = mails /\ begun' = begun /\ faults' = faults /\ session' = session
         /\ asked' = asked /\ raced' = raced /\ excused' = excused /\ unaudited' = unaudited
<1> DEFINE x == [req[r] EXCEPT !.pc = "sent"]
<1>1. req[r] \in Call /\ Shape(req[r])
  BY DEF Calls
<1>2. req[r].pc = "flushed" /\ req[r].op \in {"add", "reset"} /\ req[r].who \in Emails
  BY <1>1 DEF Mail, Shape, Call, Ops, Managing, Resetting
<1>6. /\ x \in Call /\ x.pc = "sent"
      /\ x.writesMust = req[r].writesMust /\ x.secret = req[r].secret
      /\ x.op = req[r].op /\ x.by = req[r].by /\ x.acc = req[r].acc /\ x.who = req[r].who
      /\ x.fresh = req[r].fresh /\ x.role = req[r].role /\ x.active = req[r].active
      /\ x.profile = req[r].profile /\ x.new = req[r].new
  BY <1>1 DEF Call
<1>7. req' = [req EXCEPT ![r] = x] /\ session' = session
  BY <1>1 DEF Mail, Call, Calls
<1> HIDE DEF x
<1>8. Shape(x)
  BY <1>1, <1>2, <1>6 DEF Shape, Resetting, Managing
<1>9. Calls' /\ req'[r] = x /\ OnlyOne(r) /\ Kept(r) /\ Concerns(r)
  BY <1>6, <1>7, <1>8, Going
<1>10. mailed' = [mailed EXCEPT ![req[r].who] = req[r].secret]
  BY DEF Mail
<1>11. mailed' \in [Emails -> 0..MaxMails]
  BY <1>1, <1>2, <1>10 DEF Call, TypeOK
<1> QED BY <1>2, <1>6, <1>9, <1>10, <1>11 DEF Mail, tables, hist, past, SameTables

\* CommitRow commits a password or a new membership.
LEMMA CommitRowEffect ==
  ASSUME TypeOK, Calls, NEW r \in Requests, CommitRow(r)
  PROVE  /\ Calls' /\ OnlyOne(r) /\ Concerns(r) /\ req'[r] = Idle /\ req[r].pc = "sent"
         /\ req[r].op \in Resetting \cup {"add"} /\ req[r].who \in Emails
         /\ \A i \in Emails : i # req[r].who => ident'[i] = ident[i]
         /\ req[r].op = "add" /\ req[r].fresh =>
              ident'[req[r].who] = [password |-> req[r].secret, must |-> TRUE]
         /\ req[r].op = "add" /\ ~req[r].fresh => ident'[req[r].who] = ident[req[r].who]
         /\ req[r].op \in Resetting =>
              ident'[req[r].who] = [password |-> req[r].secret,
                must |-> IF req[r].writesMust THEN req[r].op = "reset" ELSE ident[req[r].who].must]
         /\ req[r].op \in Resetting => members' = members
         /\ req[r].op = "add" => members' = members \cup
              {[who |-> req[r].who, acc |-> req[r].acc, role |-> req[r].role,
                active |-> TRUE, owner |-> FALSE, profile |-> req[r].profile]}
         /\ excused' = IF req[r].op = "change" THEN excused \cup {req[r].who}
                       ELSE IF req[r].secret # 0 THEN excused \ {req[r].who} ELSE excused
         /\ profile' = profile /\ legacy' = legacy
         /\ mails' = mails /\ begun' = begun /\ session' = session
         /\ mailed' = mailed /\ asked' = asked /\ raced' = raced /\ Trail
<1>1. req[r] \in Call /\ Shape(req[r]) /\ req[r].pc = "sent" /\ session' = session /\ Answer(r)
  BY DEF Calls, CommitRow
<1>2. req[r].op \in Resetting \cup {"add"} /\ req[r].who \in Emails
      /\ req[r].by \in Emails /\ req[r].op \in Ops
  BY <1>1 DEF Shape, Call, Ops, Managing, Resetting
<1>3. Calls' /\ req'[r] = Idle /\ OnlyOne(r) /\ Concerns(r)
  BY <1>1, EndEffect DEF Answer
<1>4. /\ \A i \in Emails : i # req[r].who => ident'[i] = ident[i]
      /\ req[r].op = "add" /\ req[r].fresh =>
           ident'[req[r].who] = [password |-> req[r].secret, must |-> TRUE]
      /\ req[r].op = "add" /\ ~req[r].fresh => ident'[req[r].who] = ident[req[r].who]
      /\ req[r].op \in Resetting =>
           ident'[req[r].who] = [password |-> req[r].secret,
             must |-> IF req[r].writesMust THEN req[r].op = "reset" ELSE ident[req[r].who].must]
  BY <1>2 DEF CommitRow, TypeOK, Resetting
<1>5. Trail
  BY <1>1, <1>2, AuditEffect DEF CommitRow, Answer
<1> QED BY <1>1, <1>2, <1>3, <1>4, <1>5 DEF CommitRow, Resetting

\* Fails rolls a request back.
LEMMA FailsEffect ==
  ASSUME TypeOK, Calls, NEW r \in Requests, Fails(r)
  PROVE  /\ Calls' /\ OnlyOne(r) /\ Concerns(r) /\ SameTables /\ req'[r] = Idle
         /\ req[r].pc # "idle" /\ (req[r].pc = "sent" => req[r].who \in Emails)
         /\ excused' = IF req[r].pc = "sent" THEN excused \cup {req[r].who} ELSE excused
         /\ mails' = mails /\ begun' = begun /\ session' = session
         /\ mailed' = mailed /\ asked' = asked /\ raced' = raced /\ Trail
<1>1. req[r] \in Call /\ Shape(req[r]) /\ session' = session /\ Ends(r)
      /\ req[r].pc # "idle" /\ SameTables
  BY DEF Calls, Fails, tables, SameTables
<1>2. (req[r].pc = "sent" => req[r].who \in Emails) /\ req[r].by \in Emails
  BY <1>1 DEF Shape, Call, Ops, Managing, Resetting
<1>3. Calls' /\ req'[r] = Idle /\ OnlyOne(r) /\ Concerns(r)
  BY <1>1, EndEffect
<1>4. Trail
  BY <1>1, <1>2, RaiseEffect DEF Fails
<1> QED BY <1>1, <1>2, <1>3, <1>4 DEF Fails, tables, SameTables

\* DeletePerms deletes the permissions it sees.
LEMMA DeletePermsEffect ==
  ASSUME TypeOK, Calls, NEW r \in Requests, DeletePerms(r)
  PROVE  /\ Calls' /\ OnlyOne(r) /\ Concerns(r) /\ SameTables
         /\ req[r].op = "profile" /\ req[r].pc = "read" /\ req[r].profile \in Profiles
         /\ \/ req'[r] = Idle /\ profile[req[r].profile] = None
            \/ /\ Kept(r) /\ req'[r].pc = "deleted" /\ profile[req[r].profile] # None
               /\ req'[r].seen = profile[req[r].profile].perms
         /\ mails' = mails /\ mailed' = mailed /\ begun' = begun
         /\ session' = session /\ asked' = asked /\ raced' = raced /\ excused' = excused
         /\ Trail
<1> DEFINE x == [req[r] EXCEPT !.pc = "deleted", !.seen = Deletes(req[r].profile)]
<1>1. req[r] \in Call /\ Shape(req[r]) /\ req[r].op = "profile" /\ req[r].pc = "read"
      /\ req[r].profile \in Profiles /\ req[r].by \in Emails
  BY DEF Calls, DeletePerms, At, Shape
<1>3. /\ SameTables /\ session' = session /\ mailed' = mailed /\ begun' = begun
      /\ asked' = asked /\ raced' = raced /\ excused' = excused
      /\ mails' = mails
  BY DEF DeletePerms, tables, past, SameTables
<1>4. CASE profile[req[r].profile] = None /\ (Answer(r) \/ Raise(r))
  <2>1. Calls' /\ req'[r] = Idle /\ OnlyOne(r) /\ Concerns(r)
    BY <1>3, <1>4, EndEffect DEF Answer, Raise
  <2>2. Trail
    BY <1>1, <1>3, <1>4, AuditEffect, RaiseEffect DEF Answer, Raise, SameTables, Ops
  <2> QED BY <1>1, <1>3, <1>4, <2>1, <2>2
<1>5. CASE /\ profile[req[r].profile] # None /\ unaudited' = unaudited /\ faults' = faults
           /\ req' = [req EXCEPT ![r].pc = "deleted", ![r].seen = Deletes(req[r].profile)]
  <2>1. Deletes(req[r].profile) \in SUBSET Keys
        /\ Deletes(req[r].profile) = profile[req[r].profile].perms
    BY <1>1, <1>5 DEF TypeOK, Profile, Deletes
  <2>2. req' = [req EXCEPT ![r] = x]
    BY <1>1, <1>5 DEF Call, Calls
  <2>3. /\ x \in Call /\ x.pc = "deleted" /\ x.seen = Deletes(req[r].profile)
        /\ x.writesMust = req[r].writesMust /\ x.secret = req[r].secret
        /\ x.op = req[r].op /\ x.by = req[r].by /\ x.acc = req[r].acc /\ x.who = req[r].who
        /\ x.fresh = req[r].fresh /\ x.role = req[r].role /\ x.active = req[r].active
        /\ x.profile = req[r].profile /\ x.new = req[r].new
    BY <1>1, <2>1 DEF Call
  <2> HIDE DEF x
  <2>4. Shape(x)
    BY <1>1, <2>3 DEF Shape, Resetting, Managing
  <2>5. Calls' /\ req'[r] = x /\ OnlyOne(r) /\ Kept(r) /\ Concerns(r)
    BY <1>3, <2>2, <2>3, <2>4, Going
  <2> QED BY <1>1, <1>3, <1>5, <2>1, <2>3, <2>5, NoTrail
<1> QED BY <1>4, <1>5 DEF DeletePerms

\* What an update of profile p leaves of the permissions it has not seen.
Rest(r) == profile[req[r].profile].perms \ req[r].seen

\* CommitProfile gives the profile its new permissions, unless a key is there already.
LEMMA CommitProfileEffect ==
  ASSUME TypeOK, Calls, NEW r \in Requests, CommitProfile(r)
  PROVE  /\ Calls' /\ Concerns(r) /\ req'[r] = Idle
         /\ At(r, "profile", "deleted") /\ req[r].profile \in Profiles
         /\ \/ profile' = profile /\ OnlyOne(r)
            \/ /\ profile[req[r].profile] # None /\ Rest(r) \cap req[r].new = {}
               /\ profile' = [profile EXCEPT ![req[r].profile].perms = Rest(r) \cup req[r].new]
               /\ \A q \in Requests : q # r =>
                    req'[q].seen = IF At(q, "profile", "deleted") /\ req[q].profile = req[r].profile
                                     THEN req[q].seen \cap Rest(r) ELSE req[q].seen
         /\ ident' = ident /\ members' = members /\ legacy' = legacy
         /\ mails' = mails /\ mailed' = mailed /\ begun' = begun
         /\ session' = session /\ asked' = asked /\ raced' = raced /\ excused' = excused
         /\ Trail
<1>1. req[r] \in Call /\ Shape(req[r]) /\ At(r, "profile", "deleted") /\ req[r].profile \in Profiles
      /\ req[r].op = "profile" /\ req[r].by \in Emails
  BY DEF Calls, CommitProfile, At, Shape
<1>3. /\ ident' = ident /\ members' = members /\ legacy' = legacy /\ session' = session
      /\ mailed' = mailed /\ begun' = begun /\ asked' = asked
      /\ raced' = raced /\ excused' = excused /\ mails' = mails
  BY DEF CommitProfile, past
<1>4. CASE profile' = profile /\ Raise(r)
  <2>1. Calls' /\ req'[r] = Idle /\ OnlyOne(r) /\ Concerns(r)
    BY <1>3, <1>4, EndEffect DEF Raise
  <2>2. Trail
    BY <1>1, <1>3, <1>4, RaiseEffect DEF Raise, SameTables
  <2> QED BY <1>1, <1>3, <1>4, <2>1, <2>2
<1>5. CASE /\ profile[req[r].profile] # None /\ Rest(r) \cap req[r].new = {}
           /\ profile' = [profile EXCEPT ![req[r].profile].perms = Rest(r) \cup req[r].new]
           /\ req' = [o \in Requests |->
                IF o = r THEN Idle
                ELSE IF At(o, "profile", "deleted") /\ req[o].profile = req[r].profile
                  THEN [req[o] EXCEPT !.seen = @ \cap Rest(r)] ELSE req[o]]
           /\ Audit(req[r].op, req[r].by)
  <2>1. ASSUME NEW q \in Requests, q # r
        PROVE  /\ req'[q] \in Call /\ Shape(req'[q]) /\ Stays(q)
               /\ req'[q].seen = IF At(q, "profile", "deleted") /\ req[q].profile = req[r].profile
                                   THEN req[q].seen \cap Rest(r) ELSE req[q].seen
    <3> DEFINE y == [req[q] EXCEPT !.seen = @ \cap Rest(r)]
    <3>1. req[q] \in Call /\ Shape(req[q])
      BY DEF Calls
    <3>2. /\ y \in Call /\ y.pc = req[q].pc /\ y.seen = req[q].seen \cap Rest(r)
          /\ y.writesMust = req[q].writesMust /\ y.secret = req[q].secret
          /\ y.op = req[q].op /\ y.by = req[q].by /\ y.acc = req[q].acc /\ y.who = req[q].who
          /\ y.fresh = req[q].fresh /\ y.role = req[q].role /\ y.active = req[q].active
          /\ y.profile = req[q].profile /\ y.new = req[q].new
      BY <3>1 DEF Call
    <3>3. req'[q] = IF At(q, "profile", "deleted") /\ req[q].profile = req[r].profile
                      THEN y ELSE req[q]
      BY <1>5, <2>1
    <3> HIDE DEF y
    <3>4. Shape(y)
      BY <3>1, <3>2 DEF Shape
    <3> QED BY <3>1, <3>2, <3>3, <3>4 DEF Stays, Kept
  <2>2. req'[r] = Idle /\ DOMAIN req' = Requests /\ req' = [o \in Requests |-> req'[o]]
    BY <1>5
  <2> HIDE DEF Idle
  <2>3. \A q \in Requests : req'[q] \in Call /\ Shape(req'[q])
    BY <2>1, <2>2, IdleCall
  <2>4. Calls'
    BY <1>3, <2>2, <2>3 DEF Calls, TokensName
  <2>5. Concerns(r)
    BY <2>1, <2>2 DEF Concerns
  <2>6. Trail
    BY <1>1, <1>3, <1>5, AuditEffect DEF Ops
  <2> QED BY <1>1, <1>3, <1>5, <2>1, <2>2, <2>4, <2>5, <2>6
<1> QED BY <1>4, <1>5 DEF CommitProfile, Rest

\* CommitUpdate writes a membership.
LEMMA CommitUpdateEffect ==
  ASSUME TypeOK, Calls, NEW r \in Requests, CommitUpdate(r)
  PROVE  /\ Calls' /\ OnlyOne(r) /\ Concerns(r) /\ req'[r] = Idle
         /\ req[r].op = "update" /\ req[r].acc \in Accounts /\ req[r].who \in Emails
         /\ req[r].role \in Roles /\ req[r].active \in BOOLEAN
         /\ req[r].profile \in Profiles \cup {None}
         /\ \/ members' = members
            \/ /\ ProfileOf(req[r].profile, req[r].acc)
               /\ members' = {IF m.who = req[r].who /\ m.acc = req[r].acc
                                THEN [m EXCEPT !.role = req[r].role, !.active = req[r].active,
                                               !.profile = req[r].profile]
                                ELSE m : m \in members}
         /\ ident' = ident /\ profile' = profile /\ legacy' = legacy
         /\ mails' = mails /\ mailed' = mailed /\ begun' = begun
         /\ session' = session /\ asked' = asked /\ raced' = raced /\ excused' = excused
         /\ Trail
<1>1. req[r] \in Call /\ Shape(req[r]) /\ req[r].op = "update" /\ session' = session /\ Ends(r)
      /\ req[r].by \in Emails /\ req[r].op \in Ops /\ legacy' = legacy
  BY DEF Calls, CommitUpdate, At, Answer, Raise, Shape, Ops, Managing
<1>2. Calls' /\ req'[r] = Idle /\ OnlyOne(r) /\ Concerns(r)
  BY <1>1, EndEffect
<1>3. /\ req[r].acc \in Accounts /\ req[r].who \in Emails /\ req[r].role \in Roles
      /\ req[r].active \in BOOLEAN /\ req[r].profile \in Profiles \cup {None}
  BY <1>1 DEF Shape, Managing, Call
<1>4. Trail
  <2>1. CASE Answer(r)
    BY <1>1, <2>1, AuditEffect DEF Answer
  <2>2. CASE Raise(r) /\ members' = members
    BY <1>1, <2>2, RaiseEffect DEF Raise, SameTables, CommitUpdate
  <2> QED BY <2>1, <2>2 DEF CommitUpdate
<1> QED BY <1>1, <1>2, <1>3, <1>4 DEF CommitUpdate, past

\* CommitDelete deletes a membership.
LEMMA CommitDeleteEffect ==
  ASSUME TypeOK, Calls, NEW r \in Requests, CommitDelete(r)
  PROVE  /\ Calls' /\ OnlyOne(r) /\ Concerns(r) /\ req'[r] = Idle
         /\ req[r].op = "delete" /\ req[r].acc \in Accounts /\ req[r].who \in Emails
         /\ members' = members \ Member(req[r].who, req[r].acc)
         /\ ident' = ident /\ profile' = profile /\ legacy' = legacy
         /\ mails' = mails /\ mailed' = mailed /\ begun' = begun
         /\ session' = session /\ asked' = asked /\ raced' = raced /\ excused' = excused
         /\ Trail
<1>1. req[r] \in Call /\ Shape(req[r]) /\ req[r].op = "delete" /\ session' = session /\ Ends(r)
      /\ req[r].by \in Emails /\ req[r].op \in Ops /\ legacy' = legacy
  BY DEF Calls, CommitDelete, At, Answer, Raise, Shape, Ops, Managing
<1>2. Calls' /\ req'[r] = Idle /\ OnlyOne(r) /\ Concerns(r)
  BY <1>1, EndEffect
<1>3. req[r].acc \in Accounts /\ req[r].who \in Emails
  BY <1>1 DEF Shape, Managing
<1>4. Trail
  <2>1. CASE Answer(r)
    BY <1>1, <2>1, AuditEffect DEF Answer
  <2>2. CASE Raise(r) /\ Member(req[r].who, req[r].acc) = {}
    <3>1. members' = members
      BY <2>2 DEF CommitDelete
    <3> QED BY <1>1, <2>2, <3>1, RaiseEffect DEF Raise, SameTables, CommitDelete
  <2> QED BY <2>1, <2>2 DEF CommitDelete
<1> QED BY <1>1, <1>2, <1>3, <1>4 DEF CommitDelete, past

-----------------------------------------------------------------------------
(* Requests that begin, sessions and profiles *)

\* A new request: nothing is written yet.
Begun(r) ==
  /\ Calls' /\ OnlyOne(r) /\ SameTables
  /\ req[r].op = "idle" /\ req'[r].pc = "read" /\ Thing(req'[r]) # None
  /\ raced \subseteq raced'
  /\ \A q \in Requests : Thing(req[q]) = Thing(req'[r]) => Thing(req'[r]) \in raced'
  /\ begun' \in 0..MaxRequests /\ mails' = mails /\ mailed' = mailed /\ faults' = faults
  /\ session' = session /\ excused' = excused /\ unaudited' = unaudited

\* Begin puts the request in its place.
LEMMA BeginEffect ==
  ASSUME TypeOK, Calls, NEW r \in Requests, NEW x \in Call, Shape(x), x.op # "idle",
         x.pc = "read", Begin(r, x)
  PROVE  Begun(r) /\ req'[r] = x
<1>1. req[r] \in Call /\ Shape(req[r]) /\ req[r].op = "idle" /\ session' = session
  BY DEF Calls, Begin, Shape
<1>2. Calls' /\ req'[r] = x /\ OnlyOne(r)
  BY <1>1, CallWritten DEF Begin
<1>3. Thing(x) # None
  BY ThingSome
<1>4. begun' \in 0..MaxRequests
  BY Names DEF Begin, TypeOK
<1>5. /\ raced \subseteq raced'
      /\ \A q \in Requests : Thing(req[q]) = Thing(x) => Thing(x) \in raced'
  BY <1>3 DEF Begin
<1> HIDE DEF Calls
<1> QED BY <1>1, <1>2, <1>3, <1>4, <1>5 DEF Begun, Begin, tables, SameTables

\* A member that is not the owner, and where it is the last active admin not one to be taken.
Chosen(r) == \E m \in members :
  /\ m.who = req'[r].who /\ m.acc = req'[r].acc /\ ~m.owner
  /\ m.role = "admin" /\ Takes(req'[r], m.acc) => ~(Cardinality(ActiveAdmins(m.acc)) <= 1)

\* BeginUpdate chooses a member to change.
LEMMA BeginUpdateEffect ==
  ASSUME TypeOK, Calls, NEW r \in Requests, NEW i \in Emails, NEW who \in Emails,
         BeginUpdate(r, i, who)
  PROVE  Begun(r) /\ asked' = asked /\ req'[r].op = "update" /\ Chosen(r)
<1>1. PICK m \in Manageable(who, session[i].acc), c \in Changes :
        /\ ~LastAdmin(m, c.role # "admin" \/ ~c.active)
        /\ Begin(r, [Idle EXCEPT !.op = "update", !.pc = "read", !.by = i, !.acc = m.acc,
                       !.who = who, !.role = c.role, !.active = c.active,
                       !.profile = c.profile])
  BY DEF BeginUpdate
<1> DEFINE x == [Idle EXCEPT !.op = "update", !.pc = "read", !.by = i, !.acc = m.acc,
                       !.who = who, !.role = c.role, !.active = c.active,
                       !.profile = c.profile]
<1>2. m \in members /\ m.who = who /\ ~m.owner /\ m \in Membership
  BY DEF Manageable, Member, TypeOK
<1>3. m.acc \in Accounts
  BY <1>2 DEF Membership
<1>4. c.role \in Roles /\ c.active \in BOOLEAN /\ c.profile \in Profiles \cup {None}
  BY ChangesAssumption
<1>5. /\ x.op = "update" /\ x.pc = "read" /\ x.by = i /\ x.acc = m.acc /\ x.who = who
      /\ x.role = c.role /\ x.active = c.active /\ x.profile = c.profile /\ x.fresh = FALSE
      /\ x \in Call
  BY <1>3, <1>4, IdleCall DEF Idle, Call, Ops, Managing, Resetting
<1>6. Begin(r, x)
  BY <1>1
<1> HIDE DEF x
<1>7. Shape(x)
  BY <1>3, <1>4, <1>5 DEF Shape, Managing, Resetting
<1>8. Begun(r) /\ req'[r] = x
  BY <1>5, <1>6, <1>7, BeginEffect
<1>9. Chosen(r)
  BY <1>1, <1>2, <1>5, <1>8 DEF Chosen, Takes, LastAdmin
<1> QED BY <1>5, <1>8, <1>9 DEF BeginUpdate

\* BeginDelete chooses a member to delete.
LEMMA BeginDeleteEffect ==
  ASSUME TypeOK, Calls, NEW r \in Requests, NEW i \in Emails, NEW who \in Emails,
         BeginDelete(r, i, who)
  PROVE  Begun(r) /\ asked' = asked /\ req'[r].op = "delete" /\ Chosen(r)
<1>1. PICK m \in Manageable(who, session[i].acc) :
        /\ ~LastAdmin(m, TRUE)
        /\ Begin(r, [Idle EXCEPT !.op = "delete", !.pc = "read", !.by = i, !.acc = m.acc,
                       !.who = who])
  BY DEF BeginDelete
<1> DEFINE x == [Idle EXCEPT !.op = "delete", !.pc = "read", !.by = i, !.acc = m.acc,
                       !.who = who]
<1>2. m \in members /\ m.who = who /\ ~m.owner /\ m \in Membership
  BY DEF Manageable, Member, TypeOK
<1>3. m.acc \in Accounts
  BY <1>2 DEF Membership
<1>5. /\ x.op = "delete" /\ x.pc = "read" /\ x.by = i /\ x.acc = m.acc /\ x.who = who
      /\ x.fresh = FALSE /\ x \in Call
  BY <1>3, IdleCall DEF Idle, Call, Ops, Managing, Resetting
<1>6. Begin(r, x)
  BY <1>1
<1> HIDE DEF x
<1>7. Shape(x)
  BY <1>3, <1>5 DEF Shape, Managing, Resetting
<1>8. Begun(r) /\ req'[r] = x
  BY <1>5, <1>6, <1>7, BeginEffect
<1>9. Chosen(r)
  BY <1>1, <1>2, <1>5, <1>8 DEF Chosen, Takes, LastAdmin
<1> QED BY <1>5, <1>8, <1>9 DEF BeginDelete

\* BeginAdd looks the address up.
LEMMA BeginAddEffect ==
  ASSUME TypeOK, Calls, NEW r \in Requests, NEW i \in Emails, NEW typed \in Emails,
         BeginAdd(r, i, typed)
  PROVE  /\ Begun(r) /\ asked' = asked /\ req'[r].op = "add" /\ req'[r].who \in Emails
         /\ ~req'[r].fresh => ident[req'[r].who] # None
         /\ req'[r].fresh =>
              \A j \in Emails : Lower(j) = Lower(req'[r].who) => ident[j] = None
<1> DEFINE found == IF Matches(typed) = {} THEN typed ELSE CHOOSE j \in Matches(typed) : TRUE
<1>1. PICK c \in Changes :
        Begin(r, [Idle EXCEPT !.op = "add", !.pc = "read", !.by = i, !.acc = session[i].acc,
                    !.who = found, !.fresh = ident[found] = None, !.role = c.role,
                    !.profile = c.profile])
  BY DEF BeginAdd
<1>2. found \in Emails /\ (Matches(typed) # {} => found \in Matches(typed))
  BY DEF Matches
<1>3. session[i].acc \in Accounts
  BY DEF BeginAdd, Allowed, Calls, TokensName
<1>4. c.role \in Roles /\ c.profile \in Profiles \cup {None}
  BY ChangesAssumption
<1>5. ident[found] # None \/ \A j \in Emails : Lower(j) = Lower(found) => ident[j] = None
  BY <1>2 DEF Matches
<1> HIDE DEF found
<1> DEFINE x == [Idle EXCEPT !.op = "add", !.pc = "read", !.by = i, !.acc = session[i].acc,
                    !.who = found, !.fresh = ident[found] = None, !.role = c.role,
                    !.profile = c.profile]
<1>6. /\ x.op = "add" /\ x.pc = "read" /\ x.by = i /\ x.acc = session[i].acc
      /\ x.who = found /\ x.role = c.role /\ x.fresh = (ident[found] = None)
      /\ x.secret = 0 /\ x \in Call
  BY <1>2, <1>3, <1>4, IdleCall DEF Idle, Call, Ops, Managing, Resetting
<1>7. Begin(r, x)
  BY <1>1
<1> HIDE DEF x
<1>8. Shape(x)
  BY <1>2, <1>3, <1>4, <1>6 DEF Shape, Managing, Resetting
<1>9. Begun(r) /\ req'[r] = x
  BY <1>6, <1>7, <1>8, BeginEffect
<1> QED BY <1>2, <1>5, <1>6, <1>9 DEF BeginAdd

\* BeginReset finds the member whose password is to be replaced.
LEMMA BeginResetEffect ==
  ASSUME TypeOK, Calls, NEW r \in Requests, NEW i \in Emails, NEW who \in Emails,
         BeginReset(r, i, who)
  PROVE  /\ Begun(r) /\ asked' = asked /\ req'[r].op = "reset"
         /\ \E m \in members : m.who = req'[r].who
<1> DEFINE x == [Idle EXCEPT !.op = "reset", !.pc = "read", !.by = i, !.who = who]
<1>1. \E m \in members : m.who = who
  BY DEF BeginReset, Manageable, Member
<1>2. /\ x.op = "reset" /\ x.pc = "read" /\ x.by = i /\ x.who = who /\ x \in Call
  BY IdleCall DEF Idle, Call, Ops, Managing, Resetting
<1>3. Begin(r, x)
  BY DEF BeginReset
<1> HIDE DEF x
<1>4. Shape(x)
  BY <1>2 DEF Shape, Managing, Resetting
<1>5. Begun(r) /\ req'[r] = x
  BY <1>2, <1>3, <1>4, BeginEffect
<1> QED BY <1>1, <1>2, <1>5 DEF BeginReset

\* BeginChange is for one's own password.
LEMMA BeginChangeEffect ==
  ASSUME TypeOK, Calls, NEW r \in Requests, NEW i \in Emails, BeginChange(r, i)
  PROVE  /\ Begun(r) /\ asked' = asked /\ req'[r].op = "change" /\ ident[req'[r].who] # None
<1> DEFINE x == [Idle EXCEPT !.op = "change", !.pc = "read", !.by = i, !.who = i]
<1>2. /\ x.op = "change" /\ x.pc = "read" /\ x.by = i /\ x.who = i /\ x.secret = 0 /\ x \in Call
  BY IdleCall DEF Idle, Call, Ops, Managing, Resetting
<1>3. Begin(r, x)
  BY DEF BeginChange
<1> HIDE DEF x
<1>4. Shape(x)
  BY <1>2 DEF Shape, Managing, Resetting
<1>5. Begun(r) /\ req'[r] = x
  BY <1>2, <1>3, <1>4, BeginEffect
<1> QED BY <1>2, <1>5 DEF BeginChange

\* BeginProfile asks for other permissions of a profile.
LEMMA BeginProfileEffect ==
  ASSUME TypeOK, Calls, NEW r \in Requests, NEW i \in Emails, NEW p \in Profiles,
         NEW perms \in Grants, BeginProfile(r, i, p, perms)
  PROVE  /\ Begun(r) /\ req'[r].op = "profile" /\ req'[r].profile = p /\ req'[r].new = perms
         /\ profile[p] # None /\ asked' = [asked EXCEPT ![p] = @ \cup {perms}]
         /\ asked' \in [Profiles -> SUBSET SUBSET Keys]
<1> DEFINE x == [Idle EXCEPT !.op = "profile", !.pc = "read", !.by = i, !.profile = p,
                   !.new = perms]
<1>1. perms \in SUBSET Keys
  BY KeysAssumption
<1>2. /\ x.op = "profile" /\ x.pc = "read" /\ x.by = i /\ x.profile = p /\ x.new = perms
      /\ x \in Call
  BY <1>1, IdleCall DEF Idle, Call, Ops, Managing, Resetting
<1>3. Begin(r, x)
  BY DEF BeginProfile
<1> HIDE DEF x
<1>4. Shape(x)
  BY <1>2 DEF Shape, Managing, Resetting
<1>5. Begun(r) /\ req'[r] = x
  BY <1>2, <1>3, <1>4, BeginEffect
<1>6. asked' = [asked EXCEPT ![p] = @ \cup {perms}] /\ profile[p] # None
  BY DEF BeginProfile, Ask, Editable
<1>7. asked' \in [Profiles -> SUBSET SUBSET Keys]
  BY <1>1, <1>6 DEF TypeOK
<1> QED BY <1>2, <1>5, <1>6, <1>7

\* A step of the sessions, or a request for a profile that comes to nothing.
Aside(i) == \/ Login(i) \/ SelectAccount(i) \/ SwitchAccount(i) \/ Logout(i)
            \/ \E p \in Profiles : ProfileRaises(i, p)

\* A session's step gives it a token of one of the person's accounts, or none.
LEMMA AsideEffect ==
  ASSUME TypeOK, Calls, NEW i \in Emails, Aside(i)
  PROVE  /\ session' \in [Emails -> Session \cup {None}] /\ Calls'
         /\ SameTables /\ req' = req /\ mailed' = mailed /\ mails' = mails
         /\ asked' = asked /\ raced' = raced /\ excused' = excused
         /\ begun' \in 0..MaxRequests /\ Trail
<1>1. CASE \E p \in Profiles : ProfileRaises(i, p)
  <2>1. PICK p \in Profiles : ProfileRaises(i, p)
    BY <1>1
  <2>2. SameTables /\ session' = session /\ req' = req /\ UNCHANGED past
    BY <2>1 DEF ProfileRaises, SameTables, tables
  <2>3. Trail
    BY <2>1, <2>2, RaiseEffect DEF ProfileRaises
  <2>4. begun' \in 0..MaxRequests
    BY <2>1, Names DEF ProfileRaises, TypeOK
  <2>5. Calls'
    BY <2>2 DEF Calls, TokensName
  <2> QED BY <2>1, <2>2, <2>3, <2>4, <2>5 DEF ProfileRaises, past, TypeOK
<1>2. CASE \E token : SetCookie(i, token) /\ (token \in {None, PreAuthToken} \/
                                             \E m \in members : token = FullToken(m))
  <2>1. PICK token : SetCookie(i, token) /\ (token \in {None, PreAuthToken} \/
                                             \E m \in members : token = FullToken(m))
    BY <1>2
  <2>2. token # None => /\ token \in Session
                        /\ token.scope = "full" => token.acc \in Accounts
    BY <2>1, Names DEF PreAuthToken, FullToken, Session, TypeOK, Membership
  <2>3. session' = [session EXCEPT ![i] = token]
    BY <2>1 DEF SetCookie
  <2>4. session' \in [Emails -> Session \cup {None}] /\ session'[i] = token
    BY <2>2, <2>3 DEF TypeOK
  <2>5. TokensName' /\ req' = req
    BY <2>1, <2>2, <2>3, <2>4 DEF TokensName, Calls, SetCookie, TypeOK
  <2>6. Trail
    BY <2>1, NoTrail DEF SetCookie, hist
  <2> QED BY <2>1, <2>4, <2>5, <2>6 DEF SetCookie, tables, hist, past, SameTables, Calls, TypeOK
<1> QED BY <1>1, <1>2 DEF Aside, Login, SelectAccount, SwitchAccount, Logout, EmitForAccount, Views

\* CreateProfile takes an id that was never used.
LEMMA CreateProfileEffect ==
  ASSUME TypeOK, Calls, NEW i \in Emails, NEW p \in Profiles, NEW perms \in Grants,
         CreateProfile(i, p, perms)
  PROVE  /\ asked[p] = {} /\ asked' = [asked EXCEPT ![p] = {perms}]
         /\ profile' = [profile EXCEPT ![p] = [acc |-> DefaultAccount, system |-> FALSE,
                                               perms |-> perms]]
         /\ asked' \in [Profiles -> SUBSET SUBSET Keys]
         /\ profile' \in [Profiles -> Profile \cup {None}]
         /\ begun' \in 0..MaxRequests /\ Calls'
         /\ ident' = ident /\ members' = members /\ legacy' = legacy /\ req' = req
         /\ mails' = mails /\ mailed' = mailed /\ session' = session
         /\ raced' = raced /\ excused' = excused /\ Trail
<1>1. perms \in SUBSET Keys
  BY KeysAssumption
<1>2. asked[p] = {} /\ asked' = [asked EXCEPT ![p] = {perms}]
  BY DEF CreateProfile, Ask
<1>3. asked' \in [Profiles -> SUBSET SUBSET Keys]
  BY <1>1, <1>2 DEF TypeOK
<1>4. profile' \in [Profiles -> Profile \cup {None}]
  BY <1>1, Names DEF CreateProfile, Profile, TypeOK
<1>5. begun' \in 0..MaxRequests
  BY Names DEF CreateProfile, TypeOK
<1>6. Calls'
  BY DEF CreateProfile, Calls, TokensName
<1>7. Trail
  BY AuditEffect DEF CreateProfile
<1> QED BY <1>7, <1>2, <1>3, <1>4, <1>5, <1>6 DEF CreateProfile

\* DeleteProfile deletes one that no membership names.
LEMMA DeleteProfileEffect ==
  ASSUME TypeOK, Calls, NEW i \in Emails, NEW p \in Profiles, DeleteProfile(i, p)
  PROVE  /\ \A m \in members : m.profile # p
         /\ \A r \in Requests : ~(req[r].profile = p /\ req[r].pc \in {"flushed", "sent"})
         /\ profile' = [profile EXCEPT ![p] = None]
         /\ profile' \in [Profiles -> Profile \cup {None}]
         /\ begun' \in 0..MaxRequests /\ Calls'
         /\ ident' = ident /\ members' = members /\ legacy' = legacy /\ req' = req
         /\ mails' = mails /\ mailed' = mailed /\ session' = session
         /\ asked' = asked /\ raced' = raced /\ excused' = excused /\ Trail
<1>1. profile' = [profile EXCEPT ![p] = None]
  BY DEF DeleteProfile
<1>2. profile' \in [Profiles -> Profile \cup {None}]
  BY <1>1 DEF TypeOK
<1>5. begun' \in 0..MaxRequests
  BY Names DEF DeleteProfile, TypeOK
<1>6. Calls'
  BY DEF DeleteProfile, Calls, TokensName
<1>7. Trail
  BY AuditEffect DEF DeleteProfile
<1> QED BY <1>7, <1>1, <1>2, <1>5, <1>6 DEF DeleteProfile, past

-----------------------------------------------------------------------------
(* Requests in progress *)

\* A request goes on or ends; none begins.
Carried == \A q \in Requests : Kept(q) \/ req'[q] = Idle

\* Every step of a handler carries the requests.
LEMMA HandleCarries ==
  ASSUME TypeOK, Calls, NEW r \in Requests, Handle(r)
  PROVE  /\ Calls' /\ Concerns(r) /\ Carried /\ raced' = raced /\ legacy' = legacy
         /\ asked' = asked /\ session' = session /\ begun' = begun
         /\ Trail
         /\ \A i \in Emails : ident[i] # None => ident'[i] # None
<1> DEFINE Goal == /\ Calls' /\ Concerns(r) /\ raced' = raced /\ legacy' = legacy
                   /\ asked' = asked /\ session' = session /\ begun' = begun
                   /\ Trail
                   /\ \A i \in Emails : ident[i] # None => ident'[i] # None
<1>1. ASSUME CommitUpdate(r) PROVE Goal
  BY <1>1, CommitUpdateEffect
<1>2. ASSUME CommitDelete(r) PROVE Goal
  BY <1>2, CommitDeleteEffect
<1>3. ASSUME LoadRow(r) PROVE Goal
  BY <1>3, LoadRowEffect, NoTrail DEF SameTables
<1>4. ASSUME FlushRow(r) PROVE Goal
  BY <1>4, FlushRowEffect, NoTrail DEF SameTables
<1>5. ASSUME FlushAdd(r) PROVE Goal
  BY <1>5, FlushAddEffect DEF SameTables
<1>6. ASSUME Mail(r) PROVE Goal
  BY <1>6, MailEffect, NoTrail DEF SameTables
<1>7. ASSUME CommitRow(r) PROVE Goal
  <2>1. req[r].op \in Resetting \cup {"add"} /\ req[r].who \in Emails /\ req[r] \in Call
        /\ Calls' /\ Concerns(r) /\ raced' = raced /\ legacy' = legacy
        /\ asked' = asked /\ session' = session /\ begun' = begun /\ Trail
    BY <1>7, CommitRowEffect DEF Calls
  <2>2. /\ \A i \in Emails : i # req[r].who => ident'[i] = ident[i]
        /\ req[r].op = "add" /\ req[r].fresh =>
             ident'[req[r].who] = [password |-> req[r].secret, must |-> TRUE]
        /\ req[r].op = "add" /\ ~req[r].fresh => ident'[req[r].who] = ident[req[r].who]
        /\ req[r].op \in Resetting =>
             ident'[req[r].who] = [password |-> req[r].secret,
               must |-> IF req[r].writesMust THEN req[r].op = "reset" ELSE ident[req[r].who].must]
    BY <1>7, CommitRowEffect
  <2>3. ASSUME ident[req[r].who] # None PROVE ident'[req[r].who] # None
    <3>1. req[r].secret \in Nat /\ req[r].writesMust \in BOOLEAN
      BY <2>1, Names DEF Call
    <3>2. ident[req[r].who].must \in BOOLEAN
      BY <2>1, <2>3 DEF TypeOK, Identity
    <3>3. \A b \in BOOLEAN : [password |-> req[r].secret, must |-> b] # None
      BY <3>1, Names DEF Identity
    <3> QED BY <2>1, <2>2, <2>3, <3>1, <3>2, <3>3
  <2> QED BY <2>1, <2>2, <2>3
<1>8. ASSUME DeletePerms(r) PROVE Goal
  BY <1>8, DeletePermsEffect DEF SameTables
<1>9. ASSUME CommitProfile(r) PROVE Goal
  BY <1>9, CommitProfileEffect
<1>10. ASSUME Fails(r) PROVE Goal
  BY <1>10, FailsEffect DEF SameTables
<1>11. Goal
  BY <1>1, <1>2, <1>3, <1>4, <1>5, <1>6, <1>7, <1>8, <1>9, <1>10 DEF Handle
<1>12. Carried
  BY <1>11 DEF Carried, Concerns, Stays
<1> QED BY <1>11, <1>12

\* Every request of the panel begins.
LEMMA RequestBegins ==
  ASSUME TypeOK, Calls, NEW r \in Requests, NEW i \in Emails, Request(r, i)
  PROVE  Begun(r)
BY BeginUpdateEffect, BeginDeleteEffect, BeginAddEffect, BeginResetEffect, BeginChangeEffect,
   BeginProfileEffect DEF Request

\* The steps of the system, for a case split.
LEMMA NextCases ==
  ASSUME Next
  PROVE  \/ \E i \in Emails : Aside(i)
         \/ \E r \in Requests : Handle(r)
         \/ \E r \in Requests, i \in Emails : Request(r, i)
         \/ \E i \in Emails, p \in Profiles : DeleteProfile(i, p)
         \/ \E i \in Emails, p \in Profiles, perms \in Grants : CreateProfile(i, p, perms)
BY DEF Next, Aside

\* Requests in progress change one thing together only on record.
LEMMA OverlapsStep ==
  ASSUME TypeOK, Calls, Overlaps, Next
  PROVE  Calls' /\ Overlaps'
<1>0. \A q \in Requests : req[q] \in Call
  BY DEF Calls
<1>1. ASSUME Calls', Carried, raced' = raced PROVE Overlaps'
  <2>1. \A q \in Requests : req'[q] \in Call
    BY <1>1 DEF Calls
  <2>2. \A q \in Requests : Kept(q) => Thing(req'[q]) = Thing(req[q])
    BY DEF Kept, Thing
  <2>3. Thing(Idle) = None
    BY IdleCall, ThingOf
  <2>4. \A q \in Requests : Thing(req'[q]) = Thing(req[q]) \/ Thing(req'[q]) = None
    BY <1>1, <2>2, <2>3 DEF Carried
  <2> QED BY <1>1, <2>4 DEF Overlaps
<1>2. ASSUME NEW r \in Requests, Begun(r) PROVE Overlaps'
  BY <1>2 DEF Begun, OnlyOne, Overlaps
<1>3. ASSUME NEW r \in Requests, Handle(r) PROVE Calls' /\ Overlaps'
  BY <1>1, <1>3, HandleCarries
<1>4. ASSUME NEW r \in Requests, NEW i \in Emails, Request(r, i) PROVE Calls' /\ Overlaps'
  BY <1>2, <1>4, RequestBegins DEF Begun
<1>5. ASSUME Calls', req' = req, raced' = raced PROVE Overlaps'
  BY <1>5 DEF Overlaps
<1> QED BY <1>3, <1>4, <1>5, NextCases, AsideEffect, CreateProfileEffect, DeleteProfileEffect

-----------------------------------------------------------------------------
(* Memberships *)

\* The image of a finite set is finite.
LEMMA ImageFinite ==
  ASSUME NEW S, IsFiniteSet(S), NEW f, NEW T,
         \A x \in S : f[x] \in T, \A y \in T : \E x \in S : y = f[x]
  PROVE  IsFiniteSet(T)
<1> DEFINE g == [x \in S |-> f[x]]
<1>1. g \in Surjection(S, T)
  BY DEF Surjection
<1> QED BY <1>1, FS_Surjection

\* No membership changes, no identity goes.
LEMMA MembersKept ==
  ASSUME Memberships, Carried, members' = members,
         TypeOK, \A i \in Emails : ident[i] # None => ident'[i] # None
  PROVE  Memberships'
<1>1. \A q \in Requests : req'[q].op \in Managing =>
        req[q].op \in Managing /\ req'[q].who = req[q].who /\ req'[q].acc = req[q].acc
  BY IdleCall DEF Carried, Kept, Managing
<1>2. \A m \in members : m.who \in Emails
  BY DEF TypeOK, Membership
<1> QED BY <1>1, <1>2 DEF Memberships, Member

\* Membership n rewritten as m.
Rewritten(n, m, who, a, x, b, p) ==
  /\ m.who = n.who /\ m.acc = n.acc /\ m.owner = n.owner
  /\ n.who = who /\ n.acc = a => m.role = x /\ m.active = b /\ m.profile = p
  /\ ~(n.who = who /\ n.acc = a) => m = n

\* The members written by an update.
Updated(who, a, x, b, p) ==
  /\ IsFiniteSet(members') /\ members' \subseteq Membership
  /\ \A m \in members' : \E n \in members : Rewritten(n, m, who, a, x, b, p)
  /\ \A n \in members : \E m \in members' : Rewritten(n, m, who, a, x, b, p)
  /\ \A m, n \in members' : m.who = n.who /\ m.acc = n.acc => m = n

\* An update rewrites the member it names, whose row stays one.
LEMMA MembersWritten ==
  ASSUME TypeOK, Memberships, NEW who, NEW a, NEW x \in Roles, NEW b \in BOOLEAN,
         NEW p \in Profiles \cup {None},
         members' = {IF m.who = who /\ m.acc = a
                       THEN [m EXCEPT !.role = x, !.active = b, !.profile = p] ELSE m : m \in members}
  PROVE  Updated(who, a, x, b, p)
<1> DEFINE w == [m \in members |->
                   IF m.who = who /\ m.acc = a
                     THEN [m EXCEPT !.role = x, !.active = b, !.profile = p] ELSE m]
<1>1. ASSUME NEW m \in members
      PROVE  w[m] \in Membership /\ Rewritten(m, w[m], who, a, x, b, p)
  <2>1. m \in Membership
    BY DEF TypeOK
  <2>2. CASE ~(m.who = who /\ m.acc = a)
    BY <2>1, <2>2 DEF Rewritten
  <2>3. CASE m.who = who /\ m.acc = a
    <3> DEFINE y == [m EXCEPT !.role = x, !.active = b, !.profile = p]
    <3>1. /\ y \in Membership /\ y.who = m.who /\ y.acc = m.acc /\ y.owner = m.owner
          /\ y.role = x /\ y.active = b /\ y.profile = p
      BY <2>1 DEF Membership
    <3>2. w[m] = y
      BY <2>3
    <3> HIDE DEF y, w
    <3> QED BY <2>3, <3>1, <3>2 DEF Rewritten
  <2> QED BY <2>2, <2>3
<1>2. (\A m \in members : w[m] \in members') /\ \A n \in members' : \E m \in members : n = w[m]
  OBVIOUS
<1> HIDE DEF w
<1>3. IsFiniteSet(members')
  <2>1. IsFiniteSet(members)
    BY DEF Memberships
  <2> QED BY <1>2, <2>1, ImageFinite
<1>4. \A m, n \in members : m.who = n.who /\ m.acc = n.acc => m = n
  BY DEF Memberships
<1>5. ASSUME NEW m \in members', NEW n \in members', m.who = n.who, m.acc = n.acc
      PROVE  m = n
  <2>1. PICK m0 \in members, n0 \in members : m = w[m0] /\ n = w[n0]
    BY <1>2
  <2>2. m.who = m0.who /\ m.acc = m0.acc /\ n.who = n0.who /\ n.acc = n0.acc
    BY <1>1, <2>1 DEF Rewritten
  <2>3. m0 = n0
    BY <1>4, <1>5, <2>2
  <2> QED BY <2>1, <2>3
<1>6. \A m \in members' : m \in Membership /\ \E n \in members : Rewritten(n, m, who, a, x, b, p)
  BY <1>1, <1>2
<1>7. \A n \in members : \E m \in members' : Rewritten(n, m, who, a, x, b, p)
  BY <1>1, <1>2
<1> QED BY ONLY <1>3, <1>5, <1>6, <1>7 DEF Updated

\* CommitUpdate rewrites the member it names, or nothing.
LEMMA UpdateWrites ==
  ASSUME TypeOK, Calls, Memberships, NEW r \in Requests, CommitUpdate(r), members' # members
  PROVE  /\ Updated(req[r].who, req[r].acc, req[r].role, req[r].active, req[r].profile)
         /\ ProfileOf(req[r].profile, req[r].acc)
<1>1. /\ req[r].role \in Roles /\ req[r].active \in BOOLEAN
      /\ req[r].profile \in Profiles \cup {None}
      /\ ProfileOf(req[r].profile, req[r].acc)
      /\ members' = {IF m.who = req[r].who /\ m.acc = req[r].acc
                       THEN [m EXCEPT !.role = req[r].role, !.active = req[r].active,
                                      !.profile = req[r].profile]
                       ELSE m : m \in members}
  BY CommitUpdateEffect
<1>2. PICK who, a, x, b, p :
         /\ who = req[r].who /\ a = req[r].acc /\ x = req[r].role /\ b = req[r].active
         /\ p = req[r].profile
  OBVIOUS
<1>3. /\ x \in Roles /\ b \in BOOLEAN /\ p \in Profiles \cup {None}
      /\ members' = {IF m.who = who /\ m.acc = a
                       THEN [m EXCEPT !.role = x, !.active = b, !.profile = p]
                       ELSE m : m \in members}
  BY <1>1, <1>2
<1>4. Updated(who, a, x, b, p)
  BY <1>3, MembersWritten
<1> QED BY <1>1, <1>2, <1>4

\* What a request has read when it begins.
LEMMA RequestKnows ==
  ASSUME TypeOK, Calls, Memberships, NEW r \in Requests, NEW i \in Emails, Request(r, i)
  PROVE  /\ Begun(r)
         /\ req'[r].op \in Managing => Chosen(r)
         /\ req'[r].op \in Resetting \/ (req'[r].op = "add" /\ ~req'[r].fresh) =>
              ident[req'[r].who] # None
         /\ req'[r].op = "add" /\ req'[r].fresh =>
              \A j \in Emails : Lower(j) = Lower(req'[r].who) => ident[j] = None
         /\ \/ req'[r].op # "profile" /\ asked' = asked
            \/ /\ req'[r].op = "profile" /\ req'[r].profile \in Profiles
               /\ profile[req'[r].profile] # None
               /\ asked' = [asked EXCEPT ![req'[r].profile] = @ \cup {req'[r].new}]
         /\ asked' \in [Profiles -> SUBSET SUBSET Keys]
<1> USE DEF Managing, Resetting
<1>1. ASSUME BeginChange(r, i) PROVE req'[r].op = "change" /\ Begun(r) /\ asked' = asked
                                     /\ ident[req'[r].who] # None
  BY <1>1, BeginChangeEffect
<1>2. ASSUME NEW who \in Emails, BeginUpdate(r, i, who)
      PROVE  req'[r].op = "update" /\ Begun(r) /\ asked' = asked /\ Chosen(r)
  BY <1>2, BeginUpdateEffect
<1>3. ASSUME NEW who \in Emails, BeginDelete(r, i, who)
      PROVE  req'[r].op = "delete" /\ Begun(r) /\ asked' = asked /\ Chosen(r)
  BY <1>3, BeginDeleteEffect
<1>4. ASSUME NEW who \in Emails, BeginAdd(r, i, who)
      PROVE  /\ Begun(r) /\ asked' = asked /\ req'[r].op = "add"
             /\ ~req'[r].fresh => ident[req'[r].who] # None
             /\ req'[r].fresh =>
                  \A j \in Emails : Lower(j) = Lower(req'[r].who) => ident[j] = None
  BY <1>4, BeginAddEffect
<1>5. ASSUME NEW who \in Emails, BeginReset(r, i, who)
      PROVE  /\ Begun(r) /\ asked' = asked /\ req'[r].op = "reset" /\ ident[req'[r].who] # None
  BY <1>5, BeginResetEffect DEF Memberships
<1>6. ASSUME NEW p \in Profiles, NEW perms \in Grants, BeginProfile(r, i, p, perms)
      PROVE  /\ Begun(r) /\ req'[r].op = "profile" /\ req'[r].profile \in Profiles
             /\ profile[req'[r].profile] # None
             /\ asked' = [asked EXCEPT ![req'[r].profile] = @ \cup {req'[r].new}]
             /\ asked' \in [Profiles -> SUBSET SUBSET Keys]
  BY <1>6, BeginProfileEffect
<1>7. asked \in [Profiles -> SUBSET SUBSET Keys]
  BY DEF TypeOK
<1> HIDE DEF Managing, Resetting
<1>8. "update" \in Managing /\ "delete" \in Managing /\ "reset" \in Resetting /\ "change" \in Resetting
      /\ "add" \notin Managing \cup Resetting /\ "profile" \notin Managing \cup Resetting
      /\ "reset" \notin Managing /\ "change" \notin Managing
      /\ "update" \notin Resetting /\ "delete" \notin Resetting
  BY DEF Managing, Resetting
<1> QED BY <1>1, <1>2, <1>3, <1>4, <1>5, <1>6, <1>7, <1>8 DEF Request

\* A request that has flushed is not one that only reads.
LEMMA Flushed ==
  ASSUME Calls, NEW r \in Requests, req[r].pc \in {"flushed", "sent"}
  PROVE  req[r].op \in Resetting \cup {"add"} /\ req[r].who \in Emails
BY DEF Calls, Shape, Call, Ops, Managing, Resetting

\* Memberships stay one per person and account, of people that are known, and owners admins.
LEMMA MembershipsStep ==
  ASSUME TypeOK, Calls, Memberships, AddsNew, Addresses, Next
  PROVE  Memberships' /\ members' \subseteq Membership
<1>0. members \subseteq Membership /\ \A q \in Requests : req[q] \in Call
  BY DEF TypeOK, Calls
<1>1. ASSUME NEW r \in Requests, Handle(r), members' = members PROVE Memberships'
  BY <1>1, HandleCarries, MembersKept
<1>2. ASSUME NEW r \in Requests, CommitUpdate(r) PROVE Memberships' /\ members' \subseteq Membership
  <2>0. Handle(r) /\ Carried
    BY <1>2, HandleCarries DEF Handle
  <2>1. CASE members' = members
    BY <1>0, <1>1, <2>0, <2>1
  <2>2. CASE members' # members
    <3>1. req[r].op = "update" /\ ident' = ident
      BY <1>2, CommitUpdateEffect
    <3>2. PICK who, a, x, b, p :
             /\ who = req[r].who /\ a = req[r].acc /\ x = req[r].role /\ b = req[r].active
             /\ p = req[r].profile
      OBVIOUS
    <3>3. Updated(who, a, x, b, p)
      BY <1>2, <2>2, <3>2, UpdateWrites
    <3>32. \A m \in members : m.who = who /\ m.acc = a => ~m.owner
      BY <3>1, <3>2 DEF Member, Memberships, Managing
    <3>34. /\ \A m \in members : m.owner => m.role = "admin"
           /\ \A m \in members : ident[m.who] # None
           /\ \A q \in Requests : req[q].op \in Managing =>
                \A m \in members : m.who = req[q].who /\ m.acc = req[q].acc => ~m.owner
      BY DEF Memberships, Member
    <3>35. \A m \in members' : \E n \in members : Rewritten(n, m, who, a, x, b, p)
      BY <3>3 DEF Updated
    <3>4. \A m \in members' : m.owner => m.role = "admin"
      BY <3>32, <3>34, <3>35 DEF Rewritten
    <3>5. \A m \in members' : ident'[m.who] # None
      BY <3>1, <3>34, <3>35 DEF Rewritten
    <3>6. \A q \in Requests : req'[q].op \in Managing =>
            req[q].op \in Managing /\ req'[q].who = req[q].who /\ req'[q].acc = req[q].acc
      BY <2>0, IdleCall DEF Carried, Kept, Managing
    <3>7. \A q \in Requests : req'[q].op \in Managing =>
            \A m \in members' : m.who = req'[q].who /\ m.acc = req'[q].acc => ~m.owner
      BY <3>6, <3>34, <3>35 DEF Rewritten
    <3> QED BY <3>3, <3>4, <3>5, <3>7 DEF Memberships, Member, Updated
  <2> QED BY <2>1, <2>2
<1>3. ASSUME NEW r \in Requests, CommitDelete(r) PROVE Memberships' /\ members' \subseteq members
  <2>0. Carried /\ members' \subseteq members /\ ident' = ident
    BY <1>3, HandleCarries, CommitDeleteEffect DEF Handle
  <2>1. IsFiniteSet(members')
    BY <2>0, FS_Subset DEF Memberships
  <2>2. \A q \in Requests : req'[q].op \in Managing =>
          req[q].op \in Managing /\ req'[q].who = req[q].who /\ req'[q].acc = req[q].acc
    BY <2>0, IdleCall DEF Carried, Kept, Managing
  <2> QED BY <2>0, <2>1, <2>2 DEF Memberships, Member
<1>4. ASSUME NEW r \in Requests, CommitRow(r) PROVE Memberships' /\ members' \subseteq Membership
  <2>0. Handle(r) /\ Carried /\ \A i \in Emails : ident[i] # None => ident'[i] # None
    BY <1>4, HandleCarries DEF Handle
  <2>1. CASE req[r].op # "add"
    BY <1>0, <1>1, <1>4, <2>0, <2>1, CommitRowEffect
  <2>2. CASE req[r].op = "add"
    <3> DEFINE new == [who |-> req[r].who, acc |-> req[r].acc, role |-> req[r].role,
                       active |-> TRUE, owner |-> FALSE, profile |-> req[r].profile]
    <3>1. /\ members' = members \cup {new} /\ req[r].pc = "sent" /\ req[r].who \in Emails
          /\ req[r].fresh => ident'[req[r].who] = [password |-> req[r].secret, must |-> TRUE]
      BY <1>4, <2>2, CommitRowEffect
    <3>2. new \in Membership
      BY <1>0, <2>2 DEF Membership, Call, Calls, Shape
    <3>3. new.who = req[r].who /\ new.acc = req[r].acc /\ ~new.owner
      OBVIOUS
    <3> HIDE DEF new
    <3>4. \A m \in members : ~(m.who = req[r].who /\ m.acc = req[r].acc)
      BY <2>2, <3>1 DEF AddsNew, Member
    <3>5. IsFiniteSet(members')
      BY <3>1, FS_AddElement DEF Memberships
    <3>6. ident'[req[r].who] # None
      <4>1. CASE req[r].fresh
        <5>1. req[r].secret \in Nat
          BY <1>0, Names DEF Call
        <5>2. \A b \in BOOLEAN : [password |-> req[r].secret, must |-> b] # None
          BY <5>1, Names DEF Identity
        <5> QED BY <3>1, <4>1, <5>2
      <4>2. CASE ~req[r].fresh
        BY <2>0, <2>2, <3>1, <4>2 DEF Addresses
      <4> QED BY <4>1, <4>2
    <3>7. \A m \in members : m.who \in Emails
      BY <1>0 DEF Membership
    <3>8. \A m \in members' : ident'[m.who] # None
      BY <2>0, <3>1, <3>3, <3>6, <3>7 DEF Memberships
    <3>9. \A m, n \in members' : m.who = n.who /\ m.acc = n.acc => m = n
      BY <3>1, <3>3, <3>4 DEF Memberships
    <3>10. \A q \in Requests : req'[q].op \in Managing =>
            req[q].op \in Managing /\ req'[q].who = req[q].who /\ req'[q].acc = req[q].acc
      BY <2>0, IdleCall DEF Carried, Kept, Managing
    <3>11. \A q \in Requests : req'[q].op \in Managing =>
            \A m \in members' : m.who = req'[q].who /\ m.acc = req'[q].acc => ~m.owner
      BY <3>1, <3>3, <3>10 DEF Memberships, Member
    <3>12. \A m \in members' : m.owner => m.role = "admin"
      BY <3>1, <3>3 DEF Memberships
    <3> QED BY <1>0, <3>1, <3>2, <3>5, <3>8, <3>9, <3>11, <3>12 DEF Memberships, Member
  <2> QED BY <2>1, <2>2
<1>5. ASSUME NEW r \in Requests, Handle(r) PROVE Memberships' /\ members' \subseteq Membership
  BY <1>0, <1>1, <1>2, <1>3, <1>4, <1>5, LoadRowEffect, FlushRowEffect, FlushAddEffect, MailEffect,
     FailsEffect, DeletePermsEffect, CommitProfileEffect DEF Handle, SameTables
<1>6. ASSUME NEW r \in Requests, NEW i \in Emails, Request(r, i)
      PROVE  Memberships' /\ members' = members
  <2>1. Begun(r) /\ (req'[r].op \in Managing => Chosen(r))
    BY <1>6, RequestKnows
  <2>2. \A q \in Requests : q # r => req'[q] = req[q]
    BY <2>1 DEF Begun, OnlyOne
  <2>3. req'[r].op \in Managing =>
          \A m \in members : m.who = req'[r].who /\ m.acc = req'[r].acc => ~m.owner
    BY <2>1 DEF Chosen, Memberships
  <2>4. members' = members /\ ident' = ident
    BY <2>1 DEF Begun, SameTables
  <2> QED BY <2>2, <2>3, <2>4 DEF Memberships, Member
<1>7. ASSUME members' = members, ident' = ident, req' = req PROVE Memberships'
  BY <1>7 DEF Memberships, Member
<1> QED BY <1>0, <1>5, <1>6, <1>7, NextCases, AsideEffect, CreateProfileEffect,
           DeleteProfileEffect DEF SameTables

-----------------------------------------------------------------------------
(* Row locks and new addresses *)

\* Only a flush takes a lock.
LEMMA LocksTaken ==
  ASSUME TypeOK, Calls, NEW r \in Requests, Handle(r), NEW i \in Emails
  PROVE  /\ \A q \in Requests, ops \in {{"add"}, Resetting} : q # r =>
              (Holds(q, i, ops)' <=> Holds(q, i, ops))
         /\ Holds(r, i, {"add"})' =>
              \/ Holds(r, i, {"add"})
              \/ FlushAdd(r) /\ i = req[r].who
         /\ Holds(r, i, Resetting)' =>
              \/ Holds(r, i, Resetting)
              \/ FlushRow(r) /\ i = req[r].who
<1>1. Concerns(r) /\ Carried
  BY HandleCarries
<1>2. \A q \in Requests, ops \in {{"add"}, Resetting} : q # r =>
              (Holds(q, i, ops)' <=> Holds(q, i, ops))
  BY <1>1 DEF Concerns, Stays, Kept, Holds
<1>3. req'[r] = Idle => req'[r].pc = "idle"
  BY IdleCall
<1>4. \/ req'[r] = Idle
      \/ LoadRow(r) /\ req'[r].pc = "loaded" /\ Kept(r)
      \/ FlushRow(r) /\ req[r].op \in Resetting /\ Kept(r)
      \/ FlushAdd(r) /\ req[r].op = "add" /\ Kept(r)
      \/ Mail(r) /\ req[r].pc = "flushed" /\ Kept(r)
      \/ DeletePerms(r) /\ req'[r].pc = "deleted" /\ Kept(r)
  BY LoadRowEffect, FlushRowEffect, FlushAddEffect, MailEffect, CommitRowEffect, FailsEffect,
     DeletePermsEffect, CommitProfileEffect, CommitUpdateEffect, CommitDeleteEffect DEF Handle
<1>5. "add" \notin Resetting
  BY DEF Resetting
<1> QED BY <1>2, <1>3, <1>4, <1>5 DEF Kept, Holds

\* A lock has one holder.
LEMMA ExclusiveStep ==
  ASSUME TypeOK, Calls, Exclusive, Next
  PROVE  Exclusive'
<1>1. ASSUME NEW r \in Requests, Handle(r), NEW i \in Emails,
             NEW q1 \in Requests, NEW q2 \in Requests, q1 # q2
      PROVE  /\ ~(Holds(q1, i, {"add"})' /\ Holds(q2, i, {"add"})')
             /\ ~(Holds(q1, i, Resetting)' /\ Holds(q2, i, Resetting)')
  <2>1. /\ \A q \in Requests, ops \in {{"add"}, Resetting} : q # r =>
              (Holds(q, i, ops)' <=> Holds(q, i, ops))
        /\ Holds(r, i, {"add"})' => Holds(r, i, {"add"}) \/ (FlushAdd(r) /\ i = req[r].who)
        /\ Holds(r, i, Resetting)' => Holds(r, i, Resetting) \/ (FlushRow(r) /\ i = req[r].who)
    BY <1>1, LocksTaken
  <2>2. FlushAdd(r) => \A q \in Requests : q # r => ~Holds(q, req[r].who, {"add"})
    BY FlushAddEffect
  <2>3. FlushRow(r) => \A q \in Requests : q # r => ~Holds(q, req[r].who, Resetting)
    BY FlushRowEffect
  <2>4. \A q \in Requests : q # r =>
          /\ Holds(q, i, {"add"})' <=> Holds(q, i, {"add"})
          /\ Holds(q, i, Resetting)' <=> Holds(q, i, Resetting)
    BY <2>1
  <2>5. /\ ~(Holds(q1, i, {"add"}) /\ Holds(q2, i, {"add"}))
        /\ ~(Holds(q1, i, Resetting) /\ Holds(q2, i, Resetting))
    BY <1>1 DEF Exclusive
  <2> QED BY <1>1, <2>1, <2>2, <2>3, <2>4, <2>5
<1>2. ASSUME NEW r \in Requests, NEW i \in Emails, Request(r, i) PROVE Exclusive'
  <2>1. OnlyOne(r) /\ req'[r].pc = "read"
    BY <1>2, RequestBegins DEF Begun
  <2> QED BY <2>1 DEF OnlyOne, Exclusive, Holds
<1>3. ASSUME req' = req PROVE Exclusive'
  BY <1>3 DEF Exclusive, Holds
<1>4. ASSUME NEW r \in Requests, Handle(r) PROVE Exclusive'
  BY <1>1, <1>4 DEF Exclusive
<1> QED BY <1>2, <1>3, <1>4, NextCases, AsideEffect, CreateProfileEffect, DeleteProfileEffect

\* What commits to identities: a new one by an add, else a password.
LEMMA IdentWritten ==
  ASSUME TypeOK, Calls, Addresses, NEW r \in Requests, Handle(r), NEW j \in Emails,
         ident[j] = None, ident'[j] # None
  PROVE  CommitRow(r) /\ req[r].op = "add" /\ req[r].fresh /\ j = req[r].who
<1>1. CommitRow(r)
  BY LoadRowEffect, FlushRowEffect, FlushAddEffect, MailEffect, FailsEffect,
     DeletePermsEffect, CommitProfileEffect, CommitUpdateEffect, CommitDeleteEffect
     DEF Handle, SameTables
<1>2. /\ req[r].op \in Resetting \cup {"add"}
      /\ \A i \in Emails : i # req[r].who => ident'[i] = ident[i]
      /\ req[r].op = "add" /\ ~req[r].fresh => ident'[req[r].who] = ident[req[r].who]
  BY <1>1, CommitRowEffect
<1>3. req[r].op \in Resetting => ident[req[r].who] # None
  BY DEF Addresses
<1>4. req[r].fresh \in BOOLEAN
  BY DEF Calls, Call
<1> QED BY <1>1, <1>2, <1>3, <1>4

\* A request still knows what it found about its address.
LEMMA AddressesStep ==
  ASSUME TypeOK, Calls, Overlaps, Memberships, Addresses, Next
  PROVE  Addresses'
<1>0. \A q \in Requests : req[q] \in Call /\ req[q].fresh \in BOOLEAN
                          /\ (req[q].op \in Resetting \cup {"add"} => req[q].who \in Emails)
  BY DEF Calls, Call, Shape
<1>1. ASSUME NEW r \in Requests, Handle(r) PROVE Addresses'
  <2>1. Carried /\ Concerns(r) /\ raced' = raced /\ \A i \in Emails : ident[i] # None => ident'[i] # None
    BY <1>1, HandleCarries
  <2>2. Idle.op \notin Resetting \cup {"add"}
    BY IdleCall DEF Resetting
  <2>3. \A q \in Requests : req'[q].op \in Resetting \cup {"add"} => Kept(q)
    BY <2>1, <2>2 DEF Carried
  <2>4. \A q \in Requests : req'[q].op \in Resetting \/ (req'[q].op = "add" /\ ~req'[q].fresh) =>
          ident'[req'[q].who] # None
    BY <1>0, <2>1, <2>3 DEF Addresses, Kept
  <2>5. ASSUME NEW q \in Requests, req'[q].op = "add", req'[q].fresh,
               NEW j \in Emails, ident'[j] # None, Lower(j) = Lower(req'[q].who)
        PROVE  Lower(j) \in raced'
    <3>1. req[q].op = "add" /\ req[q].fresh /\ req'[q].who = req[q].who
      BY <2>3, <2>5 DEF Kept
    <3>2. CASE ident[j] # None
      BY <2>1, <2>5, <3>1, <3>2 DEF Addresses
    <3>3. CASE ident[j] = None
      <4>1. CommitRow(r) /\ req[r].op = "add" /\ j = req[r].who
        BY <1>1, <2>5, <3>3, IdentWritten
      <4>2. q # r
        BY <2>2, <2>5, <4>1, CommitRowEffect
      <4>3. Thing(req[q]) = Lower(j) /\ Thing(req[r]) = Lower(j) /\ Lower(j) # None
        BY <1>0, <2>5, <3>1, <4>1, ThingOf, Names
      <4> QED BY <2>1, <4>2, <4>3 DEF Overlaps
    <3> QED BY <3>2, <3>3
  <2> QED BY <2>4, <2>5 DEF Addresses
<1>2. ASSUME NEW r \in Requests, NEW i \in Emails, Request(r, i) PROVE Addresses'
  <2>1. /\ Begun(r)
        /\ req'[r].op \in Resetting \/ (req'[r].op = "add" /\ ~req'[r].fresh) =>
              ident[req'[r].who] # None
        /\ req'[r].op = "add" /\ req'[r].fresh =>
              \A j \in Emails : Lower(j) = Lower(req'[r].who) => ident[j] = None
    BY <1>2, RequestKnows
  <2>2. ident' = ident /\ raced \subseteq raced' /\ \A q \in Requests : q # r => req'[q] = req[q]
    BY <2>1 DEF Begun, SameTables, OnlyOne
  <2> QED BY <2>1, <2>2 DEF Addresses
<1>3. ASSUME req' = req, ident' = ident, raced' = raced PROVE Addresses'
  BY <1>3 DEF Addresses
<1> QED BY <1>1, <1>2, <1>3, NextCases, AsideEffect, CreateProfileEffect, DeleteProfileEffect
        DEF SameTables

\* One identity per address stays so.
LEMMA OnePerAddressStep ==
  ASSUME TypeOK, Calls, Memberships, Addresses, Next
  PROVE  OnePerAddress'
<1>1. ASSUME NEW r \in Requests, Handle(r) PROVE OnePerAddress'
  <2>1. raced' = raced
    BY <1>1, HandleCarries
  <2>2. ASSUME NEW i \in Emails, NEW j \in Emails, ident'[i] # None, ident'[j] # None,
               Lower(i) = Lower(j), i # j
        PROVE  Lower(i) \in raced
    <3>1. CASE ident[i] # None /\ ident[j] # None
      BY <2>2, <3>1 DEF TypeOK, OnePerAddress
    <3>2. ASSUME NEW k \in Emails, NEW l \in Emails, ident[k] = None, ident'[k] # None,
                 ident'[l] # None, Lower(k) = Lower(l), k # l
          PROVE  Lower(k) \in raced
      <4>1. CommitRow(r) /\ req[r].op = "add" /\ req[r].fresh /\ k = req[r].who
        BY <1>1, <3>2, IdentWritten
      <4>2. ident[l] # None
        BY <1>1, <3>2, <4>1, IdentWritten
      <4> QED BY <3>2, <4>1, <4>2 DEF Addresses
    <3> QED BY <2>2, <3>1, <3>2
  <2> QED BY <2>1, <2>2 DEF OnePerAddress
<1>2. ASSUME ident' = ident, raced \subseteq raced' PROVE OnePerAddress'
  BY <1>2 DEF TypeOK, OnePerAddress
<1>3. ASSUME NEW r \in Requests, NEW i \in Emails, Request(r, i) PROVE OnePerAddress'
  BY <1>2, <1>3, RequestBegins DEF Begun, SameTables
<1> QED BY <1>1, <1>2, <1>3, NextCases, AsideEffect, CreateProfileEffect, DeleteProfileEffect
        DEF SameTables

\* The memberships after a step of a handler are those before, rewritten or not, less one
\* deleted, or one more.
LEMMA MembersFrom ==
  ASSUME TypeOK, Calls, Memberships, NEW r \in Requests, Handle(r), NEW m \in members'
  PROVE  \/ \E n \in members : n.who = m.who /\ n.acc = m.acc
                               /\ (n = m \/ (CommitUpdate(r) /\ m.who = req[r].who /\ m.acc = req[r].acc
                                              /\ m.profile = req[r].profile
                                              /\ ProfileOf(req[r].profile, req[r].acc)))
         \/ /\ CommitRow(r) /\ req[r].op = "add" /\ m.who = req[r].who /\ m.acc = req[r].acc
            /\ m.profile = req[r].profile
<1>1. CASE members' = members
  BY <1>1
<1>2. CASE CommitUpdate(r) /\ members' # members
  BY <1>2, UpdateWrites DEF Updated, Rewritten
<1>3. CASE CommitDelete(r)
  BY <1>3, CommitDeleteEffect
<1>4. CASE CommitRow(r) /\ members' # members
  <2>1. /\ req[r].op = "add"
        /\ members' = members \cup
              {[who |-> req[r].who, acc |-> req[r].acc, role |-> req[r].role,
                active |-> TRUE, owner |-> FALSE, profile |-> req[r].profile]}
    BY <1>4, CommitRowEffect
  <2> QED BY <1>4, <2>1
<1> QED BY <1>1, <1>2, <1>3, <1>4, LoadRowEffect, FlushRowEffect, FlushAddEffect, MailEffect,
           FailsEffect, DeletePermsEffect, CommitProfileEffect DEF Handle, SameTables

\* A profile of an account remains one in a step of a handler.
LEMMA ProfileRemains ==
  ASSUME TypeOK, Calls, NEW r \in Requests, Handle(r), NEW p \in Profiles \cup {None}, NEW a,
         ProfileOf(p, a)
  PROVE  ProfileOf(p, a)'
<1>1. CASE profile' = profile
  BY <1>1 DEF ProfileOf
<1>2. CASE profile' # profile
  <2>1. CommitProfile(r)
    BY <1>2, LoadRowEffect, FlushRowEffect, FlushAddEffect, MailEffect, CommitRowEffect,
       FailsEffect, DeletePermsEffect, CommitUpdateEffect, CommitDeleteEffect
       DEF Handle, SameTables
  <2>2. /\ req[r].profile \in Profiles /\ profile[req[r].profile] # None
        /\ profile' = [profile EXCEPT ![req[r].profile].perms = Rest(r) \cup req[r].new]
    BY <1>2, <2>1, CommitProfileEffect
  <2>3. profile[req[r].profile] \in Profile
    BY <2>2 DEF TypeOK
  <2> DEFINE y == [profile[req[r].profile] EXCEPT !.perms = Rest(r) \cup req[r].new]
  <2>4. y.acc = profile[req[r].profile].acc /\ y \in [acc : Accounts, system : BOOLEAN, perms : {y.perms}]
    BY <2>3 DEF Profile
  <2>5. profile' = [profile EXCEPT ![req[r].profile] = y]
    BY <2>2, <2>3 DEF TypeOK
  <2>6. y # None
    <3>1. req[r].new \in SUBSET Keys
      BY DEF Calls, Call
    <3>2. y \in Profile
      BY <2>3, <3>1 DEF Profile, Rest
    <3> QED BY <3>2, Names
  <2> HIDE DEF y
  <2>7. \A x \in Profiles : /\ profile[x] # None => profile'[x] # None
                            /\ profile[x] # None => profile'[x].acc = profile[x].acc
    BY <2>2, <2>4, <2>5, <2>6 DEF TypeOK
  <2> QED BY <2>7 DEF ProfileOf
<1> QED BY <1>1, <1>2

\* The membership a request has inserted is still new, and its profile there.
LEMMA AddsNewStep ==
  ASSUME TypeOK, Calls, Memberships, Exclusive, AddsNew, Addresses, ProfileRows, Next
  PROVE  AddsNew'
<1>0. \A q \in Requests : /\ req[q] \in Call /\ req[q].fresh \in BOOLEAN
                          /\ req[q].profile \in Profiles \cup {None}
                          /\ req[q].op = "add" => req[q].who \in Emails /\ req[q].pc \in {"read", "flushed", "sent"}
  BY DEF Calls, Call, Shape
<1>1. ASSUME NEW r \in Requests, Handle(r), NEW q \in Requests, req'[q].op = "add", req'[q].pc # "read"
      PROVE  /\ Member(req[q].who, req[q].acc)' = {}
             /\ ProfileOf(req[q].profile, req[q].acc)'
             /\ req'[q].fresh => ident'[req'[q].who] = None
  <2>1. Carried /\ Concerns(r)
    BY <1>1, HandleCarries
  <2>2. Kept(q)
    BY <1>1, <2>1, IdleCall DEF Carried
  <2>3. req[q].op = "add" /\ req'[q].who = req[q].who /\ req'[q].acc = req[q].acc
        /\ req'[q].profile = req[q].profile /\ req'[q].fresh = req[q].fresh
    BY <1>1, <2>2 DEF Kept
  <2>4. CASE req[q].pc = "read"
    <3>1. q = r
      BY <1>1, <2>1, <2>4 DEF Concerns, Stays
    <3>2. FlushAdd(r)
      <4>1. "add" \notin Resetting
        BY DEF Resetting
      <4>2. ~LoadRow(r) /\ ~FlushRow(r) /\ ~Mail(r) /\ ~DeletePerms(r) /\ ~CommitProfile(r)
            /\ ~CommitUpdate(r) /\ ~CommitDelete(r) /\ ~CommitRow(r)
        BY <2>3, <2>4, <3>1, <4>1 DEF LoadRow, FlushRow, Mail, DeletePerms, CommitProfile,
           CommitUpdate, CommitDelete, CommitRow, At
      <4>3. ~Fails(r)
        BY <1>1, <3>1, FailsEffect, IdleCall
      <4> QED BY <1>1, <4>2, <4>3 DEF Handle
    <3>3. /\ SameTables
          /\ req[r].fresh => ident[req[r].who] = None
          /\ Member(req[r].who, req[r].acc) = {}
          /\ ProfileOf(req[r].profile, req[r].acc)
      BY <1>1, <3>1, <3>2, FlushAddEffect, IdleCall
    <3> QED BY <2>3, <3>1, <3>3 DEF SameTables, Member, ProfileOf
  <2>5. CASE req[q].pc # "read"
    <3>1. /\ Member(req[q].who, req[q].acc) = {}
          /\ ProfileOf(req[q].profile, req[q].acc)
          /\ req[q].fresh => ident[req[q].who] = None
      BY <2>3, <2>5 DEF AddsNew
    <3>2. Holds(q, req[q].who, {"add"})
      BY <1>0, <2>3, <2>5 DEF Holds
    <3>3. ~(CommitRow(r) /\ req[r].op = "add" /\ req[r].who = req[q].who)
      <4>1. SUFFICES ASSUME CommitRow(r), req[r].op = "add", req[r].who = req[q].who PROVE FALSE
        OBVIOUS
      <4>2. r = q
        BY <1>0, <2>3, <3>2, <4>1 DEF Exclusive, Holds, CommitRow
      <4> QED BY <1>1, <4>1, <4>2, CommitRowEffect, IdleCall
    <3>4. Member(req[q].who, req[q].acc)' = {}
      BY <1>1, <2>3, <3>1, <3>3, MembersFrom DEF Member
    <3>5. req[q].fresh => ident'[req[q].who] = None
      BY <1>0, <1>1, <2>3, <3>1, <3>3, IdentWritten
    <3>6. ProfileOf(req[q].profile, req[q].acc)'
      <4>1. PICK p, a : p = req[q].profile /\ a = req[q].acc
        OBVIOUS
      <4>2. ProfileOf(p, a)'
        BY <1>0, <1>1, <3>1, <4>1, ProfileRemains
      <4>3. p = req'[q].profile /\ a = req'[q].acc
        BY <2>3, <4>1
      <4> QED BY <4>1, <4>2, <4>3, <2>3 DEF ProfileOf
    <3> QED BY <2>3, <3>4, <3>5, <3>6
  <2> QED BY <2>4, <2>5
<1>2. ASSUME NEW r \in Requests, Handle(r) PROVE AddsNew'
  BY <1>1, <1>2 DEF AddsNew
<1>3. ASSUME NEW r \in Requests, NEW i \in Emails, Request(r, i) PROVE AddsNew'
  <2>1. SameTables /\ req'[r].pc = "read" /\ \A q \in Requests : q # r => req'[q] = req[q]
    BY <1>3, RequestBegins DEF Begun, OnlyOne
  <2> QED BY <2>1 DEF AddsNew, SameTables, Member, ProfileOf
<1>4. ASSUME req' = req, SameTables PROVE AddsNew'
  BY <1>4 DEF AddsNew, SameTables, Member, ProfileOf
<1>5. ASSUME NEW i \in Emails, NEW p \in Profiles, DeleteProfile(i, p) PROVE AddsNew'
  <2>1. /\ \A r \in Requests : ~(req[r].profile = p /\ req[r].pc \in {"flushed", "sent"})
        /\ profile' = [profile EXCEPT ![p] = None] /\ req' = req /\ ident' = ident
        /\ members' = members
    BY <1>5, DeleteProfileEffect
  <2>2. \A x \in Profiles : x # p => profile'[x] = profile[x]
    BY <2>1 DEF TypeOK
  <2> QED BY <1>0, <2>1, <2>2 DEF AddsNew, Member, ProfileOf
<1>6. ASSUME NEW i \in Emails, NEW p \in Profiles, NEW perms \in Grants, CreateProfile(i, p, perms)
      PROVE  AddsNew'
  <2>1. /\ profile[p] = None
        /\ profile' = [profile EXCEPT ![p] = [acc |-> DefaultAccount, system |-> FALSE,
                                               perms |-> perms]]
        /\ req' = req /\ ident' = ident /\ members' = members
    BY <1>6, CreateProfileEffect DEF ProfileRows
  <2>2. \A x \in Profiles : x # p => profile'[x] = profile[x]
    BY <2>1 DEF TypeOK
  <2> QED BY <1>0, <2>1, <2>2 DEF AddsNew, Member, ProfileOf
<1> QED BY <1>2, <1>3, <1>4, <1>5, <1>6, NextCases, AsideEffect

\* The profiles of members remain theirs.
LEMMA ProfilesOwnStep ==
  ASSUME TypeOK, Calls, Memberships, AddsNew, ProfilesOwn, ProfileRows, Next
  PROVE  ProfilesOwn'
<1>0. /\ \A m \in members : m.profile \in Profiles \cup {None}
      /\ \A q \in Requests : req[q].profile \in Profiles \cup {None}
      /\ \A m \in members : ProfileOf(m.profile, m.acc)
  BY DEF TypeOK, Membership, Calls, Call, ProfilesOwn, ProfileOf
<1>1. ASSUME NEW r \in Requests, Handle(r), NEW m \in members' PROVE ProfileOf(m.profile, m.acc)'
  <2>1. \/ \E n \in members : n.who = m.who /\ n.acc = m.acc
                               /\ (n = m \/ (CommitUpdate(r) /\ m.who = req[r].who /\ m.acc = req[r].acc
                                              /\ m.profile = req[r].profile
                                              /\ ProfileOf(req[r].profile, req[r].acc)))
        \/ /\ CommitRow(r) /\ req[r].op = "add" /\ m.who = req[r].who /\ m.acc = req[r].acc
           /\ m.profile = req[r].profile
    BY <1>1, MembersFrom
  <2>2. CommitRow(r) /\ req[r].op = "add" => ProfileOf(req[r].profile, req[r].acc)
    BY DEF AddsNew, CommitRow
  <2>3. ProfileOf(m.profile, m.acc) /\ m.profile \in Profiles \cup {None}
    BY <1>0, <2>1, <2>2
  <2>4. PICK p, a : p = m.profile /\ a = m.acc
    OBVIOUS
  <2>5. ProfileOf(p, a)'
    BY <1>1, <2>3, <2>4, ProfileRemains
  <2> QED BY <2>4, <2>5 DEF ProfileOf
<1>2. ASSUME NEW r \in Requests, Handle(r) PROVE ProfilesOwn'
  BY <1>1, <1>2 DEF ProfilesOwn, ProfileOf
<1>3. ASSUME SameTables PROVE ProfilesOwn'
  BY <1>3 DEF ProfilesOwn, SameTables
<1>5. ASSUME NEW i \in Emails, NEW p \in Profiles, DeleteProfile(i, p) PROVE ProfilesOwn'
  <2>1. /\ \A m \in members : m.profile # p
        /\ profile' = [profile EXCEPT ![p] = None] /\ members' = members
    BY <1>5, DeleteProfileEffect
  <2>2. \A x \in Profiles : x # p => profile'[x] = profile[x]
    BY <2>1 DEF TypeOK
  <2> QED BY <1>0, <2>1, <2>2 DEF ProfilesOwn
<1>6. ASSUME NEW i \in Emails, NEW p \in Profiles, NEW perms \in Grants, CreateProfile(i, p, perms)
      PROVE  ProfilesOwn'
  <2>1. /\ profile[p] = None
        /\ profile' = [profile EXCEPT ![p] = [acc |-> DefaultAccount, system |-> FALSE,
                                               perms |-> perms]]
        /\ members' = members
    BY <1>6, CreateProfileEffect DEF ProfileRows
  <2>2. \A x \in Profiles : x # p => profile'[x] = profile[x]
    BY <2>1 DEF TypeOK
  <2> QED BY <1>0, <2>1, <2>2 DEF ProfilesOwn
<1> QED BY <1>2, <1>3, <1>5, <1>6, NextCases, AsideEffect, RequestBegins DEF Begun

-----------------------------------------------------------------------------
(* Admins *)

\* What the migration has left does not change.
LEMMA LegacyStays ==
  ASSUME TypeOK, Calls, Next
  PROVE  legacy' = legacy /\ Migrated' = Migrated /\ raced \subseteq raced'
         /\ \A a : HadAdmin(a)' <=> HadAdmin(a)
<1>1. legacy' = legacy /\ raced \subseteq raced'
  BY NextCases, HandleCarries, RequestBegins, AsideEffect, CreateProfileEffect,
     DeleteProfileEffect DEF Begun, SameTables
<1>2. Migrated' = Migrated
  BY <1>1 DEF Migrated
<1> QED BY <1>1, <1>2 DEF HadAdmin

\* If every active admin of an account stays, one is to spare as before.
LEMMA SpareKept ==
  ASSUME Calls, Carried, raced' = raced, NEW a \in Accounts, HadAdmin(a), a \notin raced, Spare,
         \A n \in ActiveAdmins(a) : n \in members'
  PROVE  /\ ActiveAdmins(a)' # {}
         /\ \A q \in Requests : Takes(req[q], a)' =>
              \E m \in ActiveAdmins(a)' : m.who # req'[q].who
<1>1. \A n \in ActiveAdmins(a) : n \in ActiveAdmins(a)'
  BY DEF ActiveAdmins
<1>2. \A q \in Requests : Takes(req[q], a)' => Takes(req[q], a) /\ req'[q].who = req[q].who
  BY IdleCall DEF Carried, Kept, Takes, Managing
<1> QED BY <1>1, <1>2 DEF Spare

\* An account not raced keeps an admin to spare.
LEMMA SpareStep ==
  ASSUME TypeOK, Calls, Overlaps, Memberships, Spare, Next
  PROVE  Spare'
<1>0. \A a : HadAdmin(a)' <=> HadAdmin(a)
  BY LegacyStays
<1>1. ASSUME NEW r \in Requests, Handle(r), NEW a \in Accounts, HadAdmin(a), a \notin raced
      PROVE  /\ ActiveAdmins(a)' # {}
             /\ \A q \in Requests : Takes(req[q], a)' =>
                  \E m \in ActiveAdmins(a)' : m.who # req'[q].who
  <2>1. Carried /\ raced' = raced
    BY <1>1, HandleCarries
  <2>2. CASE \A n \in ActiveAdmins(a) : n \in members'
    BY <1>1, <2>1, <2>2, SpareKept
  <2>3. CASE \E n \in ActiveAdmins(a) : n \notin members'
    <3>1. members' # members /\ ~CommitRow(r)
      BY <2>3, CommitRowEffect DEF ActiveAdmins
    <3>2. CommitUpdate(r) \/ CommitDelete(r)
      BY <1>1, <3>1, LoadRowEffect, FlushRowEffect, FlushAddEffect, MailEffect,
         FailsEffect, DeletePermsEffect, CommitProfileEffect DEF Handle, SameTables
    <3>3. req'[r] = Idle /\ req[r].op \in Managing
      BY <3>2, CommitUpdateEffect, CommitDeleteEffect DEF Managing
    <3>4. req[r].acc = a
      <4>1. CASE CommitUpdate(r)
        <5>1. \A n \in members : n.acc # req[r].acc => n \in members'
          BY <3>1, <4>1, UpdateWrites DEF Updated, Rewritten
        <5> QED BY <2>3, <5>1 DEF ActiveAdmins
      <4>2. CASE CommitDelete(r)
        BY <2>3, <4>2, CommitDeleteEffect DEF ActiveAdmins, Member
      <4> QED BY <3>2, <4>1, <4>2
    <3>5. ASSUME NEW q \in Requests, Takes(req[q], a)' PROVE FALSE
      <4>1. req'[q].op \in Managing /\ req'[q].acc = a
        BY <3>5 DEF Takes
      <4>2. q # r
        BY <3>3, <4>1, IdleCall DEF Managing
      <4>3. req[q].op \in Managing /\ req[q].acc = a
        BY <2>1, <4>1, IdleCall DEF Carried, Kept, Managing
      <4>4. Thing(req[q]) = a /\ Thing(req[r]) = a /\ a # None
        BY <3>3, <3>4, <4>3, ThingOf, Names DEF Calls
      <4> QED BY <1>1, <4>2, <4>4 DEF Overlaps
    <3>6. ActiveAdmins(a)' # {}
      <4>1. CASE Takes(req[r], a)
        <5>1. PICK m \in ActiveAdmins(a) : m.who # req[r].who
          BY <1>1, <4>1 DEF Spare
        <5>2. m \in members'
          <6>1. CASE CommitUpdate(r)
            BY <3>1, <5>1, <6>1, UpdateWrites DEF Updated, Rewritten, ActiveAdmins
          <6>2. CASE CommitDelete(r)
            BY <5>1, <6>2, CommitDeleteEffect DEF ActiveAdmins, Member
          <6> QED BY <3>2, <6>1, <6>2
        <5> QED BY <5>1, <5>2 DEF ActiveAdmins
      <4>2. CASE ~Takes(req[r], a)
        <5>1. CommitUpdate(r) /\ req[r].role = "admin" /\ req[r].active
          BY <3>2, <3>3, <3>4, <4>2, CommitUpdateEffect, CommitDeleteEffect DEF Takes
        <5>2. PICK n \in ActiveAdmins(a) : TRUE
          BY <1>1 DEF Spare
        <5>3. PICK m \in members' :
                Rewritten(n, m, req[r].who, req[r].acc, req[r].role, req[r].active, req[r].profile)
          BY <3>1, <5>1, <5>2, UpdateWrites DEF Updated, ActiveAdmins
        <5>4. m.acc = a /\ m.role = "admin" /\ m.active
          BY <5>1, <5>2, <5>3 DEF Rewritten, ActiveAdmins
        <5> QED BY <5>4 DEF ActiveAdmins
      <4> QED BY <4>1, <4>2
    <3> QED BY <3>5, <3>6
  <2> QED BY <2>2, <2>3
<1>2. ASSUME NEW r \in Requests, Handle(r) PROVE Spare'
  BY <1>0, <1>1, <1>2, HandleCarries DEF Spare
<1>3. ASSUME NEW r \in Requests, NEW i \in Emails, Request(r, i) PROVE Spare'
  <2>1. Begun(r) /\ (req'[r].op \in Managing => Chosen(r))
    BY <1>3, RequestKnows
  <2>2. /\ members' = members /\ raced \subseteq raced'
        /\ \A q \in Requests : q # r => req'[q] = req[q]
    BY <2>1 DEF Begun, SameTables, OnlyOne
  <2>3. ASSUME NEW a \in Accounts, HadAdmin(a), a \notin raced, Takes(req[r], a)'
        PROVE  \E m \in ActiveAdmins(a) : m.who # req'[r].who
    <3>1. PICK m \in members :
            /\ m.who = req'[r].who /\ m.acc = a
            /\ m.role = "admin" => ~(Cardinality(ActiveAdmins(a)) <= 1)
      BY <2>1, <2>3 DEF Chosen, Takes
    <3>2. SUFFICES ASSUME \A n \in ActiveAdmins(a) : n.who = m.who PROVE FALSE
      BY <3>1
    <3>3. \A n \in ActiveAdmins(a) : n = m
      BY <3>1, <3>2 DEF ActiveAdmins, Memberships
    <3>4. ActiveAdmins(a) # {}
      BY <2>3 DEF Spare
    <3>5. ActiveAdmins(a) = {m} /\ m.role = "admin"
      BY <3>3, <3>4 DEF ActiveAdmins
    <3>6. Cardinality({m}) = 1
      BY FS_Singleton
    <3> QED BY <3>1, <3>5, <3>6
  <2>4. \A a : ActiveAdmins(a)' = ActiveAdmins(a)
    BY <2>2 DEF ActiveAdmins
  <2>5. \A a \in Accounts, q \in Requests : q # r => (Takes(req[q], a)' <=> Takes(req[q], a))
    BY <2>2 DEF Takes
  <2> QED BY <1>0, <2>2, <2>3, <2>4, <2>5 DEF Spare
<1>4. ASSUME req' = req, members' = members, raced' = raced PROVE Spare'
  BY <1>0, <1>4 DEF Spare, ActiveAdmins, Takes
<1> QED BY <1>2, <1>3, <1>4, NextCases, AsideEffect, CreateProfileEffect, DeleteProfileEffect
        DEF SameTables

-----------------------------------------------------------------------------
(* Passwords *)

\* The mail of a password is still where it was, or the password is.
LEMMA MailsLockedStep ==
  ASSUME TypeOK, Calls, Exclusive, AddsNew, Addresses, MailsLocked, Next
  PROVE  MailsLocked'
<1>0. \A q \in Requests : req[q] \in Call /\ req[q].fresh \in BOOLEAN
  BY DEF Calls, Call
<1> DEFINE Kept1(i) == \/ mailed[i] = 0 \/ i \in excused
                       \/ ident[i] # None /\ ident[i].password = mailed[i]
                       \/ \E r \in Requests : /\ Holds(r, i, {"add", "reset"})
                                              /\ req[r].pc = "sent" /\ req[r].secret = mailed[i]
<1>1. ASSUME NEW r \in Requests, Handle(r), req'[r] # Idle PROVE MailsLocked'
  <2>1. Kept(r) /\ \A q \in Requests : q # r => Stays(q)
    BY <1>1, HandleCarries DEF Concerns
  <2>2. CASE Mail(r)
    <3>1. /\ req[r].op \in {"add", "reset"} /\ req[r].pc = "flushed" /\ req'[r].pc = "sent"
          /\ req[r].who \in Emails /\ req'[r].secret = req[r].secret
          /\ mailed' = [mailed EXCEPT ![req[r].who] = req[r].secret]
          /\ ident' = ident /\ excused' = excused
      BY <2>2, MailEffect DEF SameTables
    <3>2. \A i \in Emails : i # req[r].who => mailed'[i] = mailed[i]
      BY <3>1 DEF TypeOK
    <3>3. mailed'[req[r].who] = req[r].secret
      BY <3>1 DEF TypeOK
    <3>4. ASSUME NEW q \in Requests, q # r, req[q].pc = "sent", req[q].secret # 0
          PROVE  req[q].who # req[r].who
      <4>1. req[q].op = "reset" \/ (req[q].op = "add" /\ req[q].fresh)
        BY <1>0, <3>4, Flushed DEF Calls, Shape, Resetting
      <4>2. req[r].op = "reset" \/ (req[r].op = "add" /\ req[r].fresh)
        BY <1>0, <3>1 DEF Calls, Shape
      <4>3. /\ req[q].op = "add" => ident[req[q].who] = None
            /\ req[r].op = "add" => ident[req[r].who] = None
            /\ req[q].op = "reset" => ident[req[q].who] # None
            /\ req[r].op = "reset" => ident[req[r].who] # None
        BY <3>1, <3>4, <4>1, <4>2 DEF AddsNew, Addresses, Resetting
      <4> QED BY <3>1, <3>4, <4>1, <4>2, <4>3 DEF Exclusive, Holds, Resetting
    <3>5. ASSUME NEW q \in Requests, req'[q].pc = "sent", req'[q].secret # 0
          PROVE  mailed'[req'[q].who] = req'[q].secret
      <4>1. CASE q = r
        BY <2>1, <3>1, <3>3, <4>1 DEF Kept
      <4>2. CASE q # r
        <5>1. req[q].pc = "sent" /\ req[q].secret # 0 /\ req'[q].who = req[q].who
              /\ req'[q].secret = req[q].secret
          BY <2>1, <3>5, <4>2 DEF Stays, Kept
        <5>2. req[q].who \in Emails
          BY <5>1, Flushed
        <5> QED BY <3>2, <3>4, <4>2, <5>1, <5>2 DEF MailsLocked
      <4> QED BY <4>1, <4>2
    <3>6. ASSUME NEW i \in Emails PROVE Kept1(i)'
      <4>1. CASE i = req[r].who
        <5>1. Holds(r, i, {"add", "reset"})' /\ req'[r].secret = mailed'[i]
          BY <2>1, <3>1, <3>3, <4>1 DEF Holds, Kept
        <5> QED BY <3>1, <5>1
      <4>2. CASE i # req[r].who
        <5>1. Kept1(i)
          BY DEF MailsLocked
        <5>2. CASE \E q \in Requests : Holds(q, i, {"add", "reset"}) /\ req[q].pc = "sent"
                                       /\ req[q].secret = mailed[i]
          <6>1. PICK q \in Requests : Holds(q, i, {"add", "reset"}) /\ req[q].pc = "sent"
                                      /\ req[q].secret = mailed[i]
            BY <5>2
          <6>2. q # r
            BY <4>2, <6>1 DEF Holds
          <6>3. Holds(q, i, {"add", "reset"})' /\ req'[q].pc = "sent" /\ req'[q].secret = mailed[i]
            BY <2>1, <6>1, <6>2 DEF Stays, Kept, Holds
          <6> QED BY <3>2, <4>2, <6>3
        <5> QED BY <3>1, <3>2, <4>2, <5>1, <5>2
      <4> QED BY <4>1, <4>2
    <3> HIDE DEF Kept1
    <3>7. \A i \in Emails : Kept1(i)'
      BY <3>6
    <3> USE DEF Kept1
    <3> QED BY <3>5, <3>7 DEF MailsLocked
  <2>3. CASE ~Mail(r)
    <3>1. mailed' = mailed /\ ident' = ident /\ excused' = excused
      BY <1>1, <2>3, LoadRowEffect, FlushRowEffect, FlushAddEffect, CommitRowEffect,
         FailsEffect, DeletePermsEffect, CommitProfileEffect, CommitUpdateEffect,
         CommitDeleteEffect DEF Handle, SameTables
    <3>2. req[r].pc # "sent"
      <4>1. ~CommitRow(r) /\ ~Fails(r)
        BY <1>1, CommitRowEffect, FailsEffect
      <4> QED BY <1>1, <2>3, <4>1 DEF Handle, CommitUpdate, CommitDelete, LoadRow, FlushRow,
              FlushAdd, DeletePerms, CommitProfile, At
    <3>3. req'[r].pc = "sent" => req'[r].secret = 0
      <4>1. Shape(req[r])' /\ req[r].fresh \in BOOLEAN
        BY <1>0, <1>1, HandleCarries DEF Calls
      <4>2. req'[r].pc = "sent" => \/ FlushRow(r) /\ req[r].op = "change"
                                   \/ FlushAdd(r) /\ req[r].op = "add" /\ ~req[r].fresh
        <5>1. FlushRow(r) => /\ req[r].op \in Resetting
                             /\ req'[r].pc = IF req[r].op = "reset" THEN "flushed" ELSE "sent"
          BY FlushRowEffect
        <5>2. FlushAdd(r) => /\ req[r].op = "add"
                             /\ req'[r].pc = IF req[r].fresh THEN "flushed" ELSE "sent"
          BY <1>1, FlushAddEffect
        <5>3. LoadRow(r) \/ DeletePerms(r) => req'[r].pc # "sent"
          BY <1>1, LoadRowEffect, DeletePermsEffect
        <5> QED BY <1>1, <2>3, <5>1, <5>2, <5>3, CommitRowEffect, FailsEffect,
                   CommitProfileEffect, CommitUpdateEffect, CommitDeleteEffect
                   DEF Handle, Resetting
      <4>3. req'[r].op = req[r].op /\ req'[r].fresh = req[r].fresh
        BY <2>1 DEF Kept
      <4> QED BY <4>1, <4>2, <4>3 DEF Shape
    <3>4. ASSUME NEW q \in Requests, req'[q].pc = "sent", req'[q].secret # 0
          PROVE  mailed'[req'[q].who] = req'[q].secret
      <4>1. q # r
        BY <3>3, <3>4
      <4> QED BY <2>1, <3>1, <3>4, <4>1 DEF MailsLocked, Stays, Kept
    <3>5. ASSUME NEW i \in Emails PROVE Kept1(i)'
      <4>1. Kept1(i)
        BY DEF MailsLocked
      <4>2. \A q \in Requests : Holds(q, i, {"add", "reset"}) /\ req[q].pc = "sent" =>
              Holds(q, i, {"add", "reset"})' /\ req'[q].pc = "sent" /\ req'[q].secret = req[q].secret
        BY <2>1, <3>2 DEF Stays, Kept, Holds
      <4> QED BY <3>1, <4>1, <4>2
    <3> HIDE DEF Kept1
    <3>6. \A i \in Emails : Kept1(i)'
      BY <3>5
    <3> USE DEF Kept1
    <3> QED BY <3>4, <3>6 DEF MailsLocked
  <2> QED BY <2>2, <2>3
<1>2. ASSUME NEW r \in Requests, Handle(r), req'[r] = Idle PROVE MailsLocked'
  <2>1. \A q \in Requests : q # r => Stays(q)
    BY <1>2, HandleCarries DEF Concerns
  <2>2. Idle.pc = "idle"
    BY IdleCall
  <2>3. mailed' = mailed
    BY <1>2, <2>2, LoadRowEffect, FlushRowEffect, FlushAddEffect, MailEffect, CommitRowEffect,
       FailsEffect, DeletePermsEffect, CommitProfileEffect, CommitUpdateEffect,
       CommitDeleteEffect DEF Handle
  <2>4. ASSUME NEW q \in Requests, req'[q].pc = "sent", req'[q].secret # 0
        PROVE  mailed'[req'[q].who] = req'[q].secret
    <3>1. q # r
      BY <1>2, <2>2, <2>4
    <3> QED BY <2>1, <2>3, <2>4, <3>1 DEF MailsLocked, Stays, Kept
  <2>5. ASSUME NEW i \in Emails,
               ~(req[r].pc = "sent" /\ req[r].who = i /\ req[r].secret # 0),
               ident'[i] = ident[i], i \in excused => i \in excused'
        PROVE  Kept1(i)'
    <3>1. Kept1(i)
      BY DEF MailsLocked
    <3>2. CASE \E q \in Requests : Holds(q, i, {"add", "reset"}) /\ req[q].pc = "sent"
                                   /\ req[q].secret = mailed[i]
      <4>1. PICK q \in Requests : Holds(q, i, {"add", "reset"}) /\ req[q].pc = "sent"
                                  /\ req[q].secret = mailed[i]
        BY <3>2
      <4>2. CASE q = r
        BY <2>3, <2>5, <4>1, <4>2 DEF Holds
      <4>3. CASE q # r
        <5>1. Holds(q, i, {"add", "reset"})' /\ req'[q].pc = "sent" /\ req'[q].secret = mailed[i]
          BY <2>1, <4>1, <4>3 DEF Stays, Kept, Holds
        <5> QED BY <2>3, <5>1
      <4> QED BY <4>2, <4>3
    <3> QED BY <2>3, <2>5, <3>1, <3>2
  <2>6. ASSUME NEW i \in Emails, Fails(r) PROVE Kept1(i)'
    <3>1. /\ ident' = ident
          /\ excused' = IF req[r].pc = "sent" THEN excused \cup {req[r].who} ELSE excused
      BY <2>6, FailsEffect DEF SameTables
    <3>2. CASE req[r].pc = "sent" /\ req[r].who = i
      BY <3>1, <3>2
    <3>3. CASE ~(req[r].pc = "sent" /\ req[r].who = i)
      BY <2>5, <3>1, <3>3
    <3> QED BY <3>2, <3>3
  <2>7. ASSUME NEW i \in Emails, CommitRow(r) PROVE Kept1(i)'
    <3>1. /\ req[r].pc = "sent" /\ req[r].op \in Resetting \cup {"add"} /\ req[r].who \in Emails
          /\ i # req[r].who => ident'[i] = ident[i]
          /\ req[r].op = "add" /\ req[r].fresh =>
               ident'[req[r].who] = [password |-> req[r].secret, must |-> TRUE]
          /\ req[r].op = "add" /\ ~req[r].fresh => ident'[req[r].who] = ident[req[r].who]
          /\ req[r].op \in Resetting =>
               ident'[req[r].who] = [password |-> req[r].secret,
                 must |-> IF req[r].writesMust THEN req[r].op = "reset" ELSE ident[req[r].who].must]
      BY <2>7, CommitRowEffect
    <3>2. excused' = IF req[r].op = "change" THEN excused \cup {req[r].who}
                     ELSE IF req[r].secret # 0 THEN excused \ {req[r].who} ELSE excused
      BY <2>7, CommitRowEffect
    <3>3. CASE i # req[r].who
      BY <2>5, <3>1, <3>2, <3>3
    <3>4. CASE i = req[r].who /\ req[r].op = "change"
      BY <3>2, <3>4
    <3>5. CASE i = req[r].who /\ req[r].op = "add" /\ ~req[r].fresh
      <4>1. req[r].secret = 0
        BY <3>5 DEF Calls, Shape
      <4> QED BY <2>5, <3>1, <3>2, <3>5, <4>1
    <3>6. CASE i = req[r].who /\ (req[r].op = "reset" \/ (req[r].op = "add" /\ req[r].fresh))
      <4>1. req[r].secret # 0
        BY <3>1, <3>6 DEF Calls, Shape
      <4>2. mailed'[i] = req[r].secret
        BY <2>3, <3>1, <3>6, <4>1 DEF MailsLocked
      <4>3. \A b \in BOOLEAN : [password |-> req[r].secret, must |-> b] \in Identity
        BY <1>0, Names DEF Call, Identity
      <4>4. \E b \in BOOLEAN : ident'[i] = [password |-> req[r].secret, must |-> b]
        <5>1. CASE req[r].op = "add"
          BY <3>1, <3>6, <5>1
        <5>2. CASE req[r].op = "reset"
          <6>1. ident[i] # None /\ ident[i] \in Identity \cup {None}
            BY <3>6, <5>2 DEF Addresses, Resetting, TypeOK
          <6>2. req[r].writesMust \in BOOLEAN /\ ident[i].must \in BOOLEAN
            BY <1>0, <6>1 DEF Call, Identity
          <6> QED BY <3>1, <3>6, <5>2, <6>2 DEF Resetting
        <5> QED BY <3>6, <5>1, <5>2
      <4>5. ident'[i] # None /\ ident'[i].password = req[r].secret
        BY <4>3, <4>4, Names
      <4> QED BY <4>2, <4>5
    <3> QED BY <1>0, <3>1, <3>3, <3>4, <3>5, <3>6 DEF Resetting
  <2>8. ASSUME ~Fails(r), ~CommitRow(r), NEW i \in Emails PROVE Kept1(i)'
    <3>1. ident' = ident /\ excused' = excused
      BY <1>2, <2>2, <2>8, LoadRowEffect, FlushRowEffect, FlushAddEffect, MailEffect,
         DeletePermsEffect, CommitProfileEffect, CommitUpdateEffect, CommitDeleteEffect
         DEF Handle, SameTables
    <3>2. req[r].pc # "sent"
      BY <1>2, <2>2, <2>8, MailEffect DEF Handle, CommitUpdate, CommitDelete, LoadRow, FlushRow,
         FlushAdd, DeletePerms, CommitProfile, At
    <3> QED BY <2>5, <3>1, <3>2
  <2> HIDE DEF Kept1
  <2>9. \A i \in Emails : Kept1(i)'
    BY <2>6, <2>7, <2>8
  <2> USE DEF Kept1
  <2> QED BY <2>4, <2>9 DEF MailsLocked
<1>3. ASSUME NEW r \in Requests, NEW i \in Emails, Request(r, i) PROVE MailsLocked'
  <2>1. /\ OnlyOne(r) /\ ident' = ident /\ mailed' = mailed /\ excused' = excused
        /\ req'[r].pc = "read" /\ req[r].op = "idle"
    BY <1>3, RequestBegins DEF Begun, SameTables
  <2>2. \A q \in Requests : (q # r => req'[q] = req[q])
    BY <2>1 DEF OnlyOne
  <2>3. req[r].pc = "idle"
    BY <2>1 DEF Calls, Shape
  <2> QED BY <2>1, <2>2, <2>3 DEF MailsLocked, Holds
<1>4. ASSUME req' = req, ident' = ident, mailed' = mailed, excused' = excused PROVE MailsLocked'
  BY <1>4 DEF MailsLocked, Holds
<1> QED BY <1>1, <1>2, <1>3, <1>4, NextCases, AsideEffect, CreateProfileEffect, DeleteProfileEffect
        DEF SameTables

\* A temporary password has still to be changed, unless a reset has overlapped.
LEMMA ForcedStep ==
  ASSUME TypeOK, Calls, Overlaps, Addresses, ForcedStays, TemporaryIsForced, Next
  PROVE  ForcedStays' /\ TemporaryIsForced'
<1>0. \A q \in Requests : /\ req[q] \in Call /\ req[q].fresh \in BOOLEAN
                          /\ req[q].writesMust \in BOOLEAN
                          /\ req[q].op \in Resetting \cup {"add"} => req[q].who \in Emails
  BY DEF Calls, Call, Shape
<1>1. ASSUME NEW r \in Requests, CommitRow(r), NEW i \in Emails
      PROVE  /\ i # req[r].who => ident'[i] = ident[i]
             /\ ident'[i] # None /\ ident'[i].password # 0 /\ ~ident'[i].must => Lower(i) \in raced
  <2>1. /\ req[r].pc = "sent" /\ req[r].op \in Resetting \cup {"add"} /\ req[r].who \in Emails
        /\ i # req[r].who => ident'[i] = ident[i]
        /\ req[r].op = "add" /\ req[r].fresh =>
             ident'[req[r].who] = [password |-> req[r].secret, must |-> TRUE]
        /\ req[r].op = "add" /\ ~req[r].fresh => ident'[req[r].who] = ident[req[r].who]
        /\ req[r].op \in Resetting =>
             ident'[req[r].who] = [password |-> req[r].secret,
               must |-> IF req[r].writesMust THEN req[r].op = "reset" ELSE ident[req[r].who].must]
    BY <1>1, CommitRowEffect
  <2>2. ident[i] # None /\ ident[i].password # 0 /\ ~ident[i].must => Lower(i) \in raced
    BY DEF TemporaryIsForced
  <2>3. CASE i # req[r].who \/ (req[r].op = "add" /\ ~req[r].fresh)
    BY <2>1, <2>2, <2>3
  <2>4. CASE i = req[r].who /\ req[r].op = "add" /\ req[r].fresh
    BY <2>1, <2>4
  <2>5. CASE i = req[r].who /\ req[r].op = "change"
    <3>1. req[r].secret = 0
      BY <2>5 DEF Calls, Shape
    <3> QED BY <2>1, <2>5, <3>1 DEF Resetting
  <2>6. CASE i = req[r].who /\ req[r].op = "reset"
    <3>1. req[r].writesMust \/ ident[i].must \/ Lower(i) \in raced
      BY <2>1, <2>6 DEF ForcedStays
    <3> QED BY <1>0, <2>1, <2>6, <3>1 DEF Resetting
  <2> QED BY <1>0, <2>1, <2>3, <2>4, <2>5, <2>6 DEF Resetting
<1>2. ASSUME NEW r \in Requests, Handle(r), ~CommitRow(r) PROVE ident' = ident
  BY <1>2, LoadRowEffect, FlushRowEffect, FlushAddEffect, MailEffect, FailsEffect,
     DeletePermsEffect, CommitProfileEffect, CommitUpdateEffect, CommitDeleteEffect
     DEF Handle, SameTables
<1>3. ASSUME NEW r \in Requests, Handle(r) PROVE TemporaryIsForced'
  <2>1. raced' = raced
    BY <1>3, HandleCarries
  <2> QED BY <1>1, <1>2, <1>3, <2>1 DEF TemporaryIsForced
<1>4. ASSUME NEW r \in Requests, Handle(r), NEW q \in Requests, req'[q].op = "reset",
             req'[q].pc # "read", ~req'[q].writesMust
      PROVE  ident'[req'[q].who].must \/ Lower(req'[q].who) \in raced
  <2>1. /\ Carried /\ Concerns(r) /\ Kept(q)
    BY <1>4, HandleCarries, IdleCall DEF Carried
  <2>2. req[q].op = "reset" /\ req'[q].who = req[q].who /\ req[q].who \in Emails
    BY <1>0, <1>4, <2>1 DEF Kept, Resetting
  <2>3. ident[req[q].who].must \/ Lower(req[q].who) \in raced
    <3>1. CASE q = r /\ LoadRow(r)
      <4>1. req'[r].writesMust = (ident[req[r].who].must # (req[r].op = "reset"))
        BY <3>1, LoadRowEffect
      <4>2. ident[req[r].who].must \in BOOLEAN
        BY <2>2, <3>1 DEF Addresses, Resetting, TypeOK, Identity
      <4> QED BY <1>4, <2>2, <3>1, <4>1, <4>2
    <3>2. CASE q = r /\ ~LoadRow(r)
      <4>1. FlushRow(r) \/ Mail(r)
        <5>1. req'[r].op # "idle"
          BY <1>4, <3>2
        <5>2. ~CommitRow(r) /\ ~Fails(r) /\ ~CommitProfile(r) /\ ~CommitUpdate(r) /\ ~CommitDelete(r)
          BY <5>1, IdleCall, CommitRowEffect, FailsEffect, CommitProfileEffect,
             CommitUpdateEffect, CommitDeleteEffect
        <5>3. ~FlushAdd(r) /\ ~DeletePerms(r)
          BY <2>2, <3>2 DEF FlushAdd, DeletePerms, At
        <5> QED BY <1>4, <3>2, <5>2, <5>3 DEF Handle
      <4>2. req'[r].writesMust = req[r].writesMust /\ req[r].pc # "read"
        BY <4>1, FlushRowEffect, MailEffect
      <4> QED BY <1>4, <2>2, <3>2, <4>2 DEF ForcedStays
    <3>3. CASE q # r
      <4>1. req'[q].writesMust = req[q].writesMust /\ req'[q].pc = req[q].pc
        BY <2>1, <3>3 DEF Concerns, Stays
      <4> QED BY <1>4, <2>2, <4>1 DEF ForcedStays
    <3> QED BY <3>1, <3>2, <3>3
  <2>4. CASE ident'[req[q].who] = ident[req[q].who]
    BY <2>2, <2>3, <2>4
  <2>5. CASE ident'[req[q].who] # ident[req[q].who]
    <3>1. CommitRow(r)
      BY <1>2, <1>4, <2>5
    <3>2. req[r].who = req[q].who /\ req[r].op \in Resetting \cup {"add"} /\ q # r
      <4>1. req[r].who = req[q].who
        BY <1>1, <2>2, <2>5, <3>1
      <4> QED BY <1>4, <3>1, <4>1, CommitRowEffect, IdleCall
    <3>3. Thing(req[q]) = Lower(req[q].who) /\ Thing(req[r]) = Lower(req[q].who)
          /\ Lower(req[q].who) # None
      BY <1>0, <2>2, <3>2, ThingOf, Names DEF Resetting
    <3> QED BY <2>2, <3>2, <3>3 DEF Overlaps
  <2> QED BY <2>4, <2>5
<1>5. ASSUME NEW r \in Requests, Handle(r) PROVE ForcedStays'
  <2>1. raced' = raced
    BY <1>5, HandleCarries
  <2> QED BY <1>4, <1>5, <2>1 DEF ForcedStays
<1>6. ASSUME NEW r \in Requests, NEW i \in Emails, Request(r, i)
      PROVE  ForcedStays' /\ TemporaryIsForced'
  <2>1. OnlyOne(r) /\ ident' = ident /\ req'[r].pc = "read" /\ raced \subseteq raced'
    BY <1>6, RequestBegins DEF Begun, SameTables
  <2> QED BY <2>1 DEF OnlyOne, ForcedStays, TemporaryIsForced
<1>7. ASSUME req' = req, ident' = ident, raced' = raced PROVE ForcedStays' /\ TemporaryIsForced'
  BY <1>7 DEF ForcedStays, TemporaryIsForced
<1> QED BY <1>3, <1>5, <1>6, <1>7, NextCases, AsideEffect, CreateProfileEffect,
           DeleteProfileEffect DEF SameTables

-----------------------------------------------------------------------------
(* The permissions of profiles *)

\* A union by what is in it.
LEMMA JoinsUnion ==
  ASSUME NEW u, NEW B, Joins(u, B)
  PROVE  u = UNION B
<1>1. \A k : k \in u <=> \E X \in B : k \in X
  BY DEF Joins
<1>2. \A k : k \in u <=> k \in UNION B
  BY <1>1, Zenon
<1> QED BY <1>2, Zenon

\* u joins the grants in E, no key is in two of them, and what joins some of B joins some of E
\* without the keys not in k.
Regrouped(u, E, B, k) ==
  /\ Joins(u, E)
  /\ \A X, Y \in E : X # Y => X \cap Y = {}
  /\ \A D \in SUBSET B : \A d : Joins(d, D) => \E F \in SUBSET E : Joins(d \cap k, F)

\* Of the grants B, those a DELETE has seen (C) are replaced by the grant n, which shares no
\* key with the rest.
LEMMA GrantsReplaced ==
  ASSUME NEW b, NEW B, Joins(b, B), \A X, Y \in B : X # Y => X \cap Y = {},
         NEW c, NEW C \in SUBSET B, Joins(c, C), NEW k, k = b \ c, NEW n, k \cap n = {}
  PROVE  Regrouped(k \cup n, (B \ C) \cup {n}, B, k)
<1>1. \A x : x \in b <=> \E X \in B : x \in X
  BY DEF Joins
<1>2. \A x : x \in c <=> \E X \in C : x \in X
  BY DEF Joins
<1>4. \A x : x \in n => x \notin b \ c
  OBVIOUS
<1>5. ASSUME NEW X \in B, X \notin C, NEW x \in X PROVE x \in b /\ x \notin c
  <2>1. ASSUME NEW Z \in C, x \in Z PROVE FALSE
    <3>1. Z \in B /\ Z # X
      BY <1>5
    <3>2. X \cap Z = {}
      BY <1>5, <3>1
    <3> QED BY <1>5, <2>1, <3>2
  <2> QED BY <1>1, <1>2, <1>5, <2>1
<1>7. Joins(k \cup n, (B \ C) \cup {n})
  BY <1>1, <1>2, <1>5 DEF Joins
<1>8. ASSUME NEW X \in B \ C PROVE X \cap n = {}
  BY <1>4, <1>5, <1>8
<1>9. ASSUME NEW X \in (B \ C) \cup {n}, NEW Y \in (B \ C) \cup {n}, X # Y PROVE X \cap Y = {}
  <2>1. CASE X \in B \ C /\ Y \in B \ C
    BY <1>9, <2>1
  <2>2. CASE X \in B \ C /\ Y = n
    BY <1>8, <2>2
  <2>3. CASE X = n /\ Y \in B \ C
    BY <1>8, <2>3
  <2> QED BY <1>9, <2>1, <2>2, <2>3
<1>10. ASSUME NEW D \in SUBSET B, NEW d, Joins(d, D)
       PROVE  \E E \in SUBSET ((B \ C) \cup {n}) : Joins(d \cap k, E)
  <2>1. D \ C \in SUBSET ((B \ C) \cup {n})
    OBVIOUS
  <2>2. Joins(d \cap k, D \ C)
    BY <1>1, <1>2, <1>5, <1>10 DEF Joins
  <2> QED BY <2>1, <2>2
<1> QED BY <1>7, <1>9, <1>10 DEF Regrouped

\* What the permissions of p are made of stays so.
LEMMA GrantsStay ==
  ASSUME ProfileRows, NEW p \in Profiles, profile[p] # None, profile'[p] = profile[p],
         asked[p] \subseteq asked'[p], raced \subseteq raced',
         \A q \in Deleting(p)' : \/ q \in Deleting(p) /\ req'[q].seen = req[q].seen
                                 \/ q \in Requests /\ req'[q].seen = profile[p].perms
  PROVE  Granted(p)'
<1>1. PICK B \in SUBSET asked[p] : Whole(p, B)
  BY DEF ProfileRows, Granted
<1>2. B \in SUBSET asked'[p] /\ B \in SUBSET B
  OBVIOUS
<1>3. /\ Joins(profile[p].perms, B) /\ \A X, Y \in B : X # Y => X \cap Y = {}
      /\ \A q \in Deleting(p) : \E C \in SUBSET B : Joins(req[q].seen, C)
  BY <1>1 DEF Whole
<1>4. \A q \in Deleting(p)' : \E C \in SUBSET B : Joins(req'[q].seen, C)
  BY <1>2, <1>3
<1>5. Whole(p, B)'
  BY <1>3, <1>4 DEF Whole
<1>6. p \notin raced' => Single(p)'
  <2>1. p \notin raced => Single(p)
    BY DEF ProfileRows, Granted
  <2> QED BY <2>1 DEF Single
<1> QED BY <1>2, <1>5, <1>6 DEF Granted

\* An update replaces the grants it has seen by its own.
LEMMA GrantsUpdated ==
  ASSUME TypeOK, Calls, Overlaps, ProfileRows, NEW r \in Requests, CommitProfile(r),
         NEW p \in Profiles, p = req[r].profile, ~(profile' = profile /\ OnlyOne(r))
  PROVE  Granted(p)'
<1>1. /\ Calls' /\ Concerns(r) /\ req'[r] = Idle /\ At(r, "profile", "deleted")
      /\ profile[p] # None /\ Rest(r) \cap req[r].new = {}
      /\ profile' = [profile EXCEPT ![p].perms = Rest(r) \cup req[r].new]
      /\ \A q \in Requests : q # r =>
           req'[q].seen = IF At(q, "profile", "deleted") /\ req[q].profile = p
                            THEN req[q].seen \cap Rest(r) ELSE req[q].seen
      /\ asked' = asked /\ raced' = raced
  BY CommitProfileEffect
<1>2. profile'[p].perms = Rest(r) \cup req[r].new
  BY <1>1 DEF TypeOK, Profile
<1>3. r \in Deleting(p) /\ req[r].new \in asked[p] /\ Granted(p)
  BY <1>1 DEF Deleting, ProfileRows, At
<1>4. \A q \in Deleting(p)' : q \in Deleting(p) /\ q # r /\ req'[q].seen = req[q].seen \cap Rest(r)
  <2>1. ASSUME NEW q \in Requests, At(q, "profile", "deleted")', req'[q].profile = p
        PROVE  q # r /\ At(q, "profile", "deleted") /\ req[q].profile = p
    <3>1. q # r
      BY <1>1, <2>1, IdleCall DEF At
    <3> QED BY <1>1, <2>1, <3>1 DEF Concerns, Stays, Kept, At
  <2> QED BY <1>1, <2>1 DEF Deleting
<1>5. PICK B \in SUBSET asked[p] : Whole(p, B)
  BY <1>3 DEF Granted
<1>6. /\ Joins(profile[p].perms, B) /\ \A X, Y \in B : X # Y => X \cap Y = {}
      /\ \A q \in Deleting(p) : \E D \in SUBSET B : Joins(req[q].seen, D)
  BY <1>5 DEF Whole
<1>7. PICK C \in SUBSET B : Joins(req[r].seen, C)
  BY <1>3, <1>6
<1>8. PICK b, c, n : b = profile[p].perms /\ c = req[r].seen /\ n = req[r].new
  OBVIOUS
<1>9. Rest(r) = b \ c
  BY <1>8 DEF Rest
<1>15. PICK k : k = b \ c
  OBVIOUS
<1>10. PICK E : E = (B \ C) \cup {n} /\ Regrouped(k \cup n, E, B, k)
  <2>1. Joins(b, B) /\ Joins(c, C) /\ k \cap n = {}
    BY <1>1, <1>6, <1>7, <1>8, <1>9, <1>15
  <2>2. \A X, Y \in B : X # Y => X \cap Y = {}
    BY <1>6
  <2>3. Regrouped(k \cup n, (B \ C) \cup {n}, B, k)
    BY <1>15, <2>1, <2>2, GrantsReplaced
  <2> QED BY <2>3
<1>14. E \in SUBSET asked'[p]
  BY <1>1, <1>3, <1>8, <1>10
<1>16. /\ Joins(k \cup n, E) /\ \A X, Y \in E : X # Y => X \cap Y = {}
       /\ \A D \in SUBSET B : \A d : Joins(d, D) => \E F \in SUBSET E : Joins(d \cap k, F)
  BY <1>10 DEF Regrouped
<1>11. ASSUME NEW q \in Deleting(p)' PROVE \E F \in SUBSET E : Joins(req'[q].seen, F)
  <2>1. PICK D \in SUBSET B : Joins(req[q].seen, D)
    BY <1>4, <1>6
  <2>2. PICK d : d = req[q].seen /\ Joins(d, D)
    BY <2>1
  <2>3. PICK F \in SUBSET E : Joins(d \cap k, F)
    <3>1. Joins(d, D) /\ D \in SUBSET B
      BY <2>1, <2>2
    <3>2. \A D1 \in SUBSET B : \A d1 : Joins(d1, D1) => \E F \in SUBSET E : Joins(d1 \cap k, F)
      BY <1>16
    <3>3. \A d1 : Joins(d1, D) => \E F \in SUBSET E : Joins(d1 \cap k, F)
      BY ONLY <3>1, <3>2
    <3> QED BY ONLY <3>1, <3>3
  <2>4. req'[q].seen = d \cap k
    BY <1>4, <1>9, <1>15, <2>2
  <2> QED BY <2>3, <2>4
<1>12. Whole(p, E)'
  <2>1. Joins(profile'[p].perms, E)
    BY <1>2, <1>8, <1>9, <1>15, <1>16
  <2> QED BY <1>11, <1>16, <2>1 DEF Whole
<1>13. ASSUME p \notin raced' PROVE Single(p)'
  <2>1. Single(p) /\ p \notin raced
    BY <1>1, <1>3, <1>13 DEF Granted
  <2>2. Rest(r) = {}
    BY <1>3, <2>1 DEF Single, Rest
  <2>3. profile'[p].perms \in asked'[p]
    BY <1>1, <1>2, <1>3, <2>2
  <2>4. ASSUME NEW q \in Deleting(p)' PROVE FALSE
    <3>1. q \in Requests /\ q # r /\ req[q].op = "profile" /\ req[q].profile = p
      BY <1>4 DEF Deleting, At
    <3>2. Thing(req[q]) = p /\ Thing(req[r]) = p /\ p # None
      BY <1>1, <3>1, ThingOf, Names DEF Calls, At
    <3> QED BY <2>1, <3>1, <3>2 DEF Overlaps
  <2> QED BY <2>3, <2>4 DEF Single
<1> QED BY <1>12, <1>13, <1>14 DEF Granted

\* A profile grants what requests have asked for, in whole.
LEMMA ProfileRowsStep ==
  ASSUME TypeOK, Calls, Overlaps, Memberships, ProfileRows, Next
  PROVE  ProfileRows'
<1>0. \A q \in Requests : req[q] \in Call /\ (req[q].op = "profile" => req[q].profile \in Profiles)
  BY DEF Calls, Shape
<1>1. ASSUME NEW r \in Requests, Handle(r) PROVE ProfileRows'
  <2>1. Carried /\ Concerns(r) /\ raced' = raced /\ asked' = asked
    BY <1>1, HandleCarries
  <2>2. \A q \in Requests : req'[q].op = "profile" => req'[q].new \in asked'[req'[q].profile]
    BY <2>1, IdleCall DEF Carried, Kept, ProfileRows
  <2>3. ~CommitProfile(r) => profile' = profile
    BY <1>1, LoadRowEffect, FlushRowEffect, FlushAddEffect, MailEffect, CommitRowEffect,
       FailsEffect, DeletePermsEffect, CommitUpdateEffect, CommitDeleteEffect
       DEF Handle, SameTables
  <2>4. ASSUME NEW p \in Profiles, ~(CommitProfile(r) /\ p = req[r].profile)
        PROVE  profile'[p] = profile[p]
    <3>1. CASE CommitProfile(r)
      <4>1. profile' = profile \/
            profile' = [profile EXCEPT ![req[r].profile].perms = Rest(r) \cup req[r].new]
        BY <3>1, CommitProfileEffect
      <4> QED BY <2>4, <3>1, <4>1 DEF TypeOK
    <3> QED BY <2>3, <3>1
  <2>5. ASSUME NEW p \in Profiles, profile[p] = None PROVE profile'[p] = None
    <3>1. CASE CommitProfile(r) /\ p = req[r].profile
      <4>1. profile' = profile \/ profile[req[r].profile] # None
        BY <3>1, CommitProfileEffect
      <4> QED BY <2>5, <3>1, <4>1
    <3> QED BY <2>4, <2>5, <3>1
  <2>6. ASSUME NEW p \in Profiles, profile[p] # None PROVE Granted(p)'
    <3>1. CASE CommitProfile(r) /\ p = req[r].profile /\ ~(profile' = profile /\ OnlyOne(r))
      BY <3>1, GrantsUpdated
    <3>2. CASE ~(CommitProfile(r) /\ p = req[r].profile) \/ (profile' = profile /\ OnlyOne(r))
      <4>1. profile'[p] = profile[p]
        BY <2>4, <3>2
      <4>2. ASSUME NEW q \in Deleting(p)'
            PROVE  \/ q \in Deleting(p) /\ req'[q].seen = req[q].seen
                   \/ q \in Requests /\ req'[q].seen = profile[p].perms
        <5>1. q \in Requests /\ req'[q].op = "profile" /\ req'[q].pc = "deleted" /\ req'[q].profile = p
          BY DEF Deleting, At
        <5>2. req[q].op = "profile" /\ req[q].profile = p /\ req'[q] # Idle
          BY <2>1, <5>1, IdleCall DEF Carried, Kept
        <5>3. CASE q # r
          <6>1. req[q].pc = "deleted"
            BY <2>1, <5>1, <5>3 DEF Concerns, Stays
          <6>2. req'[q].seen = req[q].seen
            <7>1. CASE OnlyOne(r)
              BY <5>1, <5>3, <7>1 DEF OnlyOne
            <7>2. CASE ~OnlyOne(r)
              <8>1. CommitProfile(r)
                BY <1>1, <7>2, LoadRowEffect, FlushRowEffect, FlushAddEffect, MailEffect,
                   CommitRowEffect, FailsEffect, DeletePermsEffect, CommitUpdateEffect,
                   CommitDeleteEffect DEF Handle
              <8>2. req'[q].seen = IF At(q, "profile", "deleted")
                                      /\ req[q].profile = req[r].profile
                                     THEN req[q].seen \cap Rest(r) ELSE req[q].seen
                BY <5>1, <5>3, <7>2, <8>1, CommitProfileEffect
              <8> QED BY <3>2, <5>2, <7>2, <8>1, <8>2
            <7> QED BY <7>1, <7>2
          <6> QED BY <5>1, <5>2, <6>1, <6>2 DEF Deleting, At
        <5>4. CASE q = r
          <6>1. DeletePerms(r)
            <7>1. ~LoadRow(r) /\ ~FlushRow(r) /\ ~Mail(r) /\ ~FlushAdd(r)
              <8>1. "profile" \notin Resetting
                BY DEF Resetting
              <8> QED BY <5>2, <5>4, <8>1, LoadRowEffect, FlushRowEffect, FlushAddEffect, MailEffect
            <7> QED BY <1>1, <5>2, <5>4, <7>1, CommitRowEffect, FailsEffect, CommitProfileEffect,
                    CommitUpdateEffect, CommitDeleteEffect DEF Handle
          <6> QED BY <5>1, <5>2, <5>4, <6>1, DeletePermsEffect
        <5> QED BY <5>3, <5>4
      <4> QED BY <2>1, <2>6, <4>1, <4>2, GrantsStay
    <3> QED BY <3>1, <3>2
  <2> QED BY <2>1, <2>2, <2>5, <2>6 DEF ProfileRows
<1>2. ASSUME NEW r \in Requests, NEW i \in Emails, Request(r, i) PROVE ProfileRows'
  <2>1. /\ Begun(r)
        /\ \/ req'[r].op # "profile" /\ asked' = asked
           \/ /\ req'[r].op = "profile" /\ req'[r].profile \in Profiles
              /\ profile[req'[r].profile] # None
              /\ asked' = [asked EXCEPT ![req'[r].profile] = @ \cup {req'[r].new}]
    BY <1>2, RequestKnows
  <2>2. /\ profile' = profile /\ raced \subseteq raced' /\ req'[r].pc = "read"
        /\ \A q \in Requests : q # r => req'[q] = req[q]
    BY <2>1 DEF Begun, SameTables, OnlyOne
  <2>3. \A p \in Profiles : asked[p] \subseteq asked'[p]
    BY <2>1 DEF TypeOK
  <2>4. req'[r].op = "profile" => req'[r].new \in asked'[req'[r].profile]
    BY <2>1 DEF TypeOK
  <2>5. \A q \in Requests : req'[q].op = "profile" => req'[q].new \in asked'[req'[q].profile]
    BY <1>0, <2>2, <2>3, <2>4 DEF ProfileRows
  <2>6. \A p \in Profiles : asked'[p] = {} => profile'[p] = None
    BY <2>2, <2>3 DEF ProfileRows
  <2>7. ASSUME NEW p \in Profiles, profile[p] # None PROVE Granted(p)'
    <3>1. \A q \in Deleting(p)' : q \in Deleting(p) /\ req'[q].seen = req[q].seen
      BY <2>2 DEF Deleting, At
    <3> QED BY <2>2, <2>3, <2>7, <3>1, GrantsStay
  <2> QED BY <2>2, <2>5, <2>6, <2>7 DEF ProfileRows
<1>3. ASSUME req' = req, profile' = profile, asked' = asked, raced' = raced PROVE ProfileRows'
  <2>1. ASSUME NEW p \in Profiles, profile[p] # None PROVE Granted(p)'
    <3>1. \A q \in Deleting(p)' : q \in Deleting(p) /\ req'[q].seen = req[q].seen
      BY <1>3 DEF Deleting, At
    <3> QED BY <1>3, <2>1, <3>1, GrantsStay
  <2> QED BY <1>3, <2>1 DEF ProfileRows
<1>4. ASSUME NEW i \in Emails, NEW p \in Profiles, DeleteProfile(i, p) PROVE ProfileRows'
  <2>1. /\ profile' = [profile EXCEPT ![p] = None] /\ req' = req /\ asked' = asked
        /\ raced' = raced
    BY <1>4, DeleteProfileEffect
  <2>2. profile'[p] = None /\ \A x \in Profiles : x # p => profile'[x] = profile[x]
    BY <2>1 DEF TypeOK
  <2>3. ASSUME NEW x \in Profiles, x # p, profile[x] # None PROVE Granted(x)'
    <3>1. \A q \in Deleting(x)' : q \in Deleting(x) /\ req'[q].seen = req[q].seen
      BY <2>1 DEF Deleting, At
    <3> QED BY <2>1, <2>2, <2>3, <3>1, GrantsStay
  <2> QED BY <2>1, <2>2, <2>3 DEF ProfileRows
<1>5. ASSUME NEW i \in Emails, NEW p \in Profiles, NEW perms \in Grants, CreateProfile(i, p, perms)
      PROVE  ProfileRows'
  <2>1. /\ asked[p] = {} /\ asked' = [asked EXCEPT ![p] = {perms}]
        /\ profile' = [profile EXCEPT ![p] = [acc |-> DefaultAccount, system |-> FALSE,
                                               perms |-> perms]]
        /\ req' = req /\ raced' = raced
    BY <1>5, CreateProfileEffect
  <2>2. /\ profile'[p].perms = perms /\ asked'[p] = {perms}
        /\ \A x \in Profiles : x # p => profile'[x] = profile[x] /\ asked'[x] = asked[x]
    BY <2>1 DEF TypeOK
  <2>3. \A q \in Requests : req[q].op = "profile" => req[q].profile # p
    BY <2>1 DEF ProfileRows
  <2>4. Deleting(p)' = {}
    BY <2>1, <2>3 DEF Deleting, At
  <2>5. Granted(p)'
    <3>1. Whole(p, {perms})'
      BY <2>2, <2>4 DEF Whole, Joins
    <3>2. Single(p)' /\ {perms} \in SUBSET asked'[p]
      BY <2>2, <2>4 DEF Single
    <3> QED BY <3>1, <3>2 DEF Granted
  <2>6. ASSUME NEW x \in Profiles, x # p, profile[x] # None PROVE Granted(x)'
    <3>1. \A q \in Deleting(x)' : q \in Deleting(x) /\ req'[q].seen = req[q].seen
      BY <2>1 DEF Deleting, At
    <3> QED BY <2>1, <2>2, <2>6, <3>1, GrantsStay
  <2>7. \A q \in Requests : req'[q].op = "profile" => req'[q].new \in asked'[req'[q].profile]
    BY <1>0, <2>1, <2>2, <2>3 DEF ProfileRows
  <2>8. \A x \in Profiles : asked'[x] = {} => profile'[x] = None
    BY <2>2 DEF ProfileRows
  <2> QED BY <2>2, <2>5, <2>6, <2>7, <2>8 DEF ProfileRows
<1> QED BY <1>1, <1>2, <1>3, <1>4, <1>5, NextCases, AsideEffect DEF SameTables

-----------------------------------------------------------------------------
(* The audit trail, and the types *)

\* What has no row in the audit trail stays explained.
LEMMA UnauditedStep ==
  ASSUME TypeOK, Calls, UnauditedExplained, Next
  PROVE  UnauditedExplained' /\ \A u \in unaudited' : u.by \in Emails
<1>1. legacy' = legacy
  BY LegacyStays
<1>2. Trail
  BY NextCases, HandleCarries, RequestBegins, NoTrail, AsideEffect, CreateProfileEffect,
     DeleteProfileEffect DEF Begun
<1>3. ASSUME NEW u \in unaudited PROVE Explained(u)'
  <2>1. Explained(u)
    BY DEF UnauditedExplained
  <2>2. faults > 0 => faults' > 0
    BY <1>2 DEF Trail
  <2> QED BY <1>1, <2>1, <2>2 DEF Explained
<1>4. \A u \in unaudited' : Explained(u)' /\ u.by \in Emails
  BY <1>2, <1>3 DEF Trail, TypeOK
<1> QED BY <1>4 DEF UnauditedExplained

\* The tables hold rows.
Rows == /\ ident \in [Emails -> Identity \cup {None}]
        /\ profile \in [Profiles -> Profile \cup {None}]
        /\ excused \subseteq Emails

\* A step of a handler writes rows.
LEMMA RowsHandle ==
  ASSUME TypeOK, Calls, Addresses, NEW r \in Requests, Handle(r)
  PROVE  Rows'
<1>0. Rows /\ req[r] \in Call
  BY DEF TypeOK, Rows, Calls
<1>1. CASE CommitRow(r)
  <2>1. /\ req[r].op \in Resetting \cup {"add"} /\ req[r].who \in Emails
        /\ \A i \in Emails : i # req[r].who => ident'[i] = ident[i]
        /\ req[r].op = "add" /\ req[r].fresh =>
             ident'[req[r].who] = [password |-> req[r].secret, must |-> TRUE]
        /\ req[r].op = "add" /\ ~req[r].fresh => ident'[req[r].who] = ident[req[r].who]
        /\ req[r].op \in Resetting =>
             ident'[req[r].who] = [password |-> req[r].secret,
               must |-> IF req[r].writesMust THEN req[r].op = "reset" ELSE ident[req[r].who].must]
        /\ excused' \subseteq excused \cup {req[r].who} /\ profile' = profile
    BY <1>1, CommitRowEffect
  <2>2. \A b \in BOOLEAN : [password |-> req[r].secret, must |-> b] \in Identity
    BY <1>0, Names DEF Call, Identity
  <2>3. ident'[req[r].who] \in Identity \cup {None}
    <3>1. CASE req[r].op \in Resetting
      <4>1. ident[req[r].who] \in Identity
        BY <1>0, <2>1, <3>1 DEF Addresses, Rows
      <4>2. ident[req[r].who].must \in BOOLEAN /\ req[r].writesMust \in BOOLEAN
        BY <1>0, <4>1 DEF Identity, Call
      <4>3. (IF req[r].writesMust THEN req[r].op = "reset" ELSE ident[req[r].who].must) \in BOOLEAN
        BY <4>2
      <4> QED BY <2>1, <2>2, <3>1, <4>3
    <3>2. CASE req[r].op = "add" /\ req[r].fresh
      BY <2>1, <2>2, <3>2
    <3>3. CASE req[r].op = "add" /\ ~req[r].fresh
      BY <1>0, <2>1, <3>3 DEF Rows
    <3> QED BY <1>0, <2>1, <3>1, <3>2, <3>3 DEF Call
  <2>4. ident' = [i \in Emails |-> ident'[i]]
    BY <1>1 DEF CommitRow, TypeOK
  <2>5. \A i \in Emails : ident'[i] \in Identity \cup {None}
    BY <1>0, <2>1, <2>3 DEF Rows
  <2>6. ident' \in [Emails -> Identity \cup {None}]
    BY <2>4, <2>5
  <2> QED BY <1>0, <2>1, <2>6 DEF Rows
<1>2. CASE CommitProfile(r)
  <2>1. /\ req[r].profile \in Profiles /\ ident' = ident /\ excused' = excused
        /\ \/ profile' = profile
           \/ /\ profile[req[r].profile] # None
              /\ profile' = [profile EXCEPT ![req[r].profile].perms = Rest(r) \cup req[r].new]
    BY <1>2, CommitProfileEffect
  <2>2. CASE profile' = profile
    BY <1>0, <2>1, <2>2 DEF Rows
  <2>3. CASE profile' # profile
    <3> DEFINE y == [profile[req[r].profile] EXCEPT !.perms = Rest(r) \cup req[r].new]
    <3>1. profile[req[r].profile] \in Profile
      BY <1>0, <2>1, <2>3 DEF Rows
    <3>2. y \in Profile
      BY <1>0, <3>1 DEF Profile, Rest, Call
    <3>3. profile' = [profile EXCEPT ![req[r].profile] = y]
      BY <1>0, <2>1, <2>3 DEF Rows
    <3> HIDE DEF y
    <3> QED BY <1>0, <2>1, <3>2, <3>3 DEF Rows
  <2> QED BY <2>2, <2>3
<1>3. CASE ~CommitRow(r) /\ ~CommitProfile(r)
  <2>1. ident' = ident /\ profile' = profile /\ excused' \subseteq excused \cup Emails
    BY <1>3, LoadRowEffect, FlushRowEffect, FlushAddEffect, MailEffect, FailsEffect,
       DeletePermsEffect, CommitUpdateEffect, CommitDeleteEffect DEF Handle, SameTables
  <2> QED BY <1>0, <2>1 DEF Rows
<1> QED BY <1>1, <1>2, <1>3

\* Every step keeps the types.
LEMMA TypesStep ==
  ASSUME TypeOK, Calls, Memberships, AddsNew, Addresses, UnauditedExplained, Next
  PROVE  TypeOK'
<1> DEFINE Numbers == /\ mailed \in [Emails -> 0..MaxMails] /\ mails \in 0..MaxMails
                      /\ begun \in 0..MaxRequests /\ faults \in 0..MaxFaults
           Asked == asked \in [Profiles -> SUBSET SUBSET Keys]
           Tokens == session \in [Emails -> Session \cup {None}]
<1>0. Numbers /\ Asked /\ Tokens /\ Rows
  BY DEF TypeOK, Rows
<1>1. ASSUME NEW r \in Requests, Handle(r) PROVE (Numbers /\ Asked /\ Tokens /\ Rows)'
  <2>1. Rows' /\ asked' = asked /\ session' = session /\ begun' = begun
    BY <1>1, RowsHandle, HandleCarries
  <2>2. mailed' \in [Emails -> 0..MaxMails] /\ mails' \in 0..MaxMails
    BY <1>0, <1>1, LoadRowEffect, FlushRowEffect, FlushAddEffect, MailEffect, CommitRowEffect,
       FailsEffect, DeletePermsEffect, CommitProfileEffect, CommitUpdateEffect,
       CommitDeleteEffect DEF Handle
  <2>3. faults' \in 0..MaxFaults
    BY <1>1, HandleCarries DEF Trail
  <2> QED BY <1>0, <2>1, <2>2, <2>3
<1>2. ASSUME NEW r \in Requests, NEW i \in Emails, Request(r, i)
      PROVE  (Numbers /\ Asked /\ Tokens /\ Rows)'
  <2>1. Begun(r) /\ asked' \in [Profiles -> SUBSET SUBSET Keys]
    BY <1>2, RequestKnows
  <2> QED BY <1>0, <2>1 DEF Begun, SameTables, Rows
<1>3. ASSUME NEW i \in Emails, Aside(i) PROVE (Numbers /\ Asked /\ Tokens /\ Rows)'
  BY <1>0, <1>3, AsideEffect DEF SameTables, Rows, Trail
<1>4. ASSUME NEW i \in Emails, NEW p \in Profiles, DeleteProfile(i, p)
      PROVE  (Numbers /\ Asked /\ Tokens /\ Rows)'
  BY <1>0, <1>4, DeleteProfileEffect DEF Rows, Trail
<1>5. ASSUME NEW i \in Emails, NEW p \in Profiles, NEW perms \in Grants, CreateProfile(i, p, perms)
      PROVE  (Numbers /\ Asked /\ Tokens /\ Rows)'
  BY <1>0, <1>5, CreateProfileEffect DEF Rows, Trail
<1>6. (Numbers /\ Asked /\ Tokens /\ Rows)'
  BY ONLY <1>1, <1>2, <1>3, <1>4, <1>5, TypeOK, Next, NextCases
<1>7. legacy' \subseteq User /\ members' \subseteq Membership /\ OnePerAddress'
      /\ \A u \in unaudited' : u.by \in Emails
  BY LegacyStays, MembershipsStep, OnePerAddressStep, UnauditedStep DEF TypeOK
<1> QED BY <1>6, <1>7 DEF TypeOK, Rows

-----------------------------------------------------------------------------
(* The migration *)

\* The members of the first account, per user, and those of the others, per founder.
Moved == [u \in legacy |->
  [who |-> u.who, acc |-> u.acc, role |-> IF u = OwnerOf(legacy, u.acc) THEN "admin" ELSE u.role,
   active |-> u.active, owner |-> u = OwnerOf(legacy, u.acc),
   profile |-> IF u.role = "admin" THEN "Admin" ELSE "Operador"]]
Settled == [f \in Founders |-> Seed(f)]

\* What the migration makes of a user.
LEMMA MovedRow ==
  ASSUME legacy \subseteq User, NEW u \in legacy, u.acc = DefaultAccount
  PROVE  /\ Moved[u] \in Membership /\ Moved[u].who = u.who /\ Moved[u].acc = DefaultAccount
         /\ Moved[u].owner => Moved[u].role = "admin"
         /\ Moved[u].profile \in {"Admin", "Operador"}
<1> DEFINE owner == u = OwnerOf(legacy, u.acc)
           y == [who |-> u.who, acc |-> u.acc, role |-> IF owner THEN "admin" ELSE u.role,
                 active |-> u.active, owner |-> owner,
                 profile |-> IF u.role = "admin" THEN "Admin" ELSE "Operador"]
<1>1. u \in User /\ owner \in BOOLEAN /\ Moved[u] = y
  BY DEF Moved
<1> HIDE DEF owner
<1>2. /\ y \in Membership /\ y.who = u.who /\ y.acc = DefaultAccount
      /\ y.owner => y.role = "admin"
      /\ y.profile \in {"Admin", "Operador"}
  BY <1>1, Names DEF User, Membership, Roles
<1> HIDE DEF y
<1> QED BY <1>1, <1>2

\* What the seeding makes of a founder.
LEMMA SettledRow ==
  ASSUME NEW f \in Founders
  PROVE  /\ Settled[f] \in Membership /\ Settled[f].who = f[2] /\ Settled[f].acc = f[1]
         /\ f[1] # DefaultAccount /\ Settled[f].role = "admin" /\ Settled[f].profile = None
<1>1. f \in (Accounts \ {DefaultAccount}) \X Emails
  BY FoundersAssumption
<1>2. f[1] \in Accounts /\ f[1] # DefaultAccount /\ f[2] \in Emails
  BY <1>1
<1>3. Settled[f] = Seed(f)
  BY DEF Settled
<1>4. /\ Seed(f) \in Membership /\ Seed(f).who = f[2] /\ Seed(f).acc = f[1]
      /\ Seed(f).role = "admin" /\ Seed(f).profile = None
  BY <1>2 DEF Seed, Membership, Roles
<1> QED BY <1>2, <1>3, <1>4

\* A migrated member was a user or is a founder.
LEMMA MigratedFrom ==
  ASSUME Init
  PROVE  /\ legacy \in LegacyTables /\ Distinct(legacy) /\ IsFiniteSet(legacy)
         /\ legacy \subseteq User /\ \A u \in legacy : u.acc = DefaultAccount
         /\ IsFiniteSet(members)
         /\ \A u \in legacy : Moved[u] \in members
         /\ \A f \in Founders : Settled[f] \in members
         /\ \A m \in members : \/ \E u \in legacy : m = Moved[u]
                               \/ \E f \in Founders : m = Settled[f]
<1>1. legacy \in LegacyTables /\ Distinct(legacy)
  BY DEF Init
<1>2. /\ IsFiniteSet(legacy) /\ legacy \subseteq User
      /\ \A u \in legacy : u.acc = DefaultAccount
  BY <1>1, LegacyAssumption
<1> DEFINE A == {Moved[u] : u \in legacy}
           B == {Settled[f] : f \in Founders}
<1>3. members = A \cup B
  BY DEF Init, Migrated, Backfill, Moved, Settled
<1>4. (\A u \in legacy : Moved[u] \in A) /\ \A m \in A : \E u \in legacy : m = Moved[u]
  OBVIOUS
<1>5. (\A f \in Founders : Settled[f] \in B) /\ \A m \in B : \E f \in Founders : m = Settled[f]
  OBVIOUS
<1> HIDE DEF A, B
<1>6. IsFiniteSet(A) /\ IsFiniteSet(B)
  <2>1. PICK moved, users : moved = Moved /\ users = legacy
    OBVIOUS
  <2>2. IsFiniteSet(A)
    <3>1. (\A u \in users : moved[u] \in A) /\ \A m \in A : \E u \in users : m = moved[u]
      BY <1>4, <2>1
    <3> QED BY <1>2, <2>1, <3>1, ImageFinite
  <2>3. IsFiniteSet(B)
    BY <1>5, FoundersAssumption, ImageFinite
  <2> QED BY <2>2, <2>3
<1>7. IsFiniteSet(A \cup B)
  BY <1>6, FS_Union
<1> QED BY <1>1, <1>2, <1>3, <1>4, <1>5, <1>7

\* The memberships after the migration.
LEMMA MigratedMembers ==
  ASSUME Init
  PROVE  Memberships /\ members \subseteq Membership /\ ProfilesOwn /\ OnePerAddress
         /\ ident \in [Emails -> Identity \cup {None}]
         /\ \A i \in Emails : ident[i] # None => ident[i].password = 0
<1>1. /\ legacy \in LegacyTables /\ Distinct(legacy) /\ legacy \subseteq User
      /\ IsFiniteSet(members) /\ \A u \in legacy : u.acc = DefaultAccount
      /\ \A m \in members : \/ \E u \in legacy : m = Moved[u]
                            \/ \E f \in Founders : m = Settled[f]
  BY MigratedFrom
<1>2. \A u \in legacy : /\ Moved[u] \in Membership /\ Moved[u].who = u.who
                        /\ Moved[u].acc = DefaultAccount
                        /\ Moved[u].owner => Moved[u].role = "admin"
                        /\ Moved[u].profile \in {"Admin", "Operador"}
  BY <1>1, MovedRow
<1>3. \A f \in Founders : /\ Settled[f] \in Membership /\ Settled[f].who = f[2]
                          /\ Settled[f].acc = f[1] /\ f[1] # DefaultAccount
                          /\ Settled[f].role = "admin" /\ Settled[f].profile = None
  BY SettledRow
<1>4. members \subseteq Membership /\ \A m \in members : m.owner => m.role = "admin"
  BY <1>1, <1>2, <1>3
<1>5. ASSUME NEW m \in members, NEW n \in members, Lower(m.who) = Lower(n.who)
      PROVE  m.who = n.who /\ (m.acc = n.acc => m = n)
  <2>1. ASSUME NEW u \in legacy, NEW v \in legacy, m = Moved[u], n = Moved[v]
        PROVE  m = n
    BY <1>1, <1>2, <1>5, <2>1 DEF Distinct
  <2>2. ASSUME NEW f \in Founders, NEW g \in Founders, m = Settled[f], n = Settled[g]
        PROVE  m.who = n.who /\ (m.acc = n.acc => m = n)
    <3>1. f[2] = g[2]
      BY <1>3, <1>5, <2>2, FoundersAssumption
    <3>2. f[1] = g[1] => f = g
      <4>1. f \in (Accounts \ {DefaultAccount}) \X Emails /\ g \in (Accounts \ {DefaultAccount}) \X Emails
        BY FoundersAssumption
      <4> QED BY <3>1, <4>1
    <3> QED BY <1>3, <2>2, <3>1, <3>2
  <2>3. ASSUME NEW u \in legacy, NEW f \in Founders, Lower(u.who) = Lower(f[2])
        PROVE  u.who = f[2]
    BY <1>1, <2>3, LegacyAssumption
  <2> QED BY <1>1, <1>2, <1>3, <1>5, <2>1, <2>2, <2>3
<1>6. \A b \in BOOLEAN : LET x == [password |-> 0, must |-> b] IN
        x \in Identity /\ x # None /\ x.password = 0
  BY Names DEF Identity
<1>7. ASSUME NEW i \in Emails
      PROVE  /\ ident[i] \in Identity \cup {None}
             /\ ident[i] # None => ident[i].password = 0 /\ \E m \in members : m.who = i
             /\ (\E m \in members : m.who = i) => ident[i] # None
  <2> DEFINE b == \E u \in legacy : u.who = i /\ u.must
  <2>1. ident[i] = IF \E m \in members : m.who = i THEN [password |-> 0, must |-> b] ELSE None
    BY DEF Init
  <2>2. b \in BOOLEAN
    OBVIOUS
  <2> HIDE DEF b
  <2> QED BY <1>6, <2>1, <2>2
<1>8. ident \in [Emails -> Identity \cup {None}]
  <2>1. ident = [i \in Emails |-> ident[i]]
    BY DEF Init
  <2> QED BY <1>7, <2>1
<1>9. OnePerAddress
  BY <1>5, <1>7 DEF OnePerAddress
<1>10. Memberships
  <2>1. \A m \in members : ident[m.who] # None
    BY <1>4, <1>7 DEF Membership
  <2>2. \A q \in Requests : req[q].op \notin Managing
    BY IdleCall DEF Init, Managing
  <2> QED BY <1>1, <1>4, <1>5, <2>1, <2>2 DEF Memberships
<1>11. ProfilesOwn
  <2>1. \A p \in {"Admin", "Operador"} : /\ p \in Profiles /\ Seeded(p) \in Profile
                                         /\ Seeded(p).acc = DefaultAccount
    BY Names, KeysAssumption DEF Seeded, Profile
  <2>2. \A p \in {"Admin", "Operador"} : profile[p] = Seeded(p)
    BY <2>1 DEF Init
  <2>3. ASSUME NEW m \in members, m.profile # None
        PROVE  m.profile \in {"Admin", "Operador"} /\ m.acc = DefaultAccount
    BY <1>1, <1>2, <1>3, <2>3
  <2> QED BY <2>1, <2>2, <2>3, Names DEF ProfilesOwn
<1> QED BY <1>4, <1>7, <1>8, <1>9, <1>10, <1>11

\* The invariant holds after the migrations.
LEMMA Start ==
  ASSUME Init
  PROVE  House
<1>1. /\ Memberships /\ members \subseteq Membership /\ ProfilesOwn /\ OnePerAddress
      /\ ident \in [Emails -> Identity \cup {None}]
      /\ \A i \in Emails : ident[i] # None => ident[i].password = 0
  BY MigratedMembers
<1>2. /\ \A r \in Requests : req[r] = Idle
      /\ req \in [Requests -> Call] /\ Idle.op = "idle" /\ Idle.pc = "idle" /\ Shape(Idle)
  BY IdleCall DEF Init
<1>3. legacy \subseteq User
  BY MigratedFrom
<1>4. /\ \A i \in Emails : session[i] = None
      /\ session \in [Emails -> Session \cup {None}] /\ mailed \in [Emails -> 0..MaxMails]
      /\ \A i \in Emails : mailed[i] = 0
      /\ mails \in 0..MaxMails /\ begun \in 0..MaxRequests /\ faults \in 0..MaxFaults
      /\ unaudited = {} /\ raced = {} /\ excused = {} /\ members = Migrated
  BY Names DEF Init
<1>5. ASSUME NEW p \in Profiles
      PROVE  /\ profile[p] \in Profile \cup {None}
             /\ asked[p] = IF profile[p] = None THEN {} ELSE {profile[p].perms}
             /\ asked[p] \in SUBSET SUBSET Keys
  <2>1. profile[p] = IF p \in {"Admin", "Operador"} THEN Seeded(p) ELSE None
    BY DEF Init
  <2>2. Seeded(p) \in Profile
    BY Names, KeysAssumption DEF Seeded, Profile
  <2>3. profile[p] \in Profile \cup {None}
    BY <2>1, <2>2
  <2>4. asked[p] = IF profile[p] = None THEN {} ELSE {profile[p].perms}
    BY DEF Init
  <2> QED BY <2>3, <2>4 DEF Profile
<1>6. profile \in [Profiles -> Profile \cup {None}] /\ asked \in [Profiles -> SUBSET SUBSET Keys]
  <2>1. profile = [p \in Profiles |-> profile[p]] /\ asked = [p \in Profiles |-> asked[p]]
    BY DEF Init
  <2> QED BY <1>5, <2>1
<1>7. TypeOK
  BY <1>1, <1>3, <1>4, <1>6 DEF TypeOK
<1>8. Calls /\ Overlaps
  <2>1. Thing(Idle) = None
    BY IdleCall, ThingOf
  <2> QED BY <1>2, <1>4, <2>1 DEF Calls, TokensName, Overlaps
<1>9. Exclusive /\ AddsNew /\ Addresses
  BY <1>2 DEF Exclusive, Holds, AddsNew, Addresses, Resetting
<1>10. Spare
  <2>1. ASSUME NEW a \in Accounts, HadAdmin(a) PROVE ActiveAdmins(a) # {}
    BY <1>4, <2>1 DEF HadAdmin, ActiveAdmins
  <2>2. \A r \in Requests, a \in Accounts : ~Takes(req[r], a)
    BY <1>2 DEF Takes, Managing
  <2> QED BY <2>1, <2>2 DEF Spare
<1>11. Passwords
  BY <1>1, <1>2, <1>4 DEF Passwords, MailsLocked, ForcedStays, TemporaryIsForced
<1>12. ProfileRows
  <2>1. \A r \in Requests : req[r].op # "profile"
    BY <1>2
  <2>2. ASSUME NEW p \in Profiles, profile[p] # None PROVE Granted(p)
    <3>1. Deleting(p) = {}
      BY <2>1 DEF Deleting, At
    <3>2. asked[p] = {profile[p].perms}
      BY <1>5, <2>2
    <3>3. Whole(p, {profile[p].perms})
      BY <3>1 DEF Whole, Joins
    <3>4. Single(p)
      BY <3>1, <3>2 DEF Single
    <3> QED BY <3>2, <3>3, <3>4 DEF Granted
  <2> QED BY <1>5, <2>1, <2>2 DEF ProfileRows
<1>13. UnauditedExplained
  BY <1>4 DEF UnauditedExplained
<1> QED BY <1>1, <1>4, <1>7, <1>8, <1>9, <1>10, <1>11, <1>12, <1>13 DEF House

-----------------------------------------------------------------------------
(* Theorems *)

\* Every step keeps the invariant.
LEMMA HouseStep ==
  ASSUME House, [Next]_vars
  PROVE  House'
<1>1. CASE Next
  <2>1. TypeOK' /\ Calls' /\ Overlaps' /\ Migrated' \subseteq Membership
    BY <1>1, TypesStep, OverlapsStep, LegacyStays DEF House
  <2>2. Memberships' /\ Exclusive' /\ AddsNew' /\ Addresses' /\ Spare'
    BY <1>1, MembershipsStep, ExclusiveStep, AddsNewStep, AddressesStep, SpareStep DEF House
  <2>3. Passwords'
    BY <1>1, MailsLockedStep, ForcedStep DEF House, Passwords
  <2>4. ProfilesOwn' /\ ProfileRows' /\ UnauditedExplained'
    BY <1>1, ProfilesOwnStep, ProfileRowsStep, UnauditedStep DEF House
  <2> QED BY <2>1, <2>2, <2>3, <2>4 DEF House
<1>2. CASE UNCHANGED vars
  <2>1. /\ SameTables /\ session' = session /\ mailed' = mailed /\ req' = req
        /\ mails' = mails /\ begun' = begun /\ faults' = faults /\ unaudited' = unaudited
        /\ asked' = asked /\ raced' = raced /\ excused' = excused
    BY <1>2 DEF vars, tables, hist, past, SameTables
  <2>2. TypeOK' /\ Migrated' \subseteq Membership
    BY <2>1 DEF House, SameTables, TypeOK, OnePerAddress, Migrated
  <2>3. Calls' /\ Overlaps'
    BY <2>1 DEF House, Calls, TokensName, Overlaps
  <2>4. Memberships' /\ AddsNew' /\ Addresses'
    BY <2>1 DEF House, SameTables, Memberships, Member, AddsNew, ProfileOf, Addresses
  <2>5. Exclusive'
    BY <2>1 DEF House, Exclusive, Holds
  <2>6. Spare'
    BY <2>1 DEF House, SameTables, Spare, HadAdmin, Migrated, ActiveAdmins, Takes
  <2>7. Passwords'
    BY <2>1 DEF House, SameTables, Passwords, MailsLocked, Holds, ForcedStays, TemporaryIsForced
  <2>8. ProfilesOwn' /\ UnauditedExplained'
    BY <2>1 DEF House, SameTables, ProfilesOwn, UnauditedExplained, Explained
  <2>9. ProfileRows'
    <3>1. ASSUME NEW p \in Profiles, profile[p] # None PROVE Granted(p)'
      <4>1. \A q \in Deleting(p)' : q \in Deleting(p) /\ req'[q].seen = req[q].seen
        BY <2>1 DEF Deleting, At
      <4> QED BY <2>1, <3>1, <4>1, GrantsStay DEF House, SameTables
    <3> QED BY <2>1, <3>1 DEF House, SameTables, ProfileRows
  <2> QED BY <2>2, <2>3, <2>4, <2>5, <2>6, <2>7, <2>8, <2>9 DEF House
<1> QED BY <1>1, <1>2

\* The requests, the tables and what is on record of them agree in every reachable state: the
\* invariant the theorems below rest on.
THEOREM HouseInvariant == Spec => []House
<1>1. Init => House
  BY Start
<1>2. House /\ [Next]_vars => House'
  BY HouseStep
<1> QED BY <1>1, <1>2, PTL DEF Spec

\* The tables hold rows of their columns' types, and two spellings of one address are stored
\* only by requests that overlap (AddMemberUseCase looks the address up before the INSERT).
THEOREM AccessTypes == Spec => []TypeOK
<1>1. House => TypeOK
  BY DEF House
<1> QED BY <1>1, HouseInvariant, PTL

\* An account that the migration has left an active admin keeps one, whatever the panel's
\* requests do, unless two of them that change its members overlap, and never loses an active
\* owner.
THEOREM AdminsRemain == Spec => []AdminRemains
<1>1. House => AdminRemains
  <2>1. SUFFICES ASSUME House,
                        NEW a \in {m.acc : m \in {x \in Migrated : x.role = "admin" /\ x.active}},
                        ActiveAdmins(a) = {}
                 PROVE  a \in raced /\ \A m \in members : m.acc = a /\ m.owner => ~m.active
    BY DEF AdminRemains
  <2>2. HadAdmin(a)
    BY DEF HadAdmin
  <2>3. a \in Accounts
    BY <2>1 DEF House, Membership
  <2>4. a \in raced
    BY <2>1, <2>2, <2>3 DEF House, Spare
  <2>5. \A m \in members : m.owner => m.role = "admin"
    BY <2>1 DEF House, Memberships
  <2> QED BY <2>1, <2>4, <2>5 DEF ActiveAdmins
<1> QED BY <1>1, HouseInvariant, PTL

\* The temporary password last mailed to a person is the one that opens the door, until the
\* person changes it, and has to be changed at the first login, however the resets of several
\* administrators overlap.
THEOREM MailedPasswordsWork == Spec => []MailedWorks
<1>1. House => MailedWorks
  BY DEF House, Passwords, MailsLocked, MailedWorks, MailedOpens
<1> QED BY <1>1, HouseInvariant, PTL

\* A member's profile is one of the member's account, and grants what a request asked for, or
\* the union of what overlapping requests asked for.
THEOREM ProfilesGrantAsked == Spec => []ProfilesGrant
<1>1. House => ProfilesGrant
  <2> SUFFICES ASSUME House PROVE ProfilesGrant
    OBVIOUS
  <2>1. ASSUME NEW p \in Profiles, profile[p] # None, p \in raced
        PROVE  \E S \in SUBSET asked[p] : profile[p].perms = UNION S
    <3>1. PICK B \in SUBSET asked[p] : Joins(profile[p].perms, B)
      BY <2>1 DEF House, ProfileRows, Granted, Whole
    <3>2. PICK u : u = profile[p].perms
      OBVIOUS
    <3>3. u = UNION B
      BY <3>1, <3>2, JoinsUnion
    <3> QED BY <3>2, <3>3
  <2>2. ASSUME NEW p \in Profiles, profile[p] # None, p \notin raced
        PROVE  profile[p].perms \in asked[p]
    BY <2>2 DEF House, ProfileRows, Granted, Single
  <2> QED BY <2>1, <2>2 DEF House, ProfilesGrant, PermsAsAsked
<1> QED BY <1>1, HouseInvariant, PTL

\* A request without a row in the audit trail is a change of one's own password, was made by one
\* who joined after the migration, whom audit_events cannot refer to, has raised and changed
\* nothing, or lost its row to a failure of the row's own transaction.
THEOREM UnauditedAreExplained == Spec => []UnauditedExplained
<1>1. House => UnauditedExplained
  BY DEF House
<1> QED BY <1>1, HouseInvariant, PTL

=============================================================================
