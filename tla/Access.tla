------------------------------- MODULE Access -------------------------------
(***************************************************************************)
(* Who may use the panel: identities and their memberships of accounts,    *)
(* the profiles that give operators permissions, the sessions (tokens in   *)
(* the browser's cookie), temporary passwords sent by mail, and the audit  *)
(* trail.  The initial tables are what the multi-tenant migration makes of *)
(* the old table users.                                                    *)
(*                                                                         *)
(* An identity is named by its e-mail as it was typed: uq_identities_email *)
(* compares the spelling, get_by_email compares in lower case.  A request  *)
(* is one transaction at READ COMMITTED; where a unique index or foreign   *)
(* key makes two overlapping requests behave like one after the other,     *)
(* the request is one action.                                              *)
(***************************************************************************)
EXTENDS Integers, FiniteSets

CONSTANTS Accounts,      \* companies, the first is DefaultAccount
          DefaultAccount,\* get_default_account_uuid
          Emails,        \* spellings of e-mail addresses
          Lower(_),      \* the address in lower case
          LegacyTables,  \* possible contents of users before the migration
          Founders,      \* the owners seeded with the other companies: <<account, address>>
          Profiles,      \* ids of profiles
          Keys,          \* permission keys
          AdminOnlyKeys, \* those an operator's seeded profile lacks
          Requests,      \* concurrent requests of the panel
          Grants,        \* sets of keys a request may ask for a profile
          Changes,       \* what a request may ask of a member: role, active, profile
          MaxMails,      \* bound on temporary passwords
          MaxRequests,   \* bound on requests
          MaxSessions,   \* bound on browsers logged in
          MaxFaults,     \* bound on failed mails, failures of the database and crashes
          None

ASSUME AccountsAssumption ==
  DefaultAccount \in Accounts /\ None \notin Accounts \cup Profiles \cup {Lower(i) : i \in Emails}
ASSUME FoundersAssumption ==
  /\ IsFiniteSet(Founders) /\ Founders \subseteq (Accounts \ {DefaultAccount}) \X Emails
  /\ \A f, g \in Founders : Lower(f[2]) = Lower(g[2]) => f[2] = g[2]
ASSUME ProfilesAssumption == {"Admin", "Operador"} \subseteq Profiles
ASSUME BoundsAssumption == {MaxMails, MaxRequests, MaxFaults} \subseteq Nat
ASSUME KeysAssumption == AdminOnlyKeys \subseteq Keys
                         /\ {"users.manage", "profiles.manage"} \subseteq AdminOnlyKeys
                         /\ Grants \subseteq SUBSET Keys

Roles == {"admin", "operator"}

\* users.is_active, must_change_password, and at for the order of created_at.
User == [who : Emails, acc : Accounts, role : Roles, active : BOOLEAN, must : BOOLEAN, at : Nat]

ASSUME LegacyAssumption ==
  \A users \in LegacyTables : /\ IsFiniteSet(users) /\ users \subseteq User
                              /\ \A u \in users : u.acc = DefaultAccount
                              /\ \A u \in users, f \in Founders :
                                   Lower(u.who) = Lower(f[2]) => u.who = f[2]

Membership == [who : Emails, acc : Accounts, role : Roles, active : BOOLEAN,
               owner : BOOLEAN, profile : Profiles \cup {None}]

Profile == [acc : Accounts, system : BOOLEAN, perms : SUBSET Keys]

\* A password is 0, one that was not mailed here, or the number of the mail that carries it.
Identity == [password : Nat, must : BOOLEAN]

Session == [scope : {"full", "pre_auth"}, acc : Accounts \cup {None},
            role : Roles \cup {None}]

ASSUME NoneAssumption == None \notin Identity \cup Profile \cup Session
ASSUME ChangesAssumption ==
  Changes \subseteq [role : Roles, active : BOOLEAN, profile : Profiles \cup {None}]

VARIABLES
  legacy,   \* rows of users
  ident,    \* rows of identities, per spelling (or None)
  members,  \* rows of memberships
  profile,  \* rows of profiles and profile_permissions (or None)
  session,  \* per spelling: the token its browser holds (or None)
  mailed,   \* per spelling: the last temporary password sent, 0 for none
  req,      \* requests in progress
  mails, begun, faults,
  unaudited,\* history: the requests without a row in audit_events, and how they ended
  asked,    \* history: per profile, the sets of permissions asked for
  raced,    \* history: accounts, addresses and profiles that two requests changed at once
  excused   \* history: spellings whose mailed password was replaced or rolled back

vars == <<legacy, ident, members, profile, session, mailed, req, mails, begun, faults,
          unaudited, asked, raced, excused>>
tables == <<ident, members, profile>>
past   == <<asked, raced, excused>>
hist   == <<unaudited, past>>

-----------------------------------------------------------------------------
(* The migrations *)

First(S) == CHOOSE u \in S : \A v \in S : u.at <= v.at

\* The first admin of an account or, where it has none, its first member, who becomes one.
OwnerOf(users, a) ==
  LET here == {u \in users : u.acc = a}
      admins == {u \in here : u.role = "admin"} IN
  First(IF admins # {} THEN admins ELSE here)

\* The migration stops at two users with one address.
Distinct(users) == \A u, v \in users : Lower(u.who) = Lower(v.who) => u = v

\* Users have been given the seeded profile of their role.
Backfill(users) ==
  {LET owner == u = OwnerOf(users, u.acc) IN
     [who |-> u.who, acc |-> u.acc, role |-> IF owner THEN "admin" ELSE u.role,
      active |-> u.active, owner |-> owner,
      profile |-> IF u.role = "admin" THEN "Admin" ELSE "Operador"] : u \in users}

\* seed_multitenant: another company and its owner.
Seed(f) == [who |-> f[2], acc |-> f[1], role |-> "admin", active |-> TRUE, owner |-> TRUE,
            profile |-> None]

\* The memberships after the migrations.
Migrated == Backfill(legacy) \cup {Seed(f) : f \in Founders}

\* The system profile Admin is seeded on the first account (and an editable Operador).
Seeded(p) == [acc |-> DefaultAccount, system |-> p = "Admin",
              perms |-> IF p = "Admin" THEN Keys ELSE Keys \ AdminOnlyKeys]

Idle == [op |-> "idle", pc |-> "idle", by |-> None, acc |-> None, who |-> None,
         fresh |-> FALSE, role |-> None, active |-> TRUE, profile |-> None,
         writesMust |-> TRUE, secret |-> 0, seen |-> {}, new |-> {}]

Init ==
  /\ legacy \in {users \in LegacyTables : Distinct(users)}
  /\ members = Migrated
  /\ ident = [i \in Emails |->
       IF \E m \in members : m.who = i
         THEN [password |-> 0, must |-> \E u \in legacy : u.who = i /\ u.must] ELSE None]
  /\ profile = [p \in Profiles |-> IF p \in {"Admin", "Operador"} THEN Seeded(p) ELSE None]
  /\ session = [i \in Emails |-> None]
  /\ mailed = [i \in Emails |-> 0]
  /\ req = [r \in Requests |-> Idle]
  /\ mails = 0 /\ begun = 0 /\ faults = 0
  /\ unaudited = {} /\ raced = {} /\ excused = {}
  /\ asked = [p \in Profiles |-> IF profile[p] = None THEN {} ELSE {profile[p].perms}]

-----------------------------------------------------------------------------
(* Sessions.  A token says who, for which account and in which role; it is  *)
(* not looked up again.                                                     *)

\* list_active_by_identity.
Views(i) == {m \in members : m.who = i /\ m.active}

\* Faulty variant: the address is compared as it is typed.
MatchesExactly(i) == {j \in Emails : ident[j] # None /\ j = i}

\* get_by_email raises if two spellings of one address are stored.
Matches(i) == {j \in Emails : ident[j] # None /\ Lower(j) = Lower(i)}

FullToken(m) == [scope |-> "full", acc |-> m.acc, role |-> m.role]
PreAuthToken == [scope |-> "pre_auth", acc |-> None, role |-> None]

SetCookie(i, token) ==
  /\ session' = [session EXCEPT ![i] = token]
  /\ token # None => Cardinality({j \in Emails : session[j] # None} \ {i}) < MaxSessions
  /\ UNCHANGED <<legacy, tables, mailed, req, mails, begun, faults, hist>>

\* The right password is given.
Login(i) ==
  /\ Matches(i) = {i} /\ session[i] = None
  /\ \/ ident[i].must /\ SetCookie(i, PreAuthToken)
     \/ ~ident[i].must /\ Cardinality(Views(i)) > 1 /\ SetCookie(i, PreAuthToken)
     \/ /\ ~ident[i].must /\ Cardinality(Views(i)) = 1
        /\ \E m \in Views(i) : SetCookie(i, FullToken(m))

\* _emit_for_account.
EmitForAccount(i) ==
  /\ ident[i] # None /\ ~ident[i].must
  /\ \E m \in Views(i) : SetCookie(i, FullToken(m))

SelectAccount(i) == session[i] = PreAuthToken /\ EmitForAccount(i)

SwitchAccount(i) == session[i] \notin {None, PreAuthToken} /\ EmitForAccount(i)

Logout(i) == session[i] # None /\ SetCookie(i, None)

-----------------------------------------------------------------------------
(* Requests *)

\* resolve_membership_permissions: an admin's token has them all, an operator's those its
\* membership's profile has now.
Permissions(i) ==
  IF session[i].role = "admin" THEN Keys
  ELSE UNION {profile[m.profile].perms :
                m \in {x \in members : x.who = i /\ x.acc = session[i].acc /\ x.profile # None}}

\* require_permission over require_admin, which refuses pre-authentication tokens.
Allowed(i, key) ==
  session[i] # None /\ session[i].scope = "full" /\ key \in Permissions(i)

\* What a request changes, and whether another one in progress changes it too.
Thing(q) == CASE q.op \in {"update", "delete"} -> q.acc
              [] q.op \in {"add", "reset", "change"} -> Lower(q.who)
              [] q.op = "profile" -> q.profile
              [] OTHER -> None

Begin(r, rec) ==
  /\ req[r].pc = "idle" /\ begun < MaxRequests
  /\ begun' = begun + 1
  /\ req' = [req EXCEPT ![r] = rec]
  /\ raced' = IF Thing(rec) # None /\ \E q \in Requests : Thing(req[q]) = Thing(rec) THEN raced \cup {Thing(rec)}
                                                            ELSE raced
  /\ UNCHANGED <<legacy, tables, session, mailed, mails, faults, unaudited, excused>>

\* Faulty variant: no rule for the change of a member.
RuleMissing(op) ==
  op \in {"add", "delete", "reset", "change", "profile", "create_profile", "delete_profile"}

\* The rules name every request below.
resolve_audit_action(op) ==
  op \in {"add", "update", "delete", "reset", "change",
          "profile", "create_profile", "delete_profile"}

\* require_admin leaves the route an audit_ctx, the dependency of me/password does not.
audit_ctx(op) == op # "change"

\* audit_events.user_id refers to users; the failure of the insert is logged.
Recorded(i) == \E u \in legacy : u.who = i

\* A request that leaves no row, and whether it has changed the tables.
Missing(op, by, how) ==
  unaudited' = unaudited \cup {[op |-> op, by |-> by, how |-> how, changed |-> tables' # tables]}

Fault == faults < MaxFaults /\ faults' = faults + 1

\* AuditMiddleware after a response, also of an HTTPException: a row in a transaction of its
\* own, which is lost if that transaction fails (a warning is logged) or the process stops
\* between the commit and the row.
Audit(op, by) ==
  IF resolve_audit_action(op) /\ audit_ctx(op) /\ Recorded(by)
    THEN \/ UNCHANGED <<unaudited, faults>>
         \/ Missing(op, by, "lost") /\ Fault
    ELSE Missing(op, by, "answered") /\ UNCHANGED faults

Ends(r) == req' = [req EXCEPT ![r] = Idle]

Answer(r) == Ends(r) /\ Audit(req[r].op, req[r].by)

\* The handler raises what no handler of errors turns into a response before the middleware:
\* the transaction is rolled back and call_next raises too.
Raise(r) == Ends(r) /\ Missing(req[r].op, req[r].by, "raised") /\ UNCHANGED faults

At(r, op, pc) == req[r].op = op /\ req[r].pc = pc

Member(i, a) == {m \in members : m.who = i /\ m.acc = a}

\* _load_membership: of the session's account, and never the owner.
Manageable(i, a) == {m \in Member(i, a) : ~m.owner}

ActiveAdmins(a) == {m \in members : m.acc = a /\ m.role = "admin" /\ m.active}

\* Faulty variant: the last admin may go.
LastAdminIgnored(m, goes) == FALSE

\* An admin who would be demoted, deactivated or deleted while no more than one is active.
LastAdmin(m, goes) ==
  m.role = "admin" /\ goes /\ Cardinality(ActiveAdmins(m.acc)) <= 1

\* Faulty variant: profiles of every account are accepted.
AnyProfile(p, a) == p # None => profile[p] # None

\* ProfileRepository.get_by_id, scoped by the account.
ProfileOf(p, a) == p # None => profile[p] # None /\ profile[p].acc = a

BeginUpdate(r, i, who) ==
  /\ Allowed(i, "users.manage")
  /\ \E m \in Manageable(who, session[i].acc), c \in Changes :
       /\ ~LastAdmin(m, c.role # "admin" \/ ~c.active)
       /\ ProfileOf(c.profile, m.acc)
       /\ Begin(r, [Idle EXCEPT !.op = "update", !.pc = "read", !.by = i, !.acc = m.acc,
                      !.who = who, !.role = c.role, !.active = c.active,
                      !.profile = c.profile])
  /\ UNCHANGED asked

\* update_fields and commit; the row or the profile may be gone by now.
CommitUpdate(r) ==
  /\ At(r, "update", "read")
  /\ UNCHANGED <<legacy, ident, profile, session, mailed, mails, begun, past>>
  /\ LET q == req[r] IN
     IF Member(q.who, q.acc) # {} /\ ProfileOf(q.profile, q.acc)
       THEN /\ members' = {IF m.who = q.who /\ m.acc = q.acc
                             THEN [m EXCEPT !.role = q.role, !.active = q.active,
                                            !.profile = q.profile]
                             ELSE m : m \in members}
            /\ Answer(r)
       ELSE UNCHANGED members /\ Raise(r)

\* delete_user: not oneself, not the last admin.
BeginDelete(r, i, who) ==
  /\ Allowed(i, "users.manage") /\ i # who
  /\ \E m \in Manageable(who, session[i].acc) :
       /\ ~LastAdmin(m, TRUE)
       /\ Begin(r, [Idle EXCEPT !.op = "delete", !.pc = "read", !.by = i, !.acc = m.acc,
                      !.who = who])
  /\ UNCHANGED asked

\* A row that is gone before it is selected again raises, one gone before the DELETE does not.
CommitDelete(r) ==
  /\ At(r, "delete", "read")
  /\ UNCHANGED <<legacy, ident, profile, session, mailed, mails, begun, past>>
  /\ LET gone == Member(req[r].who, req[r].acc) IN
     /\ members' = members \ gone
     /\ Answer(r) \/ (gone = {} /\ Raise(r))

\* create_user: AddMemberUseCase looks the address up, and the membership of the one found.
BeginAdd(r, i, typed) ==
  /\ Allowed(i, "users.manage")
  /\ Cardinality(Matches(typed)) <= 1
  /\ LET found == IF Matches(typed) = {} THEN typed ELSE CHOOSE j \in Matches(typed) : TRUE IN
     \E c \in Changes :
       /\ ProfileOf(c.profile, session[i].acc)
       /\ Member(found, session[i].acc) = {}
       /\ Begin(r, [Idle EXCEPT !.op = "add", !.pc = "read", !.by = i, !.acc = session[i].acc,
                      !.who = found, !.fresh = ident[found] = None, !.role = c.role,
                      !.profile = c.profile])
  /\ UNCHANGED asked

-----------------------------------------------------------------------------
(* Temporary passwords *)

\* Faulty variant: the mail is sent before the flush, so nothing is locked yet.
NeverLocked(i, r) == FALSE

\* The row of an identity is locked from the flush of its new password to the commit.
Holds(q, i, ops) == req[q].who = i /\ req[q].op \in ops /\ req[q].pc \in {"flushed", "sent"}
Locked(i, r) == \E q \in Requests \ {r} : Holds(q, i, {"reset", "change"})

\* reset-password: the identity of a membership of this account.
BeginReset(r, i, who) ==
  /\ Allowed(i, "users.manage")
  /\ Manageable(who, session[i].acc) # {}
  /\ Begin(r, [Idle EXCEPT !.op = "reset", !.pc = "read", !.by = i, !.who = who])
  /\ UNCHANGED asked

\* me/password, also with a pre-authentication token: the current password is verified.
BeginChange(r, i) ==
  /\ session[i] # None /\ ident[i] # None
  /\ Begin(r, [Idle EXCEPT !.op = "change", !.pc = "read", !.by = i, !.who = i])
  /\ UNCHANGED asked

\* The ORM will write must_change_password only if it differs from what was read.
WritesMust(r) == ident[req[r].who].must # (req[r].op = "reset")

\* update_password reads the row afresh.
LoadRow(r) ==
  /\ req[r].pc = "read" /\ req[r].op \in {"reset", "change"}
  /\ mails' = IF req[r].op = "reset" THEN mails + 1 ELSE mails
  /\ mails' <= MaxMails
  /\ req' = [req EXCEPT ![r].pc = "loaded",
                        ![r].secret = IF req[r].op = "reset" THEN mails + 1 ELSE 0,
                        ![r].writesMust = WritesMust(r)]
  /\ UNCHANGED <<legacy, tables, session, mailed, begun, faults, hist>>

\* The UPDATE waits for the row's lock.
FlushRow(r) ==
  /\ req[r].pc = "loaded" /\ ~Locked(req[r].who, r)
  /\ req' = [req EXCEPT ![r].pc = IF req[r].op = "reset" THEN "flushed" ELSE "sent"]
  /\ UNCHANGED <<legacy, tables, session, mailed, mails, begun, faults, hist>>

\* add: the INSERTs. The second of two equal spellings waits, then violates the unique index,
\* as does a second membership, unless it is there when it is looked up; so does a profile
\* deleted meanwhile its foreign key.
FlushAdd(r) ==
  /\ At(r, "add", "read")
  /\ \A q \in Requests \ {r} : ~Holds(q, req[r].who, {"add"})
  /\ UNCHANGED <<legacy, tables, session, mailed, begun, past>>
  /\ LET q == req[r]
         joined == Member(q.who, q.acc) # {} IN
     IF (q.fresh /\ ident[q.who] # None) \/ joined \/ ~ProfileOf(q.profile, q.acc)
       THEN /\ Raise(r) \/ (joined /\ ~q.fresh /\ Answer(r))
            /\ UNCHANGED mails
       ELSE /\ mails' = IF q.fresh THEN mails + 1 ELSE mails
            /\ mails' <= MaxMails
            /\ req' = [req EXCEPT ![r].pc = IF q.fresh THEN "flushed" ELSE "sent",
                                  ![r].secret = IF q.fresh THEN mails' ELSE 0]
            /\ UNCHANGED <<unaudited, faults>>

\* The mail leaves before the commit.
Mail(r) ==
  /\ req[r].pc = "flushed"
  /\ mailed' = [mailed EXCEPT ![req[r].who] = req[r].secret]
  /\ req' = [req EXCEPT ![r].pc = "sent"]
  /\ UNCHANGED <<legacy, tables, session, mails, begun, faults, hist>>

CommitRow(r) ==
  /\ req[r].pc = "sent"
  /\ LET q == req[r] IN
     /\ ident' = [ident EXCEPT ![q.who] =
          CASE q.op = "add" /\ q.fresh -> [password |-> q.secret, must |-> TRUE]
            [] q.op = "add" /\ ~q.fresh -> @
            [] OTHER -> [password |-> q.secret,
                         must |-> IF q.writesMust THEN q.op = "reset" ELSE @.must]]
     /\ members' = IF q.op = "add"
                     THEN members \cup {[who |-> q.who, acc |-> q.acc, role |-> q.role,
                                         active |-> TRUE, owner |-> FALSE,
                                         profile |-> q.profile]}
                     ELSE members
     /\ excused' = IF q.op = "change" THEN excused \cup {q.who}
                   ELSE IF q.secret # 0 THEN excused \ {q.who} ELSE excused
  /\ UNCHANGED <<legacy, profile, session, mailed, mails, begun, asked, raced>>
  /\ Answer(r)

\* The mail server refuses or the database fails: all is rolled back and call_next raises.
Fails(r) ==
  /\ req[r].pc # "idle" /\ Fault
  /\ excused' = IF req[r].pc = "sent" THEN excused \cup {req[r].who} ELSE excused
  /\ UNCHANGED <<legacy, tables, session, mailed, mails, begun, asked, raced>>
  /\ Ends(r) /\ Missing(req[r].op, req[r].by, "raised")

-----------------------------------------------------------------------------
(* Profiles, always of the default account *)

Ask(p, perms) == asked' = [asked EXCEPT ![p] = @ \cup {perms}]

\* create_profile, under a new id; two with one name meet uq_profiles_account_name.
CreateProfile(i, p, perms) ==
  /\ Allowed(i, "profiles.manage") /\ asked[p] = {} /\ begun < MaxRequests
  /\ begun' = begun + 1
  /\ Ask(p, perms)
  /\ profile' = [profile EXCEPT ![p] = [acc |-> DefaultAccount, system |-> FALSE,
                                        perms |-> perms]]
  /\ UNCHANGED <<legacy, ident, members, session, mailed, req, mails, raced, excused>>
  /\ Audit("create_profile", i)

\* get_by_id and the refusal of the system's profiles, in update_profile and delete_profile.
Editable(p) == profile[p] # None /\ profile[p].acc = DefaultAccount /\ ~profile[p].system

BeginProfile(r, i, p, perms) ==
  /\ Allowed(i, "profiles.manage") /\ Editable(p)
  /\ Ask(p, perms)
  /\ Begin(r, [Idle EXCEPT !.op = "profile", !.pc = "read", !.by = i, !.profile = p,
                 !.new = perms])

\* The DELETE of update: the permissions its statement sees.  The session does not flush by
\* itself, so nothing is locked before and other updates of the profile may be under way.
Deletes(p) == profile[p].perms

DeletePerms(r) ==
  /\ At(r, "profile", "read")
  /\ UNCHANGED <<legacy, tables, session, mailed, mails, begun, past>>
  /\ LET p == req[r].profile IN
     IF profile[p] = None
       THEN Answer(r) \/ Raise(r)
       ELSE /\ req' = [req EXCEPT ![r].pc = "deleted", ![r].seen = Deletes(p)]
            /\ UNCHANGED <<unaudited, faults>>

\* The flush and the commit: the row of the profile must still be there; rows the DELETE has
\* not seen stay, and a key among them violates uq_profile_perm.  A DELETE that waited for
\* this one finds the rows both have seen gone, and does not see the new ones.
CommitProfile(r) ==
  /\ At(r, "profile", "deleted")
  /\ UNCHANGED <<legacy, ident, members, session, mailed, mails, begun, past>>
  /\ LET q == req[r]
         kept == profile[q.profile].perms \ q.seen IN
     IF profile[q.profile] # None /\ kept \cap q.new = {}
       THEN /\ profile' = [profile EXCEPT ![q.profile].perms = kept \cup q.new]
            /\ req' = [o \in Requests |->
                 IF o = r THEN Idle
                 ELSE IF At(o, "profile", "deleted") /\ req[o].profile = q.profile
                   THEN [req[o] EXCEPT !.seen = @ \cap kept] ELSE req[o]]
            /\ Audit(q.op, q.by)
       ELSE UNCHANGED profile /\ Raise(r)

\* delete_profile: memberships refer to profiles without ON DELETE, so one in use stays.
DeleteProfile(i, p) ==
  /\ Allowed(i, "profiles.manage") /\ Editable(p) /\ begun < MaxRequests
  /\ begun' = begun + 1
  /\ \A m \in members : m.profile # p
  /\ \A r \in Requests : ~(req[r].profile = p /\ req[r].pc \in {"flushed", "sent"})
  /\ profile' = [profile EXCEPT ![p] = None]
  /\ UNCHANGED <<legacy, ident, members, session, mailed, req, mails, past>>
  /\ Audit("delete_profile", i)

\* The profile to be deleted is in use, or one of the new one's name was created after
\* get_by_name: the flush raises.
ProfileRaises(i, p) ==
  /\ Allowed(i, "profiles.manage") /\ begun < MaxRequests
  /\ begun' = begun + 1
  /\ UNCHANGED <<legacy, tables, session, mailed, req, mails, faults, past>>
  /\ \/ /\ Editable(p) /\ \E m \in members : m.profile = p
        /\ Missing("delete_profile", i, "raised")
     \/ profile[p] # None /\ Missing("create_profile", i, "raised")

-----------------------------------------------------------------------------
Handle(r) == \/ CommitUpdate(r) \/ CommitDelete(r) \/ LoadRow(r) \/ FlushRow(r) \/ FlushAdd(r)
             \/ Mail(r) \/ CommitRow(r) \/ DeletePerms(r) \/ CommitProfile(r) \/ Fails(r)

Request(r, i) ==
  \/ BeginChange(r, i)
  \/ \E who \in Emails : BeginUpdate(r, i, who) \/ BeginDelete(r, i, who)
                         \/ BeginAdd(r, i, who) \/ BeginReset(r, i, who)
  \/ \E p \in Profiles, perms \in Grants : BeginProfile(r, i, p, perms)

Next ==
  \/ \E i \in Emails : Login(i) \/ SelectAccount(i) \/ SwitchAccount(i) \/ Logout(i)
  \/ \E r \in Requests : Handle(r) \/ \E i \in Emails : Request(r, i)
  \/ \E i \in Emails, p \in Profiles :
       DeleteProfile(i, p) \/ ProfileRaises(i, p) \/ \E perms \in Grants : CreateProfile(i, p, perms)

Spec == Init /\ [][Next]_vars
-----------------------------------------------------------------------------
(* Properties *)

\* One identity per address in any spelling, which login and add take for granted: two are
\* stored only by overlapping requests (the unique index compares the spelling).
OnePerAddress ==
  \A i, j \in {k \in Emails : ident[k] # None} :
    Lower(i) = Lower(j) /\ i # j => Lower(i) \in raced

TypeOK ==
  /\ legacy \subseteq User /\ members \subseteq Membership
  /\ ident \in [Emails -> Identity \cup {None}]
  /\ profile \in [Profiles -> Profile \cup {None}]
  /\ session \in [Emails -> Session \cup {None}]
  /\ mailed \in [Emails -> 0..MaxMails]
  /\ mails \in 0..MaxMails /\ begun \in 0..MaxRequests /\ faults \in 0..MaxFaults
  /\ asked \in [Profiles -> SUBSET SUBSET Keys]
  /\ \A u \in unaudited : u.by \in Emails
  /\ excused \subseteq Emails
  /\ OnePerAddress

\* An account keeps the active admin the migration has left it: always when its owner is one,
\* whom no request can change, else unless two requests that each counted two have overlapped.
AdminRemains ==
  \A a \in {m.acc : m \in {x \in Migrated : x.role = "admin" /\ x.active}} :
    ActiveAdmins(a) = {} =>
      a \in raced /\ \A m \in members : m.acc = a /\ m.owner => ~m.active

\* The last temporary password mailed to a person opens the door, however resets overlap:
\* unless the person has changed it or the transaction failed after the mail.
MailedOpens ==
  \A i \in Emails :
    \/ mailed[i] = 0 \/ i \in excused
    \/ ident[i] # None /\ ident[i].password = mailed[i]
    \/ \E r \in Requests : Holds(r, i, {"add", "reset"}) /\ req[r].secret = mailed[i]

\* A temporary password has to be changed at the first login, unless a reset has overlapped
\* with another change of the password (each writes only the columns that differ from its read).
TemporaryIsForced ==
  \A i \in Emails : ident[i] # None /\ ident[i].password # 0 /\ ~ident[i].must
                       => Lower(i) \in raced

\* A temporary password works, and only until it is changed.
MailedWorks == MailedOpens /\ TemporaryIsForced

\* A membership's profile exists and belongs to its account, although profiles are deleted and
\* members of several accounts are managed at the same time.
ProfilesOwn ==
  \A m \in members : m.profile # None =>
     profile[m.profile] # None /\ profile[m.profile].acc = m.acc

\* A profile grants exactly what one request asked for, unless updates of it have overlapped:
\* then it may be the union of what several asked for.
PermsAsAsked ==
  \A p \in Profiles : profile[p] # None =>
    \/ profile[p].perms \in asked[p]
    \/ p \in raced /\ \E S \in SUBSET asked[p] : profile[p].perms = UNION S

\* What a member may do is what the account's own profile was last given.
ProfilesGrant == ProfilesOwn /\ PermsAsAsked

\* Why a request has left no row: audit_ctx is missing for one's own password, those who joined
\* after the migration have no user to refer to, call_next has raised and nothing is changed,
\* or the row's own transaction has failed.
Explained(u) ==
  \/ u.op = "change"
  \/ \A old \in legacy : old.who # u.by
  \/ u.how = "raised" /\ ~u.changed
  \/ u.how = "lost" /\ faults > 0

\* Every other request of the panel is in the audit trail, however the requests overlap.
UnauditedExplained == \A u \in unaudited : Explained(u)

=============================================================================
