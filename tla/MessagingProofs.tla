---------------------------- MODULE MessagingProofs ----------------------------
(***************************************************************************)
(* What is sent to a buyer: the templates it is made of (Templates), and   *)
(* the conversation it goes into (Outreach).                               *)
(*                                                                         *)
(* Templates.  Rows stand for templates and steps name what can be sent,   *)
(* for any number of templates, languages, flows and overlapping requests, *)
(* any page size and any number of failures.  What RowsStand and StepsSend *)
(* say of the table and the flows is kept only because of what the         *)
(* requests hold: rows and pages read a while ago, ids given by Meta and   *)
(* not yet committed, steps found and not yet deleted.  The invariant      *)
(* Shelf says that an id or a key is of one name wherever it is held, and  *)
(* what each request has left behind at Meta.  A step of a request is      *)
(* looked at from three sides: what Meta loses (Recorded), which rows are  *)
(* there afterwards (Placed), and what the steps still find (Served);      *)
(* together they keep Shelf (Turn).                                        *)
(*                                                                         *)
(* Outreach.  RightContact and OneConversation hold for any number of      *)
(* buyers, requests, runs and failures.  They are kept by what a run holds *)
(* between its calls: a phone number of the person it is for, what it has  *)
(* found, and how many conversations there were when it found none open.   *)
(* The invariant Met says so of every run; a step of one run is no step of *)
(* another (Kept), so that each action is looked at for its own run        *)
(* (Proceeds).                                                             *)
(***************************************************************************)
EXTENDS Templates, FiniteSetTheorems, SequenceTheorems, WellFoundedInduction, TLAPS

-----------------------------------------------------------------------------
(* The inductive invariant *)

Places == {"idle", "listed", "looked", "ask", "told", "made", "read"}
Ops == {"idle", "list", "sync", "create", "patch", "edit", "delete", "upload"}

Request == [pc : Places, op : Ops, name : Names \cup {NoName}, lang : Langs \cup {NoName},
            id : Nat, page : SUBSET Template, local : SUBSET Row, found : SUBSET Steps,
            content : Contents \cup {NoName}]

\* What a request carries, by its kind.
Carries(q) ==
  /\ q.op \in {"create", "patch", "edit", "delete"} => q.name \in Names
  /\ q.op \notin {"create", "patch", "edit", "delete"} => q.name = NoName
  /\ q.op \in {"create", "edit"} => q.lang \in Langs
  /\ q.op = "upload" => q.content \in Contents
  /\ q.pc = "made" => q.op \in {"create", "edit"}
  /\ q.op = "delete" => q.pc \in {"ask", "told"}
  /\ q.op \in {"edit", "delete"} => \E t \in q.local : q.local = {t} /\ t.name = q.name
  /\ q.op \notin {"edit", "delete", "list", "sync"} => q.local = {}

ReqOK ==
  /\ req \in [Requests -> Request]
  /\ \A r \in Requests : /\ Carries(req[r])
                         /\ IsFiniteSet(req[r].page) /\ IsFiniteSet(req[r].local)
  /\ IsFiniteSet(meta) /\ IsFiniteSet(rows)

\* What bears an id or a key, with its name.
Bears(S) == {<<t.id, t.name>> : t \in S}
Keyed(S) == {<<t.key, t.name>> : t \in S}

\* Whatever bears an id at Meta, in the table or in a request's hands, and whatever bears a key.
Holds(r) == Bears(req[r].page) \cup Bears(req[r].local)
              \cup (IF req[r].pc = "made" THEN {<<req[r].id, req[r].name>>} ELSE {})
Ids == Bears(meta) \cup Bears(rows) \cup UNION {Holds(r) : r \in Requests}
RowKeys == Keyed(rows) \cup UNION {Keyed(req[r].local) : r \in Requests}

\* An id is of one name, and so is a key.
OneName(S) == \A x, y \in S : x[1] = y[1] => x[2] = y[2]

\* Requests on one name at a time are noted.
Overlaps ==
  \A r, s \in Requests : r # s /\ req[r].name = req[s].name /\ req[r].name # NoName =>
    req[r].name \in raced

\* Meta has lost the templates of this name for a request that will commit a row that says so.
Left(n) == \E r \in Requests : req[r].name = n /\ req[r].op \in {"delete", "edit"}
                               /\ req[r].pc \in {"told", "made"}

\* What Meta has made is still there when its row is committed.
Made ==
  \A r \in Requests : req[r].pc = "made" =>
    \/ <<req[r].id, req[r].name>> \in Bears(meta)
    \/ req[r].name \in lost \cup raced

\* RowsStand without the requests that have not yet told Meta.
Stands == \A x \in Bears(rows) : x \in Bears(meta) \/ Left(x[2]) \/ x[2] \in lost \cup raced

\* Steps whose template is going were saved blindly, or go with it.
Going ==
  /\ \A r \in Requests : req[r].op = "delete" =>
       \A s \in Steps : step[s] = req[r].name => s \in blind
  /\ \A r \in Requests : At(r, "sync", "looked") =>
       \A s \in Steps : step[s] \in NamesOf(req[r].local) \ NamesOf(req[r].page) =>
         s \in req[r].found \cup blind

\* A step that was not saved blindly names a row, and a template unless an edit has deleted
\* it or it was lost.
StepsStand ==
  \A s \in Steps : step[s] \in Names /\ s \notin blind =>
    /\ step[s] \in NamesOf(rows)
    /\ \/ step[s] \in NamesOf(meta) \cup lost
       \/ \E r \in Requests : At(r, "edit", "told") /\ req[r].name = step[s]

Shelf == TypeOK /\ ReqOK /\ OneName(Ids) /\ OneName(RowKeys) /\ Overlaps /\ Made /\ Stands
         /\ Going /\ StepsStand

-----------------------------------------------------------------------------
(* Finite sets and fresh numbers *)

\* The image of a finite set is finite.
LEMMA ImageFinite ==
  ASSUME NEW S, IsFiniteSet(S), NEW T, NEW g \in [S -> T]
  PROVE  IsFiniteSet({g[x] : x \in S})
<1> DEFINE R == {g[x] : x \in S}
<1>1. g \in Surjection(S, R)
  BY DEF Surjection
<1> QED
  BY <1>1, FS_Surjection

\* Finitely many templates have finitely many ids.
LEMMA IdsFinite == ASSUME NEW S, IsFiniteSet(S) PROVE IsFiniteSet(IdsOf(S))
<1> DEFINE T == {t.id : t \in S}
           g == [t \in S |-> t.id]
<1>1. g \in [S -> T]
  OBVIOUS
<1>2. T = {g[t] : t \in S}
  OBVIOUS
<1> HIDE DEF g, T
<1>3. IsFiniteSet({g[t] : t \in S})
  BY <1>1, ImageFinite
<1> QED
  BY <1>2, <1>3 DEF T, IdsOf

\* Finitely many rows have finitely many keys.
LEMMA KeysFinite == ASSUME NEW S, IsFiniteSet(S) PROVE IsFiniteSet({t.key : t \in S})
<1> DEFINE T == {t.key : t \in S}
           g == [t \in S |-> t.key]
<1>1. g \in [S -> T]
  OBVIOUS
<1>2. T = {g[t] : t \in S}
  OBVIOUS
<1> HIDE DEF g, T
<1>3. IsFiniteSet({g[t] : t \in S})
  BY <1>1, ImageFinite
<1> QED
  BY <1>2, <1>3 DEF T

\* The union of a finite family of finite sets is finite.
LEMMA FamilyFinite ==
  ASSUME NEW S, IsFiniteSet(S), NEW g, \A x \in S : IsFiniteSet(g[x])
  PROVE  IsFiniteSet(UNION {g[x] : x \in S})
<1> DEFINE T == {g[x] : x \in S}
<1> DEFINE h == [x \in S |-> g[x]]
<1>1. h \in [S -> T]
  OBVIOUS
<1>2. T = {h[x] : x \in S}
  OBVIOUS
<1>3. \A t \in T : IsFiniteSet(t)
  OBVIOUS
<1> HIDE DEF h, T
<1>4. IsFiniteSet({h[x] : x \in S})
  BY <1>1, ImageFinite
<1>5. IsFiniteSet(T)
  BY <1>2, <1>4
<1>6. IsFiniteSet(UNION T)
  BY <1>3, <1>5, FS_UNION
<1> QED
  BY <1>6 DEF T

\* Among finitely many numbers there is a gap, and a first one.
LEMMA LeastIs ==
  ASSUME NEW used, IsFiniteSet(used)
  PROVE  Least(used) \in Nat /\ Least(used) \notin used
<1> DEFINE n == Cardinality(used) + 1
           free == {i \in 1..n : i \notin used}
           T == {1..i : i \in free}
<1>1. n \in Nat /\ Cardinality(used) \in Nat
  BY FS_CardinalityType
<1>2. IsFiniteSet(1..n) /\ Cardinality(1..n) = n
  BY <1>1, FS_Interval
<1>3. free # {}
  <2> SUFFICES ASSUME free = {} PROVE FALSE
    OBVIOUS
  <2>1. 1..n \in SUBSET used
    OBVIOUS
  <2>2. Cardinality(1..n) <= Cardinality(used)
    BY <2>1, FS_Subset
  <2> QED
    BY <1>1, <1>2, <2>2
<1>4. T # {} /\ T \subseteq FiniteSubsetsOf(1..n)
  <2>1. FiniteSubsetsOf(1..n) = SUBSET (1..n)
    BY <1>2, FS_FiniteSubsetsOfFinite
  <2>2. \A i \in free : 1..i \in SUBSET (1..n)
    BY <1>1
  <2> QED
    BY <1>3, <2>1, <2>2
<1>5. PICK A \in T : \A B \in T : ~ (<<B, A>> \in StrictSubsetOrdering(1..n))
  <2> HIDE DEF T
  <2> QED
    BY <1>4, FS_StrictSubsetOrderingWellFounded, WFMin
<1>6. PICK i \in free : A = 1..i
  OBVIOUS
<1>7. \A j \in 1..(i - 1) : j \in used
  <2> SUFFICES ASSUME NEW j \in 1..(i - 1), j \notin used PROVE FALSE
    OBVIOUS
  <2>1. i \in Nat /\ j \in Nat /\ 1 <= j /\ j < i /\ i <= n
    BY <1>1
  <2>2. j \in free
    BY <1>1, <2>1
  <2>3. 1..j \subseteq 1..i /\ 1..i \subseteq 1..n /\ i \in 1..i /\ i \notin 1..j
    BY <1>1, <2>1
  <2>4. <<1..j, 1..i>> \in StrictSubsetOrdering(1..n)
    BY <2>3 DEF StrictSubsetOrdering
  <2> QED
    BY <1>5, <1>6, <2>2, <2>4
<1>8. \E k \in 1..n : k \notin used /\ \A j \in 1..(k - 1) : j \in used
  BY <1>7
<1>9. Least(used) \in 1..n /\ Least(used) \notin used
  BY <1>8 DEF Least
<1> QED
  BY <1>1, <1>9
-----------------------------------------------------------------------------
(* Names of ids and keys *)

\* Where what bears an id is.
LEMMA InIds ==
  \A x : x \in Ids <=> \/ x \in Bears(meta) \cup Bears(rows)
                       \/ \E r \in Requests : x \in Holds(r)
  BY DEF Ids

\* All that bears an id is among them.
LEMMA IdsAre ==
  /\ Bears(meta) \subseteq Ids /\ Bears(rows) \subseteq Ids
  /\ \A r \in Requests : /\ Bears(req[r].page) \subseteq Ids /\ Bears(req[r].local) \subseteq Ids
                         /\ req[r].pc = "made" => <<req[r].id, req[r].name>> \in Ids
<1>1. \A r \in Requests : Holds(r) \subseteq Ids
  BY InIds
<1>2. \A r \in Requests : /\ Bears(req[r].page) \subseteq Holds(r)
                          /\ Bears(req[r].local) \subseteq Holds(r)
                          /\ req[r].pc = "made" => <<req[r].id, req[r].name>> \in Holds(r)
  BY DEF Holds
<1>3. Bears(meta) \subseteq Ids /\ Bears(rows) \subseteq Ids
  BY InIds
<1> QED
  BY <1>1, <1>2, <1>3

\* All that bears a key is among them.
LEMMA RowKeysAre ==
  /\ Keyed(rows) \subseteq RowKeys
  /\ \A r \in Requests : Keyed(req[r].local) \subseteq RowKeys
  BY DEF RowKeys

\* The keys in use are finitely many, so that there is a new one.
LEMMA KeysAre == ASSUME ReqOK
                 PROVE  IsFiniteSet(Keys) /\ \A x \in RowKeys : x[1] \in Keys
<1> DEFINE KeysOf(S) == {t.key : t \in S}
           g == [r \in Requests |-> KeysOf(req[r].local)]
<1>1. Keys = KeysOf(rows) \cup UNION {g[r] : r \in Requests}
  BY DEF Keys
<1>2. IsFiniteSet(KeysOf(rows))
  BY KeysFinite DEF ReqOK
<1>3. \A r \in Requests : IsFiniteSet(g[r])
  BY KeysFinite DEF ReqOK
<1>4. \A x \in RowKeys : x[1] \in Keys
  BY DEF RowKeys, Keyed, Keys
<1> HIDE DEF g, KeysOf
<1>5. IsFiniteSet(UNION {g[r] : r \in Requests})
  BY <1>3, FamilyFinite, RequestsAssumption
<1>6. IsFiniteSet(Keys)
  BY <1>1, <1>2, <1>5, FS_Union
<1> QED
  BY <1>4, <1>6

\* A new id is nobody's.
LEMMA NewIdIs == ASSUME ReqOK PROVE NewId \in Nat /\ \A x \in Ids : x[1] # NewId
<1> DEFINE A == {req[r].id : r \in Requests}
           h == [r \in Requests |-> req[r].id]
           g == [r \in Requests |-> IdsOf(req[r].page) \cup IdsOf(req[r].local)]
           B == UNION {g[r] : r \in Requests}
           used == IdsOf(meta) \cup IdsOf(rows) \cup A \cup B
<1>1. NewId = Least(used)
  BY DEF NewId
<1>2. ASSUME NEW x \in Ids PROVE x[1] \in used
  <2>1. \A S : \A y \in Bears(S) : y[1] \in IdsOf(S)
    BY DEF Bears, IdsOf
  <2>2. CASE x \in Bears(meta) \cup Bears(rows)
    BY <2>1, <2>2
  <2>3. ASSUME NEW r \in Requests, x \in Holds(r) PROVE x[1] \in used
    <3>1. CASE x \in Bears(req[r].page) \cup Bears(req[r].local)
      BY <2>1, <3>1
    <3>2. CASE x = <<req[r].id, req[r].name>>
      BY <3>2
    <3> QED
      BY <2>3, <3>1, <3>2 DEF Holds
  <2> QED
    BY <2>2, <2>3, InIds
<1>3. IsFiniteSet(IdsOf(meta)) /\ IsFiniteSet(IdsOf(rows))
  BY IdsFinite DEF ReqOK
<1>4. IsFiniteSet(A)
  <2>1. h \in [Requests -> A]
    OBVIOUS
  <2>2. A = {h[r] : r \in Requests}
    OBVIOUS
  <2> HIDE DEF h, A
  <2>3. IsFiniteSet({h[r] : r \in Requests})
    BY <2>1, ImageFinite, RequestsAssumption
  <2> QED
    BY <2>2, <2>3
<1>5. IsFiniteSet(B)
  <2>1. \A r \in Requests : IsFiniteSet(g[r])
    <3> SUFFICES ASSUME NEW r \in Requests PROVE IsFiniteSet(g[r])
      OBVIOUS
    <3>1. IsFiniteSet(IdsOf(req[r].page)) /\ IsFiniteSet(IdsOf(req[r].local))
      BY IdsFinite DEF ReqOK
    <3>2. IsFiniteSet(IdsOf(req[r].page) \cup IdsOf(req[r].local))
      BY <3>1, FS_Union
    <3> QED
      BY <3>2
  <2> HIDE DEF g
  <2> QED
    BY <2>1, FamilyFinite, RequestsAssumption
<1> HIDE DEF A, B, h, g
<1>6. IsFiniteSet(IdsOf(meta) \cup IdsOf(rows))
  BY <1>3, FS_Union
<1>7. IsFiniteSet(IdsOf(meta) \cup IdsOf(rows) \cup A)
  BY <1>4, <1>6, FS_Union
<1>8. IsFiniteSet(used)
  BY <1>5, <1>7, FS_Union
<1> HIDE DEF used
<1>9. Least(used) \in Nat /\ Least(used) \notin used
  BY <1>8, LeastIs
<1> QED
  BY <1>1, <1>2, <1>9

\* A pair of something new leaves ids and keys with one name.
LEMMA OneNameMore ==
  ASSUME NEW S, OneName(S), NEW i, NEW n, \A x \in S : x[1] # i
  PROVE  OneName(S \cup {<<i, n>>})
  BY DEF OneName

\* A step of one request that knows what it writes keeps the books.
LEMMA Book ==
  ASSUME Shelf, NEW r \in Requests, NEW q \in Request, Carries(q),
         IsFiniteSet(q.page), IsFiniteSet(q.local), req' = [req EXCEPT ![r] = q],
         IsFiniteSet(meta'), IsFiniteSet(rows'), raced \subseteq raced',
         \/ q.name \in {NoName, req[r].name}
         \/ \A s \in Requests \ {r} : req[s].name = q.name => q.name \in raced',
         NEW I, OneName(I), Ids \subseteq I, Bears(meta') \subseteq I, Bears(rows') \subseteq I,
         Bears(q.page) \subseteq I, Bears(q.local) \subseteq I,
         q.pc = "made" => <<q.id, q.name>> \in I,
         NEW K, OneName(K), RowKeys \subseteq K, Keyed(rows') \subseteq K,
         Keyed(q.local) \subseteq K
  PROVE  /\ req'[r] = q /\ \A s \in Requests \ {r} : req'[s] = req[s]
         /\ ReqOK' /\ OneName(Ids)' /\ OneName(RowKeys)' /\ Overlaps'
<1>1. req \in [Requests -> Request]
  BY DEF Shelf, ReqOK
<1>2. req'[r] = q /\ \A s \in Requests \ {r} : req'[s] = req[s]
  BY <1>1
<1>3. req' \in [Requests -> Request]
  BY <1>1
<1>4. ReqOK'
  BY <1>2, <1>3 DEF Shelf, ReqOK
<1>5. Ids' \subseteq I
  <2>1. \A s \in Requests : /\ Bears(req'[s].page) \subseteq I /\ Bears(req'[s].local) \subseteq I
                            /\ req'[s].pc = "made" => <<req'[s].id, req'[s].name>> \in I
    BY <1>2, IdsAre
  <2>2. \A s \in Requests : Holds(s)' \subseteq I
    BY <2>1 DEF Holds, Bears
  <2>3. Bears(meta)' \subseteq I /\ Bears(rows)' \subseteq I
    BY DEF Bears
  <2> QED
    BY <2>2, <2>3 DEF Ids
<1>6. RowKeys' \subseteq K
  <2>1. \A s \in Requests : Keyed(req'[s].local) \subseteq K
    BY <1>2, RowKeysAre
  <2> QED
    BY <2>1 DEF RowKeys, Keyed
<1>7. OneName(Ids)' /\ OneName(RowKeys)'
  BY <1>5, <1>6 DEF OneName
<1>8. Overlaps'
  BY <1>2 DEF Shelf, Overlaps
<1> QED
  BY <1>2, <1>4, <1>7, <1>8
-----------------------------------------------------------------------------
(* Beginning a request *)

\* The idle request carries nothing.
LEMMA IdleIs ==
  /\ Idle \in Request /\ Carries(Idle) /\ Idle.pc = "idle" /\ Idle.op = "idle"
  /\ Idle.name = NoName /\ Idle.page = {} /\ Idle.local = {}
  /\ IsFiniteSet(Idle.page) /\ IsFiniteSet(Idle.local)
<1>1. IsFiniteSet({})
  BY FS_EmptySet
<1> QED
  BY <1>1 DEF Idle, Request, Carries, Places, Ops

\* A request that begins, with what it has read from Meta or from the table.
LEMMA BeginKeeps ==
  ASSUME Shelf, NEW r \in Requests, NEW q \in Request, Begin(r, q), Carries(q),
         IsFiniteSet(q.page), IsFiniteSet(q.local), q.pc \in {"listed", "ask", "told", "read"},
         q.pc = "told" => q.op = "create", q.op = "delete" => Unused(q.name),
         Bears(q.page) \subseteq Ids, Bears(q.local) \subseteq Ids, Keyed(q.local) \subseteq RowKeys
  PROVE  Shelf'
<1> USE DEF Shelf
<1>0. /\ meta' = meta /\ rows' = rows /\ step' = step /\ media' = media /\ lost' = lost
      /\ blind' = blind /\ req' = [req EXCEPT ![r] = q] /\ req[r].pc = "idle"
      /\ raced \subseteq raced' /\ raced' \subseteq raced \cup {q.name}
      /\ \A s \in Requests : req[s].name = q.name /\ q.name # NoName => q.name \in raced'
  BY DEF Begin
<1>1. raced' \subseteq Names
  <2>1. q.name \in Names \cup {NoName}
    BY DEF Request
  <2>2. q.name # NoName \/ raced' = raced
    BY DEF Begin
  <2> QED
    BY <1>0, <2>1, <2>2 DEF TypeOK
<1>2. Bears(meta') \subseteq Ids /\ Bears(rows') \subseteq Ids /\ Keyed(rows') \subseteq RowKeys
  BY <1>0, IdsAre, RowKeysAre
<1>3. IsFiniteSet(meta') /\ IsFiniteSet(rows')
  BY <1>0 DEF ReqOK
<1>4. q.pc # "made"
  OBVIOUS
<1>5. \/ q.name \in {NoName, req[r].name}
      \/ \A s \in Requests \ {r} : req[s].name = q.name => q.name \in raced'
  BY <1>0
<1>6. /\ req'[r] = q /\ \A s \in Requests \ {r} : req'[s] = req[s]
      /\ ReqOK' /\ OneName(Ids)' /\ OneName(RowKeys)' /\ Overlaps'
  BY ONLY Shelf, r \in Requests, q \in Request, Carries(q), IsFiniteSet(q.page),
     IsFiniteSet(q.local), Bears(q.page) \subseteq Ids, Bears(q.local) \subseteq Ids,
     Keyed(q.local) \subseteq RowKeys, <1>0, <1>2, <1>3, <1>4, <1>5, Book DEF Shelf
<1>7. TypeOK'
  <2>1. \A s \in Requests : req'[s].page \subseteq Template /\ req'[s].local \subseteq Row
    BY <1>6 DEF ReqOK, Request
  <2> QED
    BY <1>0, <1>1, <2>1 DEF TypeOK
<1>8. \A n : Left(n) => Left(n)'
  <2> SUFFICES ASSUME NEW n, Left(n) PROVE Left(n)'
    OBVIOUS
  <2>1. PICK s \in Requests : /\ req[s].name = n /\ req[s].op \in {"delete", "edit"}
                              /\ req[s].pc \in {"told", "made"}
    BY DEF Left
  <2>2. s # r
    BY <1>0, <2>1
  <2> QED
    BY <1>6, <2>1, <2>2 DEF Left
<1>9. Made'
  BY <1>0, <1>4, <1>6 DEF Made, Bears
<1>10. Stands'
  BY <1>0, <1>8 DEF Stands, Bears
<1>11. Going'
  <2>1. \A s \in Requests \ {r} : req'[s] = req[s]
    BY <1>6
  <2>2. req'[r].op = "delete" => \A s \in Steps : step[s] # req'[r].name
    BY <1>6 DEF Unused
  <2>3. ~ At(r, "sync", "looked")'
    BY <1>6 DEF At
  <2> QED
    BY <1>0, <2>1, <2>2, <2>3 DEF Going, At, NamesOf
<1>12. StepsStand'
  <2>1. \A s \in Requests : At(s, "edit", "told") => At(s, "edit", "told")' /\ req'[s] = req[s]
    BY <1>0, <1>6 DEF At
  <2> QED
    BY <1>0, <2>1 DEF StepsStand, NamesOf
<1> QED
  BY <1>6, <1>7, <1>9, <1>10, <1>11, <1>12
-----------------------------------------------------------------------------
(* The steps of a request under way *)

\* What Meta loses goes on the record, or is left by the request, which knows it.
Recorded(r, q) ==
  /\ \A x \in Bears(meta) :
       \/ x \in Bears(meta') \/ x[2] \in lost'
       \/ x[2] = req[r].name /\ q.name = req[r].name /\ q.op \in {"delete", "edit"} /\ q.pc = "told"
  /\ q.pc = "made" => <<q.id, q.name>> \in Bears(meta')

\* A row is as it was, or it stands; a request that has told Meta goes on, or leaves rows that stand.
Placed(r, q) ==
  /\ \A x \in Bears(rows') : \/ x \in Bears(rows) \cup Bears(meta')
                             \/ x[2] \in lost' \cup raced'
  /\ req[r].op \in {"delete", "edit"} /\ req[r].pc \in {"told", "made"} =>
       \/ q.op \in {"delete", "edit"} /\ q.pc \in {"told", "made"} /\ q.name = req[r].name
       \/ \A x \in Bears(rows') : x[2] = req[r].name =>
            x \in Bears(meta') \/ x[2] \in lost' \cup raced'

\* Nothing is taken from a step that was not saved blindly.
Served(r, q) ==
  /\ \A s \in Steps : \/ step'[s] = Gone
                      \/ /\ step'[s] = step[s]
                         /\ step[s] \in NamesOf(rows) => step[s] \in NamesOf(rows') \/ s \in blind
  /\ q.op = "delete" => req[r].op = "delete" /\ q.name = req[r].name
  /\ q.op = "sync" /\ q.pc = "looked" =>
       \A s \in Steps : step'[s] \in NamesOf(q.local) \ NamesOf(q.page) => s \in q.found \cup blind
  /\ At(r, "edit", "told") =>
       \/ q.op = "edit" /\ q.pc = "told" /\ q.name = req[r].name
       \/ req[r].name \in NamesOf(meta') \cup lost'

\* Who bears a name.
LEMMA NamesBorne == ASSUME NEW S PROVE \A n : n \in NamesOf(S) <=> \E x \in Bears(S) : x[2] = n
<1>1. \A t \in S : <<t.id, t.name>>[2] = t.name
  OBVIOUS
<1>2. \A n : n \in NamesOf(S) <=> \E t \in S : t.name = n
  BY DEF NamesOf
<1>3. \A n : (\E x \in Bears(S) : x[2] = n) <=> \E t \in S : <<t.id, t.name>>[2] = n
  BY DEF Bears
<1> QED
  BY <1>1, <1>2, <1>3

\* Such a step keeps the rest of the invariant.
LEMMA Turn ==
  ASSUME Shelf, NEW r \in Requests, NEW q, req'[r] = q, \A s \in Requests \ {r} : req'[s] = req[s],
         TypeOK', ReqOK', OneName(Ids)', OneName(RowKeys)', Overlaps',
         lost \subseteq lost', raced \subseteq raced', blind' = blind,
         Recorded(r, q), Placed(r, q), Served(r, q)
  PROVE  Shelf'
<1> USE DEF Shelf
<1>1. /\ lost \cup raced \subseteq lost' \cup raced'
      /\ (Bears(meta))' = Bears(meta') /\ (Bears(rows))' = Bears(rows')
      /\ (NamesOf(meta))' = NamesOf(meta') /\ (NamesOf(rows))' = NamesOf(rows')
  BY DEF Bears, NamesOf
<1>2. Made'
  <2> SUFFICES ASSUME NEW s \in Requests, req'[s].pc = "made"
               PROVE  <<req'[s].id, req'[s].name>> \in Bears(meta') \/ req'[s].name \in lost' \cup raced'
    BY <1>1 DEF Made
  <2>1. CASE s = r
    BY <2>1 DEF Recorded
  <2>2. CASE s # r
    <3>1. req'[s] = req[s]
      BY <2>2
    <3>2. CASE req[s].name \in lost \cup raced
      BY <1>1, <3>1, <3>2
    <3>3. CASE <<req[s].id, req[s].name>> \in Bears(meta)
      <4>1. req[s].name \in Names
        BY <3>1 DEF ReqOK, Carries
      <4>2. req[s].name # NoName
        BY <4>1, NamesAssumption
      <4> DEFINE x == <<req[s].id, req[s].name>>
      <4>3. x[2] = req[s].name
        OBVIOUS
      <4> HIDE DEF x
      <4>4. x \in Bears(meta)
        BY <3>3 DEF x
      <4>5. x \in Bears(meta') \/ x[2] \in lost' \/ x[2] = req[r].name
        BY <4>4 DEF Recorded
      <4>6. req[r].name = req[s].name => req[s].name \in raced
        BY <2>2, <4>2 DEF Overlaps
      <4>7. x \in Bears(meta') \/ req[s].name \in lost' \cup raced'
        BY <4>3, <4>5, <4>6
      <4> QED
        BY <3>1, <4>7 DEF x
    <3> QED
      BY <3>1, <3>2, <3>3 DEF Made
  <2> QED
    BY <2>1, <2>2
<1>3. Stands'
  <2> SUFFICES ASSUME NEW x \in Bears(rows')
               PROVE  x \in Bears(meta') \/ Left(x[2])' \/ x[2] \in lost' \cup raced'
    BY <1>1 DEF Stands
  <2>1. CASE x \in Bears(rows)
    <3>1. CASE x[2] \in lost \cup raced
      BY <1>1, <3>1
    <3>2. CASE x \in Bears(meta)
      <4>1. q.op \in {"delete", "edit"} /\ q.pc = "told" => Left(q.name)'
        BY DEF Left
      <4> QED
        BY <3>2, <4>1 DEF Recorded
    <3>3. CASE Left(x[2])
      <4>1. PICK s \in Requests : /\ req[s].name = x[2] /\ req[s].op \in {"delete", "edit"}
                                  /\ req[s].pc \in {"told", "made"}
        BY <3>3 DEF Left
      <4>2. CASE s = r
        <5>1. q.op \in {"delete", "edit"} /\ q.pc \in {"told", "made"} => Left(q.name)'
          BY DEF Left
        <5> QED
          BY <4>1, <4>2, <5>1 DEF Placed
      <4>3. CASE s # r
        <5>1. req'[s] = req[s]
          BY <4>3
        <5>2. Left(x[2])'
          BY <4>1, <5>1 DEF Left
        <5> QED
          BY <5>2
      <4> QED
        BY <4>2, <4>3
    <3> QED
      BY <2>1, <3>1, <3>2, <3>3 DEF Stands
  <2> QED
    BY <2>1 DEF Placed
<1>4. \A s \in Steps : step'[s] = Gone \/ step'[s] = step[s]
  BY DEF Served
<1>5. \A s \in Requests : req'[s].name \in Names \cup {NoName}
  BY DEF ReqOK, Request
<1>6. Gone \notin Names \cup {NoName}
  BY NamesAssumption
<1>7. ASSUME NEW u \in Requests, req'[u].op = "delete", NEW s \in Steps, step'[s] = req'[u].name
      PROVE  s \in blind
  <2>1. step'[s] = step[s]
    BY <1>4, <1>5, <1>6, <1>7
  <2>2. req[u].op = "delete" /\ req[u].name = req'[u].name
    BY <1>7 DEF Served
  <2> QED
    BY <1>7, <2>1, <2>2 DEF Going
<1>8. ASSUME NEW u \in Requests, At(u, "sync", "looked")', NEW s \in Steps,
             step'[s] \in NamesOf(req'[u].local) \ NamesOf(req'[u].page)
      PROVE  s \in req'[u].found \cup blind
  <2>1. CASE u = r
    BY <1>8, <2>1 DEF Served, At
  <2>2. CASE u # r
    <3>1. req'[u] = req[u] /\ At(u, "sync", "looked")
      BY <1>8, <2>2 DEF At
    <3>2. NamesOf(req'[u].local) \subseteq Names
      <4>1. req'[u].local \subseteq Row
        BY DEF TypeOK
      <4> QED
        BY <4>1 DEF NamesOf, Row
    <3>3. step'[s] = step[s]
      BY <1>4, <1>6, <1>8, <3>2
    <3> QED
      BY <1>8, <3>1, <3>3 DEF Going
  <2> QED
    BY <2>1, <2>2
<1>9. Going'
  <2>1. \A u \in Requests : /\ (NamesOf(req[u].local))' = NamesOf(req'[u].local)
                            /\ (NamesOf(req[u].page))' = NamesOf(req'[u].page)
    BY DEF NamesOf
  <2> QED
    BY <1>7, <1>8, <2>1 DEF Going
<1>10. ASSUME NEW s \in Steps, step'[s] \in Names, s \notin blind
       PROVE  /\ step'[s] \in NamesOf(rows')
              /\ \/ step'[s] \in NamesOf(meta') \cup lost'
                 \/ \E u \in Requests : At(u, "edit", "told")' /\ req'[u].name = step'[s]
  <2>1. step'[s] = step[s]
    BY <1>4, <1>6, <1>10
  <2>2. /\ step[s] \in NamesOf(rows)
        /\ \/ step[s] \in NamesOf(meta) \cup lost
           \/ \E u \in Requests : At(u, "edit", "told") /\ req[u].name = step[s]
    BY <1>10, <2>1 DEF StepsStand
  <2>3. step[s] \in NamesOf(rows')
    BY <1>6, <1>10, <2>1, <2>2 DEF Served
  <2>4. CASE step[s] \in NamesOf(meta)
    <3>1. PICK x \in Bears(meta) : x[2] = step[s]
      BY <2>4, NamesBorne
    <3>2. CASE x \in Bears(meta') \/ x[2] \in lost'
      BY <2>1, <2>3, <3>1, <3>2, NamesBorne
    <3>3. CASE x[2] = req[r].name /\ q.name = req[r].name /\ q.op = "edit" /\ q.pc = "told"
      BY <2>1, <2>3, <3>1, <3>3 DEF At
    <3>4. CASE x[2] = req[r].name /\ q.name = req[r].name /\ q.op = "delete"
      BY <1>7, <1>10, <2>1, <3>1, <3>4
    <3> QED
      BY <3>2, <3>3, <3>4 DEF Recorded
  <2>5. CASE step[s] \in lost
    BY <2>1, <2>3, <2>5
  <2>6. ASSUME NEW u \in Requests, At(u, "edit", "told"), req[u].name = step[s]
        PROVE  \/ step'[s] \in NamesOf(meta') \cup lost'
               \/ At(u, "edit", "told")' /\ req'[u].name = step'[s]
    <3>1. CASE u = r
      BY <2>1, <2>6, <3>1 DEF Served, At
    <3>2. CASE u # r
      BY <2>1, <2>6, <3>2 DEF At
    <3> QED
      BY <3>1, <3>2
  <2> QED
    BY <2>1, <2>2, <2>3, <2>4, <2>5, <2>6
<1>11. StepsStand'
  BY <1>1, <1>10 DEF StepsStand
<1> QED
  BY <1>2, <1>3, <1>9, <1>11
-----------------------------------------------------------------------------
(* The beginnings *)

\* Part of a set bears part of what the set bears.
LEMMA BornePart ==
  ASSUME NEW S, NEW T \in SUBSET S
  PROVE  Bears(T) \subseteq Bears(S) /\ Keyed(T) \subseteq Keyed(S)
  BY DEF Bears, Keyed

\* A listing or a synchronisation begins with an answer of Meta, a part of what Meta has.
LEMMA ListBegins ==
  ASSUME Shelf, NEW r \in Requests, NEW op \in {"list", "sync"}, BeginList(r, op)
  PROVE  Shelf'
<1>1. PICK p \in Page : Begin(r, [Idle EXCEPT !.op = op, !.pc = "listed", !.page = p])
  BY DEF BeginList
<1> DEFINE q == [Idle EXCEPT !.op = op, !.pc = "listed", !.page = p]
<1>2. p \in SUBSET meta
  BY DEF Page
<1>3. q.pc = "listed" /\ q.op = op /\ q.page = p /\ q.local = {} /\ q.name = NoName
  BY DEF Idle
<1>4. p \subseteq Template /\ IsFiniteSet(p)
  BY <1>2, FS_Subset DEF Shelf, TypeOK, ReqOK
<1>5. q \in Request
  BY <1>4 DEF Idle, Request, Places, Ops
<1>6. Carries(q)
  BY <1>3 DEF Carries
<1>7. IsFiniteSet(q.page) /\ IsFiniteSet(q.local)
  BY <1>3, <1>4, FS_EmptySet
<1>8. Bears(q.page) \subseteq Ids /\ Bears(q.local) \subseteq Ids /\ Keyed(q.local) \subseteq RowKeys
  <2>1. Bears(p) \subseteq Ids
    BY <1>2, BornePart, IdsAre
  <2>2. Bears({}) = {} /\ Keyed({}) = {}
    BY DEF Bears, Keyed
  <2> QED
    BY <1>3, <2>1, <2>2
<1>9. Begin(r, q)
  BY <1>1
<1> HIDE DEF q
<1> QED
  BY <1>3, <1>5, <1>6, <1>7, <1>8, <1>9, BeginKeeps

\* A request that begins with no answer and no row.
LEMMA BareBegins ==
  ASSUME Shelf, NEW r \in Requests, NEW q \in Request, Begin(r, q), Carries(q),
         q.page = {}, q.local = {}, q.pc \in {"ask", "told", "read"},
         q.pc = "told" => q.op = "create", q.op # "delete"
  PROVE  Shelf'
<1>1. Bears({}) = {} /\ Keyed({}) = {} /\ IsFiniteSet({})
  BY FS_EmptySet DEF Bears, Keyed
<1>2. /\ Bears(q.page) \subseteq Ids /\ Bears(q.local) \subseteq Ids
      /\ Keyed(q.local) \subseteq RowKeys /\ IsFiniteSet(q.page) /\ IsFiniteSet(q.local)
  BY <1>1
<1> QED
  BY <1>2, BeginKeeps

\* A creation begins.
LEMMA CreateBegins ==
  ASSUME Shelf, NEW r \in Requests, NEW n \in Names, NEW lang \in Langs, BeginCreate(r, n, lang)
  PROVE  Shelf'
<1>1. PICK c \in Contents \cup {NoName} :
        Begin(r, [Idle EXCEPT !.op = "create", !.pc = "told", !.name = n, !.lang = lang,
                    !.content = c])
  BY DEF BeginCreate
<1> DEFINE q == [Idle EXCEPT !.op = "create", !.pc = "told", !.name = n, !.lang = lang,
                   !.content = c]
<1>2. /\ q.pc = "told" /\ q.op = "create" /\ q.page = {} /\ q.local = {} /\ q.name = n
      /\ q.lang = lang
  BY DEF Idle
<1>3. q \in Request
  BY DEF Idle, Request, Places, Ops
<1>4. Carries(q)
  BY <1>2 DEF Carries
<1>5. Begin(r, q)
  BY <1>1
<1> HIDE DEF q
<1> QED
  BY <1>2, <1>3, <1>4, <1>5, BareBegins

\* An edit in place begins.
LEMMA PatchBegins ==
  ASSUME Shelf, NEW r \in Requests, NEW t \in rows, BeginPatch(r, t)
  PROVE  Shelf'
<1> DEFINE q == [Idle EXCEPT !.op = "patch", !.pc = "ask", !.name = t.name, !.id = t.id]
<1>1. Begin(r, q)
  BY DEF BeginPatch
<1>2. q.pc = "ask" /\ q.op = "patch" /\ q.page = {} /\ q.local = {} /\ q.name = t.name
  BY DEF Idle
<1>3. t.name \in Names /\ t.id \in Nat
  BY DEF Shelf, TypeOK, Row
<1>4. q \in Request
  BY <1>3 DEF Idle, Request, Places, Ops
<1>5. Carries(q)
  BY <1>2, <1>3 DEF Carries
<1> HIDE DEF q
<1> QED
  BY <1>1, <1>2, <1>4, <1>5, BareBegins

\* An upload begins.
LEMMA UploadBegins ==
  ASSUME Shelf, NEW r \in Requests, NEW c \in Contents, BeginUpload(r, c)
  PROVE  Shelf'
<1> DEFINE q == [Idle EXCEPT !.op = "upload", !.pc = "read", !.content = c]
<1>1. Begin(r, q)
  BY DEF BeginUpload
<1>2. /\ q.pc = "read" /\ q.op = "upload" /\ q.page = {} /\ q.local = {} /\ q.name = NoName
      /\ q.content = c
  BY DEF Idle
<1>3. q \in Request
  BY DEF Idle, Request, Places, Ops
<1>4. Carries(q)
  BY <1>2 DEF Carries
<1> HIDE DEF q
<1> QED
  BY <1>1, <1>2, <1>3, <1>4, BareBegins

\* A request that begins with a row.
LEMMA WithRowBegins ==
  ASSUME Shelf, NEW r \in Requests, NEW t \in rows, NEW q \in Request, Begin(r, q), Carries(q),
         q.page = {}, q.local = {t}, q.pc = "ask", q.op = "delete" => Unused(q.name)
  PROVE  Shelf'
<1>1. Bears({}) = {} /\ IsFiniteSet({}) /\ IsFiniteSet({t})
  BY FS_EmptySet, FS_Singleton DEF Bears
<1>2. Bears({t}) \subseteq Ids /\ Keyed({t}) \subseteq RowKeys
  BY BornePart, IdsAre, RowKeysAre
<1>3. /\ Bears(q.page) \subseteq Ids /\ Bears(q.local) \subseteq Ids
      /\ Keyed(q.local) \subseteq RowKeys /\ IsFiniteSet(q.page) /\ IsFiniteSet(q.local)
  BY <1>1, <1>2
<1> QED
  BY <1>3, BeginKeeps

\* An edit that will delete begins.
LEMMA EditBegins ==
  ASSUME Shelf, NEW r \in Requests, NEW t \in rows, BeginEdit(r, t)
  PROVE  Shelf'
<1> DEFINE q == [Idle EXCEPT !.op = "edit", !.pc = "ask", !.name = t.name, !.lang = t.lang,
                   !.local = {t}]
<1>1. Begin(r, q)
  BY DEF BeginEdit
<1>2. /\ q.pc = "ask" /\ q.op = "edit" /\ q.page = {} /\ q.local = {t} /\ q.name = t.name
      /\ q.lang = t.lang
  BY DEF Idle
<1>3. t \in Row /\ t.name \in Names /\ t.lang \in Langs
  BY DEF Shelf, TypeOK, Row
<1>4. q \in Request
  BY <1>3 DEF Idle, Request, Places, Ops
<1>5. Carries(q)
  BY <1>2, <1>3 DEF Carries
<1> HIDE DEF q
<1> QED
  BY <1>1, <1>2, <1>4, <1>5, WithRowBegins

\* A deletion begins, of a template that no step names.
LEMMA DeleteBegins ==
  ASSUME Shelf, NEW r \in Requests, NEW t \in rows, BeginDelete(r, t)
  PROVE  Shelf'
<1> DEFINE q == [Idle EXCEPT !.op = "delete", !.pc = "ask", !.name = t.name, !.local = {t}]
<1>1. Begin(r, q) /\ Unused(t.name)
  BY DEF BeginDelete
<1>2. q.pc = "ask" /\ q.op = "delete" /\ q.page = {} /\ q.local = {t} /\ q.name = t.name
  BY DEF Idle
<1>3. t \in Row /\ t.name \in Names
  BY DEF Shelf, TypeOK, Row
<1>4. q \in Request
  BY <1>3 DEF Idle, Request, Places, Ops
<1>5. Carries(q)
  BY <1>2, <1>3 DEF Carries
<1>6. q.op = "delete" => Unused(q.name)
  BY <1>1, <1>2
<1> HIDE DEF q
<1> QED
  BY <1>1, <1>2, <1>4, <1>5, <1>6, WithRowBegins

\* Whatever request begins.
LEMMA AskKeeps == ASSUME Shelf, NEW r \in Requests, Ask(r) PROVE Shelf'
  BY ListBegins, CreateBegins, PatchBegins, EditBegins, DeleteBegins, UploadBegins DEF Ask
-----------------------------------------------------------------------------
(* The ends *)

\* The types after a step, from those of what it writes.
LEMMA TypesKept ==
  ASSUME ReqOK', meta' \subseteq Template, rows' \subseteq Row,
         step' \in [Steps -> Names \cup {NoName, Gone}], media' \subseteq Contents,
         \A t, u \in rows' : t # u => t.key # u.key /\ t.name # u.name,
         blind' \subseteq Steps, lost' \cup raced' \subseteq Names
  PROVE  TypeOK'
<1>1. \A s \in Requests : req'[s].page \subseteq Template /\ req'[s].local \subseteq Row
  BY DEF ReqOK, Request
<1> QED
  BY <1>1 DEF TypeOK

\* A request that ends.
LEMMA EndKeeps ==
  ASSUME Shelf, NEW r \in Requests, End(r), blind' = blind,
         meta' \subseteq Template, IsFiniteSet(meta'), rows' \subseteq Row, IsFiniteSet(rows'),
         \A t, u \in rows' : t # u => t.key # u.key /\ t.name # u.name,
         step' \in [Steps -> Names \cup {NoName, Gone}], media' \subseteq Contents,
         lost \subseteq lost', raced \subseteq raced', lost' \cup raced' \subseteq Names,
         NEW I, OneName(I), Ids \subseteq I, Bears(meta') \subseteq I, Bears(rows') \subseteq I,
         NEW K, OneName(K), RowKeys \subseteq K, Keyed(rows') \subseteq K,
         Recorded(r, Idle), Placed(r, Idle), Served(r, Idle)
  PROVE  Shelf'
<1>1. req' = [req EXCEPT ![r] = Idle]
  BY DEF End
<1>2. Bears(Idle.page) \subseteq I /\ Bears(Idle.local) \subseteq I /\ Keyed(Idle.local) \subseteq K
  BY IdleIs DEF Bears, Keyed
<1>3. /\ req'[r] = Idle /\ \A s \in Requests \ {r} : req'[s] = req[s]
      /\ ReqOK' /\ OneName(Ids)' /\ OneName(RowKeys)' /\ Overlaps'
  BY <1>1, <1>2, IdleIs, Book
<1>4. TypeOK'
  <2>1. blind' \subseteq Steps
    BY DEF Shelf, TypeOK
  <2> QED
    BY <1>3, <2>1, TypesKept
<1> QED
  BY <1>3, <1>4, Turn

\* What the invariant says of all that is not a request.
LEMMA ShelfHas ==
  ASSUME Shelf
  PROVE  /\ meta \subseteq Template /\ IsFiniteSet(meta) /\ rows \subseteq Row /\ IsFiniteSet(rows)
         /\ \A t, u \in rows : t # u => t.key # u.key /\ t.name # u.name
         /\ step \in [Steps -> Names \cup {NoName, Gone}] /\ media \subseteq Contents
         /\ lost \cup raced \subseteq Names /\ blind \subseteq Steps
         /\ OneName(Ids) /\ OneName(RowKeys) /\ req \in [Requests -> Request]
         /\ \A r \in Requests : Carries(req[r]) /\ req[r] \in Request
  BY DEF Shelf, TypeOK, ReqOK

\* The same, but for the requests: Meta and the table stay as they are, or lose what they have.
LEMMA Ends ==
  ASSUME Shelf, NEW r \in Requests, End(r), blind' = blind, step' = step,
         meta' \in SUBSET meta, rows' \in SUBSET rows, media' \subseteq Contents,
         lost \subseteq lost', raced' = raced, lost' \subseteq Names,
         Recorded(r, Idle), Placed(r, Idle), Served(r, Idle)
  PROVE  Shelf'
<1>1. /\ meta' \subseteq Template /\ IsFiniteSet(meta') /\ rows' \subseteq Row /\ IsFiniteSet(rows')
      /\ \A t, u \in rows' : t # u => t.key # u.key /\ t.name # u.name
  BY ShelfHas, FS_Subset
<1>2. /\ step' \in [Steps -> Names \cup {NoName, Gone}] /\ raced \subseteq raced'
      /\ lost' \cup raced' \subseteq Names /\ OneName(Ids) /\ OneName(RowKeys)
  BY ShelfHas
<1>3. /\ Bears(meta') \subseteq Ids /\ Bears(rows') \subseteq Ids
      /\ Keyed(rows') \subseteq RowKeys
  BY BornePart, IdsAre, RowKeysAre
<1> QED
  BY <1>1, <1>2, <1>3, EndKeeps

\* The name of a deletion or an edit goes on the record.
LEMMA LosesIs ==
  ASSUME Shelf, NEW r \in Requests, Loses(r)
  PROVE  /\ lost \subseteq lost' /\ lost' \subseteq Names
         /\ req[r].op \in {"delete", "edit"} => req[r].name \in lost'
<1>1. Carries(req[r]) /\ lost \subseteq Names
  BY ShelfHas
<1> QED
  BY <1>1 DEF Loses, Carries

\* Where the table stays as it is.
LEMMA EndsStill ==
  ASSUME Shelf, NEW r \in Requests, End(r), blind' = blind, step' = step,
         meta' \in SUBSET meta, rows' = rows, media' \subseteq Contents,
         lost \subseteq lost', raced' = raced, lost' \subseteq Names, Recorded(r, Idle),
         req[r].op \in {"delete", "edit"} /\ req[r].pc \in {"told", "made"} => req[r].name \in lost'
  PROVE  Shelf'
<1>1. Placed(r, Idle)
  BY DEF Placed
<1>2. Served(r, Idle)
  BY IdleIs DEF Served, At
<1>3. rows' \in SUBSET rows
  OBVIOUS
<1> QED
  BY <1>1, <1>2, <1>3, Ends

\* Where Meta stays as it is.
LEMMA RecordedStill ==
  ASSUME meta' = meta, NEW r \in Requests
  PROVE  Recorded(r, Idle)
  BY IdleIs DEF Recorded

\* Meta refuses.
LEMMA RefusedKeeps == ASSUME Shelf, NEW r \in Requests, RefusedByMeta(r) PROVE Shelf'
<1>0. /\ meta' = meta /\ rows' = rows /\ step' = step /\ media' = media /\ raced' = raced
      /\ blind' = blind /\ End(r)
      /\ (IF req[r].pc = "told" THEN Loses(r) ELSE lost' = lost)
      /\ req[r].pc \in {"ask", "told"}
  BY DEF RefusedByMeta, At
<1>1. /\ lost \subseteq lost' /\ lost' \subseteq Names
      /\ req[r].op \in {"delete", "edit"} /\ req[r].pc \in {"told", "made"} => req[r].name \in lost'
  BY <1>0, LosesIs, ShelfHas
<1>2. Recorded(r, Idle) /\ meta' \in SUBSET meta /\ media' \subseteq Contents
  BY <1>0, RecordedStill, ShelfHas
<1> QED
  BY <1>0, <1>1, <1>2, EndsStill

\* An edit in place commits nothing but content.
LEMMA CommitPatchKeeps == ASSUME Shelf, NEW r \in Requests, CommitPatch(r) PROVE Shelf'
<1>0. /\ meta' = meta /\ rows' = rows /\ step' = step /\ media' = media /\ raced' = raced
      /\ blind' = blind /\ End(r) /\ lost' = lost /\ req[r].op = "patch"
  BY DEF CommitPatch, At, hist
<1>1. /\ Recorded(r, Idle) /\ meta' \in SUBSET meta /\ media' \subseteq Contents
      /\ lost \subseteq lost' /\ lost' \subseteq Names
  BY <1>0, RecordedStill, ShelfHas
<1> QED
  BY <1>0, <1>1, EndsStill

\* A commit fails.
LEMMA CommitFailsKeeps == ASSUME Shelf, NEW r \in Requests, CommitFails(r) PROVE Shelf'
<1>0. /\ meta' = meta /\ rows' = rows /\ step' = step /\ media' = media /\ raced' = raced
      /\ blind' = blind /\ End(r) /\ Loses(r)
  BY DEF CommitFails
<1>1. Recorded(r, Idle) /\ meta' \in SUBSET meta /\ media' \subseteq Contents
  BY <1>0, RecordedStill, ShelfHas
<1>2. /\ lost \subseteq lost' /\ lost' \subseteq Names
      /\ req[r].op \in {"delete", "edit"} => req[r].name \in lost'
  BY <1>0, LosesIs
<1> QED
  BY <1>0, <1>1, <1>2, EndsStill

\* An upload stores its content.
LEMMA UploadKeeps == ASSUME Shelf, NEW r \in Requests, Upload(r) PROVE Shelf'
<1>0. /\ meta' = meta /\ rows' = rows /\ step' = step /\ media' = media \cup {req[r].content}
      /\ raced' = raced /\ blind' = blind /\ End(r) /\ lost' = lost /\ req[r].op = "upload"
  BY DEF Upload, At, hist
<1>1. Carries(req[r]) /\ media \subseteq Contents
  BY ShelfHas
<1>2. media' \subseteq Contents
  BY <1>0, <1>1 DEF Carries
<1>3. /\ Recorded(r, Idle) /\ meta' \in SUBSET meta /\ lost \subseteq lost' /\ lost' \subseteq Names
  BY <1>0, RecordedStill, ShelfHas
<1> QED
  BY <1>0, <1>2, <1>3, EndsStill
-----------------------------------------------------------------------------
(* Reading and telling Meta *)

\* A request that goes on, with its name.
LEMMA GoesOn ==
  ASSUME Shelf, NEW r \in Requests, NEW q \in Request, Carries(q), q.name = req[r].name,
         IsFiniteSet(q.page), IsFiniteSet(q.local), req' = [req EXCEPT ![r] = q],
         rows' = rows, step' = step, media' = media, raced' = raced, blind' = blind,
         meta' \subseteq Template, IsFiniteSet(meta'), lost' = lost,
         NEW I, OneName(I), Ids \subseteq I, Bears(meta') \subseteq I, Bears(q.page) \subseteq I,
         Bears(q.local) \subseteq I, q.pc = "made" => <<q.id, q.name>> \in I,
         Keyed(q.local) \subseteq RowKeys,
         Recorded(r, q), Placed(r, q), Served(r, q)
  PROVE  Shelf'
<1>1. /\ Bears(rows') \subseteq I /\ IsFiniteSet(rows') /\ OneName(RowKeys)
      /\ Keyed(rows') \subseteq RowKeys /\ raced \subseteq raced'
      /\ q.name \in {NoName, req[r].name}
  BY IdsAre, RowKeysAre, ShelfHas
<1>2. /\ req'[r] = q /\ \A s \in Requests \ {r} : req'[s] = req[s]
      /\ ReqOK' /\ OneName(Ids)' /\ OneName(RowKeys)' /\ Overlaps'
  BY <1>1, Book
<1>3. TypeOK'
  BY <1>2, ShelfHas, TypesKept
<1> QED
  BY <1>1, <1>2, <1>3, Turn

\* The rows are read, and with them the steps whose template Meta lacks.
LEMMA LookKeeps == ASSUME Shelf, NEW r \in Requests, Look(r) PROVE Shelf'
<1> DEFINE away == NamesOf(rows) \ NamesOf(req[r].page)
           f == IF req[r].op = "sync" THEN {s \in Steps : step[s] \in away} ELSE {}
           q == [req[r] EXCEPT !.pc = "looked", !.local = rows, !.found = f]
<1>1. req[r] \in Request /\ Carries(req[r]) /\ rows \subseteq Row /\ IsFiniteSet(rows)
  BY ShelfHas
<1>2. /\ q.pc = "looked" /\ q.local = rows /\ q.found = f /\ q.op = req[r].op
      /\ q.name = req[r].name /\ q.page = req[r].page /\ q.lang = req[r].lang
      /\ q.content = req[r].content
  BY <1>1 DEF Request
<1>0. /\ req' = [req EXCEPT ![r] = q] /\ meta' = meta /\ rows' = rows /\ step' = step
      /\ media' = media /\ raced' = raced /\ blind' = blind /\ lost' = lost
      /\ req[r].op \in {"list", "sync"} /\ req[r].pc = "listed"
  BY DEF Look, hist
<1>3. q \in Request
  BY <1>1 DEF Request, Places
<1> HIDE DEF q
<1>4. Carries(q)
  BY <1>0, <1>1, <1>2 DEF Carries
<1>5. IsFiniteSet(q.page) /\ IsFiniteSet(q.local)
  BY <1>1, <1>2 DEF Shelf, ReqOK
<1>6. /\ meta' \subseteq Template /\ IsFiniteSet(meta') /\ OneName(Ids)
      /\ Bears(meta') \subseteq Ids /\ Bears(q.page) \subseteq Ids /\ Bears(q.local) \subseteq Ids
      /\ Keyed(q.local) \subseteq RowKeys
  BY <1>0, <1>2, ShelfHas, IdsAre, RowKeysAre
<1>7. Recorded(r, q)
  BY <1>0, <1>2 DEF Recorded
<1>8. Placed(r, q)
  BY <1>0 DEF Placed
<1>9. Served(r, q)
  BY <1>0, <1>2 DEF Served, At
<1>10. q.pc # "made"
  BY <1>2
<1> QED
  BY <1>0, <1>2, <1>3, <1>4, <1>5, <1>6, <1>7, <1>8, <1>9, <1>10, GoesOn

\* A request that has told Meta goes on with what it carries.
LEMMA Told ==
  ASSUME Shelf, NEW r \in Requests, Goto(r, "told")
  PROVE  \E q \in Request :
           /\ req' = [req EXCEPT ![r] = q] /\ q = [req[r] EXCEPT !.pc = "told"]
           /\ q.pc = "told" /\ q.op = req[r].op /\ q.name = req[r].name
           /\ Carries(q) /\ IsFiniteSet(q.page) /\ IsFiniteSet(q.local)
           /\ Bears(q.page) \subseteq Ids /\ Bears(q.local) \subseteq Ids
           /\ Keyed(q.local) \subseteq RowKeys
<1> DEFINE q == [req[r] EXCEPT !.pc = "told"]
<1>1. req[r] \in Request /\ Carries(req[r])
  BY ShelfHas
<1>2. /\ q.pc = "told" /\ q.op = req[r].op /\ q.name = req[r].name /\ q.lang = req[r].lang
      /\ q.page = req[r].page /\ q.local = req[r].local /\ q.content = req[r].content
      /\ q \in Request
  BY <1>1 DEF Request, Places
<1>3. req' = [req EXCEPT ![r] = q]
  BY DEF Goto
<1> HIDE DEF q
<1>4. Carries(q)
  BY <1>1, <1>2 DEF Carries
<1>5. IsFiniteSet(q.page) /\ IsFiniteSet(q.local)
  BY <1>2 DEF Shelf, ReqOK
<1>6. /\ Bears(q.page) \subseteq Ids /\ Bears(q.local) \subseteq Ids
      /\ Keyed(q.local) \subseteq RowKeys
  BY <1>2, IdsAre, RowKeysAre
<1> QED
  BY <1>2, <1>3, <1>4, <1>5, <1>6 DEF q

\* The templates of a name are deleted at Meta.
LEMMA DeleteAtMetaKeeps == ASSUME Shelf, NEW r \in Requests, DeleteAtMeta(r) PROVE Shelf'
<1>0. /\ meta' = meta \ Named(meta, req[r].name) /\ rows' = rows /\ step' = step
      /\ media' = media /\ raced' = raced /\ blind' = blind
      /\ req[r].op \in {"delete", "edit"} /\ req[r].pc = "ask"
      /\ ((Goto(r, "told") /\ lost' = lost) \/ (End(r) /\ Loses(r)))
  BY DEF DeleteAtMeta
<1>1. meta' \in SUBSET meta
  BY <1>0
<1>2. \A x \in Bears(meta) : x \in Bears(meta') \/ x[2] = req[r].name
  <2> SUFFICES ASSUME NEW t \in meta, t.name # req[r].name
               PROVE  <<t.id, t.name>> \in Bears(meta')
    BY DEF Bears
  <2>1. t \in meta'
    BY <1>0 DEF Named
  <2> QED
    BY <2>1 DEF Bears
<1>3. CASE End(r) /\ Loses(r)
  <2>1. lost \subseteq lost' /\ lost' \subseteq Names /\ req[r].name \in lost'
    BY <1>0, <1>3, LosesIs
  <2>2. Recorded(r, Idle)
    BY <1>2, <2>1, IdleIs DEF Recorded
  <2>3. media' \subseteq Contents
    BY <1>0, ShelfHas
  <2> QED
    BY <1>0, <1>1, <1>3, <2>1, <2>2, <2>3, EndsStill
<1>4. CASE Goto(r, "told") /\ lost' = lost
  <2>1. PICK q \in Request :
          /\ req' = [req EXCEPT ![r] = q]
          /\ q.pc = "told" /\ q.op = req[r].op /\ q.name = req[r].name
          /\ Carries(q) /\ IsFiniteSet(q.page) /\ IsFiniteSet(q.local)
          /\ Bears(q.page) \subseteq Ids /\ Bears(q.local) \subseteq Ids
          /\ Keyed(q.local) \subseteq RowKeys
    BY <1>4, Told
  <2>2. Recorded(r, q)
    BY <1>0, <1>2, <2>1 DEF Recorded
  <2>3. Placed(r, q)
    BY <1>0 DEF Placed
  <2>4. Served(r, q)
    BY <1>0, <2>1 DEF Served, At
  <2>5. /\ meta' \subseteq Template /\ IsFiniteSet(meta') /\ OneName(Ids)
        /\ Bears(meta') \subseteq Ids
    BY <1>1, ShelfHas, FS_Subset, BornePart, IdsAre
  <2>6. q.pc # "made"
    BY <2>1
  <2> QED
    BY <1>0, <1>4, <2>1, <2>2, <2>3, <2>4, <2>5, <2>6, GoesOn
<1> QED
  BY <1>0, <1>3, <1>4

\* A template of another status bears what it bore.
LEMMA StatusOnly ==
  ASSUME Shelf, NEW t \in meta, NEW st \in Statuses,
         meta' = (meta \ {t}) \cup {[t EXCEPT !.status = st]}
  PROVE  meta' \subseteq Template /\ IsFiniteSet(meta') /\ Bears(meta') = Bears(meta)
<1> DEFINE u == [t EXCEPT !.status = st]
<1>1. t \in Template /\ meta \subseteq Template /\ IsFiniteSet(meta)
  BY ShelfHas
<1>2. u \in Template /\ u.id = t.id /\ u.name = t.name
  BY <1>1 DEF Template
<1>3. meta' = (meta \ {t}) \cup {u}
  OBVIOUS
<1> HIDE DEF u
<1>4. IsFiniteSet(meta \ {t}) /\ IsFiniteSet({u})
  BY <1>1, FS_Subset, FS_Singleton
<1>5. IsFiniteSet((meta \ {t}) \cup {u})
  BY <1>4, FS_Union
<1>6. Bears(meta') = Bears(meta)
  BY <1>2, <1>3 DEF Bears
<1> QED
  BY <1>1, <1>2, <1>3, <1>5, <1>6

\* A rejected template is edited in place.
LEMMA EditAtMetaKeeps == ASSUME Shelf, NEW r \in Requests, EditAtMeta(r) PROVE Shelf'
<1>0. /\ rows' = rows /\ step' = step /\ media' = media /\ raced' = raced /\ blind' = blind
      /\ lost' = lost /\ req[r].op = "patch" /\ (Goto(r, "told") \/ End(r))
  BY DEF EditAtMeta, At, hist
<1>1. PICK t \in meta : meta' = (meta \ {t}) \cup {[t EXCEPT !.status = "PENDING"]}
  BY DEF EditAtMeta
<1>2. /\ meta' \subseteq Template /\ IsFiniteSet(meta') /\ Bears(meta') = Bears(meta)
      /\ Bears(meta') \subseteq Ids
  BY <1>1, StatusOnly, IdsAre DEF Statuses
<1>3. OneName(Ids) /\ OneName(RowKeys) /\ Bears(rows') \subseteq Ids /\ Keyed(rows') \subseteq RowKeys
  BY <1>0, ShelfHas, IdsAre, RowKeysAre
<1>4. CASE End(r)
  <2>1. Recorded(r, Idle)
    BY <1>2, IdleIs DEF Recorded
  <2>2. Placed(r, Idle)
    BY <1>0 DEF Placed
  <2>3. Served(r, Idle)
    BY <1>0, IdleIs DEF Served, At
  <2>4. /\ rows' \subseteq Row /\ IsFiniteSet(rows')
        /\ \A a, b \in rows' : a # b => a.key # b.key /\ a.name # b.name
        /\ step' \in [Steps -> Names \cup {NoName, Gone}] /\ media' \subseteq Contents
        /\ lost \subseteq lost' /\ raced \subseteq raced' /\ lost' \cup raced' \subseteq Names
    BY <1>0, ShelfHas
  <2> QED
    BY <1>0, <1>2, <1>3, <1>4, <2>1, <2>2, <2>3, <2>4, EndKeeps
<1>5. CASE Goto(r, "told")
  <2>1. PICK q \in Request :
          /\ req' = [req EXCEPT ![r] = q]
          /\ q.pc = "told" /\ q.op = req[r].op /\ q.name = req[r].name
          /\ Carries(q) /\ IsFiniteSet(q.page) /\ IsFiniteSet(q.local)
          /\ Bears(q.page) \subseteq Ids /\ Bears(q.local) \subseteq Ids
          /\ Keyed(q.local) \subseteq RowKeys
    BY <1>5, Told
  <2>2. Recorded(r, q)
    BY <1>2, <2>1 DEF Recorded
  <2>3. Placed(r, q)
    BY <1>0 DEF Placed
  <2>4. Served(r, q)
    BY <1>0, <2>1 DEF Served, At
  <2>5. q.pc # "made"
    BY <2>1
  <2> QED
    BY <1>0, <1>2, <1>3, <2>1, <2>2, <2>3, <2>4, <2>5, GoesOn
<1> QED
  BY <1>0, <1>4, <1>5

\* A template is created at Meta, under a new id.
LEMMA CreateAtMetaKeeps == ASSUME Shelf, NEW r \in Requests, CreateAtMeta(r) PROVE Shelf'
<1>1. req[r] \in Request /\ Carries(req[r])
  BY ShelfHas
<1> DEFINE n == req[r].name
           u == [id |-> NewId, name |-> n, lang |-> req[r].lang, status |-> "PENDING"]
           I == Ids \cup {<<NewId, n>>}
           q == [req[r] EXCEPT !.pc = "made", !.id = NewId]
<1>0. /\ meta' = meta \cup {u} /\ rows' = rows /\ step' = step /\ media' = media
      /\ raced' = raced /\ blind' = blind
      /\ req[r].op \in {"create", "edit"} /\ req[r].pc = "told"
      /\ ((req' = [req EXCEPT ![r] = q] /\ lost' = lost) \/ (End(r) /\ Loses(r)))
  BY DEF CreateAtMeta
<1>2. n \in Names /\ req[r].lang \in Langs
  BY <1>0, <1>1 DEF Carries
<1>3. NewId \in Nat /\ \A x \in Ids : x[1] # NewId
  BY NewIdIs DEF Shelf
<1>4. OneName(I) /\ Ids \subseteq I
  BY <1>3, OneNameMore, ShelfHas
<1>5. u \in Template /\ u.id = NewId /\ u.name = n
  BY <1>2, <1>3 DEF Template, Statuses
<1>6. /\ q.pc = "made" /\ q.id = NewId /\ q.op = req[r].op /\ q.name = n /\ q.lang = req[r].lang
      /\ q.page = req[r].page /\ q.local = req[r].local /\ q.content = req[r].content
      /\ q \in Request
  BY <1>1, <1>3 DEF Request, Places
<1> HIDE DEF u, q
<1>7. meta' \subseteq Template /\ IsFiniteSet(meta')
  <2>1. IsFiniteSet(meta) /\ meta \subseteq Template
    BY ShelfHas
  <2>2. IsFiniteSet(meta \cup {u})
    BY <2>1, FS_AddElement
  <2> QED
    BY <1>0, <1>5, <2>1, <2>2
<1>8. Bears(meta') = Bears(meta) \cup {<<NewId, n>>}
  BY <1>0, <1>5 DEF Bears
<1>9. Bears(meta') \subseteq I /\ Bears(rows') \subseteq I
  BY <1>0, <1>8, IdsAre
<1>10. n \in NamesOf(meta')
  BY <1>0, <1>5 DEF NamesOf
<1>11. CASE End(r) /\ Loses(r)
  <2>1. /\ lost \subseteq lost' /\ lost' \subseteq Names
        /\ req[r].op \in {"delete", "edit"} => req[r].name \in lost'
    BY <1>11, LosesIs
  <2>2. Recorded(r, Idle)
    BY <1>8, IdleIs DEF Recorded
  <2>3. Placed(r, Idle)
    BY <1>0, <2>1 DEF Placed
  <2>4. Served(r, Idle)
    BY <1>0, <1>10, IdleIs DEF Served, At
  <2>5. /\ rows' \subseteq Row /\ IsFiniteSet(rows')
        /\ \A a, b \in rows' : a # b => a.key # b.key /\ a.name # b.name
        /\ step' \in [Steps -> Names \cup {NoName, Gone}] /\ media' \subseteq Contents
        /\ raced \subseteq raced' /\ lost' \cup raced' \subseteq Names
        /\ Keyed(rows') \subseteq RowKeys /\ OneName(RowKeys)
    BY <1>0, <2>1, ShelfHas, RowKeysAre
  <2> HIDE DEF I
  <2> QED
    BY <1>0, <1>4, <1>7, <1>9, <1>11, <2>1, <2>2, <2>3, <2>4, <2>5, EndKeeps
<1>12. CASE req' = [req EXCEPT ![r] = q] /\ lost' = lost
  <2>1. Carries(q)
    BY <1>0, <1>1, <1>6 DEF Carries
  <2>2. Recorded(r, q)
    BY <1>6, <1>8 DEF Recorded
  <2>3. Placed(r, q)
    BY <1>0, <1>6 DEF Placed
  <2>4. Served(r, q)
    BY <1>0, <1>6, <1>10 DEF Served, At
  <2>5. IsFiniteSet(q.page) /\ IsFiniteSet(q.local)
    BY <1>6 DEF Shelf, ReqOK
  <2>6. /\ Bears(q.page) \subseteq I /\ Bears(q.local) \subseteq I
        /\ Keyed(q.local) \subseteq RowKeys
    BY <1>4, <1>6, IdsAre, RowKeysAre
  <2>7. <<q.id, q.name>> \in I
    BY <1>6
  <2> HIDE DEF I
  <2> QED
    BY <1>0, <1>4, <1>6, <1>7, <1>9, <1>12, <2>1, <2>2, <2>3, <2>4, <2>5, <2>6, <2>7, GoesOn
<1> QED
  BY <1>0, <1>11, <1>12
-----------------------------------------------------------------------------
(* Committing *)

\* A row with the key of a row that was read has its name.
LEMMA SameRow ==
  ASSUME Shelf, NEW r \in Requests, NEW x \in req[r].local, NEW t \in rows, t.key = x.key
  PROVE  t.name = x.name
<1> DEFINE a == <<t.key, t.name>>
           b == <<x.key, x.name>>
<1>1. a \in RowKeys /\ b \in RowKeys
  BY RowKeysAre DEF Keyed
<1>2. OneName(RowKeys)
  BY ShelfHas
<1>3. a[1] = t.key /\ a[2] = t.name /\ b[1] = x.key /\ b[2] = x.name
  OBVIOUS
<1> HIDE DEF a, b
<1> QED
  BY <1>1, <1>2, <1>3 DEF OneName

\* What a deletion or an edit takes from the table is of its name.
LEMMA UnlinkedIs ==
  ASSUME Shelf, NEW r \in Requests, req[r].op \in {"create", "edit", "delete"},
         NEW t \in rows, t.key \in {x.key : x \in req[r].local}
  PROVE  t.name = req[r].name /\ req[r].op # "create"
<1>1. Carries(req[r])
  BY ShelfHas
<1>2. PICK x \in req[r].local : x.key = t.key
  OBVIOUS
<1>3. t.name = x.name
  BY <1>2, SameRow
<1>4. req[r].op # "create"
  BY <1>1, <1>2 DEF Carries
<1>5. x.name = req[r].name
  BY <1>1, <1>4 DEF Carries
<1> QED
  BY <1>3, <1>4, <1>5

\* A deletion commits: its row goes; a row of that name that it has not read stays, and is on record.
LEMMA CommitDeleteKeeps == ASSUME Shelf, NEW r \in Requests, CommitDelete(r) PROVE Shelf'
<1>0. /\ meta' = meta /\ step' = step /\ media' = media /\ raced' = raced /\ blind' = blind
      /\ rows' = {t \in rows : t.key \notin {x.key : x \in req[r].local}}
      /\ End(r) /\ (IF Anew(r) # {} THEN Loses(r) ELSE lost' = lost)
      /\ req[r].op = "delete" /\ req[r].pc = "told"
  BY DEF CommitDelete, At, Unlink
<1>1. /\ lost \subseteq lost' /\ lost' \subseteq Names /\ (Anew(r) # {} => req[r].name \in lost')
  BY <1>0, LosesIs, ShelfHas
<1>2. Recorded(r, Idle) /\ meta' \in SUBSET meta /\ media' \subseteq Contents
  BY <1>0, RecordedStill, ShelfHas
<1>3. rows' \in SUBSET rows
  BY <1>0
<1>4. \A x \in Bears(rows') : x \in Bears(rows) /\ (x[2] = req[r].name => x[2] \in lost')
  <2> SUFFICES ASSUME NEW t \in rows'
               PROVE  <<t.id, t.name>> \in Bears(rows) /\ (t.name = req[r].name => t.name \in lost')
    BY DEF Bears
  <2>1. t \in rows /\ t.key \notin {x.key : x \in req[r].local}
    BY <1>0
  <2>2. t.name = req[r].name => t \in Anew(r)
    BY <2>1 DEF Anew, Named
  <2> QED
    BY <1>1, <2>1, <2>2 DEF Bears
<1>5. Placed(r, Idle)
  BY <1>4 DEF Placed
<1>6. ASSUME NEW s \in Steps, step[s] \in NamesOf(rows)
      PROVE  step[s] \in NamesOf(rows') \/ s \in blind
  <2>1. PICK t \in rows : t.name = step[s]
    BY <1>6 DEF NamesOf
  <2>2. CASE t \in rows'
    BY <2>1, <2>2 DEF NamesOf
  <2>3. CASE t.key \in {x.key : x \in req[r].local}
    <3>1. t.name = req[r].name
      BY <1>0, <2>3, UnlinkedIs
    <3> QED
      BY <1>0, <2>1, <3>1 DEF Shelf, Going
  <2> QED
    BY <1>0, <2>2, <2>3
<1>7. Served(r, Idle)
  BY <1>0, <1>6, IdleIs DEF Served, At
<1> QED
  BY <1>0, <1>1, <1>2, <1>3, <1>5, <1>7, Ends

\* A creation or an edit commits its row, if the table has no other of its name.
LEMMA CommitNewKeeps == ASSUME Shelf, NEW r \in Requests, CommitNew(r) PROVE Shelf'
<1> DEFINE n == req[r].name
           u == [key |-> Least(Keys), id |-> req[r].id, name |-> n, lang |-> req[r].lang,
                 status |-> "PENDING"]
           rest == {t \in rows : t.key \notin {x.key : x \in req[r].local}}
           K == RowKeys \cup {<<Least(Keys), n>>}
<1>0. /\ meta' = meta /\ step' = step /\ media' = media /\ raced' = raced /\ blind' = blind
      /\ End(r) /\ req[r].pc = "made"
      /\ \/ Anew(r) # {} /\ rows' = rows /\ Loses(r)
         \/ Anew(r) = {} /\ rows' = rest \cup {u} /\ lost' = lost
  BY DEF CommitNew
<1>1. req[r] \in Request /\ Carries(req[r])
  BY ShelfHas
<1>2. req[r].op \in {"create", "edit"} /\ n \in Names /\ req[r].lang \in Langs
  BY <1>0, <1>1 DEF Carries
<1>3. Recorded(r, Idle) /\ meta' \in SUBSET meta /\ media' \subseteq Contents
  BY <1>0, RecordedStill, ShelfHas
<1>4. CASE Anew(r) # {} /\ rows' = rows /\ Loses(r)
  <2>1. /\ lost \subseteq lost' /\ lost' \subseteq Names
        /\ req[r].op \in {"delete", "edit"} => req[r].name \in lost'
    BY <1>4, LosesIs
  <2> QED
    BY <1>0, <1>3, <1>4, <2>1, EndsStill
<1>5. CASE Anew(r) = {} /\ rows' = rest \cup {u} /\ lost' = lost
  <2>1. Least(Keys) \in Nat /\ Least(Keys) \notin Keys /\ \A x \in RowKeys : x[1] \in Keys
    BY KeysAre, LeastIs DEF Shelf
  <2>2. u \in Row /\ u.key = Least(Keys) /\ u.id = req[r].id /\ u.name = n
    BY <1>1, <1>2, <2>1 DEF Row, Statuses, Request
  <2>3. OneName(K) /\ RowKeys \subseteq K
    BY <2>1, OneNameMore, ShelfHas
  <2>4. rest \in SUBSET rows
    OBVIOUS
  <2>5. \A t \in rest : t.name # n
    <3>1. \A t \in rows : t.name = n /\ t.key \notin {x.key : x \in req[r].local} => t \in Anew(r)
      BY DEF Anew, Named
    <3> QED
      BY <1>5, <3>1
  <2>6. \A t \in rest : t.key # u.key
    <3>1. \A t \in rows : t.key \in Keys
      BY DEF Keys
    <3> QED
      BY <2>1, <2>2, <2>4, <3>1
  <2>7. ASSUME NEW s \in Steps, step[s] \in NamesOf(rows)
        PROVE  step[s] \in NamesOf(rows')
    <3>1. PICK t \in rows : t.name = step[s]
      BY <2>7 DEF NamesOf
    <3>2. CASE t \in rest
      BY <1>5, <3>1, <3>2 DEF NamesOf
    <3>3. CASE t.key \in {x.key : x \in req[r].local}
      <4>1. t.name = n
        BY <1>2, <3>3, UnlinkedIs
      <4>2. u \in rows'
        BY <1>5
      <4> QED
        BY <2>2, <3>1, <4>1, <4>2 DEF NamesOf
    <3> QED
      BY <3>2, <3>3
  <2> HIDE DEF u, rest, K
  <2>8. rows \subseteq Row /\ IsFiniteSet(rows) /\ OneName(Ids)
        /\ \A a, b \in rows : a # b => a.key # b.key /\ a.name # b.name
    BY ShelfHas
  <2>9. rows' \subseteq Row /\ \A a, b \in rows' : a # b => a.key # b.key /\ a.name # b.name
    BY <1>5, <2>2, <2>4, <2>5, <2>6, <2>8
  <2>10. IsFiniteSet(rows')
    <3>1. IsFiniteSet(rest)
      BY <2>4, <2>8, FS_Subset
    <3>2. IsFiniteSet(rest \cup {u})
      BY <3>1, FS_AddElement
    <3> QED
      BY <1>5, <3>2
  <2>11. /\ Bears(rows') = Bears(rest) \cup {<<req[r].id, n>>}
         /\ Keyed(rows') = Keyed(rest) \cup {<<Least(Keys), n>>}
    BY <1>5, <2>2 DEF Bears, Keyed
  <2>12. /\ Bears(rows') \subseteq Ids /\ Keyed(rows') \subseteq K
         /\ Bears(meta') \subseteq Ids
    <3>1. Bears(rest) \subseteq Bears(rows) /\ Keyed(rest) \subseteq Keyed(rows)
      BY <2>4, BornePart
    <3>2. <<req[r].id, n>> \in Ids
      BY <1>0, IdsAre
    <3> QED
      BY <1>0, <2>3, <2>11, <3>1, <3>2, IdsAre, RowKeysAre DEF K
  <2>13. <<req[r].id, n>> \in Bears(meta') \/ n \in lost' \cup raced'
    BY <1>0, <1>5 DEF Shelf, Made
  <2>14. Placed(r, Idle)
    <3>1. \A x \in Bears(rest) : x \in Bears(rows) /\ x[2] # n
      BY <2>4, <2>5 DEF Bears
    <3>2. \A x : x = <<req[r].id, n>> => x[2] = n
      OBVIOUS
    <3>3. \A x \in Bears(rows') : \/ x \in Bears(rows) /\ x[2] # n
                                  \/ x \in Bears(meta') \/ x[2] \in lost' \cup raced'
      BY <2>11, <2>13, <3>1, <3>2
    <3> QED
      BY <3>3 DEF Placed
  <2>15. Served(r, Idle)
    BY <1>0, <2>7, IdleIs DEF Served, At
  <2>16. /\ meta' \subseteq Template /\ IsFiniteSet(meta')
         /\ step' \in [Steps -> Names \cup {NoName, Gone}]
         /\ lost \subseteq lost' /\ raced \subseteq raced' /\ lost' \cup raced' \subseteq Names
    BY <1>0, <1>5, ShelfHas
  <2> QED
    BY <1>0, <1>3, <2>3, <2>8, <2>9, <2>10, <2>12, <2>14, <2>15, <2>16, EndKeeps
<1> QED
  BY <1>0, <1>4, <1>5
-----------------------------------------------------------------------------
(* Steps, and Meta by itself *)

\* The requests and the books stay where no request moves.
LEMMA Books ==
  ASSUME Shelf, req' = req, rows' = rows, IsFiniteSet(meta'), raced' = raced,
         NEW I, OneName(I), Ids \subseteq I, Bears(meta') \subseteq I
  PROVE  ReqOK' /\ OneName(Ids)' /\ OneName(RowKeys)' /\ Overlaps'
<1>1. ReqOK'
  BY DEF Shelf, ReqOK
<1>2. Ids' \subseteq I
  <2>1. \A s \in Requests : Holds(s)' = Holds(s)
    BY DEF Holds, Bears
  <2>2. \A s \in Requests : Holds(s) \subseteq Ids
    BY InIds
  <2>3. Bears(meta)' \subseteq I /\ Bears(rows)' \subseteq I
    <3>1. Bears(meta)' = Bears(meta') /\ Bears(rows)' = Bears(rows)
      BY DEF Bears
    <3> QED
      BY <3>1, IdsAre
  <2> QED
    BY <2>1, <2>2, <2>3 DEF Ids
<1>3. RowKeys' = RowKeys
  BY DEF RowKeys, Keyed
<1>4. OneName(Ids)' /\ OneName(RowKeys)'
  BY <1>2, <1>3, ShelfHas DEF OneName
<1>5. Overlaps'
  BY DEF Shelf, Overlaps
<1> QED
  BY <1>1, <1>4, <1>5

\* A step is saved: blindly, if the name is not at Meta and in the table or is about to leave.
LEMMA SaveStepKeeps == ASSUME Shelf, NEW t \in Steps, NEW n \in Names, SaveStep(t, n) PROVE Shelf'
<1>0. /\ meta' = meta /\ rows' = rows /\ media' = media /\ req' = req /\ lost' = lost
      /\ raced' = raced /\ step' = [step EXCEPT ![t] = n]
      /\ blind' = IF n \notin NamesOf(meta) \cap NamesOf(rows) \/ Leaving(n) \/ Cut(n)
                    THEN blind \cup {t} ELSE blind \ {t}
  BY DEF SaveStep
<1>1. OneName(Ids) /\ Bears(meta') \subseteq Ids /\ IsFiniteSet(meta')
  BY <1>0, ShelfHas, IdsAre
<1>2. ReqOK' /\ OneName(Ids)' /\ OneName(RowKeys)' /\ Overlaps'
  BY <1>0, <1>1, Books
<1>3. step \in [Steps -> Names \cup {NoName, Gone}] /\ blind \subseteq Steps
  BY ShelfHas
<1>4. step' \in [Steps -> Names \cup {NoName, Gone}] /\ blind' \subseteq Steps
  BY <1>0, <1>3
<1>5. TypeOK'
  BY <1>0, <1>2, <1>4, ShelfHas, TypesKept
<1>6. Made' /\ Stands'
  BY <1>0 DEF Shelf, Made, Stands, Left, Bears
<1>7. \A s \in Steps : s # t => step'[s] = step[s] /\ (s \in blind' <=> s \in blind)
  BY <1>0, <1>3
<1>8. /\ step'[t] = n
      /\ t \notin blind' => n \in NamesOf(meta) /\ n \in NamesOf(rows) /\ ~ Leaving(n) /\ ~ Cut(n)
  BY <1>0, <1>3
<1>9. Going'
  <2>1. ASSUME NEW u \in Requests, req[u].op = "delete", NEW s \in Steps, step'[s] = req[u].name
        PROVE  s \in blind'
    <3>1. CASE s # t
      BY <1>7, <2>1, <3>1 DEF Shelf, Going
    <3>2. CASE s = t
      <4> SUFFICES ASSUME t \notin blind' PROVE FALSE
        BY <3>2
      <4>1. Carries(req[u])
        BY ShelfHas
      <4>2. req[u].pc \in {"ask", "told"}
        BY <2>1, <4>1 DEF Carries
      <4>3. Leaving(n)
        BY <1>8, <2>1, <3>2, <4>2 DEF Leaving
      <4> QED
        BY <1>8, <4>3
    <3> QED
      BY <3>1, <3>2
  <2>2. ASSUME NEW u \in Requests, At(u, "sync", "looked"), NEW s \in Steps,
               step'[s] \in NamesOf(req[u].local) \ NamesOf(req[u].page)
        PROVE  s \in req[u].found \cup blind'
    <3>1. CASE s # t
      BY <1>7, <2>2, <3>1 DEF Shelf, Going
    <3>2. CASE s = t
      <4>1. Cut(n)
        BY <1>8, <2>2, <3>2 DEF Cut
      <4> QED
        BY <1>8, <3>2, <4>1
    <3> QED
      BY <3>1, <3>2
  <2> QED
    BY <1>0, <2>1, <2>2 DEF Going, At, NamesOf
<1>10. StepsStand'
  <2> SUFFICES ASSUME NEW s \in Steps, step'[s] \in Names, s \notin blind'
               PROVE  /\ step'[s] \in NamesOf(rows)
                      /\ \/ step'[s] \in NamesOf(meta) \cup lost
                         \/ \E r \in Requests : At(r, "edit", "told") /\ req[r].name = step'[s]
    BY <1>0 DEF StepsStand, NamesOf, At
  <2>1. CASE s = t
    BY <1>8, <2>1
  <2>2. CASE s # t
    BY <1>7, <2>2 DEF Shelf, StepsStand
  <2> QED
    BY <2>1, <2>2
<1> QED
  BY <1>2, <1>5, <1>6, <1>9, <1>10 DEF Shelf

\* Meta changes by itself: what it loses goes on the record.
LEMMA MetaKeeps ==
  ASSUME Shelf, req' = req, rows' = rows, step' = step, media' = media, raced' = raced,
         blind' = blind, meta' \subseteq Template, IsFiniteSet(meta'),
         lost \subseteq lost', lost' \subseteq Names,
         \A x \in Bears(meta) : x \in Bears(meta') \/ x[2] \in lost',
         NEW I, OneName(I), Ids \subseteq I, Bears(meta') \subseteq I
  PROVE  Shelf'
<1>1. ReqOK' /\ OneName(Ids)' /\ OneName(RowKeys)' /\ Overlaps'
  BY Books
<1>2. TypeOK'
  BY <1>1, ShelfHas, TypesKept
<1>3. (Bears(meta))' = Bears(meta') /\ (Bears(rows))' = Bears(rows)
  BY DEF Bears
<1>4. Made'
  <2> SUFFICES ASSUME NEW s \in Requests, req[s].pc = "made"
               PROVE  <<req[s].id, req[s].name>> \in Bears(meta') \/ req[s].name \in lost' \cup raced
    BY <1>3 DEF Made
  <2> DEFINE x == <<req[s].id, req[s].name>>
  <2>1. x[2] = req[s].name
    OBVIOUS
  <2>2. x \in Bears(meta) \/ req[s].name \in lost \cup raced
    BY DEF Shelf, Made
  <2> HIDE DEF x
  <2>3. x \in Bears(meta') \/ req[s].name \in lost' \cup raced
    BY <2>1, <2>2
  <2> QED
    BY <2>3 DEF x
<1>5. Stands'
  <2>1. \A n : Left(n)' <=> Left(n)
    BY DEF Left
  <2> QED
    BY <1>3, <2>1 DEF Shelf, Stands
<1>6. Going'
  BY DEF Shelf, Going, At, NamesOf
<1>7. StepsStand'
  <2>1. \A n \in NamesOf(meta) : n \in NamesOf(meta') \cup lost'
    <3> SUFFICES ASSUME NEW n \in NamesOf(meta) PROVE n \in NamesOf(meta') \cup lost'
      OBVIOUS
    <3>1. PICK x \in Bears(meta) : x[2] = n
      BY NamesBorne
    <3> QED
      BY <3>1, NamesBorne
  <2>2. (NamesOf(meta))' = NamesOf(meta') /\ (NamesOf(rows))' = NamesOf(rows)
    BY DEF NamesOf
  <2>3. \A s \in Requests : At(s, "edit", "told")' <=> At(s, "edit", "told")
    BY DEF At
  <2> QED
    BY <2>1, <2>2, <2>3 DEF Shelf, StepsStand
<1> QED
  BY <1>1, <1>2, <1>4, <1>5, <1>6, <1>7 DEF Shelf

\* Meta's review.
LEMMA ReviewKeeps == ASSUME Shelf, NEW t \in meta, Review(t) PROVE Shelf'
<1>0. /\ rows' = rows /\ step' = step /\ media' = media /\ raced' = raced /\ blind' = blind
      /\ lost' = lost /\ req' = req
  BY DEF Review, hist
<1>1. PICK s \in {"APPROVED", "REJECTED"} : meta' = (meta \ {t}) \cup {[t EXCEPT !.status = s]}
  BY DEF Review
<1>2. s \in Statuses
  BY DEF Statuses
<1>3. meta' \subseteq Template /\ IsFiniteSet(meta') /\ Bears(meta') = Bears(meta)
  BY <1>1, <1>2, StatusOnly
<1>4. OneName(Ids) /\ Bears(meta') \subseteq Ids /\ lost \subseteq lost' /\ lost' \subseteq Names
  BY <1>0, <1>3, ShelfHas, IdsAre
<1> QED
  BY <1>0, <1>3, <1>4, MetaKeeps

\* Templates deleted and created in Meta's own panel.
LEMMA OutsideKeeps == ASSUME Shelf, Outside PROVE Shelf'
<1>0. /\ rows' = rows /\ step' = step /\ media' = media /\ raced' = raced /\ blind' = blind
      /\ req' = req
  BY DEF Outside
<1>1. /\ meta \subseteq Template /\ IsFiniteSet(meta) /\ lost \subseteq Names /\ OneName(Ids)
      /\ Bears(meta) \subseteq Ids
  BY ShelfHas, IdsAre
<1>2. ASSUME NEW n \in NamesOf(meta), meta' = meta \ Named(meta, n), lost' = lost \cup {n}
      PROVE  Shelf'
  <2>1. meta' \in SUBSET meta
    BY <1>2
  <2>2. n \in Names
    BY <1>1 DEF NamesOf, Template
  <2>3. \A x \in Bears(meta) : x \in Bears(meta') \/ x[2] \in lost'
    <3> SUFFICES ASSUME NEW t \in meta
                 PROVE  <<t.id, t.name>> \in Bears(meta') \/ t.name \in lost'
      BY DEF Bears
    <3>1. t \in meta' \/ t.name = n
      BY <1>2 DEF Named
    <3> QED
      BY <1>2, <3>1 DEF Bears
  <2>4. meta' \subseteq Template /\ IsFiniteSet(meta') /\ Bears(meta') \subseteq Ids
    BY <1>1, <2>1, FS_Subset, BornePart
  <2>5. lost \subseteq lost' /\ lost' \subseteq Names
    BY <1>1, <1>2, <2>2
  <2> QED
    BY <1>0, <1>1, <2>3, <2>4, <2>5, MetaKeeps
<1>3. ASSUME NEW n \in Names, NEW lang \in Langs, lost' = lost,
             meta' = meta \cup {[id |-> NewId, name |-> n, lang |-> lang, status |-> "PENDING"]}
      PROVE  Shelf'
  <2> DEFINE u == [id |-> NewId, name |-> n, lang |-> lang, status |-> "PENDING"]
             I == Ids \cup {<<NewId, n>>}
  <2>1. NewId \in Nat /\ \A x \in Ids : x[1] # NewId
    BY NewIdIs DEF Shelf
  <2>2. OneName(I) /\ Ids \subseteq I
    BY <1>1, <2>1, OneNameMore
  <2>3. u \in Template /\ u.id = NewId /\ u.name = n
    BY <2>1 DEF Template, Statuses
  <2>4. meta' = meta \cup {u}
    BY <1>3
  <2> HIDE DEF u
  <2>5. meta' \subseteq Template /\ IsFiniteSet(meta')
    <3>1. IsFiniteSet(meta \cup {u})
      BY <1>1, FS_AddElement
    <3> QED
      BY <1>1, <2>3, <2>4, <3>1
  <2>6. Bears(meta') = Bears(meta) \cup {<<NewId, n>>}
    BY <2>3, <2>4 DEF Bears
  <2>7. Bears(meta') \subseteq I
    BY <1>1, <2>6
  <2>8. lost \subseteq lost' /\ lost' \subseteq Names
    BY <1>1, <1>3
  <2> HIDE DEF I
  <2> QED
    BY <1>0, <2>2, <2>5, <2>6, <2>7, <2>8, MetaKeeps
<1> QED
  BY <1>2, <1>3 DEF Outside

\* And nothing happens.
LEMMA StillKeeps == ASSUME Shelf, UNCHANGED vars PROVE Shelf'
<1>0. /\ meta' = meta /\ rows' = rows /\ step' = step /\ media' = media /\ raced' = raced
      /\ blind' = blind /\ lost' = lost /\ req' = req
  BY DEF vars
<1>1. /\ meta' \subseteq Template /\ IsFiniteSet(meta') /\ lost \subseteq lost' /\ lost' \subseteq Names
      /\ OneName(Ids) /\ Bears(meta') \subseteq Ids
      /\ \A x \in Bears(meta) : x \in Bears(meta') \/ x[2] \in lost'
  BY <1>0, ShelfHas, IdsAre
<1> QED
  BY <1>0, <1>1, MetaKeeps
-----------------------------------------------------------------------------
(* Importing *)

\* What a merge leaves in the table.
Merged(new, gone) ==
  /\ rows' \subseteq Row /\ IsFiniteSet(rows')
  /\ \A t, u \in rows' : t # u => t.key # u.key /\ t.name # u.name
  /\ Bears(rows') \subseteq Bears(rows) \cup Bears(new)
  /\ \E K : OneName(K) /\ RowKeys \subseteq K /\ Keyed(rows') \subseteq K
  /\ \A u \in rows : u.key \notin {y.key : y \in gone} => u.name \in NamesOf(rows')
  /\ raced \subseteq raced' /\ raced' \subseteq Names
  /\ \A x \in Bears(new) : x \in Bears(meta) \/ x[2] \in raced'

\* A merge of templates that were in Meta's answer, where no index is violated.
LEMMA MergeIs ==
  ASSUME Shelf, NEW r \in Requests, NEW new \in SUBSET req[r].page,
         NEW known \in SUBSET req[r].page, NEW gone \in SUBSET req[r].local,
         ~ Conflict(new, Updated(known, req[r].local)), Merge(new, known, req[r].local, gone)
  PROVE  Merged(new, gone)
<1>1. /\ req[r].page \subseteq Template /\ IsFiniteSet(req[r].page) /\ req[r].local \subseteq Row
      /\ rows \subseteq Row /\ IsFiniteSet(rows)
      /\ \A t, u \in rows : t # u => t.key # u.key /\ t.name # u.name
  BY DEF Shelf, TypeOK, ReqOK
<1>2. new \subseteq Template /\ IsFiniteSet(new) /\ known \subseteq Template
  BY <1>1, FS_Subset
<1> DEFINE changed == {x.key : x \in Updated(known, req[r].local)}
           stays == {x \in rows : x.key \notin {y.key : y \in gone}}
           Status(t) == (CHOOSE m \in Named(known, t.name) : TRUE).status
           old == [t \in stays |-> IF t.key \in changed THEN [t EXCEPT !.status = Status(t)] ELSE t]
<1>3. PICK key \in Inserted(new) :
        /\ rows' = {old[t] : t \in stays} \cup {Import(m, key[m]) : m \in new}
        /\ raced' = raced \cup {m.name : m \in {x \in new : x.id \notin IdsOf(meta)}}
  BY DEF Merge
<1> DEFINE anew == [m \in new |-> Import(m, key[m])]
<1>4. IsFiniteSet(Keys) /\ \A x \in RowKeys : x[1] \in Keys
  BY KeysAre DEF Shelf
<1>5. /\ \A m \in new : key[m] \in Nat /\ key[m] \notin Keys
      /\ \A m, n \in new : m # n => key[m] # key[n]
  <2>1. Cardinality(Keys) \in Nat /\ Cardinality(new) \in Nat
    BY <1>2, <1>4, FS_CardinalityType
  <2> QED
    BY <2>1 DEF Inserted
<1>6. /\ \A m, n \in new : m # n => m.name # n.name
      /\ \A m \in new : \A t \in rows : m.name # t.name
  BY DEF Conflict, NamesOf
<1>7. ASSUME NEW t \in stays
      PROVE  old[t] \in Row /\ old[t].key = t.key /\ old[t].id = t.id /\ old[t].name = t.name
  <2>1. t \in Row /\ t \in rows
    BY <1>1
  <2>2. CASE t.key \in changed
    <3>1. PICK x \in Updated(known, req[r].local) : x.key = t.key
      BY <2>2
    <3>2. x \in req[r].local /\ Named(known, x.name) # {}
      BY <3>1 DEF Updated
    <3>3. t.name = x.name
      BY <2>1, <3>1, <3>2, SameRow
    <3>4. Status(t) \in Statuses
      BY <1>2, <3>2, <3>3 DEF Named, Template
    <3>5. old[t] = [t EXCEPT !.status = Status(t)]
      BY <2>2
    <3> HIDE DEF Status, old
    <3> QED
      BY <2>1, <3>4, <3>5 DEF Row
  <2>3. CASE t.key \notin changed
    BY <2>1, <2>3
  <2> QED
    BY <2>2, <2>3
<1>8. ASSUME NEW m \in new
      PROVE  /\ anew[m] \in Row /\ anew[m].key = key[m] /\ anew[m].id = m.id
             /\ anew[m].name = m.name
  BY <1>2, <1>5 DEF Import, Template, Row
<1>9. rows' = {old[t] : t \in stays} \cup {anew[m] : m \in new}
  BY <1>3
<1>10. stays \subseteq rows /\ IsFiniteSet(stays)
  BY <1>1, FS_Subset
<1>11. old \in [stays -> Row] /\ anew \in [new -> Row]
  BY <1>7, <1>8
<1>12. raced \subseteq raced' /\ raced' \subseteq Names
  BY <1>2, <1>3 DEF Shelf, TypeOK, Template
<1>13. \A m \in new : m.id \in IdsOf(meta) \/ m.name \in raced'
  BY <1>3
<1>14. \A t \in rows : t.key \in Keys
  BY DEF Keys
<1>15. \A u \in rows : u.key \notin {y.key : y \in gone} => u \in stays
  OBVIOUS
<1> HIDE DEF stays, old, anew, changed
<1>16. rows' \subseteq Row
  BY <1>9, <1>11
<1>17. IsFiniteSet(rows')
  <2>1. IsFiniteSet({old[t] : t \in stays})
    BY <1>10, <1>11, ImageFinite
  <2>2. IsFiniteSet({anew[m] : m \in new})
    BY <1>2, <1>11, ImageFinite
  <2>3. IsFiniteSet({old[t] : t \in stays} \cup {anew[m] : m \in new})
    BY <2>1, <2>2, FS_Union
  <2> QED
    BY <1>9, <2>3
<1>18. ASSUME NEW t \in rows', NEW u \in rows', t # u PROVE t.key # u.key /\ t.name # u.name
  <2>1. \A x \in rows' : (\E a \in stays : x = old[a]) \/ (\E m \in new : x = anew[m])
    BY <1>9
  <2>2. CASE \E a \in stays, b \in stays : t = old[a] /\ u = old[b]
    <3>1. PICK a \in stays, b \in stays : t = old[a] /\ u = old[b]
      BY <2>2
    <3>2. a # b /\ a.key # b.key /\ a.name # b.name
      BY <1>1, <1>10, <1>18, <3>1
    <3> QED
      BY <1>7, <3>1, <3>2
  <2>3. CASE \E m \in new, n \in new : t = anew[m] /\ u = anew[n]
    BY <1>5, <1>6, <1>8, <1>18, <2>3
  <2>4. \A a \in stays : \A m \in new : old[a].key # anew[m].key /\ old[a].name # anew[m].name
    <3> SUFFICES ASSUME NEW a \in stays, NEW m \in new
                 PROVE  old[a].key # anew[m].key /\ old[a].name # anew[m].name
      OBVIOUS
    <3>1. a \in rows /\ a.key # key[m] /\ a.name # m.name
      BY <1>5, <1>6, <1>10, <1>14
    <3> QED
      BY <1>7, <1>8, <3>1
  <2> QED
    BY <2>1, <2>2, <2>3, <2>4
<1>19. Bears(rows') \subseteq Bears(rows) \cup Bears(new)
  <2> SUFFICES ASSUME NEW t \in rows' PROVE <<t.id, t.name>> \in Bears(rows) \cup Bears(new)
    BY DEF Bears
  <2>1. ASSUME NEW a \in stays, t = old[a] PROVE <<t.id, t.name>> \in Bears(rows)
    <3>1. a \in rows /\ t.id = a.id /\ t.name = a.name
      BY <1>7, <1>10, <2>1
    <3> QED
      BY <3>1 DEF Bears
  <2>2. ASSUME NEW m \in new, t = anew[m] PROVE <<t.id, t.name>> \in Bears(new)
    <3>1. t.id = m.id /\ t.name = m.name
      BY <1>8, <2>2
    <3> QED
      BY <3>1 DEF Bears
  <2> QED
    BY <1>9, <2>1, <2>2
<1>20. \E K : OneName(K) /\ RowKeys \subseteq K /\ Keyed(rows') \subseteq K
  <2> DEFINE Z == {<<key[m], m.name>> : m \in new}
             K == RowKeys \cup Z
  <2>1. \A z \in Z : \E m \in new : z[1] = key[m] /\ z[2] = m.name
    <3> SUFFICES ASSUME NEW m \in new PROVE <<key[m], m.name>>[1] = key[m] /\ <<key[m], m.name>>[2] = m.name
      OBVIOUS
    <3> QED
      OBVIOUS
  <2>2. OneName(RowKeys)
    BY ShelfHas
  <2> HIDE DEF Z
  <2>3. OneName(K)
    <3> SUFFICES ASSUME NEW x \in K, NEW y \in K, x[1] = y[1] PROVE x[2] = y[2]
      BY DEF OneName
    <3>1. CASE x \in RowKeys /\ y \in RowKeys
      BY <2>2, <3>1 DEF OneName
    <3>2. CASE x \in Z /\ y \in Z
      BY <1>5, <2>1, <3>2
    <3>3. \A a \in RowKeys : \A b \in Z : a[1] # b[1]
      BY <1>4, <1>5, <2>1
    <3> QED
      BY <3>1, <3>2, <3>3
  <2>4. Keyed(rows') \subseteq K
    <3> SUFFICES ASSUME NEW t \in rows' PROVE <<t.key, t.name>> \in K
      BY DEF Keyed
    <3>1. ASSUME NEW a \in stays, t = old[a] PROVE <<t.key, t.name>> \in RowKeys
      <4>1. a \in rows /\ t.key = a.key /\ t.name = a.name
        BY <1>7, <1>10, <3>1
      <4>2. <<t.key, t.name>> \in Keyed(rows)
        BY <4>1 DEF Keyed
      <4> QED
        BY <4>2, RowKeysAre
    <3>2. ASSUME NEW m \in new, t = anew[m] PROVE <<t.key, t.name>> \in Z
      BY <1>8, <3>2 DEF Z
    <3> QED
      BY <1>9, <3>1, <3>2
  <2> QED
    BY <2>3, <2>4
<1>21. ASSUME NEW u \in rows, u.key \notin {y.key : y \in gone} PROVE u.name \in NamesOf(rows')
  <2>1. u \in stays
    BY <1>15, <1>21
  <2>2. old[u] \in rows' /\ old[u].name = u.name
    BY <1>7, <1>9, <2>1
  <2> QED
    BY <2>2 DEF NamesOf
<1>22. ASSUME NEW m \in new PROVE <<m.id, m.name>> \in Bears(meta) \/ m.name \in raced'
  <2> SUFFICES ASSUME m.id \in IdsOf(meta) PROVE <<m.id, m.name>> \in Bears(meta)
    BY <1>13
  <2>1. PICK v \in meta : v.id = m.id
    BY DEF IdsOf
  <2> DEFINE a == <<v.id, v.name>>
             b == <<m.id, m.name>>
  <2>2. a \in Bears(meta) /\ b \in Bears(req[r].page)
    BY DEF Bears
  <2>3. a \in Ids /\ b \in Ids /\ OneName(Ids)
    BY <2>2, IdsAre, ShelfHas
  <2>4. a[1] = v.id /\ b[1] = m.id /\ a[2] = v.name /\ b[2] = m.name
    OBVIOUS
  <2>5. v.name = m.name
    <3> HIDE DEF a, b
    <3> QED
      BY <2>1, <2>3, <2>4 DEF OneName
  <2> QED
    BY <2>1, <2>2, <2>5
<1>23. \A x \in Bears(new) : x \in Bears(meta) \/ x[2] \in raced'
  <2>1. \A m \in new : <<m.id, m.name>>[2] = m.name
    OBVIOUS
  <2> QED
    BY <1>22, <2>1 DEF Bears
<1> QED
  BY <1>12, <1>16, <1>17, <1>18, <1>19, <1>20, <1>21, <1>23 DEF Merged

\* A listing or a synchronisation ends with a merge; the steps are its own affair.
LEMMA MergeEnds ==
  ASSUME Shelf, NEW r \in Requests, req[r].op \in {"list", "sync"}, End(r), blind' = blind,
         meta' = meta, media' = media, lost' = lost, NEW new \in SUBSET req[r].page, NEW gone,
         Merged(new, gone), step' \in [Steps -> Names \cup {NoName, Gone}],
         \A s \in Steps : \/ step'[s] = Gone
                          \/ /\ step'[s] = step[s]
                             /\ step[s] \in NamesOf(rows) => step[s] \in NamesOf(rows') \/ s \in blind
  PROVE  Shelf'
<1>1. PICK K : OneName(K) /\ RowKeys \subseteq K /\ Keyed(rows') \subseteq K
  BY DEF Merged
<1>2. /\ rows' \subseteq Row /\ IsFiniteSet(rows')
      /\ \A t, u \in rows' : t # u => t.key # u.key /\ t.name # u.name
      /\ Bears(rows') \subseteq Bears(rows) \cup Bears(new)
      /\ raced \subseteq raced' /\ raced' \subseteq Names
      /\ \A x \in Bears(new) : x \in Bears(meta) \/ x[2] \in raced'
  BY DEF Merged
<1>3. /\ meta' \subseteq Template /\ IsFiniteSet(meta') /\ media' \subseteq Contents
      /\ lost \subseteq lost' /\ lost' \cup raced' \subseteq Names /\ OneName(Ids)
  BY <1>2, ShelfHas
<1>4. Bears(meta') \subseteq Ids /\ Bears(rows') \subseteq Ids
  <2>1. Bears(new) \subseteq Bears(req[r].page)
    BY BornePart
  <2> QED
    BY <1>2, <2>1, IdsAre
<1>5. Recorded(r, Idle)
  BY RecordedStill
<1>6. Placed(r, Idle)
  BY <1>2 DEF Placed
<1>7. Served(r, Idle)
  BY IdleIs DEF Served, At
<1> QED
  BY <1>1, <1>2, <1>3, <1>4, <1>5, <1>6, <1>7, EndKeeps

\* A merge that an index refuses leaves the table as it was.
LEMMA NoMerge ==
  ASSUME Shelf, NEW r \in Requests, req[r].op \in {"list", "sync"}, End(r), blind' = blind,
         meta' = meta, rows' = rows, step' = step, media' = media, lost' = lost, raced' = raced
  PROVE  Shelf'
<1>1. /\ Recorded(r, Idle) /\ meta' \in SUBSET meta /\ media' \subseteq Contents
      /\ lost \subseteq lost' /\ lost' \subseteq Names
  BY RecordedStill, ShelfHas
<1> QED
  BY <1>1, EndsStill

\* A listing imports and takes nothing away.
LEMMA ApplyListKeeps == ASSUME Shelf, NEW r \in Requests, ApplyList(r) PROVE Shelf'
<1> DEFINE new == New(req[r].page, r)
<1>0. /\ meta' = meta /\ step' = step /\ media' = media /\ blind' = blind /\ lost' = lost
      /\ End(r) /\ req[r].op = "list"
  BY DEF ApplyList, At
<1>1. PICK known \in LastPerName(req[r].page \ new) :
        IF Conflict(new, Updated(known, req[r].local))
          THEN rows' = rows /\ raced' = raced
          ELSE Merge(new, known, req[r].local, {})
  BY DEF ApplyList
<1>2. known \in SUBSET req[r].page /\ new \in SUBSET req[r].page /\ {} \in SUBSET req[r].local
  BY DEF LastPerName, New
<1>3. req[r].op \in {"list", "sync"}
  BY <1>0
<1> HIDE DEF new
<1>4. CASE Conflict(new, Updated(known, req[r].local))
  BY <1>0, <1>1, <1>3, <1>4, NoMerge
<1>5. CASE ~ Conflict(new, Updated(known, req[r].local))
  <2>1. Merged(new, {})
    BY <1>1, <1>2, <1>5, MergeIs
  <2>2. step' \in [Steps -> Names \cup {NoName, Gone}]
    BY <1>0, ShelfHas
  <2>3. \A n \in NamesOf(rows) : n \in NamesOf(rows')
    <3>1. \A u \in rows : u.name \in NamesOf(rows')
      BY <2>1 DEF Merged
    <3> QED
      BY <3>1 DEF NamesOf
  <2> QED
    BY <1>0, <1>2, <1>3, <2>1, <2>2, <2>3, MergeEnds
<1> QED
  BY <1>4, <1>5

\* A synchronisation also takes the rows that Meta lacks, and the steps it has found with them.
LEMMA ApplySyncKeeps == ASSUME Shelf, NEW r \in Requests, ApplySync(r) PROVE Shelf'
<1>0. /\ meta' = meta /\ media' = media /\ blind' = blind /\ lost' = lost
      /\ End(r) /\ req[r].op = "sync" /\ At(r, "sync", "looked")
  BY DEF ApplySync, At
<1>1. PICK page \in LastPerName(req[r].page) :
        IF Conflict(New(page, r), Updated(page, req[r].local))
          THEN rows' = rows /\ raced' = raced /\ step' = step
          ELSE /\ Merge(New(page, r), page \ New(page, r), req[r].local,
                        {t \in req[r].local : t.name \notin NamesOf(page)})
               /\ step' = [s \in Steps |-> IF s \in req[r].found THEN Gone ELSE step[s]]
  BY DEF ApplySync
<1> DEFINE new == New(page, r)
           known == page \ new
           gone == {t \in req[r].local : t.name \notin NamesOf(page)}
<1>2. /\ page \in SUBSET req[r].page /\ NamesOf(page) = NamesOf(req[r].page)
      /\ known \in SUBSET req[r].page /\ new \in SUBSET req[r].page /\ gone \in SUBSET req[r].local
  BY DEF LastPerName, New
<1>3. req[r].op \in {"list", "sync"}
  BY <1>0
<1>4. Conflict(new, Updated(known, req[r].local)) => Conflict(new, Updated(page, req[r].local))
  <2>1. Updated(known, req[r].local) \subseteq Updated(page, req[r].local)
    BY DEF Updated, Named
  <2> QED
    BY <2>1 DEF Conflict
<1>5. CASE Conflict(new, Updated(page, req[r].local))
  BY <1>0, <1>1, <1>3, <1>5, NoMerge
<1>6. CASE ~ Conflict(new, Updated(page, req[r].local))
  <2>1. Merged(new, gone)
    <3>1. Merge(new, known, req[r].local, gone) /\ ~ Conflict(new, Updated(known, req[r].local))
      BY <1>1, <1>4, <1>6
    <3> HIDE DEF new, known, gone
    <3> QED
      BY <1>2, <3>1, MergeIs
  <2>2. step' = [s \in Steps |-> IF s \in req[r].found THEN Gone ELSE step[s]]
    BY <1>1, <1>6
  <2>3. step' \in [Steps -> Names \cup {NoName, Gone}]
    BY <2>2, ShelfHas
  <2>4. ASSUME NEW s \in Steps
        PROVE  \/ step'[s] = Gone
               \/ /\ step'[s] = step[s]
                  /\ step[s] \in NamesOf(rows) => step[s] \in NamesOf(rows') \/ s \in blind
    <3>1. CASE s \in req[r].found
      BY <2>2, <3>1
    <3>2. CASE s \notin req[r].found
      <4>1. step'[s] = step[s]
        BY <2>2, <3>2
      <4> SUFFICES ASSUME step[s] \in NamesOf(rows) PROVE step[s] \in NamesOf(rows') \/ s \in blind
        BY <4>1
      <4>2. PICK u \in rows : u.name = step[s]
        BY DEF NamesOf
      <4>3. CASE u.key \notin {y.key : y \in gone}
        BY <2>1, <4>2, <4>3 DEF Merged
      <4>4. CASE u.key \in {y.key : y \in gone}
        <5>1. PICK y \in gone : y.key = u.key
          BY <4>4
        <5>2. y \in req[r].local /\ y.name \notin NamesOf(req[r].page)
          BY <1>2, <5>1
        <5>3. u.name = y.name
          BY <5>1, <5>2, SameRow
        <5>4. step[s] \in NamesOf(req[r].local) \ NamesOf(req[r].page)
          BY <4>2, <5>2, <5>3 DEF NamesOf
        <5> QED
          BY <1>0, <3>2, <5>4 DEF Shelf, Going
      <4> QED
        BY <4>3, <4>4
    <3> QED
      BY <3>1, <3>2
  <2> HIDE DEF new, gone
  <2> QED
    BY <1>0, <1>2, <1>3, <2>1, <2>3, <2>4, MergeEnds
<1> QED
  BY <1>5, <1>6
-----------------------------------------------------------------------------
(* The theorems *)

\* It holds at the start: every row is of a template, and no step names anything else.
LEMMA InitShelf == Init => Shelf
<1> SUFFICES ASSUME Init PROVE Shelf
  OBVIOUS
<1>0. /\ meta \in Pasts /\ rows = {Import(t, t.id) : t \in meta} /\ media = {}
      /\ step \in [Steps -> NamesOf(meta) \cup {NoName, Gone}]
      /\ req = [r \in Requests |-> Idle] /\ lost = {} /\ raced = {} /\ blind = {}
  BY DEF Init
<1>1. /\ meta \subseteq Template /\ IsFiniteSet(meta)
      /\ \A t, u \in meta : t # u => t.id # u.id /\ t.name # u.name
  BY <1>0, PastsAssumption
<1>2. \A t \in meta : /\ Import(t, t.id) \in Row /\ Import(t, t.id).key = t.id
                      /\ Import(t, t.id).id = t.id /\ Import(t, t.id).name = t.name
  BY <1>1 DEF Import, Row, Template
<1>3. \A r \in Requests : req[r] = Idle
  BY <1>0
<1>4. IsFiniteSet(rows)
  <2> DEFINE g == [t \in meta |-> Import(t, t.id)]
  <2>1. g \in [meta -> Row] /\ rows = {g[t] : t \in meta}
    BY <1>0, <1>2
  <2> HIDE DEF g
  <2> QED
    BY <1>1, <2>1, ImageFinite
<1>5. rows \subseteq Row /\ \A t, u \in rows : t # u => t.key # u.key /\ t.name # u.name
  BY <1>0, <1>1, <1>2
<1>6. \A n : n \in NamesOf(rows) <=> n \in NamesOf(meta)
  BY <1>0, <1>2 DEF NamesOf
<1>7. TypeOK
  <2>1. step \in [Steps -> Names \cup {NoName, Gone}]
    BY <1>0, <1>1 DEF NamesOf, Template
  <2>2. \A r \in Requests : req[r].page = {} /\ req[r].local = {}
    BY <1>3, IdleIs
  <2> QED
    BY <1>0, <1>1, <1>5, <2>1, <2>2 DEF TypeOK
<1>8. ReqOK
  BY <1>0, <1>1, <1>3, <1>4, IdleIs DEF ReqOK
<1>9. Bears(rows) = Bears(meta) /\ Keyed(rows) = Bears(meta)
  BY <1>0, <1>2 DEF Bears, Keyed
<1>10. OneName(Bears(meta))
  <2> SUFFICES ASSUME NEW t \in meta, NEW u \in meta, t.id = u.id PROVE t.name = u.name
    <3>1. \A t \in meta : <<t.id, t.name>>[1] = t.id /\ <<t.id, t.name>>[2] = t.name
      OBVIOUS
    <3> QED
      BY <3>1 DEF OneName, Bears
  <2> QED
    BY <1>1
<1>11. Ids \subseteq Bears(meta) /\ RowKeys \subseteq Bears(meta)
  <2>1. \A r \in Requests : Holds(r) = {} /\ Keyed(req[r].local) = {}
    BY <1>3, IdleIs DEF Holds, Bears, Keyed
  <2>2. Ids \subseteq Bears(meta)
    BY <1>9, <2>1, InIds
  <2>3. RowKeys \subseteq Bears(meta)
    BY <1>9, <2>1 DEF RowKeys
  <2> QED
    BY <2>2, <2>3
<1>12. OneName(Ids) /\ OneName(RowKeys)
  BY <1>10, <1>11 DEF OneName
<1>13. Overlaps /\ Made /\ Going
  BY <1>3, IdleIs DEF Overlaps, Made, Going, At
<1>14. Stands
  BY <1>9 DEF Stands
<1>15. StepsStand
  BY <1>0, <1>6, NamesAssumption DEF StepsStand
<1> QED
  BY <1>7, <1>8, <1>12, <1>13, <1>14, <1>15 DEF Shelf

\* Every step keeps it.
LEMMA ShelfStep == Shelf /\ [Next]_vars => Shelf'
<1> SUFFICES ASSUME Shelf, [Next]_vars PROVE Shelf'
  OBVIOUS
<1>1. ASSUME NEW r \in Requests, Ask(r) PROVE Shelf'
  BY <1>1, AskKeeps
<1>2. ASSUME NEW r \in Requests, Handle(r) PROVE Shelf'
  <2>1. CASE Look(r) \/ ApplyList(r) \/ ApplySync(r)
    BY <2>1, LookKeeps, ApplyListKeeps, ApplySyncKeeps
  <2>2. CASE DeleteAtMeta(r) \/ CreateAtMeta(r) \/ EditAtMeta(r) \/ RefusedByMeta(r)
    BY <2>2, DeleteAtMetaKeeps, CreateAtMetaKeeps, EditAtMetaKeeps, RefusedKeeps
  <2>3. CASE CommitDelete(r) \/ CommitNew(r) \/ CommitPatch(r) \/ CommitFails(r) \/ Upload(r)
    BY <2>3, CommitDeleteKeeps, CommitNewKeeps, CommitPatchKeeps, CommitFailsKeeps, UploadKeeps
  <2> QED
    BY <1>2, <2>1, <2>2, <2>3 DEF Handle
<1>3. ASSUME NEW s \in Steps, NEW n \in Names, SaveStep(s, n) PROVE Shelf'
  BY <1>3, SaveStepKeeps
<1>4. ASSUME NEW t \in meta, Review(t) PROVE Shelf'
  BY <1>4, ReviewKeeps
<1>5. CASE Outside
  BY <1>5, OutsideKeeps
<1>6. CASE UNCHANGED vars
  BY <1>6, StillKeeps
<1> QED
  BY <1>1, <1>2, <1>3, <1>4, <1>5, <1>6 DEF Next

\* And so it always holds.
LEMMA ShelfInvariant == Spec => []Shelf
  BY InitShelf, ShelfStep, PTL DEF Spec

\* Two rows never share a key or a name, whatever requests overlap, and everything has its type:
\* the requests work on what they have read, and the table may have changed since.
THEOREM TemplateTypes == Spec => []TypeOK
<1>1. Shelf => TypeOK
  BY DEF Shelf
<1> QED
  BY <1>1, ShelfInvariant, PTL

\* A row of meta_templates stands for a template that Meta has under that id, but while a delete
\* or an edit is between Meta and its commit, or where Meta's side was lost, requests on one
\* name have overlapped, or a list was outdated when its rows were written.
THEOREM RowsAreTemplates == Spec => []RowsStand
<1>1. Shelf => RowsStand
  <2> SUFFICES ASSUME Shelf, NEW t \in rows
               PROVE  \/ t.id \in IdsOf(Named(meta, t.name))
                      \/ Leaving(t.name) \/ t.name \in lost \cup raced
    BY DEF RowsStand
  <2> DEFINE x == <<t.id, t.name>>
  <2>1. x \in Bears(rows) /\ x[1] = t.id /\ x[2] = t.name
    BY DEF Bears
  <2>2. x \in Bears(meta) => t.id \in IdsOf(Named(meta, t.name))
    <3> SUFFICES ASSUME x \in Bears(meta) PROVE t.id \in IdsOf(Named(meta, t.name))
      OBVIOUS
    <3>1. PICK m \in meta : <<m.id, m.name>> = <<t.id, t.name>>
      BY DEF Bears
    <3>2. m.id = t.id /\ m.name = t.name
      BY <3>1
    <3> QED
      BY <3>2 DEF IdsOf, Named
  <2>3. Left(t.name) => Leaving(t.name)
    BY DEF Left, Leaving
  <2> HIDE DEF x
  <2>4. x \in Bears(meta) \/ Left(x[2]) \/ x[2] \in lost \cup raced
    BY <2>1 DEF Shelf, Stands
  <2> QED
    BY <2>1, <2>2, <2>3, <2>4
<1> QED
  BY <1>1, ShelfInvariant, PTL

\* A step of a flow names a template that can be sent and that the panel shows, unless it was
\* saved blindly or the template is leaving or lost: neither _flow_usage_check nor the
\* synchronisation leaves a step behind, although neither holds a lock while it works.
THEOREM StepsFindTheirTemplate == Spec => []StepsSend
<1>1. Shelf => StepsSend
  <2> SUFFICES ASSUME Shelf, NEW s \in Steps, step[s] \in Names, s \notin blind
               PROVE  \/ step[s] \in NamesOf(meta) \cap NamesOf(rows)
                      \/ Leaving(step[s]) \/ step[s] \in lost
    BY DEF StepsSend
  <2>1. \A r \in Requests : At(r, "edit", "told") /\ req[r].name = step[s] => Leaving(step[s])
    BY DEF At, Leaving
  <2> QED
    BY <2>1 DEF Shelf, StepsStand
<1> QED
  BY <1>1, ShelfInvariant, PTL

-----------------------------------------------------------------------------
(* Outreach: its constants and variables, under names of their own where Templates has the same *)

CONSTANTS Alphabet, Convention, Word, MaxChars, MinChars, None, Buyers, Asks, Drafts, Synced,
          Contexts, Agents, Contacts, Buffering, MaxRuns, MaxBusy, MaxFailures, MaxChanges

VARIABLES agent, revoked, contact, linked, conv, enrolled, run, doubled, runs, failures, changes

Out == INSTANCE Outreach WITH Requests <- Asks, MaxFaults <- MaxFailures, faults <- failures

\* What Outreach assumes of its constants: NoneAssumption, of BoundsAssumption the bound on
\* runs, and of RequestsAssumption that a request is to somebody.
Assumed ==
  /\ None \notin Nat /\ MaxRuns \in Nat
  /\ \A q \in Asks : q.to \in Out!Written

-----------------------------------------------------------------------------
(* The inductive invariant of Outreach *)

\* Where a run that has begun can be.
Stages == {"search", "list", "contact", "again", "patch", "link", "open", "post", "buffer",
           "commit", "done", "failed"}

Conversation == [contact : Out!Written, open : BOOLEAN]

\* The conversations with this person.
With(who) == {c \in DOMAIN conv : conv[c].contact.who = who}

\* What holds of the whole: conversations are with contacts, and every enrollment is in one of
\* its buyer.
Shape ==
  /\ Assumed
  /\ runs \in 0..MaxRuns /\ DOMAIN run = 1..MaxRuns
  /\ failures \in Nat
  /\ conv \in Seq(Conversation) /\ \A i \in DOMAIN conv : conv[i].contact \in contact
  /\ DOMAIN enrolled = Buyers
  /\ \A b \in Buyers : enrolled[b] # None => enrolled[b] \in With(b)

\* Whatever a run has found is of the person it is for.
Person(r) ==
  LET me == run[r] IN
  /\ DOMAIN me = DOMAIN Out!NoRun /\ me.pc \in Stages
  /\ me.q \in Asks /\ me.to \in Out!Written /\ me.to.who = me.q.to.who
  /\ me.conv # None => me.conv \in With(me.q.to.who)
  /\ me.flow \notin {None, 0} => me.flow \in With(me.q.to.who)
  /\ me.pc = "commit" => me.flow # None
  /\ me.pc \in {"post", "buffer"} => me.q.kind # "event"
  /\ me.seen \in 0..Len(conv)

\* An event of access given, from someone with a phone, on its way to the enrollment
\* as long as nothing has failed.
Smooth(r) ==
  LET me == run[r] IN
  /\ failures = 0 => me.tries = 0
  /\ /\ failures = 0 /\ revoked = {}
     /\ me.q.kind = "event" /\ Out!GrantsAccess(me.q) /\ me.q.to.form # "invalid"
     => /\ me.pc # "failed" /\ me.flow # 0
        /\ me.pc = "done" => enrolled[me.q.to.who] # None

\* A run that makes a conversation has seen none open among those of its time.
Sought(r) ==
  LET me == run[r] IN
  me.pc \in {"contact", "again", "patch", "link", "open"} =>
    /\ \A i \in Out!OpenConvs(Out!Digits(me.to)) : i > me.seen
    /\ me.pc # "contact" => Out!Digits(me.to) \in contact

\* Two conversations of one contact are open only when that is noted.
Single ==
  \A i, j \in DOMAIN conv :
    /\ conv[i].contact = conv[j].contact /\ conv[i].contact \notin doubled
    /\ conv[i].open /\ conv[j].open
    => i = j

\* A run as it should be.
Fine(r) == Person(r) /\ Smooth(r) /\ Sought(r)

\* The inductive invariant.
Met == Shape /\ Single /\ \A r \in 1..runs : Fine(r)

\* What no step takes back.
Onward ==
  /\ Len(conv') >= Len(conv)
  /\ \A i \in DOMAIN conv : conv'[i].contact = conv[i].contact /\ (conv'[i].open => conv[i].open)
  /\ contact \subseteq contact'
  /\ \A b \in Buyers : enrolled[b] # None => enrolled'[b] = enrolled[b]
  /\ failures' >= failures
  /\ revoked \subseteq revoked'

-----------------------------------------------------------------------------
(* What a step makes of a run *)

\* The parts of a run's record.
Fields == {"pc", "q", "to", "key", "conv", "flow", "seen", "tries", "parts", "out", "lost"}

\* A run's record has these parts.
LEMMA FieldsOfRuns == DOMAIN Out!NoRun = Fields
BY DEF Out!NoRun, Fields

\* What a run is when it is over.
LEMMA EndedIs ==
  ASSUME NEW me, DOMAIN me = Fields, NEW pc
  PROVE  LET new == Out!Ended(me, pc) IN
         /\ DOMAIN new = Fields /\ new.pc = pc /\ new.q = me.q /\ new.to = me.to
         /\ new.conv = me.conv /\ new.flow = None /\ new.seen = 0 /\ new.tries = 0
BY DEF Fields, Out!Ended

\* What an event's run is after its flow's lookup.
LEMMA LookedIs ==
  ASSUME NEW me, DOMAIN me = Fields, NEW c
  PROVE  LET new == Out!Looked(me, c) IN
         /\ DOMAIN new = Fields /\ new.q = me.q /\ new.to = me.to
               /\ new.pc \in {"search", "commit"}
         /\ new.conv = me.conv /\ new.flow = c /\ new.seen = me.seen /\ new.tries = 0
BY DEF Fields, Out!Looked

\* What a run is when it has found or made its conversation.
LEMMA ResolvedIs ==
  ASSUME NEW me, DOMAIN me = Fields, NEW c
  PROVE  LET new == Out!Resolved(me, c) IN
         /\ DOMAIN new = Fields /\ new.q = me.q /\ new.to = me.to /\ new.seen = me.seen
         /\ new.tries \in {0, me.tries}
         /\ \/ new.pc = "post" /\ me.q.kind # "event" /\ new.conv = c /\ new.flow = me.flow
            \/ /\ new.pc \in {"search", "commit"} /\ me.q.kind = "event" /\ new.conv = me.conv
               /\ new.flow = c
            \/ /\ new.pc = "commit" /\ me.q.kind = "event" /\ new.conv = c
               /\ new.flow = me.flow /\ me.flow # None
<1>1. CASE me.q.kind # "event"
  BY <1>1 DEF Fields, Out!Resolved
<1>2. CASE me.q.kind = "event" /\ me.flow = None
  BY <1>2, LookedIs DEF Out!Resolved
<1>3. CASE me.q.kind = "event" /\ me.flow # None
  BY <1>3 DEF Fields, Out!Resolved
<1> QED
  BY <1>1, <1>2, <1>3

\* What a run is after a call that failed for good.
LEMMA FailedIs ==
  ASSUME NEW me, DOMAIN me = Fields
  PROVE  LET new == Out!Failed(me) IN
         /\ DOMAIN new = Fields /\ new.q = me.q /\ new.to = me.to
         /\ new.conv = me.conv /\ new.seen \in {0, me.seen} /\ new.tries = 0
         /\ \/ new.pc = "failed" /\ new.flow = None
            \/ new.pc \in {"search", "commit"} /\ new.flow = 0
BY EndedIs, LookedIs DEF Out!Failed

\* What a run is after a part of its text, sent or left out.
LEMMA PartIs ==
  ASSUME NEW me, DOMAIN me = Fields
  PROVE  \A new \in {Out!NextPart(me), Out!NextPart(Out!Arrived(me))} :
         /\ DOMAIN new = Fields /\ new.q = me.q /\ new.to = me.to /\ new.conv = me.conv
         /\ new.seen \in {0, me.seen} /\ new.tries = 0
         /\ \/ new.pc = me.pc /\ new.flow = me.flow
            \/ new.pc = "done" /\ new.flow = None
<1>1. ASSUME NEW one, DOMAIN one = Fields
      PROVE LET new == Out!NextPart(one) IN
            /\ DOMAIN new = Fields /\ new.q = one.q /\ new.to = one.to /\ new.conv = one.conv
            /\ new.seen \in {0, one.seen} /\ new.tries = 0
            /\ \/ new.pc = one.pc /\ new.flow = one.flow
               \/ new.pc = "done" /\ new.flow = None
  <2>1. CASE Len(one.parts) = 1
    BY <1>1, <2>1, EndedIs DEF Out!NextPart
  <2>2. CASE Len(one.parts) # 1
    BY <1>1, <2>2 DEF Out!NextPart, Fields
  <2> QED
    BY <2>1, <2>2
<1>2. LET new == Out!Arrived(me) IN
      /\ DOMAIN new = Fields /\ new.q = me.q /\ new.to = me.to /\ new.conv = me.conv
      /\ new.seen = me.seen /\ new.pc = me.pc /\ new.flow = me.flow
  BY DEF Out!Arrived, Fields
<1> QED
  BY <1>1, <1>2

-----------------------------------------------------------------------------
(* What a step of one run leaves of the invariant *)

\* A run that does not move stays as it should be, whatever the others do.
LEMMA Kept ==
  ASSUME Shape, Shape', Onward, NEW r \in 1..runs, Fine(r), run'[r] = run[r]
  PROVE  Fine(r)'
<1>1. /\ DOMAIN conv = 1..Len(conv) /\ DOMAIN conv' = 1..Len(conv')
      /\ Len(conv) \in Nat /\ Len(conv') \in Nat
  BY DEF Shape
<1>2. Person(r)'
  BY <1>1 DEF Shape, Onward, Fine, Person, With
<1>3. Smooth(r)'
  <2>1. run[r].q.to.who \in Buyers
    BY DEF Shape, Assumed, Fine, Person, Out!Written
  <2>2. failures \in Nat /\ (failures' = 0 => failures = 0) /\ (revoked' = {} => revoked = {})
    BY DEF Shape, Onward
  <2>3. enrolled[run[r].q.to.who] # None => enrolled'[run[r].q.to.who] # None
    BY <2>1 DEF Onward
  <2>4. Smooth(r)
    BY DEF Fine
  <2> QED
    BY <2>2, <2>3, <2>4 DEF Smooth, Out!GrantsAccess
<1>4. Sought(r)'
  <2> SUFFICES ASSUME run[r].pc \in {"contact", "again", "patch", "link", "open"}
               PROVE  /\ \A i \in Out!OpenConvs(Out!Digits(run[r].to))' : i > run[r].seen
                      /\ run[r].pc # "contact" => Out!Digits(run[r].to) \in contact'
    BY DEF Sought, Out!Digits
  <2>1. /\ \A i \in Out!OpenConvs(Out!Digits(run[r].to)) : i > run[r].seen
        /\ run[r].pc # "contact" => Out!Digits(run[r].to) \in contact'
        /\ run[r].seen \in 0..Len(conv)
    BY DEF Fine, Sought, Person, Onward
  <2>2. ASSUME NEW i \in Out!OpenConvs(Out!Digits(run[r].to))' PROVE i > run[r].seen
    <3>1. CASE i \in DOMAIN conv
      <4>1. i \in Out!OpenConvs(Out!Digits(run[r].to))
        BY <2>2, <3>1 DEF Out!OpenConvs, Onward, Out!Digits
      <4> QED
        BY <2>1, <4>1
    <3>2. CASE i \notin DOMAIN conv
      BY <1>1, <2>1, <2>2, <3>2 DEF Out!OpenConvs
    <3> QED
      BY <3>1, <3>2
  <2> QED
    BY <2>1, <2>2
<1> QED
  BY <1>2, <1>3, <1>4 DEF Fine

\* A step of one run keeps the invariant when it leaves that run and the conversations as they
\* should be.
LEMMA Proceeds ==
  ASSUME Met, Shape', Single', Onward, NEW r,
         \A s \in 1..runs : s # r => run'[s] = run[s],
         1..runs' \subseteq 1..runs \cup {r},
         r \in 1..runs' => Fine(r)'
  PROVE  Met'
<1>1. ASSUME NEW s \in 1..runs' PROVE Fine(s)'
  <2>1. CASE s = r
    BY <2>1, <1>1
  <2>2. CASE s # r
    <3>1. s \in 1..runs /\ run'[s] = run[s]
      BY <1>1, <2>2
    <3>2. Fine(s)
      BY <3>1 DEF Met, Fine
    <3> QED
      BY <3>1, <3>2, Kept DEF Met, Fine
  <2> QED
    BY <2>1, <2>2
<1> QED
  BY <1>1 DEF Met, Fine

\* A step after which the run has found nothing more.
Keeps(r) ==
  /\ DOMAIN run'[r] = Fields /\ run'[r].q = run[r].q /\ run'[r].to = run[r].to
  /\ run'[r].conv = run[r].conv /\ run'[r].flow = run[r].flow

\* A run on its way remains of the person it is for, and smooth.
LEMMA Advance ==
  ASSUME Met, Shape', Onward, NEW r \in 1..runs, Keeps(r),
         run'[r].pc \in {"search", "list", "contact", "again", "patch", "link", "open", run[r].pc},
         run[r].pc \notin {"done", "failed"},
         run'[r].seen \in 0..Len(conv'), failures' = 0 => run'[r].tries = 0
  PROVE  Person(r)' /\ Smooth(r)'
<1>1. Person(r) /\ Smooth(r)
  BY DEF Met, Fine
<1>2. /\ DOMAIN conv = 1..Len(conv) /\ DOMAIN conv' = 1..Len(conv')
      /\ Len(conv) \in Nat /\ Len(conv') \in Nat
  BY DEF Shape, Met, Fine
<1>3. Person(r)'
  BY <1>1, <1>2, FieldsOfRuns DEF Onward, Person, With, Stages, Keeps
<1>4. Smooth(r)'
  BY <1>1 DEF Shape, Met, Fine, Onward, Smooth, Out!GrantsAccess, Keeps
<1> QED
  BY <1>3, <1>4

\* A conversation remains with its contact.
LEMMA Company ==
  ASSUME Shape, Shape', Onward, NEW c \in DOMAIN conv
  PROVE  c \in DOMAIN conv' /\ conv'[c].contact = conv[c].contact
<1>1. /\ DOMAIN conv = 1..Len(conv) /\ DOMAIN conv' = 1..Len(conv')
      /\ Len(conv) \in Nat /\ Len(conv') \in Nat
  BY DEF Shape
<1> QED
  BY <1>1 DEF Onward

\* A run that has found or made a conversation is as it should be.
LEMMA Arrive ==
  ASSUME Met, Shape', Onward, NEW r \in 1..runs, NEW c \in DOMAIN conv',
         conv'[c].contact.who = run[r].q.to.who,
         run'[r] = Out!Resolved(run[r], c), failures' = 0 => failures = 0
  PROVE  Fine(r)'
<1>1. Person(r) /\ Smooth(r) /\ Shape
  BY DEF Met, Fine
<1>2. /\ DOMAIN conv = 1..Len(conv) /\ DOMAIN conv' = 1..Len(conv')
      /\ Len(conv) \in Nat /\ Len(conv') \in Nat
  BY <1>1 DEF Shape
<1>3. DOMAIN run[r] = Fields
  BY <1>1, FieldsOfRuns DEF Person
<1>4. c \in Nat \ {0} /\ c # None
  BY <1>1, <1>2 DEF Shape, Assumed
<1>5. Person(r)'
  <2>1. run'[r].conv # None => run'[r].conv \in With(run[r].q.to.who)'
    BY <1>1, <1>3, Company, ResolvedIs DEF Person, With
  <2>2. run'[r].flow \notin {None, 0} => run'[r].flow \in With(run[r].q.to.who)'
    BY <1>1, <1>3, Company, ResolvedIs DEF Person, With
  <2> QED
    BY <1>1, <1>2, <1>3, <1>4, <2>1, <2>2, ResolvedIs, FieldsOfRuns DEF Person, Onward, Stages
<1>6. Smooth(r)'
  <2>1. revoked' = {} => revoked = {}
    BY DEF Onward
  <2>2. failures' = 0 => run'[r].tries = 0
    BY <1>1, <1>3, ResolvedIs DEF Smooth
  <2>3. run'[r].pc \notin {"failed", "done"} /\ run'[r].q = run[r].q
    BY <1>3, ResolvedIs
  <2>4. run'[r].flow \in {run[r].flow, c}
    BY <1>3, ResolvedIs
  <2> QED
    BY <1>1, <1>4, <2>1, <2>2, <2>3, <2>4 DEF Smooth, Out!GrantsAccess
<1>7. Sought(r)'
  BY <1>3, ResolvedIs DEF Sought
<1> QED
  BY <1>5, <1>6, <1>7 DEF Fine

\* A run whose call has failed for good is as it should be, since the failure has left a trace.
LEMMA Stop ==
  ASSUME Met, Shape', Onward, NEW r \in 1..runs,
         run'[r] = Out!Failed(run[r]), failures' # 0 \/ revoked' # {}
  PROVE  Fine(r)'
<1>1. Person(r) /\ Smooth(r) /\ Shape
  BY DEF Met, Fine
<1>2. /\ DOMAIN conv = 1..Len(conv) /\ DOMAIN conv' = 1..Len(conv')
      /\ Len(conv) \in Nat /\ Len(conv') \in Nat
  BY <1>1 DEF Shape
<1>3. DOMAIN run[r] = Fields
  BY <1>1, FieldsOfRuns DEF Person
<1>4. Person(r)'
  <2>1. /\ run'[r].q = run[r].q /\ run'[r].to = run[r].to /\ DOMAIN run'[r] = Fields
        /\ run'[r].conv = run[r].conv /\ run'[r].flow \in {None, 0}
        /\ run'[r].pc \in {"failed", "search", "commit"} /\ run'[r].seen \in {0, run[r].seen}
        /\ run'[r].pc = "commit" => run'[r].flow = 0
    BY <1>3, FailedIs
  <2>2. run'[r].conv # None => run'[r].conv \in With(run[r].q.to.who)'
    BY <1>1, <2>1, Company DEF Person, With
  <2> QED
    BY <1>1, <1>2, <2>1, <2>2, FieldsOfRuns DEF Shape, Assumed, Person, Onward, Stages
<1>5. Smooth(r)' /\ Sought(r)'
  BY <1>3, FailedIs DEF Smooth, Sought
<1> QED
  BY <1>4, <1>5 DEF Fine

\* A run that has sent a part is as it should be.
LEMMA Finish ==
  ASSUME Met, Shape', Onward, NEW r \in 1..runs,
         run'[r] \in {Out!NextPart(run[r]), Out!NextPart(Out!Arrived(run[r]))}, run[r].pc \in {"post", "buffer"}
  PROVE  Fine(r)'
<1>1. Person(r) /\ Smooth(r) /\ Shape
  BY DEF Met, Fine
<1>2. /\ DOMAIN conv = 1..Len(conv) /\ DOMAIN conv' = 1..Len(conv')
      /\ Len(conv) \in Nat /\ Len(conv') \in Nat
  BY <1>1 DEF Shape
<1>3. DOMAIN run[r] = Fields
  BY <1>1, FieldsOfRuns DEF Person
<1>4. Person(r)'
  <2>1. /\ run'[r].q = run[r].q /\ run'[r].to = run[r].to /\ DOMAIN run'[r] = Fields
        /\ run'[r].conv = run[r].conv /\ run'[r].flow \in {None, run[r].flow}
        /\ run'[r].pc \in {run[r].pc, "done"} /\ run'[r].seen \in {0, run[r].seen}
    BY <1>3, PartIs
  <2>2. run'[r].conv # None => run'[r].conv \in With(run[r].q.to.who)'
    BY <1>1, <2>1, Company DEF Person, With
  <2>3. run'[r].flow \notin {None, 0} => run'[r].flow \in With(run[r].q.to.who)'
    BY <1>1, <2>1, Company DEF Person, With
  <2> QED
    BY <1>1, <1>2, <2>1, <2>2, <2>3, FieldsOfRuns DEF Person, Onward, Stages
<1>5. Smooth(r)' /\ Sought(r)'
  BY <1>1, <1>3, PartIs DEF Person, Smooth, Sought
<1> QED
  BY <1>4, <1>5 DEF Fine

\* Nothing is made or closed at ChatNexo but contacts.
LEMMA Quiet ==
  ASSUME Met, UNCHANGED <<conv, enrolled, doubled, revoked>>, contact \subseteq contact',
         DOMAIN run' = DOMAIN run, runs' \in 0..MaxRuns, failures' \in {failures, failures + 1}
  PROVE  Shape' /\ Single' /\ Onward
<1>1. DOMAIN conv = 1..Len(conv) /\ Len(conv) \in Nat
  BY DEF Met, Fine, Shape
<1> QED
  BY <1>1 DEF Met, Fine, Shape, Single, Onward, With

\* Where a run is making a conversation.
Making == {"contact", "again", "patch", "link", "open"}

\* A run that makes a conversation goes on with what it has seen.
LEMMA StillMakes ==
  ASSUME Met, Shape', Onward, NEW r \in 1..runs, Keeps(r),
         run[r].pc \in Making, run'[r].pc \in Making, run'[r].seen = run[r].seen,
         failures' = 0 => run'[r].tries = 0,
         run'[r].pc # "contact" => Out!Digits(run[r].to) \in contact'
  PROVE  Fine(r)'
<1>1. Fine(r) /\ Shape
  BY DEF Met, Fine
<1>2. /\ DOMAIN conv = 1..Len(conv) /\ DOMAIN conv' = 1..Len(conv')
      /\ Len(conv) \in Nat /\ Len(conv') \in Nat
  BY <1>1 DEF Shape
<1>3. run'[r].seen \in 0..Len(conv')
  BY <1>1, <1>2 DEF Fine, Person, Onward
<1>4. Person(r)' /\ Smooth(r)'
  BY <1>3, Advance DEF Making
<1>5. Sought(r)'
  BY <1>1, <1>2 DEF Fine, Sought, Out!OpenConvs, Onward, Keeps, Making, Person
<1> QED
  BY <1>4, <1>5 DEF Fine

\* A POST is tried again only after a failure.
LEMMA RetryFaults ==
  ASSUME Met, NEW r \in 1..runs, Out!Retry(r)
  PROVE  /\ failures' \in {failures, failures + 1} /\ failures' # 0 
         /\ run' = [run EXCEPT ![r] = [run[r] EXCEPT !.tries = @ + 1]]
<1>1. Smooth(r) /\ failures \in Nat
  BY DEF Met, Fine, Shape
<1> QED
  BY <1>1 DEF Out!Retry, Out!Fault, Out!Goto, Smooth

\* A step of a run is of no other.
LEMMA Others ==
  ASSUME Shape, NEW r \in 1..runs, runs' = runs, \E new : Out!Goto(r, new)
  PROVE  /\ \A s \in 1..runs : s # r => run'[s] = run[s]
         /\ 1..runs' \subseteq 1..runs \cup {r} /\ DOMAIN run' = DOMAIN run
         /\ runs' \in 0..MaxRuns
BY DEF Shape, Assumed, Out!Goto

\* A run becomes what its step says.
LEMMA Moved ==
  ASSUME Shape, NEW r \in 1..runs, NEW new, Out!Goto(r, new)
  PROVE  run'[r] = new
BY DEF Shape, Assumed, Out!Goto

-----------------------------------------------------------------------------
(* The steps of a run *)

\* Search preserves the invariant: only the contact with these digits is taken, and without it
\* there is no conversation.
LEMMA Searching ==
  ASSUME Met, NEW r \in Out!Live, Out!Search(r)
  PROVE  Met'
<1>1. r \in 1..runs /\ Shape /\ Fine(r) /\ DOMAIN run[r] = Fields /\ Len(conv) \in Nat
  BY FieldsOfRuns DEF Out!Live, Met, Fine, Person, Shape
<1>2. runs' = runs /\ Shape' /\ Single' /\ Onward /\ \E new : Out!Goto(r, new)
  <2>1. runs' = runs /\ \E new : Out!Goto(r, new)
    BY DEF Out!Search, Out!Outside
  <2> QED
    BY <1>1, <2>1, Others, Quiet DEF Out!Search, Out!Outside, Out!config, Out!chatnexo, Shape
<1>3. CASE Out!Digits(run[r].to) \in contact
  <2>1. run'[r] = [run[r] EXCEPT !.pc = "list"]
    BY <1>1, <1>3 DEF Out!Search, Out!Goto, Shape, Assumed
  <2>2. Fine(r)'
    <3>1. /\ Keeps(r) /\ run'[r].pc = "list" /\ run[r].pc \notin {"done", "failed"}
          /\ run'[r].seen = run[r].seen /\ run'[r].tries = run[r].tries /\ conv' = conv
                /\ failures' = failures
      BY <1>1, <2>1 DEF Keeps, Fields, Out!Search, Out!Get, Out!chatnexo, Out!Outside
    <3>2. Person(r)' /\ Smooth(r)'
      BY <1>1, <1>2, <3>1, Advance DEF Fine, Smooth, Person
    <3> QED
      BY <3>1, <3>2 DEF Fine, Sought
  <2> QED
    BY <1>1, <1>2, <2>2, Others, Proceeds
<1>4. CASE Out!Digits(run[r].to) \notin contact
  <2>1. run'[r] = [run[r] EXCEPT !.pc = "contact", !.seen = Len(conv)]
    <3>1. Out!Goto(r, [run[r] EXCEPT !.pc = "contact", !.seen = Len(conv)])
      BY <1>4 DEF Out!Search
    <3> QED
      BY <1>1, <3>1, Moved
  <2>2. Sought(r)'
    <3>1. Out!OpenConvs(Out!Digits(run[r].to)) = {} /\ conv' = conv
      BY <1>1, <1>4 DEF Out!OpenConvs, Shape, Out!Search, Out!chatnexo
    <3> QED
      BY <1>1, <2>1, <3>1 DEF Sought, Out!OpenConvs, Fields
  <2>3. Fine(r)'
    <3>1. /\ Keeps(r) /\ run'[r].pc = "contact" /\ run[r].pc \notin {"done", "failed"}
          /\ run'[r].seen = Len(conv) /\ run'[r].tries = run[r].tries /\ conv' = conv
                /\ failures' = failures
      BY <1>1, <2>1 DEF Keeps, Fields, Out!Search, Out!Get, Out!chatnexo, Out!Outside
    <3> QED
      BY <1>1, <1>2, <2>2, <3>1, Advance DEF Fine, Smooth
  <2> QED
    BY <1>1, <1>2, <2>3, Others, Proceeds
<1> QED
  BY <1>3, <1>4

\* ListConvs preserves the invariant: what it finds is this contact's, and when it finds nothing
\* none is open now.
LEMMA Listing ==
  ASSUME Met, NEW r \in Out!Live, Out!ListConvs(r)
  PROVE  Met'
<1>1. r \in 1..runs /\ Shape /\ Fine(r) /\ DOMAIN run[r] = Fields /\ Len(conv) \in Nat
  BY FieldsOfRuns DEF Out!Live, Met, Fine, Person, Shape
<1>2. runs' = runs /\ Shape' /\ Single' /\ Onward /\ \E new : Out!Goto(r, new)
  <2>1. runs' = runs /\ \E new : Out!Goto(r, new)
    BY DEF Out!ListConvs, Out!Outside
  <2> QED
    BY <1>1, <2>1, Others, Quiet DEF Out!ListConvs, Out!Outside, Out!config, Out!chatnexo, Shape
<1>3. CASE Out!OpenConvs(Out!Digits(run[r].to)) # {}
  <2>1. PICK i \in Out!OpenConvs(Out!Digits(run[r].to)) : run' = [run EXCEPT ![r] = Out!Resolved(run[r], i)]
    BY <1>3 DEF Out!ListConvs, Out!Goto
  <2>2. run'[r] = Out!Resolved(run[r], i)
    BY <1>1, <2>1 DEF Shape, Assumed
  <2>3. i \in DOMAIN conv' /\ conv'[i].contact.who = run[r].q.to.who
    BY <1>1 DEF Out!OpenConvs, Out!Digits, Out!ListConvs, Out!chatnexo, Fine, Person, Out!Written
  <2>4. Fine(r)'
    BY <1>1, <1>2, <2>2, <2>3, Arrive DEF Out!ListConvs
  <2> QED
    BY <1>1, <1>2, <2>4, Others, Proceeds
<1>4. CASE Out!OpenConvs(Out!Digits(run[r].to)) = {}
  <2>1. run'[r] = [run[r] EXCEPT !.pc = "contact", !.seen = Len(conv)]
    BY <1>1, <1>4 DEF Out!ListConvs, Out!Goto, Shape, Assumed
  <2>2. Sought(r)'
    BY <1>1, <1>2, <1>4, <2>1 DEF Sought, Out!OpenConvs, Out!ListConvs, Out!chatnexo, Fields
  <2>3. Fine(r)'
    <3>1. /\ Keeps(r) /\ run'[r].pc = "contact" /\ run[r].pc \notin {"done", "failed"}
          /\ run'[r].seen = Len(conv) /\ run'[r].tries = run[r].tries /\ conv' = conv
                /\ failures' = failures
      BY <1>1, <2>1 DEF Keeps, Fields, Out!ListConvs, Out!Get, Out!chatnexo, Out!Outside
    <3> QED
      BY <1>1, <1>2, <2>2, <3>1, Advance DEF Fine, Smooth
  <2> QED
    BY <1>1, <1>2, <2>3, Others, Proceeds
<1> QED
  BY <1>3, <1>4

\* What is known of a run that takes a step.
LEMMA Acting ==
  ASSUME Met, NEW r \in Out!Live
  PROVE  /\ r \in 1..runs /\ Shape /\ Fine(r) /\ DOMAIN run[r] = Fields /\ Len(conv) \in Nat
         /\ run[r].pc \notin {"done", "failed"} /\ Out!Digits(run[r].to) \in Out!Written
<1>1. r \in 1..runs /\ Shape /\ Fine(r) /\ DOMAIN run[r] = Fields /\ Len(conv) \in Nat
  BY FieldsOfRuns DEF Out!Live, Met, Fine, Person, Shape
<1>2. run[r].to \in Out!Written /\ run[r].pc \notin {"done", "failed"}
  BY <1>1 DEF Out!Live, Fine, Person
<1> QED
  BY <1>1, <1>2 DEF Out!Digits, Out!Written, Out!Forms

\* PostContact preserves the invariant: afterwards the contact is there, made now or before.
LEMMA ContactPosted ==
  ASSUME Met, NEW r \in Out!Live, Out!PostContact(r)
  PROVE  Met'
<1> DEFINE me == run[r]
           d == Out!Digits(me.to)
<1>1. r \in 1..runs /\ Shape /\ Fine(r) /\ DOMAIN me = Fields /\ me.pc = "contact"
  BY Acting DEF Out!PostContact, Out!Post
<1>2. \/ /\ d \notin contact /\ contact' = contact \cup {d} /\ failures' = failures
         /\ run' = [run EXCEPT ![r] = [me EXCEPT !.pc = "link", !.tries = 0]]
      \/ /\ d \in contact /\ contact' = contact /\ failures' = failures
         /\ run' = [run EXCEPT ![r] = [me EXCEPT !.pc = "again", !.tries = 0]]
      \/ contact \subseteq contact' /\ Out!Retry(r)
  BY DEF Out!PostContact, Out!Goto
<1>3. /\ \E new : Out!Goto(r, new)
      /\ runs' = runs /\ failures' \in {failures, failures + 1} /\ contact \subseteq contact'
      /\ UNCHANGED <<conv, enrolled, doubled, revoked>>
  BY <1>1, <1>2, RetryFaults DEF Out!PostContact, Out!Outside, Out!config, Out!Goto
<1>4. Shape' /\ Single' /\ Onward
  BY <1>1, <1>3, Others, Quiet
<1>5. CASE Out!Retry(r)
  <2>1. failures' # 0 /\ run'[r] = [me EXCEPT !.tries = @ + 1]
    BY <1>1, <1>5, RetryFaults DEF Shape, Assumed
  <2>2. Keeps(r) /\ run'[r].pc = "contact" /\ run'[r].seen = me.seen
    BY <1>1, <2>1 DEF Keeps, Fields
  <2>3. Fine(r)'
    BY <1>1, <1>4, <2>1, <2>2, StillMakes DEF Making
  <2> QED
    BY <1>1, <1>3, <1>4, <2>3, Others, Proceeds
<1>6. CASE ~Out!Retry(r)
  <2>1. PICK pc \in {"link", "again"} : run' = [run EXCEPT ![r] = [me EXCEPT !.pc = pc, !.tries = 0]]
    BY <1>2, <1>6
  <2>2. run'[r] = [me EXCEPT !.pc = pc, !.tries = 0]
    BY <1>1, <2>1, Moved DEF Out!Goto
  <2>3. /\ Keeps(r) /\ run'[r].pc \in {"link", "again"} /\ run'[r].seen = me.seen
        /\ run'[r].tries = 0
    BY <1>1, <2>2 DEF Keeps, Fields
  <2>4. d \in contact'
    BY <1>2, <1>6
  <2>5. Fine(r)'
    BY <1>1, <1>4, <2>3, <2>4, StillMakes DEF Making
  <2> QED
    BY <1>1, <1>3, <1>4, <2>5, Others, Proceeds
<1> QED
  BY <1>5, <1>6

\* SearchAgain and PatchContact preserve the invariant.
LEMMA AgainSearched ==
  ASSUME Met, NEW r \in Out!Live, Out!SearchAgain(r) \/ Out!PatchContact(r)
  PROVE  Met'
<1>1. r \in 1..runs /\ Shape /\ Fine(r) /\ DOMAIN run[r] = Fields
  BY Acting
<1>2. run[r].pc \in {"again", "patch"} /\ Out!Digits(run[r].to) \in contact
  BY <1>1 DEF Out!SearchAgain, Out!PatchContact, Out!Get, Fine, Sought
<1>3. PICK pc \in {"link", "patch"} : Out!Goto(r, [run[r] EXCEPT !.pc = pc])
  BY DEF Out!SearchAgain, Out!PatchContact
<1>4. Shape' /\ Single' /\ Onward /\ runs' = runs /\ contact' = contact /\ failures' = failures
  BY <1>1, <1>3, Others, Quiet DEF Out!SearchAgain, Out!PatchContact, Out!Outside, Out!config,
     Out!chatnexo
<1>5. run'[r] = [run[r] EXCEPT !.pc = pc]
  BY <1>1, <1>3, Moved
<1>6. /\ Keeps(r) /\ run'[r].pc \in {"link", "patch"} /\ run'[r].seen = run[r].seen
      /\ run'[r].tries = run[r].tries
  BY <1>1, <1>5 DEF Keeps, Fields
<1>7. Fine(r)'
  BY <1>1, <1>2, <1>4, <1>6, StillMakes DEF Making, Fine, Smooth
<1> QED
  BY <1>1, <1>3, <1>4, <1>7, Others, Proceeds

\* LinkInbox preserves the invariant.
LEMMA InboxLinked ==
  ASSUME Met, NEW r \in Out!Live, Out!LinkInbox(r)
  PROVE  Met'
<1>1. r \in 1..runs /\ Shape /\ Fine(r) /\ DOMAIN run[r] = Fields /\ run[r].pc = "link"
  BY Acting DEF Out!LinkInbox, Out!Post
<1>2. Out!Digits(run[r].to) \in contact
  BY <1>1 DEF Fine, Sought
<1>3. \/ failures' = failures /\ Out!Goto(r, [run[r] EXCEPT !.pc = "open", !.tries = 0])
      \/ /\ failures' \in {failures, failures + 1} /\ failures' # 0
         /\ Out!Goto(r, [run[r] EXCEPT !.tries = @ + 1])
  BY <1>1, RetryFaults DEF Out!LinkInbox, Out!Goto
<1>4. \E new : Out!Goto(r, new)
  BY <1>3
<1>5. Shape' /\ Single' /\ Onward /\ runs' = runs /\ contact' = contact
  BY <1>1, <1>3, <1>4, Others, Quiet DEF Out!LinkInbox, Out!Outside, Out!config
<1>6. /\ Keeps(r) /\ run'[r].pc \in {"open", "link"} /\ run'[r].seen = run[r].seen
      /\ failures' = 0 => run'[r].tries = 0
  <2>1. CASE Out!Goto(r, [run[r] EXCEPT !.pc = "open", !.tries = 0])
    <3>1. run'[r] = [run[r] EXCEPT !.pc = "open", !.tries = 0]
      BY <1>1, <2>1, Moved
    <3> QED
      BY <1>1, <3>1 DEF Keeps, Fields
  <2>2. CASE failures' # 0 /\ Out!Goto(r, [run[r] EXCEPT !.tries = @ + 1])
    <3>1. run'[r] = [run[r] EXCEPT !.tries = @ + 1]
      BY <1>1, <2>2, Moved
    <3> QED
      BY <1>1, <2>2, <3>1 DEF Keeps, Fields
  <2> QED
    BY <1>3, <2>1, <2>2
<1>7. Fine(r)'
  BY <1>1, <1>2, <1>5, <1>6, StillMakes DEF Making
<1> QED
  BY <1>1, <1>4, <1>5, <1>7, Others, Proceeds

\* OpenConv preserves the invariant: the new conversation is the contact's only open one unless
\* a later one was opened since the lookup or the POST is repeated, and both are noted.
LEMMA Opened ==
  ASSUME Met, NEW r \in Out!Live, Out!OpenConv(r)
  PROVE  Met'
<1> DEFINE d == Out!Digits(run[r].to)
           c == [contact |-> d, open |-> TRUE]
<1>1. /\ r \in 1..runs /\ Shape /\ Fine(r) /\ DOMAIN run[r] = Fields /\ Len(conv) \in Nat
      /\ run[r].pc = "open" /\ d \in Out!Written
  BY Acting DEF Out!OpenConv, Out!Post
<1>2. d \in contact /\ \A i \in Out!OpenConvs(d) : i > run[r].seen
  BY <1>1 DEF Fine, Sought
<1>3. PICK new : Out!Goto(r, new)
  BY DEF Out!OpenConv, Out!Retry
<1>4. /\ runs' = runs /\ contact' = contact /\ failures' \in {failures, failures + 1}
      /\ UNCHANGED <<enrolled, revoked>>
  BY <1>1, RetryFaults DEF Out!OpenConv, Out!Outside, Out!config
<1>5. CASE conv' = conv
  <2>1. Out!Retry(r) /\ doubled' = doubled
    <3>1. Len(Append(conv, c)) = Len(conv) + 1
      BY <1>1, AppendProperties DEF Shape, Conversation
    <3>2. conv' # Append(conv, c)
      BY <1>1, <1>5, <3>1
    <3> QED
      BY <3>2 DEF Out!OpenConv
  <2>2. Shape' /\ Single' /\ Onward
    BY <1>1, <1>3, <1>4, <1>5, <2>1, Others, Quiet
  <2>3. failures' # 0 /\ run'[r] = [run[r] EXCEPT !.tries = @ + 1]
    BY <1>1, <2>1, RetryFaults, Moved DEF Out!Goto
  <2>4. Keeps(r) /\ run'[r].pc = "open" /\ run'[r].seen = run[r].seen
    BY <1>1, <2>3 DEF Keeps, Fields
  <2>5. Fine(r)'
    BY <1>1, <1>2, <1>4, <2>2, <2>3, <2>4, StillMakes DEF Making
  <2> QED
    BY <1>1, <1>3, <1>4, <2>2, <2>5, Others, Proceeds
<1>6. CASE conv' # conv
  <2>1. /\ conv' = Append(conv, c)
        /\ \/ /\ Out!Goto(r, Out!Resolved(run[r], Len(conv'))) /\ failures' = failures
              /\ doubled' = IF \E i \in Out!OpenConvs(d) : i > run[r].seen
                              THEN doubled \cup {d} ELSE doubled
           \/ Out!Retry(r) /\ doubled' = doubled \cup {d}
    BY <1>6 DEF Out!OpenConv
  <2>2. /\ conv' \in Seq(Conversation) /\ Len(conv') = Len(conv) + 1
        /\ \A i \in 1..Len(conv) : conv'[i] = conv[i]
        /\ conv'[Len(conv) + 1] = c
    BY <1>1, <2>1, AppendProperties DEF Shape, Conversation
  <2>3. /\ DOMAIN conv = 1..Len(conv) /\ DOMAIN conv' = 1..Len(conv')
        /\ DOMAIN conv' = DOMAIN conv \cup {Len(conv')}
    BY <1>1, <2>2 DEF Shape
  <2>4. Onward
    BY <1>1, <1>4, <2>2, <2>3 DEF Onward, Shape
  <2>5. Shape'
    <3>1. \A i \in DOMAIN conv' : conv'[i].contact \in contact'
      BY <1>1, <1>2, <1>4, <2>2, <2>3 DEF Shape
    <3>2. \A b \in Buyers : enrolled'[b] # None => enrolled'[b] \in With(b)'
      BY <1>1, <1>4, <2>2, <2>3 DEF Shape, With
    <3> QED
      BY <1>1, <1>3, <1>4, <2>2, <3>1, <3>2, Others DEF Shape
  <2>6. Single'
    <3>1. doubled \subseteq doubled' /\ (d \notin doubled' => Out!OpenConvs(d) = {})
      BY <1>2, <2>1
    <3>2. SUFFICES ASSUME NEW i \in DOMAIN conv', NEW j \in DOMAIN conv',
                          conv'[i].contact = conv'[j].contact, conv'[i].contact \notin doubled',
                          conv'[i].open, conv'[j].open
                   PROVE  i = j
      BY DEF Single
    <3>3. CASE i \in DOMAIN conv /\ j \in DOMAIN conv
      BY <2>2, <2>3, <3>1, <3>2, <3>3 DEF Met, Fine, Single
    <3>4. CASE i = Len(conv') /\ j \in DOMAIN conv
      <4>1. j \in Out!OpenConvs(d) /\ d \notin doubled'
        BY <2>2, <2>3, <3>2, <3>4 DEF Out!OpenConvs
      <4> QED
        BY <3>1, <4>1
    <3>5. CASE i \in DOMAIN conv /\ j = Len(conv')
      <4>1. i \in Out!OpenConvs(d) /\ d \notin doubled'
        BY <2>2, <2>3, <3>2, <3>5 DEF Out!OpenConvs
      <4> QED
        BY <3>1, <4>1
    <3> QED
      BY <2>3, <3>3, <3>4, <3>5
  <2>7. Fine(r)'
    <3>1. CASE failures' = failures /\ Out!Goto(r, Out!Resolved(run[r], Len(conv')))
      <4>1. run'[r] = Out!Resolved(run[r], Len(conv'))
        BY <1>1, <3>1 DEF Out!Goto, Shape, Assumed
      <4>2. Len(conv') \in DOMAIN conv' /\ conv'[Len(conv')].contact.who = run[r].q.to.who
        BY <1>1, <2>2, <2>3 DEF Out!Digits, Fine, Person, Out!Written
      <4> QED
        BY <1>1, <2>4, <2>5, <3>1, <4>1, <4>2, Arrive
    <3>2. CASE Out!Retry(r)
      <4>1. failures' # 0 /\ run'[r] = [run[r] EXCEPT !.tries = @ + 1]
        BY <1>1, <3>2, RetryFaults, Moved DEF Out!Goto
      <4>2. Keeps(r) /\ run'[r].pc = "open" /\ run'[r].seen = run[r].seen
        BY <1>1, <4>1 DEF Keeps, Fields
      <4> QED
        BY <1>1, <1>2, <1>4, <2>4, <2>5, <4>1, <4>2, StillMakes DEF Making
    <3> QED
      BY <2>1, <3>1, <3>2
  <2> QED
    BY <1>1, <1>3, <1>4, <2>4, <2>5, <2>6, <2>7, Others, Proceeds
<1> QED
  BY <1>5, <1>6

\* PostPart and PostBuffer preserve the invariant.
LEMMA Posted ==
  ASSUME Met, NEW r \in Out!Live, Out!PostPart(r) \/ Out!PostBuffer(r)
  PROVE  Met'
<1>1. /\ r \in 1..runs /\ Shape /\ Fine(r) /\ DOMAIN run[r] = Fields
      /\ run[r].pc \in {"post", "buffer"}
  BY Acting DEF Out!PostPart, Out!PostBuffer, Out!Post
<1>2. \/ Out!Goto(r, Out!NextPart(Out!Arrived(run[r]))) /\ failures' = failures
      \/ Out!Retry(r)
      \/ /\ run[r].tries < 2 /\ IF run[r].tries = 0 THEN Out!Fault ELSE UNCHANGED failures
         /\ Out!Goto(r, [Out!Arrived(run[r]) EXCEPT !.tries = @ + 1, !.lost = TRUE])
  BY DEF Out!PostPart, Out!PostBuffer
<1>3. \E new : Out!Goto(r, new)
  BY <1>2 DEF Out!Retry
<1>4. failures \in Nat /\ (failures = 0 => run[r].tries = 0)
  BY <1>1 DEF Fine, Smooth, Shape
<1>5. failures' \in {failures, failures + 1}
  BY <1>1, <1>2, RetryFaults DEF Out!Fault
<1>6. Shape' /\ Single' /\ Onward /\ runs' = runs /\ conv' = conv
  BY <1>1, <1>3, <1>5, Others, Quiet DEF Out!PostPart, Out!PostBuffer, Out!Outside, Out!config,
     Out!chatnexo
<1>7. Fine(r)'
  <2>1. CASE Out!Goto(r, Out!NextPart(Out!Arrived(run[r]))) /\ failures' = failures
    <3>1. run'[r] = Out!NextPart(Out!Arrived(run[r]))
      BY <1>1, <2>1, Moved
    <3> QED
      BY <1>1, <1>6, <3>1, Finish
  <2>2. CASE ~(Out!Goto(r, Out!NextPart(Out!Arrived(run[r]))) /\ failures' = failures)
    <3>1. PICK me \in {run[r], Out!Arrived(run[r])}, kept \in {run[r].lost, TRUE} :
            Out!Goto(r, [me EXCEPT !.tries = @ + 1, !.lost = kept])
      <4>1. CASE Out!Retry(r)
        BY <4>1, <1>1 DEF Out!Retry, Fields
      <4>2. CASE ~Out!Retry(r)
        BY <4>2, <1>2, <2>2
      <4> QED
        BY <4>1, <4>2
    <3>2. failures' # 0
      BY <1>1, <1>2, <1>4, <2>2, RetryFaults DEF Out!Fault
    <3>3. run'[r] = [me EXCEPT !.tries = @ + 1, !.lost = kept]
      BY <1>1, <3>1, Moved
    <3>4. /\ DOMAIN me = Fields /\ me.pc = run[r].pc /\ me.q = run[r].q /\ me.to = run[r].to
          /\ me.conv = run[r].conv /\ me.flow = run[r].flow /\ me.seen = run[r].seen
      BY <1>1 DEF Out!Arrived, Fields
    <3>5. Keeps(r) /\ run'[r].pc = run[r].pc /\ run'[r].seen = run[r].seen
      BY <3>3, <3>4 DEF Keeps, Fields
    <3>6. Person(r)' /\ Smooth(r)'
      BY <1>1, <1>6, <3>2, <3>5, Advance DEF Fine, Person
    <3> QED
      BY <1>1, <3>5, <3>6 DEF Fine, Sought
  <2> QED
    BY <2>1, <2>2
<1> QED
  BY <1>1, <1>3, <1>6, <1>7, Others, Proceeds

\* Commit preserves the invariant: the enrollment gets the conversation its flow has found.
LEMMA Committed ==
  ASSUME Met, NEW r \in Out!Live, Out!Commit(r)
  PROVE  Met'
<1> DEFINE me == run[r]
           who == me.q.to.who
<1>1. /\ r \in 1..runs /\ Shape /\ Fine(r) /\ DOMAIN me = Fields /\ me.pc = "commit"
      /\ me.to.who = who /\ who \in Buyers /\ me.flow # None
      /\ me.flow # 0 => me.flow \in With(who)
  BY Acting DEF Out!Commit, Fine, Person, Out!Written
<1>2. /\ Out!Goto(r, Out!Ended(me, "done"))
      /\ enrolled' = IF me.flow # 0 /\ enrolled[who] = None
                       THEN [enrolled EXCEPT ![who] = me.flow] ELSE enrolled
      /\ UNCHANGED <<conv, contact, doubled, revoked, runs, failures>>
  BY <1>1 DEF Out!Commit, Out!config, Out!chatnexo
<1>3. run'[r] = Out!Ended(me, "done") /\ DOMAIN run' = DOMAIN run
  BY <1>1, <1>2, Moved, Others
<1>4. Onward
  BY <1>1, <1>2 DEF Onward, Shape
<1>5. Shape'
  BY <1>1, <1>2, <1>3 DEF Shape, With
<1>6. Single'
  BY <1>2 DEF Met, Fine, Single
<1>7. Fine(r)'
  <2>1. /\ DOMAIN run'[r] = Fields /\ run'[r].pc = "done" /\ run'[r].q = me.q
        /\ run'[r].to = me.to /\ run'[r].conv = me.conv /\ run'[r].flow = None
        /\ run'[r].seen = 0 /\ run'[r].tries = 0
    BY <1>1, <1>3, EndedIs
  <2>2. Person(r)'
    BY <1>1, <1>2, <2>1, FieldsOfRuns DEF Fine, Person, With, Stages, Shape
  <2>3. me.flow # 0 => enrolled'[who] # None
    BY <1>1, <1>2 DEF Shape
  <2>4. Smooth(r)'
    BY <1>1, <1>2, <2>1, <2>3 DEF Shape, Assumed, Fine, Smooth, Out!GrantsAccess
  <2>5. Sought(r)'
    BY <2>1 DEF Sought
  <2> QED
    BY <2>2, <2>4, <2>5 DEF Fine
<1> QED
  BY <1>1, <1>2, <1>4, <1>5, <1>6, <1>7, Others, Proceeds

\* Fail preserves the invariant: no call fails for good by itself.
LEMMA GivenUp ==
  ASSUME Met, NEW r \in Out!Live, Out!Fail(r)
  PROVE  Met'
<1>1. r \in 1..runs /\ Shape /\ Fine(r) /\ failures \in Nat /\ (failures = 0 => run[r].tries = 0)
  BY Acting DEF Fine, Smooth, Shape
<1>2. failures' \in {failures, failures + 1} /\ (failures' # 0 \/ revoked' # {})
  BY <1>1 DEF Out!Fail, Out!Fault, Out!Refused, Out!config
<1>3. Out!Goto(r, Out!Failed(run[r])) /\ runs' = runs
  BY DEF Out!Fail
<1>4. Shape' /\ Single' /\ Onward
  BY <1>1, <1>2, <1>3, Others, Quiet DEF Out!Fail, Out!config, Out!chatnexo
<1>5. Fine(r)'
  BY <1>1, <1>2, <1>3, <1>4, Moved, Stop
<1> QED
  BY <1>1, <1>3, <1>4, <1>5, Others, Proceeds

-----------------------------------------------------------------------------
(* Beginnings, and what else changes *)

\* Every name an event of access given may have, in either version, is one the handlers know
\* afterwards, and a phone written in any valid way is one number.
LEMMA HandledRight ==
  ASSUME Assumed, NEW q \in Asks, Out!GrantsAccess(q), q.to.form # "invalid"
  PROVE  Out!HandledType(q) \in Out!ActivationTypes /\ Out!ParsePhone(q.to).form = "e164"
<1>1. q.to \in Out!Written
  BY DEF Assumed
<1> QED
  BY <1>1 DEF Out!GrantsAccess, Out!HandledType, Out!NormalizeType, Out!NormalizeV1,
     Out!V1ToV2, Out!ActivationTypes,
              Out!ParsePhone, Out!Written

\* A new run that has found nothing, or the enrollment's conversation, preserves the invariant.
LEMMA Started ==
  ASSUME Met, NEW q \in Asks, NEW started, Out!Start(q, started), failures' = failures,
         DOMAIN started = Fields, started.to \in Out!Written, started.to.who = q.to.who,
         started.pc \in {"search", "post", "buffer", "done"},
         started.pc \in {"post", "buffer"} => q.kind # "event",
         started.conv # None => started.conv \in With(q.to.who),
         started.flow = None, started.seen = 0, started.tries = 0,
         q.kind = "event" /\ Out!GrantsAccess(q) /\ q.to.form # "invalid" => started.pc = "search"
  PROVE  Met'
<1>1. Shape /\ Len(conv) \in Nat /\ MaxRuns \in Nat
  BY DEF Met, Fine, Shape, Assumed
<1>12. PICK r \in Nat : r = runs + 1
  BY <1>1 DEF Shape
<1>2. PICK k : run' = [run EXCEPT ![r] = [started EXCEPT !.q = q, !.key = k]]
  BY <1>12 DEF Out!Start
<1>3. /\ runs \in 0..MaxRuns /\ runs < MaxRuns /\ runs' = r /\ DOMAIN run = 1..MaxRuns
      /\ UNCHANGED <<conv, contact, enrolled, doubled, revoked>>
  BY <1>1, <1>12 DEF Out!Start, Out!config, Out!chatnexo, Shape
<1>4. /\ r \in 1..MaxRuns /\ 1..runs' \subseteq 1..runs \cup {r} /\ runs' \in 0..MaxRuns
      /\ DOMAIN run' = DOMAIN run /\ \A s \in 1..runs : s # r => run'[s] = run[s]
  BY <1>1, <1>2, <1>3, <1>12
<1>5. Shape' /\ Single' /\ Onward
  BY <1>3, <1>4, Quiet
<1>6. run'[r] = [started EXCEPT !.q = q, !.key = k]
  BY <1>2, <1>3, <1>4
<1>7. /\ DOMAIN run'[r] = Fields /\ run'[r].q = q /\ run'[r].to = started.to
      /\ run'[r].pc = started.pc /\ run'[r].conv = started.conv /\ run'[r].flow = None
      /\ run'[r].seen = 0 /\ run'[r].tries = 0
  BY <1>6 DEF Fields
<1>8. Person(r)'
  BY <1>1, <1>3, <1>7, FieldsOfRuns DEF Person, With, Stages
<1>9. Smooth(r)'
  BY <1>1, <1>7 DEF Shape, Assumed, Smooth, Out!GrantsAccess
<1>10. Sought(r)'
  BY <1>7 DEF Sought
<1>11. Fine(r)'
  BY <1>8, <1>9, <1>10 DEF Fine
<1> QED
  BY <1>4, <1>5, <1>11, Proceeds

\* Begin preserves the invariant.
LEMMA Began ==
  ASSUME Met, NEW q \in Asks, Out!Begin(q)
  PROVE  Met'
<1>1. q.to \in Out!Written /\ Assumed
  BY DEF Met, Fine, Shape, Assumed
<1>2. CASE Out!StartEvent(q)
  <2> DEFINE pc == IF Out!ParsePhone(q.to).form = "e164"
        /\ Out!HandledType(q) \in Out!ActivationTypes
                     THEN "search" ELSE "done"
             new == [Out!NoRun EXCEPT !.to = Out!ParsePhone(q.to), !.pc = pc]
  <2>1. Out!Start(q, new) /\ failures' = failures /\ q.kind = "event"
    BY <1>2 DEF Out!StartEvent
  <2>2. Out!ParsePhone(q.to) \in Out!Written /\ Out!ParsePhone(q.to).who = q.to.who
    BY <1>1 DEF Out!ParsePhone, Out!Written, Out!Forms
  <2>3. /\ DOMAIN new = Fields /\ new.to = Out!ParsePhone(q.to) /\ new.pc = pc
        /\ new.conv = None /\ new.flow = None /\ new.seen = 0 /\ new.tries = 0
    BY DEF Out!NoRun, Fields
  <2>4. Out!GrantsAccess(q) /\ q.to.form # "invalid" => pc = "search"
    BY <1>1, HandledRight
  <2>5. pc \in {"search", "done"}
    OBVIOUS
  <2> HIDE DEF new, pc
  <2> QED
    BY <2>1, <2>2, <2>3, <2>4, <2>5, Started
<1>3. CASE Out!StartText(q)
  <2> DEFINE new == [Out!NoRun EXCEPT !.to = q.to, !.pc = "search", !.parts = Out!SplitMessage(q.text)]
  <2>1. Out!Start(q, new) /\ failures' = failures /\ q.kind # "event"
    BY <1>3 DEF Out!StartText
  <2>2. /\ DOMAIN new = Fields /\ new.to = q.to /\ new.pc = "search"
        /\ new.conv = None /\ new.flow = None /\ new.seen = 0 /\ new.tries = 0
    BY DEF Out!NoRun, Fields
  <2> HIDE DEF new
  <2> QED
    BY <1>1, <2>1, <2>2, Started
<1>4. ASSUME NEW parts, NEW buffered, Out!StartStep(q, parts, buffered), q.kind # "event"
      PROVE  Met'
  <2> DEFINE one == [Out!NoRun EXCEPT !.to = q.to, !.pc = "buffer", !.parts = parts]
             two == [Out!NoRun EXCEPT !.to = q.to, !.pc = "post", !.parts = parts,
                                  !.conv = enrolled[q.to.who]]
  <2>1. failures' = failures /\ (Out!Start(q, one) \/ Out!Start(q, two))
    BY <1>4 DEF Out!StartStep
  <2>2. enrolled[q.to.who] # None /\ enrolled[q.to.who] \in With(q.to.who)
    BY <1>1, <1>4 DEF Out!StartStep, Met, Fine, Shape, Out!Written
  <2>3. /\ DOMAIN one = Fields /\ one.to = q.to /\ one.pc = "buffer"
        /\ one.conv = None /\ one.flow = None /\ one.seen = 0 /\ one.tries = 0
    BY DEF Out!NoRun, Fields
  <2>4. /\ DOMAIN two = Fields /\ two.to = q.to /\ two.pc = "post"
        /\ two.conv = enrolled[q.to.who] /\ two.flow = None /\ two.seen = 0 /\ two.tries = 0
    BY DEF Out!NoRun, Fields
  <2> HIDE DEF one, two
  <2>5. CASE Out!Start(q, one)
    BY <1>1, <1>4, <2>1, <2>3, <2>5, Started
  <2>6. CASE Out!Start(q, two)
    BY <1>1, <1>4, <2>1, <2>2, <2>4, <2>6, Started
  <2> QED
    BY <2>1, <2>5, <2>6
<1>5. CASE Out!StartStepText(q) \/ \E template \in Out!Library, ctx \in Contexts :
                                 Out!StartStepTemplate(q, template, ctx)
  <2>1. q.kind # "event" /\ \E parts, buffered : Out!StartStep(q, parts, buffered)
    <3>1. CASE Out!StartStepText(q)
      BY <3>1 DEF Out!StartStepText
    <3>2. ASSUME NEW template \in Out!Library, NEW ctx \in Contexts, Out!StartStepTemplate(q, template, ctx)
          PROVE  q.kind # "event" /\ \E parts, buffered : Out!StartStep(q, parts, buffered)
      BY <3>2 DEF Out!StartStepTemplate
    <3> QED
      BY <1>5, <3>1, <3>2
  <2> QED
    BY <1>4, <2>1
<1> QED
  BY <1>2, <1>3, <1>5 DEF Out!Begin

\* Administration, a key taken back and a conversation resolved preserve the invariant.
LEMMA Administered ==
  ASSUME Met, Out!Administration
  PROVE  Met'
<1>1. /\ UNCHANGED <<contact, enrolled, doubled, run, runs, failures>>
      /\ revoked \subseteq revoked'
      /\ \/ conv' = conv
         \/ \E c \in DOMAIN conv : conv' = [conv EXCEPT ![c].open = FALSE]
  BY DEF Out!Administration, Out!CreateAgent, Out!UpdateAgent, Out!DeleteAgent,
     Out!ChangeAgent, Out!Revoke, Out!Close,
         Out!config, Out!chatnexo
<1>2. Shape /\ DOMAIN conv = 1..Len(conv) /\ Len(conv) \in Nat
  BY DEF Met, Fine, Shape
<1>3. /\ conv' \in Seq(Conversation) /\ Len(conv') = Len(conv) /\ DOMAIN conv' = DOMAIN conv
      /\ \A i \in DOMAIN conv : conv'[i].contact = conv[i].contact
                                /\ (conv'[i].open => conv[i].open)
  <2>1. CASE conv' = conv
    BY <1>2, <2>1 DEF Shape
  <2>2. ASSUME NEW c \in DOMAIN conv, conv' = [conv EXCEPT ![c].open = FALSE]
        PROVE  /\ conv' \in Seq(Conversation) /\ Len(conv') = Len(conv)
               /\ DOMAIN conv' = DOMAIN conv
               /\ \A i \in DOMAIN conv : conv'[i].contact = conv[i].contact
                                         /\ (conv'[i].open => conv[i].open)
    <3>1. conv[c] \in Conversation
      BY <1>2 DEF Shape
    <3>4. [conv[c] EXCEPT !.open = FALSE] \in Conversation
      BY <3>1 DEF Conversation
    <3>2. conv' = [conv EXCEPT ![c] = [conv[c] EXCEPT !.open = FALSE]]
      BY <2>2
    <3>3. /\ conv' \in Seq(Conversation) /\ Len(conv') = Len(conv)
          /\ \A i \in 1..Len(conv) :
               conv'[i] = IF i = c THEN [conv[c] EXCEPT !.open = FALSE] ELSE conv[i]
      BY <1>2, <3>4, <3>2, ExceptSeq DEF Shape
    <3> QED
      BY <1>2, <3>1, <3>3 DEF Conversation
  <2> QED
    BY <1>1, <2>1, <2>2
<1>4. Onward
  BY <1>1, <1>2, <1>3 DEF Onward, Shape
<1>5. Shape'
  BY <1>1, <1>2, <1>3 DEF Shape, With
<1>6. Single'
  BY <1>1, <1>3 DEF Met, Fine, Single
<1>7. \A s \in 1..runs' : Fine(s)'
  BY <1>1, <1>2, <1>4, <1>5, Kept DEF Met, Fine
<1> QED
  BY <1>5, <1>6, <1>7 DEF Met, Fine

-----------------------------------------------------------------------------
(* The invariant, and what follows *)

\* The invariant holds at the start.
LEMMA MetInit == ASSUME Assumed, Out!Init PROVE Met
<1>1. Len(conv) = 0 /\ conv \in Seq(Conversation) /\ DOMAIN conv = {}
  BY DEF Out!Init
<1> QED
  BY <1>1 DEF Out!Init, Met, Fine, Shape, Assumed, Single

\* Every step preserves the invariant.
LEMMA MetStep == Met /\ [Out!Next]_Out!vars => Met'
<1> SUFFICES ASSUME Met, [Out!Next]_Out!vars PROVE Met'
  OBVIOUS
<1>1. CASE Out!Administration
  BY <1>1, Administered
<1>2. ASSUME NEW q \in Asks, Out!Begin(q) PROVE Met'
  BY <1>2, Began
<1>3. ASSUME NEW r \in Out!Live, Out!Step(r) PROVE Met'
  BY <1>3, Searching, Listing, ContactPosted, AgainSearched, InboxLinked, Opened, Posted,
     Committed, GivenUp DEF Out!Step
<1>4. CASE UNCHANGED Out!vars
  <2>1. UNCHANGED <<agent, revoked, contact, conv, enrolled, run, doubled, runs, failures>>
    BY <1>4 DEF Out!vars, Out!config, Out!chatnexo
  <2>2. Shape /\ runs' \in 0..MaxRuns
    BY <2>1 DEF Met, Fine, Shape
  <2>3. Shape' /\ Single' /\ Onward
    BY <2>1, <2>2, Quiet
  <2>4. \A s \in 1..runs : Fine(s)'
    BY <2>1, <2>2, <2>3, Kept DEF Met, Fine
  <2> QED
    BY <2>1, <2>3, <2>4 DEF Met, Fine
<1> QED
  BY <1>1, <1>2, <1>3, <1>4 DEF Out!Next

\* Runs, conversations and enrollments are always of one person, as the invariant says.
THEOREM MetInvariant == ASSUME Assumed PROVE Out!Spec => []Met
  BY MetInit, MetStep, PTL DEF Out!Spec

\* A message goes into a conversation of the person it is for, an enrollment is in one of its
\* buyer, and an event of access given ends in that enrollment unless a call has failed: the
\* search by digits in chatnexo/client.py, phone.py and v1_normalizer.py.
THEOREM MessagesReachTheirBuyer == ASSUME Assumed PROVE Out!Spec => []Out!RightContact
<1>1. Met => Out!RightContact
  <2> SUFFICES ASSUME Met PROVE Out!RightContact
    OBVIOUS
  <2>1. Shape /\ \A r \in 1..runs : Person(r) /\ Smooth(r)
    BY DEF Met, Fine
  <2>2. \A r \in 1..runs : run[r].conv # None => conv[run[r].conv].contact.who = run[r].q.to.who
    BY <2>1 DEF Person, With
  <2>3. \A b \in Buyers : enrolled[b] # None => conv[enrolled[b]].contact.who = b
    BY <2>1 DEF Shape, With
  <2> QED
    BY <2>1, <2>2, <2>3 DEF Out!RightContact, Smooth
<1> QED
  BY <1>1, MetInvariant, PTL

\* A contact has one open conversation unless runs looked for one at the same time or a POST was
\* repeated: get_open_conversation before create_conversation in chatnexo/client.py.
THEOREM ConversationsAreShared == ASSUME Assumed PROVE Out!Spec => []Out!OneConversation
<1>1. Met => Out!OneConversation
  BY DEF Met, Fine, Single, Out!OneConversation, Out!OpenConvs
<1> QED
  BY <1>1, MetInvariant, PTL

=============================================================================
