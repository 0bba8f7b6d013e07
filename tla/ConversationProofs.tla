------------------------- MODULE ConversationProofs -------------------------
(***************************************************************************)
(* Proofs about Conversation, for every value of its constants.            *)
(*                                                                         *)
(* The inductive invariant is Talk.  Nothing locks a contact, so nothing   *)
(* in it says that runs exclude each other: Remembered and Numbered say    *)
(* what a run that loaded among other commits will write back, Copies      *)
(* counts who may still send a part, and Lists follows the chat API's rule *)
(* for tool messages from the history into a run and back.                 *)
(***************************************************************************)
EXTENDS Conversation, FiniteSetTheorems, SequenceTheorems, TLAPS

Current == history["chatnexo id"]
Open(i) == at(i) \in Inside

\* A request that has begun is about a message; a queued job has run nothing, one that is to
\* ask for a completion may still do so, and one with calls to make has their message.
Stages ==
  /\ \A r \in Requests : http[r].pc # "idle" => http[r].msg \in Messages
  /\ \A i \in DOMAIN jobs : /\ at(i) = "queued" => jobs[i].iteration = 0 /\ ~jobs[i].aborted
                            /\ at(i) = "think" => jobs[i].iteration < MaxIterations
                            /\ at(i) = "act" => jobs[i].raw # << >>

\* Commits are numbered in their order, and an open run has loaded among them.
Numbered ==
  /\ IsFiniteSet(runs)
  /\ \A r \in runs : r.at <= Cardinality(runs)
  /\ \A i \in DOMAIN jobs : Open(i) => jobs[i].from <= Cardinality(runs)

\* A job that sends has committed its turn.
Committed == \A i \in DOMAIN jobs : at(i) = "send" => \E r \in runs : r.msg = jobs[i].msg

\* Who may still send a part: requests that own the message's key, jobs that have not come
\* to that part, and the next request if the key is free.
Asked(m) == {r \in Requests : http[r].msg = m /\ http[r].pc = "marked"}
Ahead(m, p) == {i \in DOMAIN jobs :
  jobs[i].msg = m /\ (at(i) \in {"queued"} \cup Inside \/ (at(i) = "send" /\ jobs[i].part <= p))}
Free(m) == IF m \in marks THEN 0 ELSE 1
Copies == \A m \in Messages :
  /\ IsFiniteSet(Asked(m))
  /\ \A p \in 1..Parts :
       delivered[m][p] + Cardinality(Asked(m)) + Cardinality(Ahead(m, p)) + Free(m)
         <= 1 + faults + expiries

\* What an open run will write back has its own message and every turn committed before it
\* loaded, but for those already overtaken.
Holds(list, m) == \E k \in DOMAIN list : list[k].role = "user" /\ list[k].msg = m
Overtaken(r) == \E o \in runs : o.from < r.at /\ r.at < o.at
Remembered == \A i \in DOMAIN jobs : Open(i) =>
  /\ Holds(jobs[i].raw, jobs[i].msg)
  /\ \A r \in runs : r.at <= jobs[i].from =>
       Holds(jobs[i].prefix, r.msg) \/ Holds(jobs[i].raw, r.msg) \/ Overtaken(r)

\* The lists that are written follow the chat API's rule for tool messages; one that was
\* accepted and whose calls were executed is accepted again.
Asking(raw) == \A k \in DOMAIN raw : k < Len(raw) => AnswersCalls(raw, k)
Lists ==
  /\ ToolsFollow(Current)
  /\ \A i \in DOMAIN jobs : Open(i) =>
       /\ ToolsFollow(jobs[i].prefix \o jobs[i].raw)
       /\ at(i) = "think" /\ jobs[i].iteration > 0 => Accepted(jobs[i].raw)
       /\ at(i) = "act" => /\ Last(jobs[i].raw).role = "assistant"
                           /\ ToolsFollow(jobs[i].raw) /\ Asking(jobs[i].raw)
       /\ jobs[i].aborted => faults > 0

Talk == /\ TypeOK /\ Stages /\ Numbered /\ Committed /\ Copies /\ Remembered /\ Lists
        /\ ForgottenOnlyByOverlap /\ AnsweredWasSaved /\ BuriedExplained

-----------------------------------------------------------------------------
(* Sets of numbers, and sets as sequences *)

\* A finite set of numbers has a greatest element: of the sets of what is above each, one is
\* smallest.
LEMMA MaxIs ==
  ASSUME NEW S \in SUBSET Nat, IsFiniteSet(S), S # {}
  PROVE  Max(S) \in S /\ \A y \in S : Max(S) >= y
<1> DEFINE Above(x) == {y \in S : y > x}
           T == {Above(x) : x \in S}
<1>1. T # {} /\ T \subseteq FiniteSubsetsOf(S)
  <2>1. FiniteSubsetsOf(S) = SUBSET S
    BY FS_FiniteSubsetsOfFinite
  <2>2. PICK x \in S : TRUE
    OBVIOUS
  <2>3. Above(x) \in T
    BY <2>2
  <2>4. \A A \in T : A \in SUBSET S
    OBVIOUS
  <2> HIDE DEF T
  <2> QED BY <2>1, <2>3, <2>4
<1>2. PICK A \in T : \A B \in T : ~ (<<B, A>> \in StrictSubsetOrdering(S))
  <2> HIDE DEF T
  <2> QED BY <1>1, FS_StrictSubsetOrderingWellFounded, WFMin
<1>3. PICK x \in S : A = Above(x)
  OBVIOUS
<1>4. \A y \in S : x >= y
  <2> SUFFICES ASSUME NEW y \in S, ~(x >= y) PROVE FALSE
    OBVIOUS
  <2>0. x \in Nat /\ y \in Nat /\ y > x /\ S \subseteq Nat
    OBVIOUS
  <2>1. Above(y) \subseteq Above(x) /\ y \in Above(x) /\ y \notin Above(y)
    <3>1. \A z \in S : z > y => z > x
      BY ONLY <2>0, x \in Nat, y \in Nat, y \in S, x \in S
    <3>2. ~(y > y)
      BY ONLY <2>0
    <3> QED BY <2>0, <3>1, <3>2, Zenon
  <2>2. <<Above(y), A>> \in StrictSubsetOrdering(S)
    BY <2>1, <1>3 DEF StrictSubsetOrdering
  <2>3. Above(y) \in T
    BY Zenon
  <2> HIDE DEF T, Above
  <2> QED BY <1>2, <2>2, <2>3
<1> QED BY <1>4 DEF Max

\* SetToSeq enumerates a finite set.
LEMMA SetToSeqIs ==
  ASSUME NEW S, IsFiniteSet(S)
  PROVE  /\ Cardinality(S) \in Nat /\ SetToSeq(S) \in [1..Cardinality(S) -> S]
         /\ \A s \in S : \E k \in 1..Cardinality(S) : SetToSeq(S)[k] = s
<1> DEFINE n == Cardinality(S)
           f == SetToSeq(S)
<1>1. n \in Nat /\ ExistsBijection(1..n, S)
  BY FS_CardinalityType
<1>2. f \in [1..n -> S] /\ IsInjective(f)
  <2>1. \E g \in [1..n -> S] : IsInjective(g)
    BY <1>1 DEF ExistsBijection, Bijection, Injection
  <2> QED BY <2>1 DEF SetToSeq
<1> HIDE DEF f
<1>3. f \in Injection(1..n, S)
  BY <1>2 DEF Injection
<1>4. IsFiniteSet(1..n) /\ Cardinality(1..n) = n
  BY <1>1, FS_Interval
<1>5. f \in Surjection(1..n, S)
  BY <1>3, <1>4, FS_Injection
<1> QED BY <1>1, <1>2, <1>5 DEF Surjection, f

-----------------------------------------------------------------------------
(* Lists of messages *)

\* The tool messages of a completion are one entry per call.
LEMMA DispatchIs ==
  ASSUME NEW m \in Messages, NEW calls \in SUBSET Skills
  PROVE  LET t == DispatchAll(m, calls) IN
         /\ t \in Seq(Entry)
         /\ \A k \in DOMAIN t : t[k].role = "tool" /\ t[k].calls \subseteq calls
         /\ \A s \in calls : \E k \in DOMAIN t : t[k].calls = {s}
<1> DEFINE t == DispatchAll(m, calls)
           n == Cardinality(calls)
<1>1. /\ n \in Nat /\ SetToSeq(calls) \in [1..n -> calls]
      /\ \A s \in calls : \E k \in 1..n : SetToSeq(calls)[k] = s
  BY CompletionsAssumption, FS_Subset, SetToSeqIs
<1>2. t = [k \in 1..n |-> [role |-> "tool", msg |-> m, text |-> None,
                            calls |-> {SetToSeq(calls)[k]}]]
  BY DEF DispatchAll
<1> HIDE DEF t, n
<1>3. \A k \in 1..n : t[k] \in Entry /\ t[k].role = "tool" /\ t[k].calls = {SetToSeq(calls)[k]}
  BY <1>1, <1>2 DEF Entry, Role
<1>4. DOMAIN t = 1..n /\ t \in [1..n -> Entry]
  BY <1>2, <1>3
<1>5. t \in Seq(Entry)
  BY <1>1, <1>4, SeqDef
<1> QED BY <1>1, <1>3, <1>4, <1>5 DEF t

\* The reply is a message's, or the fallback.
LEMMA ReplyType ==
  ASSUME NEW raw \in Seq(Entry)
  PROVE  Reply(raw) \in Messages \cup {None, "fallback"}
<1> DEFINE said == {k \in DOMAIN raw : raw[k].role = "assistant" /\ raw[k].text # None}
<1>1. DOMAIN raw = 1..Len(raw) /\ Len(raw) \in Nat
  BY LenProperties
<1>2. said \in SUBSET Nat /\ IsFiniteSet(said)
  <2>1. IsFiniteSet(DOMAIN raw)
    BY <1>1, FS_Interval
  <2>2. said \in SUBSET DOMAIN raw
    OBVIOUS
  <2> HIDE DEF said
  <2>3. IsFiniteSet(said)
    BY <2>1, <2>2, FS_Subset
  <2> QED BY <1>1, <2>2, <2>3
<1>3. said # {} => Max(said) \in said
  BY <1>2, MaxIs
<1>4. \A k \in said : raw[k].msg \in Messages \cup {None}
  <2> TAKE k \in said
  <2>1. k \in 1..Len(raw)
    BY <1>1
  <2>2. raw[k] \in Entry
    BY <2>1, ElementOfSeq
  <2> QED BY <2>2 DEF Entry
<1> QED BY <1>3, <1>4 DEF Reply

\* What a list holds, of two that are put together.
LEMMA HoldsBoth ==
  ASSUME NEW s \in Seq(Entry), NEW t \in Seq(Entry), NEW m
  PROVE  Holds(s \o t, m) <=> Holds(s, m) \/ Holds(t, m)
<1>1. /\ DOMAIN s = 1..Len(s) /\ DOMAIN t = 1..Len(t) /\ DOMAIN (s \o t) = 1..(Len(s) + Len(t))
      /\ Len(s) \in Nat /\ Len(t) \in Nat
  BY LenProperties, ConcatProperties
<1>2. \A k \in DOMAIN s : k \in DOMAIN (s \o t) /\ (s \o t)[k] = s[k]
  BY <1>1, ConcatProperties
<1>3. \A k \in DOMAIN t : Len(s) + k \in DOMAIN (s \o t) /\ (s \o t)[Len(s) + k] = t[k]
  BY <1>1, ConcatProperties
<1>4. \A k \in DOMAIN (s \o t) : \/ k \in DOMAIN s /\ (s \o t)[k] = s[k]
                                 \/ k - Len(s) \in DOMAIN t /\ (s \o t)[k] = t[k - Len(s)]
  BY <1>1, ConcatProperties
<1>5. Holds(s \o t, m) => Holds(s, m) \/ Holds(t, m)
  BY <1>4, Zenon DEF Holds
<1>6. Holds(s, m) \/ Holds(t, m) => Holds(s \o t, m)
  BY <1>2, <1>3 DEF Holds
<1> QED BY <1>5, <1>6

\* An entry more forgets nothing.
LEMMA HoldsLonger ==
  ASSUME NEW s \in Seq(Entry), NEW e \in Entry, NEW m
  PROVE  /\ Holds(s, m) => Holds(Append(s, e), m)
         /\ e.role = "user" /\ e.msg = m => Holds(Append(s, e), m)
<1>1. /\ DOMAIN Append(s, e) = 1..(Len(s) + 1) /\ DOMAIN s = 1..Len(s) /\ Len(s) \in Nat
      /\ Append(s, e)[Len(s) + 1] = e
      /\ \A k \in DOMAIN s : Append(s, e)[k] = s[k]
  BY LenProperties, AppendProperties
<1>2. DOMAIN s \subseteq DOMAIN Append(s, e) /\ Len(s) + 1 \in DOMAIN Append(s, e)
  BY <1>1
<1> QED BY <1>1, <1>2, Zenon DEF Holds

\* Whether a message follows its call depends on what is before it only, and an answer stays.
LEMMA KeepsRule ==
  ASSUME NEW s \in Seq(Entry), NEW u \in Seq(Entry), Len(s) <= Len(u),
         \A k \in 1..Len(s) : u[k] = s[k], NEW k \in 1..Len(s)
  PROVE  /\ FollowsCall(s, k) => FollowsCall(u, k)
         /\ AnswersCalls(s, k) => AnswersCalls(u, k)
<1>1. Len(s) \in Nat /\ Len(u) \in Nat
  BY LenProperties
<1>2. ASSUME FollowsCall(s, k) PROVE FollowsCall(u, k)
  <2>1. PICK p \in 1..(k - 1) : /\ s[p].role = "assistant" /\ s[k].calls \subseteq s[p].calls
                                /\ \A q \in (p + 1)..k : s[q].role = "tool"
    BY <1>2 DEF FollowsCall
  <2>2. u[p] = s[p] /\ u[k] = s[k] /\ \A q \in (p + 1)..k : u[q] = s[q]
    BY <1>1
  <2> QED BY <2>1, <2>2 DEF FollowsCall
<1>3. ASSUME AnswersCalls(s, k), u[k].role = "assistant", NEW c \in u[k].calls
      PROVE  \E j \in (k + 1)..Len(u) : /\ u[j].calls = {c}
                                        /\ \A q \in (k + 1)..j : u[q].role = "tool"
  <2>1. PICK j \in (k + 1)..Len(s) : /\ s[j].calls = {c}
                                     /\ \A q \in (k + 1)..j : s[q].role = "tool"
    BY <1>3 DEF AnswersCalls
  <2>2. j \in (k + 1)..Len(u) /\ u[j] = s[j] /\ \A q \in (k + 1)..j : u[q] = s[q]
    BY <1>1
  <2> QED BY <2>1, <2>2
<1> QED BY <1>2, <1>3 DEF AnswersCalls

\* An entry that is no tool message leaves the rule for them as it is.
LEMMA FollowLonger ==
  ASSUME NEW s \in Seq(Entry), NEW e \in Entry, e.role # "tool", ToolsFollow(s)
  PROVE  ToolsFollow(Append(s, e))
<1> DEFINE u == Append(s, e)
<1>1. /\ u \in Seq(Entry) /\ Len(u) = Len(s) + 1 /\ DOMAIN u = 1..(Len(s) + 1)
      /\ DOMAIN s = 1..Len(s) /\ Len(s) \in Nat
      /\ u[Len(s) + 1] = e /\ \A k \in 1..Len(s) : u[k] = s[k]
  BY LenProperties, AppendProperties
<1> HIDE DEF u
<1>2. ASSUME NEW k \in DOMAIN u, u[k].role = "tool" PROVE FollowsCall(u, k)
  <2>1. k \in 1..Len(s)
    BY <1>1, <1>2
  <2>2. FollowsCall(s, k)
    BY <1>1, <1>2, <2>1 DEF ToolsFollow
  <2> QED BY <1>1, <2>1, <2>2, KeepsRule
<1> QED BY <1>2 DEF ToolsFollow, u

\* A turn of calls is followed by its tool messages.
LEMMA TurnIs ==
  ASSUME NEW s \in Seq(Entry), s # << >>, Last(s).role = "assistant", NEW m \in Messages
  PROVE  LET u == s \o DispatchAll(m, Last(s).calls) IN
         /\ u \in Seq(Entry) /\ Len(s) <= Len(u) /\ Len(s) \in Nat \ {0}
         /\ \A k \in 1..Len(s) : u[k] = s[k]
         /\ \A k \in (Len(s) + 1)..Len(u) : u[k].role = "tool" /\ FollowsCall(u, k)
         /\ AnswersCalls(u, Len(s))
<1> DEFINE n == Len(s)
           calls == Last(s).calls
           t == DispatchAll(m, calls)
           u == s \o t
<1>1. n \in Nat \ {0} /\ DOMAIN s = 1..n /\ Last(s) = s[n] /\ s[n] \in Entry
  BY EmptySeq, LenProperties, ElementOfSeq DEF Last
<1>2. calls \in SUBSET Skills
  BY <1>1 DEF Entry
<1>3. /\ t \in Seq(Entry)
      /\ \A k \in DOMAIN t : t[k].role = "tool" /\ t[k].calls \subseteq calls
      /\ \A c \in calls : \E k \in DOMAIN t : t[k].calls = {c}
  BY <1>2, DispatchIs
<1> HIDE DEF t
<1>4. /\ u \in Seq(Entry) /\ Len(u) = n + Len(t) /\ Len(t) \in Nat /\ DOMAIN t = 1..Len(t)
      /\ \A k \in 1..n : u[k] = s[k]
      /\ \A k \in 1..Len(t) : u[n + k] = t[k]
  BY <1>1, <1>3, LenProperties, ConcatProperties
<1> HIDE DEF u
<1>5. \A k \in (n + 1)..Len(u) : /\ k - n \in DOMAIN t /\ u[k] = t[k - n]
                                 /\ u[k].role = "tool" /\ u[k].calls \subseteq calls
  <2> TAKE k \in (n + 1)..Len(u)
  <2>1. k - n \in 1..Len(t) /\ n + (k - n) = k
    BY <1>1, <1>4
  <2>2. u[n + (k - n)] = t[k - n]
    BY <1>4, <2>1
  <2> QED BY <1>3, <1>4, <2>1, <2>2
<1>6. u[n].role = "assistant" /\ u[n].calls = calls
  BY <1>1, <1>4
<1>7. ASSUME NEW k \in (n + 1)..Len(u) PROVE FollowsCall(u, k)
  <2>1. n \in 1..(k - 1) /\ \A q \in (n + 1)..k : q \in (n + 1)..Len(u)
    BY <1>1, <1>4
  <2> QED BY <1>5, <1>6, <2>1 DEF FollowsCall
<1>8. ASSUME NEW c \in calls
      PROVE  \E k \in (n + 1)..Len(u) : u[k].calls = {c} /\ \A q \in (n + 1)..k : u[q].role = "tool"
  <2>1. PICK j \in DOMAIN t : t[j].calls = {c}
    BY <1>3
  <2>2. n + j \in (n + 1)..Len(u) /\ u[n + j] = t[j]
    BY <1>1, <1>4
  <2>3. \A q \in (n + 1)..(n + j) : q \in (n + 1)..Len(u)
    BY <1>1, <1>4, <2>2
  <2> QED BY <1>5, <2>1, <2>2, <2>3
<1>9. AnswersCalls(u, n)
  BY <1>6, <1>8 DEF AnswersCalls
<1> QED BY <1>1, <1>4, <1>5, <1>7, <1>9 DEF u, t

-----------------------------------------------------------------------------
(* What each action does to the jobs *)

Rewrites(i) ==
  /\ jobs' \in Seq(Job) /\ Len(jobs') = Len(jobs) /\ DOMAIN jobs' = DOMAIN jobs
  /\ jobs'[i] \in Job /\ jobs'[i].msg = jobs[i].msg
  /\ \A k \in DOMAIN jobs : k # i => jobs'[k] = jobs[k]

\* What a step that is no part of a run leaves to it.
SameRun(i) ==
  /\ jobs'[i].prefix = jobs[i].prefix /\ jobs'[i].from = jobs[i].from
  /\ jobs'[i].aborted = jobs[i].aborted

\* A job of the list.
LEMMA JobHas ==
  ASSUME TypeOK
  PROVE  /\ DOMAIN jobs = 1..Len(jobs) /\ Len(jobs) \in Nat
         /\ \A i \in DOMAIN jobs : jobs[i] \in Job
<1>1. jobs \in Seq(Job)
  BY DEF TypeOK
<1> QED BY <1>1, LenProperties, ElementOfSeq

\* One job is written and no other.
LEMMA JobWrite ==
  ASSUME TypeOK, NEW i \in DOMAIN jobs, NEW j \in Job, j.msg = jobs[i].msg,
         jobs' = [jobs EXCEPT ![i] = j]
  PROVE  Rewrites(i) /\ jobs'[i] = j
<1>1. jobs \in Seq(Job) /\ DOMAIN jobs = 1..Len(jobs)
  BY JobHas DEF TypeOK
<1>2. /\ jobs' \in Seq(Job) /\ Len(jobs') = Len(jobs)
      /\ \A k \in 1..Len(jobs) : jobs'[k] = IF k = i THEN j ELSE jobs[k]
  BY <1>1, ExceptSeq
<1>3. DOMAIN jobs' = DOMAIN jobs
  BY <1>1
<1> QED BY <1>1, <1>2, <1>3 DEF Rewrites

\* A new job is one.
LEMMA NewJobIs ==
  ASSUME NEW m \in Messages, NEW a \in 1..MaxRetries
  PROVE  /\ NewJob(m) \in Job /\ [NewJob(m) EXCEPT !.attempt = a] \in Job
         /\ \A p \in {"queued", "done", "lost"} :
              [NewJob(m) EXCEPT !.pc = p, !.attempt = a] \in Job
         /\ [NewJob(m) EXCEPT !.pc = "lost"] \in Job
<1>1. << >> \in Seq(Entry) /\ 0 \in 0..MaxIterations /\ 1 \in 1..Parts /\ 1 \in 1..MaxRetries
  BY BoundsAssumption, EmptySeq
<1> DEFINE new == NewJob(m)
<1>2. new \in Job
  BY <1>1 DEF NewJob, Job, Inside
<1> HIDE DEF new
<1>3. /\ [new EXCEPT !.attempt = a] \in Job /\ [new EXCEPT !.pc = "lost"] \in Job
      /\ \A p \in {"queued", "done", "lost"} : [new EXCEPT !.pc = p, !.attempt = a] \in Job
  BY <1>2 DEF Job
<1> QED BY <1>2, <1>3 DEF new

\* The list that a run loads is what it puts aside and what it goes on with.
LEMMA CutIs ==
  ASSUME NEW full \in Seq(Entry), NEW cut \in 0..Len(full)
  PROVE  /\ SubSeq(full, 1, cut) \in Seq(Entry) /\ SubSeq(full, cut + 1, Len(full)) \in Seq(Entry)
         /\ full = SubSeq(full, 1, cut) \o SubSeq(full, cut + 1, Len(full))
<1>1. /\ Len(full) \in Nat /\ \A i \in 1..Len(full) : full[i] \in Entry
      /\ cut \in Int /\ cut + 1 \in Int /\ Len(full) \in Int
  BY LenProperties, ElementOfSeq
<1>2. /\ \A i \in 1..cut : full[i] \in Entry
      /\ \A i \in (cut + 1)..Len(full) : full[i] \in Entry
  BY <1>1
<1>3. SubSeq(full, 1, cut) \in Seq(Entry) /\ SubSeq(full, cut + 1, Len(full)) \in Seq(Entry)
  BY <1>1, <1>2, SubSeqProperties
<1>4. SubSeq(full, 1, cut) \o SubSeq(full, cut + 1, Len(full)) = SubSeq(full, 1, Len(full))
  <2>1. 1 \in 1..(Len(full) + 1) /\ cut \in (1 - 1)..Len(full) /\ Len(full) \in cut..Len(full)
    BY <1>1
  <2> QED BY <2>1, ConcatAdjacentSubSeq
<1> QED BY <1>3, <1>4, SubSeqFull

\* The run loads the history as it is committed and adds its message.
LEMMA BeginEffect ==
  ASSUME TypeOK, IsFiniteSet(runs), NEW i \in DOMAIN jobs, Begin(i)
  PROVE  /\ Rewrites(i) /\ at(i) = "queued" /\ jobs'[i].pc = "think"
         /\ jobs'[i].iteration = jobs[i].iteration /\ jobs'[i].aborted = jobs[i].aborted
         /\ jobs'[i].from = Cardinality(runs)
         /\ \E seen \in Seq(Entry), e \in Entry :
              /\ e.role = "user" /\ e.msg = jobs[i].msg
              /\ Current = jobs'[i].prefix \o seen /\ jobs'[i].raw = Append(seen, e)
         /\ UNCHANGED <<marks, http, history, runs, delivered, notes, faults, expiries>>
<1> DEFINE full == history["chatnexo id"]
           cut == IF Len(full) > MemoryLimit THEN Len(full) - MemoryLimit ELSE 0
           seen == SubSeq(full, cut + 1, Len(full))
           user == [role |-> "user", msg |-> jobs[i].msg, text |-> "fresh", calls |-> {}]
           raw == Append(seen, user)
           forced == legal_mention(jobs[i].msg) \/ loop_detected(raw)
           j == [jobs[i] EXCEPT !.pc = "think", !.prefix = SubSeq(full, 1, cut), !.raw = raw,
                                !.from = Cardinality(runs), !.forced = forced]
<1>1. jobs[i] \in Job
  BY JobHas
<1>2. full \in Seq(Entry) /\ Len(full) \in Nat /\ cut \in 0..Len(full)
  <2>1. full \in Seq(Entry)
    BY DEF TypeOK, Accounts
  <2>2. Len(full) \in Nat /\ MemoryLimit \in Nat
    BY <2>1, BoundsAssumption, LenProperties
  <2> HIDE DEF full
  <2> QED BY <2>1, <2>2
<1>3. /\ SubSeq(full, 1, cut) \in Seq(Entry) /\ seen \in Seq(Entry)
      /\ full = SubSeq(full, 1, cut) \o seen
  BY <1>2, CutIs
<1>4. user \in Entry /\ user.role = "user" /\ user.msg = jobs[i].msg
  BY <1>1 DEF Entry, Role, Job
<1>5. raw \in Seq(Entry)
  BY <1>3, <1>4, AppendProperties
<1>6. Cardinality(runs) \in Nat /\ forced \in BOOLEAN
  BY FS_CardinalityType
<1>7. /\ at(i) = "queued" /\ jobs' = [jobs EXCEPT ![i] = j]
      /\ UNCHANGED <<marks, http, history, runs, delivered, notes, faults, expiries>>
  BY DEF Begin, thread_id, request, agentState
<1> HIDE DEF cut, seen, user, raw, forced
<1>8. /\ j \in Job /\ j.msg = jobs[i].msg /\ j.pc = "think" /\ j.raw = raw
      /\ j.prefix = SubSeq(full, 1, cut) /\ j.from = Cardinality(runs)
      /\ j.iteration = jobs[i].iteration /\ j.aborted = jobs[i].aborted
  BY <1>1, <1>3, <1>5, <1>6 DEF Job, Inside
<1> HIDE DEF j
<1>9. Rewrites(i) /\ jobs'[i] = j
  BY <1>7, <1>8, JobWrite
<1> QED BY <1>3, <1>4, <1>7, <1>8, <1>9 DEF raw, Current

\* The model's turn is added to an accepted list.
LEMMA ThinkEffect ==
  ASSUME TypeOK, Stages, NEW i \in DOMAIN jobs, Think(i)
  PROVE  /\ Rewrites(i) /\ SameRun(i) /\ at(i) = "think" /\ Accepted(jobs[i].raw)
         /\ jobs'[i].pc \in {"act", "save"} /\ jobs'[i].iteration = jobs[i].iteration + 1
         /\ \E e \in Entry : e.role = "assistant" /\ jobs'[i].raw = Append(jobs[i].raw, e)
         /\ UNCHANGED <<marks, http, history, runs, delivered, notes, faults, expiries>>
<1>1. jobs[i] \in Job /\ jobs[i].raw \in Seq(Entry) /\ jobs[i].iteration \in 0..MaxIterations
  BY JobHas DEF Job
<1>2. /\ at(i) = "think" /\ Accepted(jobs[i].raw)
      /\ UNCHANGED <<marks, http, history, runs, delivered, notes, faults, expiries>>
  BY DEF Think, request, agentState
<1> DEFINE E(c) == [role |-> "assistant", msg |-> jobs[i].msg, text |-> c.text, calls |-> c.calls]
           Raw(c) == Append(jobs[i].raw, E(c))
           After(c) == IF c.stopped /\ c.calls # {} THEN "act" ELSE "save"
           J(c) == [jobs[i] EXCEPT !.pc = After(c), !.raw = Raw(c), !.reply = Reply(Raw(c)),
                                   !.iteration = jobs[i].iteration + 1]
<1>3. PICK c \in Completions : jobs' = [jobs EXCEPT ![i] = J(c)]
  BY Zenon DEF Think
<1> DEFINE e == E(c)
           raw == Append(jobs[i].raw, e)
           next == After(c)
           j == [jobs[i] EXCEPT !.pc = next, !.raw = raw, !.reply = Reply(raw),
                                !.iteration = jobs[i].iteration + 1]
<1>4. jobs' = [jobs EXCEPT ![i] = j]
  BY <1>3
<1>5. e \in Entry /\ e.role = "assistant"
  BY <1>1, CompletionsAssumption DEF Entry, Role, Job
<1>6. raw \in Seq(Entry)
  BY <1>1, <1>5, AppendProperties
<1>7. Reply(raw) \in Messages \cup {None, "fallback"} /\ next \in {"act", "save"}
  BY <1>6, ReplyType
<1>8. jobs[i].iteration + 1 \in 0..MaxIterations
  BY <1>1, <1>2, BoundsAssumption DEF Stages
<1> HIDE DEF e, raw, next
<1>9. /\ j \in Job /\ j.msg = jobs[i].msg /\ j.pc = next /\ j.raw = raw
      /\ j.iteration = jobs[i].iteration + 1 /\ j.prefix = jobs[i].prefix
      /\ j.from = jobs[i].from /\ j.aborted = jobs[i].aborted
  BY <1>1, <1>6, <1>7, <1>8 DEF Job, Inside
<1> HIDE DEF j
<1>10. Rewrites(i) /\ jobs'[i] = j
  BY <1>4, <1>9, JobWrite
<1> QED BY <1>2, <1>5, <1>7, <1>9, <1>10 DEF raw, SameRun

\* The calls' messages are added, and after the last completion the fallback too.
LEMMA ActEffect ==
  ASSUME TypeOK, Stages, NEW i \in DOMAIN jobs, Act(i)
  PROVE  /\ Rewrites(i) /\ SameRun(i) /\ at(i) = "act" /\ jobs[i].raw # << >>
         /\ jobs'[i].iteration = jobs[i].iteration
         /\ LET turn == jobs[i].raw \o DispatchAll(jobs[i].msg, Last(jobs[i].raw).calls) IN
            \/ /\ jobs'[i].pc = "think" /\ jobs[i].iteration < MaxIterations
               /\ jobs'[i].raw = turn
            \/ /\ jobs'[i].pc = "save"
               /\ \E e \in Entry : e.role = "assistant" /\ jobs'[i].raw = Append(turn, e)
         /\ UNCHANGED <<marks, http, history, runs, delivered, notes, faults, expiries>>
<1> DEFINE old == jobs[i].raw
           turn == old \o DispatchAll(jobs[i].msg, Last(old).calls)
<1>1. jobs[i] \in Job /\ old \in Seq(Entry) /\ jobs[i].msg \in Messages
  BY JobHas DEF Job
<1>2. /\ at(i) = "act"
      /\ UNCHANGED <<marks, http, history, runs, delivered, notes, faults, expiries>>
  BY DEF Act, request, agentState
<1>3. old # << >>
  BY <1>2 DEF Stages
<1>4. Last(old).calls \in SUBSET Skills
  <2>1. Len(old) \in 1..Len(old)
    BY <1>1, <1>3, EmptySeq
  <2>2. old[Len(old)] \in Entry
    BY <1>1, <2>1, ElementOfSeq
  <2> QED BY <2>2 DEF Last, Entry
<1>5. turn \in Seq(Entry)
  BY <1>1, <1>4, DispatchIs, ConcatProperties
<1> HIDE DEF turn
<1>6. CASE jobs[i].iteration < MaxIterations
  <2> DEFINE again == loop_detected(turn)
             j == [jobs[i] EXCEPT !.pc = "think", !.raw = turn, !.forced = again]
  <2>1. jobs' = [jobs EXCEPT ![i] = j]
    BY <1>6, Zenon DEF Act, turn
  <2>2. again \in BOOLEAN
    BY DEF loop_detected
  <2> HIDE DEF again
  <2>3. /\ j \in Job /\ j.msg = jobs[i].msg /\ j.pc = "think" /\ j.raw = turn
        /\ j.iteration = jobs[i].iteration /\ j.prefix = jobs[i].prefix
        /\ j.from = jobs[i].from /\ j.aborted = jobs[i].aborted
    BY <1>1, <1>5, <2>2 DEF Job, Inside
  <2> HIDE DEF j
  <2>4. Rewrites(i) /\ jobs'[i] = j
    BY <2>1, <2>3, JobWrite
  <2> QED BY <1>2, <1>3, <1>6, <2>3, <2>4 DEF turn, SameRun
<1>7. CASE ~(jobs[i].iteration < MaxIterations)
  <2>1. PICK text \in {"fresh", "again"} :
          jobs' = [jobs EXCEPT ![i] = [@ EXCEPT !.pc = "save", !.reply = "fallback",
                     !.raw = Append(turn, [role |-> "assistant", msg |-> jobs[i].msg,
                                           text |-> text, calls |-> {}])]]
    BY <1>7, Zenon DEF Act, turn
  <2> DEFINE e == [role |-> "assistant", msg |-> jobs[i].msg, text |-> text, calls |-> {}]
             raw == Append(turn, e)
             j == [jobs[i] EXCEPT !.pc = "save", !.reply = "fallback", !.raw = raw]
  <2>2. e \in Entry /\ e.role = "assistant"
    BY <1>1 DEF Entry, Role
  <2>3. raw \in Seq(Entry)
    BY <1>5, <2>2, AppendProperties
  <2>4. jobs' = [jobs EXCEPT ![i] = j]
    BY <2>1, Zenon
  <2> HIDE DEF e, raw
  <2>5. /\ j \in Job /\ j.msg = jobs[i].msg /\ j.pc = "save" /\ j.raw = raw
        /\ j.iteration = jobs[i].iteration /\ j.prefix = jobs[i].prefix
        /\ j.from = jobs[i].from /\ j.aborted = jobs[i].aborted
    BY <1>1, <2>3 DEF Job, Inside
  <2> HIDE DEF j
  <2>6. Rewrites(i) /\ jobs'[i] = j
    BY <2>4, <2>5, JobWrite
  <2>7. \E d \in Entry : d.role = "assistant" /\ jobs'[i].raw = Append(turn, d)
    BY <2>2, <2>5, <2>6 DEF raw
  <2> QED BY <1>2, <1>3, <2>5, <2>6, <2>7 DEF turn, SameRun
<1> QED BY <1>6, <1>7

\* The list is written and the run is numbered.
LEMMA SaveEffect ==
  ASSUME TypeOK, NEW i \in DOMAIN jobs, Save(i)
  PROVE  /\ Rewrites(i) /\ SameRun(i) /\ at(i) = "save" /\ ~jobs[i].aborted
         /\ jobs'[i].pc = "send" /\ jobs'[i].iteration = jobs[i].iteration
         /\ jobs'[i].raw = jobs[i].raw
         /\ history' \in [Accounts -> Seq(Entry)] /\ Current' = jobs[i].prefix \o jobs[i].raw
         /\ runs' = runs \cup {[msg |-> jobs[i].msg, from |-> jobs[i].from,
                                at |-> Cardinality(runs) + 1]}
         /\ UNCHANGED <<marks, http, delivered, notes, faults, expiries>>
<1> DEFINE j == [jobs[i] EXCEPT !.pc = "send"]
<1>1. jobs[i] \in Job /\ jobs[i].raw \in Seq(Entry) /\ jobs[i].prefix \in Seq(Entry)
  BY JobHas DEF Job
<1>2. /\ at(i) = "save" /\ ~jobs[i].aborted /\ jobs' = [jobs EXCEPT ![i] = j]
      /\ runs' = runs \cup {[msg |-> jobs[i].msg, from |-> jobs[i].from,
                             at |-> Cardinality(runs) + 1]}
      /\ history' = [history EXCEPT !["chatnexo id"] = jobs[i].prefix \o jobs[i].raw]
      /\ UNCHANGED <<marks, http, delivered, notes, faults, expiries>>
  BY DEF Save, thread_id, request
<1>3. /\ j \in Job /\ j.msg = jobs[i].msg /\ j.pc = "send" /\ j.raw = jobs[i].raw
      /\ j.iteration = jobs[i].iteration /\ j.prefix = jobs[i].prefix
      /\ j.from = jobs[i].from /\ j.aborted = jobs[i].aborted
  BY <1>1 DEF Job
<1> HIDE DEF j
<1>4. Rewrites(i) /\ jobs'[i] = j
  BY <1>2, <1>3, JobWrite
<1>5. jobs[i].prefix \o jobs[i].raw \in Seq(Entry)
  BY <1>1, ConcatProperties
<1>6. history' \in [Accounts -> Seq(Entry)] /\ Current' = jobs[i].prefix \o jobs[i].raw
  BY <1>2, <1>5 DEF TypeOK, Accounts, Current
<1> QED BY <1>2, <1>3, <1>4, <1>6 DEF SameRun

\* A job that raised is queued anew, or dead as it was.
LEMMA VerdictIs ==
  ASSUME TypeOK, NEW i \in DOMAIN jobs
  PROVE  /\ Verdict(i) \in Job /\ Verdict(i).msg = jobs[i].msg
         /\ \/ Verdict(i).pc = "queued" /\ Verdict(i).iteration = 0 /\ ~Verdict(i).aborted
            \/ /\ Verdict(i).pc = "dead" /\ Verdict(i).iteration = jobs[i].iteration
               /\ Verdict(i).prefix = jobs[i].prefix /\ Verdict(i).raw = jobs[i].raw
<1>1. jobs[i] \in Job /\ jobs[i].msg \in Messages /\ jobs[i].attempt \in 1..MaxRetries
  BY JobHas DEF Job
<1>2. CASE jobs[i].attempt < MaxRetries
  <2>1. jobs[i].attempt + 1 \in 1..MaxRetries
    BY <1>1, <1>2, BoundsAssumption
  <2> DEFINE new == NewJob(jobs[i].msg)
             j == [new EXCEPT !.attempt = jobs[i].attempt + 1]
  <2>2. j \in Job
    BY <1>1, <2>1, NewJobIs
  <2>3. j.msg = jobs[i].msg /\ j.pc = "queued" /\ j.iteration = 0 /\ ~j.aborted
    BY DEF NewJob
  <2>4. Verdict(i) = j
    BY <1>2 DEF Verdict
  <2> HIDE DEF j
  <2> QED BY <2>2, <2>3, <2>4
<1>3. CASE ~(jobs[i].attempt < MaxRetries)
  <2> DEFINE j == [jobs[i] EXCEPT !.pc = "dead"]
  <2>1. /\ j \in Job /\ j.msg = jobs[i].msg /\ j.pc = "dead" /\ j.iteration = jobs[i].iteration
        /\ j.prefix = jobs[i].prefix /\ j.raw = jobs[i].raw
    BY <1>1 DEF Job
  <2>2. Verdict(i) = j
    BY <1>3 DEF Verdict
  <2> HIDE DEF j
  <2> QED BY <2>1, <2>2
<1> QED BY <1>2, <1>3

Judged(i) ==
  /\ Rewrites(i)
  /\ \/ jobs'[i].pc = "queued" /\ jobs'[i].iteration = 0 /\ ~jobs'[i].aborted
     \/ /\ jobs'[i].pc = "dead" /\ jobs'[i].iteration = jobs[i].iteration
        /\ jobs'[i].prefix = jobs[i].prefix /\ jobs'[i].raw = jobs[i].raw

\* A run raises because the API or the database refuses, or by a fault.
LEMMA RaisesEffect ==
  ASSUME TypeOK, NEW i \in DOMAIN jobs, Raises(i)
  PROVE  /\ Judged(i) /\ Open(i)
         /\ \/ /\ \/ at(i) = "think" /\ ~Accepted(jobs[i].raw)
                  \/ at(i) = "save" /\ jobs[i].aborted
               /\ UNCHANGED faults
            \/ Fault
         /\ UNCHANGED <<marks, http, history, runs, delivered, notes, expiries>>
<1>1. jobs' = [jobs EXCEPT ![i] = Verdict(i)]
  BY DEF Raises
<1>2. Rewrites(i) /\ jobs'[i] = Verdict(i)
  BY <1>1, VerdictIs, JobWrite
<1> QED BY <1>2, VerdictIs DEF Judged, Raises, Open, request, agentState

\* What the contact has, after n more copies of a job's part.
LEMMA DeliveredIs ==
  ASSUME TypeOK, NEW i \in DOMAIN jobs, NEW n \in Nat,
         delivered' = [delivered EXCEPT ![jobs[i].msg][jobs[i].part] = @ + n]
  PROVE  /\ delivered' \in [Messages -> [1..Parts -> Nat]]
         /\ \A m \in Messages, p \in 1..Parts :
              delivered'[m][p] = IF m = jobs[i].msg /\ p = jobs[i].part THEN delivered[m][p] + n
                                 ELSE delivered[m][p]
<1>1. jobs[i].msg \in Messages /\ jobs[i].part \in 1..Parts
  BY JobHas DEF Job
<1>2. delivered[jobs[i].msg] \in [1..Parts -> Nat]
  BY <1>1 DEF TypeOK
<1>3. delivered[jobs[i].msg][jobs[i].part] + n \in Nat
  <2>1. delivered[jobs[i].msg][jobs[i].part] \in Nat
    BY <1>1, <1>2
  <2> QED BY <2>1
<1>4. delivered' = [delivered EXCEPT ![jobs[i].msg] =
        [delivered[jobs[i].msg] EXCEPT ![jobs[i].part] = delivered[jobs[i].msg][jobs[i].part] + n]]
  OBVIOUS
<1>5. [delivered[jobs[i].msg] EXCEPT ![jobs[i].part] = delivered[jobs[i].msg][jobs[i].part] + n]
        \in [1..Parts -> Nat]
  BY <1>2, <1>3
<1>6. delivered' \in [Messages -> [1..Parts -> Nat]]
  BY <1>1, <1>4, <1>5 DEF TypeOK
<1>7. ASSUME NEW m \in Messages, NEW p \in 1..Parts
      PROVE  delivered'[m][p] = IF m = jobs[i].msg /\ p = jobs[i].part THEN delivered[m][p] + n
                                 ELSE delivered[m][p]
  <2>1. delivered'[m] = IF m = jobs[i].msg
            THEN [delivered[jobs[i].msg] EXCEPT ![jobs[i].part] = delivered[jobs[i].msg][jobs[i].part] + n]
            ELSE delivered[m]
    BY <1>1, <1>4 DEF TypeOK
  <2>2. PICK f, q, x : f = delivered[jobs[i].msg] /\ q = jobs[i].part /\ x = f[q] + n
    OBVIOUS
  <2>3. f \in [1..Parts -> Nat] /\ q \in 1..Parts
    BY <1>1, <1>2, <2>2
  <2>4. [f EXCEPT ![q] = x][p] = IF p = q THEN x ELSE f[p]
    BY <2>3
  <2>5. CASE m = jobs[i].msg
    BY <2>1, <2>2, <2>4, <2>5
  <2>6. CASE m # jobs[i].msg
    BY <2>1, <2>6
  <2> QED BY <2>5, <2>6
<1> QED BY <1>6, <1>7

\* One part less to send.
LEMMA SentIs ==
  ASSUME NEW j \in Job
  PROVE  /\ Sent(j) \in Job /\ Sent(j).msg = j.msg
         /\ j.part < Parts => /\ Sent(j).part = j.part + 1 /\ Sent(j).pc = j.pc
         /\ ~(j.part < Parts) => Sent(j).pc = "done"
<1>1. CASE j.part < Parts
  <2>1. j.part + 1 \in 1..Parts
    BY <1>1, BoundsAssumption DEF Job
  <2>2. Sent(j) = [j EXCEPT !.part = j.part + 1]
    BY <1>1 DEF Sent
  <2> QED BY <1>1, <2>1, <2>2 DEF Job
<1>2. CASE ~(j.part < Parts)
  <2> DEFINE new == NewJob(j.msg)
             d == [new EXCEPT !.pc = "done", !.attempt = j.attempt]
  <2>1. Sent(j) = d
    BY <1>2 DEF Sent
  <2>2. j.msg \in Messages /\ j.attempt \in 1..MaxRetries
    BY DEF Job
  <2>3. d \in Job
    BY <2>2, NewJobIs
  <2>4. d.pc = "done" /\ d.msg = j.msg
    BY DEF NewJob
  <2> HIDE DEF d
  <2> QED BY <1>2, <2>1, <2>3, <2>4
<1> QED BY <1>1, <1>2

\* A part arrives, once, or twice by a fault.
LEMMA SendPartEffect ==
  ASSUME TypeOK, NEW i \in DOMAIN jobs, SendPart(i)
  PROVE  /\ Rewrites(i) /\ at(i) = "send"
         /\ \/ jobs'[i].pc = "send" /\ jobs'[i].part = jobs[i].part + 1
            \/ jobs'[i].pc = "done" /\ jobs[i].part = Parts
         /\ \E n \in 1..2 :
              /\ delivered' = [delivered EXCEPT ![jobs[i].msg][jobs[i].part] = @ + n]
              /\ (n = 1 /\ UNCHANGED faults) \/ (n = 2 /\ Fault)
         /\ UNCHANGED <<marks, http, history, runs, notes, expiries>>
<1>1. /\ at(i) = "send" /\ jobs' = [jobs EXCEPT ![i] = Sent(jobs[i])]
      /\ UNCHANGED <<marks, http, history, runs, notes, expiries>>
  BY DEF SendPart, request
<1>2. jobs[i] \in Job /\ jobs[i].part \in 1..Parts
  BY JobHas DEF Job
<1>3. Rewrites(i) /\ jobs'[i] = Sent(jobs[i])
  BY <1>1, <1>2, SentIs, JobWrite
<1>4. \E n \in 1..2 :
        /\ delivered' = [delivered EXCEPT ![jobs[i].msg][jobs[i].part] = @ + n]
        /\ (n = 1 /\ UNCHANGED faults) \/ (n = 2 /\ Fault)
  <2>1. CASE /\ delivered' = [delivered EXCEPT ![jobs[i].msg][jobs[i].part] = @ + 1]
             /\ UNCHANGED faults
    BY <2>1
  <2>2. CASE /\ delivered' = [delivered EXCEPT ![jobs[i].msg][jobs[i].part] = @ + 2]
             /\ Fault
    BY <2>2
  <2> QED BY <2>1, <2>2 DEF SendPart
<1>5. ~(jobs[i].part < Parts) => jobs[i].part = Parts
  BY <1>2, BoundsAssumption
<1> QED BY <1>1, <1>2, <1>3, <1>4, <1>5, SentIs DEF at

\* The last try of a part fails.
LEMMA SendRaisesEffect ==
  ASSUME TypeOK, NEW i \in DOMAIN jobs, SendRaises(i)
  PROVE  /\ Judged(i) /\ at(i) = "send" /\ Fault
         /\ \E n \in 0..1 : delivered' = [delivered EXCEPT ![jobs[i].msg][jobs[i].part] = @ + n]
         /\ UNCHANGED <<marks, http, history, runs, notes, expiries>>
<1>1. jobs' = [jobs EXCEPT ![i] = Verdict(i)]
  BY DEF SendRaises
<1>2. Rewrites(i) /\ jobs'[i] = Verdict(i)
  BY <1>1, VerdictIs, JobWrite
<1>3. Judged(i)
  BY <1>2, VerdictIs DEF Judged
<1> QED BY <1>3, Zenon DEF SendRaises, request

\* A search aborts the transaction.
LEMMA AbortEffect ==
  ASSUME TypeOK, NEW i \in DOMAIN jobs, SearchAborts(i)
  PROVE  /\ Rewrites(i) /\ at(i) = "act" /\ Fault
         /\ jobs'[i].pc = "act" /\ jobs'[i].iteration = jobs[i].iteration
         /\ jobs'[i].raw = jobs[i].raw /\ jobs'[i].prefix = jobs[i].prefix
         /\ jobs'[i].from = jobs[i].from
         /\ UNCHANGED <<marks, http, history, runs, delivered, notes, expiries>>
<1> DEFINE j == [jobs[i] EXCEPT !.aborted = TRUE]
<1>1. jobs[i] \in Job
  BY JobHas
<1>2. /\ at(i) = "act" /\ jobs' = [jobs EXCEPT ![i] = j] /\ Fault
      /\ UNCHANGED <<marks, http, history, runs, delivered, notes, expiries>>
  BY DEF SearchAborts, request, agentState
<1>3. /\ j \in Job /\ j.msg = jobs[i].msg /\ j.pc = jobs[i].pc /\ j.raw = jobs[i].raw
      /\ j.iteration = jobs[i].iteration /\ j.prefix = jobs[i].prefix /\ j.from = jobs[i].from
  BY <1>1 DEF Job
<1> HIDE DEF j
<1>4. Rewrites(i) /\ jobs'[i] = j
  BY <1>2, <1>3, JobWrite
<1> QED BY <1>2, <1>3, <1>4 DEF at

\* The jobs in the worker's hands are lost, the others stay.
LEMMA DiesEffect ==
  ASSUME TypeOK, WorkerDies
  PROVE  /\ jobs' \in Seq(Job) /\ Len(jobs') = Len(jobs) /\ DOMAIN jobs' = DOMAIN jobs
         /\ \A i \in DOMAIN jobs :
              /\ jobs'[i].msg = jobs[i].msg
              /\ jobs'[i] = jobs[i] \/ jobs'[i].pc = "lost"
         /\ Fault /\ UNCHANGED <<marks, http, history, runs, delivered, notes, expiries>>
<1>1. /\ DOMAIN jobs = 1..Len(jobs) /\ Len(jobs) \in Nat
      /\ \A i \in DOMAIN jobs : jobs[i] \in Job
  BY JobHas
<1>2. /\ jobs' = [i \in DOMAIN jobs |-> IF at(i) \in Inside \cup {"send"}
                    THEN [NewJob(jobs[i].msg) EXCEPT !.pc = "lost"] ELSE jobs[i]]
      /\ Fault /\ UNCHANGED <<marks, http, history, runs, delivered, notes, expiries>>
  BY DEF WorkerDies, request, agentState
<1>3. ASSUME NEW i \in DOMAIN jobs
      PROVE  /\ jobs'[i] \in Job /\ jobs'[i].msg = jobs[i].msg
             /\ jobs'[i] = jobs[i] \/ jobs'[i].pc = "lost"
  <2> DEFINE lost == [NewJob(jobs[i].msg) EXCEPT !.pc = "lost"]
  <2>1. jobs'[i] = IF at(i) \in Inside \cup {"send"} THEN lost ELSE jobs[i]
    BY <1>2
  <2>2. jobs[i] \in Job /\ jobs[i].msg \in Messages /\ 1 \in 1..MaxRetries
    BY <1>1, BoundsAssumption DEF Job
  <2>3. lost \in Job
    BY <2>2, NewJobIs
  <2>4. lost.pc = "lost" /\ lost.msg = jobs[i].msg
    BY DEF NewJob
  <2> HIDE DEF lost
  <2> QED BY <2>1, <2>2, <2>3, <2>4
<1>4. DOMAIN jobs' = 1..Len(jobs) /\ jobs' \in [1..Len(jobs) -> Job]
  BY <1>1, <1>2, <1>3
<1>5. jobs' \in Seq(Job)
  BY <1>1, <1>4, SeqDef
<1>6. Len(jobs') = Len(jobs)
  BY <1>1, <1>4, <1>5, LenProperties
<1> QED BY <1>1, <1>2, <1>3, <1>4, <1>5, <1>6

\* A request's job is the last of the list.
LEMMA EnqueueEffect ==
  ASSUME TypeOK, Stages, NEW r \in Requests, Enqueue(r)
  PROVE  /\ http[r].pc = "marked" /\ http[r].msg \in Messages
         /\ jobs' \in Seq(Job) /\ Len(jobs') = Len(jobs) + 1 /\ Len(jobs') <= MaxJobs
         /\ DOMAIN jobs' = DOMAIN jobs \cup {Len(jobs) + 1} /\ Len(jobs) + 1 \notin DOMAIN jobs
         /\ \A k \in DOMAIN jobs : jobs'[k] = jobs[k]
         /\ jobs'[Len(jobs) + 1].msg = http[r].msg /\ jobs'[Len(jobs) + 1].pc = "queued"
         /\ jobs'[Len(jobs) + 1].iteration = 0 /\ ~jobs'[Len(jobs) + 1].aborted
         /\ \/ http' = [http EXCEPT ![r].pc = "accepted"] /\ UNCHANGED faults
            \/ http' = [http EXCEPT ![r].pc = "failed"] /\ Fault
         /\ UNCHANGED <<marks, history, runs, delivered, notes, expiries>>
<1> DEFINE new == NewJob(http[r].msg)
<1>1. /\ http[r].pc = "marked" /\ Len(jobs) < MaxJobs /\ jobs' = Append(jobs, new)
      /\ \/ http' = [http EXCEPT ![r].pc = "accepted"] /\ UNCHANGED faults
         \/ http' = [http EXCEPT ![r].pc = "failed"] /\ Fault
      /\ UNCHANGED <<marks, history, runs, delivered, notes, expiries>>
  BY DEF Enqueue, agentState
<1>2. http[r].msg \in Messages /\ 1 \in 1..MaxRetries /\ MaxJobs \in Nat
  BY <1>1, BoundsAssumption DEF Stages
<1>3. new \in Job
  BY <1>2, NewJobIs
<1>4. new.msg = http[r].msg /\ new.pc = "queued" /\ new.iteration = 0 /\ ~new.aborted
  BY DEF NewJob
<1> HIDE DEF new
<1>5. jobs \in Seq(Job) /\ DOMAIN jobs = 1..Len(jobs) /\ Len(jobs) \in Nat
  BY JobHas DEF TypeOK
<1>6. /\ jobs' \in Seq(Job) /\ Len(jobs') = Len(jobs) + 1
      /\ \A k \in 1..Len(jobs) : jobs'[k] = jobs[k]
      /\ jobs'[Len(jobs) + 1] = new
  BY <1>1, <1>3, <1>5, AppendProperties
<1>7. DOMAIN jobs' = 1..(Len(jobs) + 1)
  BY <1>6, LenProperties
<1>8. DOMAIN jobs' = DOMAIN jobs \cup {Len(jobs) + 1} /\ Len(jobs) + 1 \notin DOMAIN jobs
  BY <1>5, <1>7
<1>9. Len(jobs') <= MaxJobs
  BY <1>1, <1>2, <1>5, <1>6
<1> QED BY <1>1, <1>2, <1>4, <1>5, <1>6, <1>8, <1>9

-----------------------------------------------------------------------------
(* What a step may do, seen from one place *)

\* No job, no committed run and no part of an answer is touched.
Quiet == UNCHANGED <<jobs, runs, delivered>> /\ Current' = Current

\* A fault is counted.
LEMMA FaultIs ==
  ASSUME TypeOK, Fault \/ UNCHANGED faults
  PROVE  faults \in Nat /\ faults' \in 0..MaxFaults /\ faults' >= faults /\ faults' \in Nat
         /\ (Fault => faults' = faults + 1)
BY BoundsAssumption DEF TypeOK, Fault

\* The steps of the webhook, of the key's clock and of onboarding.
LEMMA QuietEffect ==
  ASSUME TypeOK,
         \/ \E r \in Requests : (\E m \in Messages : Receive(r, m)) \/ RequestFails(r)
         \/ \E m \in Messages : KeyExpires(m)
         \/ OnboardingSent
         \/ UNCHANGED vars
  PROVE  /\ Quiet /\ (Fault \/ UNCHANGED faults)
         /\ marks' \subseteq Messages
         /\ http' \in [Requests -> [msg : Messages \cup {None},
                                    pc : {"idle", "marked", "accepted", "duplicate", "failed"}]]
         /\ history' \in [Accounts -> Seq(Entry)]
         /\ notes' \in 0..MaxNotes /\ expiries' \in 0..MaxExpiries
<1>1. ASSUME NEW r \in Requests, NEW m \in Messages, Receive(r, m)
      PROVE  /\ UNCHANGED <<jobs, history, runs, delivered, notes, faults, expiries>>
             /\ marks' \subseteq Messages
             /\ http' \in [Requests -> [msg : Messages \cup {None},
                                        pc : {"idle", "marked", "accepted", "duplicate", "failed"}]]
  BY <1>1 DEF TypeOK, Receive, agentState
<1>2. ASSUME NEW r \in Requests, RequestFails(r)
      PROVE  /\ UNCHANGED <<marks, jobs, history, runs, delivered, notes, expiries>> /\ Fault
             /\ http' \in [Requests -> [msg : Messages \cup {None},
                                        pc : {"idle", "marked", "accepted", "duplicate", "failed"}]]
  BY <1>2 DEF TypeOK, RequestFails, agentState
<1>3. ASSUME NEW m \in Messages, KeyExpires(m)
      PROVE  /\ UNCHANGED <<http, jobs, history, runs, delivered, notes, faults>>
             /\ marks' \subseteq Messages /\ expiries' \in 0..MaxExpiries
  BY <1>3, BoundsAssumption DEF TypeOK, KeyExpires, agentState
<1>4. ASSUME OnboardingSent
      PROVE  /\ UNCHANGED <<marks, http, jobs, runs, delivered, faults, expiries>>
             /\ Current' = Current /\ notes' \in 0..MaxNotes
             /\ history' \in [Accounts -> Seq(Entry)]
  <2> DEFINE e == [role |-> "assistant", msg |-> None, text |-> "note", calls |-> {}]
             list == Append(history["tenant uuid"], e)
  <2>1. /\ UNCHANGED <<marks, http, jobs, runs, delivered, faults, expiries>>
        /\ notes < MaxNotes /\ notes' = notes + 1
        /\ history' = [history EXCEPT !["tenant uuid"] = list]
    BY <1>4 DEF OnboardingSent, thread_id, request
  <2>2. e \in Entry /\ history["tenant uuid"] \in Seq(Entry)
    BY DEF TypeOK, Accounts, Entry, Role
  <2>3. list \in Seq(Entry)
    BY <2>2, AppendProperties
  <2> HIDE DEF list
  <2>4. history' \in [Accounts -> Seq(Entry)] /\ history'["chatnexo id"] = history["chatnexo id"]
    BY <2>1, <2>3 DEF TypeOK, Accounts
  <2>5. notes' \in 0..MaxNotes
    <3>1. MaxNotes \in Nat /\ notes \in 0..MaxNotes
      BY BoundsAssumption DEF TypeOK
    <3>2. notes < MaxNotes /\ notes' = notes + 1
      BY <2>1
    <3> QED BY ONLY <3>1, <3>2
  <2> QED BY <2>1, <2>4, <2>5 DEF Current
<1>5. CASE \E r \in Requests : \E m \in Messages : Receive(r, m)
  BY <1>1, <1>5 DEF Quiet, Current, TypeOK
<1>6. CASE \E r \in Requests : RequestFails(r)
  BY <1>2, <1>6 DEF Quiet, Current, TypeOK
<1>7. CASE \E m \in Messages : KeyExpires(m)
  BY <1>3, <1>7 DEF Quiet, Current, TypeOK
<1>8. CASE OnboardingSent
  BY <1>4, <1>8 DEF Quiet, TypeOK
<1>9. CASE UNCHANGED vars
  BY <1>9 DEF Quiet, Current, TypeOK, vars
<1> QED BY <1>5, <1>6, <1>7, <1>8, <1>9

\* A step is quiet, or brings a job, or kills the worker, or works on one job.
LEMMA StepCases ==
  ASSUME [Next]_vars
  PROVE  \/ \/ \E r \in Requests : (\E m \in Messages : Receive(r, m)) \/ RequestFails(r)
            \/ \E m \in Messages : KeyExpires(m)
            \/ OnboardingSent
            \/ UNCHANGED vars
         \/ \E r \in Requests : Enqueue(r)
         \/ WorkerDies
         \/ \E i \in DOMAIN jobs : \/ Begin(i) \/ Think(i) \/ Act(i) \/ Save(i) \/ SearchAborts(i)
                                   \/ Raises(i) \/ SendPart(i) \/ SendRaises(i)
BY DEF Next, Run

\* The types of all but the jobs.
LEMMA TypesStep ==
  ASSUME TypeOK, Stages, IsFiniteSet(runs), [Next]_vars
  PROVE  TypeOK'
<1>0. TypeOK /\ Len(jobs) <= MaxJobs
  BY DEF TypeOK
<1>1. CASE \/ \E r \in Requests : (\E m \in Messages : Receive(r, m)) \/ RequestFails(r)
           \/ \E m \in Messages : KeyExpires(m)
           \/ OnboardingSent
           \/ UNCHANGED vars
  BY <1>1, QuietEffect, FaultIs DEF Quiet, TypeOK
<1>2. CASE \E r \in Requests : Enqueue(r)
  <2>1. PICK r \in Requests : Enqueue(r)
    BY <1>2
  <2>2. /\ jobs' \in Seq(Job) /\ Len(jobs') <= MaxJobs /\ (Fault \/ UNCHANGED faults)
        /\ \/ http' = [http EXCEPT ![r].pc = "accepted"]
           \/ http' = [http EXCEPT ![r].pc = "failed"]
        /\ UNCHANGED <<marks, history, runs, delivered, notes, expiries>>
    BY <2>1, EnqueueEffect
  <2>3. http' \in [Requests -> [msg : Messages \cup {None},
                                pc : {"idle", "marked", "accepted", "duplicate", "failed"}]]
    BY <2>2 DEF TypeOK
  <2> QED BY <2>2, <2>3, FaultIs DEF TypeOK
<1>3. CASE WorkerDies
  <2>1. /\ jobs' \in Seq(Job) /\ Len(jobs') <= MaxJobs /\ Fault
        /\ UNCHANGED <<marks, http, history, runs, delivered, notes, expiries>>
    BY <1>0, <1>3, DiesEffect
  <2> QED BY <2>1, FaultIs DEF TypeOK
<1>4. ASSUME NEW i \in DOMAIN jobs, Begin(i) \/ Think(i) \/ Act(i) \/ SearchAborts(i) \/ Raises(i)
      PROVE  TypeOK'
  <2>1. Rewrites(i) /\ (Fault \/ UNCHANGED faults)
        /\ UNCHANGED <<marks, http, history, runs, delivered, notes, expiries>>
    BY <1>4, BeginEffect, ThinkEffect, ActEffect, AbortEffect, RaisesEffect DEF Judged
  <2>2. jobs' \in Seq(Job) /\ Len(jobs') <= MaxJobs
    BY <1>0, <2>1 DEF Rewrites
  <2> QED BY <2>1, <2>2, FaultIs DEF TypeOK
<1>5. ASSUME NEW i \in DOMAIN jobs, Save(i)
      PROVE  TypeOK'
  <2>1. /\ Rewrites(i) /\ history' \in [Accounts -> Seq(Entry)]
        /\ runs' = runs \cup {[msg |-> jobs[i].msg, from |-> jobs[i].from,
                               at |-> Cardinality(runs) + 1]}
        /\ UNCHANGED <<marks, http, delivered, notes, faults, expiries>>
    BY <1>5, SaveEffect
  <2>2. jobs' \in Seq(Job) /\ Len(jobs') <= MaxJobs
    BY <1>0, <2>1 DEF Rewrites
  <2>3. jobs[i].msg \in Messages /\ jobs[i].from \in Nat /\ Cardinality(runs) + 1 \in Nat \ {0}
    BY JobHas, FS_CardinalityType DEF Job
  <2>4. runs' \subseteq [msg : Messages, from : Nat, at : Nat \ {0}]
    BY <2>1, <2>3 DEF TypeOK
  <2> QED BY <2>1, <2>2, <2>4 DEF TypeOK
<1>6. ASSUME NEW i \in DOMAIN jobs, SendPart(i) \/ SendRaises(i)
      PROVE  TypeOK'
  <2>1. /\ Rewrites(i) /\ (Fault \/ UNCHANGED faults)
        /\ \E n \in Nat : delivered' = [delivered EXCEPT ![jobs[i].msg][jobs[i].part] = @ + n]
        /\ UNCHANGED <<marks, http, history, runs, notes, expiries>>
    <3>1. CASE SendPart(i)
      <4>1. PICK n \in 1..2 : /\ delivered' = [delivered EXCEPT ![jobs[i].msg][jobs[i].part] = @ + n]
                              /\ (n = 1 /\ UNCHANGED faults) \/ (n = 2 /\ Fault)
        BY <3>1, SendPartEffect
      <4>2. n \in Nat
        OBVIOUS
      <4> QED BY <3>1, <4>1, <4>2, SendPartEffect
    <3>2. CASE SendRaises(i)
      <4>1. PICK n \in 0..1 : delivered' = [delivered EXCEPT ![jobs[i].msg][jobs[i].part] = @ + n]
        BY <3>2, SendRaisesEffect
      <4>2. n \in Nat
        OBVIOUS
      <4> QED BY <3>2, <4>1, <4>2, SendRaisesEffect DEF Judged
    <3> QED BY <1>6, <3>1, <3>2
  <2>2. delivered' \in [Messages -> [1..Parts -> Nat]]
    BY <2>1, DeliveredIs
  <2>3. jobs' \in Seq(Job) /\ Len(jobs') <= MaxJobs
    BY <1>0, <2>1 DEF Rewrites
  <2> QED BY <2>1, <2>2, <2>3, FaultIs DEF TypeOK
<1> QED BY <1>1, <1>2, <1>3, <1>4, <1>5, <1>6, StepCases

\* What may have become of a job in a step.
Fate(k) ==
  \/ k \in DOMAIN jobs /\ jobs'[k] = jobs[k]
  \/ jobs'[k].pc = "queued" /\ jobs'[k].iteration = 0 /\ ~jobs'[k].aborted
  \/ jobs'[k].pc \in {"lost", "done"}
  \/ k \in DOMAIN jobs /\ (Begin(k) \/ Think(k) \/ Act(k) \/ Save(k) \/ SearchAborts(k))
  \/ k \in DOMAIN jobs /\ at(k) = "send" /\ jobs'[k].pc = "send" /\ jobs'[k].msg = jobs[k].msg
  \/ k \in DOMAIN jobs /\ jobs'[k].pc = "dead" /\ (Raises(k) \/ SendRaises(k)) /\ Judged(k)

\* A job is new, as it was, lost, or its own action's.
LEMMA FateIs ==
  ASSUME TypeOK, Stages, IsFiniteSet(runs), [Next]_vars, NEW k \in DOMAIN jobs'
  PROVE  Fate(k)
<1>1. CASE Quiet
  BY <1>1 DEF Quiet, Fate
<1>2. CASE \E r \in Requests : Enqueue(r)
  BY <1>2, EnqueueEffect DEF Fate
<1>3. CASE WorkerDies
  BY <1>3, DiesEffect DEF Fate
<1>4. ASSUME NEW i \in DOMAIN jobs, Begin(i) \/ Think(i) \/ Act(i) \/ Save(i) \/ SearchAborts(i)
      PROVE  Fate(k)
  <2>1. Rewrites(i)
    BY <1>4, BeginEffect, ThinkEffect, ActEffect, SaveEffect, AbortEffect
  <2> QED BY <1>4, <2>1 DEF Rewrites, Fate
<1>5. ASSUME NEW i \in DOMAIN jobs, Raises(i) \/ SendRaises(i)
      PROVE  Fate(k)
  <2>1. Judged(i)
    BY <1>5, RaisesEffect, SendRaisesEffect
  <2> QED BY <1>5, <2>1 DEF Judged, Rewrites, Fate
<1>6. ASSUME NEW i \in DOMAIN jobs, SendPart(i)
      PROVE  Fate(k)
  <2>1. /\ Rewrites(i) /\ at(i) = "send"
        /\ jobs'[i].pc = "send" \/ jobs'[i].pc = "done"
    BY <1>6, SendPartEffect
  <2> QED BY <2>1 DEF Rewrites, Fate
<1> QED BY <1>1, <1>2, <1>3, <1>4, <1>5, <1>6, StepCases, QuietEffect

\* Runs are only added, one at a time and with the next number, and faults only counted.
LEMMA Grows ==
  ASSUME TypeOK, Stages, Numbered, [Next]_vars
  PROVE  /\ runs \subseteq runs' /\ IsFiniteSet(runs')
         /\ Cardinality(runs) \in Nat /\ Cardinality(runs') \in Nat
         /\ Cardinality(runs) <= Cardinality(runs')
         /\ \A r \in runs' \ runs : r.at = Cardinality(runs) + 1 /\ r.at = Cardinality(runs')
         /\ faults \in Nat /\ faults' \in Nat /\ faults' >= faults
         /\ \/ UNCHANGED runs /\ Current' = Current
            \/ \E i \in DOMAIN jobs : Save(i)
<1>1. IsFiniteSet(runs) /\ Cardinality(runs) \in Nat
  BY FS_CardinalityType DEF Numbered
<1>2. /\ faults \in Nat /\ faults' \in Nat /\ faults' >= faults
      /\ (runs' = runs \/ \E i \in DOMAIN jobs : Save(i))
      /\ ((UNCHANGED runs /\ Current' = Current) \/ \E i \in DOMAIN jobs : Save(i))
  <2>1. CASE \/ \E r \in Requests : (\E m \in Messages : Receive(r, m)) \/ RequestFails(r)
             \/ \E m \in Messages : KeyExpires(m)
             \/ OnboardingSent
             \/ UNCHANGED vars
    BY <2>1, QuietEffect, FaultIs DEF Quiet
  <2>2. CASE \E r \in Requests : Enqueue(r)
    BY <2>2, EnqueueEffect, FaultIs DEF Current
  <2>3. CASE WorkerDies
    BY <2>3, DiesEffect, FaultIs DEF Current
  <2>4. ASSUME NEW i \in DOMAIN jobs,
               Begin(i) \/ Think(i) \/ Act(i) \/ SearchAborts(i) \/ Raises(i) \/ SendRaises(i)
        PROVE  (Fault \/ UNCHANGED faults) /\ runs' = runs /\ Current' = Current
    BY <1>1, <2>4, BeginEffect, ThinkEffect, ActEffect, AbortEffect, RaisesEffect,
       SendRaisesEffect DEF Current
  <2>5. ASSUME NEW i \in DOMAIN jobs, SendPart(i)
        PROVE  (Fault \/ UNCHANGED faults) /\ runs' = runs /\ Current' = Current
    BY <2>5, SendPartEffect DEF Current
  <2>6. ASSUME NEW i \in DOMAIN jobs, Save(i)
        PROVE  UNCHANGED faults
    BY <2>6, SaveEffect
  <2> QED BY <2>1, <2>2, <2>3, <2>4, <2>5, <2>6, FaultIs, StepCases
<1>3. CASE runs' = runs
  BY <1>1, <1>2, <1>3
<1>4. ASSUME NEW i \in DOMAIN jobs, Save(i)
      PROVE  /\ runs \subseteq runs' /\ IsFiniteSet(runs')
             /\ Cardinality(runs') = Cardinality(runs) + 1
             /\ \A r \in runs' \ runs : r.at = Cardinality(runs) + 1
  <2> DEFINE new == [msg |-> jobs[i].msg, from |-> jobs[i].from, at |-> Cardinality(runs) + 1]
  <2>1. runs' = runs \cup {new} /\ new.at = Cardinality(runs) + 1
    BY <1>4, SaveEffect
  <2> HIDE DEF new
  <2>2. new \notin runs
    BY <1>1, <2>1 DEF Numbered
  <2>3. IsFiniteSet(runs \cup {new}) /\ Cardinality(runs \cup {new}) = Cardinality(runs) + 1
    BY <1>1, <2>2, FS_AddElement
  <2> QED BY <2>1, <2>3
<1> QED BY <1>1, <1>2, <1>3, <1>4

\* The counters of requests and jobs are where the stages need them.
LEMMA StagesStep ==
  ASSUME TypeOK, Stages, Numbered, [Next]_vars
  PROVE  Stages'
<1>0. IsFiniteSet(runs)
  BY DEF Numbered
<1>1. ASSUME NEW r \in Requests, http'[r].pc # "idle" PROVE http'[r].msg \in Messages
  <2>0. \A q \in Requests : http[q].pc # "idle" => http[q].msg \in Messages
    BY DEF Stages
  <2>1. CASE \E q \in Requests, m \in Messages : Receive(q, m)
    BY <1>1, <2>0, <2>1 DEF Receive, TypeOK
  <2>2. CASE \E q \in Requests : RequestFails(q)
    <3>1. PICK q \in Requests : http[q].pc = "marked" /\ http' = [http EXCEPT ![q].pc = "failed"]
      BY <2>2 DEF RequestFails
    <3>2. http'[r].msg = http[r].msg /\ (http'[r].pc = http[r].pc \/ http[r].pc = "marked")
      BY <3>1 DEF TypeOK
    <3> QED BY <1>1, <2>0, <3>2
  <2>3. CASE \E q \in Requests : Enqueue(q)
    <3>1. PICK q \in Requests :
            /\ http[q].pc = "marked"
            /\ \/ http' = [http EXCEPT ![q].pc = "accepted"]
               \/ http' = [http EXCEPT ![q].pc = "failed"]
      BY <2>3 DEF Enqueue
    <3>2. http'[r].msg = http[r].msg /\ (http'[r].pc = http[r].pc \/ http[r].pc = "marked")
      BY <3>1 DEF TypeOK
    <3> QED BY <1>1, <2>0, <3>2
  <2>4. CASE http' = http
    BY <1>1, <2>0, <2>4
  <2>5. \A i \in DOMAIN jobs : \/ Begin(i) \/ Think(i) \/ Act(i) \/ Save(i) \/ SearchAborts(i)
                               \/ Raises(i) \/ SendPart(i) \/ SendRaises(i)
                            => http' = http
    BY DEF Begin, Think, Act, Save, SearchAborts, Raises, SendPart, SendRaises, request
  <2>6. WorkerDies \/ OnboardingSent \/ UNCHANGED vars \/ (\E m \in Messages : KeyExpires(m))
          => http' = http
    BY DEF WorkerDies, OnboardingSent, KeyExpires, vars, request
  <2> QED BY <2>1, <2>2, <2>3, <2>4, <2>5, <2>6, StepCases
<1>2. ASSUME NEW i \in DOMAIN jobs'
      PROVE  /\ jobs'[i].pc = "queued" => jobs'[i].iteration = 0 /\ ~jobs'[i].aborted
             /\ jobs'[i].pc = "think" => jobs'[i].iteration < MaxIterations
             /\ jobs'[i].pc = "act" => jobs'[i].raw # << >>
  <2>1. Fate(i)
    BY <1>0, FateIs
  <2>2. CASE i \in DOMAIN jobs /\ jobs'[i] = jobs[i]
    BY <2>2 DEF Stages, at
  <2>3. CASE i \in DOMAIN jobs /\ Begin(i)
    <3>1. jobs'[i].pc = "think" /\ jobs'[i].iteration = jobs[i].iteration /\ at(i) = "queued"
      BY <1>0, <2>3, BeginEffect
    <3>2. MaxIterations \in Nat /\ MaxIterations # 0
      BY BoundsAssumption
    <3> QED BY <2>3, <3>1, <3>2 DEF Stages
  <2>4. CASE i \in DOMAIN jobs /\ Think(i)
    <3>1. jobs'[i].pc \in {"act", "save"}
      BY <2>4, ThinkEffect
    <3>2. PICK e \in Entry : jobs'[i].raw = Append(jobs[i].raw, e)
      BY <2>4, ThinkEffect
    <3>3. jobs[i].raw \in Seq(Entry)
      BY <2>4, JobHas DEF Job
    <3>4. jobs'[i].raw # << >>
      BY <3>2, <3>3, AppendProperties
    <3> QED BY <3>1, <3>4
  <2>5. CASE i \in DOMAIN jobs /\ Act(i)
    BY <2>5, ActEffect
  <2>6. CASE i \in DOMAIN jobs /\ Save(i)
    BY <2>6, SaveEffect
  <2>7. CASE i \in DOMAIN jobs /\ SearchAborts(i)
    BY <2>7, AbortEffect DEF Stages
  <2> QED BY <2>1, <2>2, <2>3, <2>4, <2>5, <2>6, <2>7 DEF Fate
<1> QED BY <1>1, <1>2 DEF Stages, at

-----------------------------------------------------------------------------
(* What runs have loaded, hold and write back *)

\* A committed run takes the next number, and a run loads at the current one.
LEMMA NumberedStep ==
  ASSUME TypeOK, Stages, Numbered, [Next]_vars
  PROVE  Numbered'
<1>1. /\ runs \subseteq runs' /\ IsFiniteSet(runs) /\ IsFiniteSet(runs')
      /\ Cardinality(runs) \in Nat /\ Cardinality(runs') \in Nat
      /\ Cardinality(runs) <= Cardinality(runs')
      /\ \A r \in runs' \ runs : r.at = Cardinality(runs')
  BY Grows DEF Numbered
<1>2. ASSUME NEW r \in runs' PROVE r.at <= Cardinality(runs')
  <2>1. CASE r \in runs
    <3>1. r.at \in Nat /\ r.at <= Cardinality(runs)
      BY <2>1 DEF Numbered, TypeOK
    <3> QED BY <1>1, <3>1
  <2>2. CASE r \notin runs
    BY <1>1, <2>2
  <2> QED BY <2>1, <2>2
<1>3. ASSUME NEW i \in DOMAIN jobs', Open(i)' PROVE jobs'[i].from <= Cardinality(runs')
  <2>1. Fate(i)
    BY <1>1, FateIs
  <2>2. jobs'[i].pc \in Inside
    BY <1>3 DEF Open, at
  <2>3. \A k \in DOMAIN jobs : jobs[k].from \in Nat
    BY JobHas DEF Job
  <2>4. CASE i \in DOMAIN jobs /\ jobs'[i] = jobs[i]
    BY <1>1, <2>2, <2>3, <2>4 DEF Numbered, Open, at
  <2>5. CASE i \in DOMAIN jobs /\ Begin(i)
    BY <1>1, <2>5, BeginEffect
  <2>6. CASE i \in DOMAIN jobs /\ (Think(i) \/ Act(i) \/ SearchAborts(i))
    <3>1. jobs'[i].from = jobs[i].from /\ Open(i)
      BY <2>6, ThinkEffect, ActEffect, AbortEffect DEF SameRun, Open, Inside
    <3> QED BY <1>1, <2>3, <2>6, <3>1 DEF Numbered
  <2>7. CASE i \in DOMAIN jobs /\ Save(i)
    BY <2>2, <2>7, SaveEffect DEF Inside
  <2> QED BY <2>1, <2>2, <2>4, <2>5, <2>6, <2>7 DEF Fate, Inside
<1> QED BY <1>1, <1>2, <1>3 DEF Numbered

\* Only Save leads to sending, and a run that is committed stays so.
LEMMA CommittedStep ==
  ASSUME TypeOK, Stages, Numbered, Committed, [Next]_vars
  PROVE  Committed'
<1>1. runs \subseteq runs' /\ IsFiniteSet(runs)
  BY Grows DEF Numbered
<1> SUFFICES ASSUME NEW i \in DOMAIN jobs', at(i)' = "send"
             PROVE  \E r \in runs' : r.msg = jobs'[i].msg
  BY DEF Committed
<1>2. Fate(i) /\ jobs'[i].pc = "send"
  BY <1>1, FateIs DEF at
<1>3. CASE i \in DOMAIN jobs /\ at(i) = "send" /\ jobs'[i].msg = jobs[i].msg
  BY <1>1, <1>3 DEF Committed
<1>4. CASE i \in DOMAIN jobs /\ jobs'[i] = jobs[i]
  BY <1>2, <1>3, <1>4 DEF at
<1>5. CASE i \in DOMAIN jobs /\ Save(i)
  <2>1. jobs'[i].msg = jobs[i].msg
    BY <1>5, SaveEffect DEF Rewrites
  <2> DEFINE new == [msg |-> jobs[i].msg, from |-> jobs[i].from, at |-> Cardinality(runs) + 1]
  <2>2. new \in runs' /\ new.msg = jobs[i].msg
    BY <1>5, SaveEffect
  <2> QED BY <2>1, <2>2
<1>6. CASE i \in DOMAIN jobs /\ (Begin(i) \/ Think(i) \/ Act(i) \/ SearchAborts(i))
  BY <1>1, <1>2, <1>6, BeginEffect, ThinkEffect, ActEffect, AbortEffect
<1> QED BY <1>2, <1>3, <1>4, <1>5, <1>6 DEF Fate

\* What the contact has received was committed before it was sent.
LEMMA AnsweredStep ==
  ASSUME TypeOK, Stages, Numbered, Committed, AnsweredWasSaved, [Next]_vars
  PROVE  AnsweredWasSaved'
<1>1. runs \subseteq runs' /\ IsFiniteSet(runs)
  BY Grows DEF Numbered
<1> SUFFICES ASSUME NEW m \in Messages, NEW p \in 1..Parts, delivered'[m][p] > 0
             PROVE  \E r \in runs' : r.msg = m
  BY DEF AnsweredWasSaved
<1>2. CASE delivered' = delivered
  BY <1>1, <1>2 DEF AnsweredWasSaved
<1>3. ASSUME NEW i \in DOMAIN jobs, SendPart(i) \/ SendRaises(i)
      PROVE  \E r \in runs' : r.msg = m
  <2>1. at(i) = "send" /\ \E n \in Nat : delivered' = [delivered EXCEPT ![jobs[i].msg][jobs[i].part] = @ + n]
    <3>1. CASE SendPart(i)
      <4>1. PICK n \in 1..2 : delivered' = [delivered EXCEPT ![jobs[i].msg][jobs[i].part] = @ + n]
        BY <3>1, SendPartEffect
      <4>2. n \in Nat
        OBVIOUS
      <4> QED BY <3>1, <4>1, <4>2, SendPartEffect
    <3>2. CASE SendRaises(i)
      <4>1. PICK n \in 0..1 : delivered' = [delivered EXCEPT ![jobs[i].msg][jobs[i].part] = @ + n]
        BY <3>2, SendRaisesEffect
      <4>2. n \in Nat
        OBVIOUS
      <4> QED BY <3>2, <4>1, <4>2, SendRaisesEffect
    <3> QED BY <1>3, <3>1, <3>2
  <2>2. m = jobs[i].msg \/ delivered'[m][p] = delivered[m][p]
    BY <2>1, DeliveredIs
  <2>3. CASE m = jobs[i].msg
    BY <1>1, <2>1, <2>3 DEF Committed
  <2>4. CASE delivered'[m][p] = delivered[m][p]
    BY <1>1, <2>4 DEF AnsweredWasSaved
  <2> QED BY <2>2, <2>3, <2>4
<1>4. \A i \in DOMAIN jobs : Begin(i) \/ Think(i) \/ Act(i) \/ Save(i) \/ SearchAborts(i) \/ Raises(i)
                            => delivered' = delivered
  BY DEF Begin, Think, Act, Save, SearchAborts, Raises, agentState
<1>5. (\E r \in Requests : Enqueue(r)) \/ WorkerDies => delivered' = delivered
  BY EnqueueEffect, DiesEffect
<1> QED BY <1>2, <1>3, <1>4, <1>5, StepCases, QuietEffect DEF Quiet

\* A turn that a run has loaded, or that was overtaken, stays so until the run ends.
LEMMA RememberedStep ==
  ASSUME TypeOK, Stages, Numbered, ForgottenOnlyByOverlap, Remembered, [Next]_vars
  PROVE  Remembered'
<1>1. /\ runs \subseteq runs' /\ IsFiniteSet(runs)
      /\ Cardinality(runs) \in Nat
      /\ \A r \in runs' \ runs : r.at = Cardinality(runs) + 1
  BY Grows DEF Numbered
<1>2. \A r : Overtaken(r) => Overtaken(r)'
  BY <1>1 DEF Overtaken
<1> SUFFICES ASSUME NEW i \in DOMAIN jobs', Open(i)'
             PROVE  /\ Holds(jobs'[i].raw, jobs'[i].msg)
                    /\ \A r \in runs' : r.at <= jobs'[i].from =>
                         Holds(jobs'[i].prefix, r.msg) \/ Holds(jobs'[i].raw, r.msg) \/ Overtaken(r)'
  BY DEF Remembered, Overtaken
<1>3. Fate(i) /\ jobs'[i].pc \in Inside
  BY <1>1, FateIs DEF Open, at
<1>5. ASSUME i \in DOMAIN jobs, Open(i),
             jobs'[i].prefix = jobs[i].prefix, jobs'[i].from = jobs[i].from,
             jobs'[i].msg = jobs[i].msg,
             \A m : Holds(jobs[i].raw, m) => Holds(jobs'[i].raw, m)
      PROVE  /\ Holds(jobs'[i].raw, jobs'[i].msg)
             /\ \A r \in runs' : r.at <= jobs'[i].from =>
                  Holds(jobs'[i].prefix, r.msg) \/ Holds(jobs'[i].raw, r.msg) \/ Overtaken(r)'
  <2>1. Holds(jobs'[i].raw, jobs'[i].msg)
    BY <1>5 DEF Remembered
  <2>2. ASSUME NEW r \in runs', r.at <= jobs'[i].from
        PROVE  Holds(jobs'[i].prefix, r.msg) \/ Holds(jobs'[i].raw, r.msg) \/ Overtaken(r)'
    <3>1. r \in runs
      <4>1. jobs[i].from \in Nat /\ jobs[i].from <= Cardinality(runs)
        BY <1>5, JobHas DEF Job, Numbered
      <4> QED BY <1>1, <1>5, <2>2, <4>1
    <3>2. Holds(jobs[i].prefix, r.msg) \/ Holds(jobs[i].raw, r.msg) \/ Overtaken(r)
      BY <1>5, <2>2, <3>1 DEF Remembered
    <3> QED BY <1>2, <1>5, <3>2
  <2> QED BY <2>1, <2>2
<1>6. CASE i \in DOMAIN jobs /\ jobs'[i] = jobs[i]
  BY <1>3, <1>5, <1>6 DEF Open, at
<1>7. CASE i \in DOMAIN jobs /\ Begin(i)
  <2>1. /\ jobs'[i].msg = jobs[i].msg /\ jobs'[i].from = Cardinality(runs) /\ runs' = runs
        /\ jobs'[i].prefix \in Seq(Entry)
    BY <1>1, <1>7, BeginEffect DEF Rewrites, Job
  <2>2. PICK seen \in Seq(Entry), e \in Entry :
          /\ e.role = "user" /\ e.msg = jobs[i].msg
          /\ Current = jobs'[i].prefix \o seen /\ jobs'[i].raw = Append(seen, e)
    BY <1>1, <1>7, BeginEffect
  <2>3. Holds(jobs'[i].raw, jobs'[i].msg)
    BY <2>1, <2>2, HoldsLonger
  <2>4. ASSUME NEW r \in runs'
        PROVE  Holds(jobs'[i].prefix, r.msg) \/ Holds(jobs'[i].raw, r.msg) \/ Overtaken(r)'
    <3>1. r \in runs /\ (Holds(Current, r.msg) \/ Overtaken(r))
      BY <2>1, Zenon DEF ForgottenOnlyByOverlap, Holds, Overtaken, Current
    <3>2. Holds(Current, r.msg) => Holds(jobs'[i].prefix, r.msg) \/ Holds(seen, r.msg)
      BY <2>1, <2>2, HoldsBoth
    <3>3. Holds(seen, r.msg) => Holds(jobs'[i].raw, r.msg)
      BY <2>2, HoldsLonger
    <3> QED BY <1>2, <3>1, <3>2, <3>3
  <2> QED BY <2>3, <2>4
<1>8. CASE i \in DOMAIN jobs /\ (Think(i) \/ Act(i) \/ SearchAborts(i))
  <2>1. /\ Open(i) /\ jobs'[i].prefix = jobs[i].prefix /\ jobs'[i].from = jobs[i].from
        /\ jobs'[i].msg = jobs[i].msg
    BY <1>8, ThinkEffect, ActEffect, AbortEffect DEF Rewrites, SameRun, Open, Inside
  <2>2. jobs[i].raw \in Seq(Entry) /\ jobs[i].msg \in Messages
    BY <1>8, JobHas DEF Job
  <2>3. ASSUME NEW m, Holds(jobs[i].raw, m) PROVE Holds(jobs'[i].raw, m)
    <3>1. CASE Think(i)
      <4>1. PICK e \in Entry : jobs'[i].raw = Append(jobs[i].raw, e)
        BY <1>8, <3>1, ThinkEffect
      <4> QED BY <2>2, <2>3, <4>1, HoldsLonger
    <3>2. CASE Act(i)
      <4> DEFINE t == DispatchAll(jobs[i].msg, Last(jobs[i].raw).calls)
                 turn == jobs[i].raw \o t
      <4>1. jobs[i].raw # << >>
        BY <1>8, <3>2, ActEffect
      <4>2. Last(jobs[i].raw).calls \in SUBSET Skills
        <5>1. Len(jobs[i].raw) \in 1..Len(jobs[i].raw)
          BY <2>2, <4>1, EmptySeq
        <5>2. jobs[i].raw[Len(jobs[i].raw)] \in Entry
          BY <2>2, <5>1, ElementOfSeq
        <5> QED BY <5>2 DEF Last, Entry
      <4>3. t \in Seq(Entry)
        BY <2>2, <4>2, DispatchIs
      <4>4. \/ jobs'[i].raw = turn
            \/ \E e \in Entry : jobs'[i].raw = Append(turn, e)
        BY <1>8, <3>2, ActEffect
      <4> HIDE DEF t
      <4>5. Holds(turn, m) /\ turn \in Seq(Entry)
        BY <2>2, <2>3, <4>3, HoldsBoth, ConcatProperties
      <4> HIDE DEF turn
      <4> QED BY <4>4, <4>5, HoldsLonger
    <3>3. CASE SearchAborts(i)
      BY <1>8, <2>3, <3>3, AbortEffect
    <3> QED BY <1>8, <3>1, <3>2, <3>3
  <2> QED BY <1>5, <1>8, <2>1, <2>3
<1>9. CASE i \in DOMAIN jobs /\ Save(i)
  BY <1>3, <1>9, SaveEffect DEF Inside
<1> QED BY <1>3, <1>6, <1>7, <1>8, <1>9 DEF Fate, Inside

\* A list that a run writes back has every turn committed before it loaded; one that it has
\* not is overtaken by this very commit.
LEMMA ForgottenStep ==
  ASSUME TypeOK, Stages, Numbered, Remembered, ForgottenOnlyByOverlap, [Next]_vars
  PROVE  ForgottenOnlyByOverlap'
<1>1. /\ runs \subseteq runs' /\ Cardinality(runs) \in Nat
      /\ \/ UNCHANGED runs /\ Current' = Current
         \/ \E i \in DOMAIN jobs : Save(i)
  BY Grows
<1>2. \A r : Overtaken(r) => Overtaken(r)'
  BY <1>1 DEF Overtaken
<1>3. \A r \in runs : Holds(Current, r.msg) \/ Overtaken(r)
  BY Zenon DEF ForgottenOnlyByOverlap, Holds, Overtaken, Current
<1>4. ASSUME NEW r \in runs' PROVE Holds(Current', r.msg) \/ Overtaken(r)'
  <2>1. CASE UNCHANGED runs /\ Current' = Current
    BY <1>2, <1>3, <2>1
  <2>2. ASSUME NEW i \in DOMAIN jobs, Save(i)
        PROVE  Holds(Current', r.msg) \/ Overtaken(r)'
    <3> DEFINE new == [msg |-> jobs[i].msg, from |-> jobs[i].from, at |-> Cardinality(runs) + 1]
    <3>1. runs' = runs \cup {new} /\ Current' = jobs[i].prefix \o jobs[i].raw /\ Open(i)
      BY <2>2, SaveEffect DEF Open, Inside
    <3>2. jobs[i].prefix \in Seq(Entry) /\ jobs[i].raw \in Seq(Entry) /\ jobs[i].from \in Nat
      BY JobHas DEF Job
    <3>3. \A m : Holds(jobs[i].prefix, m) \/ Holds(jobs[i].raw, m) => Holds(Current', m)
      BY <3>1, <3>2, HoldsBoth
    <3>4. new.msg = jobs[i].msg /\ new.from = jobs[i].from /\ new.at = Cardinality(runs) + 1
      OBVIOUS
    <3> HIDE DEF new
    <3>5. CASE r = new
      BY <3>1, <3>3, <3>4, <3>5 DEF Remembered
    <3>6. CASE r \in runs /\ r.at <= jobs[i].from
      <4>1. Holds(jobs[i].prefix, r.msg) \/ Holds(jobs[i].raw, r.msg) \/ Overtaken(r)
        BY <3>1, <3>6 DEF Remembered
      <4> QED BY <1>2, <3>3, <4>1
    <3>7. CASE r \in runs /\ ~(r.at <= jobs[i].from)
      <4>1. r.at \in Nat /\ r.at <= Cardinality(runs)
        BY <3>7 DEF TypeOK, Numbered
      <4>2. new \in runs' /\ new.from < r.at /\ r.at < new.at
        BY <1>1, <3>1, <3>2, <3>4, <3>7, <4>1
      <4> QED BY <4>2 DEF Overtaken
    <3> QED BY <3>1, <3>5, <3>6, <3>7
  <2> QED BY <1>1, <2>1, <2>2
<1> QED BY <1>4, Zenon DEF ForgottenOnlyByOverlap, Holds, Overtaken, Current

\* A turn's tool messages follow their calls.
LEMMA FollowTurn ==
  ASSUME NEW s \in Seq(Entry), s # << >>, Last(s).role = "assistant", NEW m \in Messages,
         ToolsFollow(s)
  PROVE  ToolsFollow(s \o DispatchAll(m, Last(s).calls))
<1> DEFINE u == s \o DispatchAll(m, Last(s).calls)
<1>1. /\ u \in Seq(Entry) /\ Len(s) <= Len(u) /\ Len(s) \in Nat
      /\ \A k \in 1..Len(s) : u[k] = s[k]
      /\ \A k \in (Len(s) + 1)..Len(u) : FollowsCall(u, k)
  BY TurnIs
<1> HIDE DEF u
<1>2. DOMAIN s = 1..Len(s) /\ DOMAIN u = 1..Len(u) /\ Len(u) \in Nat
  BY <1>1, LenProperties
<1>3. ASSUME NEW k \in DOMAIN u, u[k].role = "tool" PROVE FollowsCall(u, k)
  <2>1. CASE k \in 1..Len(s)
    <3>1. FollowsCall(s, k)
      BY <1>1, <1>2, <1>3, <2>1 DEF ToolsFollow
    <3> QED BY <1>1, <2>1, <3>1, KeepsRule
  <2>2. CASE k \notin 1..Len(s)
    BY <1>1, <1>2, <2>2
  <2> QED BY <2>1, <2>2
<1> QED BY <1>3 DEF ToolsFollow, u

\* With the tool messages of its last turn an accepted list is accepted again.
LEMMA AcceptedTurn ==
  ASSUME NEW s \in Seq(Entry), s # << >>, Last(s).role = "assistant", NEW m \in Messages,
         ToolsFollow(s), Asking(s)
  PROVE  Accepted(s \o DispatchAll(m, Last(s).calls))
<1> DEFINE u == s \o DispatchAll(m, Last(s).calls)
<1>1. /\ u \in Seq(Entry) /\ Len(s) <= Len(u) /\ Len(s) \in Nat
      /\ \A k \in 1..Len(s) : u[k] = s[k]
      /\ \A k \in (Len(s) + 1)..Len(u) : u[k].role = "tool"
      /\ AnswersCalls(u, Len(s))
  BY TurnIs
<1>2. ToolsFollow(u)
  BY FollowTurn
<1> HIDE DEF u
<1>3. DOMAIN s = 1..Len(s) /\ DOMAIN u = 1..Len(u) /\ Len(u) \in Nat
  BY <1>1, LenProperties
<1>4. ASSUME NEW k \in DOMAIN u PROVE AnswersCalls(u, k)
  <2>1. CASE k \in 1..Len(s) /\ k < Len(s)
    <3>1. AnswersCalls(s, k)
      BY <1>3, <2>1 DEF Asking
    <3> QED BY <1>1, <2>1, <3>1, KeepsRule
  <2>2. CASE k = Len(s)
    BY <1>1, <2>2
  <2>3. CASE k \in (Len(s) + 1)..Len(u)
    <3>1. u[k].role = "tool"
      BY <1>1, <2>3
    <3> QED BY <3>1 DEF AnswersCalls
  <2> QED BY <1>1, <1>3, <2>1, <2>2, <2>3
<1> QED BY <1>2, <1>4 DEF Accepted, u

\* An assistant's message on an accepted list: all calls but its own are answered.
LEMMA AskingLonger ==
  ASSUME NEW s \in Seq(Entry), NEW e \in Entry, e.role = "assistant", Accepted(s)
  PROVE  /\ ToolsFollow(Append(s, e)) /\ Asking(Append(s, e))
         /\ Last(Append(s, e)).role = "assistant"
<1> DEFINE u == Append(s, e)
<1>1. ToolsFollow(s) /\ ToolsFollow(u)
  BY FollowLonger DEF Accepted
<1>2. /\ u \in Seq(Entry) /\ Len(u) = Len(s) + 1 /\ DOMAIN u = 1..(Len(s) + 1)
      /\ DOMAIN s = 1..Len(s) /\ Len(s) \in Nat
      /\ u[Len(s) + 1] = e /\ \A k \in 1..Len(s) : u[k] = s[k]
  BY LenProperties, AppendProperties
<1> HIDE DEF u
<1>3. ASSUME NEW k \in DOMAIN u, k < Len(u) PROVE AnswersCalls(u, k)
  <2>1. k \in 1..Len(s)
    BY <1>2, <1>3
  <2>2. AnswersCalls(s, k)
    BY <1>2, <2>1 DEF Accepted
  <2> QED BY <1>2, <2>1, <2>2, KeepsRule
<1>4. Last(u).role = "assistant"
  BY <1>2 DEF Last
<1> QED BY <1>1, <1>3, <1>4 DEF Asking, u

\* An entry is added to the second of two lists.
LEMMA AppendOf ==
  ASSUME NEW s \in Seq(Entry), NEW t \in Seq(Entry), NEW e \in Entry
  PROVE  s \o Append(t, e) = Append(s \o t, e)
<1>1. Append(t, e) = t \o <<e>> /\ Append(s \o t, e) = (s \o t) \o <<e>>
  BY AppendIsConcat, ConcatProperties
<1>2. <<e>> \in Seq(Entry)
  OBVIOUS
<1> QED BY <1>1, <1>2, ConcatAssociative

\* The last of two lists is the second's.
LEMMA LastOf ==
  ASSUME NEW s \in Seq(Entry), NEW t \in Seq(Entry), t # << >>
  PROVE  Last(s \o t) = Last(t) /\ s \o t # << >>
<1>1. /\ Len(s) \in Nat /\ Len(t) \in Nat \ {0} /\ s \o t \in Seq(Entry)
      /\ Len(s \o t) = Len(s) + Len(t)
      /\ \A k \in 1..(Len(s) + Len(t)) : (s \o t)[k] = IF k <= Len(s) THEN s[k] ELSE t[k - Len(s)]
  BY EmptySeq, LenProperties, ConcatProperties
<1>2. (s \o t)[Len(s) + Len(t)] = t[Len(t)]
  BY <1>1
<1>3. Len(s \o t) # 0
  BY <1>1
<1> QED BY <1>1, <1>2, <1>3, EmptySeq DEF Last

\* A run's list stays within the chat API's rule, and what it refuses was so when loaded.
LEMMA ListsStep ==
  ASSUME TypeOK, Stages, Numbered, Lists, [Next]_vars
  PROVE  Lists'
<1>1. /\ IsFiniteSet(runs) /\ faults \in Nat /\ faults' \in Nat /\ faults' >= faults
      /\ \/ UNCHANGED runs /\ Current' = Current
         \/ \E i \in DOMAIN jobs : Save(i)
  BY Grows DEF Numbered
<1>2. ToolsFollow(Current')
  <2>1. CASE Current' = Current
    BY <2>1 DEF Lists
  <2>2. ASSUME NEW i \in DOMAIN jobs, Save(i) PROVE ToolsFollow(Current')
    <3>1. Current' = jobs[i].prefix \o jobs[i].raw /\ Open(i)
      BY <2>2, SaveEffect DEF Open, Inside
    <3> QED BY <3>1 DEF Lists
  <2> QED BY <1>1, <2>1, <2>2
<1> DEFINE Fine(i) ==
      /\ ToolsFollow(jobs'[i].prefix \o jobs'[i].raw)
      /\ jobs'[i].pc = "think" /\ jobs'[i].iteration > 0 => Accepted(jobs'[i].raw)
      /\ jobs'[i].pc = "act" => /\ Last(jobs'[i].raw).role = "assistant"
                                /\ ToolsFollow(jobs'[i].raw) /\ Asking(jobs'[i].raw)
<1>3. ASSUME NEW i \in DOMAIN jobs', Open(i)' PROVE Fine(i) /\ (jobs'[i].aborted => faults' > 0)
  <2>1. Fate(i) /\ jobs'[i].pc \in Inside
    BY <1>1, <1>3, FateIs DEF Open, at
  <2>2. ASSUME NEW k \in DOMAIN jobs
        PROVE  /\ jobs[k].prefix \in Seq(Entry) /\ jobs[k].raw \in Seq(Entry)
               /\ jobs[k].prefix \o jobs[k].raw \in Seq(Entry)
               /\ jobs[k].msg \in Messages /\ jobs[k].iteration \in Nat
    <3>1. /\ jobs[k].prefix \in Seq(Entry) /\ jobs[k].raw \in Seq(Entry)
          /\ jobs[k].msg \in Messages /\ jobs[k].iteration \in Nat
      BY JobHas, BoundsAssumption DEF Job
    <3> QED BY <3>1, ConcatProperties
  <2>0. \A k \in DOMAIN jobs : Open(k) /\ jobs[k].aborted => faults' > 0
    <3>1. \A k \in DOMAIN jobs : Open(k) /\ jobs[k].aborted => faults > 0
      BY DEF Lists
    <3> QED BY <1>1, <3>1
  <2>3. CASE i \in DOMAIN jobs /\ jobs'[i] = jobs[i]
    BY <1>1, <2>1, <2>3 DEF Lists, Open, at
  <2>4. CASE i \in DOMAIN jobs /\ Begin(i)
    <3>1. /\ jobs'[i].pc = "think" /\ jobs'[i].iteration = 0 /\ ~jobs'[i].aborted
          /\ jobs'[i].prefix \in Seq(Entry)
      BY <1>1, <2>4, BeginEffect DEF Stages, Rewrites, Job
    <3>2. PICK seen \in Seq(Entry), e \in Entry :
            /\ e.role = "user"
            /\ Current = jobs'[i].prefix \o seen /\ jobs'[i].raw = Append(seen, e)
      BY <1>1, <2>4, BeginEffect
    <3>3. jobs'[i].prefix \o jobs'[i].raw = Append(Current, e) /\ Current \in Seq(Entry)
      <4>1. Current \in Seq(Entry)
        BY DEF Current, TypeOK, Accounts
      <4>2. \A s, u \in Seq(Entry), d \in Entry : s \o Append(u, d) = Append(s \o u, d)
        BY AppendOf
      <4>3. PICK a \in Seq(Entry) : a = jobs'[i].prefix
        BY <3>1
      <4>4. a \o Append(seen, e) = Append(a \o seen, e)
        BY <4>2
      <4>5. Append(a \o seen, e) = Append(Current, e)
        BY <3>2, <4>3
      <4>6. jobs'[i].prefix \o jobs'[i].raw = a \o Append(seen, e)
        BY <3>2, <4>3
      <4> QED BY <4>1, <4>4, <4>5, <4>6
    <3>4. ToolsFollow(Append(Current, e))
      BY <3>2, <3>3, FollowLonger DEF Lists
    <3> QED BY <3>1, <3>3, <3>4
  <2>5. CASE i \in DOMAIN jobs /\ Think(i)
    <3>1. /\ Open(i) /\ Accepted(jobs[i].raw) /\ jobs'[i].pc \in {"act", "save"}
          /\ jobs'[i].prefix = jobs[i].prefix /\ jobs'[i].aborted = jobs[i].aborted
      BY <2>5, ThinkEffect DEF SameRun, Open, Inside
    <3>2. PICK e \in Entry : e.role = "assistant" /\ jobs'[i].raw = Append(jobs[i].raw, e)
      BY <2>5, ThinkEffect
    <3>3. jobs'[i].prefix \o jobs'[i].raw = Append(jobs[i].prefix \o jobs[i].raw, e)
      BY <2>2, <2>5, <3>1, <3>2, AppendOf
    <3>4. ToolsFollow(Append(jobs[i].prefix \o jobs[i].raw, e))
      BY <2>2, <2>5, <3>1, <3>2, FollowLonger DEF Lists
    <3>5. ToolsFollow(jobs'[i].raw) /\ Asking(jobs'[i].raw) /\ Last(jobs'[i].raw).role = "assistant"
      BY <2>2, <2>5, <3>1, <3>2, AskingLonger
    <3>6. jobs'[i].aborted => faults' > 0
      BY <2>0, <2>5, <3>1
    <3> QED BY <3>1, <3>3, <3>4, <3>5, <3>6
  <2>6. CASE i \in DOMAIN jobs /\ Act(i)
    <3> DEFINE pre == jobs[i].prefix
               old == jobs[i].raw
               t == DispatchAll(jobs[i].msg, Last(old).calls)
    <3>1. /\ Open(i) /\ at(i) = "act" /\ old # << >> /\ jobs'[i].prefix = pre
          /\ jobs'[i].aborted = jobs[i].aborted
      BY <2>6, ActEffect DEF SameRun, Open, Inside
    <3>2. /\ pre \in Seq(Entry) /\ old \in Seq(Entry) /\ pre \o old \in Seq(Entry)
          /\ jobs[i].msg \in Messages
      BY <2>2, <2>6
    <3>3. /\ Last(old).role = "assistant" /\ ToolsFollow(old) /\ Asking(old)
          /\ ToolsFollow(pre \o old)
      BY <2>6, <3>1 DEF Lists
    <3>4. t \in Seq(Entry)
      <4>1. Len(old) \in 1..Len(old)
        BY <3>1, <3>2, EmptySeq
      <4>2. Last(old) \in Entry
        BY <3>2, <4>1, ElementOfSeq DEF Last
      <4> QED BY <3>2, <4>2, DispatchIs DEF Entry
    <3>5. Accepted(old \o t)
      BY <3>1, <3>2, <3>3, AcceptedTurn
    <3>6. Last(pre \o old) = Last(old) /\ pre \o old # << >>
      BY <3>1, <3>2, LastOf
    <3>7. pre \o (old \o t) = (pre \o old) \o t /\ old \o t \in Seq(Entry)
      <4>1. (pre \o old) \o t = pre \o (old \o t)
        <5>1. \A a, b, c \in Seq(Entry) : (a \o b) \o c = a \o (b \o c)
          BY ConcatAssociative
        <5> QED BY <3>2, <3>4, <5>1, Zenon
      <4> QED BY <3>2, <3>4, <4>1, ConcatProperties
    <3>8. ToolsFollow((pre \o old) \o t)
      BY <3>2, <3>3, <3>6, FollowTurn
    <3>9. jobs'[i].aborted => faults' > 0
      BY <2>0, <2>6, <3>1
    <3>10. \/ jobs'[i].pc = "think" /\ jobs'[i].raw = old \o t
           \/ jobs'[i].pc = "save" /\ \E e \in Entry : e.role = "assistant" /\ jobs'[i].raw = Append(old \o t, e)
      BY <2>6, ActEffect
    <3> HIDE DEF pre, old, t
    <3>11. CASE jobs'[i].pc = "think" /\ jobs'[i].raw = old \o t
      BY <3>1, <3>5, <3>7, <3>8, <3>9, <3>11
    <3>12. ASSUME jobs'[i].pc = "save", NEW e \in Entry, e.role = "assistant",
                  jobs'[i].raw = Append(old \o t, e)
           PROVE  Fine(i)
      <4>1. pre \o jobs'[i].raw = Append((pre \o old) \o t, e)
        BY <3>2, <3>7, <3>12, AppendOf
      <4>2. (pre \o old) \o t \in Seq(Entry)
        BY <3>2, <3>4, ConcatProperties
      <4>3. ToolsFollow(Append((pre \o old) \o t, e))
        BY <3>8, <3>12, <4>2, FollowLonger
      <4> QED BY <3>1, <3>12, <4>1, <4>3
    <3> QED BY <3>9, <3>10, <3>11, <3>12
  <2>7. CASE i \in DOMAIN jobs /\ Save(i)
    BY <2>1, <2>7, SaveEffect DEF Inside
  <2>8. CASE i \in DOMAIN jobs /\ SearchAborts(i)
    <3>1. /\ Open(i) /\ at(i) = "act" /\ jobs'[i].pc = "act" /\ faults' = faults + 1
          /\ jobs'[i].prefix = jobs[i].prefix /\ jobs'[i].raw = jobs[i].raw
      BY <2>8, AbortEffect DEF Open, Inside, Fault
    <3> QED BY <1>1, <2>8, <3>1 DEF Lists
  <2> QED BY <2>1, <2>3, <2>4, <2>5, <2>6, <2>7, <2>8 DEF Fate, Inside
<1> QED BY <1>2, <1>3 DEF Lists, at

\* A job is buried by a fault, or because the list it began with was refused.
LEMMA BuriedStep ==
  ASSUME TypeOK, Stages, Numbered, Lists, BuriedExplained, [Next]_vars
  PROVE  BuriedExplained'
<1>1. IsFiniteSet(runs) /\ faults \in Nat /\ faults' \in Nat /\ faults' >= faults
  BY Grows DEF Numbered
<1> SUFFICES ASSUME NEW i \in DOMAIN jobs', at(i)' = "dead", ~(faults' > 0)
             PROVE  /\ jobs'[i].iteration = 0
                    /\ \/ jobs'[i].prefix # << >>
                       \/ \E k \in DOMAIN jobs'[i].raw : ~AnswersCalls(jobs'[i].raw, k)
  BY DEF BuriedExplained
<1>2. Fate(i) /\ jobs'[i].pc = "dead" /\ ~(faults > 0) /\ ~(faults' > faults)
  BY <1>1, FateIs DEF at
<1>3. CASE i \in DOMAIN jobs /\ jobs'[i] = jobs[i]
  BY <1>2, <1>3 DEF BuriedExplained, at
<1>4. CASE i \in DOMAIN jobs /\ Judged(i) /\ Raises(i)
  <2>1. /\ Open(i) /\ UNCHANGED faults
        /\ \/ at(i) = "think" /\ ~Accepted(jobs[i].raw)
           \/ at(i) = "save" /\ jobs[i].aborted
    BY <1>1, <1>2, <1>4, RaisesEffect, FaultIs
  <2>2. at(i) = "think" /\ ~Accepted(jobs[i].raw) /\ ~(jobs[i].iteration > 0)
    BY <1>2, <1>4, <2>1 DEF Lists
  <2>3. jobs[i].iteration \in Nat /\ jobs[i].raw \in Seq(Entry)
    BY <1>4, JobHas, BoundsAssumption DEF Job
  <2>4. /\ jobs'[i].iteration = jobs[i].iteration
        /\ jobs'[i].prefix = jobs[i].prefix /\ jobs'[i].raw = jobs[i].raw
    BY <1>2, <1>4 DEF Judged
  <2>5. ASSUME jobs[i].prefix = << >>
        PROVE  \E k \in DOMAIN jobs[i].raw : ~AnswersCalls(jobs[i].raw, k)
    <3>1. ToolsFollow(jobs[i].prefix \o jobs[i].raw)
      BY <1>4, <2>1 DEF Lists
    <3>2. ToolsFollow(jobs[i].raw)
      BY <2>3, <2>5, <3>1, ConcatEmptySeq
    <3> QED BY <2>2, <3>2 DEF Accepted
  <2>6. jobs[i].iteration = 0
    BY <2>2, <2>3
  <2> QED BY <2>4, <2>5, <2>6
<1>5. CASE i \in DOMAIN jobs /\ SendRaises(i)
  <2>1. Fault
    BY <1>5, SendRaisesEffect
  <2>2. faults' > faults
    BY <2>1, FaultIs
  <2> QED BY <1>2, <2>2
<1>6. CASE i \in DOMAIN jobs /\ (Begin(i) \/ Think(i) \/ Act(i) \/ Save(i) \/ SearchAborts(i))
  BY <1>1, <1>2, <1>6, BeginEffect, ThinkEffect, ActEffect, SaveEffect, AbortEffect
<1> QED BY <1>2, <1>3, <1>4, <1>5, <1>6 DEF Fate

-----------------------------------------------------------------------------
(* Who may still send *)

\* A part of a finite set is no larger.
LEMMA Fewer ==
  ASSUME NEW S, IsFiniteSet(S), NEW T \in SUBSET S
  PROVE  /\ IsFiniteSet(T) /\ Cardinality(T) \in Nat /\ Cardinality(S) \in Nat
         /\ Cardinality(T) <= Cardinality(S)
BY FS_Subset, FS_CardinalityType

\* The terms of the count are numbers.
LEMMA CopiesHas ==
  ASSUME TypeOK, Copies, NEW m \in Messages, NEW p \in 1..Parts
  PROVE  /\ delivered[m][p] \in Nat /\ Free(m) \in 0..1 /\ faults \in Nat /\ expiries \in Nat
         /\ IsFiniteSet(Asked(m)) /\ Cardinality(Asked(m)) \in Nat
         /\ IsFiniteSet(Ahead(m, p)) /\ Cardinality(Ahead(m, p)) \in Nat
         /\ delivered[m][p] + Cardinality(Asked(m)) + Cardinality(Ahead(m, p)) + Free(m)
              <= 1 + faults + expiries
<1>1. delivered[m][p] \in Nat
  BY DEF TypeOK
<1>2. Free(m) \in 0..1
  BY DEF Free
<1>3. faults \in Nat /\ expiries \in Nat
  BY BoundsAssumption DEF TypeOK
<1>4. IsFiniteSet(Asked(m)) /\ Cardinality(Asked(m)) \in Nat
  BY FS_CardinalityType DEF Copies
<1>5. DOMAIN jobs = 1..Len(jobs) /\ Len(jobs) \in Nat
  BY JobHas
<1>6. IsFiniteSet(DOMAIN jobs) /\ Ahead(m, p) \in SUBSET DOMAIN jobs
  BY <1>5, FS_Interval DEF Ahead
<1>7. IsFiniteSet(Ahead(m, p)) /\ Cardinality(Ahead(m, p)) \in Nat
  BY <1>6, Fewer
<1> QED BY <1>1, <1>2, <1>3, <1>4, <1>7 DEF Copies

\* Steps inside a run and steps that end one leave fewer jobs ahead, or as many.
LEMMA AheadInRun ==
  ASSUME TypeOK, NEW i \in DOMAIN jobs, Rewrites(i), at(i) \in {"queued"} \cup Inside,
         NEW m, NEW p
  PROVE  Ahead(m, p)' \subseteq Ahead(m, p)
BY DEF Rewrites, Ahead, at

\* A part that is sent is no longer ahead.
LEMMA AheadSent ==
  ASSUME TypeOK, NEW i \in DOMAIN jobs, SendPart(i), NEW m, NEW p \in 1..Parts
  PROVE  /\ Ahead(m, p)' \subseteq Ahead(m, p)
         /\ m = jobs[i].msg /\ p = jobs[i].part => /\ i \in Ahead(m, p)
                                                   /\ Ahead(m, p)' \subseteq Ahead(m, p) \ {i}
<1>1. /\ Rewrites(i) /\ at(i) = "send"
      /\ \/ jobs'[i].pc = "send" /\ jobs'[i].part = jobs[i].part + 1
         \/ jobs'[i].pc = "done"
  BY SendPartEffect
<1>2. jobs[i].part \in Nat /\ p \in Nat
  BY JobHas, BoundsAssumption DEF Job
<1>3. i \in Ahead(m, p)' => /\ m = jobs[i].msg /\ jobs[i].part + 1 <= p
  BY <1>1 DEF Ahead, Rewrites, at, Inside
<1>4. ASSUME NEW k \in Ahead(m, p)', k # i PROVE k \in Ahead(m, p)
  BY <1>1, <1>4 DEF Ahead, Rewrites, at
<1>5. m = jobs[i].msg /\ jobs[i].part <= p => i \in Ahead(m, p)
  BY <1>1 DEF Ahead
<1> QED BY <1>2, <1>3, <1>4, <1>5

\* A job that is retried is ahead of every part of its message, as it was of the failed one.
LEMMA AheadRetried ==
  ASSUME TypeOK, NEW i \in DOMAIN jobs, SendRaises(i), NEW m, NEW p \in 1..Parts
  PROVE  /\ Ahead(m, p)' \subseteq Ahead(m, p) \cup {i}
         /\ m # jobs[i].msg \/ p = jobs[i].part => Ahead(m, p)' \subseteq Ahead(m, p)
<1>1. Rewrites(i) /\ at(i) = "send"
  BY SendRaisesEffect DEF Judged
<1>2. jobs[i].part \in Nat /\ p \in Nat
  BY JobHas, BoundsAssumption DEF Job
<1>3. ASSUME NEW k \in Ahead(m, p)', k # i PROVE k \in Ahead(m, p)
  BY <1>1, <1>3 DEF Ahead, Rewrites, at
<1>4. i \in Ahead(m, p)' => m = jobs[i].msg
  BY <1>1 DEF Ahead, Rewrites
<1>5. m = jobs[i].msg /\ p = jobs[i].part => i \in Ahead(m, p)
  BY <1>1, <1>2 DEF Ahead
<1> QED BY <1>3, <1>4, <1>5


Counted(m, p) ==
  /\ IsFiniteSet(Asked(m))
  /\ delivered[m][p] + Cardinality(Asked(m)) + Cardinality(Ahead(m, p)) + Free(m)
       <= 1 + faults + expiries

\* A step that concerns neither requests nor keys.
LEMMA CountedJobs ==
  ASSUME TypeOK, Copies, NEW m \in Messages, NEW p \in 1..Parts, NEW n \in Nat,
         UNCHANGED <<marks, http, expiries>>, Fault \/ UNCHANGED faults,
         delivered'[m][p] = delivered[m][p] + n, Cardinality(Ahead(m, p)') \in Nat,
         Cardinality(Ahead(m, p)') + n <= Cardinality(Ahead(m, p)) + (faults' - faults)
  PROVE  Counted(m, p)'
<1>1. Asked(m)' = Asked(m) /\ Free(m)' = Free(m) /\ expiries' = expiries
  BY DEF Asked, Free
<1>2. faults' \in Nat
  BY FaultIs
<1> DEFINE d == delivered[m][p]
           a == Cardinality(Asked(m))
           h == Cardinality(Ahead(m, p))
           h1 == Cardinality(Ahead(m, p)')
           f == Free(m)
<1>3. /\ d \in Nat /\ a \in Nat /\ h \in Nat /\ f \in Nat /\ faults \in Nat /\ expiries \in Nat
      /\ d + a + h + f <= 1 + faults + expiries /\ IsFiniteSet(Asked(m))
  BY CopiesHas
<1>4. /\ delivered'[m][p] = d + n /\ h1 \in Nat /\ h1 + n <= h + (faults' - faults)
  OBVIOUS
<1>5. Counted(m, p)' <=> (d + n) + a + h1 + f <= 1 + faults' + expiries
  BY <1>1, <1>3, <1>4 DEF Counted
<1> HIDE DEF d, a, h, h1, f
<1>6. (d + n) + a + h1 + f <= 1 + faults' + expiries
  <2>1. \A D, A, H, H1, F, B, B1, X \in Nat :
          D + A + H + F <= 1 + B + X /\ H1 + n <= H + (B1 - B) => (D + n) + A + H1 + F <= 1 + B1 + X
    OBVIOUS
  <2> QED BY <1>2, <1>3, <1>4, <2>1
<1> QED BY <1>5, <1>6

\* A step inside a run, or one that ends a run before its commit.
LEMMA CountedRun ==
  ASSUME TypeOK, Copies, NEW m \in Messages, NEW p \in 1..Parts,
         UNCHANGED <<marks, http, expiries, delivered>>, Fault \/ UNCHANGED faults,
         Ahead(m, p)' \subseteq Ahead(m, p)
  PROVE  Counted(m, p)'
<1>1. IsFiniteSet(Ahead(m, p)) /\ delivered[m][p] \in Nat
  BY CopiesHas
<1>2. /\ Cardinality(Ahead(m, p)') \in Nat /\ Cardinality(Ahead(m, p)) \in Nat
      /\ Cardinality(Ahead(m, p)') <= Cardinality(Ahead(m, p))
  <2>1. PICK S, T : S = Ahead(m, p) /\ T = Ahead(m, p)'
    OBVIOUS
  <2> QED BY <1>1, <2>1, Fewer
<1>3. faults \in Nat /\ faults' \in Nat /\ faults' >= faults
  BY FaultIs
<1>4. Cardinality(Ahead(m, p)') + 0 <= Cardinality(Ahead(m, p)) + (faults' - faults)
  BY ONLY <1>2, <1>3
<1>5. delivered'[m][p] = delivered[m][p] + 0
  BY <1>1
<1> QED BY <1>2, <1>4, <1>5, CountedJobs

\* A part arrives, or the last try of it fails.
LEMMA CountedSend ==
  ASSUME TypeOK, Copies, NEW m \in Messages, NEW p \in 1..Parts, NEW i \in DOMAIN jobs,
         SendPart(i) \/ SendRaises(i)
  PROVE  Counted(m, p)'
<1> DEFINE here == m = jobs[i].msg /\ p = jobs[i].part
           S == Ahead(m, p)
           T == Ahead(m, p)'
<1>1. IsFiniteSet(S) /\ Cardinality(S) \in Nat
  BY CopiesHas
<1>2. CASE SendPart(i)
  <2>1. PICK n \in 1..2 :
          /\ delivered' = [delivered EXCEPT ![jobs[i].msg][jobs[i].part] = @ + n]
          /\ (n = 1 /\ UNCHANGED faults) \/ (n = 2 /\ Fault)
    BY <1>2, SendPartEffect
  <2>2. n \in Nat /\ UNCHANGED <<marks, http, expiries>> /\ (Fault \/ UNCHANGED faults)
    <3>1. n \in Nat
      OBVIOUS
    <3> QED BY <1>2, <2>1, <3>1, SendPartEffect
  <2>3. T \subseteq S /\ (here => i \in S /\ T \subseteq S \ {i})
    BY <1>2, AheadSent
  <2> HIDE DEF S, T
  <2>4. CASE here
    <3>1. IsFiniteSet(S \ {i}) /\ Cardinality(S \ {i}) = Cardinality(S) - 1
      BY <1>1, <2>3, <2>4, FS_RemoveElement
    <3>2. Cardinality(T) \in Nat /\ Cardinality(T) <= Cardinality(S) - 1
      BY <2>3, <2>4, <3>1, Fewer
    <3>3. faults \in Nat /\ faults' \in Nat /\ (n = 1 \/ (n = 2 /\ faults' = faults + 1))
          /\ faults' >= faults
      BY <2>1, FaultIs DEF Fault
    <3>4. Cardinality(T) + n <= Cardinality(S) + (faults' - faults)
      BY ONLY <1>1, <3>2, <3>3
    <3>5. delivered'[m][p] = delivered[m][p] + n
      BY <2>1, <2>2, <2>4, DeliveredIs
    <3> QED BY <2>2, <3>2, <3>4, <3>5, CountedJobs DEF S, T
  <2>5. CASE ~here
    <3>1. Cardinality(T) \in Nat /\ Cardinality(T) <= Cardinality(S)
      BY <1>1, <2>3, Fewer
    <3>2. faults \in Nat /\ faults' \in Nat /\ faults' >= faults
      BY <2>2, FaultIs
    <3>3. Cardinality(T) + 0 <= Cardinality(S) + (faults' - faults)
      BY ONLY <1>1, <3>1, <3>2
    <3>4. delivered'[m][p] = delivered[m][p] /\ delivered[m][p] \in Nat
      BY <2>1, <2>2, <2>5, DeliveredIs, CopiesHas
    <3>5. delivered'[m][p] = delivered[m][p] + 0
      BY ONLY <3>4
    <3> QED BY <2>2, <3>1, <3>3, <3>5, CountedJobs DEF S, T
  <2> QED BY <2>4, <2>5
<1>3. CASE SendRaises(i)
  <2>1. PICK n \in 0..1 :
          delivered' = [delivered EXCEPT ![jobs[i].msg][jobs[i].part] = @ + n]
    BY <1>3, SendRaisesEffect
  <2>2. n \in Nat /\ UNCHANGED <<marks, http, expiries>> /\ Fault
    <3>1. n \in Nat
      OBVIOUS
    <3> QED BY <1>3, <3>1, SendRaisesEffect
  <2>3. T \subseteq S \cup {i} /\ (here => T \subseteq S)
    BY <1>3, AheadRetried
  <2>4. faults \in Nat /\ faults' = faults + 1
    BY <2>2, FaultIs DEF Fault
  <2> HIDE DEF S, T
  <2>5. CASE here
    <3>1. Cardinality(T) \in Nat /\ Cardinality(T) <= Cardinality(S)
      BY <1>1, <2>3, <2>5, Fewer
    <3>2. Cardinality(T) + n <= Cardinality(S) + (faults' - faults)
      BY ONLY <1>1, <2>4, <3>1, n \in 0..1
    <3>3. delivered'[m][p] = delivered[m][p] + n
      BY <2>1, <2>2, <2>5, DeliveredIs
    <3> QED BY <2>2, <3>1, <3>2, <3>3, CountedJobs DEF S, T
  <2>6. CASE ~here
    <3>1. IsFiniteSet(S \cup {i}) /\ Cardinality(S \cup {i}) <= Cardinality(S) + 1
      <4>1. /\ IsFiniteSet(S \cup {i})
            /\ \/ Cardinality(S \cup {i}) = Cardinality(S)
               \/ Cardinality(S \cup {i}) = Cardinality(S) + 1
        BY <1>1, FS_AddElement
      <4> QED BY <1>1, <4>1
    <3>2. /\ Cardinality(T) \in Nat /\ Cardinality(S \cup {i}) \in Nat
          /\ Cardinality(T) <= Cardinality(S \cup {i})
      BY <2>3, <3>1, Fewer
    <3>3. Cardinality(T) + 0 <= Cardinality(S) + (faults' - faults)
      BY ONLY <1>1, <2>4, <3>1, <3>2
    <3>4. delivered'[m][p] = delivered[m][p] /\ delivered[m][p] \in Nat
      BY <2>1, <2>2, <2>6, DeliveredIs, CopiesHas
    <3>5. delivered'[m][p] = delivered[m][p] + 0
      BY ONLY <3>4
    <3> QED BY <2>2, <3>2, <3>3, <3>5, CountedJobs DEF S, T
  <2> QED BY <2>5, <2>6
<1> QED BY <1>2, <1>3

\* A request gets the key of its message, or finds that it is taken.
LEMMA CountedReceive ==
  ASSUME TypeOK, Copies, NEW m \in Messages, NEW p \in 1..Parts,
         NEW r \in Requests, NEW q \in Messages, Receive(r, q)
  PROVE  Counted(m, p)'
<1>1. /\ http[r].pc = "idle"
      /\ http' = [http EXCEPT ![r] = [msg |-> q, pc |-> IF q \in marks THEN "duplicate" ELSE "marked"]]
      /\ marks' = marks \cup {q}
      /\ UNCHANGED <<jobs, delivered, faults, expiries>>
  BY DEF Receive, agentState
<1>2. /\ \A s \in Requests : s # r => http'[s] = http[s]
      /\ http'[r].msg = q /\ http'[r].pc = IF q \in marks THEN "duplicate" ELSE "marked"
  BY <1>1 DEF TypeOK
<1>3. /\ Ahead(m, p)' = Ahead(m, p) /\ delivered'[m][p] = delivered[m][p]
      /\ faults' = faults /\ expiries' = expiries
  BY <1>1 DEF Ahead, at
<1>4. r \notin Asked(m)
  BY <1>1 DEF Asked
<1> DEFINE d == delivered[m][p]
           a == Cardinality(Asked(m))
           h == Cardinality(Ahead(m, p))
           f == Free(m)
<1>5. /\ d \in Nat /\ a \in Nat /\ h \in Nat /\ f \in Nat /\ faults \in Nat /\ expiries \in Nat
      /\ d + a + h + f <= 1 + faults + expiries /\ IsFiniteSet(Asked(m))
  BY CopiesHas
<1>6. CASE m = q /\ q \notin marks
  <2>1. Asked(m)' = Asked(m) \cup {r}
    BY <1>2, <1>6 DEF Asked
  <2>2. IsFiniteSet(Asked(m)') /\ Cardinality(Asked(m)') = a + 1
    BY <1>4, <1>5, <2>1, FS_AddElement
  <2>3. f = 1 /\ Free(m)' = 0
    BY <1>1, <1>6 DEF Free
  <2>4. Counted(m, p)' <=> d + (a + 1) + h + 0 <= 1 + faults + expiries
    BY <1>3, <2>2, <2>3 DEF Counted
  <2> HIDE DEF d, a, h, f
  <2>5. d + (a + 1) + h + 0 <= 1 + faults + expiries
    BY ONLY <1>5, <2>3
  <2> QED BY <2>4, <2>5
<1>7. CASE ~(m = q /\ q \notin marks)
  <2>1. Asked(m)' = Asked(m)
    BY <1>2, <1>4, <1>7 DEF Asked
  <2>2. Free(m)' = Free(m)
    BY <1>1, <1>7 DEF Free
  <2> QED BY <1>3, <1>5, <2>1, <2>2 DEF Counted
<1> QED BY <1>6, <1>7

\* What is left of the requests that own a key when one of them is answered.
LEMMA AskedLess ==
  ASSUME TypeOK, Copies, NEW m \in Messages, NEW r \in Requests, http[r].pc = "marked",
         \/ http' = [http EXCEPT ![r].pc = "accepted"]
         \/ http' = [http EXCEPT ![r].pc = "failed"]
  PROVE  /\ IsFiniteSet(Asked(m)') /\ Cardinality(Asked(m)') \in Nat
         /\ Cardinality(Asked(m)') <= Cardinality(Asked(m))
         /\ m = http[r].msg => Cardinality(Asked(m)') = Cardinality(Asked(m)) - 1
<1>1. /\ \A s \in Requests : s # r => http'[s] = http[s]
      /\ http'[r].pc \in {"accepted", "failed"}
  BY DEF TypeOK
<1>2. Asked(m)' = Asked(m) \ {r}
  BY <1>1 DEF Asked
<1>3. m = http[r].msg => r \in Asked(m)
  BY DEF Asked
<1>4. IsFiniteSet(Asked(m))
  BY DEF Copies
<1>5. PICK S : S = Asked(m)
  OBVIOUS
<1>6. IsFiniteSet(S \ {r}) /\ Cardinality(S \ {r}) \in Nat /\ Cardinality(S \ {r}) <= Cardinality(S)
  BY <1>4, <1>5, Fewer
<1>7. r \in S => Cardinality(S \ {r}) = Cardinality(S) - 1
  BY <1>4, <1>5, FS_RemoveElement
<1> QED BY <1>2, <1>3, <1>5, <1>6, <1>7

\* A request's job is queued, or nothing is.
LEMMA CountedRequest ==
  ASSUME TypeOK, Stages, Copies, NEW m \in Messages, NEW p \in 1..Parts,
         NEW r \in Requests, Enqueue(r) \/ RequestFails(r)
  PROVE  Counted(m, p)'
<1> DEFINE d == delivered[m][p]
           a == Cardinality(Asked(m))
           h == Cardinality(Ahead(m, p))
           f == Free(m)
           a1 == Cardinality(Asked(m)')
           h1 == Cardinality(Ahead(m, p)')
<1>1. /\ d \in Nat /\ a \in Nat /\ h \in Nat /\ f \in Nat /\ faults \in Nat /\ expiries \in Nat
      /\ d + a + h + f <= 1 + faults + expiries /\ IsFiniteSet(Ahead(m, p))
  BY CopiesHas
<1>2. /\ http[r].pc = "marked"
      /\ \/ http' = [http EXCEPT ![r].pc = "accepted"]
         \/ http' = [http EXCEPT ![r].pc = "failed"]
      /\ UNCHANGED <<marks, delivered, expiries>> /\ (Fault \/ UNCHANGED faults)
  BY EnqueueEffect DEF RequestFails, agentState
<1>3. /\ IsFiniteSet(Asked(m)') /\ a1 \in Nat /\ a1 <= a /\ (m = http[r].msg => a1 = a - 1)
  BY <1>2, AskedLess
<1>4. faults' \in Nat /\ faults' >= faults
  BY <1>2, FaultIs
<1>5. h1 \in Nat /\ (h1 = h \/ (h1 = h + 1 /\ m = http[r].msg))
  <2>1. CASE RequestFails(r)
    <3>1. Ahead(m, p)' = Ahead(m, p)
      BY <2>1 DEF RequestFails, Ahead, at
    <3> QED BY <1>1, <3>1
  <2>2. CASE Enqueue(r)
    <3> DEFINE n == Len(jobs) + 1
    <3>1. /\ DOMAIN jobs' = DOMAIN jobs \cup {n} /\ n \notin DOMAIN jobs
          /\ \A k \in DOMAIN jobs : jobs'[k] = jobs[k]
          /\ jobs'[n].msg = http[r].msg /\ jobs'[n].pc = "queued"
      BY <2>2, EnqueueEffect
    <3> HIDE DEF n
    <3>2. CASE m = http[r].msg
      <4>1. Ahead(m, p)' = Ahead(m, p) \cup {n} /\ n \notin Ahead(m, p)
        BY <3>1, <3>2 DEF Ahead, at
      <4>2. h1 = h + 1
        BY <1>1, <4>1, FS_AddElement
      <4> QED BY <1>1, <3>2, <4>2
    <3>3. CASE m # http[r].msg
      <4>1. Ahead(m, p)' = Ahead(m, p)
        BY <3>1, <3>3 DEF Ahead, at
      <4> QED BY <1>1, <4>1
    <3> QED BY <3>2, <3>3
  <2> QED BY <2>1, <2>2
<1>6. Free(m)' = f /\ delivered'[m][p] = d /\ expiries' = expiries
  BY <1>2 DEF Free
<1>7. Counted(m, p)' <=> d + a1 + h1 + f <= 1 + faults' + expiries
  BY <1>3, <1>6 DEF Counted
<1> HIDE DEF d, a, h, f, a1, h1
<1>8. d + a1 + h1 + f <= 1 + faults' + expiries
  <2>1. \A D, A, A1, H, H1, F, B, B1, X \in Nat :
          /\ D + A + H + F <= 1 + B + X /\ B <= B1 /\ A1 <= A
          /\ H1 = H \/ (H1 = H + 1 /\ A1 = A - 1)
          => D + A1 + H1 + F <= 1 + B1 + X
    OBVIOUS
  <2>2. /\ d \in Nat /\ a \in Nat /\ a1 \in Nat /\ h \in Nat /\ h1 \in Nat /\ f \in Nat
        /\ faults \in Nat /\ faults' \in Nat /\ expiries \in Nat
    BY <1>1, <1>3, <1>4, <1>5
  <2>3. d + a + h + f <= 1 + faults + expiries /\ faults <= faults' /\ a1 <= a
    BY <1>1, <1>3, <1>4
  <2>4. h1 = h \/ (h1 = h + 1 /\ a1 = a - 1)
    BY <1>3, <1>5
  <2> QED BY ONLY <2>1, <2>2, <2>3, <2>4
<1> QED BY <1>7, <1>8

\* A key that expires lets one more request in, and is counted.
LEMMA CountedExpiry ==
  ASSUME TypeOK, Copies, NEW m \in Messages, NEW p \in 1..Parts, NEW q \in Messages, KeyExpires(q)
  PROVE  Counted(m, p)'
<1>1. /\ expiries' = expiries + 1 /\ UNCHANGED <<http, jobs, delivered, faults>>
  BY DEF KeyExpires, agentState
<1>2. Asked(m)' = Asked(m) /\ Ahead(m, p)' = Ahead(m, p) /\ delivered'[m][p] = delivered[m][p]
  BY <1>1 DEF Asked, Ahead, at
<1>3. Free(m)' \in 0..1
  BY DEF Free
<1> DEFINE d == delivered[m][p]
           a == Cardinality(Asked(m))
           h == Cardinality(Ahead(m, p))
           f == Free(m)
           f1 == Free(m)'
<1>4. /\ d \in Nat /\ a \in Nat /\ h \in Nat /\ f \in Nat /\ faults \in Nat /\ expiries \in Nat
      /\ d + a + h + f <= 1 + faults + expiries /\ IsFiniteSet(Asked(m))
  BY CopiesHas
<1>5. Counted(m, p)' <=> d + a + h + f1 <= 1 + faults + (expiries + 1)
  BY <1>1, <1>2, <1>4 DEF Counted
<1>6. f1 \in 0..1
  BY <1>3
<1> HIDE DEF d, a, h, f, f1
<1>7. d + a + h + f1 <= 1 + faults + (expiries + 1)
  BY ONLY <1>4, <1>6
<1> QED BY <1>5, <1>7

\* The count of who may still send, and of what has arrived, stays bounded.
LEMMA CopiesStep ==
  ASSUME TypeOK, Stages, Numbered, Copies, [Next]_vars
  PROVE  Copies'
<1>1. ASSUME NEW m \in Messages, NEW p \in 1..Parts PROVE Counted(m, p)'
  <2>1. CASE \E r \in Requests, q \in Messages : Receive(r, q)
    BY <2>1, CountedReceive
  <2>2. CASE \E r \in Requests : Enqueue(r) \/ RequestFails(r)
    BY <2>2, CountedRequest
  <2>3. CASE \E q \in Messages : KeyExpires(q)
    BY <2>3, CountedExpiry
  <2>4. CASE OnboardingSent \/ UNCHANGED vars
    <3>1. UNCHANGED <<marks, http, jobs, delivered, faults, expiries>>
      BY <2>4 DEF OnboardingSent, vars, request
    <3>2. Ahead(m, p)' = Ahead(m, p)
      BY <3>1 DEF Ahead, at
    <3> QED BY <3>1, <3>2, CountedRun
  <2>5. CASE WorkerDies
    <3>1. Ahead(m, p)' \subseteq Ahead(m, p)
      BY <2>5, DiesEffect DEF Ahead, at, Inside
    <3> QED BY <2>5, <3>1, DiesEffect, CountedRun
  <2>6. ASSUME NEW i \in DOMAIN jobs,
               Begin(i) \/ Think(i) \/ Act(i) \/ Save(i) \/ SearchAborts(i) \/ Raises(i)
        PROVE  Counted(m, p)'
    <3>1. IsFiniteSet(runs)
      BY DEF Numbered
    <3>2. /\ Rewrites(i) /\ at(i) \in {"queued"} \cup Inside /\ (Fault \/ UNCHANGED faults)
          /\ UNCHANGED <<marks, http, expiries, delivered>>
      BY <2>6, <3>1, BeginEffect, ThinkEffect, ActEffect, SaveEffect, AbortEffect, RaisesEffect
         DEF Judged, Open, Inside
    <3> QED BY <3>2, AheadInRun, CountedRun
  <2>7. ASSUME NEW i \in DOMAIN jobs, SendPart(i) \/ SendRaises(i) PROVE Counted(m, p)'
    BY <2>7, CountedSend
  <2> QED BY <2>1, <2>2, <2>3, <2>4, <2>5, <2>6, <2>7, StepCases
<1>2. 1 \in 1..Parts
  BY BoundsAssumption
<1> QED BY <1>1, <1>2 DEF Copies, Counted

-----------------------------------------------------------------------------
(* The invariant *)

\* The thread begins with an older history; nothing else has happened.
LEMMA InitTalk == Init => Talk
<1> SUFFICES ASSUME Init PROVE Talk
  OBVIOUS
<1>1. /\ marks = {} /\ jobs = << >> /\ runs = {} /\ notes = 0 /\ faults = 0 /\ expiries = 0
      /\ http = [r \in Requests |-> [msg |-> None, pc |-> "idle"]]
      /\ delivered = [m \in Messages |-> [p \in 1..Parts |-> 0]]
  BY DEF Init
<1>2. PICK h \in Older : history = [a \in Accounts |-> IF a = "chatnexo id" THEN h ELSE << >>]
  BY DEF Init
<1>3. h \in Seq(Entry) /\ ToolsFollow(h) /\ << >> \in Seq(Entry)
  BY OlderAssumption, EmptySeq
<1>4. Current = h /\ history \in [Accounts -> Seq(Entry)]
  BY <1>2, <1>3 DEF Current, Accounts
<1>5. << >> \in Seq(Job) /\ Len(<< >>) = 0 /\ DOMAIN << >> = {}
  BY EmptySeq
<1>6. DOMAIN jobs = {}
  BY <1>1, <1>5
<1>7. IsFiniteSet({}) /\ Cardinality({}) = 0
  BY FS_EmptySet
<1>8. TypeOK
  <2>1. MaxNotes \in Nat /\ MaxFaults \in Nat /\ MaxExpiries \in Nat /\ MaxJobs \in Nat
    BY BoundsAssumption
  <2>2. Len(jobs) <= MaxJobs /\ jobs \in Seq(Job)
    BY <1>1, <1>5, <2>1
  <2>3. notes \in 0..MaxNotes /\ faults \in 0..MaxFaults /\ expiries \in 0..MaxExpiries
    BY <1>1, <2>1
  <2>4. /\ marks \subseteq Messages /\ runs \subseteq [msg : Messages, from : Nat, at : Nat \ {0}]
        /\ http \in [Requests -> [msg : Messages \cup {None},
                                  pc : {"idle", "marked", "accepted", "duplicate", "failed"}]]
        /\ delivered \in [Messages -> [1..Parts -> Nat]]
    BY <1>1
  <2> QED BY <1>4, <2>2, <2>3, <2>4 DEF TypeOK
<1>9. Stages /\ Committed /\ Remembered /\ BuriedExplained
  BY <1>1, <1>6 DEF Stages, Committed, Remembered, BuriedExplained
<1>10. Numbered
  BY <1>1, <1>6, <1>7 DEF Numbered
<1>11. Copies
  <2> SUFFICES ASSUME NEW m \in Messages
               PROVE  /\ IsFiniteSet(Asked(m))
                      /\ \A p \in 1..Parts : Counted(m, p)
    BY DEF Copies, Counted
  <2>1. Asked(m) = {}
    BY <1>1 DEF Asked
  <2>2. ASSUME NEW p \in 1..Parts
        PROVE  Ahead(m, p) = {} /\ delivered[m][p] = 0 /\ Free(m) = 1
    BY <1>1, <1>6 DEF Ahead, Free
  <2>3. IsFiniteSet(Asked(m)) /\ Cardinality(Asked(m)) = 0
    BY <1>7, <2>1
  <2>4. ASSUME NEW p \in 1..Parts PROVE Counted(m, p)
    <3>1. /\ Cardinality(Ahead(m, p)) = 0 /\ delivered[m][p] = 0 /\ Free(m) = 1
          /\ faults = 0 /\ expiries = 0
      BY <1>1, <1>7, <2>2
    <3>2. 0 + 0 + 0 + 1 <= 1 + 0 + 0
      OBVIOUS
    <3> QED BY <2>3, <3>1, <3>2 DEF Counted
  <2> QED BY <2>3, <2>4
<1>12. Lists
  BY <1>3, <1>4, <1>6 DEF Lists
<1>13. ForgottenOnlyByOverlap
  BY <1>1 DEF ForgottenOnlyByOverlap
<1>14. AnsweredWasSaved
  BY <1>1 DEF AnsweredWasSaved
<1> QED BY <1>8, <1>9, <1>10, <1>11, <1>12, <1>13, <1>14 DEF Talk

\* Every step keeps it.
LEMMA TalkStep == Talk /\ [Next]_vars => Talk'
<1> SUFFICES ASSUME Talk, [Next]_vars PROVE Talk'
  OBVIOUS
<1>1. /\ TypeOK /\ Stages /\ Numbered /\ Committed /\ Copies /\ Remembered /\ Lists
      /\ ForgottenOnlyByOverlap /\ AnsweredWasSaved /\ BuriedExplained
  BY DEF Talk
<1>2. IsFiniteSet(runs)
  BY <1>1 DEF Numbered
<1>3. TypeOK'
  BY <1>1, <1>2, TypesStep
<1>4. Stages' /\ Numbered' /\ Copies' /\ Lists'
  BY <1>1, StagesStep, NumberedStep, CopiesStep, ListsStep
<1>5. Committed' /\ AnsweredWasSaved'
  BY <1>1, CommittedStep, AnsweredStep
<1>6. Remembered' /\ ForgottenOnlyByOverlap'
  BY <1>1, RememberedStep, ForgottenStep
<1>7. BuriedExplained'
  BY <1>1, BuriedStep
<1> QED BY <1>3, <1>4, <1>5, <1>6, <1>7 DEF Talk

\* What the agent keeps, whatever the webhook, the model and the worker do.
THEOREM TalkInvariant == Spec => []Talk
BY InitTalk, TalkStep, PTL DEF Spec

\* Type correctness: among it, a job has no more attempts, a run no more completions and an
\* answer no more parts than their bounds.
THEOREM ConversationTypes == Spec => []TypeOK
<1>1. Talk => TypeOK
  BY DEF Talk
<1> QED BY <1>1, TalkInvariant, PTL

\* A committed turn leaves the history only when a run committed later had loaded the list
\* before it: the handler keeps no other from running, and the last to save wins.
THEOREM TurnsForgottenOnlyByOverlap == Spec => []ForgottenOnlyByOverlap
<1>1. Talk => ForgottenOnlyByOverlap
  BY DEF Talk
<1> QED BY <1>1, TalkInvariant, PTL

\* A contact gets a part of an answer at most once more than faults were met and keys
\* expired, however many requests repeat its message and however often its job is retried.
THEOREM RepeatedPartsExplained == Spec => []RepeatsExplained
<1>1. Talk => RepeatsExplained
  <2> SUFFICES ASSUME Talk, NEW m \in Messages, NEW p \in 1..Parts
               PROVE  delivered[m][p] <= 1 + faults + expiries
    BY DEF RepeatsExplained
  <2> DEFINE d == delivered[m][p]
             a == Cardinality(Asked(m))
             h == Cardinality(Ahead(m, p))
             f == Free(m)
  <2>1. /\ d \in Nat /\ f \in 0..1 /\ faults \in Nat /\ expiries \in Nat /\ a \in Nat /\ h \in Nat
        /\ d + a + h + f <= 1 + faults + expiries
    BY CopiesHas DEF Talk
  <2> HIDE DEF d, a, h, f
  <2>2. d <= 1 + faults + expiries
    BY ONLY <2>1
  <2> QED BY <2>2 DEF d
<1> QED BY <1>1, TalkInvariant, PTL

\* Whatever part a contact has received, a run of its message has been committed: the parts
\* leave after the transaction, and a job that is retried starts anew.
THEOREM AnswersWereSaved == Spec => []AnsweredWasSaved
<1>1. Talk => AnsweredWasSaved
  BY DEF Talk
<1> QED BY <1>1, TalkInvariant, PTL

\* Without a fault a message is buried only when the API refused the very list its run
\* loaded: no list that the run itself builds is refused.
THEOREM BurialsExplained == Spec => []BuriedExplained
<1>1. Talk => BuriedExplained
  BY DEF Talk
<1> QED BY <1>1, TalkInvariant, PTL
=============================================================================
