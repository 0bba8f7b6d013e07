---------------------------- MODULE Conversation ----------------------------
(***************************************************************************)
(* A contact's messages and the agent that answers them: the ChatNexo      *)
(* webhook with its deduplication, the message job, the agent's loop with  *)
(* its guards and skills, the history of the thread, and the answer that   *)
(* leaves in parts after the commit.                                       *)
(*                                                                         *)
(* One contact is followed, with the two threads its phone has: the        *)
(* message handler keys the history by ChatNexo's numeric account id, the  *)
(* onboarding dispatch by the tenant's UUID.  The job queue is what        *)
(* JobQueue promises: a job is executed, retried up to MaxRetries          *)
(* attempts, then kept in the DLQ.  What the language model answers is     *)
(* free; it only refuses a malformed list of messages.                     *)
(***************************************************************************)
EXTENDS Integers, Sequences, FiniteSets, SequencesExt

CONSTANTS Messages,      \* message ids
          Legal,         \* those that mention a lawyer or a consumer agency
          Requests,      \* HTTP requests of ChatNexo
          Skills,        \* the skills the model may call
          Completions,   \* what the model may answer: text, calls, stopped for them
          Older,         \* histories the thread may begin with
          MemoryLimit,   \* behavior.ai_memory_messages
          MaxIterations, \* completions of one run
          MaxRetries,    \* attempts of a job
          Parts,         \* parts an answer is split into
          MaxFaults,     \* bound on failed calls and crashes
          MaxJobs,       \* bound on jobs ever inserted
          MaxExpiries,   \* bound on deduplication keys that reach their TTL
          MaxNotes,      \* bound on onboarding messages
          None           \* no text, no message

ASSUME BoundsAssumption ==
  /\ {MemoryLimit, MaxIterations, MaxRetries, Parts} \subseteq Nat \ {0}
  /\ {MaxFaults, MaxJobs, MaxExpiries, MaxNotes} \subseteq Nat
ASSUME CompletionsAssumption ==
  /\ Completions \subseteq [text : {"fresh", "again", None}, calls : SUBSET Skills, stopped : BOOLEAN]
  /\ IsFiniteSet(Skills)
ASSUME LegalAssumption == Legal \subseteq Messages /\ None \notin Messages

VARIABLES
  marks,     \* message keys present in Redis
  http,      \* per request: its message and how far it is
  jobs,      \* message jobs in order of insertion, ended ones included
  history,   \* conversation_messages, a list per thread
  runs,      \* committed runs: message, commits seen when it loaded, own number
  delivered, \* per message and part: copies the contact has been sent
  notes,     \* onboarding messages sent
  faults, expiries

vars == <<marks, http, jobs, history, runs, delivered, notes, faults, expiries>>

-----------------------------------------------------------------------------
(* Data.  An entry of the list: text is None for an absent content, "fresh" *)
(* for new words, "again" for a repeated text, "note" for onboarding's.     *)

Role == {"user", "assistant", "tool"}
Entry == [role : Role, msg : Messages \cup {None}, text : {"fresh", "again", "note", None},
          calls : SUBSET Skills]
Accounts == {"chatnexo id", "tenant uuid"}
\* thread_id = f"{account_id}:{phone}", of the one phone.
thread_id(account) == account

\* What the chat API accepts: every tool message answers a call of the
\* assistant message its block follows, and every call is answered.
FollowsCall(raw, k) ==
  \E p \in 1..(k - 1) : /\ raw[p].role = "assistant" /\ raw[k].calls \subseteq raw[p].calls
                        /\ \A q \in (p + 1)..k : raw[q].role = "tool"
AnswersCalls(raw, p) ==
  raw[p].role = "assistant" =>
    \A s \in raw[p].calls : \E k \in (p + 1)..Len(raw) :
      /\ raw[k].calls = {s}
      /\ \A q \in (p + 1)..k : raw[q].role = "tool"
ToolsFollow(raw) == \A k \in DOMAIN raw : raw[k].role = "tool" => FollowsCall(raw, k)
Accepted(raw) == ToolsFollow(raw) /\ \A k \in DOMAIN raw : AnswersCalls(raw, k)

\* An older history was written by runs too, so its tool messages follow their calls.
ASSUME OlderAssumption == \A h \in Older : h \in Seq(Entry) /\ ToolsFollow(h)

Inside == {"think", "act", "save"}     \* transaction open
Job == [msg : Messages, attempt : 1..MaxRetries,
        pc : {"queued", "send", "done", "dead", "lost"} \cup Inside,
        prefix : Seq(Entry), raw : Seq(Entry), from : Nat, iteration : 0..MaxIterations,
        forced : BOOLEAN, aborted : BOOLEAN, reply : Messages \cup {None, "fallback"},
        part : 1..Parts]

TypeOK ==
  /\ marks \subseteq Messages
  /\ http \in [Requests -> [msg : Messages \cup {None},
                            pc : {"idle", "marked", "accepted", "duplicate", "failed"}]]
  /\ jobs \in Seq(Job) /\ Len(jobs) <= MaxJobs
  /\ history \in [Accounts -> Seq(Entry)]
  /\ runs \subseteq [msg : Messages, from : Nat, at : Nat \ {0}]
  /\ delivered \in [Messages -> [1..Parts -> Nat]]
  /\ notes \in 0..MaxNotes
  /\ faults \in 0..MaxFaults /\ expiries \in 0..MaxExpiries

Init ==
  /\ marks = {} /\ jobs = << >> /\ runs = {}
  /\ http = [r \in Requests |-> [msg |-> None, pc |-> "idle"]]
  /\ \E h \in Older : history = [a \in Accounts |-> IF a = "chatnexo id" THEN h ELSE << >>]
  /\ delivered = [m \in Messages |-> [p \in 1..Parts |-> 0]]
  /\ notes = 0 /\ faults = 0 /\ expiries = 0

Fault == faults < MaxFaults /\ faults' = faults + 1

-----------------------------------------------------------------------------
(* The webhook.                                                             *)

agentState == <<history, runs, delivered, notes>>

\* Faulty variant: the key is looked up but not set.
ReceiveOnlyLooks(r, m) ==
  /\ http[r].pc = "idle"
  /\ http' = [http EXCEPT ![r] =
                [msg |-> m, pc |-> IF m \in marks THEN "duplicate" ELSE "marked"]]
  /\ UNCHANGED <<marks, jobs, agentState, faults, expiries>>

\* try_mark of message:{id}: the first request owns the key, the others are
\* answered 202 with duplicate: true.
Receive(r, m) ==
  /\ http[r].pc = "idle"
  /\ http' = [http EXCEPT ![r] =
                [msg |-> m, pc |-> IF m \in marks THEN "duplicate" ELSE "marked"]]
  /\ marks' = marks \cup {m}
  /\ UNCHANGED <<jobs, agentState, faults, expiries>>

NewJob(m) ==
  [msg |-> m, attempt |-> 1, pc |-> "queued", prefix |-> << >>, raw |-> << >>, from |-> 0,
   iteration |-> 0, forced |-> FALSE, aborted |-> FALSE, reply |-> None, part |-> 1]

\* queue.enqueue commits; a fault here is a crash before the answer is out.
Enqueue(r) ==
  /\ http[r].pc = "marked" /\ Len(jobs) < MaxJobs
  /\ jobs' = Append(jobs, NewJob(http[r].msg))
  /\ \/ http' = [http EXCEPT ![r].pc = "accepted"] /\ UNCHANGED faults
     \/ http' = [http EXCEPT ![r].pc = "failed"] /\ Fault
  /\ UNCHANGED <<marks, agentState, expiries>>

\* insert_if_new or enqueue raises, or the API process dies: no 202 is sent.
RequestFails(r) ==
  /\ http[r].pc = "marked"
  /\ http' = [http EXCEPT ![r].pc = "failed"]
  /\ Fault
  /\ UNCHANGED <<marks, jobs, agentState, expiries>>

\* A key's TTL, one hour, is longer than any request.
KeyExpires(m) ==
  /\ m \in marks /\ ~\E r \in Requests : http[r].msg = m /\ http[r].pc = "marked"
  /\ expiries < MaxExpiries /\ expiries' = expiries + 1
  /\ marks' = marks \ {m}
  /\ UNCHANGED <<http, jobs, agentState, faults>>

-----------------------------------------------------------------------------
(* Guards.  Both only choose an instruction for the system prompt.          *)

legal_mention(m) == m \in Legal

\* The last three assistant texts among the last six messages are the same.
loop_detected(raw) ==
  LET recent == SubSeq(raw, IF Len(raw) > 6 THEN Len(raw) - 5 ELSE 1, Len(raw))
      said == SelectSeq(recent, LAMBDA e : e.role = "assistant" /\ e.text # None)
  IN Len(said) >= 3 /\ \A k \in 0..1 : said[Len(said) - k].text = "again"

-----------------------------------------------------------------------------
(* Skills.  Each is the adapter methods it calls; a method the adapter      *)
(* does not have raises AttributeError, which the dispatch turns into the   *)
(* tool's answer "Erro ao executar".                                        *)

verificar_caso_acesso == {<<"access_repo", "buscar_por_email">>}
verificar_elegibilidade_reembolso ==
  {<<"hubla", "buscar_compra">>, <<"legal_history", "buscar">>}
processar_reembolso == {<<"refund_mutex", "lock">>, <<"hubla", "processar_reembolso">>}
oferecer_retencao ==
  {<<"hubla", "buscar_oferta_retencao">>, <<"refund_repo", "registrar_tentativa_retencao">>}
\* The usage log's registrar is called too, with its failure suppressed.
buscar_conhecimento == {<<"knowledge_repo", "search">>}
buscar_conhecimento_com_contexto == {<<"knowledge_repo", "search">>}
\* transfer_to_human reads reason.value: the skill hands it the plain str of
\* its arguments, which has no such attribute.
escalar_para_humano == {<<"chatnexo", "transfer_to_human">>, <<"str", "value">>}

HublaClient == {"get_purchase_by_email", "process_refund"}
RedisRefundMutex == {"acquire", "release"}
AccessCaseRepository ==
  {"save", "update", "get_by_purchase_id", "update_status", "find_by_phone"}
RefundCaseRepository == {"save", "update", "find_by_phone"}
NullLegalHistory == {"has_prior_refund_mention"}

Offered == {<<"hubla", f>> : f \in HublaClient} \cup {<<"refund_mutex", f>> : f \in RedisRefundMutex}
           \cup {<<"access_repo", f>> : f \in AccessCaseRepository}
           \cup {<<"refund_repo", f>> : f \in RefundCaseRepository}
           \cup {<<"legal_history", f>> : f \in NullLegalHistory}
           \cup {<<"knowledge_repo", "search">>, <<"chatnexo", "transfer_to_human">>}

VerificarCasoAcessoSkill == [name |-> "verificar_caso_acesso", calls |-> verificar_caso_acesso]
VerificarElegibilidadeReembolsoSkill ==
  [name |-> "verificar_elegibilidade_reembolso", calls |-> verificar_elegibilidade_reembolso]
ProcessarReembolsoSkill == [name |-> "processar_reembolso", calls |-> processar_reembolso]
OfereceRetencaoSkill == [name |-> "oferecer_retencao", calls |-> oferecer_retencao]
BuscarConhecimentoSkill == [name |-> "buscar_conhecimento", calls |-> buscar_conhecimento]
BuscarConhecimentoComContextoSkill ==
  [name |-> "buscar_conhecimento_com_contexto", calls |-> buscar_conhecimento_com_contexto]
EscalarParaHumanoSkill == [name |-> "escalar_para_humano", calls |-> escalar_para_humano]

build_registry ==
  {VerificarCasoAcessoSkill, VerificarElegibilidadeReembolsoSkill, ProcessarReembolsoSkill,
   OfereceRetencaoSkill, BuscarConhecimentoSkill, BuscarConhecimentoComContextoSkill,
   EscalarParaHumanoSkill}

Needs(s) == (CHOOSE tool \in build_registry : tool.name = s).calls
Works(s) == Needs(s) \subseteq Offered
\* Skills whose calls go through the handler's database session.
UsesSession(s) == Works(s) /\ <<"knowledge_repo", "search">> \in Needs(s)

-----------------------------------------------------------------------------
(* One run of the agent: worker handler, transaction and completion loop.   *)

at(i) == jobs[i].pc
request == <<marks, http>>

\* The worker dequeues the job and opens the session; the run loads the whole
\* list, splits it at the memory limit, adds the message and asks the guards.
Begin(i) ==
  LET full == history[thread_id("chatnexo id")]
      cut == IF Len(full) > MemoryLimit THEN Len(full) - MemoryLimit ELSE 0
      user == [role |-> "user", msg |-> jobs[i].msg, text |-> "fresh", calls |-> {}]
      raw == Append(SubSeq(full, cut + 1, Len(full)), user)
  IN /\ at(i) = "queued"
     /\ jobs' = [jobs EXCEPT ![i] =
                   [@ EXCEPT !.pc = "think", !.prefix = SubSeq(full, 1, cut),
                             !.raw = raw, !.from = Cardinality(runs),
                             !.forced = legal_mention(jobs[i].msg) \/ loop_detected(raw)]]
     /\ UNCHANGED <<request, agentState, faults, expiries>>

\* The last assistant text of the window, or the fallback.
Reply(raw) ==
  LET said == {k \in DOMAIN raw : raw[k].role = "assistant" /\ raw[k].text # None}
  IN IF said = {} THEN "fallback" ELSE raw[Max(said)].msg

\* One completion: a text, calls, or both; the loop goes on only when the
\* model stopped for its calls, not when it was cut off.
Think(i) ==
  /\ at(i) = "think" /\ Accepted(jobs[i].raw)
  /\ \E c \in Completions :
       LET raw == Append(jobs[i].raw, [role |-> "assistant", msg |-> jobs[i].msg,
                                       text |-> c.text, calls |-> c.calls])
       IN jobs' = [jobs EXCEPT ![i] =
                     [@ EXCEPT !.pc = IF c.stopped /\ c.calls # {} THEN "act" ELSE "save",
                               !.raw = raw, !.reply = Reply(raw),
                               !.iteration = jobs[i].iteration + 1]]
  /\ UNCHANGED <<request, agentState, faults, expiries>>

\* Faulty variant: a handler that raises leaves no tool message.
DispatchDropsErrors(m, calls) ==
  LET done == {s \in calls : Works(s)}
  IN [k \in 1..Cardinality(done) |->
       [role |-> "tool", msg |-> m, text |-> None, calls |-> {SetToSeq(done)[k]}]]

\* The tool messages of a completion's calls; whatever a handler raises
\* becomes its message.
DispatchAll(m, calls) ==
  [k \in 1..Cardinality(calls) |->
     [role |-> "tool", msg |-> m, text |-> None, calls |-> {SetToSeq(calls)[k]}]]

\* The calls of one completion are executed together.  A search that fails
\* inside the database leaves the transaction aborted.  Then the guards see the
\* list without the user's text, or, after the last iteration, the fallback is
\* added.
Act(i) ==
  LET turn == jobs[i].raw
      raw == turn \o DispatchAll(jobs[i].msg, Last(turn).calls)
  IN /\ at(i) = "act"
     /\ IF jobs[i].iteration < MaxIterations
        THEN jobs' = [jobs EXCEPT ![i] = [@ EXCEPT !.pc = "think", !.raw = raw,
                                                   !.forced = loop_detected(raw)]]
        ELSE \E text \in {"fresh", "again"} :
               jobs' = [jobs EXCEPT ![i] = [@ EXCEPT !.pc = "save", !.reply = "fallback",
                          !.raw = Append(raw, [role |-> "assistant", msg |-> jobs[i].msg,
                                               text |-> text, calls |-> {}])]]
     /\ UNCHANGED <<request, agentState, faults, expiries>>

SearchAborts(i) ==
  /\ at(i) = "act" /\ ~jobs[i].aborted
  /\ \E s \in Last(jobs[i].raw).calls : UsesSession(s)
  /\ jobs' = [jobs EXCEPT ![i].aborted = TRUE]
  /\ Fault
  /\ UNCHANGED <<request, agentState, expiries>>

\* Faulty variant: only the window is written back.
SaveWindow(i) ==
  /\ at(i) = "save" /\ ~jobs[i].aborted
  /\ history' = [history EXCEPT ![thread_id("chatnexo id")] = jobs[i].raw]
  /\ runs' = runs \cup {[msg |-> jobs[i].msg, from |-> jobs[i].from, at |-> Cardinality(runs) + 1]}
  /\ jobs' = [jobs EXCEPT ![i].pc = "send"]
  /\ UNCHANGED <<request, delivered, notes, faults, expiries>>

\* The upsert of the whole list and the commit.  The row is locked from one
\* to the other: a second run's upsert waits, then overwrites.
Save(i) ==
  /\ at(i) = "save" /\ ~jobs[i].aborted
  /\ history' = [history EXCEPT ![thread_id("chatnexo id")] = jobs[i].prefix \o jobs[i].raw]
  /\ runs' = runs \cup {[msg |-> jobs[i].msg, from |-> jobs[i].from, at |-> Cardinality(runs) + 1]}
  /\ jobs' = [jobs EXCEPT ![i].pc = "send"]
  /\ UNCHANGED <<request, delivered, notes, faults, expiries>>

\* Faulty variant: a job is retried for ever.
VerdictRetries(i) == [NewJob(jobs[i].msg) EXCEPT !.attempt = jobs[i].attempt + 1]

\* The dispatcher's verdict on an attempt that raised.
Verdict(i) ==
  IF jobs[i].attempt < MaxRetries
  THEN [NewJob(jobs[i].msg) EXCEPT !.attempt = jobs[i].attempt + 1]
  ELSE [jobs[i] EXCEPT !.pc = "dead"]

\* An attempt raises before its commit: the transaction is rolled back.
Raises(i) ==
  /\ at(i) \in Inside
  /\ jobs' = [jobs EXCEPT ![i] = Verdict(i)]
  /\ \/ /\ \/ at(i) = "think" /\ ~Accepted(jobs[i].raw)   \* the API refuses the list
           \/ at(i) = "save" /\ jobs[i].aborted           \* the upsert is refused
        /\ UNCHANGED faults
     \/ Fault                                             \* a call or the database fails
  /\ UNCHANGED <<request, agentState, expiries>>

\* A part less to send; of a job that has ended only its message matters.
Sent(j) ==
  IF j.part < Parts THEN [j EXCEPT !.part = @ + 1]
  ELSE [NewJob(j.msg) EXCEPT !.pc = "done", !.attempt = j.attempt]

\* Faulty variant: the parts leave while the transaction is open.
SendPartEarly(i) ==
  /\ at(i) \in {"send", "save"}
  /\ delivered' = [delivered EXCEPT ![jobs[i].msg][jobs[i].part] = @ + 1]
  /\ jobs' = [jobs EXCEPT ![i] = Sent(@)]
  /\ UNCHANGED <<request, history, runs, notes, faults, expiries>>

\* send_message posts the parts in order; a post is tried three times, so a
\* part whose answer got lost may arrive twice.
SendPart(i) ==
  /\ at(i) = "send"
  /\ \/ delivered' = [delivered EXCEPT ![jobs[i].msg][jobs[i].part] = @ + 1] /\ UNCHANGED faults
     \/ delivered' = [delivered EXCEPT ![jobs[i].msg][jobs[i].part] = @ + 2] /\ Fault
  /\ jobs' = [jobs EXCEPT ![i] = Sent(@)]
  /\ UNCHANGED <<request, history, runs, notes, expiries>>

\* The last try fails too, its part delivered or not; the job is retried from
\* the start although its turn is committed.
SendRaises(i) ==
  /\ at(i) = "send"
  /\ \E n \in 0..1 : delivered' = [delivered EXCEPT ![jobs[i].msg][jobs[i].part] = @ + n]
  /\ jobs' = [jobs EXCEPT ![i] = Verdict(i)]
  /\ Fault
  /\ UNCHANGED <<request, history, runs, notes, expiries>>

\* The worker dies: the rows of its jobs were deleted when they were dequeued.
WorkerDies ==
  /\ \E i \in DOMAIN jobs : at(i) \in Inside \cup {"send"}
  /\ jobs' = [i \in DOMAIN jobs |->
                IF at(i) \in Inside \cup {"send"} THEN [NewJob(jobs[i].msg) EXCEPT !.pc = "lost"]
                ELSE jobs[i]]
  /\ Fault
  /\ UNCHANGED <<request, agentState, expiries>>

\* A step of an onboarding flow is sent: its note is added to the history.
OnboardingSent ==
  /\ notes < MaxNotes /\ notes' = notes + 1
  /\ history' = [history EXCEPT ![thread_id("tenant uuid")] =
                   Append(@, [role |-> "assistant", msg |-> None, text |-> "note", calls |-> {}])]
  /\ UNCHANGED <<request, jobs, runs, delivered, faults, expiries>>

Run(i) == Begin(i) \/ Think(i) \/ Act(i) \/ Save(i) \/ Raises(i) \/ SendPart(i)
Next ==
  \/ \E r \in Requests : \/ \E m \in Messages : Receive(r, m)
                         \/ Enqueue(r)
                         \/ RequestFails(r)
  \/ \E m \in Messages : KeyExpires(m)
  \/ \E i \in DOMAIN jobs : Run(i) \/ SearchAborts(i) \/ SendRaises(i)
  \/ WorkerDies
  \/ OnboardingSent

Spec == Init /\ [][Next]_vars

-----------------------------------------------------------------------------
(* Properties.                                                              *)

\* A committed turn leaves the history only when another run, committed
\* later, had loaded the list before that turn was in it.
ForgottenOnlyByOverlap ==
  \A r \in runs :
    \/ \E k \in DOMAIN history["chatnexo id"] :
         LET e == history["chatnexo id"][k] IN e.role = "user" /\ e.msg = r.msg
    \/ \E o \in runs : o.from < r.at /\ r.at < o.at

\* The contact gets a part again only after a fault or a key that expired.
RepeatsExplained ==
  \A m \in Messages, p \in 1..Parts : delivered[m][p] <= 1 + faults + expiries

\* Whatever part the contact has received, its turn has been committed.
AnsweredWasSaved ==
  \A m \in Messages : (\E p \in 1..Parts : delivered[m][p] > 0) => \E r \in runs : r.msg = m

\* Without any fault a message is buried only when the API refused its very
\* first list, cut off somewhere: at the memory limit, or in a completion of
\* an earlier turn whose calls were never executed.
BuriedExplained ==
  \A i \in DOMAIN jobs : at(i) = "dead" =>
    \/ faults > 0
    \/ /\ jobs[i].iteration = 0
       /\ jobs[i].prefix # << >> \/ \E k \in DOMAIN jobs[i].raw : ~AnswersCalls(jobs[i].raw, k)

=============================================================================
