--------------------------- MODULE FlowSyncProofs ---------------------------
(***************************************************************************)
(* Proofs about FlowSync, for every value of its constants.                *)
(*                                                                         *)
(* The inductive invariant is InStep. Converges speaks of the moment after *)
(* a resync has committed; what makes it true is what the resync has read, *)
(* and that nothing but dispatches changed the rows since: Alone says so   *)
(* of the diff in progress. DiffApplies holds however many resyncs         *)
(* overlap, and keeps the rows of the right type.                          *)
(***************************************************************************)
EXTENDS FlowSync, FiniteSetTheorems, WellFoundedInduction, TLAPS

-----------------------------------------------------------------------------
(* Sums over finite sets *)

\* The element that a fold takes next.
Next1(s) == CHOOSE x \in s : TRUE

\* g adds fun up over the subsets of S, as the fold under SumFunctionOnSet does.
AddsUp(g, fun, S) ==
  g = [s \in SUBSET S |-> IF s = {} THEN 0 ELSE fun[Next1(s)] + g[s \ {Next1(s)}]]

\* The sum is the value of such a function, if there is one.
LEMMA SumUnfolds ==
  ASSUME NEW fun, NEW S
  PROVE  SumFunctionOnSet(fun, S) = (CHOOSE g : AddsUp(g, fun, S))[S]
  BY DEF SumFunctionOnSet, FoldFunctionOnSet, MapThenFoldSet, AddsUp, Next1

\* A set of subsets of a finite set has a member without a smaller one.
LEMMA SmallestSubset ==
  ASSUME NEW S, IsFiniteSet(S), NEW T \in SUBSET SUBSET S, T # {}
  PROVE  \E A \in T : \A B \in T : B \subseteq A => B = A
<1>1. T \subseteq FiniteSubsetsOf(S)
  BY FS_FiniteSubsetsOfFinite
<1>2. PICK A \in T : \A B \in T : ~ (<<B, A>> \in StrictSubsetOrdering(S))
  BY <1>1, FS_StrictSubsetOrderingWellFounded, WFMin
<1>3. \A B \in T : B \subseteq A /\ B # A => <<B, A>> \in StrictSubsetOrdering(S)
  <2> SUFFICES ASSUME NEW B \in T, B \subseteq A, B # A
               PROVE  <<B, A>> \in StrictSubsetOrdering(S)
    OBVIOUS
  <2>1. A \in SUBSET S /\ B \in SUBSET S
    OBVIOUS
  <2> QED
    BY <2>1 DEF StrictSubsetOrdering
<1>4. \A B \in T : B \subseteq A => B = A
  BY <1>2, <1>3, Zenon
<1> QED
  BY <1>4, Zenon

\* Two such functions agree where both are defined.
LEMMA SumsAgree ==
  ASSUME NEW fun, NEW S, NEW R, NEW g, NEW h, IsFiniteSet(S),
         AddsUp(g, fun, S), AddsUp(h, fun, R)
  PROVE  \A s \in SUBSET S : s \subseteq R => g[s] = h[s]
<1> DEFINE T == {s \in SUBSET S : s \subseteq R /\ g[s] # h[s]}
<1> SUFFICES ASSUME T # {} PROVE FALSE
  OBVIOUS
<1>1. PICK A \in T : \A B \in T : B \subseteq A => B = A
  <2> HIDE DEF T
  <2>1. T \in SUBSET SUBSET S
    BY DEF T
  <2> QED
    BY <2>1, SmallestSubset
<1>2. g[A] = IF A = {} THEN 0 ELSE fun[Next1(A)] + g[A \ {Next1(A)}]
  BY DEF AddsUp
<1>3. h[A] = IF A = {} THEN 0 ELSE fun[Next1(A)] + h[A \ {Next1(A)}]
  BY DEF AddsUp
<1>4. CASE A = {}
  BY <1>2, <1>3, <1>4
<1>5. CASE A # {}
  <2>1. Next1(A) \in A
    BY <1>5 DEF Next1
  <2>2. A \ {Next1(A)} \notin T
    BY <1>1, <2>1
  <2>3. g[A \ {Next1(A)}] = h[A \ {Next1(A)}]
    BY <2>2
  <2> QED
    BY <1>2, <1>3, <1>5, <2>3
<1> QED
  BY <1>4, <1>5

\* There is one for every finite set.
LEMMA SumsExist ==
  ASSUME NEW fun, NEW S, IsFiniteSet(S)
  PROVE  \E g : AddsUp(g, fun, S)
<1> DEFINE G(s) == CHOOSE g : AddsUp(g, fun, s)
           T == {s \in SUBSET S : ~ \E g : AddsUp(g, fun, s)}
<1> SUFFICES ASSUME T # {} PROVE FALSE
  OBVIOUS
<1>1. PICK A \in T : \A B \in T : B \subseteq A => B = A
  <2> HIDE DEF T
  <2>1. T \in SUBSET SUBSET S
    BY DEF T
  <2> QED
    BY <2>1, SmallestSubset
<1>2. \A B \in SUBSET A : B # A => AddsUp(G(B), fun, B)
  BY <1>1
<1>3. \A B \in SUBSET A : IsFiniteSet(B)
  BY FS_Subset
<1> DEFINE x == Next1(A)
           w == [s \in SUBSET A |->
                   IF s # A THEN G(s)[s] ELSE IF A = {} THEN 0
                   ELSE fun[x] + G(A \ {x})[A \ {x}]]
<1> HIDE DEF G, T
<1>4. \A s \in SUBSET A : w[s] = IF s = {} THEN 0 ELSE fun[Next1(s)] + w[s \ {Next1(s)}]
  <2> SUFFICES ASSUME NEW s \in SUBSET A
               PROVE  w[s] = IF s = {} THEN 0 ELSE fun[Next1(s)] + w[s \ {Next1(s)}]
    OBVIOUS
  <2> DEFINE y == Next1(s)
  <2>0. s # {} => y \in s
    BY DEF Next1
  <2>1. CASE s = A
    BY <2>0, <2>1
  <2>2. CASE s # A
    <3>1. AddsUp(G(s), fun, s)
      BY <1>2, <2>2
    <3>2. G(s)[s] = IF s = {} THEN 0 ELSE fun[y] + G(s)[s \ {y}]
      BY <3>1 DEF AddsUp
    <3>3. CASE s = {}
      BY <3>2, <3>3, <2>2
    <3>4. CASE s # {}
      <4>1. s \ {y} \in SUBSET A /\ s \ {y} # A
        BY <3>4, <2>0
      <4>2. AddsUp(G(s \ {y}), fun, s \ {y})
        BY <4>1, <1>2
      <4>3. IsFiniteSet(s \ {y})
        BY <4>1, <1>3
      <4>4. \A t \in SUBSET (s \ {y}) : t \subseteq s => G(s \ {y})[t] = G(s)[t]
        BY <4>2, <4>3, <3>1, SumsAgree
      <4>5. G(s \ {y})[s \ {y}] = G(s)[s \ {y}]
        BY <4>4
      <4> QED
        BY <3>2, <3>4, <4>1, <4>5, <2>2
    <3> QED
      BY <3>3, <3>4
  <2> QED
    BY <2>1, <2>2
<1>5. AddsUp(w, fun, A)
  <2> DEFINE v == [s \in SUBSET A |-> IF s = {} THEN 0 ELSE fun[Next1(s)] + w[s \ {Next1(s)}]]
  <2>1. DOMAIN w = SUBSET A /\ w = [s \in DOMAIN w |-> w[s]]
    OBVIOUS
  <2> HIDE DEF w
  <2>2. w = v
    BY <1>4, <2>1
  <2> QED
    BY <2>2 DEF AddsUp
<1> QED
  BY <1>5, <1>1 DEF T

\* The sum of natural numbers is one.
LEMMA SumIsNat ==
  ASSUME NEW D, NEW fun \in [D -> Nat], NEW S \in SUBSET D, IsFiniteSet(S)
  PROVE  SumFunctionOnSet(fun, S) \in Nat
<1> DEFINE g == CHOOSE h : AddsUp(h, fun, S)
           T == {s \in SUBSET S : g[s] \notin Nat}
<1>1. AddsUp(g, fun, S)
  BY SumsExist
<1> HIDE DEF g
<1>2. T = {}
  <2> SUFFICES ASSUME T # {} PROVE FALSE
    OBVIOUS
  <2>1. PICK A \in T : \A B \in T : B \subseteq A => B = A
    <3> HIDE DEF T
    <3>1. T \in SUBSET SUBSET S
      BY DEF T
    <3> QED
      BY <3>1, SmallestSubset
  <2>2. g[A] = IF A = {} THEN 0 ELSE fun[Next1(A)] + g[A \ {Next1(A)}]
    BY <1>1 DEF AddsUp
  <2>3. A # {}
    BY <2>2
  <2>4. Next1(A) \in A
    BY <2>3 DEF Next1
  <2>5. A \ {Next1(A)} \notin T
    BY <2>1, <2>4
  <2>6. g[A \ {Next1(A)}] \in Nat
    BY <2>5
  <2>7. fun[Next1(A)] \in Nat
    BY <2>4
  <2>8. \A a, b \in Nat : a + b \in Nat
    OBVIOUS
  <2> QED
    BY <2>2, <2>3, <2>6, <2>7, <2>8
<1> QED
  BY <1>2, SumUnfolds DEF g
-----------------------------------------------------------------------------
(* The inductive invariant *)

\* Flows have finitely many steps, of identities given out; so have the enrollment's rows.
Finite ==
  /\ IsFiniteSet(DOMAIN flow) /\ IsFiniteSet(DOMAIN rows)
  /\ \A e \in Enrollers : reading[e] # Null =>
       IsFiniteSet(DOMAIN reading[e]) /\ DOMAIN reading[e] \subseteq used
  /\ \A r \in Running :
       IsFiniteSet(DOMAIN plan[r].flow) /\ DOMAIN plan[r].flow \subseteq used

\* Each handler reads and computes its own.
Handlers == DOMAIN reading = Enrollers /\ DOMAIN plan = Resyncs

\* Before the enrollment there is nothing to synchronise.
Unenrolled == enr = "none" => rows = <<>> /\ applied = Null /\ Running = {}

\* A row stands for the flow step it was made from or for none.
OwnStep == \A x \in DOMAIN rows : rows[x].fs \in {Null, x[1]}

\* A diff speaks of steps of the flow it was made from, and of rows that are still there.
DiffApplies ==
  \A r \in Running : LET p == plan[r] IN
    /\ p.version \in 0..newest
    /\ p.diff.add \subseteq DOMAIN p.flow
    /\ \A x \in p.diff.reschedule \cup p.diff.update :
         x \in DOMAIN rows /\ rows[x].fs \in DOMAIN p.flow

\* Of a pending row that stands for a step, the diff tells what there is to do.
Noticed(p, x) ==
  IF rows[x].fs \notin DOMAIN p.flow THEN x \in p.diff.cancel
  ELSE \/ x \in p.diff.reschedule \cup p.diff.update
       \/ /\ rows[x].delay = p.flow[rows[x].fs].delay
          /\ rows[x].content = p.flow[rows[x].fs].content

\* While no two resyncs overlap, a step has at most one row, and the one resync that is
\* running has missed nothing but what dispatches and later edits have changed.
Alone ==
  ~overlapped =>
    /\ \A x, y \in DOMAIN rows : rows[x].fs # Null /\ rows[x].fs = rows[y].fs => x = y
    /\ \A r, s \in Running : r = s
    /\ \A r \in Running : LET p == plan[r] IN
         /\ p.diff.add = DOMAIN p.flow \ Known(rows)
         /\ p.version = version /\ live => p.flow = flow
         /\ \A x \in DOMAIN rows : rows[x].fs # Null /\ rows[x].status = "pending" =>
              Noticed(p, x)

InStep == TypeOK /\ Finite /\ Handlers /\ Unenrolled /\ OwnStep /\ DiffApplies /\ Alone
          /\ EditArrives

-----------------------------------------------------------------------------
(* Sets and flows *)

\* The image of a finite set is finite.
LEMMA ImageFinite ==
  ASSUME NEW S, IsFiniteSet(S), NEW T, NEW g \in [S -> T]
  PROVE  IsFiniteSet({g[x] : x \in S})
<1> DEFINE R == {g[x] : x \in S}
<1>1. g \in Surjection(S, R)
  BY DEF Surjection
<1> QED
  BY <1>1, FS_Surjection

\* The order in which a flow's steps are read has each of them.
LEMMA OrderHasAll ==
  ASSUME NEW fl, IsFiniteSet(DOMAIN fl), NEW q \in Orders(fl)
  PROVE  /\ DOMAIN q \subseteq Nat /\ \A i \in DOMAIN q : q[i] \in DOMAIN fl
         /\ \A n \in DOMAIN q : 1..n \subseteq DOMAIN q
         /\ \A f \in DOMAIN fl : \E i \in DOMAIN q : q[i] = f
<1> DEFINE n == Cardinality(DOMAIN fl)
<1>1. q \in [1..n -> DOMAIN fl] /\ \A i, j \in 1..n : i # j => q[i] # q[j]
  BY DEF Orders, SetToSeqs
<1>2. n \in Nat
  BY FS_CardinalityType
<1>3. q \in Injection(1..n, DOMAIN fl)
  BY <1>1 DEF Injection, IsInjective
<1>4. IsFiniteSet(1..n) /\ Cardinality(1..n) = n
  BY <1>2, FS_Interval
<1>5. q \in Surjection(1..n, DOMAIN fl)
  BY <1>3, <1>4, FS_Injection
<1>6. \A k \in 1..n : 1..k \subseteq 1..n
  BY <1>2
<1> HIDE DEF n
<1> QED
  BY <1>1, <1>2, <1>5, <1>6 DEF Surjection

\* Times are natural numbers.
LEMMA RunAtIsNat ==
  ASSUME NEW D, NEW fl \in [D -> Step], IsFiniteSet(D), NEW S \in SUBSET D
  PROVE  SumFunctionOnSet(DelaysOf(fl), S) \in Nat
<1>1. \A f \in D : fl[f].delay \in Nat
  BY DataAssumption DEF Step
<1>2. DelaysOf(fl) \in [D -> Nat]
  BY <1>1 DEF DelaysOf
<1>3. IsFiniteSet(S)
  BY FS_Subset
<1> QED
  BY <1>2, <1>3, SumIsNat

\* The rows of a new enrollment: one for each step, without its identity.
LEMMA FirstRowsAre ==
  ASSUME NEW fl, fl \in [DOMAIN fl -> Step], IsFiniteSet(DOMAIN fl), NEW q \in Orders(fl)
  PROVE  LET rs == FirstRows(fl, q) IN
         /\ IsFiniteSet(DOMAIN rs) /\ DOMAIN rs = {<<f, 1>> : f \in DOMAIN fl}
         /\ rs \in [DOMAIN rs -> Row] /\ \A x \in DOMAIN rs : rs[x].fs = Null
<1> DEFINE rs == FirstRows(fl, q)
           g == [f \in DOMAIN fl |-> <<f, 1>>]
           D == {<<f, 1>> : f \in DOMAIN fl}
<1>1. DOMAIN rs = D
  BY DEF FirstRows
<1>2. IsFiniteSet(D)
  <2>1. g \in [DOMAIN fl -> D]
    OBVIOUS
  <2>2. {g[f] : f \in DOMAIN fl} = D
    OBVIOUS
  <2> HIDE DEF g, D
  <2>3. IsFiniteSet({g[f] : f \in DOMAIN fl})
    BY <2>1, ImageFinite
  <2> QED
    BY <2>2, <2>3
<1>3. ASSUME NEW x \in D PROVE rs[x] \in Row /\ rs[x].fs = Null
  <2>1. PICK f \in DOMAIN fl : x = <<f, 1>>
    OBVIOUS
  <2> DEFINE n == CHOOSE i \in DOMAIN q : q[i] = x[1]
             s == SumFunctionOnSet(DelaysOf(fl), {q[i] : i \in 1..n})
  <2>2. x[1] = f
    BY <2>1
  <2>3. n \in DOMAIN q
    BY <2>2, OrderHasAll
  <2>4. {q[i] : i \in 1..n} \in SUBSET DOMAIN fl
    BY <2>3, OrderHasAll
  <2>5. s \in Nat
    BY <2>4, RunAtIsNat
  <2>6. rs[x] = [fs |-> Null, status |-> "pending", delay |-> fl[x[1]].delay,
                 content |-> fl[x[1]].content, runAt |-> s]
    BY DEF FirstRows
  <2>7. fl[f].delay \in Delays /\ fl[f].content \in Contents
    BY DEF Step
  <2> HIDE DEF s
  <2> QED
    BY <2>2, <2>5, <2>6, <2>7 DEF Row, Statuses
<1> QED
  BY <1>1, <1>2, <1>3 DEF FirstRows
-----------------------------------------------------------------------------
(* Steps that write no row *)

\* Initially there is a flow and no enrollment.
LEMMA InitInStep == Init => InStep
<1> SUFFICES ASSUME Init PROVE InStep
  OBVIOUS
<1> USE DEF Init
<1>0. Running = {}
  BY DEF Running
<1>1. PICK S \in SUBSET StepIds : IsFiniteSet(S) /\ FirstFlow \in [S -> Step]
  BY FlowAssumption
<1>2. DOMAIN flow = S /\ flow \in [S -> Step] /\ used = S
  BY <1>1
<1>3. rows = <<>> /\ DOMAIN rows = {}
  OBVIOUS
<1>4. IsFiniteSet({})
  BY FS_EmptySet
<1>5. TypeOK
  BY <1>0, <1>1, <1>2, <1>3, EditsAssumption DEF TypeOK
<1>6. Finite
  BY <1>0, <1>1, <1>2, <1>3, <1>4 DEF Finite
<1>7. Handlers /\ Unenrolled /\ OwnStep /\ DiffApplies /\ Alone
  BY <1>0, <1>3 DEF Handlers, Unenrolled, OwnStep, DiffApplies, Alone
<1>8. EditArrives
  BY NullAssumption DEF EditArrives, EditIsQueued, Converges
<1> QED
  BY <1>5, <1>6, <1>7, <1>8 DEF InStep

\* An edit outdates the diffs in progress and queues the resync that will notice it.
LEMMA EditKeeps ==
  ASSUME InStep, Edit, flow' \in [DOMAIN flow' -> Step], IsFiniteSet(DOMAIN flow'),
         DOMAIN flow' \subseteq used', used \subseteq used', used' \subseteq StepIds
  PROVE  InStep'
<1> USE DEF InStep
<1>0. /\ version' = version + 1 /\ promised' = version + 1
      /\ queued' = queued + 1 /\ version < MaxEdits
      /\ live' = live /\ enr' = enr /\ rows' = rows /\ reading' = reading /\ plan' = plan
      /\ newest' = newest /\ applied' = applied /\ overlapped' = overlapped /\ lost' = lost
  BY DEF Edit, hist
<1>1. Running' = Running
  BY <1>0 DEF Running
<1>2. /\ version \in Nat /\ promised \in 0..version /\ newest \in 0..version
      /\ queued \in Nat /\ queued \in 0..promised
  BY EditsAssumption DEF TypeOK
<1>3. /\ version' \in 0..MaxEdits /\ promised' \in 0..version' /\ newest \in 0..version'
      /\ queued' \in 0..promised' /\ queued' > 0
  BY <1>0, <1>2, EditsAssumption
<1>4. TypeOK'
  BY <1>0, <1>1, <1>2, <1>3 DEF TypeOK
<1>5. Finite'
  BY <1>0, <1>1 DEF Finite
<1>6. Handlers' /\ Unenrolled' /\ OwnStep' /\ DiffApplies'
  BY <1>0, <1>1 DEF Handlers, Unenrolled, OwnStep, DiffApplies
<1>7. \A r \in Running : plan[r].version # version'
  BY <1>0, <1>2 DEF DiffApplies
<1>8. Alone'
  BY <1>0, <1>1, <1>7 DEF Alone, Known, Noticed
<1>9. applied # version'
  BY <1>0, <1>2, NullAssumption DEF TypeOK
<1>10. EditArrives'
  BY <1>0, <1>3, <1>9 DEF EditArrives, EditIsQueued, Converges
<1> QED
  BY <1>4, <1>5, <1>6, <1>8, <1>10

\* A step is added, changed, moved or removed.
LEMMA EditsKeep ==
  ASSUME InStep, CreateStep \/ UpdateSteps \/ DeleteStep
  PROVE  InStep'
<1>0. flow \in [DOMAIN flow -> Step] /\ DOMAIN flow \subseteq used /\ used \subseteq StepIds
      /\ IsFiniteSet(DOMAIN flow)
  BY DEF InStep, TypeOK, Finite
<1>1. CASE CreateStep
  <2>1. PICK f \in StepIds \ used, v \in Step :
          /\ flow' = [g \in DOMAIN flow \cup {f} |-> IF g = f THEN v ELSE flow[g]]
          /\ used' = used \cup {f}
    BY <1>1 DEF CreateStep
  <2>2. DOMAIN flow' = DOMAIN flow \cup {f} /\ flow' \in [DOMAIN flow \cup {f} -> Step]
    BY <1>0, <2>1
  <2>3. IsFiniteSet(DOMAIN flow \cup {f})
    BY <1>0, FS_AddElement
  <2>4. Edit
    BY <1>1 DEF CreateStep
  <2> QED
    BY <1>0, <2>1, <2>2, <2>3, <2>4, EditKeeps
<1>2. CASE UpdateSteps
  <2>1. Edit /\ used' = used
    BY <1>2 DEF UpdateSteps
  <2>2. DOMAIN flow' = DOMAIN flow /\ flow' \in [DOMAIN flow -> Step]
    <3>1. CASE \E f \in DOMAIN flow, v \in Step : flow' = [flow EXCEPT ![f] = v]
      BY <1>0, <3>1
    <3>2. CASE \E p \in [DOMAIN flow -> Positions] :
                 flow' = [f \in DOMAIN flow |-> [flow[f] EXCEPT !.position = p[f]]]
      <4>1. PICK p \in [DOMAIN flow -> Positions] :
              flow' = [f \in DOMAIN flow |-> [flow[f] EXCEPT !.position = p[f]]]
        BY <3>2
      <4>2. \A f \in DOMAIN flow : [flow[f] EXCEPT !.position = p[f]] \in Step
        BY <1>0, <4>1 DEF Step
      <4> QED
        BY <4>1, <4>2
    <3> QED
      BY <1>2, <3>1, <3>2 DEF UpdateSteps
  <2> QED
    BY <1>0, <2>1, <2>2, EditKeeps
<1>3. CASE DeleteStep
  <2>1. PICK f \in DOMAIN flow : flow' = [g \in DOMAIN flow \ {f} |-> flow[g]]
    BY <1>3 DEF DeleteStep
  <2>2. DOMAIN flow' = DOMAIN flow \ {f} /\ flow' \in [DOMAIN flow \ {f} -> Step]
    BY <1>0, <2>1
  <2>3. IsFiniteSet(DOMAIN flow \ {f})
    BY <1>0, FS_RemoveElement
  <2>4. Edit /\ used' = used
    BY <1>3 DEF DeleteStep
  <2> QED
    BY <1>0, <2>2, <2>3, <2>4, EditKeeps
<1> QED
  BY <1>1, <1>2, <1>3

\* The template synchronisation removes steps: the diffs in progress are outdated, and no edit
\* that was promised a resync is touched.
LEMMA SyncKeeps == ASSUME InStep, SyncTemplates PROVE InStep'
<1> USE DEF InStep
<1>0. /\ version' = version + 1 /\ version < MaxEdits /\ used' = used
      /\ queued' = queued /\ promised' = promised
      /\ live' = live /\ enr' = enr /\ rows' = rows /\ reading' = reading /\ plan' = plan
      /\ newest' = newest /\ applied' = applied /\ overlapped' = overlapped /\ lost' = lost
  BY DEF SyncTemplates, hist
<1>1. Running' = Running
  BY <1>0 DEF Running
<1>2. /\ version \in Nat /\ promised \in 0..version /\ newest \in 0..version
      /\ queued \in 0..promised
  BY EditsAssumption DEF TypeOK
<1>3. version' \in 0..MaxEdits /\ promised \in 0..version' /\ newest \in 0..version'
  BY <1>0, <1>2, EditsAssumption
<1>4. PICK gone \in SUBSET DOMAIN flow : flow' = [g \in DOMAIN flow \ gone |-> flow[g]]
  BY DEF SyncTemplates
<1>5. DOMAIN flow' = DOMAIN flow \ gone /\ flow' \in [DOMAIN flow' -> Step]
  BY <1>4 DEF TypeOK
<1>6. IsFiniteSet(DOMAIN flow')
  BY <1>5, FS_Subset DEF Finite
<1>7. TypeOK'
  BY <1>0, <1>1, <1>2, <1>3, <1>5 DEF TypeOK
<1>8. Finite'
  BY <1>0, <1>1, <1>6 DEF Finite
<1>9. Handlers' /\ Unenrolled' /\ OwnStep' /\ DiffApplies'
  BY <1>0, <1>1 DEF Handlers, Unenrolled, OwnStep, DiffApplies
<1>10. \A r \in Running : plan[r].version # version'
  BY <1>0, <1>2 DEF DiffApplies
<1>11. Alone'
  BY <1>0, <1>1, <1>10 DEF Alone, Known, Noticed
<1>12. applied # version'
  BY <1>0, <1>2, NullAssumption DEF TypeOK
<1>13. EditArrives'
  BY <1>0, <1>12 DEF EditArrives, EditIsQueued, Converges
<1> QED
  BY <1>7, <1>8, <1>9, <1>11, <1>13

\* The flow is deleted: what is in progress no longer has a flow to agree with.
LEMMA DeleteFlowKeeps == ASSUME InStep, DeleteFlow PROVE InStep'
<1> USE DEF InStep
<1>0. /\ live /\ ~live' /\ flow' = <<>> /\ used' = used /\ version' = version /\ promised' = promised
      /\ queued' = queued /\ enr' = enr /\ rows' = rows /\ reading' = reading /\ plan' = plan
      /\ newest' = newest /\ applied' = applied /\ overlapped' = overlapped /\ lost' = lost
  BY DEF DeleteFlow, hist, TypeOK
<1>1. Running' = Running
  BY <1>0 DEF Running
<1>2. live' \in BOOLEAN
  BY DEF DeleteFlow
<1>3. DOMAIN flow' = {} /\ flow' \in [DOMAIN flow' -> Step]
  BY <1>0
<1>4. IsFiniteSet({})
  BY FS_EmptySet
<1>5. TypeOK'
  BY <1>0, <1>1, <1>2, <1>3 DEF TypeOK
<1>6. Finite'
  BY <1>0, <1>1, <1>3, <1>4 DEF Finite
<1>7. Handlers' /\ Unenrolled' /\ OwnStep' /\ DiffApplies'
  BY <1>0, <1>1 DEF Handlers, Unenrolled, OwnStep, DiffApplies
<1>8. Alone'
  BY <1>0, <1>1 DEF Alone, Known, Noticed
<1>9. EditArrives'
  BY <1>0 DEF EditArrives, EditIsQueued, Converges
<1> QED
  BY <1>5, <1>6, <1>7, <1>8, <1>9

\* An enrollment reads the flow.
LEMMA BeginEnrollKeeps ==
  ASSUME InStep, NEW e \in Enrollers, BeginEnroll(e) PROVE InStep'
<1> USE DEF InStep
<1>0. /\ live' = live /\ flow' = flow /\ used' = used /\ version' = version /\ promised' = promised
      /\ queued' = queued /\ enr' = enr /\ rows' = rows /\ plan' = plan
      /\ newest' = newest /\ applied' = applied /\ overlapped' = overlapped /\ lost' = lost
      /\ reading' = [reading EXCEPT ![e] = flow]
  BY DEF BeginEnroll, hist, edited
<1>1. Running' = Running
  BY <1>0 DEF Running
<1>2. \A d \in Enrollers : reading'[d] = reading[d] \/ reading'[d] = flow
  BY <1>0 DEF Handlers
<1>5. TypeOK'
  BY <1>0, <1>1, <1>2 DEF TypeOK
<1>6. Finite'
  BY <1>0, <1>1, <1>2 DEF Finite, TypeOK
<1>7. Handlers' /\ Unenrolled' /\ OwnStep' /\ DiffApplies'
  BY <1>0, <1>1 DEF Handlers, Unenrolled, OwnStep, DiffApplies
<1>8. Alone'
  BY <1>0, <1>1 DEF Alone, Known, Noticed
<1>9. EditArrives'
  BY <1>0 DEF EditArrives, EditIsQueued, Converges
<1> QED
  BY <1>5, <1>6, <1>7, <1>8, <1>9

\* A resync that fails leaves the enrollment as it is; a lost job is a lost resync.
LEMMA LossKeeps ==
  ASSUME InStep, LoseJob \/ \E r \in Resyncs : ResyncFails(r) PROVE InStep'
<1> USE DEF InStep
<1>0. /\ live' = live /\ flow' = flow /\ used' = used /\ version' = version /\ promised' = promised
      /\ enr' = enr /\ rows' = rows /\ reading' = reading
      /\ newest' = newest /\ applied' = applied /\ overlapped' = overlapped /\ lost'
  BY DEF LoseJob, ResyncFails, edited
<1>1. queued' \in 0..promised
  <2>1. CASE LoseJob
    BY <2>1, EditsAssumption DEF LoseJob, TypeOK
  <2>2. CASE \E r \in Resyncs : ResyncFails(r)
    BY <2>2 DEF ResyncFails, TypeOK
  <2> QED
    BY <2>1, <2>2
<1>2. DOMAIN plan' = Resyncs /\ \A r \in Running' : r \in Running /\ plan'[r] = plan[r]
  <2>1. CASE LoseJob
    BY <2>1 DEF LoseJob, Running, Handlers
  <2>2. CASE \E r \in Resyncs : ResyncFails(r)
    <3>1. PICK r \in Resyncs : ResyncFails(r)
      BY <2>2
    <3>2. plan' = [plan EXCEPT ![r] = Null]
      BY <3>1 DEF ResyncFails
    <3> QED
      BY <3>2 DEF Running, Handlers
  <2> QED
    BY <2>1, <2>2
<1>5. TypeOK'
  BY <1>0, <1>1, <1>2 DEF TypeOK
<1>6. Finite'
  BY <1>0, <1>2 DEF Finite
<1>7. Handlers' /\ Unenrolled' /\ OwnStep' /\ DiffApplies'
  BY <1>0, <1>2 DEF Handlers, Unenrolled, OwnStep, DiffApplies
<1>8. Alone'
  BY <1>0, <1>2 DEF Alone, Known, Noticed
<1>9. EditArrives'
  BY <1>0 DEF EditArrives, EditIsQueued, Converges
<1> QED
  BY <1>5, <1>6, <1>7, <1>8, <1>9
-----------------------------------------------------------------------------
(* Enrollment and dispatch *)

\* The enrollment's rows are written when no resync has begun.
LEMMA CommitEnrollKeeps ==
  ASSUME InStep, NEW e \in Enrollers, CommitEnroll(e) PROVE InStep'
<1> USE DEF InStep
<1>0. /\ live' = live /\ flow' = flow /\ used' = used /\ version' = version /\ promised' = promised
      /\ queued' = queued /\ plan' = plan
      /\ newest' = newest /\ applied' = applied /\ overlapped' = overlapped /\ lost' = lost
      /\ reading[e] # Null /\ reading' = [reading EXCEPT ![e] = Null]
  BY DEF CommitEnroll, hist, edited
<1>1. Running' = Running
  BY <1>0 DEF Running
<1>2. \A d \in Enrollers : reading'[d] = reading[d] \/ reading'[d] = Null
  BY <1>0 DEF Handlers
<1>3. CASE enr' = enr /\ rows' = rows
  <2>5. TypeOK'
    BY <1>0, <1>1, <1>2, <1>3 DEF TypeOK
  <2>6. Finite'
    BY <1>0, <1>1, <1>2, <1>3 DEF Finite
  <2>7. Handlers' /\ Unenrolled' /\ OwnStep' /\ DiffApplies'
    BY <1>0, <1>1, <1>3 DEF Handlers, Unenrolled, OwnStep, DiffApplies
  <2>8. Alone'
    BY <1>0, <1>1, <1>3 DEF Alone, Known, Noticed
  <2>9. EditArrives'
    BY <1>0, <1>3 DEF EditArrives, EditIsQueued, Converges
  <2> QED
    BY <2>5, <2>6, <2>7, <2>8, <2>9
<1>4. CASE enr = "none" /\ enr' = "active" /\ \E q \in Orders(reading[e]) : rows' = FirstRows(reading[e], q)
  <2> DEFINE fl == reading[e]
  <2>1. PICK q \in Orders(fl) : rows' = FirstRows(fl, q)
    BY <1>4
  <2>2. fl \in [DOMAIN fl -> Step] /\ IsFiniteSet(DOMAIN fl) /\ DOMAIN fl \subseteq used
    BY <1>0 DEF TypeOK, Finite
  <2>3. /\ IsFiniteSet(DOMAIN rows') /\ DOMAIN rows' = {<<f, 1>> : f \in DOMAIN fl}
        /\ rows' \in [DOMAIN rows' -> Row] /\ \A x \in DOMAIN rows' : rows'[x].fs = Null
    BY <2>1, <2>2, FirstRowsAre
  <2>4. Running = {} /\ applied = Null
    BY <1>4 DEF Unenrolled
  <2> HIDE DEF fl
  <2>5. DOMAIN rows' \subseteq used \X Nat
    <3>1. \A f \in DOMAIN fl : <<f, 1>> \in used \X Nat
      BY <2>2
    <3> QED
      BY <2>3, <3>1
  <2>6. TypeOK'
    BY <1>0, <1>1, <1>2, <1>4, <2>3, <2>5 DEF TypeOK
  <2>7. Finite'
    BY <1>0, <1>1, <1>2, <2>3 DEF Finite
  <2>8. Handlers' /\ Unenrolled' /\ OwnStep' /\ DiffApplies'
    BY <1>0, <1>1, <1>4, <2>3, <2>4 DEF Handlers, Unenrolled, OwnStep, DiffApplies
  <2>9. Alone'
    BY <1>0, <1>1, <2>3, <2>4 DEF Alone
  <2>10. applied' # version'
    BY <1>0, <2>4, NullAssumption, EditsAssumption DEF TypeOK
  <2>11. EditArrives'
    BY <1>0, <2>10 DEF EditArrives, EditIsQueued, Converges
  <2> QED
    BY <2>6, <2>7, <2>8, <2>9, <2>11
<1> QED
  BY <1>3, <1>4 DEF CommitEnroll

\* A dispatch changes the status of a pending row and nothing else in the rows.
LEMMA DispatchKeeps ==
  ASSUME InStep, NEW x \in DOMAIN rows, Dispatch(x) PROVE InStep'
<1> USE DEF InStep
<1>0. /\ live' = live /\ flow' = flow /\ used' = used /\ version' = version /\ promised' = promised
      /\ queued' = queued /\ plan' = plan /\ reading' = reading
      /\ newest' = newest /\ applied' = applied /\ overlapped' = overlapped /\ lost' = lost
      /\ enr' \in {enr, "completed"}
  BY DEF Dispatch, hist, edited
<1>1. Running' = Running
  BY <1>0 DEF Running
<1>2. PICK status \in Outcomes : rows' = [rows EXCEPT ![x].status = status]
  BY DEF Dispatch
<1>3. status \in Statuses /\ status # "pending"
  BY OutcomesAssumption DEF Statuses
<1>4. DOMAIN rows' = DOMAIN rows
  BY <1>2
<1>5. \A y \in DOMAIN rows :
        /\ rows'[y] \in Row /\ rows'[y].fs = rows[y].fs
        /\ rows'[y].delay = rows[y].delay /\ rows'[y].content = rows[y].content
        /\ rows'[y].status = "pending" => rows[y].status = "pending"
  BY <1>2, <1>3 DEF TypeOK, Row
<1>6. rows' \in [DOMAIN rows' -> Row]
  BY <1>2, <1>4, <1>5 DEF TypeOK
<1>7. Known(rows') = Known(rows)
  BY <1>4, <1>5 DEF Known
<1>8. \A f : RowsOf(f, rows') = RowsOf(f, rows)
  BY <1>4, <1>5 DEF RowsOf
<1>9. enr # "none" /\ enr' # "none"
  <2>1. enr = "none" => rows = <<>>
    BY DEF Unenrolled
  <2> QED
    BY <1>0, <2>1
<1>10. TypeOK'
  BY <1>0, <1>1, <1>4, <1>6 DEF TypeOK
<1>11. Finite'
  BY <1>0, <1>1, <1>4 DEF Finite
<1>12. Handlers' /\ Unenrolled' /\ OwnStep' /\ DiffApplies'
  BY <1>0, <1>1, <1>4, <1>5, <1>9 DEF Handlers, Unenrolled, OwnStep, DiffApplies
<1>13. \A r \in Running : \A y \in DOMAIN rows : Noticed(plan[r], y) => Noticed(plan[r], y)'
  BY <1>0, <1>5 DEF Noticed
<1>14. Alone'
  BY <1>0, <1>1, <1>4, <1>5, <1>7, <1>13 DEF Alone
<1>15. Mirrors(flow, rows) => Mirrors(flow', rows')
  BY <1>0, <1>4, <1>5, <1>8 DEF Mirrors
<1>16. EditArrives'
  BY <1>0, <1>15 DEF EditArrives, EditIsQueued, Converges
<1> QED
  BY <1>10, <1>11, <1>12, <1>14, <1>16
-----------------------------------------------------------------------------
(* Resyncs *)

\* What compute_diff finds out. Of a step with several rows it looks at one, so it misses
\* nothing if no step has two.
LEMMA DiffIs ==
  ASSUME InStep, NEW d \in Indexes(rows), NEW p,
         p = [flow |-> flow, diff |-> Diff(flow, rows, d), version |-> version]
  PROVE  /\ p.diff.add = DOMAIN flow \ Known(rows)
         /\ \A x \in p.diff.reschedule \cup p.diff.update :
              x \in DOMAIN rows /\ rows[x].fs \in DOMAIN flow
         /\ (\A x, y \in DOMAIN rows : rows[x].fs # Null /\ rows[x].fs = rows[y].fs => x = y) =>
              \A x \in DOMAIN rows : rows[x].fs # Null /\ rows[x].status = "pending" =>
                Noticed(p, x)
<1> DEFINE open == {f \in DOMAIN flow \cap DOMAIN d : rows[d[f]].status = "pending"}
           moved == {f \in open : rows[d[f]].delay # flow[f].delay}
           new == {g \in open \ moved : rows[d[g]].content # flow[g].content}
<1>1. /\ p.flow = flow /\ p.diff.add = DOMAIN flow \ DOMAIN d
      /\ p.diff.reschedule = {d[f] : f \in moved} /\ p.diff.update = {d[f] : f \in new}
      /\ p.diff.cancel = {x \in DOMAIN rows : /\ rows[x].fs # Null /\ rows[x].fs \notin DOMAIN flow
                                              /\ rows[x].status = "pending"}
  BY DEF Diff
<1>2. DOMAIN d = Known(rows) /\ \A f \in Known(rows) : d[f] \in DOMAIN rows /\ rows[d[f]].fs = f
  BY DEF Indexes, RowsOf
<1>3. ASSUME NEW x \in p.diff.reschedule \cup p.diff.update
      PROVE  x \in DOMAIN rows /\ rows[x].fs \in DOMAIN flow
  <2>1. PICK f \in open : x = d[f]
    BY <1>1
  <2> QED
    BY <1>2, <2>1
<1>4. ASSUME \A x, y \in DOMAIN rows : rows[x].fs # Null /\ rows[x].fs = rows[y].fs => x = y,
             NEW x \in DOMAIN rows, rows[x].fs # Null, rows[x].status = "pending"
      PROVE  Noticed(p, x)
  <2> DEFINE f == rows[x].fs
  <2>1. f \in Known(rows)
    BY <1>4 DEF Known
  <2>2. d[f] = x
    BY <1>2, <1>4, <2>1
  <2>3. CASE f \notin DOMAIN flow
    BY <1>1, <1>4, <2>3 DEF Noticed
  <2>4. CASE f \in DOMAIN flow
    <3>1. f \in open
      BY <1>2, <1>4, <2>1, <2>2, <2>4
    <3>2. f \in moved => x \in p.diff.reschedule
      BY <1>1, <2>2
    <3>3. f \in new => x \in p.diff.update
      BY <1>1, <2>2
    <3>4. f \notin moved => rows[x].delay = flow[f].delay
      BY <2>2, <3>1
    <3>5. f \notin moved /\ f \notin new => rows[x].content = flow[f].content
      BY <2>2, <3>1
    <3> HIDE DEF open, moved, new
    <3> QED
      BY <1>1, <2>4, <3>2, <3>3, <3>4, <3>5 DEF Noticed
  <2> QED
    BY <2>3, <2>4
<1> QED
  BY <1>1, <1>2, <1>3, <1>4

\* A resync reads flow and enrollment at their latest version.
LEMMA ReadKeeps == ASSUME InStep, NEW r \in Resyncs, ResyncReads(r) PROVE InStep'
<1> USE DEF InStep
<1>0. /\ live' = live /\ flow' = flow /\ used' = used /\ version' = version /\ promised' = promised
      /\ queued' = queued - 1 /\ queued > 0 /\ reading' = reading /\ rows' = rows /\ enr' = enr
      /\ newest' = version /\ applied' = applied /\ lost' = lost /\ plan[r] = Null
  BY DEF ResyncReads, edited
<1>1. /\ version \in Nat /\ promised \in 0..version /\ queued' \in 0..promised'
      /\ newest' \in 0..version' /\ newest \in 0..newest'
  BY <1>0, EditsAssumption DEF TypeOK
<1>2. applied \in 0..newest' \cup {Null} /\ \A v \in 0..newest : v \in 0..newest'
  BY <1>1 DEF TypeOK
<1>3. EditArrives'
  <2>1. overlapped => overlapped'
    BY DEF ResyncReads
  <2>2. ~(newest' < promised')
    BY <1>0, <1>1
  <2> QED
    BY <1>0, <2>1, <2>2 DEF EditArrives, EditIsQueued, Converges
<1>4. CASE plan' = plan /\ overlapped' = overlapped
  <2>1. Running' = Running
    BY <1>4 DEF Running
  <2>2. TypeOK'
    BY <1>0, <1>1, <1>2, <1>4, <2>1 DEF TypeOK
  <2>3. Finite' /\ Handlers' /\ Unenrolled' /\ OwnStep'
    BY <1>0, <1>4, <2>1 DEF Finite, Handlers, Unenrolled, OwnStep
  <2>4. DiffApplies'
    BY <1>0, <1>2, <1>4, <2>1 DEF DiffApplies
  <2>5. Alone'
    BY <1>0, <1>4, <2>1 DEF Alone, Known, Noticed
  <2> QED
    BY <1>3, <2>2, <2>3, <2>4, <2>5
<1>5. CASE /\ enr = "active" /\ overlapped' = (overlapped \/ Running # {})
           /\ \E d \in Indexes(rows) :
                plan' = [plan EXCEPT ![r] = [flow |-> flow, diff |-> Diff(flow, rows, d),
                                             version |-> version]]
  <2>1. PICK d \in Indexes(rows) :
          plan' = [plan EXCEPT ![r] = [flow |-> flow, diff |-> Diff(flow, rows, d),
                                       version |-> version]]
    BY <1>5
  <2> DEFINE p == [flow |-> flow, diff |-> Diff(flow, rows, d), version |-> version]
  <2>2. /\ p.diff.add = DOMAIN flow \ Known(rows)
        /\ \A x \in p.diff.reschedule \cup p.diff.update :
             x \in DOMAIN rows /\ rows[x].fs \in DOMAIN flow
        /\ (\A x, y \in DOMAIN rows : rows[x].fs # Null /\ rows[x].fs = rows[y].fs => x = y) =>
             \A x \in DOMAIN rows : rows[x].fs # Null /\ rows[x].status = "pending" =>
               Noticed(p, x)
    BY DiffIs
  <2>3. p.flow = flow /\ p.version = version
    OBVIOUS
  <2>4. DOMAIN plan' = Resyncs /\ plan'[r] = p /\ \A s \in Resyncs : s # r => plan'[s] = plan[s]
    BY <2>1 DEF Handlers
  <2> HIDE DEF p
  <2>5. \A s \in Running' : s = r \/ (s \in Running /\ plan'[s] = plan[s])
    BY <2>4 DEF Running
  <2>6. TypeOK'
    BY <1>0, <1>1, <1>2, <1>5, <2>3, <2>4, <2>5 DEF TypeOK
  <2>7. Finite'
    BY <1>0, <2>3, <2>4, <2>5 DEF Finite, TypeOK
  <2>8. Handlers' /\ Unenrolled' /\ OwnStep'
    BY <1>0, <1>5, <2>4 DEF Handlers, Unenrolled, OwnStep
  <2>9. DiffApplies'
    BY <1>0, <1>1, <1>2, <2>2, <2>3, <2>4, <2>5 DEF DiffApplies
  <2>10. Alone'
    <3> SUFFICES ASSUME ~overlapped' PROVE Alone'
      BY DEF Alone
    <3>1. ~overlapped /\ Running = {}
      BY <1>5
    <3>2. \A s \in Running' : s = r
      BY <3>1, <2>5
    <3>3. \A x, y \in DOMAIN rows : rows[x].fs # Null /\ rows[x].fs = rows[y].fs => x = y
      BY <3>1 DEF Alone
    <3> QED
      BY <1>0, <2>2, <2>3, <2>4, <3>2, <3>3 DEF Alone, Known, Noticed
  <2> QED
    BY <1>3, <2>6, <2>7, <2>8, <2>9, <2>10
<1> QED
  BY <1>4, <1>5 DEF ResyncReads
\* Finitely many steps get finitely many new keys.
LEMMA FreshFinite ==
  ASSUME NEW rs, NEW A, IsFiniteSet(A)
  PROVE  IsFiniteSet({Fresh(rs, f) : f \in A})
<1> DEFINE T == {Fresh(rs, f) : f \in A}
           g == [f \in A |-> Fresh(rs, f)]
<1>1. g \in [A -> T]
  OBVIOUS
<1>2. T = {g[f] : f \in A}
  OBVIOUS
<1> HIDE DEF g, T
<1>3. IsFiniteSet({g[f] : f \in A})
  BY <1>1, ImageFinite
<1> QED
  BY <1>2, <1>3 DEF T

\* What a resync makes of the rows: new ones for the steps it adds, the others by the diff.
Applied(rs, p) ==
  LET new == {Fresh(rows, f) : f \in p.diff.add}
  IN /\ DOMAIN rs = DOMAIN rows \cup new /\ IsFiniteSet(DOMAIN rs)
     /\ DOMAIN rs \subseteq used \X Nat /\ rs \in [DOMAIN rs -> Row]
     /\ \A x \in new : /\ x[1] \in p.diff.add /\ x = Fresh(rows, x[1]) /\ rs[x].fs = x[1]
                       /\ rs[x].delay = p.flow[x[1]].delay
                       /\ rs[x].content = p.flow[x[1]].content
     /\ \A x \in DOMAIN rows \ new :
          /\ rs[x].fs = rows[x].fs
          /\ rs[x].status = "pending" =>
               /\ rows[x].status = "pending"
               /\ IF x \in p.diff.reschedule \cup p.diff.update
                    THEN /\ rs[x].delay = p.flow[rows[x].fs].delay
                         /\ rs[x].content = p.flow[rows[x].fs].content
                    ELSE /\ x \notin p.diff.cancel
                         /\ rs[x].delay = rows[x].delay
                         /\ rs[x].content = rows[x].content

\* The new rows are of flow steps the enrollment has got none for; the old ones keep their step.
LEMMA ApplyIs ==
  ASSUME InStep, NEW r \in Running, NEW p, p = plan[r]
  PROVE  Applied(Apply(rows, p.flow, p.diff), p)
<1> USE DEF InStep
<1> DEFINE rs == Apply(rows, p.flow, p.diff)
           new == {Fresh(rows, f) : f \in p.diff.add}
           fl == p.flow
<1>1. /\ fl \in [DOMAIN fl -> Step] /\ IsFiniteSet(DOMAIN fl) /\ DOMAIN fl \subseteq used
      /\ p.diff.add \subseteq DOMAIN fl
      /\ \A x \in p.diff.reschedule \cup p.diff.update :
           x \in DOMAIN rows /\ rows[x].fs \in DOMAIN fl
  BY DEF TypeOK, Finite, DiffApplies
<1>2. \A f \in DOMAIN fl : /\ fl[f].delay \in Delays /\ fl[f].content \in Contents
                           /\ RunAt(fl, f) \in Nat
  <2> SUFFICES ASSUME NEW f \in DOMAIN fl
               PROVE  fl[f].delay \in Delays /\ fl[f].content \in Contents /\ RunAt(fl, f) \in Nat
    OBVIOUS
  <2>1. fl[f].delay \in Delays /\ fl[f].content \in Contents
    BY <1>1 DEF Step
  <2>2. {g \in DOMAIN fl : fl[g].position <= fl[f].position} \in SUBSET DOMAIN fl
    OBVIOUS
  <2>3. RunAt(fl, f) \in Nat
    BY <1>1, <2>2, RunAtIsNat DEF RunAt
  <2> QED
    BY <2>1, <2>3
<1>3. \A f : Fresh(rows, f) = <<f, 1 + Cardinality({x \in DOMAIN rows : x[1] = f})>>
  BY DEF Fresh
<1>4. \A f : 1 + Cardinality({x \in DOMAIN rows : x[1] = f}) \in Nat
  <2> SUFFICES ASSUME NEW f PROVE 1 + Cardinality({x \in DOMAIN rows : x[1] = f}) \in Nat
    OBVIOUS
  <2>1. {x \in DOMAIN rows : x[1] = f} \in SUBSET DOMAIN rows
    OBVIOUS
  <2>2. Cardinality({x \in DOMAIN rows : x[1] = f}) \in Nat
    BY <2>1, FS_Subset, FS_CardinalityType DEF Finite
  <2> QED
    BY <2>2
<1>5. ASSUME NEW f \in p.diff.add PROVE Fresh(rows, f) \in used \X Nat
  <2> DEFINE n == 1 + Cardinality({x \in DOMAIN rows : x[1] = f})
  <2>1. f \in used /\ n \in Nat
    BY <1>1, <1>4
  <2>2. Fresh(rows, f) = <<f, n>>
    BY <1>3
  <2> HIDE DEF n
  <2> QED
    BY <2>1, <2>2
<1>6. ASSUME NEW x \in new PROVE x[1] \in p.diff.add /\ x = Fresh(rows, x[1])
  <2>1. PICK f \in p.diff.add : x = Fresh(rows, f)
    OBVIOUS
  <2> DEFINE n == 1 + Cardinality({y \in DOMAIN rows : y[1] = f})
  <2>2. x = <<f, n>>
    BY <1>3, <2>1
  <2> HIDE DEF n
  <2>3. x[1] = f
    BY <2>2
  <2> QED
    BY <2>1, <2>3
<1>7. IsFiniteSet(new)
  <2>1. IsFiniteSet(p.diff.add)
    BY <1>1, FS_Subset
  <2> QED
    BY <2>1, FreshFinite
<1>8. DOMAIN rs = DOMAIN rows \cup new
  BY DEF Apply
<1>9. IsFiniteSet(DOMAIN rs)
  <2>1. IsFiniteSet(DOMAIN rows)
    BY DEF Finite
  <2>2. IsFiniteSet(DOMAIN rows \cup new)
    BY ONLY <1>7, <2>1, FS_Union
  <2> QED
    BY <1>8, <2>2
<1>10. DOMAIN rs \subseteq used \X Nat
  BY <1>5, <1>8 DEF TypeOK
<1>11. ASSUME NEW x \in new
       PROVE  /\ rs[x] \in Row /\ rs[x].fs = x[1] /\ rs[x].delay = fl[x[1]].delay
              /\ rs[x].content = fl[x[1]].content
  <2>1. rs[x] = [fs |-> x[1], status |-> "pending", delay |-> fl[x[1]].delay,
                 content |-> fl[x[1]].content, runAt |-> RunAt(fl, x[1])]
    BY DEF Apply
  <2>2. x[1] \in DOMAIN fl /\ x[1] \in StepIds
    BY <1>1, <1>6 DEF TypeOK
  <2> QED
    BY <1>2, <2>1, <2>2 DEF Row, Statuses
<1>12. ASSUME NEW x \in DOMAIN rows \ new
       PROVE  /\ rs[x] \in Row /\ rs[x].fs = rows[x].fs
              /\ rs[x].status = "pending" =>
                   /\ rows[x].status = "pending"
                   /\ IF x \in p.diff.reschedule \cup p.diff.update
                        THEN /\ rs[x].delay = fl[rows[x].fs].delay
                             /\ rs[x].content = fl[rows[x].fs].content
                        ELSE /\ x \notin p.diff.cancel
                             /\ rs[x].delay = rows[x].delay
                             /\ rs[x].content = rows[x].content
  <2>1. rs[x] = IF rows[x].status # "pending" THEN rows[x]
                ELSE IF x \in p.diff.reschedule
                  THEN [Copied(rows[x], fl, rows[x].fs) EXCEPT !.runAt = RunAt(fl, rows[x].fs)]
                ELSE IF x \in p.diff.update THEN Copied(rows[x], fl, rows[x].fs)
                ELSE IF x \in p.diff.cancel THEN [rows[x] EXCEPT !.status = "cancelled"]
                ELSE rows[x]
    BY DEF Apply
  <2>2. rows[x] \in Row
    BY DEF TypeOK
  <2>3. x \in p.diff.reschedule \cup p.diff.update =>
          LET f == rows[x].fs IN
          fl[f].delay \in Delays /\ fl[f].content \in Contents /\ RunAt(fl, f) \in Nat
    BY <1>1, <1>2
  <2> HIDE DEF rs, new
  <2> DEFINE f == rows[x].fs
  <2>4. CASE rows[x].status # "pending"
    BY <2>1, <2>2, <2>4
  <2>5. CASE rows[x].status = "pending" /\ x \in p.diff.reschedule
    <3>1. rs[x] = [[rows[x] EXCEPT !.delay = fl[f].delay, !.content = fl[f].content]
                     EXCEPT !.runAt = RunAt(fl, f)]
      BY <2>1, <2>5 DEF Copied
    <3> QED
      BY <2>2, <2>3, <2>5, <3>1 DEF Row
  <2>6. CASE rows[x].status = "pending" /\ x \notin p.diff.reschedule /\ x \in p.diff.update
    <3>1. rs[x] = [rows[x] EXCEPT !.delay = fl[f].delay, !.content = fl[f].content]
      BY <2>1, <2>6 DEF Copied
    <3> QED
      BY <2>2, <2>3, <2>6, <3>1 DEF Row
  <2>7. CASE rows[x].status = "pending" /\ x \notin p.diff.reschedule \cup p.diff.update
    BY <2>1, <2>2, <2>7 DEF Row, Statuses
  <2> QED
    BY <2>4, <2>5, <2>6, <2>7
<1>13. rs \in [DOMAIN rs -> Row]
  <2>1. \A x \in DOMAIN rs : rs[x] \in Row
    BY <1>8, <1>11, <1>12
  <2>2. rs = [x \in DOMAIN rs |-> rs[x]]
    BY DEF Apply
  <2> HIDE DEF rs, new
  <2> QED
    BY <2>1, <2>2
<1> HIDE DEF rs, new
<1> QED
  BY <1>6, <1>8, <1>9, <1>10, <1>11, <1>12, <1>13 DEF Applied, rs, new
\* A resync commits its diff: alone, it makes the rows mirror the flow it has read.
LEMMA CommitKeeps == ASSUME InStep, NEW r \in Resyncs, ResyncCommits(r) PROVE InStep'
<1> USE DEF InStep
<1>2. PICK p : p = plan[r]
  OBVIOUS
<1> DEFINE fl == p.flow
           new == {Fresh(rows, f) : f \in p.diff.add}
<1>0. /\ live' = live /\ flow' = flow /\ used' = used /\ version' = version /\ promised' = promised
      /\ queued' = queued /\ reading' = reading /\ enr' = enr /\ newest' = newest
      /\ overlapped' = overlapped /\ lost' = lost /\ applied' = p.version
      /\ rows' = Apply(rows, fl, p.diff) /\ r \in Running
  BY <1>2 DEF ResyncCommits, edited, Running
<1>1. DOMAIN plan' = Resyncs /\ \A s \in Running' : s \in Running /\ s # r /\ plan'[s] = plan[s]
  <2>1. plan' = [plan EXCEPT ![r] = Null]
    BY DEF ResyncCommits
  <2> QED
    BY <2>1 DEF Running, Handlers
<1>2a. Applied(rows', p)
  BY <1>0, <1>2, ApplyIs
<1>3. /\ DOMAIN rows' = DOMAIN rows \cup new /\ IsFiniteSet(DOMAIN rows')
      /\ DOMAIN rows' \subseteq used \X Nat /\ rows' \in [DOMAIN rows' -> Row]
      /\ \A x \in new : /\ x[1] \in p.diff.add /\ x = Fresh(rows, x[1]) /\ rows'[x].fs = x[1]
                        /\ rows'[x].delay = fl[x[1]].delay
                        /\ rows'[x].content = fl[x[1]].content
      /\ \A x \in DOMAIN rows \ new :
           /\ rows'[x].fs = rows[x].fs
           /\ rows'[x].status = "pending" =>
                /\ rows[x].status = "pending"
                /\ IF x \in p.diff.reschedule \cup p.diff.update
                     THEN /\ rows'[x].delay = fl[rows[x].fs].delay
                          /\ rows'[x].content = fl[rows[x].fs].content
                     ELSE /\ x \notin p.diff.cancel
                          /\ rows'[x].delay = rows[x].delay
                          /\ rows'[x].content = rows[x].content
  BY <1>2a DEF Applied
<1>4. /\ p.version \in 0..newest /\ DOMAIN fl \subseteq StepIds /\ p.diff.add \subseteq DOMAIN fl
      /\ \A f \in DOMAIN fl : f # Null
  BY <1>0, <1>2, NullAssumption DEF DiffApplies, Finite, TypeOK
<1> HIDE DEF new
<1>5. TypeOK'
  BY <1>0, <1>1, <1>3, <1>4 DEF TypeOK
<1>6. Finite' /\ Handlers'
  BY <1>0, <1>1, <1>3 DEF Finite, Handlers
<1>7. Unenrolled'
  BY <1>0 DEF Unenrolled
<1>8. OwnStep'
  BY <1>3 DEF OwnStep
<1>9. DiffApplies'
  <2> SUFFICES ASSUME NEW s \in Running', NEW x \in plan'[s].diff.reschedule \cup plan'[s].diff.update
               PROVE  x \in DOMAIN rows' /\ rows'[x].fs \in DOMAIN plan'[s].flow
    BY <1>0, <1>1 DEF DiffApplies
  <2>1. s \in Running /\ plan'[s] = plan[s]
    BY <1>1
  <2>2. x \in DOMAIN rows /\ rows[x].fs \in DOMAIN plan[s].flow
    BY <2>1 DEF DiffApplies
  <2>3. rows[x].fs # Null
    BY <2>1, <2>2, NullAssumption DEF Finite, TypeOK
  <2>4. rows[x].fs = x[1]
    BY <2>2, <2>3 DEF OwnStep
  <2>5. rows'[x].fs = rows[x].fs
    BY <1>3, <2>2, <2>4
  <2> QED
    BY <1>3, <2>1, <2>2, <2>5
<1>10. ASSUME ~overlapped
       PROVE  /\ Running' = {}
              /\ \A x, y \in DOMAIN rows' : rows'[x].fs # Null /\ rows'[x].fs = rows'[y].fs => x = y
  <2>1. p.diff.add = DOMAIN fl \ Known(rows) /\ \A s \in Running : s = r
    BY <1>0, <1>2, <1>10 DEF Alone
  <2>2. \A x, y \in DOMAIN rows : rows[x].fs # Null /\ rows[x].fs = rows[y].fs => x = y
    BY <1>10 DEF Alone
  <2>3. ASSUME NEW x \in new, NEW y \in DOMAIN rows \ new PROVE rows'[x].fs # rows'[y].fs
    <3>1. rows'[x].fs \notin Known(rows) /\ rows'[x].fs # Null
      BY <1>3, <1>4, <2>1
    <3>2. rows[y].fs # Null => rows[y].fs \in Known(rows)
      BY DEF Known
    <3> QED
      BY <1>3, <3>1, <3>2
  <2>4. \A x, y \in new : rows'[x].fs = rows'[y].fs => x = y
    BY <1>3
  <2>5. \A x, y \in DOMAIN rows \ new : rows'[x].fs # Null /\ rows'[x].fs = rows'[y].fs => x = y
    BY <1>3, <2>2
  <2> QED
    BY <1>1, <1>3, <2>1, <2>3, <2>4, <2>5
<1>11. Alone'
  BY <1>0, <1>10 DEF Alone
<1>12. Converges'
  <2> SUFFICES ASSUME applied' = version, live, ~overlapped PROVE Mirrors(flow, rows')
    BY <1>0 DEF Converges
  <2>1. fl = flow /\ p.diff.add = DOMAIN flow \ Known(rows)
    BY <1>0, <1>2 DEF Alone
  <2>2. \A x \in DOMAIN rows : rows[x].fs # Null /\ rows[x].status = "pending" => Noticed(p, x)
    BY <1>0, <1>2 DEF Alone
  <2>3. ASSUME NEW f \in DOMAIN flow PROVE Cardinality(RowsOf(f, rows')) = 1
    <3>1. \E x \in DOMAIN rows' : rows'[x].fs = f
      <4>1. CASE f \in Known(rows)
        <5>1. PICK x \in DOMAIN rows : rows[x].fs = f
          BY <4>1 DEF Known
        <5>2. x[1] = f
          BY <5>1, <1>4, <2>1 DEF OwnStep
        <5>3. rows'[x].fs = f
          BY <1>3, <5>1, <5>2
        <5> QED
          BY <1>3, <5>3
      <4>2. CASE f \notin Known(rows)
        <5> DEFINE x == Fresh(rows, f)
        <5>1. x \in new
          BY <2>1, <4>2 DEF new
        <5>2. x[1] = f
          BY DEF Fresh
        <5> HIDE DEF x
        <5> QED
          BY <1>3, <5>1, <5>2
      <4> QED
        BY <4>1, <4>2
    <3>2. PICK x \in DOMAIN rows' : rows'[x].fs = f
      BY <3>1
    <3>3. RowsOf(f, rows') = {x}
      BY <1>4, <1>10, <2>1, <3>2 DEF RowsOf
    <3> QED
      BY <3>3, FS_Singleton
  <2>4. ASSUME NEW x \in DOMAIN rows', rows'[x].fs # Null, rows'[x].status = "pending"
        PROVE  /\ rows'[x].fs \in DOMAIN flow
               /\ rows'[x].delay = flow[rows'[x].fs].delay
               /\ rows'[x].content = flow[rows'[x].fs].content
    <3>1. CASE x \in new
      BY <1>3, <1>4, <2>1, <3>1
    <3>2. CASE x \in DOMAIN rows \ new
      <4>1. rows'[x].fs = rows[x].fs /\ rows[x].status = "pending"
        BY <1>3, <2>4, <3>2
      <4>2. Noticed(p, x)
        BY <2>2, <2>4, <3>2, <4>1
      <4>3. CASE x \in p.diff.reschedule \cup p.diff.update
        <5>1. rows[x].fs \in DOMAIN flow
          BY <1>0, <1>2, <2>1, <4>3 DEF DiffApplies
        <5> QED
          BY <1>3, <2>1, <2>4, <3>2, <4>1, <4>3, <5>1
      <4>4. CASE x \notin p.diff.reschedule \cup p.diff.update
        <5>1. x \notin p.diff.cancel /\ rows'[x].delay = rows[x].delay /\ rows'[x].content = rows[x].content
          BY <1>3, <2>4, <3>2, <4>4
        <5> QED
          BY <2>1, <4>1, <4>2, <4>4, <5>1 DEF Noticed
      <4> QED
        BY <4>3, <4>4
    <3> QED
      BY <1>3, <3>1, <3>2
  <2> QED
    BY <2>3, <2>4 DEF Mirrors
<1>13. EditIsQueued'
  BY <1>0 DEF EditArrives, EditIsQueued
<1> QED
  BY <1>5, <1>6, <1>7, <1>8, <1>9, <1>11, <1>12, <1>13 DEF EditArrives

-----------------------------------------------------------------------------
(* Theorems *)

\* Whatever is edited, enrolled, resynchronised, dispatched or lost, InStep stays true.
LEMMA InStepStep == InStep /\ [Next]_vars => InStep'
<1> SUFFICES ASSUME InStep, [Next]_vars PROVE InStep'
  OBVIOUS
<1>1. CASE CreateStep \/ UpdateSteps \/ DeleteStep
  BY <1>1, EditsKeep
<1>2. CASE SyncTemplates \/ DeleteFlow
  BY <1>2, SyncKeeps, DeleteFlowKeeps
<1>3. ASSUME NEW e \in Enrollers, BeginEnroll(e) \/ CommitEnroll(e) PROVE InStep'
  BY <1>3, BeginEnrollKeeps, CommitEnrollKeeps
<1>4. ASSUME NEW r \in Resyncs, ResyncReads(r) \/ ResyncCommits(r) PROVE InStep'
  BY <1>4, ReadKeeps, CommitKeeps
<1>5. CASE LoseJob \/ \E r \in Resyncs : ResyncFails(r)
  BY <1>5, LossKeeps
<1>6. ASSUME NEW x \in DOMAIN rows, Dispatch(x) PROVE InStep'
  BY <1>6, DispatchKeeps
<1>7. CASE UNCHANGED vars
  <2>1. /\ live' = live /\ flow' = flow /\ used' = used /\ version' = version /\ promised' = promised
        /\ queued' = queued /\ reading' = reading /\ enr' = enr /\ rows' = rows /\ plan' = plan
        /\ newest' = newest /\ applied' = applied /\ overlapped' = overlapped /\ lost' = lost
    BY <1>7 DEF vars, edited, hist
  <2>2. Running' = Running
    BY <2>1 DEF Running
  <2>3. TypeOK' /\ Finite' /\ Handlers' /\ Unenrolled' /\ OwnStep' /\ DiffApplies'
    BY <2>1, <2>2 DEF InStep, TypeOK, Finite, Handlers, Unenrolled, OwnStep, DiffApplies
  <2>4. Alone'
    BY <2>1, <2>2 DEF InStep, Alone, Known, Noticed
  <2>5. EditArrives'
    BY <2>1 DEF InStep, EditArrives, EditIsQueued, Converges
  <2> QED
    BY <2>3, <2>4, <2>5 DEF InStep
<1> QED
  BY <1>1, <1>2, <1>3, <1>4, <1>5, <1>6, <1>7 DEF Next

\* InStep holds in every reachable state.
LEMMA InStepInvariant == Spec => []InStep
  BY InitInStep, InStepStep, PTL DEF Spec

\* The enrollment's rows keep their types, whatever resyncs overlap and whichever of them commits
\* last: each was made from an identity that the flow gave out, with a delay and a content that
\* a step may have, and is due at a time that is a number.
THEOREM FlowTypes == Spec => []TypeOK
<1>1. InStep => TypeOK
  BY DEF InStep
<1> QED
  BY <1>1, InStepInvariant, PTL

\* An edit of the flow in the panel commits with its resync, and the resync that has read the
\* latest change, whether an edit or a deletion by the template synchronisation, leaves the
\* enrollment a mirror of the flow, unless another resync ran at the same time.
THEOREM EditsArrive == Spec => []EditArrives
<1>1. InStep => EditArrives
  BY DEF InStep
<1> QED
  BY <1>1, InStepInvariant, PTL
=============================================================================
