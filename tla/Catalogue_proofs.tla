-------------------------- MODULE Catalogue_proofs --------------------------
(***************************************************************************)
(* The catalogue and the completions derived from it, for any titles,      *)
(* learners, dates, requests, catalogues, files and mixes of operations.   *)
(***************************************************************************)
EXTENDS Catalogue, FiniteSetTheorems, SequenceTheorems, WellFoundedInduction, TLAPS

----------------------------------------------------------------------------
(* The types                                                               *)

Batches == [parents: SUBSET Titles, learners: {Keep} \cup SUBSET Learners]
Creates == [who: Learners, title: Titles, date: Dates]
Updates == [id: Nat, date: Dates]
TitlesOrKeep == {Keep} \cup SUBSET Titles
Markers == [legacy: BOOLEAN, repl: SUBSET Titles]
Waiting == [title: Titles, repl: SUBSET Titles]

PlanOK(p) ==
  /\ p.creates \subseteq Creates /\ p.updates \subseteq Updates
  /\ p.deletes \subseteq Nat

\* What a handler that will write holds.
PutOK(b, s) ==
  /\ b.full \in FullTitles \cup {Keep} /\ b.type \in Types \cup {Keep}
  /\ b.subs \in TitlesOrKeep /\ b.parents \in TitlesOrKeep
  /\ b.choose \subseteq Classification /\ b.complete \in BOOLEAN /\ CompletionGate(b)
  /\ s.title \in Titles /\ s.target \in Titles
  /\ s.marks \in Markers \cup {Keep} /\ s.cert \in TitlesOrKeep

PatchOK(b, s) ==
  /\ DOMAIN s \subseteq Titles
  /\ b.cert \in TitlesOrKeep /\ b.subs \in TitlesOrKeep /\ b.parents \in TitlesOrKeep
  /\ b.legacy \in BOOLEAN \cup {Keep} /\ (b.legacy # Keep => b.repl \subseteq Titles)

ImportOK(b, s) ==
  /\ b.rows \in Seq(Cells) /\ s.repl \in Seq(Waiting) /\ s.links \subseteq Titles \X Titles

BodyOK(op, b, s) ==
  /\ op = "PostTaken" => b.who \in Learners /\ b.title \in Titles /\ b.date \in Dates
  /\ op = "PatchTaken" => b.date \in Dates
  /\ op \in {"PatchTaken", "DeleteTaken"} => s \in Taken
  /\ op = "PostTraining" => /\ b.title \in Titles /\ b.subs \subseteq Titles
                            /\ b.parents \subseteq Titles
                            /\ s \in Training /\ Reviewed(s)
  /\ op = "PutTraining" => PutOK(b, s)
  /\ op = "DeleteTraining" => s.parents \subseteq Titles
  /\ op = "PatchGroup" => PatchOK(b, s)
  /\ op \in {"RenameGroup", "MergeGroup", "MoveAliases"} => b.to \in FullTitles
  /\ op = "DeleteGroup" => s.parents \subseteq Titles
  /\ op = "OlxBackfill" => b.parents \subseteq Titles
  /\ op = "NormaliseLeadsTo" => \A t \in DOMAIN s : s[t] \subseteq Titles
  /\ op = "ImportCatalogue" => ImportOK(b, s)

RequestOK(r) ==
  /\ pc[r] \in {"idle", "write", "recompute", "apply", "done"}
  /\ todo[r] \subseteq Batches
  /\ pc[r] = "write" => BodyOK(call[r].op, call[r].body, call[r].seen)
  /\ pc[r] = "apply" => plan[r].batch \in todo[r] /\ PlanOK(plan[r])

RequestsOK ==
  /\ pc = [r \in Requests |-> pc[r]] /\ call = [r \in Requests |-> call[r]]
  /\ todo = [r \in Requests |-> todo[r]] /\ plan = [r \in Requests |-> plan[r]]
  /\ alone \subseteq Requests
  /\ \A r \in Requests : RequestOK(r)

TablesOK ==
  /\ Existing \subseteq Titles /\ training \in [Existing -> Training]
  /\ \A t \in Existing : Reviewed(training[t])
  /\ members \subseteq Existing \X Existing
  /\ taken \subseteq Taken /\ \A t \in taken : t.title \in Existing /\ t.id < nextId
  /\ \A t, u \in taken : t.id = u.id => t = u
  /\ nextId \in Nat /\ doubtful \subseteq Titles /\ typed \subseteq Titles

TypeInv == workload \in DOMAIN Workloads /\ TablesOK /\ RequestsOK

LEMMA TypeInvOK == TypeInv => TypeOK
<1> SUFFICES ASSUME TypeInv PROVE TypeOK
  OBVIOUS
<1>1. pc \in [Requests -> {"idle", "write", "recompute", "apply", "done"}]
  BY DEF TypeInv, RequestsOK, RequestOK
<1>2. QED BY <1>1 DEF TypeInv, TablesOK, RequestsOK, TypeOK

----------------------------------------------------------------------------
(* Requests                                                                *)

\* A request begins.
LEMMA BeginStep ==
  ASSUME TypeInv, NEW r \in Requests, NEW op, NEW body, NEW seen, Begin(r, op, body, seen),
         BodyOK(op, body, seen)
  PROVE  TypeInv'
<1>1. /\ pc' = [x \in Requests |-> IF x = r THEN "write" ELSE pc[x]]
      /\ call' = [x \in Requests |-> IF x = r THEN [op |-> op, body |-> body, seen |-> seen]
                                     ELSE call[x]]
      /\ UNCHANGED <<todo, plan>> /\ alone' \subseteq Requests
  BY DEF Begin, TypeInv, RequestsOK
<1>2. ASSUME NEW x \in Requests PROVE RequestOK(x)'
  <2>1. RequestOK(x)
    BY DEF TypeInv, RequestsOK
  <2>2. CASE x = r
    BY <1>1, <2>1, <2>2 DEF RequestOK
  <2>3. CASE x # r
    BY <1>1, <2>1, <2>3 DEF RequestOK
  <2>4. QED BY <2>2, <2>3
<1>3. RequestsOK'
  <2>1. todo = [x \in Requests |-> todo[x]] /\ plan = [x \in Requests |-> plan[x]]
    BY DEF TypeInv, RequestsOK
  <2>2. QED BY <1>1, <1>2, <2>1 DEF RequestsOK
<1>4. UNCHANGED <<workload, training, members, taken, nextId, typed>> /\ doubtful' \subseteq Titles
  BY DEF Begin, TypeInv, TablesOK
<1>5. QED BY <1>3, <1>4 DEF TypeInv, TablesOK, Existing, Reviewed

\* A request writes, and has these recomputations left.
LEMMA CommittedStep ==
  ASSUME RequestsOK, NEW r \in Requests, NEW batches \in SUBSET Batches,
         Committed(r, batches)
  PROVE  RequestsOK' /\ workload' = workload
<1>1. /\ pc' = [x \in Requests |->
                 IF x = r THEN IF batches = {} THEN "done" ELSE "recompute" ELSE pc[x]]
      /\ todo' = [x \in Requests |-> IF x = r THEN batches ELSE todo[x]]
      /\ UNCHANGED <<workload, call, plan, alone>>
  BY DEF Committed, Continues, RequestsOK
<1>2. ASSUME NEW x \in Requests PROVE RequestOK(x)'
  <2>1. RequestOK(x)
    BY DEF RequestsOK
  <2>2. CASE x = r
    BY <1>1, <2>1, <2>2 DEF RequestOK
  <2>3. CASE x # r
    BY <1>1, <2>1, <2>3 DEF RequestOK
  <2>4. QED BY <2>2, <2>3
<1>3. call = [x \in Requests |-> call[x]] /\ plan = [x \in Requests |-> plan[x]]
      /\ alone \subseteq Requests
  BY DEF RequestsOK
<1>4. QED BY <1>1, <1>2, <1>3 DEF RequestsOK

LEMMA FailsStep ==
  ASSUME TypeInv, NEW r \in Requests, Fails(r)
  PROVE  TypeInv'
<1>1. /\ pc' = [x \in Requests |-> IF x = r THEN "done" ELSE pc[x]]
      /\ todo' = [x \in Requests |-> IF x = r THEN {} ELSE todo[x]]
      /\ UNCHANGED <<workload, data, call, plan, alone>>
  BY DEF Fails, TypeInv, RequestsOK
<1>2. ASSUME NEW x \in Requests PROVE RequestOK(x)'
  <2>1. RequestOK(x)
    BY DEF TypeInv, RequestsOK
  <2>2. CASE x = r
    BY <1>1, <2>1, <2>2 DEF RequestOK
  <2>3. CASE x # r
    BY <1>1, <2>1, <2>3 DEF RequestOK
  <2>4. QED BY <2>2, <2>3
<1>3. call = [x \in Requests |-> call[x]] /\ plan = [x \in Requests |-> plan[x]]
      /\ alone \subseteq Requests
  BY DEF TypeInv, RequestsOK
<1>4. RequestsOK'
  BY <1>1, <1>2, <1>3 DEF RequestsOK
<1>5. QED BY <1>1, <1>4 DEF TypeInv, TablesOK, Existing, Reviewed, data

LEMMA WriteFailsType == ASSUME TypeInv, NEW r \in Requests, WriteFails(r) PROVE TypeInv'
<1>1. Fails(r)
  BY DEF WriteFails
<1>2. QED BY <1>1, FailsStep
----------------------------------------------------------------------------
(* Plans                                                                   *)

LEMMA LeastIsThere ==
  ASSUME NEW numbers \in SUBSET Nat, numbers # {}
  PROVE  \E x \in numbers : \A y \in numbers : x <= y
<1>1. PICK x \in numbers : \A y \in numbers : ~(<<y, x>> \in OpToRel(<, Nat))
  BY Zenon, NatLessThanWellFounded, WFMin
<1>2. \A y \in numbers : ~(y < x)
  BY <1>1 DEF OpToRel
<1>3. x \in Nat /\ \A y \in numbers : y \in Nat
  OBVIOUS
<1>4. QED BY <1>2, <1>3

\* Of finitely many dates one is the latest: or there is a least n such that the first
\* n of them have no bound.
LEMMA LatestIsThere ==
  ASSUME NEW days \in SUBSET Dates, days # {}
  PROVE  \E d \in days : \A e \in days : d >= e
<1>1. days \in SUBSET Nat /\ IsFiniteSet(days)
  BY ParamAssumption, FS_Subset
<1>2. PICK k \in Nat : ExistsSurjection(1 .. k, days)
  BY <1>1, FS_NatSurjection
<1>3. PICK f \in Surjection(1 .. k, days) : TRUE
  BY <1>2 DEF ExistsSurjection
<1>4. /\ f \in [1 .. k -> days]
      /\ \A n \in days : \E i \in 1 .. k : f[i] = n
  BY <1>3 DEF Surjection
<1> DEFINE Topped(i) == i = 0 \/ \E d \in days : \A j \in 1 .. i : d >= f[j]
           untopped == {i \in 0 .. k : ~Topped(i)}
<1>5. untopped = {}
  <2> SUFFICES ASSUME untopped # {} PROVE FALSE
    OBVIOUS
  <2>1. PICK i \in untopped : \A y \in untopped : i <= y
    <3>1. untopped \in SUBSET Nat
      OBVIOUS
    <3> HIDE DEF untopped
    <3>2. QED BY <3>1, LeastIsThere
  <2>2. i \in 0 .. k /\ ~Topped(i) /\ i # 0 /\ i \in Int
    BY <2>1
  <2>3. i \in 1 .. k /\ f[i] \in days
    BY <2>2, <1>4
  <2>4. Topped(i - 1)
    <3> HIDE DEF Topped
    <3>1. i - 1 \in 0 .. k /\ ~(i <= i - 1)
      BY <2>2
    <3>2. QED BY <2>1, <3>1
  <2>5. \E d \in days : \A j \in 1 .. i : d >= f[j]
    <3>1. CASE i - 1 = 0
      <4>1. \A j \in 1 .. i : j = i
        BY <3>1, <2>2
      <4>2. \A j \in 1 .. i : f[i] >= f[j]
        <5>1. f[i] \in Nat
          BY <2>3, <1>1
        <5>2. f[i] >= f[i]
          BY <5>1
        <5>3. QED BY <4>1, <5>2
      <4>3. QED BY <4>2, <2>3
    <3>2. CASE i - 1 # 0
      <4>1. PICK d \in days : \A j \in 1 .. i - 1 : d >= f[j]
        BY <2>4, <3>2
      <4>2. \A j \in 1 .. i : j \in 1 .. i - 1 \/ j = i
        BY <2>2
      <4>3. d \in Nat /\ f[i] \in Nat /\ \A j \in 1 .. k : f[j] \in Nat
        BY <1>1, <1>4, <2>3
      <4>4. CASE d >= f[i]
        BY <4>1, <4>2, <4>4
      <4>5. CASE f[i] >= d
        <5>1. \A j \in 1 .. i : f[i] >= f[j]
          BY <4>1, <4>2, <4>3, <4>5, <2>2
        <5>2. QED BY <5>1, <2>3
      <4>6. QED BY <4>3, <4>4, <4>5
    <3>3. QED BY <3>1, <3>2
  <2>6. QED BY <2>2, <2>5
<1>6. k # 0
  <2>1. PICK n : n \in days
    OBVIOUS
  <2>2. PICK i \in 1 .. k : f[i] = n
    BY <1>4, <2>1
  <2>3. QED BY <2>2
<1>7. Topped(k)
  <2> HIDE DEF Topped
  <2>1. k \in 0 .. k
    OBVIOUS
  <2>2. QED BY <1>5, <2>1
<1>8. PICK d \in days : \A j \in 1 .. k : d >= f[j]
  BY <1>6, <1>7
<1>9. QED BY <1>4, <1>8

LEMMA LatestIs ==
  ASSUME TablesOK, NEW rows \in SUBSET taken, rows # {}
  PROVE  /\ Latest(rows) \in Dates
         /\ \E t \in rows : t.date = Latest(rows)
         /\ \A t \in rows : Latest(rows) >= t.date
<1> DEFINE days == {t.date : t \in rows}
<1>1. days \in SUBSET Dates /\ days # {}
  BY DEF TablesOK, Taken
<1>2. \E d \in days : \A t \in rows : d >= t.date
  <2>1. PICK d \in days : \A e \in days : d >= e
    <3> HIDE DEF days
    <3>1. QED BY <1>1, LatestIsThere
  <2>2. QED BY <2>1
<1>3. Latest(rows) \in days /\ \A t \in rows : Latest(rows) >= t.date
  BY <1>2 DEF Latest
<1>4. QED BY <1>1, <1>3

\* The row that is kept.
LEMMA KeptIsThere ==
  ASSUME TablesOK, NEW rows \in SUBSET taken, rows # {}
  PROVE  \E t \in rows : \A u \in rows : t.date > u.date \/ (t.date = u.date /\ t.id <= u.id)
<1>1. PICK d : d = Latest(rows)
  OBVIOUS
<1>2. d \in Nat /\ (\E t \in rows : t.date = d) /\ \A t \in rows : d >= t.date
  BY <1>1, LatestIs, ParamAssumption
<1> DEFINE latest == {t \in rows : t.date = d}
           ids == {t.id : t \in latest}
<1>3. ids \in SUBSET Nat /\ ids # {}
  BY <1>2 DEF TablesOK, Taken
<1>4. PICK i \in ids : \A j \in ids : i <= j
  <2> HIDE DEF ids
  <2>1. QED BY <1>3, LeastIsThere
<1>5. PICK t \in latest : t.id = i
  BY <1>4
<1>6. ASSUME NEW u \in rows PROVE t.date > u.date \/ (t.date = u.date /\ t.id <= u.id)
  <2>1. u.date \in Nat /\ t.date = d
    BY <1>5, ParamAssumption DEF TablesOK, Taken
  <2>2. CASE u.date = d
    BY <2>1, <2>2, <1>4, <1>5
  <2>3. CASE u.date # d
    BY <2>1, <2>3, <1>2
  <2>4. QED BY <2>2, <2>3
<1>7. QED BY <1>5, <1>6

IdsOf(rows) == {t.id : t \in rows}

\* Whoever holds every group of a parent's sub-items holds one of them.
LEMMA DoneHolds ==
  ASSUME TablesOK, NEW w, NEW p, Subs(p) # {}, Done(w, p)
  PROVE  Rows(w, Subs(p)) # {}
<1>1. PICK s : s \in Subs(p)
  OBVIOUS
<1> DEFINE g == Group(training[s].full, training[s].type) \cap Subs(p)
<1>2. g \in Groups(p)
  BY <1>1 DEF Groups
<1>3. Rows(w, g) # {}
  BY <1>2 DEF Done
<1>4. QED BY <1>3 DEF Rows

\* The three plans there are.
PlanNot(w, p) ==
  /\ PlanOne(w, p).creates = {} /\ PlanOne(w, p).updates = {}
  /\ PlanOne(w, p).deletes = IdsOf(Rows(w, {p}))

PlanNew(w, p) ==
  /\ PlanOne(w, p).creates = {[who |-> w, title |-> p, date |-> Latest(Rows(w, Subs(p)))]}
  /\ PlanOne(w, p).updates = {} /\ PlanOne(w, p).deletes = {}

PlanKept(w, p, k) ==
  /\ k \in Rows(w, {p})
  /\ PlanOne(w, p).creates = {}
  /\ PlanOne(w, p).updates = IF k.date = Latest(Rows(w, Subs(p))) THEN {}
                             ELSE {[id |-> k.id, date |-> Latest(Rows(w, Subs(p)))]}
  /\ PlanOne(w, p).deletes = IdsOf({u \in Rows(w, {p}) \ {k} : u.date # Latest(Rows(w, Subs(p)))})

LEMMA PlanFacts ==
  ASSUME TablesOK, NEW w, NEW p, Subs(p) # {}
  PROVE  /\ ~Done(w, p) => PlanNot(w, p)
         /\ Done(w, p) /\ Rows(w, {p}) = {} => PlanNew(w, p)
         /\ Done(w, p) /\ Rows(w, {p}) # {} => \E k : PlanKept(w, p, k)
<1> PICK rows : rows = Rows(w, {p})
  OBVIOUS
<1> PICK latest : latest = Latest(Rows(w, Subs(p)))
  OBVIOUS
<1>1. CASE ~Done(w, p)
  BY <1>1 DEF PlanOne, IdsOf, PlanNot
<1>2. CASE Done(w, p) /\ rows = {}
  BY <1>2 DEF PlanOne, PlanNew
<1>3. CASE Done(w, p) /\ rows # {}
  <2>1. PICK k : k = CHOOSE t \in rows : \A u \in rows :
                       t.date > u.date \/ (t.date = u.date /\ t.id <= u.id)
    OBVIOUS
  <2>2. rows \in SUBSET taken
    BY DEF Rows
  <2>3. k \in rows
    BY <1>3, <2>1, <2>2, KeptIsThere
  <2>4. PlanOne(w, p) = [creates |-> {},
                 updates |-> IF k.date = latest THEN {} ELSE {[id |-> k.id, date |-> latest]},
                 deletes |-> IdsOf({u \in rows \ {k} : u.date # latest})]
    BY Zenon, <1>3, <2>1 DEF PlanOne, IdsOf
  <2>5. PlanKept(w, p, k)
    BY <2>3, <2>4 DEF PlanKept
  <2>6. QED BY <1>3, <2>5
<1>4. QED BY <1>1, <1>2, <1>3

LEMMA PlanOneType ==
  ASSUME TablesOK, NEW w \in Learners, NEW p \in Titles, Subs(p) # {}
  PROVE  PlanOK(PlanOne(w, p))
<1> PICK rows : rows = Rows(w, {p})
  OBVIOUS
<1> PICK held : held = Rows(w, Subs(p))
  OBVIOUS
<1> PICK latest : latest = Latest(held)
  OBVIOUS
<1>1. rows \in SUBSET taken /\ held \in SUBSET taken
  BY DEF Rows
<1>2. Done(w, p) => latest \in Dates
  BY <1>1, DoneHolds, LatestIs
<1>3. \A S \in SUBSET taken : IdsOf(S) \subseteq Nat
  BY DEF IdsOf, TablesOK, Taken
<1>4. \A t \in taken : t.id \in Nat
  BY DEF TablesOK, Taken
<1>5. CASE ~Done(w, p)
  BY <1>1, <1>3, <1>5, PlanFacts DEF PlanOK, PlanNot
<1>6. CASE Done(w, p) /\ rows = {}
  <2>1. PlanNew(w, p)
    BY <1>6, PlanFacts
  <2>2. QED BY <1>2, <1>6, <2>1 DEF PlanOK, Creates, PlanNew
<1>7. CASE Done(w, p) /\ rows # {}
  <2>1. PICK k : PlanKept(w, p, k)
    BY <1>7, PlanFacts
  <2>2. k \in rows /\ k.id \in Nat /\ latest \in Dates
    BY <1>1, <1>2, <1>4, <1>7, <2>1 DEF PlanKept
  <2>3. [id |-> k.id, date |-> latest] \in Updates
    BY <2>2 DEF Updates
  <2>4. PlanOne(w, p).updates \subseteq Updates /\ PlanOne(w, p).creates = {}
    BY <2>1, <2>3 DEF PlanKept
  <2>5. PlanOne(w, p).deletes \subseteq Nat
    <3>1. {u \in rows \ {k} : u.date # latest} \in SUBSET taken
      BY <1>1
    <3>2. QED BY <1>3, <2>1, <3>1 DEF PlanKept
  <2>6. QED BY <2>4, <2>5 DEF PlanOK
<1>8. QED BY <1>5, <1>6, <1>7

LEMMA WorkIs ==
  ASSUME TablesOK, NEW b \in Batches, NEW x \in Work(b)
  PROVE  /\ x[1] \in Learners /\ x[2] \in Titles /\ x = <<x[1], x[2]>>
         /\ x[2] \in Active(b.parents) /\ x[2] \in b.parents /\ x[2] \in OfType("OLX")
         /\ Subs(x[2]) # {}
BY DEF Work, Active, OfType, TablesOK

LEMMA PlanBatchType ==
  ASSUME TablesOK, NEW b \in Batches
  PROVE  PlanOK(PlanBatch(b)) /\ PlanBatch(b).batch = b
<1>1. \A x \in Work(b) : PlanOK(PlanOne(x[1], x[2]))
  BY WorkIs, PlanOneType
<1>2. PlanBatch(b).batch = b
  BY DEF PlanBatch
<1>3. QED BY <1>1, <1>2 DEF PlanBatch, PlanOK

LEMMA OneByOneType ==
  ASSUME NEW b \in Batches
  PROVE  OneByOne(b) \subseteq Batches
BY DEF OneByOne, Batches

LEMMA EvaluateType == ASSUME TypeInv, NEW r \in Requests, Evaluate(r) PROVE TypeInv'
<1>1. PICK b \in todo[r] :
         IF Nested(b)
         THEN /\ todo' = [todo EXCEPT ![r] = (@ \ {b}) \cup OneByOne(b)]
              /\ UNCHANGED <<pc, plan>>
         ELSE /\ pc' = [pc EXCEPT ![r] = "apply"]
              /\ plan' = [plan EXCEPT ![r] = PlanBatch(b)]
              /\ UNCHANGED todo
  BY DEF Evaluate
<1>2. b \in Batches /\ todo[r] \subseteq Batches
  BY <1>1 DEF TypeInv, RequestsOK, RequestOK
<1>3. UNCHANGED <<workload, training, members, taken, nextId, doubtful, typed, call, alone>>
      /\ pc[r] = "recompute"
  BY DEF Evaluate, data
<1>4. TablesOK'
  BY <1>3 DEF TypeInv, TablesOK, Existing, Reviewed
<1>5. ASSUME NEW x \in Requests PROVE RequestOK(x) /\ pc = [y \in Requests |-> pc[y]]
                                      /\ call = [y \in Requests |-> call[y]]
                                      /\ todo = [y \in Requests |-> todo[y]]
                                      /\ plan = [y \in Requests |-> plan[y]]
  BY DEF TypeInv, RequestsOK
<1>6. CASE Nested(b)
  <2>1. todo' = [y \in Requests |-> IF y = r THEN (todo[r] \ {b}) \cup OneByOne(b) ELSE todo[y]]
        /\ UNCHANGED <<pc, plan>>
    BY <1>1, <1>5, <1>6
  <2>2. ASSUME NEW x \in Requests PROVE RequestOK(x)'
    <3>1. RequestOK(x)
      BY <1>5
    <3>2. CASE x = r
      BY <1>2, <1>3, <2>1, <3>1, <3>2, OneByOneType DEF RequestOK
    <3>3. CASE x # r
      BY <1>3, <2>1, <3>1, <3>3 DEF RequestOK
    <3>4. QED BY <3>2, <3>3
  <2>3. RequestsOK'
    BY <1>3, <1>5, <2>1, <2>2 DEF RequestsOK, TypeInv
  <2>4. QED BY <1>3, <1>4, <2>3 DEF TypeInv
<1>7. CASE ~Nested(b)
  <2>1. /\ pc' = [y \in Requests |-> IF y = r THEN "apply" ELSE pc[y]]
        /\ plan' = [y \in Requests |-> IF y = r THEN PlanBatch(b) ELSE plan[y]]
        /\ UNCHANGED todo
    BY <1>1, <1>5, <1>7
  <2>2. ASSUME NEW x \in Requests PROVE RequestOK(x)'
    <3>1. RequestOK(x)
      BY <1>5
    <3>2. CASE x = r
      <4>1. PlanOK(PlanBatch(b)) /\ PlanBatch(b).batch = b
        BY <1>2, PlanBatchType DEF TypeInv
      <4>2. pc'[x] = "apply" /\ plan'[x] = PlanBatch(b) /\ todo'[x] = todo[r]
        BY <2>1, <3>2
      <4>3. QED BY <1>1, <1>2, <4>1, <4>2 DEF RequestOK
    <3>3. CASE x # r
      BY <1>3, <2>1, <3>1, <3>3 DEF RequestOK
    <3>4. QED BY <3>2, <3>3
  <2>3. RequestsOK'
    BY <1>3, <1>5, <2>1, <2>2 DEF RequestsOK, TypeInv
  <2>4. QED BY <1>3, <1>4, <2>3 DEF TypeInv
<1>8. QED BY <1>6, <1>7

LEMMA CreatesFinite == IsFiniteSet(Creates)
<1> DEFINE S == (Learners \X Titles) \X Dates
           f == [x \in S |-> [who |-> x[1][1], title |-> x[1][2], date |-> x[2]]]
<1>1. IsFiniteSet(S)
  <2>1. IsFiniteSet(Learners \X Titles)
    BY ParamAssumption, FS_Product
  <2>2. QED BY <2>1, ParamAssumption, FS_Product
<1>2. f \in Surjection(S, Creates)
  <2>1. f \in [S -> Creates]
    BY DEF Creates
  <2>2. ASSUME NEW c \in Creates PROVE \E x \in S : f[x] = c
    <3>1. c = [who |-> c.who, title |-> c.title, date |-> c.date]
          /\ c.who \in Learners /\ c.title \in Titles /\ c.date \in Dates
      BY DEF Creates
    <3>2. <<<<c.who, c.title>>, c.date>> \in S
      BY <3>1
    <3>3. f[<<<<c.who, c.title>>, c.date>>] = c
      BY <3>1, <3>2
    <3>4. QED BY <3>2, <3>3
  <2>3. QED BY <2>1, <2>2 DEF Surjection
<1>3. QED BY <1>1, <1>2, FS_Surjection

----------------------------------------------------------------------------
(* A plan is applied.  No two rows share an id, and none is above the      *)
(* next one.                                                               *)

Created(c, i) == [id |-> i, who |-> c.who, title |-> c.title, date |-> c.date]

\* The rows that a plan leaves, and those it creates under the ids they get.
AppliesTo(p, ids) ==
  /\ ids \in [p.creates -> Nat]
  /\ \A c \in p.creates : nextId <= ids[c] /\ ids[c] < nextId + Cardinality(p.creates)
  /\ \A c, d \in p.creates : ids[c] = ids[d] => c = d
  /\ taken' = {Revised(p, t) : t \in {u \in taken : u.id \notin p.deletes}}
              \cup {Created(c, ids[c]) : c \in p.creates}

LEMMA PlanIsFinite ==
  ASSUME NEW p, PlanOK(p)
  PROVE  IsFiniteSet(p.creates) /\ Cardinality(p.creates) \in Nat
BY CreatesFinite, FS_Subset, FS_CardinalityType DEF PlanOK

LEMMA RevisedType ==
  ASSUME NEW p, PlanOK(p), NEW t \in Taken
  PROVE  /\ Revised(p, t) \in Taken /\ Revised(p, t).id = t.id
         /\ Revised(p, t).who = t.who /\ Revised(p, t).title = t.title
<1>1. CASE \E u \in p.updates : u.id = t.id
  <2>1. PICK u : u = CHOOSE v \in p.updates : v.id = t.id
    OBVIOUS
  <2>2. u \in p.updates
    BY <1>1, <2>1
  <2>3. u.date \in Dates
    BY <2>2 DEF PlanOK, Updates
  <2>4. Revised(p, t) = [id |-> t.id, who |-> t.who, title |-> t.title, date |-> u.date]
    BY <1>1, <2>1 DEF Revised, Redated
  <2>5. QED BY <2>3, <2>4 DEF Taken
<1>2. CASE ~\E u \in p.updates : u.id = t.id
  BY <1>2 DEF Revised
<1>3. QED BY <1>1, <1>2

LEMMA ApplyFacts ==
  ASSUME TypeInv, NEW r \in Requests, Apply(r)
  PROVE  /\ pc[r] = "apply" /\ PlanOK(plan[r]) /\ plan[r].batch \in todo[r]
         /\ \A c \in plan[r].creates : c.title \in Existing
         /\ \E ids : AppliesTo(plan[r], ids)
         /\ nextId' = nextId + Cardinality(plan[r].creates) /\ nextId' \in Nat
         /\ UNCHANGED <<workload, training, members, call, alone, typed>>
         /\ doubtful' = IF r \in alone /\ plan[r].batch.learners = Keep
                          THEN doubtful \ Active(plan[r].batch.parents) ELSE doubtful
         /\ Continues(r, todo[r] \ {plan[r].batch})
         /\ plan' = [x \in Requests |-> IF x = r THEN None ELSE plan[x]]
<1> PICK p : p = plan[r]
  OBVIOUS
<1> PICK n : n = Cardinality(p.creates)
  OBVIOUS
<1>1. /\ pc[r] = "apply" /\ PlanOK(p) /\ p.batch \in todo[r] /\ n \in Nat /\ nextId \in Nat
      /\ plan = [x \in Requests |-> plan[x]]
  BY PlanIsFinite DEF Apply, TypeInv, RequestsOK, RequestOK, TablesOK
<1>2. PICK ids \in [p.creates -> nextId .. nextId + n - 1] :
        /\ \A c, d \in p.creates : ids[c] = ids[d] => c = d
        /\ taken' = {Revised(p, t) : t \in {u \in taken : u.id \notin p.deletes}}
                    \cup {[id |-> ids[c], who |-> c.who, title |-> c.title, date |-> c.date] :
                       c \in p.creates}
  BY DEF Apply
<1>4. AppliesTo(p, ids)
  <2>1. \A c \in p.creates : ids[c] \in Nat /\ nextId <= ids[c] /\ ids[c] < nextId + n
    BY <1>1
  <2>2. taken' = {Revised(p, t) : t \in {u \in taken : u.id \notin p.deletes}}
                 \cup {Created(c, ids[c]) : c \in p.creates}
    BY <1>2 DEF Created
  <2>3. QED BY <1>2, <2>1, <2>2 DEF AppliesTo
<1>5. \A c \in p.creates : c.title \in Existing
  BY DEF Apply
<1>6. nextId' = nextId + n /\ plan' = [plan EXCEPT ![r] = None]
      /\ UNCHANGED <<workload, training, members, call, alone, typed>>
      /\ Continues(r, todo[r] \ {p.batch})
      /\ doubtful' = IF r \in alone /\ p.batch.learners = Keep
                       THEN doubtful \ Active(p.batch.parents) ELSE doubtful
  BY DEF Apply
<1>7. QED BY <1>1, <1>4, <1>5, <1>6

\* The rows after a plan.
LEMMA AppliedType ==
  ASSUME TablesOK, NEW p, PlanOK(p), NEW ids, AppliesTo(p, ids),
         \A c \in p.creates : c.title \in Existing,
         nextId' = nextId + Cardinality(p.creates)
  PROVE  /\ taken' \subseteq Taken
         /\ \A t \in taken' : t.title \in Existing /\ t.id < nextId'
         /\ \A t, u \in taken' : t.id = u.id => t = u
<1> PICK n : n = Cardinality(p.creates)
  OBVIOUS
<1> PICK rest : rest = {u \in taken : u.id \notin p.deletes}
  OBVIOUS
<1>1. n \in Nat /\ nextId \in Nat
  BY PlanIsFinite DEF TablesOK
<1>2. \A t \in rest : /\ Revised(p, t) \in Taken /\ Revised(p, t).id = t.id
                      /\ Revised(p, t).title = t.title /\ t \in taken /\ t \in Taken
  BY RevisedType DEF TablesOK
<1>3. \A t \in rest : t.id < nextId /\ t.id < nextId + n /\ t.title \in Existing /\ t.id \in Nat
  BY <1>1 DEF TablesOK, Taken
<1>4. \A c \in p.creates :
        /\ Created(c, ids[c]) \in Taken /\ Created(c, ids[c]).id = ids[c]
        /\ Created(c, ids[c]).title = c.title /\ ids[c] \in Nat
        /\ nextId <= ids[c] /\ ids[c] < nextId + n
  <2>1. SUFFICES ASSUME NEW c \in p.creates
                 PROVE  /\ Created(c, ids[c]) \in Taken /\ Created(c, ids[c]).id = ids[c]
                        /\ Created(c, ids[c]).title = c.title /\ ids[c] \in Nat
                        /\ nextId <= ids[c] /\ ids[c] < nextId + n
    OBVIOUS
  <2>2. ids[c] \in Nat /\ nextId <= ids[c] /\ ids[c] < nextId + n
    BY <2>1 DEF AppliesTo
  <2>3. c.who \in Learners /\ c.title \in Titles /\ c.date \in Dates
    BY <2>1 DEF PlanOK, Creates
  <2>4. QED BY <2>2, <2>3 DEF Created, Taken
<1>5. taken' = {Revised(p, t) : t \in rest} \cup {Created(c, ids[c]) : c \in p.creates}
  BY DEF AppliesTo
<1>6. ASSUME NEW t \in taken'
      PROVE (\E x \in rest : t = Revised(p, x)) \/ (\E c \in p.creates : t = Created(c, ids[c]))
  BY <1>5
<1>7. taken' \subseteq Taken /\ \A t \in taken' : t.title \in Existing /\ t.id < nextId'
  BY <1>2, <1>3, <1>4, <1>6
<1>8. ASSUME NEW t \in taken', NEW u \in taken', t.id = u.id PROVE t = u
  <2>1. CASE (\E x \in rest : t = Revised(p, x)) /\ \E x \in rest : u = Revised(p, x)
    <3>1. PICK x \in rest, y \in rest : t = Revised(p, x) /\ u = Revised(p, y)
      BY <2>1
    <3>2. x.id = y.id /\ x \in taken /\ y \in taken
      BY <1>2, <1>8, <3>1
    <3>3. QED BY <3>1, <3>2 DEF TablesOK
  <2>2. CASE (\E c \in p.creates : t = Created(c, ids[c]))
             /\ \E c \in p.creates : u = Created(c, ids[c])
    <3>1. PICK c \in p.creates, d \in p.creates : t = Created(c, ids[c]) /\ u = Created(d, ids[d])
      BY <2>2
    <3>2. ids[c] = ids[d]
      BY <1>4, <1>8, <3>1
    <3>3. QED BY <3>1, <3>2 DEF AppliesTo
  <2>3. CASE (\E x \in rest : t = Revised(p, x)) /\ \E c \in p.creates : u = Created(c, ids[c])
    BY <1>1, <1>2, <1>3, <1>4, <1>8, <2>3
  <2>4. CASE (\E c \in p.creates : t = Created(c, ids[c])) /\ \E x \in rest : u = Revised(p, x)
    BY <1>1, <1>2, <1>3, <1>4, <1>8, <2>4
  <2>5. QED BY <1>6, <2>1, <2>2, <2>3, <2>4
<1>9. QED BY <1>7, <1>8

LEMMA ApplyType == ASSUME TypeInv, NEW r \in Requests, Apply(r) PROVE TypeInv'
<1>1. PICK b : b = plan[r].batch
  OBVIOUS
<1>2. /\ pc[r] = "apply" /\ PlanOK(plan[r]) /\ b \in todo[r] /\ nextId' \in Nat
      /\ \A c \in plan[r].creates : c.title \in Existing
      /\ nextId' = nextId + Cardinality(plan[r].creates)
      /\ UNCHANGED <<workload, training, members, call, alone, typed>>
      /\ doubtful' \subseteq doubtful
      /\ Continues(r, todo[r] \ {b})
      /\ plan' = [x \in Requests |-> IF x = r THEN None ELSE plan[x]]
  BY <1>1, ApplyFacts
<1>3. PICK ids : AppliesTo(plan[r], ids)
  BY ApplyFacts
<1>4. /\ taken' \subseteq Taken
      /\ \A t \in taken' : t.title \in Existing /\ t.id < nextId'
      /\ \A t, u \in taken' : t.id = u.id => t = u
  BY <1>2, <1>3, AppliedType DEF TypeInv
<1>5. TablesOK'
  BY <1>2, <1>4 DEF TypeInv, TablesOK, Existing, Reviewed
<1>6. ASSUME NEW x \in Requests PROVE RequestOK(x) /\ pc = [y \in Requests |-> pc[y]]
                                      /\ call = [y \in Requests |-> call[y]]
                                      /\ todo = [y \in Requests |-> todo[y]]
                                      /\ alone \subseteq Requests
  BY DEF TypeInv, RequestsOK
<1>7. /\ pc' = [x \in Requests |-> IF x = r THEN IF todo[r] \ {b} = {} THEN "done" ELSE "recompute"
                                   ELSE pc[x]]
      /\ todo' = [x \in Requests |-> IF x = r THEN todo[r] \ {b} ELSE todo[x]]
  BY <1>2, <1>6 DEF Continues
<1>8. ASSUME NEW x \in Requests PROVE RequestOK(x)'
  <2>1. RequestOK(x)
    BY <1>6
  <2>2. CASE x = r
    BY <1>2, <1>7, <2>1, <2>2 DEF RequestOK
  <2>3. CASE x # r
    BY <1>2, <1>7, <2>1, <2>3 DEF RequestOK
  <2>4. QED BY <2>2, <2>3
<1>9. RequestsOK'
  BY <1>2, <1>6, <1>7, <1>8 DEF RequestsOK
<1>10. QED BY <1>2, <1>5, <1>9 DEF TypeInv

LEMMA ApplyFailsType == ASSUME TypeInv, NEW r \in Requests, ApplyFails(r) PROVE TypeInv'
BY FailsStep DEF ApplyFails

----------------------------------------------------------------------------
(* What a request holds when it has read and validated.                    *)

Bodies ==
  [title: Titles \cup {Keep}, full: FullTitles \cup {Keep}, type: Types \cup {Keep},
   subs: TitlesOrKeep, parents: TitlesOrKeep, cert: TitlesOrKeep,
   legacy: BOOLEAN \cup {Keep}, repl: TitlesOrKeep, choose: SUBSET Classification,
   complete: BOOLEAN]

LEMMA NoBodyType == NoBody \in Bodies
BY DEF NoBody, Bodies, TitlesOrKeep

\* A body that another key is put into.
LEMMA BodyWith ==
  ASSUME NEW b \in Bodies
  PROVE  /\ \A x \in Titles \cup {Keep} : With(b, "title", x) \in Bodies
         /\ \A x \in FullTitles \cup {Keep} : With(b, "full", x) \in Bodies
         /\ \A x \in Types \cup {Keep} : With(b, "type", x) \in Bodies
         /\ \A x \in TitlesOrKeep : With(b, "subs", x) \in Bodies
         /\ \A x \in TitlesOrKeep : With(b, "parents", x) \in Bodies
         /\ \A x \in TitlesOrKeep : With(b, "cert", x) \in Bodies
         /\ \A x \in BOOLEAN \cup {Keep} : With(b, "legacy", x) \in Bodies
         /\ \A x \in TitlesOrKeep : With(b, "repl", x) \in Bodies
         /\ \A x \in SUBSET Classification : With(b, "choose", x) \in Bodies
         /\ \A x \in BOOLEAN : With(b, "complete", x) \in Bodies
BY DEF Bodies, With

LEMMA SanitizedType ==
  ASSUME NEW t, NEW ty, NEW legacy, NEW repl \in SUBSET Titles
  PROVE  /\ Sanitized(t, ty, legacy, repl) \in Markers
         /\ Sanitized(t, ty, legacy, repl).repl \subseteq (repl \ {t}) \cap Existing
<1>1. CASE ty \in LegacyEligible /\ legacy
  <2>1. Sanitized(t, ty, legacy, repl) =
          [legacy |-> TRUE,
           repl |-> {x \in repl \ {t} : x \in UNION {OfType(e) : e \in LegacyEligible}}]
    BY <1>1 DEF Sanitized
  <2>2. \A x \in UNION {OfType(e) : e \in LegacyEligible} : x \in Existing
    BY DEF OfType
  <2>3. QED BY <2>1, <2>2 DEF Markers
<1>2. CASE ~(ty \in LegacyEligible /\ legacy)
  <2>1. Sanitized(t, ty, legacy, repl) = [legacy |-> FALSE, repl |-> {}]
    BY <1>2 DEF Sanitized
  <2>2. QED BY <2>1 DEF Markers
<1>3. QED BY <1>1, <1>2

LEMMA ParentsType ==
  ASSUME TablesOK, NEW S
  PROVE  Parents(S) \subseteq Existing /\ Parents(S) \subseteq Titles
BY DEF Parents, TablesOK

LEMMA NamesType ==
  ASSUME workload \in DOMAIN Workloads
  PROVE  /\ Mix.names \subseteq Titles /\ Mix.overlap \in BOOLEAN
         /\ \A file \in Mix.files : file \in Seq(Cells)
         /\ \A c \in Mix.catalogues : Tables(c)
BY WorkloadsAssumption DEF Mix

LEMMA PutBodiesType ==
  ASSUME TypeInv, NEW t \in Existing
  PROVE  PutBodies(t) \subseteq Bodies
<1>1. /\ Mix.names \subseteq Titles /\ Existing \subseteq Titles
      /\ \A ty : OfType(ty) \subseteq Titles
      /\ SubItems \subseteq Titles /\ Marks \subseteq Titles
  BY NamesType DEF TypeInv, TablesOK, OfType, SubItems, Marks
<1>2. {With(With(NoBody, "title", n), "full", f) :
         n \in (Mix.names \ Existing) \cup {Keep}, f \in FullTitles \cup {Keep}} \subseteq Bodies
  BY <1>1, NoBodyType, BodyWith
<1>3. {With(With(NoBody, "type", ty), "subs", s) :
         ty \in Types, s \in {Keep} \cup SUBSET (SubItems \ {t})} \subseteq Bodies
  BY <1>1, NoBodyType, BodyWith DEF TitlesOrKeep
<1>4. {With(With(NoBody, "type", ty), "parents", p) :
         ty \in {Keep, "OLXSubItem"}, p \in SUBSET (OfType("OLX") \ {t})} \subseteq Bodies
  BY <1>1, NoBodyType, BodyWith DEF TitlesOrKeep, Types
<1>5. {With(With(With(NoBody, "title", n), "legacy", l), "repl", x) :
         n \in (Mix.names \ Existing) \cup {Keep}, l \in BOOLEAN,
         x \in {Keep} \cup SUBSET (Marks \ {t})} \subseteq Bodies
  BY <1>1, NoBodyType, BodyWith DEF TitlesOrKeep
<1>6. {With(NoBody, "cert", x) : x \in SUBSET (OfType("Certification") \ {t})} \subseteq Bodies
  BY <1>1, NoBodyType, BodyWith DEF TitlesOrKeep
<1>7. {With(With(With(NoBody, "type", ty), "choose", c), "complete", done) :
         ty \in Types \cup {Keep}, done \in BOOLEAN,
         c \in IF training[t].incomplete THEN SUBSET {"product", "function"} ELSE {}}
        \subseteq Bodies
  <2>1. \A ty \in Types \cup {Keep}, done \in BOOLEAN, c \in SUBSET {"product", "function"} :
          With(With(With(NoBody, "type", ty), "choose", c), "complete", done) \in Bodies
    BY <1>1, NoBodyType, BodyWith DEF Classification
  <2>2. (IF training[t].incomplete THEN SUBSET {"product", "function"} ELSE {})
          \subseteq SUBSET {"product", "function"}
    OBVIOUS
  <2>3. QED BY <2>1, <2>2
<1>8. QED BY <1>2, <1>3, <1>4, <1>5, <1>6, <1>7 DEF PutBodies

LEMMA PatchBodiesType ==
  ASSUME TypeInv, NEW f, NEW scope
  PROVE  PatchBodies(f, scope) \subseteq Bodies
<1> DEFINE group == MembersOf(f, scope)
           types == {training[t].type : t \in group}
           fulls(ty) == SUBSET {training[t].full : t \in OfType(ty)}
           certs == {With(NoBody, "cert", Expanded(c, {"Certification"},
                                            UNION {Group(f, ty) : ty \in types})) :
                       c \in IF types \cap CertBearing = {} THEN {} ELSE fulls("Certification")}
           subs == {With(NoBody, "subs", Expanded(c, {"OLXSubItem"}, Group(f, "OLX"))) :
                      c \in IF types = {"OLX"} THEN fulls("OLXSubItem") ELSE {}}
           parents == {With(NoBody, "parents", Expanded(c, {"OLX"}, Group(f, "OLXSubItem"))) :
                         c \in IF types = {"OLXSubItem"} THEN fulls("OLX") ELSE {}}
           marks == {With(With(NoBody, "legacy", l), "repl",
                          IF l THEN Expanded(c, LegacyEligible, {}) ELSE {}) :
                       l \in BOOLEAN, c \in fulls("Certification")}
           chosen == {With(NoBody, "choose", c) : c \in SUBSET {"product", "function"}}
<1>1. \A c, e, x : Expanded(c, e, x) \subseteq Titles
  BY DEF TypeInv, TablesOK, Expanded
<1>2. certs \subseteq Bodies
  <2> HIDE DEF types, fulls
  <2>1. QED BY <1>1, NoBodyType, BodyWith DEF TitlesOrKeep
<1>3. subs \subseteq Bodies
  <2> HIDE DEF types, fulls
  <2>1. QED BY <1>1, NoBodyType, BodyWith DEF TitlesOrKeep
<1>4. parents \subseteq Bodies
  <2> HIDE DEF types, fulls
  <2>1. QED BY <1>1, NoBodyType, BodyWith DEF TitlesOrKeep
<1>5. marks \subseteq Bodies
  <2>1. \A l \in BOOLEAN, x \in TitlesOrKeep : With(With(NoBody, "legacy", l), "repl", x) \in Bodies
    BY NoBodyType, BodyWith
  <2>2. \A l \in BOOLEAN : \A c :
          (IF l THEN Expanded(c, LegacyEligible, {}) ELSE {}) \in TitlesOrKeep
    BY <1>1 DEF TitlesOrKeep
  <2> HIDE DEF fulls
  <2>3. QED BY <2>1, <2>2
<1>6. chosen \subseteq Bodies
  BY NoBodyType, BodyWith DEF Classification
<1>7. PatchBodies(f, scope) = certs \cup subs \cup parents \cup marks \cup chosen
  BY DEF PatchBodies
<1> HIDE DEF certs, subs, parents, marks, chosen
<1>8. QED BY <1>2, <1>3, <1>4, <1>5, <1>6, <1>7

----------------------------------------------------------------------------
(* What a request has read is so while it is read.                         *)

\* The type a PUT leaves a training with.
TypePut(b, row) == IF b.type = Keep THEN row.type ELSE b.type

MarksFit(marks, type) ==
  /\ marks.legacy => type \in LegacyEligible
  /\ ~marks.legacy => marks.repl = {}

PostRead(b, s) ==
  /\ b.subs \subseteq Existing /\ b.parents \subseteq OfType("OLX")
  /\ s.type # "OLX" => b.subs = {}
  /\ s.type # "OLXSubItem" => b.parents = {}
  /\ Fits(s) /\ s.cert \subseteq Existing /\ s.repl \subseteq Existing /\ b.title \notin s.repl

PutRead(b, s) ==
  LET t == s.title
      row == training[t]
  IN
  /\ t \in Existing /\ (s.target # t => s.target \notin Existing)
  /\ b.subs # Keep => b.subs \subseteq Existing \ {t}
  /\ b.parents # Keep => b.parents \subseteq OfType("OLX") \ {t}
  /\ s.cert # Keep => s.cert \subseteq Existing \ {t}
  /\ TypePut(b, row) = "OLXSubItem" => s.cert = {}
  /\ s.marks = Keep => b.type \in LegacyEligible \cup {Keep}
  /\ s.marks # Keep =>
       /\ MarksFit(s.marks, TypePut(b, row))
       /\ s.marks.repl \subseteq Existing \ {s.target}
       /\ t \notin row.repl => t \notin s.marks.repl

PatchRead(b, s) ==
  /\ DOMAIN s \subseteq Existing /\ s = [t \in DOMAIN s |-> training[t].type]
  /\ b.cert # Keep => b.cert \subseteq Existing
  /\ b.subs # Keep => (\A t \in DOMAIN s : s[t] = "OLX") /\ b.subs \subseteq OfType("OLXSubItem")
  /\ b.parents # Keep =>
       (\A t \in DOMAIN s : s[t] = "OLXSubItem") /\ b.parents \subseteq OfType("OLX")
  /\ b.subs = Keep \/ b.parents = Keep

Current(op, b, s) ==
  /\ op = "PostTaken" => b.title \in Existing
  /\ op \in {"PatchTaken", "DeleteTaken"} => s \in taken
  /\ op = "PostTraining" => PostRead(b, s)
  /\ op = "PutTraining" => PutRead(b, s)
  /\ op = "DeleteTraining" => s.parents = Parents({b.title})
  /\ op = "PatchGroup" => PatchRead(b, s)
  /\ op = "DeleteGroup" => /\ s.group = MembersOf(b.full, Keep)
                           /\ s.parents = Parents(s.group) \ s.group
  /\ op = "NormaliseLeadsTo" =>
       /\ DOMAIN s \subseteq Existing /\ s = [t \in DOMAIN s |-> training[t].cert]
       /\ \A t \in DOMAIN s : training[t].type \in CertBearing
  /\ op = "ImportCatalogue" => \A l \in s.links : l[2] \in Existing

Ops == {"PostTaken", "PatchTaken", "DeleteTaken", "PostTraining", "PutTraining",
        "DeleteTraining", "PatchGroup", "RenameGroup", "MergeGroup", "MoveAliases",
        "DeleteGroup", "OlxBackfill", "NormaliseLeadsTo", "ImportCatalogue"}

Validated(op, b, s) == op \in Ops /\ BodyOK(op, b, s) /\ Current(op, b, s)

\* A request begins with what it has validated.
Opens(r) == \E op, b, s : Ready(r, op) /\ Begin(r, op, b, s) /\ Validated(op, b, s)

LEMMA PostTakenOpens ==
  ASSUME TypeInv, NEW r \in Requests, PostTaken(r)
  PROVE  Opens(r)
<1>1. PICK w \in Learners, t \in Existing, d \in Dates :
        Begin(r, "PostTaken", [who |-> w, title |-> t, date |-> d], None)
  BY DEF PostTaken
<1>2. Validated("PostTaken", [who |-> w, title |-> t, date |-> d], None)
  BY DEF Validated, BodyOK, Current, Ops, TypeInv, TablesOK
<1>3. QED BY <1>1, <1>2 DEF Opens, PostTaken

LEMMA PatchTakenOpens ==
  ASSUME TypeInv, NEW r \in Requests, PatchTaken(r)
  PROVE  Opens(r)
<1>1. PICK x \in taken, d \in Dates : Begin(r, "PatchTaken", [date |-> d], x)
  BY DEF PatchTaken
<1>2. Validated("PatchTaken", [date |-> d], x)
  BY DEF Validated, BodyOK, Current, Ops, TypeInv, TablesOK
<1>3. QED BY <1>1, <1>2 DEF Opens, PatchTaken

LEMMA DeleteTakenOpens ==
  ASSUME TypeInv, NEW r \in Requests, DeleteTaken(r)
  PROVE  Opens(r)
<1>1. PICK x \in taken : Begin(r, "DeleteTaken", None, x)
  BY DEF DeleteTaken
<1>2. Validated("DeleteTaken", None, x)
  BY DEF Validated, BodyOK, Current, Ops, TypeInv, TablesOK
<1>3. QED BY <1>1, <1>2 DEF Opens, DeleteTaken

LEMMA PostTrainingOpens ==
  ASSUME TypeInv, NEW r \in Requests, PostTraining(r)
  PROVE  Opens(r)
<1>1. PICK t \in Mix.names, f \in FullTitles, ty \in Types :
     \E subs \in IF ty = "OLX" THEN SUBSET SubItems ELSE {{}},
        parents \in IF ty = "OLXSubItem" THEN SUBSET OfType("OLX") ELSE {{}},
        certs \in IF ty \in CertBearing
                     THEN SUBSET {training[c].full : c \in OfType("Certification")} ELSE {{}},
        repl \in IF ty \in LegacyEligible
                    THEN SUBSET {training[c].full : c \in Marks} ELSE {{}} :
       Begin(r, "PostTraining", [title |-> t, subs |-> subs, parents |-> parents],
            [full |-> f, type |-> ty, legacy |-> repl # {},
             repl |-> Sanitized(t, ty, TRUE, Expanded(repl, LegacyEligible, {})).repl,
             cert |-> Expanded(certs, {"Certification"}, Group(f, ty)),
             unset |-> {}, incomplete |-> FALSE])
  BY DEF PostTraining
<1>2. PICK subs \in IF ty = "OLX" THEN SUBSET SubItems ELSE {{}},
           parents \in IF ty = "OLXSubItem" THEN SUBSET OfType("OLX") ELSE {{}},
           certs \in IF ty \in CertBearing
                     THEN SUBSET {training[c].full : c \in OfType("Certification")} ELSE {{}},
           repl \in IF ty \in LegacyEligible
                    THEN SUBSET {training[c].full : c \in Marks} ELSE {{}} :
       Begin(r, "PostTraining", [title |-> t, subs |-> subs, parents |-> parents],
            [full |-> f, type |-> ty, legacy |-> repl # {},
             repl |-> Sanitized(t, ty, TRUE, Expanded(repl, LegacyEligible, {})).repl,
             cert |-> Expanded(certs, {"Certification"}, Group(f, ty)),
             unset |-> {}, incomplete |-> FALSE])
  BY <1>1
<1> PICK marks : marks = Sanitized(t, ty, TRUE, Expanded(repl, LegacyEligible, {})).repl
  OBVIOUS
<1> PICK cert : cert = Expanded(certs, {"Certification"}, Group(f, ty))
  OBVIOUS
<1> DEFINE b == [title |-> t, subs |-> subs, parents |-> parents]
           s == [full |-> f, type |-> ty, legacy |-> repl # {}, repl |-> marks,
                 cert |-> cert, unset |-> {}, incomplete |-> FALSE]
<1>3. Begin(r, "PostTraining", b, s)
  BY <1>2
<1>4. /\ t \in Titles /\ Existing \subseteq Titles /\ SubItems \subseteq Existing
      /\ OfType("OLX") \subseteq Existing
  BY NamesType DEF TypeInv, TablesOK, OfType, SubItems
<1>5. subs \subseteq Existing /\ parents \subseteq OfType("OLX")
      /\ (ty # "OLX" => subs = {}) /\ (ty # "OLXSubItem" => parents = {})
  BY <1>4
<1>6. marks \subseteq Existing /\ t \notin marks /\ (repl = {} => marks = {})
  <2>1. Expanded(repl, LegacyEligible, {}) \subseteq Existing
    BY DEF Expanded
  <2>2. repl = {} => Expanded(repl, LegacyEligible, {}) = {}
    BY DEF Expanded
  <2>3. marks \subseteq (Expanded(repl, LegacyEligible, {}) \ {t}) \cap Existing
    <3>1. \A ids \in SUBSET Titles : \A l \in BOOLEAN :
            Sanitized(t, ty, l, ids).repl \subseteq (ids \ {t}) \cap Existing
      BY SanitizedType
    <3>2. Expanded(repl, LegacyEligible, {}) \in SUBSET Titles /\ TRUE \in BOOLEAN
      BY <1>4, <2>1
    <3>3. QED BY <3>1, <3>2
  <2>4. QED BY <2>2, <2>3
<1>7. cert \subseteq Existing /\ (ty \notin CertBearing => cert = {})
  BY DEF Expanded
<1>8. repl # {} => ty \in LegacyEligible
  OBVIOUS
<1>9. s \in Training
  BY <1>4, <1>6, <1>7 DEF Training, Classification
<1>10. Fits(s) /\ Reviewed(s)
  BY <1>6, <1>7, <1>8 DEF Fits, Reviewed, CertBearing
<1>11. PostRead(b, s)
  BY <1>5, <1>6, <1>7, <1>10 DEF PostRead
<1>12. b.title \in Titles /\ b.subs \subseteq Titles /\ b.parents \subseteq Titles
  BY <1>4, <1>5
<1> HIDE DEF b, s
<1>13. Validated("PostTraining", b, s)
  BY <1>9, <1>10, <1>11, <1>12 DEF Validated, BodyOK, Current, Ops
<1>14. QED BY <1>3, <1>13 DEF Opens, PostTraining

\* What the keys of a PUT may name.
LEMMA PutBodiesNames ==
  ASSUME TypeInv, NEW t \in Existing, NEW b \in PutBodies(t)
  PROVE  /\ b \in Bodies
         /\ b.title # Keep => b.title \notin Existing
         /\ b.subs # Keep => b.subs \subseteq Existing \ {t}
         /\ b.parents # Keep => b.parents \subseteq OfType("OLX") \ {t}
         /\ b.cert # Keep => b.cert \subseteq Existing \ {t}
         /\ b.repl # Keep => b.repl \subseteq Existing \ {t}
<1> DEFINE Names(x) ==
         /\ x.title # Keep => x.title \notin Existing
         /\ x.subs # Keep => x.subs \subseteq Existing \ {t}
         /\ x.parents # Keep => x.parents \subseteq OfType("OLX") \ {t}
         /\ x.cert # Keep => x.cert \subseteq Existing \ {t}
         /\ x.repl # Keep => x.repl \subseteq Existing \ {t}
           nobody == {x \in Bodies : Names(x)}
<1>1. /\ SubItems \subseteq Existing /\ Marks \subseteq Existing /\ Keep \notin Existing
      /\ \A ty : OfType(ty) \subseteq Existing
  BY ParamAssumption DEF TypeInv, TablesOK, OfType, SubItems, Marks
<1>2. NoBody \in nobody
  BY NoBodyType DEF NoBody
<1>4. /\ Mix.names \subseteq Titles /\ Existing \subseteq Titles
      /\ \A ty : OfType(ty) \subseteq Titles
      /\ SubItems \subseteq Titles /\ Marks \subseteq Titles
  BY NamesType DEF TypeInv, TablesOK, OfType, SubItems, Marks
<1> DEFINE named == {Keep} \cup SUBSET (Existing \ {t})
           above == {Keep} \cup SUBSET (OfType("OLX") \ {t})
<1>3. ASSUME NEW x \in nobody
      PROVE  /\ \A v \in Titles \cup {Keep} : v \notin Existing => With(x, "title", v) \in nobody
             /\ \A v \in FullTitles \cup {Keep} : With(x, "full", v) \in nobody
             /\ \A v \in Types \cup {Keep} : With(x, "type", v) \in nobody
             /\ \A v \in named : With(x, "subs", v) \in nobody
             /\ \A v \in above : With(x, "parents", v) \in nobody
             /\ \A v \in named : With(x, "cert", v) \in nobody
             /\ \A v \in BOOLEAN \cup {Keep} : With(x, "legacy", v) \in nobody
             /\ \A v \in named : With(x, "repl", v) \in nobody
             /\ \A v \in SUBSET Classification : With(x, "choose", v) \in nobody
             /\ \A v \in BOOLEAN : With(x, "complete", v) \in nobody
  BY <1>4 DEF With, Bodies, TitlesOrKeep
<1>31. /\ {Keep} \cup SUBSET (SubItems \ {t}) \subseteq named
       /\ SUBSET (OfType("OLX") \ {t}) \subseteq above
       /\ {Keep} \cup SUBSET (Marks \ {t}) \subseteq named
       /\ SUBSET (OfType("Certification") \ {t}) \subseteq named
  BY <1>1
<1> HIDE DEF nobody, named, above
<1>5. {With(With(NoBody, "title", n), "full", f) :
         n \in (Mix.names \ Existing) \cup {Keep}, f \in FullTitles \cup {Keep}} \subseteq nobody
  <2>1. \A n \in (Mix.names \ Existing) \cup {Keep} : n \in Titles \cup {Keep} /\ n \notin Existing
    BY <1>1, <1>4
  <2>2. QED BY <1>2, <1>3, <2>1
<1>6. {With(With(NoBody, "type", ty), "subs", s) :
         ty \in Types, s \in {Keep} \cup SUBSET (SubItems \ {t})} \subseteq nobody
  BY <1>2, <1>3, <1>31
<1>7. {With(With(NoBody, "type", ty), "parents", p) :
         ty \in {Keep, "OLXSubItem"}, p \in SUBSET (OfType("OLX") \ {t})} \subseteq nobody
  BY <1>2, <1>3, <1>31 DEF Types
<1>8. {With(With(With(NoBody, "title", n), "legacy", l), "repl", x) :
         n \in (Mix.names \ Existing) \cup {Keep}, l \in BOOLEAN,
         x \in {Keep} \cup SUBSET (Marks \ {t})} \subseteq nobody
  <2>1. \A n \in (Mix.names \ Existing) \cup {Keep} : n \in Titles \cup {Keep} /\ n \notin Existing
    BY <1>1, <1>4
  <2>2. QED BY <1>2, <1>3, <1>31, <2>1
<1>9. {With(NoBody, "cert", x) : x \in SUBSET (OfType("Certification") \ {t})} \subseteq nobody
  BY <1>2, <1>3, <1>31
<1>10. {With(With(With(NoBody, "type", ty), "choose", c), "complete", done) :
         ty \in Types \cup {Keep}, done \in BOOLEAN,
         c \in IF training[t].incomplete THEN SUBSET {"product", "function"} ELSE {}}
        \subseteq nobody
  <2>1. \A ty \in Types \cup {Keep}, done \in BOOLEAN, c \in SUBSET {"product", "function"} :
          With(With(With(NoBody, "type", ty), "choose", c), "complete", done) \in nobody
    BY <1>2, <1>3 DEF Classification
  <2>2. (IF training[t].incomplete THEN SUBSET {"product", "function"} ELSE {})
          \subseteq SUBSET {"product", "function"}
    OBVIOUS
  <2>3. QED BY <2>1, <2>2
<1>11. PutBodies(t) \subseteq nobody
  BY <1>5, <1>6, <1>7, <1>8, <1>9, <1>10 DEF PutBodies
<1>12. QED BY <1>11 DEF nobody

LEMMA SanitizedFits ==
  ASSUME NEW t, NEW ty, NEW legacy, NEW repl \in SUBSET Titles
  PROVE  MarksFit(Sanitized(t, ty, legacy, repl), ty)
<1>1. CASE ty \in LegacyEligible /\ legacy
  BY <1>1 DEF Sanitized, MarksFit
<1>2. CASE ~(ty \in LegacyEligible /\ legacy)
  BY <1>2 DEF Sanitized, MarksFit
<1>3. QED BY <1>1, <1>2

LEMMA PutTrainingOpens ==
  ASSUME TypeInv, NEW r \in Requests, PutTraining(r)
  PROVE  Opens(r)
<1> DEFINE target(t, b) == IF b.title = Keep THEN t ELSE b.title
           src(t, b) == IF b.repl = Keep THEN training[t].repl ELSE b.repl
           sanitized(t, b) == Sanitized(target(t, b), TypePut(b, training[t]),
                              IF b.legacy = Keep THEN training[t].legacy ELSE b.legacy, src(t, b))
           none == [legacy |-> FALSE, repl |-> {}]
           marks(t, b) == IF b.legacy # Keep \/ b.repl # Keep THEN sanitized(t, b)
                          ELSE IF b.type \notin LegacyEligible \cup {Keep} THEN none
                          ELSE IF b.title # Keep /\ training[t].legacy THEN sanitized(t, b) ELSE Keep
           cert(t, b) == IF TypePut(b, training[t]) = "OLXSubItem" THEN {} ELSE b.cert
           held(t, b) == [title |-> t, target |-> target(t, b), marks |-> marks(t, b),
                          cert |-> cert(t, b)]
<1>0. PICK t \in Existing : \E b \in PutBodies(t) :
        CompletionGate(b) /\ Begin(r, "PutTraining", b, held(t, b))
  BY DEF PutTraining, TypePut
<1>1. PICK b \in PutBodies(t) :
        CompletionGate(b) /\ Begin(r, "PutTraining", b, held(t, b))
  BY <1>0
<1>2. /\ b \in Bodies
      /\ b.title # Keep => b.title \notin Existing
      /\ b.subs # Keep => b.subs \subseteq Existing \ {t}
      /\ b.parents # Keep => b.parents \subseteq OfType("OLX") \ {t}
      /\ b.cert # Keep => b.cert \subseteq Existing \ {t}
      /\ b.repl # Keep => b.repl \subseteq Existing \ {t}
  BY PutBodiesNames
<1>3. /\ training[t] \in Training /\ t \in Titles /\ Existing \subseteq Titles
      /\ TypePut(b, training[t]) \in Types
      /\ b.title \in Titles \cup {Keep} /\ b.repl \in TitlesOrKeep
  BY <1>2 DEF TypeInv, TablesOK, Training, TypePut, Bodies
<1>4. target(t, b) \in Titles /\ (target(t, b) # t => target(t, b) \notin Existing)
  BY <1>2, <1>3
<1>5. src(t, b) \in SUBSET Titles /\ (t \notin training[t].repl => t \notin src(t, b))
  BY <1>2, <1>3 DEF Training
<1>6. /\ sanitized(t, b) \in Markers /\ MarksFit(sanitized(t, b), TypePut(b, training[t]))
      /\ sanitized(t, b).repl \subseteq (src(t, b) \ {target(t, b)}) \cap Existing
  <2> HIDE DEF src, target
  <2>1. QED BY <1>5, SanitizedType, SanitizedFits
<1>7. none \in Markers /\ (\A ty : MarksFit(none, ty)) /\ none.repl = {}
  BY DEF Markers, MarksFit
<1>8. Keep \notin Markers
  BY ParamAssumption DEF Markers
<1>9. PICK m : m = marks(t, b)
  OBVIOUS
<1>10. /\ m \in Markers \cup {Keep}
       /\ m = Keep => b.type \in LegacyEligible \cup {Keep}
       /\ m # Keep => /\ MarksFit(m, TypePut(b, training[t]))
                      /\ m.repl \subseteq Existing \ {target(t, b)}
                      /\ t \notin training[t].repl => t \notin m.repl
  <2> HIDE DEF sanitized, none, src, target
  <2>1. m = sanitized(t, b) \/ m = none \/ (m = Keep /\ b.type \in LegacyEligible \cup {Keep})
    BY <1>9
  <2>2. QED BY <1>5, <1>6, <1>7, <1>8, <2>1
<1>11. PICK c : c = cert(t, b)
  OBVIOUS
<1>12. /\ c \in TitlesOrKeep /\ (c # Keep => c \subseteq Existing \ {t})
       /\ TypePut(b, training[t]) = "OLXSubItem" => c = {}
  BY <1>2, <1>11 DEF Bodies, TitlesOrKeep
<1>13. held(t, b) = [title |-> t, target |-> target(t, b), marks |-> m, cert |-> c]
  BY <1>9, <1>11
<1>14. PICK s : s = held(t, b)
  OBVIOUS
<1>15. s.title = t /\ s.target = target(t, b) /\ s.marks = m /\ s.cert = c
  BY <1>13, <1>14
<1> HIDE DEF target, src, sanitized, none, marks, cert, held
<1>16. PutRead(b, s)
  BY <1>2, <1>4, <1>10, <1>12, <1>15 DEF PutRead
<1>17. PutOK(b, s)
  BY <1>1, <1>2, <1>3, <1>4, <1>10, <1>12, <1>15 DEF PutOK, Bodies
<1>18. Validated("PutTraining", b, s)
  BY <1>16, <1>17 DEF Validated, BodyOK, Current, Ops
<1>19. QED BY <1>1, <1>14, <1>18 DEF Opens, PutTraining

LEMMA DeleteTrainingOpens ==
  ASSUME TypeInv, NEW r \in Requests, DeleteTraining(r)
  PROVE  Opens(r)
<1>1. PICK t \in Existing :
        Begin(r, "DeleteTraining", [title |-> t], [parents |-> Parents({t})])
  BY DEF DeleteTraining
<1>2. Validated("DeleteTraining", [title |-> t], [parents |-> Parents({t})])
  BY ParentsType DEF Validated, BodyOK, Current, Ops, TypeInv
<1>3. QED BY <1>1, <1>2 DEF Opens, DeleteTraining

\* What the keys of a PATCH may name.
LEMMA PatchBodiesNames ==
  ASSUME TypeInv, NEW f, NEW scope, NEW b \in PatchBodies(f, scope)
  PROVE  /\ b.cert # Keep => b.cert \subseteq Existing
         /\ b.subs # Keep => /\ \A t \in MembersOf(f, scope) : training[t].type = "OLX"
                             /\ b.subs \subseteq OfType("OLXSubItem")
         /\ b.parents # Keep => /\ \A t \in MembersOf(f, scope) : training[t].type = "OLXSubItem"
                                /\ b.parents \subseteq OfType("OLX")
         /\ b.subs = Keep \/ b.parents = Keep
         /\ b.legacy # Keep => b.repl \subseteq Titles
<1> DEFINE group == MembersOf(f, scope)
           types == {training[t].type : t \in group}
           fulls(ty) == SUBSET {training[t].full : t \in OfType(ty)}
           certs == {With(NoBody, "cert", Expanded(c, {"Certification"},
                                            UNION {Group(f, ty) : ty \in types})) :
                       c \in IF types \cap CertBearing = {} THEN {} ELSE fulls("Certification")}
           subs == {With(NoBody, "subs", Expanded(c, {"OLXSubItem"}, Group(f, "OLX"))) :
                      c \in IF types = {"OLX"} THEN fulls("OLXSubItem") ELSE {}}
           parents == {With(NoBody, "parents", Expanded(c, {"OLX"}, Group(f, "OLXSubItem"))) :
                         c \in IF types = {"OLXSubItem"} THEN fulls("OLX") ELSE {}}
           marks == {With(With(NoBody, "legacy", l), "repl",
                          IF l THEN Expanded(c, LegacyEligible, {}) ELSE {}) :
                       l \in BOOLEAN, c \in fulls("Certification")}
           chosen == {With(NoBody, "choose", c) : c \in SUBSET {"product", "function"}}
<1>1. /\ \A c, e, x : Expanded(c, e, x) \subseteq Existing /\ Expanded(c, e, x) \subseteq Titles
      /\ \A c, ty, x : Expanded(c, {ty}, x) \subseteq OfType(ty)
  BY DEF TypeInv, TablesOK, Expanded, OfType
<1>2. /\ \A x : With(NoBody, "cert", x).cert = x /\ With(NoBody, "cert", x).subs = Keep
                /\ With(NoBody, "cert", x).parents = Keep /\ With(NoBody, "cert", x).legacy = Keep
      /\ \A x : With(NoBody, "subs", x).subs = x /\ With(NoBody, "subs", x).cert = Keep
                /\ With(NoBody, "subs", x).parents = Keep /\ With(NoBody, "subs", x).legacy = Keep
      /\ \A x : With(NoBody, "parents", x).parents = x /\ With(NoBody, "parents", x).cert = Keep
                /\ With(NoBody, "parents", x).subs = Keep /\ With(NoBody, "parents", x).legacy = Keep
      /\ \A x : With(NoBody, "choose", x).parents = Keep /\ With(NoBody, "choose", x).cert = Keep
                /\ With(NoBody, "choose", x).subs = Keep /\ With(NoBody, "choose", x).legacy = Keep
  BY DEF With, NoBody
<1>3. \A l \in BOOLEAN : \A x :
        LET m == With(With(NoBody, "legacy", l), "repl", x) IN
        m.cert = Keep /\ m.subs = Keep /\ m.parents = Keep /\ m.repl = x
  BY DEF With, NoBody
<1>4. CASE b \in certs
  <2>1. PICK c, x : b = With(NoBody, "cert", Expanded(c, {"Certification"}, x))
    <3> HIDE DEF types, fulls
    <3>1. QED BY <1>4
  <2>2. PICK e : e = Expanded(c, {"Certification"}, x)
    OBVIOUS
  <2>3. e \subseteq Existing /\ b = With(NoBody, "cert", e)
    BY <1>1, <2>1, <2>2
  <2>4. b.cert = e /\ b.subs = Keep /\ b.parents = Keep /\ b.legacy = Keep
    BY <1>2, <2>3
  <2>5. QED BY <2>3, <2>4
<1>5. CASE b \in subs
  <2>1. types = {"OLX"} /\ \E c : b = With(NoBody, "subs", Expanded(c, {"OLXSubItem"}, Group(f, "OLX")))
    <3> HIDE DEF types, fulls
    <3>1. QED BY <1>5
  <2>2. \A t \in group : training[t].type = "OLX"
    BY <2>1
  <2>3. PICK c : b = With(NoBody, "subs", Expanded(c, {"OLXSubItem"}, Group(f, "OLX")))
    BY <2>1
  <2>4. b.subs \subseteq OfType("OLXSubItem") /\ b.cert = Keep /\ b.parents = Keep /\ b.legacy = Keep
    BY <1>1, <1>2, <2>3
  <2>5. QED BY <2>2, <2>4
<1>6. CASE b \in parents
  <2>1. types = {"OLXSubItem"} /\ \E c : b = With(NoBody, "parents", Expanded(c, {"OLX"}, Group(f, "OLXSubItem")))
    <3> HIDE DEF types, fulls
    <3>1. QED BY <1>6
  <2>2. \A t \in group : training[t].type = "OLXSubItem"
    BY <2>1
  <2>3. PICK c : b = With(NoBody, "parents", Expanded(c, {"OLX"}, Group(f, "OLXSubItem")))
    BY <2>1
  <2>4. b.parents \subseteq OfType("OLX") /\ b.cert = Keep /\ b.subs = Keep /\ b.legacy = Keep
    BY <1>1, <1>2, <2>3
  <2>5. QED BY <2>2, <2>4
<1>7. CASE b \in marks
  <2>1. \A l \in BOOLEAN : \A c :
          (IF l THEN Expanded(c, LegacyEligible, {}) ELSE {}) \subseteq Titles
    BY <1>1
  <2> HIDE DEF fulls
  <2>2. PICK l \in BOOLEAN, c \in fulls("Certification") :
          b = With(With(NoBody, "legacy", l), "repl", IF l THEN Expanded(c, LegacyEligible, {}) ELSE {})
    BY <1>7
  <2>3. PICK x : x = IF l THEN Expanded(c, LegacyEligible, {}) ELSE {}
    OBVIOUS
  <2>4. x \subseteq Titles /\ b = With(With(NoBody, "legacy", l), "repl", x)
    BY <2>1, <2>2, <2>3
  <2>5. b.cert = Keep /\ b.subs = Keep /\ b.parents = Keep /\ b.repl = x
    BY <1>3, <2>4
  <2>6. QED BY <2>4, <2>5
<1>8. CASE b \in chosen
  BY <1>2, <1>8
<1>9. PatchBodies(f, scope) = certs \cup subs \cup parents \cup marks \cup chosen
  BY DEF PatchBodies
<1> HIDE DEF certs, subs, parents, marks, chosen
<1>10. QED BY <1>4, <1>5, <1>6, <1>7, <1>8, <1>9

LEMMA PatchGroupOpens ==
  ASSUME TypeInv, NEW r \in Requests, PatchGroup(r)
  PROVE  Opens(r)
<1>0. PICK f \in InUse : \E scope \in Scopes(f) : \E b \in PatchBodies(f, scope) :
        Begin(r, "PatchGroup", b, [t \in MembersOf(f, scope) |-> training[t].type])
  BY DEF PatchGroup
<1>1. PICK scope \in Scopes(f) : \E b \in PatchBodies(f, scope) :
        Begin(r, "PatchGroup", b, [t \in MembersOf(f, scope) |-> training[t].type])
  BY <1>0
<1>2. PICK b \in PatchBodies(f, scope) :
        Begin(r, "PatchGroup", b, [t \in MembersOf(f, scope) |-> training[t].type])
  BY <1>1
<1>3. PICK s : s = [t \in MembersOf(f, scope) |-> training[t].type]
  OBVIOUS
<1>4. /\ DOMAIN s = MembersOf(f, scope) /\ DOMAIN s \subseteq Existing /\ DOMAIN s \subseteq Titles
      /\ s = [t \in DOMAIN s |-> training[t].type]
  BY <1>3 DEF MembersOf, TypeInv, TablesOK
<1>5. b \in Bodies
  BY PatchBodiesType
<1>6. PatchRead(b, s)
  BY <1>3, <1>4, PatchBodiesNames DEF PatchRead
<1>7. PatchOK(b, s)
  <2>1. b.legacy # Keep => b.repl \subseteq Titles
    BY PatchBodiesNames
  <2>2. QED BY <1>4, <1>5, <2>1 DEF PatchOK, Bodies
<1>8. Validated("PatchGroup", b, s)
  BY <1>6, <1>7 DEF Validated, BodyOK, Current, Ops
<1>9. QED BY <1>2, <1>3, <1>8 DEF Opens, PatchGroup

LEMMA RegroupOpens ==
  ASSUME TypeInv, NEW r \in Requests, RenameGroup(r) \/ MergeGroup(r) \/ MoveAliases(r)
  PROVE  Opens(r)
<1>1. InUse \subseteq FullTitles
  BY DEF InUse, TypeInv, TablesOK, Training
<1>2. CASE RenameGroup(r)
  <2>1. PICK f \in InUse, g \in FullTitles \ InUse :
          Begin(r, "RenameGroup", [from |-> f, to |-> g], None)
    BY <1>2 DEF RenameGroup
  <2>2. Validated("RenameGroup", [from |-> f, to |-> g], None)
    BY DEF Validated, BodyOK, Current, Ops
  <2>3. QED BY <1>2, <2>1, <2>2 DEF Opens, RenameGroup
<1>3. CASE MergeGroup(r)
  <2>1. PICK f \in InUse, g \in InUse : Begin(r, "MergeGroup", [from |-> f, to |-> g], None)
    BY <1>3 DEF MergeGroup
  <2>2. Validated("MergeGroup", [from |-> f, to |-> g], None)
    BY <1>1 DEF Validated, BodyOK, Current, Ops
  <2>3. QED BY <1>3, <2>1, <2>2 DEF Opens, MergeGroup
<1>4. CASE MoveAliases(r)
  <2>1. PICK g, T : g \in FullTitles /\ Begin(r, "MoveAliases", [titles |-> T, to |-> g], None)
    BY <1>4 DEF MoveAliases
  <2>2. Validated("MoveAliases", [titles |-> T, to |-> g], None)
    BY <2>1 DEF Validated, BodyOK, Current, Ops
  <2>3. QED BY <1>4, <2>1, <2>2 DEF Opens, MoveAliases
<1>5. QED BY <1>2, <1>3, <1>4

LEMMA OtherOpens ==
  ASSUME TypeInv, NEW r \in Requests,
         DeleteGroup(r) \/ OlxBackfill(r) \/ NormaliseLeadsTo(r) \/ ImportCatalogue(r)
  PROVE  Opens(r)
<1>1. CASE DeleteGroup(r)
  <2>1. PICK f \in InUse :
          Begin(r, "DeleteGroup", [full |-> f],
             [group |-> MembersOf(f, Keep), parents |-> Parents(MembersOf(f, Keep)) \ MembersOf(f, Keep)])
    BY <1>1 DEF DeleteGroup
  <2>2. Validated("DeleteGroup", [full |-> f],
             [group |-> MembersOf(f, Keep), parents |-> Parents(MembersOf(f, Keep)) \ MembersOf(f, Keep)])
    BY ParentsType DEF Validated, BodyOK, Current, Ops, TypeInv
  <2>3. QED BY <1>1, <2>1, <2>2 DEF Opens, DeleteGroup
<1>2. CASE OlxBackfill(r)
  <2>1. PICK ps \in SUBSET OfType("OLX") : Begin(r, "OlxBackfill", [parents |-> ps], None)
    BY <1>2 DEF OlxBackfill
  <2>2. Validated("OlxBackfill", [parents |-> ps], None)
    BY DEF Validated, BodyOK, Current, Ops, TypeInv, TablesOK, OfType
  <2>3. QED BY <1>2, <2>1, <2>2 DEF Opens, OlxBackfill
<1>3. CASE NormaliseLeadsTo(r)
  <2>1. PICK f \in InUse, ty \in CertBearing :
          Begin(r, "NormaliseLeadsTo", [full |-> f, type |-> ty],
                [t \in Group(f, ty) |-> training[t].cert])
    BY <1>3 DEF NormaliseLeadsTo
  <2>2. Group(f, ty) \subseteq Existing /\ \A t \in Group(f, ty) : training[t].type = ty
    BY DEF Group, OfType
  <2>3. \A t \in Group(f, ty) : training[t].cert \subseteq Titles
    BY <2>2 DEF TypeInv, TablesOK, Training
  <2>4. Validated("NormaliseLeadsTo", [full |-> f, type |-> ty],
                  [t \in Group(f, ty) |-> training[t].cert])
    BY <2>2, <2>3 DEF Validated, BodyOK, Current, Ops
  <2>5. QED BY <1>3, <2>1, <2>4 DEF Opens, NormaliseLeadsTo
<1>4. CASE ImportCatalogue(r)
  <2>1. PICK file \in Mix.files :
          Begin(r, "ImportCatalogue", [rows |-> file], [repl |-> <<>>, links |-> {}])
    BY <1>4 DEF ImportCatalogue
  <2>2. file \in Seq(Cells) /\ <<>> \in Seq(Waiting)
    BY NamesType DEF TypeInv
  <2>3. Validated("ImportCatalogue", [rows |-> file], [repl |-> <<>>, links |-> {}])
    BY <2>2 DEF Validated, BodyOK, Current, Ops, ImportOK
  <2>4. QED BY <1>4, <2>1, <2>3 DEF Opens, ImportCatalogue
<1>5. QED BY <1>1, <1>2, <1>3, <1>4

LEMMA ReadsOpen == ASSUME TypeInv, NEW r \in Requests, Reads(r) PROVE Opens(r)
BY PostTakenOpens, PatchTakenOpens, DeleteTakenOpens, PostTrainingOpens, PutTrainingOpens,
   DeleteTrainingOpens, PatchGroupOpens, RegroupOpens, OtherOpens DEF Reads

LEMMA OpensType == ASSUME TypeInv, NEW r \in Requests, Opens(r) PROVE TypeInv'
<1>1. PICK op, b, s : Begin(r, op, b, s) /\ Validated(op, b, s)
  BY DEF Opens
<1>2. BodyOK(op, b, s)
  BY <1>1 DEF Validated
<1>3. QED BY <1>1, <1>2, BeginStep

----------------------------------------------------------------------------
(* Writes                                                                  *)

LEMMA BatchTypes ==
  ASSUME NEW ps \in SUBSET Titles
  PROVE  ForAll(ps) \subseteq Batches /\ \A w \in Learners : ForOne(w, ps) \subseteq Batches
BY DEF ForAll, ForOne, Batches

\* What a request that writes was called with, and has read.
LEMMA WritingType ==
  ASSUME TypeInv, NEW r \in Requests, NEW op, Writing(r, op)
  PROVE  BodyOK(op, call[r].body, call[r].seen) /\ pc[r] = "write" /\ call[r].op = op
BY DEF TypeInv, RequestsOK, RequestOK, Writing

LEMMA PostTakenWriteType ==
  ASSUME TypeInv, NEW r \in Requests, PostTakenWrite(r) PROVE TypeInv'
<1> PICK b : b = call[r].body
  OBVIOUS
<1>1. BodyOK("PostTaken", call[r].body, call[r].seen)
  BY WritingType DEF PostTakenWrite
<1>2. b.who \in Learners /\ b.title \in Titles /\ b.date \in Dates
  BY <1>1 DEF BodyOK
<1> PICK row : row = [id |-> nextId, who |-> b.who, title |-> b.title, date |-> b.date]
  OBVIOUS
<1>3. row \in Taken /\ row.id = nextId /\ row.title = b.title
  BY <1>2 DEF Taken, TypeInv, TablesOK
<1>4. /\ b.title \in Existing /\ taken' = taken \cup {row} /\ nextId' = nextId + 1
      /\ doubtful' = doubtful \cup {b.title} /\ UNCHANGED <<training, members, typed>>
      /\ Committed(r, ForOne(b.who, Parents({b.title})))
  BY DEF PostTakenWrite
<1>5. TablesOK'
  <2>1. \A t \in taken : t.id \in Nat /\ t.id < nextId /\ nextId \in Nat
    BY DEF TypeInv, TablesOK, Taken
  <2>2. nextId' \in Nat /\ nextId < nextId' /\ \A t \in taken : t.id < nextId' /\ t.id # nextId
    BY <1>4, <2>1 DEF TypeInv, TablesOK
  <2>3. QED BY <1>2, <1>3, <1>4, <2>2 DEF TypeInv, TablesOK, Existing, Reviewed
<1>6. ForOne(b.who, Parents({b.title})) \in SUBSET Batches
  BY <1>2, BatchTypes, ParentsType DEF TypeInv
<1>7. QED BY <1>4, <1>5, <1>6, CommittedStep DEF TypeInv

LEMMA RedatedType ==
  ASSUME NEW x \in Taken, NEW d \in Dates
  PROVE  /\ Redated(x, d) \in Taken /\ Redated(x, d).id = x.id /\ Redated(x, d).who = x.who
         /\ Redated(x, d).title = x.title /\ Redated(x, d).date = d
BY DEF Redated, Taken

LEMMA PatchTakenWriteType ==
  ASSUME TypeInv, NEW r \in Requests, PatchTakenWrite(r) PROVE TypeInv'
<1> PICK x : x = call[r].seen
  OBVIOUS
<1> PICK d : d = call[r].body.date
  OBVIOUS
<1>1. BodyOK("PatchTaken", call[r].body, call[r].seen)
  BY WritingType DEF PatchTakenWrite
<1>2. d \in Dates /\ x.who \in Learners /\ x.title \in Titles
  BY <1>1 DEF BodyOK, Taken
<1>3. /\ taken' = {IF y.id = x.id THEN Redated(y, d) ELSE y : y \in taken}
      /\ doubtful' = doubtful \cup {x.title} /\ UNCHANGED <<training, members, nextId, typed>>
      /\ Committed(r, ForOne(x.who, Parents({x.title})))
  BY DEF PatchTakenWrite
<1>4. \A y \in taken : /\ Redated(y, d) \in Taken /\ Redated(y, d).id = y.id
                       /\ Redated(y, d).title = y.title
  BY <1>2, RedatedType DEF TypeInv, TablesOK
<1>5. TablesOK'
  <2>1. \A y \in taken : y \in Taken /\ y.title \in Existing /\ y.id < nextId
    BY DEF TypeInv, TablesOK
  <2>2. /\ taken' \subseteq Taken /\ \A t \in taken' : t.title \in Existing /\ t.id < nextId
    BY <1>3, <1>4, <2>1
  <2>3. \A t, u \in taken' : t.id = u.id => t = u
    <3>1. \A t, u \in taken : t.id = u.id => t = u
      BY DEF TypeInv, TablesOK
    <3>2. QED BY <1>3, <1>4, <3>1
  <2>4. QED BY <1>2, <1>3, <2>2, <2>3 DEF TypeInv, TablesOK, Existing, Reviewed
<1>6. ForOne(x.who, Parents({x.title})) \in SUBSET Batches
  BY <1>2, BatchTypes, ParentsType DEF TypeInv
<1>7. QED BY <1>3, <1>5, <1>6, CommittedStep DEF TypeInv

LEMMA DeleteTakenWriteType ==
  ASSUME TypeInv, NEW r \in Requests, DeleteTakenWrite(r) PROVE TypeInv'
<1> PICK x : x = call[r].seen
  OBVIOUS
<1>1. BodyOK("DeleteTaken", call[r].body, call[r].seen)
  BY WritingType DEF DeleteTakenWrite
<1>2. x.who \in Learners /\ x.title \in Titles
  BY <1>1 DEF BodyOK, Taken
<1>3. /\ taken' = {y \in taken : y.id # x.id}
      /\ doubtful' = doubtful \cup {x.title} /\ UNCHANGED <<training, members, nextId, typed>>
      /\ Committed(r, ForOne(x.who, Parents({x.title})))
  BY DEF DeleteTakenWrite
<1>4. TablesOK'
  BY <1>2, <1>3 DEF TypeInv, TablesOK, Existing, Reviewed
<1>5. ForOne(x.who, Parents({x.title})) \in SUBSET Batches
  BY <1>2, BatchTypes, ParentsType DEF TypeInv
<1>6. QED BY <1>3, <1>4, <1>5, CommittedStep DEF TypeInv

LEMMA PostTrainingWriteType ==
  ASSUME TypeInv, NEW r \in Requests, PostTrainingWrite(r) PROVE TypeInv'
<1> PICK b : b = call[r].body
  OBVIOUS
<1> PICK row : row = call[r].seen
  OBVIOUS
<1>1. BodyOK("PostTraining", b, row)
  BY WritingType DEF PostTrainingWrite
<1>2. /\ b.title \in Titles /\ b.subs \subseteq Titles /\ b.parents \subseteq Titles
      /\ row \in Training /\ Reviewed(row)
  BY <1>1 DEF BodyOK
<1>3. /\ b.title \notin Existing /\ b.subs \cup b.parents \subseteq Existing
      /\ training' = [t \in Existing \cup {b.title} |-> IF t = b.title THEN row ELSE training[t]]
      /\ members' = members \cup ({b.title} \X b.subs) \cup (b.parents \X {b.title})
      /\ Committed(r, ForAll(IF row.type = "OLX" THEN {b.title} ELSE b.parents))
      /\ UNCHANGED <<taken, nextId, doubtful, typed>>
  BY DEF PostTrainingWrite
<1>4. TablesOK'
  <2>1. Existing' = Existing \cup {b.title}
    BY <1>3 DEF Existing
  <2>2. training' \in [Existing' -> Training] /\ \A t \in Existing' : Reviewed(training'[t])
    BY <1>2, <1>3, <2>1 DEF TypeInv, TablesOK
  <2>3. members' \subseteq Existing' \X Existing'
    BY <1>3, <2>1 DEF TypeInv, TablesOK
  <2>4. QED BY <1>2, <1>3, <2>1, <2>2, <2>3 DEF TypeInv, TablesOK, Reviewed
<1>5. ForAll(IF row.type = "OLX" THEN {b.title} ELSE b.parents) \in SUBSET Batches
  BY <1>2, BatchTypes
<1>6. QED BY <1>3, <1>4, <1>5, CommittedStep DEF TypeInv

LEMMA ChosenType ==
  ASSUME NEW row \in Training, NEW b, NEW fields
  PROVE  /\ Chosen(row, b, fields) \in Training
         /\ Reviewed(row) => Reviewed(Chosen(row, b, fields))
         /\ LET new == Chosen(row, b, fields) IN
              /\ new.full = row.full /\ new.type = row.type /\ new.cert = row.cert
              /\ new.legacy = row.legacy /\ new.repl = row.repl /\ new.incomplete = row.incomplete
              /\ new.unset = row.unset \ (fields \cup IF b.type = Keep THEN {} ELSE {"type"})
BY DEF Chosen, Training, Reviewed

Remapped(list, from, to) == IF from \in list THEN (list \ {from}) \cup to ELSE list

\* The rows after a rewriting of what names a title.
LEMMA RewriteIs ==
  ASSUME NEW tr, NEW T \in SUBSET Titles, tr \in [T -> Training], NEW from, NEW to \in SUBSET Titles
  PROVE  /\ Rewrite(tr, from, to) \in [T -> Training]
         /\ \A t \in T :
              LET new == Rewrite(tr, from, to)[t] IN
              /\ new.full = tr[t].full /\ new.type = tr[t].type /\ new.legacy = tr[t].legacy
              /\ new.unset = tr[t].unset /\ new.incomplete = tr[t].incomplete
              /\ t # from => /\ new.cert = Remapped(tr[t].cert, from, to)
                             /\ new.repl = Remapped(tr[t].repl, from, to)
              /\ t = from => new = tr[t]
<1> PICK new : new = Rewrite(tr, from, to)
  OBVIOUS
<1>1. new = [t \in T |-> IF t = from THEN tr[t] ELSE
               [tr[t] EXCEPT !.cert = Remapped(@, from, to), !.repl = Remapped(@, from, to)]]
  BY Zenon DEF Rewrite, Remapped
<1>2. \A t \in T : tr[t] \in Training
  OBVIOUS
<1>3. \A list \in SUBSET Titles : Remapped(list, from, to) \in SUBSET Titles
  BY DEF Remapped
<1>4. ASSUME NEW t \in T
      PROVE  /\ new[t] \in Training
             /\ new[t].full = tr[t].full /\ new[t].type = tr[t].type /\ new[t].legacy = tr[t].legacy
             /\ new[t].unset = tr[t].unset /\ new[t].incomplete = tr[t].incomplete
             /\ t # from => /\ new[t].cert = Remapped(tr[t].cert, from, to)
                            /\ new[t].repl = Remapped(tr[t].repl, from, to)
             /\ t = from => new[t] = tr[t]
  <2>1. CASE t = from
    BY Zenon, <1>1, <1>2, <2>1
  <2>2. CASE t # from
    <3> PICK row : row = tr[t]
      OBVIOUS
    <3>1. new[t] = [row EXCEPT !.cert = Remapped(@, from, to), !.repl = Remapped(@, from, to)]
      BY Zenon, <1>1, <2>2
    <3>2. row \in Training
      BY <1>2
    <3>3. Remapped(row.cert, from, to) \in SUBSET Titles /\ Remapped(row.repl, from, to) \in SUBSET Titles
      BY <1>3, <3>2 DEF Training
    <3>4. QED BY <2>2, <3>1, <3>2, <3>3 DEF Training
  <2>3. QED BY <2>1, <2>2
<1>5. new \in [T -> Training]
  BY Zenon, <1>1, <1>4
<1>6. QED BY <1>4, <1>5

\* The rows and tables after a rename.
RowCarried(new, row, from, to) ==
  /\ new.full = row.full /\ new.type = row.type /\ new.legacy = row.legacy
  /\ new.unset = row.unset /\ new.incomplete = row.incomplete
  /\ new.cert = {Name(from, to, x) : x \in row.cert}
  /\ new.repl = {Name(from, to, x) : x \in row.repl}

IsRenamed(moved, from, to) ==
  /\ DOMAIN moved.training = (Existing \ {from}) \cup {to}
  /\ moved.training \in [(Existing \ {from}) \cup {to} -> Training]
  /\ \A t \in Existing : RowCarried(moved.training[Name(from, to, t)], training[t], from, to)
  /\ moved.members = {<<Name(from, to, m[1]), Name(from, to, m[2])>> : m \in members}
  /\ moved.taken = {Retitled(x, Name(from, to, x.title)) : x \in taken}

LEMMA RenamedIs ==
  ASSUME TablesOK, NEW from \in Existing, NEW to \in Titles, from # to => to \notin Existing
  PROVE  IsRenamed(Renamed(from, to), from, to)
<1> PICK moved : moved = Renamed(from, to)
  OBVIOUS
<1> PICK there : there = (Existing \ {from}) \cup {to}
  OBVIOUS
<1> DEFINE carried == [t \in {Name(from, to, u) : u \in Existing} |->
                         training[IF t = to THEN from ELSE t]]
<1>1. {Name(from, to, u) : u \in Existing} = there
  BY DEF Name
<1>2. moved = [training |-> IF from = to THEN training ELSE Rewrite(carried, from, {to}),
               members |-> {<<Name(from, to, m[1]), Name(from, to, m[2])>> : m \in members},
               taken |-> {Retitled(x, Name(from, to, x.title)) : x \in taken}]
  BY DEF Renamed
<1>3. /\ moved.training = IF from = to THEN training ELSE Rewrite(carried, from, {to})
      /\ moved.members = {<<Name(from, to, m[1]), Name(from, to, m[2])>> : m \in members}
      /\ moved.taken = {Retitled(x, Name(from, to, x.title)) : x \in taken}
  BY <1>2
<1>4. \A t \in Existing : training[t] \in Training /\ t \in Titles
  BY DEF TablesOK
<1>5. CASE from = to
  <2>1. moved.training = training /\ there = Existing /\ \A x : Name(from, to, x) = x
    BY <1>3, <1>5 DEF Name
  <2>2. \A t \in Existing : RowCarried(training[t], training[t], from, to)
    BY <2>1 DEF RowCarried
  <2>3. QED BY <1>3, <2>1, <2>2 DEF TablesOK, Existing, IsRenamed
<1>6. CASE from # to
  <2>1. moved.training = Rewrite(carried, from, {to})
    BY <1>3, <1>6
  <2>2. carried = [t \in there |-> training[IF t = to THEN from ELSE t]]
    BY <1>1
  <2> HIDE DEF carried
  <2>3. carried \in [there -> Training] /\ there \in SUBSET Titles /\ from \notin there
    BY <1>4, <1>6, <2>2
  <2>4. {to} \in SUBSET Titles
    OBVIOUS
  <2>5. /\ moved.training \in [there -> Training]
        /\ \A t \in there :
              LET new == moved.training[t] IN
              /\ new.full = carried[t].full /\ new.type = carried[t].type
              /\ new.legacy = carried[t].legacy
              /\ new.unset = carried[t].unset /\ new.incomplete = carried[t].incomplete
              /\ new.cert = Remapped(carried[t].cert, from, {to})
              /\ new.repl = Remapped(carried[t].repl, from, {to})
    <3>1. \A t \in there : t # from
      BY <2>3
    <3>2. QED BY <2>1, <2>3, <2>4, <3>1, RewriteIs
  <2>6. \A t \in Existing : Name(from, to, t) \in there /\ carried[Name(from, to, t)] = training[t]
    BY <1>6, <2>2 DEF Name
  <2>7. \A list \in SUBSET Titles : Remapped(list, from, {to}) = {Name(from, to, x) : x \in list}
    BY DEF Remapped, Name
  <2>8. ASSUME NEW t \in Existing
        PROVE  RowCarried(moved.training[Name(from, to, t)], training[t], from, to)
    <3>1. training[t].cert \in SUBSET Titles /\ training[t].repl \in SUBSET Titles
      BY <1>4 DEF Training
    <3>2. /\ Remapped(training[t].cert, from, {to}) = {Name(from, to, x) : x \in training[t].cert}
          /\ Remapped(training[t].repl, from, {to}) = {Name(from, to, x) : x \in training[t].repl}
      BY <2>7, <3>1
    <3> PICK n : n = Name(from, to, t)
      OBVIOUS
    <3>3. n \in there /\ carried[n] = training[t]
      BY <2>6
    <3> PICK new : new = moved.training[n]
      OBVIOUS
    <3>4. /\ new.full = carried[n].full /\ new.type = carried[n].type
          /\ new.legacy = carried[n].legacy
          /\ new.unset = carried[n].unset /\ new.incomplete = carried[n].incomplete
          /\ new.cert = Remapped(carried[n].cert, from, {to})
          /\ new.repl = Remapped(carried[n].repl, from, {to})
      BY <2>5, <3>3
    <3>5. /\ new.full = training[t].full /\ new.type = training[t].type
          /\ new.legacy = training[t].legacy
          /\ new.unset = training[t].unset /\ new.incomplete = training[t].incomplete
          /\ new.cert = Remapped(training[t].cert, from, {to})
          /\ new.repl = Remapped(training[t].repl, from, {to})
      BY <3>3, <3>4
    <3>6. QED BY <3>2, <3>5 DEF RowCarried
  <2>9. DOMAIN moved.training = there
    BY <2>5
  <2>10. QED BY <1>3, <2>5, <2>8, <2>9 DEF IsRenamed
<1>7. QED BY <1>5, <1>6

LEMMA PutRowType ==
  ASSUME NEW row \in Training, NEW b, NEW s, PutOK(b, s)
  PROVE  /\ PutRow(row, b, s) \in Training
         /\ Reviewed(row) => Reviewed(PutRow(row, b, s))
         /\ LET new == PutRow(row, b, s) IN
              /\ new.full = Or(b.full, row.full) /\ new.type = TypePut(b, row)
              /\ new.cert = Or(s.cert, row.cert)
              /\ new.legacy = (IF s.marks = Keep THEN row.legacy ELSE s.marks.legacy)
              /\ new.repl = IF s.marks = Keep THEN row.repl ELSE s.marks.repl
<1> PICK full, type, cert, legacy, repl, incomplete :
      /\ full = Or(b.full, row.full) /\ type = Or(b.type, row.type) /\ cert = Or(s.cert, row.cert)
      /\ legacy = (IF s.marks = Keep THEN row.legacy ELSE s.marks.legacy)
      /\ repl = IF s.marks = Keep THEN row.repl ELSE s.marks.repl
      /\ incomplete = (row.incomplete /\ ~b.complete)
  OBVIOUS
<1> PICK cols : cols = [full |-> full, type |-> type, cert |-> cert, legacy |-> legacy,
                        repl |-> repl, unset |-> row.unset, incomplete |-> incomplete]
  OBVIOUS
<1>1. /\ full \in FullTitles /\ type \in Types /\ cert \subseteq Titles /\ legacy \in BOOLEAN
      /\ repl \subseteq Titles /\ incomplete \in BOOLEAN /\ row.unset \subseteq Classification
  BY DEF PutOK, Or, Training, Markers, TitlesOrKeep
<1>2. cols \in Training
  BY <1>1 DEF Training
<1>3. PutRow(row, b, s) = Chosen(cols, b, b.choose)
  BY DEF PutRow
<1>4. PICK new : new = PutRow(row, b, s)
  OBVIOUS
<1>5. /\ new \in Training /\ new.full = full /\ new.type = type /\ new.cert = cert
      /\ new.legacy = legacy /\ new.repl = repl /\ new.incomplete = incomplete
      /\ new.unset = row.unset \ (b.choose \cup IF b.type = Keep THEN {} ELSE {"type"})
  BY <1>2, <1>3, <1>4, ChosenType
<1>6. ASSUME Reviewed(row), ~new.incomplete PROVE new.unset = {}
  <2>1. ~row.incomplete \/ b.complete
    BY <1>5, <1>6
  <2>2. CASE ~row.incomplete
    BY <1>5, <1>6, <2>2 DEF Reviewed
  <2>3. CASE b.complete
    <3>1. b.type # Keep /\ {"product", "function"} \subseteq b.choose
      BY <2>3 DEF PutOK, CompletionGate
    <3>2. QED BY <1>1, <1>5, <3>1 DEF Classification
  <2>4. QED BY <2>1, <2>2, <2>3
<1>7. type = TypePut(b, row)
  BY DEF Or, TypePut
<1>8. QED BY <1>4, <1>5, <1>6, <1>7 DEF Reviewed

\* The relations after a synchronisation.
SyncAbove(ms, T, ty, subs) ==
  IF ty # "OLX" THEN {} ELSE IF subs = Keep THEN {m \in ms : m[1] \in T} ELSE T \X subs
SyncBelow(ms, T, ty, parents) ==
  IF ty # "OLXSubItem" THEN {} ELSE IF parents = Keep THEN {m \in ms : m[2] \in T} ELSE parents \X T
Outside(ms, T) == {m \in ms : m[1] \notin T /\ m[2] \notin T}

LEMMA SyncIs ==
  ASSUME NEW ms, NEW T, NEW ty, NEW subs, NEW parents,
         NEW sync, sync = Sync(ms, T, ty, subs, parents),
         NEW A, A = SyncAbove(ms, T, ty, subs), NEW B, B = SyncBelow(ms, T, ty, parents)
  PROVE  /\ sync.members = Outside(ms, T) \cup A \cup B
         /\ \A m \in ms : m[1] \in T /\ m \notin A => m[1] \in sync.affected
         /\ \A m \in ms : m[2] \in T /\ m \notin B => m[1] \in sync.affected
         /\ \A m \in A : m \notin ms \/ m[1] \notin T => m[1] \in sync.affected
         /\ \A m \in B : m \notin ms \/ m[2] \notin T => m[1] \in sync.affected
         /\ \A p \in sync.affected : \E m \in ms \cup A \cup B : m[1] = p
<1> DEFINE above == {m \in ms : m[1] \in T}
           below == {m \in ms : m[2] \in T}
<1>1. sync = [members |-> (ms \ (above \cup below)) \cup A \cup B,
              affected |-> {m[1] : m \in (below \ B) \cup (B \ below) \cup (above \ A) \cup (A \ above)}]
  BY DEF Sync, SyncAbove, SyncBelow
<1>2. /\ sync.members = (ms \ (above \cup below)) \cup A \cup B
      /\ sync.affected = {m[1] : m \in (below \ B) \cup (B \ below) \cup (above \ A) \cup (A \ above)}
  BY <1>1
<1>3. ms \ (above \cup below) = Outside(ms, T)
  BY DEF Outside
<1>4. QED BY <1>2, <1>3

LEMMA SyncType ==
  ASSUME NEW ms \in SUBSET (Titles \X Titles), NEW T \in SUBSET Titles, NEW ty,
         NEW subs \in TitlesOrKeep, NEW parents \in TitlesOrKeep
  PROVE  /\ Sync(ms, T, ty, subs, parents).members \subseteq Titles \X Titles
         /\ Sync(ms, T, ty, subs, parents).affected \subseteq Titles
<1> PICK A : A = SyncAbove(ms, T, ty, subs)
  OBVIOUS
<1> PICK B : B = SyncBelow(ms, T, ty, parents)
  OBVIOUS
<1>1. A \subseteq Titles \X Titles /\ B \subseteq Titles \X Titles /\ Outside(ms, T) \subseteq Titles \X Titles
  BY DEF SyncAbove, SyncBelow, TitlesOrKeep, Outside
<1> PICK sync : sync = Sync(ms, T, ty, subs, parents)
  OBVIOUS
<1>2. /\ sync.members = Outside(ms, T) \cup A \cup B
      /\ \A p \in sync.affected : \E m \in ms \cup A \cup B : m[1] = p
  BY SyncIs
<1>3. \A m \in Titles \X Titles : m[1] \in Titles
  OBVIOUS
<1>4. sync.affected \subseteq Titles
  BY <1>1, <1>2, <1>3
<1>5. QED BY <1>1, <1>2, <1>4

\* What a PUT writes.
PutWrites(r, b, s, moved, new, sync, regrouped) ==
  /\ regrouped = IF new.full # moved.training[s.target].full
                      \/ new.type # moved.training[s.target].type
                   THEN {m[1] : m \in {x \in moved.members : x[2] = s.target}} ELSE {}
  /\ moved = Renamed(s.title, s.target) /\ new = PutRow(moved.training[s.target], b, s)
  /\ sync = Sync(moved.members, {s.target}, new.type, b.subs, b.parents)
  /\ s.title \in Existing /\ (s.target # s.title => s.target \notin Existing)
  /\ training' = [moved.training EXCEPT ![s.target] = new]
  /\ members' = sync.members
  /\ members' \subseteq (DOMAIN training') \X (DOMAIN training')
  /\ taken' = moved.taken
  /\ doubtful' = IF r \in alone
       THEN {Name(s.title, s.target, p) : p \in doubtful} \cup
            (regrouped \cap {m[1] : m \in sync.members})
       ELSE doubtful
  /\ Committed(r, ForAll(sync.affected \cup IF s.target = s.title THEN {} ELSE {s.target}))
  /\ UNCHANGED <<nextId, typed>>

LEMMA PutWritesIs ==
  ASSUME NEW r, PutTrainingWrite(r)
  PROVE  \E moved, new, sync, regrouped :
           PutWrites(r, call[r].body, call[r].seen, moved, new, sync, regrouped)
<1> DEFINE b == call[r].body
           s == call[r].seen
           moved == Renamed(s.title, s.target)
           new == PutRow(moved.training[s.target], b, s)
           sync == Sync(moved.members, {s.target}, new.type, b.subs, b.parents)
           regrouped == IF new.full # moved.training[s.target].full
                           \/ new.type # moved.training[s.target].type
                          THEN {m[1] : m \in {x \in moved.members : x[2] = s.target}} ELSE {}
<1>1. PutWrites(r, b, s, moved, new, sync, regrouped)
  <2> USE DEF PutTrainingWrite
  <2>1. /\ s.title \in Existing /\ (s.target # s.title => s.target \notin Existing)
        /\ training' = [moved.training EXCEPT ![s.target] = new]
        /\ members' = sync.members
        /\ members' \subseteq (DOMAIN training') \X (DOMAIN training')
        /\ taken' = moved.taken
    BY Zenon
  <2>2. doubtful' = IF r \in alone
       THEN {Name(s.title, s.target, p) : p \in doubtful} \cup
            (regrouped \cap {m[1] : m \in sync.members})
       ELSE doubtful
    BY Zenon
  <2>3. /\ Committed(r, ForAll(sync.affected \cup IF s.target = s.title THEN {} ELSE {s.target}))
        /\ UNCHANGED <<nextId, typed>>
    BY Zenon
  <2> HIDE DEF PutTrainingWrite, b, s
  <2>4. QED BY Zenon, <2>1, <2>2, <2>3 DEF PutWrites
<1> HIDE DEF b, s, moved, new, sync, regrouped
<1>2. \E m, n, y, g : PutWrites(r, b, s, m, n, y, g)
  BY <1>1
<1>3. QED BY <1>2 DEF b, s

LEMMA PutTrainingWriteType ==
  ASSUME TypeInv, NEW r \in Requests, PutTrainingWrite(r) PROVE TypeInv'
<1> PICK b : b = call[r].body
  OBVIOUS
<1> PICK s : s = call[r].seen
  OBVIOUS
<1>1. BodyOK("PutTraining", b, s)
  BY Zenon, WritingType DEF PutTrainingWrite
<1>2. PutOK(b, s) /\ s.title \in Titles /\ s.target \in Titles
      /\ b.subs \in TitlesOrKeep /\ b.parents \in TitlesOrKeep
  BY <1>1 DEF BodyOK, PutOK
<1>3. PICK moved, new, sync, regrouped : PutWrites(r, b, s, moved, new, sync, regrouped)
  BY PutWritesIs
<1> PICK from : from = s.title
  OBVIOUS
<1> PICK to : to = s.target
  OBVIOUS
<1> PICK there : there = (Existing \ {from}) \cup {to}
  BY Zenon
<1>4. /\ from \in Existing /\ to \in Titles /\ (from # to => to \notin Existing)
      /\ moved = Renamed(from, to)
  BY Zenon, <1>2, <1>3 DEF PutWrites
<1>50. IsRenamed(moved, from, to)
  BY <1>4, RenamedIs DEF TypeInv
<1>5. /\ moved.training \in [there -> Training] /\ DOMAIN moved.training = there
      /\ \A t \in Existing :
           LET row == moved.training[Name(from, to, t)] IN
             row.unset = training[t].unset /\ row.incomplete = training[t].incomplete
      /\ moved.members = {<<Name(from, to, m[1]), Name(from, to, m[2])>> : m \in members}
      /\ moved.taken = {Retitled(x, Name(from, to, x.title)) : x \in taken}
  BY <1>50 DEF IsRenamed, RowCarried
<1>6. /\ \A t \in there : \E u \in Existing : t = Name(from, to, u)
      /\ \A u \in Existing : Name(from, to, u) \in there /\ there \subseteq Titles
  BY <1>4 DEF Name, TypeInv, TablesOK
<1>7. ASSUME NEW t \in there PROVE Reviewed(moved.training[t]) /\ moved.training[t] \in Training
  <2>1. PICK u \in Existing : t = Name(from, to, u)
    BY <1>6
  <2>2. Reviewed(training[u])
    BY DEF TypeInv, TablesOK
  <2>3. Reviewed(moved.training[t])
    BY <1>5, <2>1, <2>2 DEF Reviewed
  <2>4. QED BY <1>5, <2>3
<1>8. to \in there /\ new \in Training /\ Reviewed(new)
  BY Zenon, <1>2, <1>3, <1>4, <1>7, PutRowType DEF PutWrites
<1>9. /\ training' = [moved.training EXCEPT ![to] = new] /\ members' = sync.members
      /\ members' \subseteq (DOMAIN training') \X (DOMAIN training')
      /\ taken' = moved.taken /\ UNCHANGED <<nextId, typed>>
      /\ sync = Sync(moved.members, {to}, new.type, b.subs, b.parents)
      /\ Committed(r, ForAll(sync.affected \cup IF s.target = s.title THEN {} ELSE {s.target}))
  BY Zenon, <1>3 DEF PutWrites
<1>10. training' \in [there -> Training] /\ DOMAIN training' = there /\ \A t \in there : Reviewed(training'[t])
  BY Zenon, <1>5, <1>7, <1>8, <1>9
<1>11. /\ taken' \subseteq Taken /\ \A t \in taken' : t.title \in there /\ t.id < nextId
       /\ \A t, u \in taken' : t.id = u.id => t = u
  <2>1. \A x \in taken : x \in Taken /\ x.title \in Existing /\ x.id < nextId
        /\ \A y \in taken : x.id = y.id => x = y
    BY DEF TypeInv, TablesOK
  <2>2. \A x \in taken : Name(from, to, x.title) \in there /\ Name(from, to, x.title) \in Titles
    BY <1>6, <2>1
  <2>3. \A x \in taken :
          LET y == Retitled(x, Name(from, to, x.title)) IN
          y \in Taken /\ y.title \in there /\ y.id < nextId /\ y.id = x.id
    BY <2>1, <2>2 DEF Taken, Retitled
  <2>30. \A t \in taken' : \E x \in taken : t = Retitled(x, Name(from, to, x.title))
    BY Zenon, <1>5, <1>9
  <2>4. /\ taken' \subseteq Taken /\ \A t \in taken' : t.title \in there /\ t.id < nextId
        /\ \A t, u \in taken' : t.id = u.id => t = u
    BY <2>1, <2>3, <2>30
  <2>5. QED BY <2>3, <2>4
<1>12. moved.members \in SUBSET (Titles \X Titles)
  <2>1. \A m \in members : m[1] \in Existing /\ m[2] \in Existing
    BY DEF TypeInv, TablesOK
  <2>2. QED BY <1>5, <1>6, <2>1
<1>13. sync.affected \subseteq Titles /\ sync.members \subseteq Titles \X Titles
  <2>1. {to} \in SUBSET Titles
    BY <1>4
  <2>2. QED BY <1>2, <1>9, <1>12, <2>1, SyncType
<1>14. doubtful' \subseteq Titles
  <2>1. doubtful' = IF r \in alone
                      THEN {Name(s.title, s.target, p) : p \in doubtful} \cup
                           (regrouped \cap {m[1] : m \in sync.members})
                      ELSE doubtful
    BY Zenon, <1>3 DEF PutWrites
  <2>2. doubtful \subseteq Titles
    BY DEF TypeInv, TablesOK
  <2>3. \A m \in sync.members : m[1] \in Titles
    BY <1>13
  <2>4. QED BY <1>4, <2>1, <2>2, <2>3 DEF Name
<1>15. TablesOK'
  BY <1>6, <1>9, <1>10, <1>11, <1>14 DEF TypeInv, TablesOK, Existing, Reviewed
<1>16. ForAll(sync.affected \cup IF s.target = s.title THEN {} ELSE {s.target}) \in SUBSET Batches
  <2>1. (sync.affected \cup IF s.target = s.title THEN {} ELSE {s.target}) \in SUBSET Titles
    BY <1>2, <1>13
  <2>2. QED BY <2>1, BatchTypes
<1>17. QED BY Zenon, <1>9, <1>15, <1>16, CommittedStep DEF TypeInv

\* The rows after a title is scrubbed from what names it.
LEMMA ScrubbedIs ==
  ASSUME NEW tr, NEW S \in SUBSET Titles, tr \in [S -> Training], NEW T
  PROVE  /\ Scrubbed(tr, T) \in [S -> Training] /\ DOMAIN Scrubbed(tr, T) = S
         /\ \A t \in S :
              LET new == Scrubbed(tr, T)[t] IN
              /\ new.full = tr[t].full /\ new.type = tr[t].type /\ new.legacy = tr[t].legacy
              /\ new.unset = tr[t].unset /\ new.incomplete = tr[t].incomplete
              /\ new.cert = tr[t].cert \ (T \ {t}) /\ new.repl = tr[t].repl \ (T \ {t})
<1> PICK new : new = Scrubbed(tr, T)
  OBVIOUS
<1>1. new = [t \in S |-> [tr[t] EXCEPT !.cert = @ \ (T \ {t}), !.repl = @ \ (T \ {t})]]
  BY Zenon DEF Scrubbed
<1>2. ASSUME NEW t \in S
      PROVE  /\ new[t] \in Training
             /\ new[t].full = tr[t].full /\ new[t].type = tr[t].type /\ new[t].legacy = tr[t].legacy
             /\ new[t].unset = tr[t].unset /\ new[t].incomplete = tr[t].incomplete
             /\ new[t].cert = tr[t].cert \ (T \ {t}) /\ new[t].repl = tr[t].repl \ (T \ {t})
  <2> PICK row : row = tr[t]
    OBVIOUS
  <2>1. row \in Training /\ new[t] = [row EXCEPT !.cert = @ \ (T \ {t}), !.repl = @ \ (T \ {t})]
    BY Zenon, <1>1
  <2> PICK c : c = row.cert \ (T \ {t})
    OBVIOUS
  <2> PICK x : x = row.repl \ (T \ {t})
    OBVIOUS
  <2>2. new[t] = [row EXCEPT !.cert = c, !.repl = x]
    BY <2>1
  <2>3. c \in SUBSET Titles /\ x \in SUBSET Titles
    BY <2>1 DEF Training
  <2>4. new[t] \in Training
    BY Zenon, <2>1, <2>2, <2>3 DEF Training
  <2>5. /\ new[t].full = row.full /\ new[t].type = row.type /\ new[t].legacy = row.legacy
        /\ new[t].unset = row.unset /\ new[t].incomplete = row.incomplete
    BY <2>1, <2>2 DEF Training
  <2>6. new[t].cert = c /\ new[t].repl = x
    BY <2>1, <2>2 DEF Training
  <2>7. QED BY <2>4, <2>5, <2>6
<1>3. new \in [S -> Training] /\ DOMAIN new = S
  BY Zenon, <1>1, <1>2
<1>4. QED BY <1>2, <1>3

\* Titles go, with all that refers to them.
LEMMA WithoutType ==
  ASSUME TablesOK, NEW gone \in SUBSET Existing, NEW T, NEW rest, rest = Existing \ gone,
         training' = Scrubbed([t \in rest |-> training[t]], T),
         WithoutTitles(gone), UNCHANGED <<nextId, doubtful, typed>>
  PROVE  TablesOK' /\ Existing' = rest
<1> PICK tr : tr = [t \in rest |-> training[t]]
  OBVIOUS
<1>1. tr \in [rest -> Training] /\ rest \in SUBSET Titles /\ \A t \in rest : tr[t] = training[t]
  BY DEF TablesOK
<1>2. /\ training' \in [rest -> Training] /\ DOMAIN training' = rest
      /\ \A t \in rest : training'[t].unset = tr[t].unset /\ training'[t].incomplete = tr[t].incomplete
  BY <1>1, ScrubbedIs
<1>3. Existing' = rest
  BY <1>2 DEF Existing
<1>4. \A t \in rest : Reviewed(training'[t])
  BY Zenon, <1>1, <1>2 DEF TablesOK, Reviewed
<1>5. members' \subseteq rest \X rest /\ taken' \subseteq taken /\ \A x \in taken' : x.title \in rest
  BY DEF WithoutTitles, TablesOK
<1>6. QED BY <1>1, <1>2, <1>3, <1>4, <1>5 DEF TablesOK, Reviewed

LEMMA DeleteTrainingWriteType ==
  ASSUME TypeInv, NEW r \in Requests, DeleteTrainingWrite(r) PROVE TypeInv'
<1> PICK t : t = call[r].body.title
  OBVIOUS
<1>1. BodyOK("DeleteTraining", call[r].body, call[r].seen)
  BY WritingType DEF DeleteTrainingWrite
<1>2. call[r].seen.parents \in SUBSET Titles
  BY <1>1 DEF BodyOK
<1>3. /\ t \in Existing /\ training' = Scrubbed([u \in Existing \ {t} |-> training[u]], {t})
      /\ WithoutTitles({t}) /\ Committed(r, ForAll(call[r].seen.parents))
      /\ UNCHANGED <<nextId, doubtful, typed>>
  BY DEF DeleteTrainingWrite
<1>4. TablesOK'
  <2>1. {t} \in SUBSET Existing
    BY <1>3
  <2>2. QED BY <1>3, <2>1, WithoutType DEF TypeInv
<1>5. ForAll(call[r].seen.parents) \in SUBSET Batches
  BY <1>2, BatchTypes
<1>6. QED BY <1>3, <1>4, <1>5, CommittedStep DEF TypeInv

LEMMA DeleteGroupWriteType ==
  ASSUME TypeInv, NEW r \in Requests, DeleteGroupWrite(r) PROVE TypeInv'
<1> PICK gone : gone = MembersOf(call[r].body.full, Keep)
  OBVIOUS
<1>1. BodyOK("DeleteGroup", call[r].body, call[r].seen)
  BY WritingType DEF DeleteGroupWrite
<1>2. call[r].seen.parents \in SUBSET Titles
  BY <1>1 DEF BodyOK
<1>3. /\ training' = Scrubbed([t \in Existing \ gone |-> training[t]], call[r].seen.group)
      /\ WithoutTitles(gone) /\ Committed(r, ForAll(call[r].seen.parents))
      /\ UNCHANGED <<nextId, doubtful, typed>>
  BY DEF DeleteGroupWrite
<1>4. TablesOK'
  <2>1. gone \in SUBSET Existing
    BY DEF MembersOf
  <2>2. QED BY <1>3, <2>1, WithoutType DEF TypeInv
<1>5. ForAll(call[r].seen.parents) \in SUBSET Batches
  BY <1>2, BatchTypes
<1>6. QED BY <1>3, <1>4, <1>5, CommittedStep DEF TypeInv

LEMMA PatchRowType ==
  ASSUME TablesOK, NEW t \in Existing, NEW ty, NEW b, NEW s, PatchOK(b, s)
  PROVE  /\ PatchRow(t, ty, b) \in Training /\ Reviewed(PatchRow(t, ty, b))
         /\ LET new == PatchRow(t, ty, b)
                row == training[t]
            IN
            /\ new.full = row.full /\ new.type = row.type
            /\ new.cert = IF b.cert # Keep /\ ty \in CertBearing THEN b.cert ELSE row.cert
            /\ b.legacy # Keep /\ ty \in LegacyEligible =>
                 /\ MarksFit(new, ty) /\ new.repl \subseteq Existing /\ t \notin new.repl
            /\ ~(b.legacy # Keep /\ ty \in LegacyEligible) =>
                 new.legacy = row.legacy /\ new.repl = row.repl
<1> PICK row : row = training[t]
  OBVIOUS
<1> PICK marks : marks = IF b.legacy # Keep /\ ty \in LegacyEligible
                           THEN Sanitized(t, ty, b.legacy, b.repl)
                           ELSE [legacy |-> row.legacy, repl |-> row.repl]
  OBVIOUS
<1> PICK cert : cert = IF b.cert # Keep /\ ty \in CertBearing THEN b.cert ELSE row.cert
  OBVIOUS
<1> PICK cols : cols = [full |-> row.full, type |-> row.type, cert |-> cert,
              legacy |-> marks.legacy, repl |-> marks.repl,
              unset |-> row.unset, incomplete |-> row.incomplete]
  OBVIOUS
<1>1. row \in Training /\ Reviewed(row)
  BY DEF TablesOK
<1>2. PatchRow(t, ty, b) = Chosen(cols, b, b.choose)
  BY DEF PatchRow
<1>3. /\ b.legacy # Keep /\ ty \in LegacyEligible =>
           /\ marks \in Markers /\ MarksFit(marks, ty)
           /\ marks.repl \subseteq Existing /\ t \notin marks.repl
      /\ ~(b.legacy # Keep /\ ty \in LegacyEligible) =>
           marks.legacy = row.legacy /\ marks.repl = row.repl
  <2>1. CASE b.legacy # Keep /\ ty \in LegacyEligible
    <3>1. b.repl \in SUBSET Titles
      BY <2>1 DEF PatchOK
    <3>2. marks = Sanitized(t, ty, b.legacy, b.repl)
      BY <2>1
    <3>3. marks \in Markers /\ MarksFit(marks, ty) /\ marks.repl \subseteq (b.repl \ {t}) \cap Existing
      BY <3>1, <3>2, SanitizedType, SanitizedFits
    <3>4. QED BY <2>1, <3>3
  <2>2. CASE ~(b.legacy # Keep /\ ty \in LegacyEligible)
    <3>1. marks = [legacy |-> row.legacy, repl |-> row.repl]
      BY <2>2
    <3>2. marks.legacy = row.legacy /\ marks.repl = row.repl
      BY <3>1
    <3>3. QED BY <2>2, <3>2
  <2>3. QED BY <2>1, <2>2
<1>4. marks.legacy \in BOOLEAN /\ marks.repl \subseteq Titles
  <2>1. CASE b.legacy # Keep /\ ty \in LegacyEligible
    BY <1>3, <2>1 DEF Markers
  <2>2. CASE ~(b.legacy # Keep /\ ty \in LegacyEligible)
    BY <1>1, <1>3, <2>2 DEF Training
  <2>3. QED BY <2>1, <2>2
<1>5. cert \subseteq Titles
  BY <1>1 DEF Training, PatchOK, TitlesOrKeep
<1>6. cols \in Training
  BY <1>1, <1>4, <1>5 DEF Training
<1>7. cols.unset = row.unset /\ cols.incomplete = row.incomplete /\ cols.full = row.full
      /\ cols.type = row.type /\ cols.cert = cert /\ cols.legacy = marks.legacy
      /\ cols.repl = marks.repl
  OBVIOUS
<1>8. Reviewed(cols)
  BY <1>1, <1>7 DEF Reviewed
<1>9. PICK new : new = PatchRow(t, ty, b)
  OBVIOUS
<1>10. /\ new \in Training /\ Reviewed(new) /\ new.full = row.full /\ new.type = row.type
       /\ new.cert = cert /\ new.legacy = marks.legacy /\ new.repl = marks.repl
  BY <1>2, <1>6, <1>7, <1>8, <1>9, ChosenType
<1>11. MarksFit(marks, ty) => MarksFit(new, ty)
  BY <1>10 DEF MarksFit
<1>12. QED BY <1>3, <1>9, <1>10, <1>11

\* A PATCH writes the group, and the relations where it names any.
LEMMA PatchWritesIs ==
  ASSUME NEW r, PatchGroupWrite(r), NEW b, b = call[r].body, NEW s, s = call[r].seen,
         NEW sync, sync = Sync(members, DOMAIN s, IF b.subs = Keep THEN "OLXSubItem" ELSE "OLX",
                               b.subs, b.parents)
  PROVE  /\ training' = [t \in Existing |->
              IF t \in DOMAIN s THEN PatchRow(t, s[t], b) ELSE training[t]]
         /\ b.subs = Keep /\ b.parents = Keep => members' = members /\ Committed(r, {})
         /\ ~(b.subs = Keep /\ b.parents = Keep) =>
              /\ members' = sync.members /\ members' \subseteq Existing \X Existing
              /\ Committed(r, ForAll(sync.affected))
         /\ UNCHANGED <<taken, nextId, doubtful, typed>>
BY DEF PatchGroupWrite

LEMMA PatchGroupWriteType ==
  ASSUME TypeInv, NEW r \in Requests, PatchGroupWrite(r) PROVE TypeInv'
<1> PICK b : b = call[r].body
  OBVIOUS
<1> PICK s : s = call[r].seen
  OBVIOUS
<1> PICK sync : sync = Sync(members, DOMAIN s, IF b.subs = Keep THEN "OLXSubItem" ELSE "OLX",
                            b.subs, b.parents)
  OBVIOUS
<1>1. BodyOK("PatchGroup", b, s)
  BY WritingType DEF PatchGroupWrite
<1>2. PatchOK(b, s) /\ DOMAIN s \in SUBSET Titles /\ b.subs \in TitlesOrKeep /\ b.parents \in TitlesOrKeep
  BY <1>1 DEF BodyOK, PatchOK
<1>3. /\ training' = [t \in Existing |->
              IF t \in DOMAIN s THEN PatchRow(t, s[t], b) ELSE training[t]]
      /\ b.subs = Keep /\ b.parents = Keep => members' = members /\ Committed(r, {})
      /\ ~(b.subs = Keep /\ b.parents = Keep) =>
              /\ members' = sync.members /\ members' \subseteq Existing \X Existing
              /\ Committed(r, ForAll(sync.affected))
      /\ UNCHANGED <<taken, nextId, doubtful, typed>>
  BY PatchWritesIs
<1>4. \A t \in Existing : PatchRow(t, s[t], b) \in Training /\ Reviewed(PatchRow(t, s[t], b))
                          /\ training[t] \in Training /\ Reviewed(training[t])
  BY <1>2, PatchRowType DEF TypeInv, TablesOK
<1>5. /\ training' \in [Existing -> Training] /\ Existing' = Existing
      /\ \A t \in Existing : Reviewed(training'[t])
  <2>1. DOMAIN training' = Existing
    BY <1>3
  <2>2. \A t \in Existing : training'[t] \in Training /\ Reviewed(training'[t])
    BY <1>3, <1>4
  <2>3. Existing' = Existing
    BY <2>1 DEF Existing
  <2>4. QED BY <1>3, <2>2, <2>3
<1>6. members' \subseteq Existing \X Existing
  BY <1>3 DEF TypeInv, TablesOK
<1>7. TablesOK'
  BY <1>3, <1>5, <1>6 DEF TypeInv, TablesOK, Reviewed
<1>8. sync.affected \in SUBSET Titles
  <2>1. members \in SUBSET (Titles \X Titles)
    BY DEF TypeInv, TablesOK
  <2>2. QED BY <1>2, <2>1, SyncType
<1>9. \E batches \in SUBSET Batches : Committed(r, batches)
  BY <1>3, <1>8, BatchTypes
<1>10. QED BY <1>7, <1>9, CommittedStep DEF TypeInv

LEMMA RegroupedType ==
  ASSUME TablesOK, NEW T, NEW f \in FullTitles, Regrouped(T, f)
  PROVE  TablesOK' /\ Existing' = Existing
<1>1. /\ training' = [t \in Existing |->
            IF t \in T THEN [training[t] EXCEPT !.full = f] ELSE training[t]]
      /\ doubtful' = doubtful \cup Parents(T)
      /\ UNCHANGED <<members, taken, nextId, typed>>
  BY DEF Regrouped
<1>2. \A row \in Training : /\ [row EXCEPT !.full = f] \in Training
                            /\ Reviewed(row) => Reviewed([row EXCEPT !.full = f])
  BY DEF Training, Reviewed
<1>3. /\ training' \in [Existing -> Training] /\ Existing' = Existing
      /\ \A t \in Existing : Reviewed(training'[t])
  <2>1. Existing' = Existing
    BY <1>1 DEF Existing
  <2>2. \A t \in Existing : training[t] \in Training /\ Reviewed(training[t])
    BY DEF TablesOK
  <2>3. \A t \in Existing : training'[t] \in Training /\ Reviewed(training'[t])
    BY <1>1, <1>2, <2>2
  <2>4. QED BY <1>1, <2>1, <2>3
<1>4. QED BY <1>1, <1>3, ParentsType DEF TablesOK, Reviewed

LEMMA EmptyBatches == {} \in SUBSET Batches
OBVIOUS

LEMMA RegroupWriteType ==
  ASSUME TypeInv, NEW r \in Requests, RegroupWrite(r) \/ MoveAliasesWrite(r) PROVE TypeInv'
<1>1. /\ BodyOK("RenameGroup", call[r].body, call[r].seen)
         \/ BodyOK("MergeGroup", call[r].body, call[r].seen)
         \/ BodyOK("MoveAliases", call[r].body, call[r].seen)
  BY WritingType DEF RegroupWrite, MoveAliasesWrite
<1>2. call[r].body.to \in FullTitles
  BY <1>1 DEF BodyOK
<1>3. \E T : Regrouped(T, call[r].body.to) /\ Committed(r, {})
  BY DEF RegroupWrite, MoveAliasesWrite
<1>4. QED BY <1>2, <1>3, RegroupedType, EmptyBatches, CommittedStep DEF TypeInv

LEMMA OlxBackfillWriteType ==
  ASSUME TypeInv, NEW r \in Requests, OlxBackfillWrite(r) PROVE TypeInv'
<1>1. BodyOK("OlxBackfill", call[r].body, call[r].seen)
  BY WritingType DEF OlxBackfillWrite
<1>2. ForAll(call[r].body.parents) \in SUBSET Batches
  BY <1>1, BatchTypes DEF BodyOK
<1>3. UNCHANGED <<training, members, taken, nextId, doubtful, typed>>
      /\ Committed(r, ForAll(call[r].body.parents))
  BY DEF OlxBackfillWrite, data
<1>4. TablesOK'
  BY <1>3 DEF TypeInv, TablesOK, Existing, Reviewed
<1>5. QED BY <1>2, <1>3, <1>4, CommittedStep DEF TypeInv

LEMMA NormaliseLeadsToWriteType ==
  ASSUME TypeInv, NEW r \in Requests, NormaliseLeadsToWrite(r) PROVE TypeInv'
<1> PICK lists : lists = call[r].seen
  OBVIOUS
<1> PICK union : union = Levelled(lists)
  OBVIOUS
<1>1. BodyOK("NormaliseLeadsTo", call[r].body, lists)
  BY WritingType DEF NormaliseLeadsToWrite
<1>2. union \subseteq Titles
  BY <1>1 DEF BodyOK, Levelled
<1>3. /\ training' = [t \in Existing |->
            IF t \in {u \in DOMAIN lists : lists[u] # union}
              THEN [training[t] EXCEPT !.cert = union] ELSE training[t]]
      /\ Committed(r, {}) /\ UNCHANGED <<members, taken, nextId, doubtful, typed>>
  BY DEF NormaliseLeadsToWrite
<1>4. \A row \in Training : /\ [row EXCEPT !.cert = union] \in Training
                            /\ Reviewed(row) => Reviewed([row EXCEPT !.cert = union])
  BY <1>2 DEF Training, Reviewed
<1>5. /\ training' \in [Existing -> Training] /\ Existing' = Existing
      /\ \A t \in Existing : Reviewed(training'[t])
  <2>1. Existing' = Existing
    BY <1>3 DEF Existing
  <2>2. \A t \in Existing : training[t] \in Training /\ Reviewed(training[t])
    BY DEF TypeInv, TablesOK
  <2>3. \A t \in Existing : training'[t] \in Training /\ Reviewed(training'[t])
    BY <1>3, <1>4, <2>2
  <2>4. QED BY <1>3, <2>1, <2>3
<1>6. TablesOK'
  BY <1>3, <1>5 DEF TypeInv, TablesOK, Reviewed
<1>7. QED BY <1>3, <1>6, EmptyBatches, CommittedStep DEF TypeInv

LEMMA TrainingIs ==
  ASSUME NEW full \in FullTitles, NEW type \in Types, NEW cert \in SUBSET Titles,
         NEW legacy \in BOOLEAN, NEW repl \in SUBSET Titles,
         NEW unset \in SUBSET Classification, NEW incomplete \in BOOLEAN
  PROVE  [full |-> full, type |-> type, cert |-> cert, legacy |-> legacy,
          repl |-> repl, unset |-> unset, incomplete |-> incomplete] \in Training
BY DEF Training

\* What an import makes of a row.
LEMMA ImportedIs ==
  ASSUME TablesOK, NEW row \in Cells
  PROVE  LET new == Imported(row) IN
         /\ new \in Training /\ Reviewed(new) /\ Fits(new) /\ new.full = row.full
         /\ \A x \in new.repl :
              \/ x \in Existing /\ x # row.title
              \/ row.title \in Existing /\ x \in training[row.title].repl
         /\ row.parents # {} => new.type = "OLXSubItem"
<1>ex. PICK exists \in BOOLEAN : exists <=> (row.title \in Existing)
  <2>1. CASE row.title \in Existing
    BY <2>1, Zenon
  <2>2. CASE row.title \notin Existing
    BY <2>2, Zenon
  <2>3. QED BY <2>1, <2>2
<1>ol. PICK old : old = training[row.title]
  OBVIOUS
<1>ty. PICK type : type = IF row.parents # {} THEN "OLXSubItem"
              ELSE IF row.type \in Types THEN row.type
              ELSE IF row.type = Blank /\ exists THEN old.type ELSE "Certification"
  OBVIOUS
<1>ch. PICK chosen : chosen = row.given \cup
                IF row.parents # {} \/ row.type \in Types THEN {"type"} ELSE {}
  OBVIOUS
<1>bl. PICK blank : blank = (row.blank \cup IF row.type = Blank THEN {"type"} ELSE {}) \ chosen
  OBVIOUS
<1>st. PICK stored : stored = IF exists THEN old.repl ELSE {}
  OBVIOUS
<1>le. PICK legacy \in BOOLEAN : legacy = (type \in LegacyEligible /\
                IF row.legacy = Keep THEN exists /\ old.legacy ELSE row.legacy)
  OBVIOUS
<1>ce. PICK cert : cert = IF type = "OLXSubItem" THEN {}
                ELSE IF row.cert # Keep THEN row.cert
                ELSE IF exists THEN old.cert ELSE {}
  OBVIOUS
<1>re. PICK repl : repl = IF legacy /\ row.repl # Keep THEN stored
                ELSE Sanitized(row.title, type, legacy, stored).repl
  OBVIOUS
<1>un. PICK unset : unset = IF exists THEN old.unset \ chosen ELSE blank
  OBVIOUS
<1>in. PICK incomplete \in BOOLEAN :
        incomplete = IF exists THEN old.incomplete /\ chosen # Classification ELSE blank # {}
  <2>1. (IF exists THEN old.incomplete /\ chosen # Classification ELSE blank # {}) \in BOOLEAN
    BY <1>ex, Zenon
  <2>2. QED BY <2>1, Zenon
<1>1. Imported(row) = [full |-> row.full, type |-> type, cert |-> cert, legacy |-> legacy,
                       repl |-> repl, unset |-> unset, incomplete |-> incomplete]
  BY <1>ex, <1>ol, <1>ty, <1>ch, <1>bl, <1>st, <1>le, <1>ce, <1>re, <1>un, <1>in DEF Imported
<1>2. exists => old \in Training /\ Reviewed(old)
  BY <1>ex, <1>ol DEF TablesOK
<1>3. /\ row.full \in FullTitles /\ row.title \in Titles /\ row.given \subseteq Classification
      /\ row.blank \subseteq Classification /\ row.parents \subseteq Titles
      /\ row.cert # Keep => row.cert \subseteq Titles
      /\ row.type \in Types \cup {Keep, Blank}
  BY DEF Cells
<1>4. type \in Types /\ cert \subseteq Titles /\ stored \in SUBSET Titles
  BY <1>2, <1>3, <1>ty, <1>st, <1>ce DEF Types, Training
<1>5. unset \subseteq Classification
  BY <1>2, <1>3, <1>ch, <1>bl, <1>un DEF Training, Classification
<1>6. ~incomplete => unset = {}
  BY <1>2, <1>ex, <1>ch, <1>bl, <1>un, <1>in DEF Training, Reviewed
<1>61. legacy \in BOOLEAN /\ incomplete \in BOOLEAN /\ exists \in BOOLEAN
  BY <1>ex, <1>le, <1>in
<1>62. legacy => type \in LegacyEligible
  BY <1>le
<1>7. /\ ~legacy => repl = {}
      /\ repl \subseteq Titles /\ (legacy => type \in LegacyEligible)
      /\ \A x \in repl : (x \in Existing /\ x # row.title) \/ (exists /\ x \in old.repl)
  <2>0. stored \in SUBSET Titles /\ stored = IF exists THEN old.repl ELSE {}
    BY <1>4, <1>st, Zenon
  <2>1. CASE legacy /\ row.repl # Keep
    <3>1. repl = stored /\ legacy
      BY <1>re, <2>1
    <3>3. QED BY <1>62, <2>0, <3>1
  <2>2. CASE ~(legacy /\ row.repl # Keep)
    <3>1. PICK m : m = Sanitized(row.title, type, legacy, stored)
      OBVIOUS
    <3>2. m \in Markers /\ m.repl \subseteq (stored \ {row.title}) \cap Existing
      BY <1>4, <1>61, <3>1, SanitizedType
    <3>3. ~legacy => m = [legacy |-> FALSE, repl |-> {}]
      BY <3>1 DEF Sanitized
    <3>4. repl = m.repl
      BY <1>re, <2>2, <3>1, Zenon
    <3>5. ~legacy => m.repl = {}
      BY <3>3
    <3>6. QED BY <1>62, <2>0, <3>2, <3>4, <3>5 DEF Markers
  <2>3. QED BY <2>1, <2>2
<1>8. PICK new : new = Imported(row)
  OBVIOUS
<1>9. /\ new.full = row.full /\ new.type = type /\ new.cert = cert /\ new.legacy = legacy
      /\ new.repl = repl /\ new.unset = unset /\ new.incomplete = incomplete
  BY <1>1, <1>8
<1>10. new \in Training
  <2>1. /\ row.full \in FullTitles /\ type \in Types /\ cert \in SUBSET Titles
        /\ repl \in SUBSET Titles /\ unset \in SUBSET Classification
    BY Zenon, <1>3, <1>4, <1>5, <1>7
  <2>2. new = [full |-> row.full, type |-> type, cert |-> cert, legacy |-> legacy,
               repl |-> repl, unset |-> unset, incomplete |-> incomplete]
    BY <1>1, <1>8
  <2>3. QED BY <1>61, <2>1, <2>2, TrainingIs
<1>11. Reviewed(new)
  BY <1>6, <1>9, <1>61 DEF Reviewed
<1>12. Fits(new)
  BY <1>7, <1>9, <1>61, <1>ce DEF Fits
<1>121. row.parents # {} => type = "OLXSubItem"
  BY <1>ty
<1>13. QED BY <1>7, <1>8, <1>9, <1>10, <1>11, <1>12, <1>121, <1>ex, <1>ol, Zenon

\* The rows to come.
LEMMA CollectedStep ==
  ASSUME RequestsOK, NEW r \in Requests, pc[r] = "write", NEW rows \in Seq(Cells),
         NEW repl \in Seq(Waiting), NEW links \in SUBSET (Titles \X Titles),
         Collected(r, rows, repl, links)
  PROVE  RequestsOK' /\ workload' = workload
<1> PICK new : new = [op |-> "ImportCatalogue", body |-> [rows |-> rows],
                      seen |-> [repl |-> repl, links |-> links]]
  OBVIOUS
<1>1. /\ call' = [x \in Requests |-> IF x = r THEN new ELSE call[x]]
      /\ UNCHANGED <<workload, pc, todo, plan, alone>>
  BY DEF Collected, RequestsOK
<1>2. BodyOK(new.op, new.body, new.seen)
  BY DEF BodyOK, ImportOK
<1>3. ASSUME NEW x \in Requests PROVE RequestOK(x)'
  <2>1. RequestOK(x)
    BY DEF RequestsOK
  <2>2. CASE x = r
    BY <1>1, <1>2, <2>1, <2>2 DEF RequestOK
  <2>3. CASE x # r
    BY <1>1, <2>1, <2>3 DEF RequestOK
  <2>4. QED BY <2>2, <2>3
<1>4. /\ pc = [x \in Requests |-> pc[x]] /\ todo = [x \in Requests |-> todo[x]]
      /\ plan = [x \in Requests |-> plan[x]] /\ alone \subseteq Requests
  BY DEF RequestsOK
<1>5. QED BY <1>1, <1>3, <1>4 DEF RequestsOK

LEMMA ImportRowType ==
  ASSUME TypeInv, NEW r \in Requests, ImportRow(r) PROVE TypeInv'
<1> PICK rows : rows = call[r].body.rows
  OBVIOUS
<1> PICK seen : seen = call[r].seen
  OBVIOUS
<1> PICK row : row = Head(rows)
  OBVIOUS
<1> PICK new : new = Imported(row)
  OBVIOUS
<1> PICK repl : repl = IF new.legacy /\ row.repl # Keep
         THEN Append(seen.repl, [title |-> row.title, repl |-> row.repl]) ELSE seen.repl
  BY Zenon
<1> PICK regrouped : regrouped = IF row.title \in Existing /\
                  (new.full # training[row.title].full \/ new.type # training[row.title].type)
                  THEN Parents({row.title}) \cup {row.title} ELSE {}
  BY Zenon
<1>1. BodyOK("ImportCatalogue", call[r].body, seen) /\ pc[r] = "write"
  BY Zenon, WritingType DEF ImportRow, Importing
<1>2. rows \in Seq(Cells) /\ seen.repl \in Seq(Waiting) /\ seen.links \subseteq Titles \X Titles
  BY <1>1 DEF BodyOK, ImportOK
<1>3. /\ rows # <<>>
      /\ training' = [t \in Existing \cup {row.title} |-> IF t = row.title THEN new ELSE training[t]]
      /\ Collected(r, Tail(rows), repl, seen.links \cup (row.parents \X {row.title}))
      /\ doubtful' = doubtful \cup regrouped
      /\ typed' = typed \cup (new.cert \ DOMAIN training')
      /\ UNCHANGED <<members, taken, nextId>>
  BY Zenon DEF ImportRow
<1>4. row \in Cells /\ Tail(rows) \in Seq(Cells)
  <2>1. rows # <<>>
    BY Zenon, <1>3
  <2>2. QED BY <1>2, <2>1, HeadTailProperties
<1>5. row.title \in Titles /\ row.parents \subseteq Titles /\ (row.repl # Keep => row.repl \in SUBSET Titles)
  BY Zenon, <1>4 DEF Cells
<1>6. new \in Training /\ Reviewed(new)
  BY Zenon, <1>4, ImportedIs DEF TypeInv
<1>7. repl \in Seq(Waiting)
  <2>1. row.repl # Keep => [title |-> row.title, repl |-> row.repl] \in Waiting
    BY ZenonT(30), <1>5 DEF Waiting
  <2>2. \A x \in Waiting : Append(seen.repl, x) \in Seq(Waiting)
    BY <1>2
  <2>3. CASE new.legacy /\ row.repl # Keep
    BY Zenon, <2>1, <2>2, <2>3
  <2>4. CASE ~(new.legacy /\ row.repl # Keep)
    BY Zenon, <1>2, <2>4
  <2>5. QED BY Zenon, <2>3, <2>4
<1>8. (seen.links \cup (row.parents \X {row.title})) \in SUBSET (Titles \X Titles)
  BY Zenon, <1>2, <1>5
<1>9. RequestsOK' /\ workload' = workload
  <2>1. Collected(r, Tail(rows), repl, seen.links \cup (row.parents \X {row.title}))
    BY Zenon, <1>3
  <2>2. RequestsOK /\ Tail(rows) \in Seq(Cells) /\ pc[r] = "write"
    BY <1>1, <1>4 DEF TypeInv
  <2>3. PICK links \in SUBSET (Titles \X Titles), rest \in Seq(Cells) :
          Collected(r, rest, repl, links)
    BY Zenon, <1>8, <2>1, <2>2
  <2>4. QED BY Zenon, <1>7, <2>2, <2>3, CollectedStep
<1>10. TablesOK'
  <2>1. Existing' = Existing \cup {row.title}
    BY Zenon, <1>3 DEF Existing
  <2>2. training' \in [Existing' -> Training] /\ \A t \in Existing' : Reviewed(training'[t])
    BY Zenon, <1>3, <1>6, <2>1 DEF TypeInv, TablesOK
  <2>3. regrouped \subseteq Titles
    BY Zenon, <1>5, ParentsType DEF TypeInv
  <2>4. new.cert \subseteq Titles
    BY Zenon, <1>6 DEF Training
  <2>5. QED BY Zenon, <1>3, <1>5, <2>1, <2>2, <2>3, <2>4 DEF TypeInv, TablesOK, Reviewed
<1>11. QED BY <1>9, <1>10 DEF TypeInv

\* A replacement that waited is written as it is sanitised now.
LEMMA ImportReplacementIs ==
  ASSUME TypeInv, NEW r \in Requests, ImportReplacement(r)
  PROVE  \E t \in Titles, repl \in SUBSET Titles :
           /\ t \notin Existing => training' = training
           /\ t \in Existing =>
                training' = [u \in Existing |-> IF u = t THEN [training[t] EXCEPT !.repl =
                  Sanitized(t, training[t].type, training[t].legacy, repl).repl] ELSE training[u]]
           /\ UNCHANGED <<workload, members, taken, nextId, pc, todo, plan, alone, doubtful, typed>>
           /\ Collected(r, <<>>, Tail(call[r].seen.repl), call[r].seen.links)
           /\ call[r].seen.repl # <<>>
<1> PICK next : next = Head(call[r].seen.repl)
  OBVIOUS
<1> PICK seen : seen = call[r].seen
  OBVIOUS
<1>1. BodyOK("ImportCatalogue", call[r].body, seen)
  BY Zenon, WritingType DEF ImportReplacement, Importing
<1>2. seen.repl \in Seq(Waiting) /\ seen.repl # <<>>
  BY Zenon, <1>1 DEF BodyOK, ImportOK, ImportReplacement
<1>3. next \in Waiting
  BY <1>2
<1>4. next.title \in Titles /\ next.repl \in SUBSET Titles
  BY <1>3 DEF Waiting
<1>5. /\ training' = IF next.title \notin Existing THEN training ELSE
           [training EXCEPT ![next.title].repl =
              Sanitized(next.title, training[next.title].type, training[next.title].legacy, next.repl).repl]
      /\ Collected(r, <<>>, Tail(seen.repl), seen.links)
      /\ UNCHANGED <<members, taken, nextId, doubtful, typed>>
  BY Zenon DEF ImportReplacement
<1>6. UNCHANGED <<workload, pc, todo, plan, alone>>
  BY Zenon, <1>5 DEF Collected
<1>7. training = [u \in Existing |-> training[u]]
  BY DEF TypeInv, TablesOK
<1>8. next.title \in Existing =>
        training' = [u \in Existing |-> IF u = next.title THEN [training[next.title] EXCEPT !.repl =
          Sanitized(next.title, training[next.title].type, training[next.title].legacy, next.repl).repl]
          ELSE training[u]]
  BY Zenon, <1>5, <1>7
<1>9. QED BY Zenon, <1>2, <1>4, <1>5, <1>6, <1>8

LEMMA ReplacedRow ==
  ASSUME NEW row \in Training, NEW repl \in SUBSET Titles
  PROVE  LET new == [row EXCEPT !.repl = repl] IN
         /\ new \in Training /\ (Reviewed(row) => Reviewed(new))
         /\ new.full = row.full /\ new.type = row.type /\ new.cert = row.cert
         /\ new.legacy = row.legacy /\ new.repl = repl
BY DEF Training, Reviewed

LEMMA ImportReplacementType ==
  ASSUME TypeInv, NEW r \in Requests, ImportReplacement(r) PROVE TypeInv'
<1>1. PICK t \in Titles, repl \in SUBSET Titles :
           /\ t \notin Existing => training' = training
           /\ t \in Existing =>
                training' = [u \in Existing |-> IF u = t THEN [training[t] EXCEPT !.repl =
                  Sanitized(t, training[t].type, training[t].legacy, repl).repl] ELSE training[u]]
           /\ UNCHANGED <<workload, members, taken, nextId, pc, todo, plan, alone, doubtful, typed>>
           /\ Collected(r, <<>>, Tail(call[r].seen.repl), call[r].seen.links)
           /\ call[r].seen.repl # <<>>
  BY ImportReplacementIs
<1>2. BodyOK("ImportCatalogue", call[r].body, call[r].seen) /\ pc[r] = "write"
  BY Zenon, WritingType DEF ImportReplacement, Importing
<1>3. /\ Tail(call[r].seen.repl) \in Seq(Waiting) /\ <<>> \in Seq(Cells)
      /\ call[r].seen.links \in SUBSET (Titles \X Titles)
  BY <1>1, <1>2 DEF BodyOK, ImportOK
<1>4. RequestsOK' /\ workload' = workload
  BY <1>1, <1>2, <1>3, CollectedStep DEF TypeInv
<1>5. training' \in [Existing -> Training] /\ Existing' = Existing
      /\ \A u \in Existing : Reviewed(training'[u])
  <2>1. CASE t \notin Existing
    BY <1>1, <2>1 DEF TypeInv, TablesOK, Existing
  <2>2. CASE t \in Existing
    <3>1. PICK m : m = Sanitized(t, training[t].type, training[t].legacy, repl).repl
      OBVIOUS
    <3>2. m \in SUBSET Titles
      BY <3>1, SanitizedType DEF Markers
    <3>3. \A u \in Existing : training[u] \in Training /\ Reviewed(training[u])
      BY DEF TypeInv, TablesOK
    <3>4. [training[t] EXCEPT !.repl = m] \in Training /\ Reviewed([training[t] EXCEPT !.repl = m])
      BY <2>2, <3>2, <3>3, ReplacedRow
    <3>5. training' = [u \in Existing |-> IF u = t THEN [training[t] EXCEPT !.repl = m] ELSE training[u]]
      BY <1>1, <2>2, <3>1
    <3>6. Existing' = Existing
      BY <3>5 DEF Existing
    <3>7. QED BY <3>3, <3>4, <3>5, <3>6
  <2>3. QED BY <2>1, <2>2
<1>6. QED BY <1>1, <1>4, <1>5 DEF TypeInv, TablesOK, Reviewed

LEMMA ImportLinksType ==
  ASSUME TypeInv, NEW r \in Requests, ImportLinks(r) PROVE TypeInv'
<1> PICK links : links = {l \in call[r].seen.links : l[1] \in OfType("OLX")}
  OBVIOUS
<1>1. BodyOK("ImportCatalogue", call[r].body, call[r].seen)
  BY WritingType DEF ImportLinks, Importing
<1>2. /\ \A l \in links : l[2] \in Existing
      /\ members' = members \cup links /\ Committed(r, ForAll({l[1] : l \in links}))
      /\ UNCHANGED <<training, taken, nextId, doubtful, typed>>
  BY DEF ImportLinks
<1>3. links \subseteq Titles \X Titles /\ \A l \in links : l[1] \in Existing
  BY <1>1 DEF BodyOK, ImportOK, OfType
<1>4. links \subseteq Existing \X Existing
  BY <1>2, <1>3
<1>5. TablesOK'
  BY <1>2, <1>4 DEF TypeInv, TablesOK, Existing, Reviewed
<1>6. {l[1] : l \in links} \in SUBSET Titles
  BY <1>3
<1>7. ForAll({l[1] : l \in links}) \in SUBSET Batches
  BY <1>6, BatchTypes
<1>8. QED BY <1>2, <1>5, <1>7, CommittedStep DEF TypeInv

----------------------------------------------------------------------------
(* The types, of every behaviour                                           *)

LEMMA InitType == Init => TypeInv
<1> SUFFICES ASSUME Init PROVE TypeInv
  OBVIOUS
<1>1. workload \in DOMAIN Workloads /\ InOrder
  BY DEF Init
<1>2. PICK c \in Mix.catalogues : training = c.training /\ members = c.members /\ taken = c.taken
  BY DEF Init
<1>3. Tables(c)
  BY <1>1, <1>2, NamesType
<1>4. /\ Existing \subseteq Titles /\ training \in [Existing -> Training]
      /\ members \subseteq Existing \X Existing
      /\ taken \subseteq Taken /\ \A t \in taken : t.title \in Existing
      /\ \A t, u \in taken : t.id = u.id => t = u
      /\ IsFiniteSet(taken) /\ \A t \in taken : t.id <= Cardinality(taken)
  BY <1>2, <1>3 DEF Tables, Existing
<1>5. Cardinality(taken) \in Nat
  BY <1>4, FS_CardinalityType
<1>6. nextId = Cardinality(taken) + 1 /\ doubtful = {} /\ typed = {}
  BY DEF Init
<1>7. nextId \in Nat /\ \A t \in taken : t.id < nextId
  <2>1. \A t \in taken : t.id \in Nat
    BY <1>4 DEF Taken
  <2>2. QED BY <1>4, <1>5, <1>6, <2>1
<1>8. \A t \in Existing : Reviewed(training[t])
  BY <1>1 DEF InOrder
<1>9. TablesOK
  BY <1>4, <1>6, <1>7, <1>8 DEF TablesOK
<1>10. RequestsOK
  BY DEF Init, RequestsOK, RequestOK
<1>11. QED BY <1>1, <1>9, <1>10 DEF TypeInv

LEMMA WritesType == ASSUME TypeInv, NEW r \in Requests, Writes(r) PROVE TypeInv'
BY PostTakenWriteType, PatchTakenWriteType, DeleteTakenWriteType, PostTrainingWriteType,
   PutTrainingWriteType, DeleteTrainingWriteType, PatchGroupWriteType, RegroupWriteType,
   DeleteGroupWriteType, OlxBackfillWriteType, NormaliseLeadsToWriteType, ImportRowType,
   ImportReplacementType, ImportLinksType DEF Writes

LEMMA StutterType == ASSUME TypeInv, UNCHANGED vars PROVE TypeInv'
BY DEF vars, TypeInv, TablesOK, RequestsOK, RequestOK, Existing, Reviewed

LEMMA NextType == ASSUME TypeInv, [Next]_vars PROVE TypeInv'
<1>1. CASE UNCHANGED vars
  BY <1>1, StutterType
<1>2. ASSUME NEW r \in Requests,
             Reads(r) \/ Writes(r) \/ WriteFails(r) \/ Evaluate(r) \/ Apply(r) \/ ApplyFails(r)
      PROVE  TypeInv'
  BY <1>2, ReadsOpen, OpensType, WritesType, WriteFailsType, EvaluateType, ApplyType, ApplyFailsType
<1>3. QED BY <1>1, <1>2 DEF Next

\* The tables keep their shape and keys, and a request does as it was asked, whatever
\* requests do to the catalogue at once: the handlers of src/src/app/api over the
\* training tables.
THEOREM CatalogueTypes == Spec => []TypeOK
<1>1. Spec => []TypeInv
  BY InitType, NextType, PTL DEF Spec
<1>2. QED BY <1>1, TypeInvOK, PTL

----------------------------------------------------------------------------
(* Requests that nothing overlaps.  What such a request has read is so     *)
(* until it writes.                                                        *)

Busy(r) == pc[r] \notin {"idle", "done"}

Solo == \A r \in alone, q \in Requests : Busy(r) /\ Busy(q) => q = r
Holds(r) == call[r].op \in Ops /\ Current(call[r].op, call[r].body, call[r].seen)
SoloCurrent == \A r \in alone : pc[r] = "write" => Holds(r)
NoOverlap == ~Mix.overlap => \A r \in Requests : Busy(r) => r \in alone

Control == Solo /\ SoloCurrent /\ NoOverlap

LEMMA BusyIs == InFlight = {r \in Requests : Busy(r)}
BY DEF InFlight, Busy

LEMMA OpensControl ==
  ASSUME TypeInv, Control, NEW r \in Requests, Opens(r)
  PROVE  Control'
<1>1. PICK op, b, s : Ready(r, op) /\ Begin(r, op, b, s) /\ Validated(op, b, s)
  BY DEF Opens
<1>2. /\ pc' = [x \in Requests |-> IF x = r THEN "write" ELSE pc[x]]
      /\ call' = [x \in Requests |-> IF x = r THEN [op |-> op, body |-> b, seen |-> s]
                                     ELSE call[x]]
      /\ alone' = IF InFlight = {} THEN {r} ELSE {}
      /\ UNCHANGED <<workload, training, members, taken>>
  BY <1>1 DEF Begin, TypeInv, RequestsOK
<1>3. \A x \in Requests : x # r => (Busy(x)' <=> Busy(x))
  BY <1>2 DEF Busy
<1>4. Solo'
  <2> SUFFICES ASSUME InFlight = {}, NEW q \in Requests, Busy(q)' PROVE q = r
    BY <1>2 DEF Solo
  <2>1. QED BY <1>3, BusyIs
<1>5. SoloCurrent'
  <2> SUFFICES Holds(r)'
    BY <1>2 DEF SoloCurrent
  <2>1. call'[r].op = op /\ call'[r].body = b /\ call'[r].seen = s
    BY <1>2
  <2>2. op \in Ops /\ Current(op, b, s)
    BY <1>1 DEF Validated
  <2>3. Current(op, b, s)'
    BY <1>2, <2>2 DEF Current, PostRead, PutRead, PatchRead, Existing, OfType, Parents, MembersOf
  <2>4. QED BY <2>1, <2>2, <2>3 DEF Holds
<1>6. NoOverlap'
  <2> SUFFICES ASSUME ~Mix.overlap, NEW q \in Requests, Busy(q)' PROVE q \in alone'
    BY <1>2 DEF NoOverlap, Mix
  <2>1. InFlight = {}
    BY <1>1 DEF Ready
  <2>2. QED BY <1>2, <1>3, <2>1, BusyIs
<1>7. QED BY <1>4, <1>5, <1>6 DEF Control

\* A request goes on from its write, or from a recomputation.
LEMMA MovesControl ==
  ASSUME TypeInv, Control, NEW r \in Requests, Busy(r),
         pc'[r] # "write", \A q \in Requests : q # r => pc'[q] = pc[q],
         UNCHANGED <<workload, call, alone>>
  PROVE  Control'
<1>1. \A q \in Requests : Busy(q)' => Busy(q)
  BY DEF Busy
<1>2. alone \subseteq Requests
  BY DEF TypeInv, RequestsOK
<1>3. Solo'
  BY <1>1, <1>2 DEF Control, Solo
<1>4. SoloCurrent'
  <2> SUFFICES ASSUME NEW x \in alone, pc'[x] = "write" PROVE FALSE
    BY DEF SoloCurrent
  <2>1. x \in Requests /\ x # r /\ Busy(x)
    BY <1>2 DEF Busy
  <2>2. QED BY <2>1 DEF Control, Solo
<1>5. NoOverlap'
  BY <1>1 DEF Control, NoOverlap, Mix
<1>6. QED BY <1>3, <1>4, <1>5 DEF Control

LEMMA ContinuesMoves ==
  ASSUME TypeInv, NEW r \in Requests, NEW batches, Continues(r, batches)
  PROVE  /\ pc' = [x \in Requests |->
                     IF x = r THEN IF batches = {} THEN "done" ELSE "recompute" ELSE pc[x]]
         /\ todo' = [x \in Requests |-> IF x = r THEN batches ELSE todo[x]]
         /\ pc'[r] # "write" /\ \A q \in Requests : q # r => pc'[q] = pc[q]
BY DEF Continues, TypeInv, RequestsOK

LEMMA CommittedControl ==
  ASSUME TypeInv, Control, NEW r \in Requests, pc[r] = "write", NEW batches,
         Committed(r, batches)
  PROVE  Control'
<1>1. Continues(r, batches) /\ UNCHANGED <<workload, call, alone>>
  BY DEF Committed
<1>2. Busy(r)
  BY DEF Busy
<1>3. QED BY <1>1, <1>2, ContinuesMoves, MovesControl

LEMMA FailsControl ==
  ASSUME TypeInv, Control, NEW r \in Requests, Busy(r), Fails(r)
  PROVE  Control'
<1>1. /\ pc'[r] # "write" /\ \A q \in Requests : q # r => pc'[q] = pc[q]
      /\ UNCHANGED <<workload, call, alone>>
  BY DEF Fails, TypeInv, RequestsOK
<1>2. QED BY <1>1, MovesControl

LEMMA EvaluateControl ==
  ASSUME TypeInv, Control, NEW r \in Requests, Evaluate(r)
  PROVE  Control'
<1>1. /\ Busy(r) /\ pc'[r] # "write" /\ \A q \in Requests : q # r => pc'[q] = pc[q]
      /\ UNCHANGED <<workload, call, alone>>
  <2>1. pc[r] = "recompute" /\ (pc' = pc \/ pc' = [pc EXCEPT ![r] = "apply"])
        /\ UNCHANGED <<workload, call, alone>>
    BY DEF Evaluate
  <2>2. pc = [x \in Requests |-> pc[x]]
    BY DEF TypeInv, RequestsOK
  <2>3. QED BY <2>1, <2>2 DEF Busy
<1>2. QED BY <1>1, MovesControl

LEMMA ApplyControl ==
  ASSUME TypeInv, Control, NEW r \in Requests, Apply(r)
  PROVE  Control'
<1>1. Busy(r) /\ Continues(r, todo[r] \ {plan[r].batch}) /\ UNCHANGED <<workload, call, alone>>
  BY DEF Apply, Busy
<1>2. QED BY <1>1, ContinuesMoves, MovesControl

\* An import goes on with its rows.
LEMMA CollectedControl ==
  ASSUME TypeInv, Control, NEW r \in Requests, Importing(r), NEW rows, NEW repl, NEW links,
         Collected(r, rows, repl, links), \A l \in links : l[2] \in DOMAIN training'
  PROVE  Control'
<1>1. /\ call' = [x \in Requests |-> IF x = r
                    THEN [op |-> "ImportCatalogue", body |-> [rows |-> rows],
                          seen |-> [repl |-> repl, links |-> links]] ELSE call[x]]
      /\ UNCHANGED <<workload, pc, alone>> /\ pc[r] = "write"
  BY DEF Collected, TypeInv, RequestsOK, Importing, Writing
<1>2. Solo' /\ NoOverlap'
  BY <1>1 DEF Control, Solo, NoOverlap, Busy, Mix
<1>3. SoloCurrent'
  <2> SUFFICES ASSUME NEW x \in alone, pc[x] = "write" PROVE Holds(x)'
    BY <1>1 DEF SoloCurrent
  <2>1. x = r
    BY <1>1 DEF Control, Solo, Busy, TypeInv, RequestsOK
  <2>2. call'[r].op = "ImportCatalogue" /\ call'[r].seen.links = links
    BY <1>1
  <2>3. QED BY <2>1, <2>2 DEF Holds, Ops, Current, Existing
<1>4. QED BY <1>2, <1>3 DEF Control

\* What a request that writes undisturbed has read.
LEMMA SoloReads ==
  ASSUME TypeInv, Control, NEW r \in alone, NEW op, Writing(r, op)
  PROVE  Current(op, call[r].body, call[r].seen) /\ BodyOK(op, call[r].body, call[r].seen)
         /\ r \in Requests
BY Zenon, WritingType DEF Writing, Control, SoloCurrent, Holds, TypeInv, RequestsOK

LEMMA ImportControl ==
  ASSUME TypeInv, Control, NEW r \in Requests, ImportRow(r) \/ ImportReplacement(r)
  PROVE  Control'
<1>1. CASE r \notin alone
  <2>1. PICK rows, repl, links : Collected(r, rows, repl, links)
    BY Zenon DEF ImportRow, ImportReplacement
  <2>2. /\ call' = [x \in Requests |-> IF x = r THEN call'[r] ELSE call[x]]
        /\ UNCHANGED <<workload, pc, alone>> /\ pc[r] = "write"
    BY Zenon, <2>1 DEF Collected, TypeInv, RequestsOK, ImportRow, ImportReplacement, Importing, Writing
  <2>3. Solo' /\ NoOverlap'
    BY <2>2 DEF Control, Solo, NoOverlap, Busy, Mix
  <2>4. SoloCurrent'
    <3> SUFFICES ASSUME NEW x \in alone, pc[x] = "write" PROVE FALSE
      BY <2>2 DEF SoloCurrent
    <3>1. QED BY <1>1, <2>2 DEF Control, Solo, Busy, TypeInv, RequestsOK
  <2>5. QED BY <2>3, <2>4 DEF Control
<1>2. CASE r \in alone
  <2>1. Importing(r)
    BY Zenon DEF ImportRow, ImportReplacement
  <2>2. \A l \in call[r].seen.links : l[2] \in Existing
    BY <1>2, <2>1, SoloReads DEF Current, Importing
  <2>3. CASE ImportRow(r)
    <3> PICK row : row = Head(call[r].body.rows)
      OBVIOUS
    <3>1. /\ DOMAIN training' = Existing \cup {row.title}
          /\ \E rows, repl : Collected(r, rows, repl, call[r].seen.links \cup (row.parents \X {row.title}))
      BY Zenon, <2>3 DEF ImportRow
    <3>2. \A l \in call[r].seen.links \cup (row.parents \X {row.title}) : l[2] \in DOMAIN training'
      BY <2>2, <3>1
    <3>3. QED BY <2>1, <3>1, <3>2, CollectedControl
  <2>4. CASE ImportReplacement(r)
    <3>1. /\ DOMAIN training' = Existing
          /\ \E rows, repl : Collected(r, rows, repl, call[r].seen.links)
      BY Zenon, <2>4 DEF ImportReplacement, Existing
    <3>2. QED BY <2>1, <2>2, <3>1, CollectedControl
  <2>5. QED BY <2>3, <2>4
<1>3. QED BY <1>1, <1>2

----------------------------------------------------------------------------
(* The rows agree.  Where requests do not overlap, a row's markers fit its *)
(* type, and its lists name what there is: but for the lists that a file   *)
(* was trusted with.                                                       *)

Orderly(row, t, there, trusted) ==
  /\ Fits(row) /\ t \notin row.repl /\ row.repl \subseteq there
  /\ row.cert \subseteq there \cup trusted

RowsOrderly == \A t \in Existing : Orderly(training[t], t, Existing, typed)

LEMMA OrderlyStays ==
  ASSUME RowsOrderly, UNCHANGED <<training, typed>>
  PROVE  RowsOrderly'
BY DEF RowsOrderly, Existing, Orderly, Fits

LEMMA OrderlyGrows ==
  ASSUME NEW row, NEW t, NEW there, NEW trusted, Orderly(row, t, there, trusted),
         NEW more, there \subseteq more, NEW extra, trusted \subseteq extra
  PROVE  Orderly(row, t, more, extra)
BY DEF Orderly

LEMMA PostTrainingOrderly ==
  ASSUME TypeInv, Control, RowsOrderly, NEW r \in alone, PostTrainingWrite(r)
  PROVE  RowsOrderly'
<1> PICK b : b = call[r].body
  OBVIOUS
<1> PICK row : row = call[r].seen
  OBVIOUS
<1>1. PostRead(b, row)
  BY SoloReads DEF PostTrainingWrite, Current
<1>2. /\ training' = [t \in Existing \cup {b.title} |-> IF t = b.title THEN row ELSE training[t]]
      /\ b.title \notin Existing /\ typed' = typed
  BY DEF PostTrainingWrite
<1>3. Existing' = Existing \cup {b.title}
  BY <1>2 DEF Existing
<1>4. Orderly(row, b.title, Existing', typed')
  BY <1>1, <1>2, <1>3 DEF PostRead, Orderly
<1>5. \A t \in Existing : Orderly(training[t], t, Existing', typed')
  BY <1>2, <1>3, OrderlyGrows DEF RowsOrderly
<1>6. \A t \in Existing' : Orderly(training'[t], t, Existing', typed')
  BY <1>2, <1>3, <1>4, <1>5
<1>7. QED BY <1>6 DEF RowsOrderly, Orderly, Fits

LEMMA WithoutOrderly ==
  ASSUME TablesOK, RowsOrderly, NEW gone \in SUBSET Existing,
         training' = Scrubbed([t \in Existing \ gone |-> training[t]], gone), typed' = typed
  PROVE  RowsOrderly'
<1> PICK rest : rest = Existing \ gone
  OBVIOUS
<1> PICK tr : tr = [t \in rest |-> training[t]]
  OBVIOUS
<1>1. tr \in [rest -> Training] /\ rest \in SUBSET Titles /\ \A t \in rest : tr[t] = training[t]
  BY DEF TablesOK
<1>2. training' = Scrubbed(tr, gone)
  OBVIOUS
<1>3. /\ DOMAIN training' = rest
      /\ \A t \in rest :
              LET new == training'[t] IN
              /\ new.type = tr[t].type /\ new.legacy = tr[t].legacy
              /\ new.cert = tr[t].cert \ (gone \ {t}) /\ new.repl = tr[t].repl \ (gone \ {t})
  BY <1>1, <1>2, ScrubbedIs
<1>4. Existing' = rest
  BY <1>3 DEF Existing
<1>5. \A t \in rest : gone \ {t} = gone /\ Orderly(tr[t], t, Existing, typed)
  BY <1>1 DEF RowsOrderly
<1>6. ASSUME NEW t \in rest PROVE Orderly(training'[t], t, rest, typed)
  <2> PICK new : new = training'[t]
    OBVIOUS
  <2> PICK old : old = tr[t]
    OBVIOUS
  <2>1. /\ new.type = old.type /\ new.legacy = old.legacy
        /\ new.cert = old.cert \ gone /\ new.repl = old.repl \ gone
    BY <1>3, <1>5
  <2>2. Orderly(old, t, Existing, typed)
    BY <1>5
  <2>3. new.cert \subseteq rest \cup typed /\ new.repl \subseteq rest /\ t \notin new.repl
    BY <2>1, <2>2 DEF Orderly
  <2>4. (old.cert = {} => new.cert = {}) /\ (old.repl = {} => new.repl = {})
    BY <2>1
  <2>5. Fits(old)
    BY <2>2 DEF Orderly
  <2>6. Fits(new)
    BY <2>1, <2>4, <2>5 DEF Fits
  <2>7. QED BY <2>3, <2>6 DEF Orderly
<1>7. QED BY <1>4, <1>6 DEF RowsOrderly, Orderly, Fits

LEMMA DeleteOrderly ==
  ASSUME TypeInv, Control, RowsOrderly, NEW r \in alone,
         DeleteTrainingWrite(r) \/ DeleteGroupWrite(r)
  PROVE  RowsOrderly'
<1>1. CASE DeleteTrainingWrite(r)
  <2> PICK t : t = call[r].body.title
    OBVIOUS
  <2>1. /\ t \in Existing /\ training' = Scrubbed([u \in Existing \ {t} |-> training[u]], {t})
        /\ typed' = typed
    BY <1>1 DEF DeleteTrainingWrite
  <2>2. {t} \in SUBSET Existing
    BY <2>1
  <2>3. QED BY <2>1, <2>2, WithoutOrderly DEF TypeInv
<1>2. CASE DeleteGroupWrite(r)
  <2> PICK gone : gone = MembersOf(call[r].body.full, Keep)
    OBVIOUS
  <2>1. /\ training' = Scrubbed([t \in Existing \ gone |-> training[t]], call[r].seen.group)
        /\ typed' = typed /\ Writing(r, "DeleteGroup")
    BY <1>2 DEF DeleteGroupWrite
  <2>2. call[r].seen.group = gone
    BY <2>1, SoloReads DEF Current
  <2>3. gone \in SUBSET Existing
    BY DEF MembersOf
  <2>4. QED BY <2>1, <2>2, <2>3, WithoutOrderly DEF TypeInv
<1>3. QED BY <1>1, <1>2

LEMMA PatchGroupOrderly ==
  ASSUME TypeInv, Control, RowsOrderly, NEW r \in alone, PatchGroupWrite(r)
  PROVE  RowsOrderly'
<1> PICK b : b = call[r].body
  OBVIOUS
<1> PICK s : s = call[r].seen
  OBVIOUS
<1>1. PatchRead(b, s) /\ PatchOK(b, s)
  BY SoloReads DEF PatchGroupWrite, Current, BodyOK
<1>2. /\ training' = [t \in Existing |->
              IF t \in DOMAIN s THEN PatchRow(t, s[t], b) ELSE training[t]]
      /\ typed' = typed
  BY DEF PatchGroupWrite
<1>3. ASSUME NEW t \in Existing, t \in DOMAIN s
      PROVE  Orderly(PatchRow(t, s[t], b), t, Existing, typed)
  <2> PICK ty : ty = s[t]
    OBVIOUS
  <2> PICK new : new = PatchRow(t, ty, b)
    OBVIOUS
  <2> PICK row : row = training[t]
    OBVIOUS
  <2>1. ty = row.type
    BY <1>1, <1>3 DEF PatchRead
  <2>2. /\ new.full = row.full /\ new.type = row.type
        /\ new.cert = (IF b.cert # Keep /\ ty \in CertBearing THEN b.cert ELSE row.cert)
        /\ b.legacy # Keep /\ ty \in LegacyEligible =>
             MarksFit(new, ty) /\ new.repl \subseteq Existing /\ t \notin new.repl
        /\ ~(b.legacy # Keep /\ ty \in LegacyEligible) =>
             new.legacy = row.legacy /\ new.repl = row.repl
    BY <1>1, PatchRowType DEF TypeInv
  <2>3. Orderly(row, t, Existing, typed)
    BY DEF RowsOrderly
  <2>4. b.cert # Keep => b.cert \subseteq Existing
    BY <1>1 DEF PatchRead
  <2>5. (new.type = "OLXSubItem" => new.cert = {}) /\ new.cert \subseteq Existing \cup typed
    BY <2>1, <2>2, <2>3, <2>4 DEF Orderly, Fits, CertBearing
  <2>6. /\ (new.legacy => new.type \in LegacyEligible) /\ (~new.legacy => new.repl = {})
        /\ t \notin new.repl /\ new.repl \subseteq Existing
    <3>1. CASE b.legacy # Keep /\ ty \in LegacyEligible
      BY <2>1, <2>2, <3>1 DEF MarksFit
    <3>2. CASE ~(b.legacy # Keep /\ ty \in LegacyEligible)
      BY <2>1, <2>2, <2>3, <3>2 DEF Orderly, Fits
    <3>3. QED BY <3>1, <3>2
  <2>7. QED BY <2>5, <2>6 DEF Orderly, Fits
<1>4. Existing' = Existing
  BY <1>2 DEF Existing
<1>5. \A t \in Existing : Orderly(training'[t], t, Existing, typed)
  BY <1>2, <1>3 DEF RowsOrderly
<1>6. QED BY <1>2, <1>4, <1>5 DEF RowsOrderly, Orderly, Fits

LEMMA RegroupedOrderly ==
  ASSUME TablesOK, RowsOrderly, NEW T, NEW f, Regrouped(T, f)
  PROVE  RowsOrderly'
<1>1. /\ training' = [t \in Existing |->
            IF t \in T THEN [training[t] EXCEPT !.full = f] ELSE training[t]]
      /\ typed' = typed
  BY DEF Regrouped
<1>2. \A row \in Training : LET new == [row EXCEPT !.full = f] IN
        new.type = row.type /\ new.cert = row.cert /\ new.legacy = row.legacy /\ new.repl = row.repl
  BY DEF Training
<1>3. Existing' = Existing
  BY <1>1 DEF Existing
<1>4. \A t \in Existing :
        /\ training'[t].type = training[t].type /\ training'[t].cert = training[t].cert
        /\ training'[t].legacy = training[t].legacy /\ training'[t].repl = training[t].repl
  BY <1>1, <1>2 DEF TablesOK
<1>5. QED BY <1>1, <1>3, <1>4 DEF RowsOrderly, Orderly, Fits

LEMMA NormaliseOrderly ==
  ASSUME TypeInv, Control, RowsOrderly, NEW r \in alone, NormaliseLeadsToWrite(r)
  PROVE  RowsOrderly'
<1> PICK lists : lists = call[r].seen
  OBVIOUS
<1> PICK union : union = Levelled(lists)
  OBVIOUS
<1>1. /\ DOMAIN lists \subseteq Existing /\ lists = [t \in DOMAIN lists |-> training[t].cert]
      /\ \A t \in DOMAIN lists : training[t].type \in CertBearing
  BY SoloReads DEF NormaliseLeadsToWrite, Current
<1>2. /\ training' = [t \in Existing |->
            IF t \in {u \in DOMAIN lists : lists[u] # union}
              THEN [training[t] EXCEPT !.cert = union] ELSE training[t]]
      /\ typed' = typed
  BY DEF NormaliseLeadsToWrite
<1>3. union \subseteq Existing \cup typed
  <2>1. \A t \in DOMAIN lists : lists[t] \subseteq Existing \cup typed
    BY <1>1 DEF RowsOrderly, Orderly
  <2>2. QED BY <2>1 DEF Levelled
<1>4. \A row \in Training : LET new == [row EXCEPT !.cert = union] IN
        new.type = row.type /\ new.cert = union /\ new.legacy = row.legacy /\ new.repl = row.repl
  BY DEF Training
<1>5. Existing' = Existing /\ \A t \in Existing : training[t] \in Training
  BY <1>2 DEF Existing, TypeInv, TablesOK
<1>6. ASSUME NEW t \in Existing PROVE Orderly(training'[t], t, Existing, typed)
  <2>1. CASE t \in {u \in DOMAIN lists : lists[u] # union}
    BY <1>1, <1>2, <1>3, <1>4, <1>5, <2>1 DEF RowsOrderly, Orderly, Fits, CertBearing
  <2>2. CASE t \notin {u \in DOMAIN lists : lists[u] # union}
    BY <1>2, <2>2 DEF RowsOrderly
  <2>3. QED BY <2>1, <2>2
<1>7. QED BY <1>2, <1>5, <1>6 DEF RowsOrderly, Orderly, Fits

LEMMA ImportOrderly ==
  ASSUME TypeInv, RowsOrderly, NEW r \in Requests, ImportRow(r) \/ ImportReplacement(r)
  PROVE  RowsOrderly'
<1>1. CASE ImportRow(r)
  <2> PICK row : row = Head(call[r].body.rows)
    OBVIOUS
  <2> PICK new : new = Imported(row)
    OBVIOUS
  <2>1. /\ call[r].body.rows # <<>>
        /\ training' = [t \in Existing \cup {row.title} |-> IF t = row.title THEN new ELSE training[t]]
        /\ typed' = typed \cup (new.cert \ DOMAIN training')
    BY Zenon, <1>1 DEF ImportRow
  <2>2. call[r].body.rows \in Seq(Cells)
    BY Zenon, <1>1, WritingType DEF ImportRow, Importing, BodyOK, ImportOK
  <2>3. row \in Cells
    BY <2>1, <2>2
  <2>4. /\ Fits(new)
        /\ \A x \in new.repl : \/ x \in Existing /\ x # row.title
                               \/ row.title \in Existing /\ x \in training[row.title].repl
    BY <2>3, ImportedIs DEF TypeInv
  <2>5. Existing' = Existing \cup {row.title}
    BY <2>1 DEF Existing
  <2>6. Orderly(new, row.title, Existing', typed')
    BY Zenon, <2>1, <2>4, <2>5 DEF RowsOrderly, Orderly, Existing
  <2>7. \A t \in Existing : Orderly(training[t], t, Existing', typed')
    <3>1. Existing \subseteq Existing' /\ typed \subseteq typed'
      BY <2>1, <2>5
    <3>2. QED BY <3>1, OrderlyGrows DEF RowsOrderly
  <2>8. \A t \in Existing' : Orderly(training'[t], t, Existing', typed')
    BY Zenon, <2>1, <2>5, <2>6, <2>7
  <2>9. QED BY <2>8 DEF RowsOrderly, Orderly, Fits
<1>2. CASE ImportReplacement(r)
  <2>1. PICK t \in Titles, repl \in SUBSET Titles :
           /\ t \notin Existing => training' = training
           /\ t \in Existing =>
                training' = [u \in Existing |-> IF u = t THEN [training[t] EXCEPT !.repl =
                  Sanitized(t, training[t].type, training[t].legacy, repl).repl] ELSE training[u]]
           /\ typed' = typed
    BY <1>2, ImportReplacementIs
  <2>2. CASE t \notin Existing
    BY <2>1, <2>2, OrderlyStays
  <2>3. CASE t \in Existing
    <3> PICK row : row = training[t]
      OBVIOUS
    <3>1. PICK m : m = Sanitized(t, row.type, row.legacy, repl)
      OBVIOUS
    <3>2. m \in Markers /\ m.repl \subseteq (repl \ {t}) \cap Existing
      BY <3>1, SanitizedType
    <3>3. row \in Training /\ Orderly(row, t, Existing, typed)
      BY <2>3 DEF TypeInv, TablesOK, RowsOrderly
    <3>4. ~row.legacy => m.repl = {}
      BY <3>1 DEF Sanitized
    <3>5. PICK new : new = [row EXCEPT !.repl = m.repl]
      OBVIOUS
    <3>6. new.type = row.type /\ new.cert = row.cert /\ new.legacy = row.legacy /\ new.repl = m.repl
      BY <3>2, <3>3, <3>5, ReplacedRow DEF Markers
    <3>7. Orderly(new, t, Existing, typed)
      BY <3>2, <3>3, <3>4, <3>6 DEF Orderly, Fits
    <3>8. training' = [u \in Existing |-> IF u = t THEN new ELSE training[u]]
      BY <2>1, <2>3, <3>1, <3>5
    <3>9. Existing' = Existing
      BY <3>8 DEF Existing
    <3>10. \A u \in Existing : Orderly(training'[u], u, Existing, typed)
      BY <3>7, <3>8 DEF RowsOrderly
    <3>11. QED BY <2>1, <3>9, <3>10 DEF RowsOrderly, Orderly, Fits
  <2>4. QED BY <2>2, <2>3
<1>3. QED BY <1>1, <1>2

\* What a PUT leaves of the tables.
Regroups(new, old) == new.full # old.full \/ new.type # old.type

PutDone(r, b, s, from, to) ==
  /\ from \in Existing /\ to \in Titles /\ (from # to => to \notin Existing)
  /\ PutOK(b, s)
  /\ Existing' = (Existing \ {from}) \cup {to}
  /\ \A t \in Existing : t # from => RowCarried(training'[t], training[t], from, to)
  /\ \E row \in Training :
       RowCarried(row, training[from], from, to) /\ training'[to] = PutRow(row, b, s)
  /\ \E ms, sync :
       /\ ms = {<<Name(from, to, m[1]), Name(from, to, m[2])>> : m \in members}
       /\ sync = Sync(ms, {to}, training'[to].type, b.subs, b.parents)
       /\ members' = sync.members
       /\ r \in alone /\ Regroups(training'[to], training[from]) =>
            \A m \in ms : m[2] = to /\ (\E n \in members' : n[1] = m[1]) => m[1] \in doubtful'
       /\ Committed(r, ForAll(sync.affected \cup IF to = from THEN {} ELSE {to}))
  /\ IF r \in alone THEN \A p \in doubtful : Name(from, to, p) \in doubtful'
                    ELSE doubtful' = doubtful
  /\ taken' = {Retitled(x, Name(from, to, x.title)) : x \in taken}
  /\ UNCHANGED <<nextId, typed>>

LEMMA PutIs ==
  ASSUME TypeInv, NEW r \in Requests, PutTrainingWrite(r)
  PROVE  PutDone(r, call[r].body, call[r].seen, call[r].seen.title, call[r].seen.target)
<1> PICK b : b = call[r].body
  OBVIOUS
<1> PICK s : s = call[r].seen
  OBVIOUS
<1>1. BodyOK("PutTraining", b, s)
  BY WritingType DEF PutTrainingWrite
<1>2. PutOK(b, s) /\ s.title \in Titles /\ s.target \in Titles
  BY <1>1 DEF BodyOK, PutOK
<1>3. PICK moved, new, sync, regrouped : PutWrites(r, b, s, moved, new, sync, regrouped)
  BY PutWritesIs
<1> PICK from : from = s.title
  OBVIOUS
<1> PICK to : to = s.target
  OBVIOUS
<1> PICK there : there = (Existing \ {from}) \cup {to}
  BY Zenon
<1>4. /\ from \in Existing /\ to \in Titles /\ (from # to => to \notin Existing)
      /\ moved = Renamed(from, to)
  BY Zenon, <1>2, <1>3 DEF PutWrites
<1>5. IsRenamed(moved, from, to)
  BY <1>4, RenamedIs DEF TypeInv
<1>6. /\ moved.training \in [there -> Training]
      /\ \A t \in Existing : RowCarried(moved.training[Name(from, to, t)], training[t], from, to)
      /\ moved.members = {<<Name(from, to, m[1]), Name(from, to, m[2])>> : m \in members}
      /\ moved.taken = {Retitled(x, Name(from, to, x.title)) : x \in taken}
  BY <1>5 DEF IsRenamed
<1>7. /\ training' = [moved.training EXCEPT ![to] = new] /\ new = PutRow(moved.training[to], b, s)
      /\ taken' = moved.taken /\ UNCHANGED <<nextId, typed>>
  BY Zenon, <1>3 DEF PutWrites
<1>8. /\ DOMAIN training' = there /\ training'[to] = new /\ Name(from, to, from) = to
      /\ \A t \in Existing : t # from => training'[t] = moved.training[t] /\ Name(from, to, t) = t
  BY Zenon, <1>4, <1>6, <1>7 DEF Name
<1>9. \A t \in Existing : t # from => RowCarried(training'[t], training[t], from, to)
  BY <1>6, <1>8
<1> PICK row : row = moved.training[to]
  OBVIOUS
<1>10. row \in Training /\ RowCarried(row, training[from], from, to) /\ new = PutRow(row, b, s)
  BY Zenon, <1>4, <1>6, <1>7, <1>8
<1>11. row.full = training[from].full /\ row.type = training[from].type
  BY Zenon, <1>10 DEF RowCarried
<1> PICK ms : ms = moved.members
  OBVIOUS
<1>12. /\ sync = Sync(ms, {to}, training'[to].type, b.subs, b.parents) /\ members' = sync.members
       /\ Committed(r, ForAll(sync.affected \cup IF to = from THEN {} ELSE {to}))
  BY Zenon, <1>3, <1>8 DEF PutWrites
<1>13. IF r \in alone THEN \A p \in doubtful : Name(from, to, p) \in doubtful'
                      ELSE doubtful' = doubtful
  <2>1. doubtful' = IF r \in alone
                      THEN {Name(s.title, s.target, p) : p \in doubtful} \cup
                           (regrouped \cap {m[1] : m \in sync.members})
                      ELSE doubtful
    BY Zenon, <1>3 DEF PutWrites
  <2>2. QED BY <2>1
<1>14. ASSUME r \in alone, Regroups(training'[to], training[from]), NEW m \in ms, m[2] = to,
              NEW n \in members', n[1] = m[1]
       PROVE  m[1] \in doubtful'
  <2>1. doubtful' = {Name(s.title, s.target, p) : p \in doubtful} \cup
                    (regrouped \cap {x[1] : x \in sync.members})
    BY Zenon, <1>3, <1>14 DEF PutWrites
  <2>2. new.full # row.full \/ new.type # row.type
    BY <1>8, <1>11, <1>14 DEF Regroups
  <2>3. regrouped = {x[1] : x \in {y \in moved.members : y[2] = to}}
    BY Zenon, <1>3, <2>2 DEF PutWrites
  <2>4. m[1] \in regrouped /\ m[1] \in {x[1] : x \in sync.members}
    BY Zenon, <1>12, <1>14, <2>3
  <2>5. QED BY <2>1, <2>4
<1>141. ms = {<<Name(from, to, m[1]), Name(from, to, m[2])>> : m \in members}
  BY <1>6
<1>142. \E ms2, y :
       /\ ms2 = {<<Name(from, to, m[1]), Name(from, to, m[2])>> : m \in members}
       /\ y = Sync(ms2, {to}, training'[to].type, b.subs, b.parents)
       /\ members' = y.members
       /\ r \in alone /\ Regroups(training'[to], training[from]) =>
            \A m \in ms2 : m[2] = to /\ (\E n \in members' : n[1] = m[1]) => m[1] \in doubtful'
       /\ Committed(r, ForAll(y.affected \cup IF to = from THEN {} ELSE {to}))
  BY Zenon, <1>12, <1>14, <1>141
<1>15. Existing' = there
  BY <1>8 DEF Existing
<1>16. \E row2 \in Training :
         RowCarried(row2, training[from], from, to) /\ training'[to] = PutRow(row2, b, s)
  BY <1>8, <1>10
<1>17. PutDone(r, b, s, from, to)
  BY Zenon, <1>2, <1>4, <1>6, <1>7, <1>9, <1>13, <1>142, <1>15, <1>16 DEF PutDone
<1>18. QED BY <1>17

\* A row's lists after a rename.
LEMMA CarriedOrderly ==
  ASSUME TablesOK, NEW from \in Existing, NEW to, from # to => to \notin Existing,
         NEW t \in Existing, NEW trusted, Orderly(training[t], t, Existing, trusted), NEW row,
         RowCarried(row, training[t], from, to), NEW there, there = (Existing \ {from}) \cup {to}
  PROVE  Orderly(row, Name(from, to, t), there, trusted)
<1> PICK old : old = training[t]
  OBVIOUS
<1>1. /\ row.type = old.type /\ row.legacy = old.legacy
      /\ row.cert = {Name(from, to, x) : x \in old.cert}
      /\ row.repl = {Name(from, to, x) : x \in old.repl}
  BY DEF RowCarried
<1>2. Orderly(old, t, Existing, trusted)
  OBVIOUS
<1>3. (old.cert = {} => row.cert = {}) /\ (old.repl = {} => row.repl = {})
  BY <1>1
<1>4. Fits(row)
  BY <1>1, <1>2, <1>3 DEF Orderly, Fits
<1>5. \A x \in Existing : Name(from, to, x) \in there
  BY DEF Name
<1>6. \A x \in trusted : Name(from, to, x) \in there \cup trusted
  BY DEF Name
<1>7. row.cert \subseteq there \cup trusted /\ row.repl \subseteq there
  BY <1>1, <1>2, <1>5, <1>6 DEF Orderly
<1>8. \A x \in Existing : Name(from, to, x) = Name(from, to, t) => x = t
  BY DEF Name
<1>9. Name(from, to, t) \notin row.repl
  BY <1>1, <1>2, <1>8 DEF Orderly
<1>10. QED BY <1>4, <1>7, <1>9 DEF Orderly

LEMMA PutTrainingOrderly ==
  ASSUME TypeInv, Control, RowsOrderly, NEW r \in alone, PutTrainingWrite(r)
  PROVE  RowsOrderly'
<1> PICK b : b = call[r].body
  OBVIOUS
<1> PICK s : s = call[r].seen
  OBVIOUS
<1> PICK from : from = s.title
  OBVIOUS
<1> PICK to : to = s.target
  OBVIOUS
<1> PICK there : there = (Existing \ {from}) \cup {to}
  BY Zenon
<1>1. PutRead(b, s) /\ r \in Requests
  BY Zenon, SoloReads DEF PutTrainingWrite, Current
<1>2. PutDone(r, b, s, from, to)
  BY <1>1, PutIs
<1>3. /\ from \in Existing /\ to \in Titles /\ (from # to => to \notin Existing) /\ PutOK(b, s)
      /\ Existing' = there /\ typed' = typed
      /\ \A t \in Existing : t # from => RowCarried(training'[t], training[t], from, to)
  BY Zenon, <1>2 DEF PutDone
<1>4. PICK row \in Training :
        RowCarried(row, training[from], from, to) /\ training'[to] = PutRow(row, b, s)
  BY Zenon, <1>2 DEF PutDone
<1>5. \A t \in Existing : Orderly(training[t], t, Existing, typed)
  BY DEF RowsOrderly
<1>6. ASSUME NEW t \in Existing, t # from PROVE Orderly(training'[t], t, there, typed)
  <2>1. Name(from, to, t) = t
    BY <1>6 DEF Name
  <2>2. Orderly(training'[t], Name(from, to, t), there, typed)
    BY <1>3, <1>5, <1>6, CarriedOrderly DEF TypeInv
  <2>3. QED BY <2>1, <2>2
<1>7. Orderly(row, to, there, typed)
  <2>1. Name(from, to, from) = to
    BY DEF Name
  <2>2. Orderly(row, Name(from, to, from), there, typed)
    BY <1>3, <1>4, <1>5, CarriedOrderly DEF TypeInv
  <2>3. QED BY <2>1, <2>2
<1> PICK new : new = training'[to]
  OBVIOUS
<1>8. /\ new.type = TypePut(b, row) /\ new.cert = Or(s.cert, row.cert)
      /\ new.legacy = (IF s.marks = Keep THEN row.legacy ELSE s.marks.legacy)
      /\ new.repl = IF s.marks = Keep THEN row.repl ELSE s.marks.repl
  BY <1>3, <1>4, PutRowType
<1>9. row.type = training[from].type /\ TypePut(b, row) = TypePut(b, training[from])
  BY <1>4 DEF RowCarried, TypePut
<1>10. new.cert \subseteq there \cup typed /\ (new.type = "OLXSubItem" => new.cert = {})
  <2>1. s.cert # Keep => s.cert \subseteq there
    BY <1>1 DEF PutRead
  <2>2. new.type = "OLXSubItem" => s.cert = {} /\ s.cert # Keep
    BY <1>1, <1>8, <1>9, ParamAssumption DEF PutRead
  <2>3. QED BY <1>7, <1>8, <2>1, <2>2 DEF Or, Orderly
<1>11. /\ (new.legacy => new.type \in LegacyEligible) /\ (~new.legacy => new.repl = {})
       /\ to \notin new.repl /\ new.repl \subseteq there
  <2>1. CASE s.marks = Keep
    <3>1. b.type \in LegacyEligible \cup {Keep}
      BY <1>1, <2>1 DEF PutRead
    <3>2. new.legacy => new.type \in LegacyEligible
      BY <1>7, <1>8, <2>1, <3>1 DEF TypePut, Orderly, Fits
    <3>3. QED BY <1>7, <1>8, <2>1, <3>2 DEF Orderly, Fits
  <2>2. CASE s.marks # Keep
    <3>1. /\ MarksFit(s.marks, new.type) /\ s.marks.repl \subseteq Existing \ {to}
          /\ from \notin training[from].repl => from \notin s.marks.repl
      BY <1>1, <1>8, <1>9, <2>2 DEF PutRead
    <3>2. from \notin s.marks.repl
      BY <1>3, <1>5, <3>1 DEF Orderly
    <3>3. new.legacy = s.marks.legacy /\ new.repl = s.marks.repl
      BY <1>8, <2>2
    <3>4. QED BY <3>1, <3>2, <3>3 DEF MarksFit
  <2>3. QED BY <2>1, <2>2
<1>12. Orderly(new, to, there, typed)
  BY <1>10, <1>11 DEF Orderly, Fits
<1>13. \A t \in there : Orderly(training'[t], t, there, typed)
  BY <1>6, <1>12
<1>14. QED BY <1>3, <1>13 DEF RowsOrderly, Orderly, Fits

CatalogueInv == TypeInv /\ Control /\ (~Mix.overlap => RowsOrderly)

LEMMA WritesControl ==
  ASSUME TypeInv, Control, NEW r \in Requests, Writes(r) PROVE Control'
<1>1. CASE ImportRow(r) \/ ImportReplacement(r)
  BY <1>1, ImportControl
<1>2. CASE ~(ImportRow(r) \/ ImportReplacement(r))
  <2>1. pc[r] = "write" /\ \E batches : Committed(r, batches)
    BY Zenon, <1>2 DEF Writes, PostTakenWrite, PatchTakenWrite, DeleteTakenWrite, PostTrainingWrite,
       PutTrainingWrite, DeleteTrainingWrite, PatchGroupWrite, RegroupWrite, MoveAliasesWrite,
       DeleteGroupWrite, OlxBackfillWrite, NormaliseLeadsToWrite, ImportLinks, Importing, Writing
  <2>2. QED BY <2>1, CommittedControl
<1>3. QED BY <1>1, <1>2

LEMMA WritesOrderly ==
  ASSUME TypeInv, Control, RowsOrderly, NEW r \in alone, Writes(r) PROVE RowsOrderly'
<1>1. r \in Requests /\ TablesOK
  BY DEF TypeInv, RequestsOK
<1>2. CASE PostTakenWrite(r) \/ PatchTakenWrite(r) \/ DeleteTakenWrite(r) \/ OlxBackfillWrite(r)
           \/ ImportLinks(r)
  BY <1>2, OrderlyStays DEF PostTakenWrite, PatchTakenWrite, DeleteTakenWrite, OlxBackfillWrite,
     ImportLinks, data
<1>3. CASE RegroupWrite(r) \/ MoveAliasesWrite(r)
  <2>1. \E T, f : Regrouped(T, f)
    BY <1>3 DEF RegroupWrite, MoveAliasesWrite
  <2>2. QED BY <1>1, <2>1, RegroupedOrderly
<1>4. QED BY <1>1, <1>2, <1>3, PostTrainingOrderly, PutTrainingOrderly, DeleteOrderly,
             PatchGroupOrderly, NormaliseOrderly, ImportOrderly DEF Writes

LEMMA InitInv == Init => CatalogueInv
<1> SUFFICES ASSUME Init PROVE CatalogueInv
  OBVIOUS
<1>1. TypeInv
  BY InitType
<1>2. Control
  BY DEF Init, Control, Solo, SoloCurrent, NoOverlap, Busy
<1>3. RowsOrderly
  <2>1. InOrder
    BY DEF Init
  <2>2. \A t \in Existing : training[t].cert \cup training[t].repl \subseteq Existing
    BY <2>1 DEF InOrder, Dangling
  <2>3. \A t \in Existing : Fits(training[t]) /\ t \notin training[t].repl
    BY <2>1 DEF InOrder
  <2>4. QED BY <2>2, <2>3 DEF RowsOrderly, Orderly
<1>4. QED BY <1>1, <1>2, <1>3 DEF CatalogueInv

LEMMA NextInv == ASSUME CatalogueInv, [Next]_vars PROVE CatalogueInv'
<1>1. TypeInv' /\ TypeInv /\ Control
  BY NextType DEF CatalogueInv
<1>2. CASE UNCHANGED vars
  <2>1. Control'
    <3>1. UNCHANGED <<workload, training, members, taken, pc, call, alone>>
      BY <1>2 DEF vars
    <3>2. SoloCurrent'
      BY <1>1, <3>1 DEF Control, SoloCurrent, Holds, Current, PostRead, PutRead, PatchRead,
         Existing, OfType, Parents, MembersOf
    <3>3. Solo' /\ NoOverlap'
      BY <1>1, <3>1 DEF Control, Solo, NoOverlap, Busy, Mix
    <3>4. QED BY <3>2, <3>3 DEF Control
  <2>2. QED BY <1>1, <1>2, <2>1, OrderlyStays DEF CatalogueInv, vars, Mix
<1>3. ASSUME NEW r \in Requests,
             Reads(r) \/ Writes(r) \/ WriteFails(r) \/ Evaluate(r) \/ Apply(r) \/ ApplyFails(r)
      PROVE  CatalogueInv'
  <2>1. CASE Reads(r)
    <3>1. Opens(r)
      BY <1>1, <2>1, ReadsOpen
    <3>2. UNCHANGED <<workload, training, typed>>
      BY <3>1 DEF Opens, Begin
    <3>3. QED BY <1>1, <3>1, <3>2, OpensControl, OrderlyStays DEF CatalogueInv, Mix
  <2>2. CASE Writes(r)
    <3>1. workload' = workload /\ Busy(r)
      BY Zenon, <2>2 DEF Writes, PostTakenWrite, PatchTakenWrite, DeleteTakenWrite, PostTrainingWrite,
         PutTrainingWrite, DeleteTrainingWrite, PatchGroupWrite, RegroupWrite, MoveAliasesWrite,
         DeleteGroupWrite, OlxBackfillWrite, NormaliseLeadsToWrite, ImportRow, ImportReplacement,
         ImportLinks, Importing, Writing, Busy, Committed, Collected
    <3>2. ~Mix.overlap => r \in alone
      BY <1>1, <3>1 DEF Control, NoOverlap
    <3>3. QED BY <1>1, <2>2, <3>1, <3>2, WritesControl, WritesOrderly DEF CatalogueInv, Mix
  <2>3. CASE WriteFails(r) \/ ApplyFails(r)
    <3>1. Fails(r) /\ Busy(r)
      BY <2>3 DEF WriteFails, ApplyFails, Busy
    <3>2. UNCHANGED <<workload, training, typed>>
      BY <3>1 DEF Fails, data
    <3>3. QED BY <1>1, <3>1, <3>2, FailsControl, OrderlyStays DEF CatalogueInv, Mix
  <2>4. CASE Evaluate(r)
    <3>1. UNCHANGED <<workload, training, typed>>
      BY <2>4 DEF Evaluate, data
    <3>2. QED BY <1>1, <2>4, <3>1, EvaluateControl, OrderlyStays DEF CatalogueInv, Mix
  <2>5. CASE Apply(r)
    <3>1. UNCHANGED <<workload, training, typed>>
      BY <2>5 DEF Apply
    <3>2. QED BY <1>1, <2>5, <3>1, ApplyControl, OrderlyStays DEF CatalogueInv, Mix
  <2>6. QED BY <1>3, <2>1, <2>2, <2>3, <2>4, <2>5
<1>4. QED BY <1>2, <1>3 DEF Next

\* Whatever requests do to the catalogue, an entry that does not await review has the
\* columns somebody chose; and where they do not overlap, a row's markers fit its type,
\* and what leads to a certification or is replaced by one names a training there is:
\* certification[] and replacedBy[] of src/src/app/api/training-data and training-group.
THEOREM CatalogueAgrees == Spec => []RowsAgree
<1>1. Spec => []CatalogueInv
  BY InitInv, NextInv, PTL DEF Spec
<1>2. CatalogueInv => RowsAgree
  <2> SUFFICES ASSUME CatalogueInv PROVE RowsAgree
    OBVIOUS
  <2>1. MarkersFitType
    BY DEF CatalogueInv, TypeInv, TablesOK, RowsOrderly, Orderly, MarkersFitType
  <2>2. ReferencesResolve
    <3> SUFFICES ASSUME ~Mix.overlap PROVE Dangling \subseteq typed
      BY DEF ReferencesResolve
    <3>1. \A t \in Existing : training[t].cert \cup training[t].repl \subseteq Existing \cup typed
      BY DEF CatalogueInv, RowsOrderly, Orderly
    <3>2. QED BY <3>1 DEF Dangling
  <2>3. QED BY <2>1, <2>2 DEF RowsAgree
<1>3. QED BY <1>1, <1>2, PTL

----------------------------------------------------------------------------
(* Completions are kept.  A plan deletes rows of OLX parents alone: it is  *)
(* enough that nothing gives a training another type, or another title,    *)
(* while the plan waits to be applied.                                     *)

Retyping == {"PutTraining", "ImportCatalogue"}

OpsAllowed == \A r \in Requests : pc[r] = "write" => call[r].op \in Mix.ops

DerivedIds(p) ==
  \A i \in p.deletes : i < nextId /\ \A t \in taken : t.id = i => t.title \in OfType("OLX")

PlansDerived == \A r \in Requests : pc[r] = "apply" => DerivedIds(plan[r])

\* What a step that changes no type leaves of the rows there were.
SameTypes ==
  /\ nextId <= nextId'
  /\ \A t \in taken' : t.id >= nextId \/ \E u \in taken : u.id = t.id /\ u.title = t.title
  /\ \A t \in Existing : t \in Existing' => training'[t].type = training[t].type

\* No row goes, and none goes to somebody else.
AllKept == \A t \in taken : \E u \in taken' : u.id = t.id /\ u.who = t.who

LEMMA SameTables ==
  ASSUME TypeInv, UNCHANGED <<training, taken, nextId>>
  PROVE  SameTypes /\ AllKept
BY DEF TypeInv, TablesOK, SameTypes, AllKept, Existing

LEMMA SameTaken ==
  ASSUME TypeInv, UNCHANGED <<taken, nextId>>,
         \A t \in Existing : t \in Existing' => training'[t].type = training[t].type
  PROVE  SameTypes /\ AllKept
BY DEF TypeInv, TablesOK, SameTypes, AllKept

LEMMA CompletionsMove ==
  ASSUME TypeInv, NEW r \in Requests, PostTakenWrite(r) \/ PatchTakenWrite(r)
  PROVE  SameTypes /\ AllKept
<1>0. nextId \in Nat /\ UNCHANGED training
  BY DEF TypeInv, TablesOK, PostTakenWrite, PatchTakenWrite
<1>1. CASE PostTakenWrite(r)
  <2> PICK row : row = [id |-> nextId, who |-> call[r].body.who, title |-> call[r].body.title,
                        date |-> call[r].body.date]
    OBVIOUS
  <2>1. taken' = taken \cup {row} /\ nextId' = nextId + 1 /\ row.id = nextId
    BY <1>1 DEF PostTakenWrite
  <2>2. QED BY <1>0, <2>1 DEF SameTypes, AllKept, Existing
<1>2. CASE PatchTakenWrite(r)
  <2> PICK x : x = call[r].seen
    OBVIOUS
  <2> PICK d : d = call[r].body.date
    OBVIOUS
  <2>1. taken' = {IF y.id = x.id THEN Redated(y, d) ELSE y : y \in taken} /\ nextId' = nextId
    BY <1>2 DEF PatchTakenWrite
  <2>2. d \in Dates
    BY <1>2, WritingType DEF PatchTakenWrite, BodyOK
  <2>3. \A y \in taken : /\ Redated(y, d).id = y.id /\ Redated(y, d).who = y.who
                         /\ Redated(y, d).title = y.title
    BY <2>2, RedatedType DEF TypeInv, TablesOK
  <2>4. QED BY <1>0, <2>1, <2>3 DEF SameTypes, AllKept, Existing
<1>3. QED BY <1>1, <1>2

LEMMA DeletesMove ==
  ASSUME TypeInv, NEW r \in Requests,
         DeleteTakenWrite(r) \/ DeleteTrainingWrite(r) \/ DeleteGroupWrite(r)
  PROVE  SameTypes
<1>0. nextId \in Nat /\ nextId' = nextId
  BY DEF TypeInv, TablesOK, DeleteTakenWrite, DeleteTrainingWrite, DeleteGroupWrite
<1>1. CASE DeleteTakenWrite(r)
  BY <1>0, <1>1 DEF DeleteTakenWrite, SameTypes, Existing
<1>2. CASE DeleteTrainingWrite(r) \/ DeleteGroupWrite(r)
  <2>1. PICK gone, T : training' = Scrubbed([t \in Existing \ gone |-> training[t]], T)
                       /\ WithoutTitles(gone)
    BY <1>2 DEF DeleteTrainingWrite, DeleteGroupWrite
  <2> PICK rest : rest = Existing \ gone
    OBVIOUS
  <2> PICK tr : tr = [t \in rest |-> training[t]]
    OBVIOUS
  <2>2. tr \in [rest -> Training] /\ rest \in SUBSET Titles /\ \A t \in rest : tr[t] = training[t]
    BY DEF TypeInv, TablesOK
  <2>3. DOMAIN training' = rest /\ \A t \in rest : training'[t].type = tr[t].type
    BY <2>1, <2>2, ScrubbedIs
  <2>4. nextId' = nextId /\ taken' \subseteq taken
    BY <1>0, <2>1 DEF WithoutTitles
  <2>5. \A t \in Existing : t \in Existing' => training'[t].type = training[t].type
    BY <2>2, <2>3 DEF Existing
  <2>6. QED BY <2>4, <2>5 DEF SameTypes, TypeInv, TablesOK
<1>3. QED BY <1>1, <1>2

LEMMA CatalogueMoves ==
  ASSUME TypeInv, NEW r \in Requests,
         PostTrainingWrite(r) \/ PatchGroupWrite(r) \/ RegroupWrite(r) \/ MoveAliasesWrite(r)
         \/ OlxBackfillWrite(r) \/ NormaliseLeadsToWrite(r) \/ ImportLinks(r)
  PROVE  SameTypes /\ AllKept
<1>1. UNCHANGED <<taken, nextId>>
  BY DEF PostTrainingWrite, PatchGroupWrite, RegroupWrite, MoveAliasesWrite, OlxBackfillWrite,
     NormaliseLeadsToWrite, ImportLinks, Regrouped, data
<1>2. \A t \in Existing : training[t] \in Training
  BY DEF TypeInv, TablesOK
<1>3. \A t \in Existing : t \in Existing' => training'[t].type = training[t].type
  <2>1. CASE PostTrainingWrite(r)
    BY <2>1 DEF PostTrainingWrite
  <2>2. CASE PatchGroupWrite(r)
    <3> PICK b : b = call[r].body
      OBVIOUS
    <3> PICK s : s = call[r].seen
      OBVIOUS
    <3>1. PatchOK(b, s)
      BY <2>2, WritingType DEF PatchGroupWrite, BodyOK
    <3>2. training' = [t \in Existing |->
              IF t \in DOMAIN s THEN PatchRow(t, s[t], b) ELSE training[t]]
      BY <2>2 DEF PatchGroupWrite
    <3>3. \A t \in Existing : PatchRow(t, s[t], b).type = training[t].type
      BY <3>1, PatchRowType DEF TypeInv
    <3>4. QED BY <3>2, <3>3
  <2>3. CASE RegroupWrite(r) \/ MoveAliasesWrite(r)
    <3>1. PICK T, f : training' = [t \in Existing |->
            IF t \in T THEN [training[t] EXCEPT !.full = f] ELSE training[t]]
      <4>1. \E T, f : Regrouped(T, f)
        BY <2>3 DEF RegroupWrite, MoveAliasesWrite
      <4>2. QED BY <4>1 DEF Regrouped
    <3>2. \A row \in Training : [row EXCEPT !.full = f].type = row.type
      BY DEF Training
    <3>3. QED BY <1>2, <3>1, <3>2
  <2>4. CASE NormaliseLeadsToWrite(r)
    <3>1. PICK T, u : training' = [t \in Existing |->
            IF t \in T THEN [training[t] EXCEPT !.cert = u] ELSE training[t]]
      BY <2>4 DEF NormaliseLeadsToWrite
    <3>2. \A row \in Training : [row EXCEPT !.cert = u].type = row.type
      BY DEF Training
    <3>3. QED BY <1>2, <3>1, <3>2
  <2>5. CASE OlxBackfillWrite(r) \/ ImportLinks(r)
    BY <2>5 DEF OlxBackfillWrite, ImportLinks, data
  <2>6. QED BY <2>1, <2>2, <2>3, <2>4, <2>5
<1>4. QED BY <1>1, <1>3, SameTaken

\* A rename carries the rows.
LEMMA PutKeeps ==
  ASSUME TypeInv, NEW r \in Requests, PutTrainingWrite(r) PROVE AllKept
<1>0. PICK b, s, from, to : PutDone(r, b, s, from, to)
  BY PutIs
<1>1. taken' = {Retitled(x, Name(from, to, x.title)) : x \in taken}
  BY <1>0 DEF PutDone
<1>2. \A x \in taken : \A n : Retitled(x, n).id = x.id /\ Retitled(x, n).who = x.who
  BY DEF Retitled
<1>3. QED BY <1>1, <1>2 DEF AllKept

LEMMA ImportKeeps ==
  ASSUME TypeInv, NEW r \in Requests, ImportRow(r) \/ ImportReplacement(r) PROVE AllKept
BY Zenon DEF ImportRow, ImportReplacement, AllKept

\* A plan applied.
LEMMA ApplyMoves ==
  ASSUME TypeInv, NEW r \in Requests, Apply(r)
  PROVE  /\ SameTypes
         /\ DerivedIds(plan[r]) =>
              \A t \in taken : t.title \notin OfType("OLX") =>
                \E u \in taken' : u.id = t.id /\ u.who = t.who
<1> PICK p : p = plan[r]
  OBVIOUS
<1>1. /\ PlanOK(p) /\ nextId' = nextId + Cardinality(p.creates) /\ nextId' \in Nat
      /\ UNCHANGED training
  BY ApplyFacts
<1>2. PICK ids : AppliesTo(p, ids)
  BY ApplyFacts
<1>3. nextId \in Nat /\ Cardinality(p.creates) \in Nat
  BY <1>1, PlanIsFinite DEF TypeInv, TablesOK
<1>4. \A c \in p.creates : Created(c, ids[c]).id >= nextId
  <2>1. \A c \in p.creates : ids[c] \in Nat /\ nextId <= ids[c]
    BY <1>2 DEF AppliesTo
  <2>2. QED BY <1>3, <2>1 DEF Created
<1>5. \A t \in taken : /\ Revised(p, t).id = t.id /\ Revised(p, t).who = t.who
                       /\ Revised(p, t).title = t.title
  BY <1>1, RevisedType DEF TypeInv, TablesOK
<1>6. taken' = {Revised(p, t) : t \in {u \in taken : u.id \notin p.deletes}}
               \cup {Created(c, ids[c]) : c \in p.creates}
  BY <1>2 DEF AppliesTo
<1>7. \A t \in taken' : t.id >= nextId \/ \E u \in taken : u.id = t.id /\ u.title = t.title
  BY <1>4, <1>5, <1>6
<1>8. SameTypes
  BY <1>1, <1>3, <1>7 DEF SameTypes, Existing
<1>9. ASSUME DerivedIds(p), NEW t \in taken, t.title \notin OfType("OLX")
      PROVE  \E u \in taken' : u.id = t.id /\ u.who = t.who
  <2>1. t.id \notin p.deletes
    BY <1>9 DEF DerivedIds
  <2>2. QED BY <1>5, <1>6, <2>1
<1>10. QED BY <1>8, <1>9

LEMMA PlanOneDerived ==
  ASSUME TablesOK, NEW w, NEW p, Subs(p) # {}
  PROVE  PlanOne(w, p).deletes \subseteq IdsOf(Rows(w, {p}))
<1>1. CASE ~Done(w, p)
  BY <1>1, PlanFacts DEF PlanNot
<1>2. CASE Done(w, p) /\ Rows(w, {p}) = {}
  BY <1>2, PlanFacts DEF PlanNew
<1>3. CASE Done(w, p) /\ Rows(w, {p}) # {}
  <2>1. PICK k : PlanKept(w, p, k)
    BY <1>3, PlanFacts
  <2>2. QED BY <2>1 DEF PlanKept, IdsOf
<1>4. QED BY <1>1, <1>2, <1>3

LEMMA EvaluateDerived ==
  ASSUME TablesOK, NEW b \in Batches
  PROVE  DerivedIds(PlanBatch(b))
<1> SUFFICES ASSUME NEW i \in PlanBatch(b).deletes
             PROVE  i < nextId /\ \A t \in taken : t.id = i => t.title \in OfType("OLX")
  BY DEF DerivedIds
<1>1. PICK x \in Work(b) : i \in PlanOne(x[1], x[2]).deletes
  BY DEF PlanBatch
<1>2. x[2] \in OfType("OLX") /\ Subs(x[2]) # {}
  BY WorkIs
<1>3. i \in IdsOf(Rows(x[1], {x[2]}))
  BY <1>1, <1>2, PlanOneDerived
<1>4. PICK t \in taken : t.id = i /\ t.title = x[2]
  BY <1>3 DEF IdsOf, Rows
<1>5. QED BY <1>2, <1>4 DEF TablesOK

LEMMA DerivedStays ==
  ASSUME TypeInv, TypeInv', SameTypes, NEW p, PlanOK(p), DerivedIds(p)
  PROVE  DerivedIds(p)'
<1> SUFFICES ASSUME NEW i \in p.deletes
             PROVE  i < nextId' /\ \A t \in taken' : t.id = i => t.title \in OfType("OLX")'
  BY DEF DerivedIds
<1>1. i \in Nat /\ nextId \in Nat /\ nextId' \in Nat /\ i < nextId /\ nextId <= nextId'
  BY DEF TypeInv, TablesOK, PlanOK, DerivedIds, SameTypes
<1>2. ASSUME NEW t \in taken', t.id = i PROVE t.title \in OfType("OLX")'
  <2>1. PICK u \in taken : u.id = t.id /\ u.title = t.title
    BY <1>1, <1>2 DEF SameTypes
  <2>2. u.title \in OfType("OLX")
    BY <1>2, <2>1 DEF DerivedIds
  <2>3. t.title \in Existing'
    BY DEF TypeInv, TablesOK
  <2>4. QED BY <2>1, <2>2, <2>3 DEF SameTypes, OfType
<1>3. QED BY <1>1, <1>2

\* A step of one request leaves the plans of the others as they were.
LEMMA OthersDerived ==
  ASSUME TypeInv, TypeInv', PlansDerived, SameTypes, NEW r, pc'[r] # "apply",
         \A q \in Requests : q # r => pc'[q] = pc[q] /\ plan'[q] = plan[q]
  PROVE  PlansDerived'
<1> SUFFICES ASSUME NEW q \in Requests, pc'[q] = "apply" PROVE DerivedIds(plan[q])'
  BY DEF PlansDerived
<1>1. q # r /\ pc[q] = "apply" /\ plan'[q] = plan[q]
  OBVIOUS
<1>2. PlanOK(plan[q]) /\ DerivedIds(plan[q])
  BY <1>1 DEF TypeInv, RequestsOK, RequestOK, PlansDerived
<1>3. PICK p : p = plan[q]
  OBVIOUS
<1>4. DerivedIds(p)'
  BY <1>2, <1>3, DerivedStays
<1>5. QED BY <1>1, <1>3, <1>4

\* What may overlap with anything gives no training another type.
Calm == \A w \in DOMAIN Workloads : Workloads[w].overlap => Workloads[w].ops \cap Retyping = {}

CompletionsInv == CatalogueInv /\ OpsAllowed /\ PlansDerived

KeptStep ==
  (\A r \in Requests : ~(DeleteTakenWrite(r) \/ DeleteTrainingWrite(r) \/ DeleteGroupWrite(r))) =>
    \A t \in taken : t.title \notin OfType("OLX") =>
      \E u \in taken' : u.id = t.id /\ u.who = t.who

LEMMA KeptInPlace ==
  ASSUME TypeInv, UNCHANGED taken PROVE KeptStep
BY DEF KeptStep

LEMMA AllowedStays ==
  ASSUME OpsAllowed, workload' = workload,
         \A q \in Requests : pc'[q] = "write" => pc[q] = "write" /\ call'[q].op = call[q].op
  PROVE  OpsAllowed'
BY DEF OpsAllowed, Mix

LEMMA CommittedPlans ==
  ASSUME TypeInv, NEW r \in Requests, NEW batches, Committed(r, batches)
  PROVE  /\ pc'[r] \in {"recompute", "done"}
         /\ \A q \in Requests : q # r => pc'[q] = pc[q] /\ plan'[q] = plan[q]
         /\ \A q \in Requests : pc'[q] = "write" => pc[q] = "write" /\ call'[q].op = call[q].op
         /\ workload' = workload
BY DEF Committed, Continues, TypeInv, RequestsOK

LEMMA FailsPlans ==
  ASSUME TypeInv, NEW r \in Requests, Fails(r)
  PROVE  /\ pc'[r] = "done"
         /\ \A q \in Requests : q # r => pc'[q] = pc[q] /\ plan'[q] = plan[q]
         /\ \A q \in Requests : pc'[q] = "write" => pc[q] = "write" /\ call'[q].op = call[q].op
         /\ UNCHANGED <<workload, training, taken, nextId>>
BY DEF Fails, TypeInv, RequestsOK, data

LEMMA CollectedPlans ==
  ASSUME TypeInv, NEW r \in Requests, Importing(r), NEW rows, NEW repl, NEW links,
         Collected(r, rows, repl, links)
  PROVE  /\ pc' = pc /\ plan' = plan /\ workload' = workload
         /\ \A q \in Requests : pc'[q] = "write" => pc[q] = "write" /\ call'[q].op = call[q].op
BY DEF Collected, Importing, Writing, TypeInv, RequestsOK

LEMMA ReadsKept ==
  ASSUME TypeInv, TypeInv', CompletionsInv, NEW r \in Requests, Reads(r)
  PROVE  OpsAllowed' /\ PlansDerived' /\ KeptStep
<1>1. PICK op, b, s : Ready(r, op) /\ Begin(r, op, b, s)
  BY ReadsOpen DEF Opens
<1>2. /\ pc' = [x \in Requests |-> IF x = r THEN "write" ELSE pc[x]]
      /\ call' = [x \in Requests |-> IF x = r THEN [op |-> op, body |-> b, seen |-> s]
                                     ELSE call[x]]
      /\ UNCHANGED <<workload, training, members, taken, nextId, plan>>
  BY <1>1 DEF Begin, TypeInv, RequestsOK
<1>3. OpsAllowed'
  <2>1. op \in Mix.ops
    BY <1>1 DEF Ready
  <2>2. QED BY <1>2, <2>1 DEF CompletionsInv, OpsAllowed, Mix
<1>4. PlansDerived'
  BY <1>2, SameTables, OthersDerived DEF CompletionsInv
<1>5. QED BY <1>2, <1>3, <1>4, KeptInPlace

\* What retypes or retitles is by itself.
LEMMA RetypesAlone ==
  ASSUME TypeInv, Calm, CompletionsInv, NEW r \in Requests, NEW op \in Retyping, Writing(r, op)
  PROVE  \A q \in Requests : pc[q] # "apply"
<1>1. op \in Mix.ops /\ pc[r] = "write"
  BY DEF CompletionsInv, OpsAllowed, Writing
<1>2. ~Mix.overlap
  BY <1>1 DEF Calm, Mix, TypeInv
<1>3. r \in alone
  BY <1>1, <1>2 DEF CompletionsInv, CatalogueInv, Control, NoOverlap, Busy
<1>4. QED BY <1>1, <1>3 DEF CompletionsInv, CatalogueInv, Control, Solo, Busy

LEMMA WritesKept ==
  ASSUME TypeInv, TypeInv', Calm, CompletionsInv, NEW r \in Requests, Writes(r)
  PROVE  OpsAllowed' /\ PlansDerived' /\ KeptStep
<1>1. CASE PostTakenWrite(r) \/ PatchTakenWrite(r) \/ PostTrainingWrite(r) \/ PatchGroupWrite(r)
           \/ RegroupWrite(r) \/ MoveAliasesWrite(r) \/ OlxBackfillWrite(r)
           \/ NormaliseLeadsToWrite(r) \/ ImportLinks(r)
  <2>1. SameTypes /\ AllKept
    BY <1>1, CompletionsMove, CatalogueMoves
  <2>2. \E batches : Committed(r, batches)
    BY <1>1 DEF PostTakenWrite, PatchTakenWrite, PostTrainingWrite, PatchGroupWrite, RegroupWrite,
       MoveAliasesWrite, OlxBackfillWrite, NormaliseLeadsToWrite, ImportLinks
  <2>3. QED BY <2>1, <2>2, CommittedPlans, OthersDerived, AllowedStays
            DEF CompletionsInv, KeptStep, AllKept
<1>2. CASE DeleteTakenWrite(r) \/ DeleteTrainingWrite(r) \/ DeleteGroupWrite(r)
  <2>1. SameTypes
    BY <1>2, DeletesMove
  <2>2. \E batches : Committed(r, batches)
    BY <1>2 DEF DeleteTakenWrite, DeleteTrainingWrite, DeleteGroupWrite
  <2>3. KeptStep
    BY <1>2 DEF KeptStep
  <2>4. QED BY <2>1, <2>2, <2>3, CommittedPlans, OthersDerived, AllowedStays DEF CompletionsInv
<1>3. CASE PutTrainingWrite(r)
  <2>1. PICK batches : Committed(r, batches)
    BY Zenon, <1>3 DEF PutTrainingWrite
  <2>2. \A q \in Requests : pc[q] # "apply"
    BY Zenon, <1>3, RetypesAlone DEF PutTrainingWrite, Retyping
  <2>3. PlansDerived'
    BY <2>1, <2>2, CommittedPlans DEF PlansDerived
  <2>4. QED BY <1>3, <2>1, <2>3, CommittedPlans, AllowedStays, PutKeeps
            DEF CompletionsInv, KeptStep, AllKept
<1>4. CASE ImportRow(r) \/ ImportReplacement(r)
  <2>1. PICK rows, repl, links : Collected(r, rows, repl, links) /\ Importing(r)
    BY Zenon, <1>4 DEF ImportRow, ImportReplacement
  <2>2. \A q \in Requests : pc[q] # "apply"
    BY <2>1, RetypesAlone DEF Importing, Retyping
  <2>3. PlansDerived'
    BY <2>1, <2>2, CollectedPlans DEF PlansDerived
  <2>4. QED BY <1>4, <2>1, <2>3, CollectedPlans, AllowedStays, ImportKeeps
            DEF CompletionsInv, KeptStep, AllKept
<1>5. QED BY <1>1, <1>2, <1>3, <1>4 DEF Writes

LEMMA RecomputesKept ==
  ASSUME TypeInv, TypeInv', CompletionsInv, NEW r \in Requests,
         WriteFails(r) \/ Evaluate(r) \/ Apply(r) \/ ApplyFails(r)
  PROVE  OpsAllowed' /\ PlansDerived' /\ KeptStep
<1>1. CASE WriteFails(r) \/ ApplyFails(r)
  <2>1. Fails(r)
    BY <1>1 DEF WriteFails, ApplyFails
  <2>2. SameTypes
    BY <2>1, FailsPlans, SameTables
  <2>3. PlansDerived'
    BY <2>1, <2>2, FailsPlans, OthersDerived DEF CompletionsInv
  <2>4. OpsAllowed' /\ KeptStep
    BY <2>1, FailsPlans, AllowedStays, KeptInPlace DEF CompletionsInv
  <2>5. QED BY <2>3, <2>4
<1>2. CASE Evaluate(r)
  <2>0. UNCHANGED <<workload, training, taken, nextId, members, call>> /\ pc[r] = "recompute"
        /\ pc = [x \in Requests |-> pc[x]] /\ plan = [x \in Requests |-> plan[x]]
    BY <1>2 DEF Evaluate, data, TypeInv, RequestsOK
  <2>1. PICK b \in todo[r] :
         IF Nested(b) THEN UNCHANGED <<pc, plan>>
         ELSE pc' = [pc EXCEPT ![r] = "apply"] /\ plan' = [plan EXCEPT ![r] = PlanBatch(b)]
    BY <1>2 DEF Evaluate
  <2>2. b \in Batches
    BY DEF TypeInv, RequestsOK, RequestOK
  <2>3. SameTypes /\ KeptStep
    BY <2>0, SameTables, KeptInPlace
  <2>4. CASE Nested(b)
    <3>1. UNCHANGED <<pc, plan>>
      BY <2>1, <2>4
    <3>2. PlansDerived' /\ OpsAllowed'
      BY <2>0, <2>3, <3>1, OthersDerived, AllowedStays DEF CompletionsInv
    <3>3. QED BY <2>3, <3>2
  <2>5. CASE ~Nested(b)
    <3>1. pc' = [pc EXCEPT ![r] = "apply"] /\ plan' = [plan EXCEPT ![r] = PlanBatch(b)]
      BY <2>1, <2>5
    <3>2. PICK p : p = PlanBatch(b)
      OBVIOUS
    <3>3. PlanOK(p) /\ DerivedIds(p)
      BY <2>2, <3>2, PlanBatchType, EvaluateDerived DEF TypeInv
    <3>4. DerivedIds(p)'
      BY <2>3, <3>3, DerivedStays
    <3>5. ASSUME NEW q \in Requests, pc'[q] = "apply" PROVE DerivedIds(plan[q])'
      <4>1. CASE q = r
        <5>1. plan'[q] = p
          BY <2>0, <3>1, <3>2, <4>1
        <5>2. QED BY <3>4, <5>1
      <4>2. CASE q # r
        <5>1. pc[q] = "apply" /\ plan'[q] = plan[q]
          BY <2>0, <3>1, <3>5, <4>2
        <5>2. PlanOK(plan[q]) /\ DerivedIds(plan[q])
          BY <5>1 DEF TypeInv, RequestsOK, RequestOK, CompletionsInv, PlansDerived
        <5>3. PICK x : x = plan[q]
          OBVIOUS
        <5>4. DerivedIds(x)'
          BY <2>3, <5>2, <5>3, DerivedStays
        <5>5. QED BY <5>1, <5>3, <5>4
      <4>3. QED BY <4>1, <4>2
    <3>6. PlansDerived'
      BY <3>5 DEF PlansDerived
    <3>7. \A q \in Requests : pc'[q] = "write" => pc[q] = "write" /\ call'[q].op = call[q].op
      BY <2>0, <3>1
    <3>8. OpsAllowed'
      BY <2>0, <3>7, AllowedStays DEF CompletionsInv
    <3>9. QED BY <2>3, <3>6, <3>8
  <2>6. QED BY <2>4, <2>5
<1>3. CASE Apply(r)
  <2>1. /\ pc[r] = "apply" /\ Continues(r, todo[r] \ {plan[r].batch})
        /\ plan' = [x \in Requests |-> IF x = r THEN None ELSE plan[x]]
        /\ UNCHANGED <<workload, call>>
    BY <1>3, ApplyFacts
  <2>2. /\ pc'[r] \in {"recompute", "done"} /\ \A q \in Requests : q # r => pc'[q] = pc[q]
    BY <2>1 DEF Continues, TypeInv, RequestsOK
  <2>3. PlansDerived'
    BY <1>3, <2>1, <2>2, ApplyMoves, OthersDerived DEF CompletionsInv
  <2>4. \A q \in Requests : pc'[q] = "write" => pc[q] = "write" /\ call'[q].op = call[q].op
    BY <2>1, <2>2
  <2>5. OpsAllowed'
    BY <2>1, <2>4, AllowedStays DEF CompletionsInv
  <2>6. DerivedIds(plan[r])
    BY <2>1 DEF CompletionsInv, PlansDerived
  <2>7. KeptStep
    BY <1>3, <2>6, ApplyMoves DEF KeptStep
  <2>8. QED BY <2>3, <2>5, <2>7
<1>4. QED BY <1>1, <1>2, <1>3

LEMMA InitCompletions == Init => CompletionsInv
BY InitInv DEF Init, CompletionsInv, OpsAllowed, PlansDerived

LEMMA NextCompletions ==
  ASSUME Calm, CompletionsInv, [Next]_vars
  PROVE  CompletionsInv' /\ (vars' = vars \/ KeptStep)
<1>1. CatalogueInv' /\ TypeInv /\ TypeInv'
  BY NextInv DEF CompletionsInv, CatalogueInv
<1>2. CASE UNCHANGED vars
  <2>1. UNCHANGED <<workload, training, taken, nextId, pc, call, plan>>
    BY <1>2 DEF vars
  <2>2. OpsAllowed' /\ PlansDerived'
    BY <2>1 DEF CompletionsInv, OpsAllowed, PlansDerived, DerivedIds, OfType, Existing, Mix
  <2>3. QED BY <1>1, <1>2, <2>2 DEF CompletionsInv
<1>3. ASSUME NEW r \in Requests,
             Reads(r) \/ Writes(r) \/ WriteFails(r) \/ Evaluate(r) \/ Apply(r) \/ ApplyFails(r)
      PROVE  OpsAllowed' /\ PlansDerived' /\ KeptStep
  BY <1>1, <1>3, ReadsKept, WritesKept, RecomputesKept
<1>4. QED BY <1>1, <1>2, <1>3 DEF Next, CompletionsInv

\* Editing, retyping, renaming, moving and merging trainings, importing them and
\* recomputing their parents lose no completion that a learner earned; provided that
\* nothing retypes or retitles a training while a plan made of its rows waits to be
\* applied: applyPlan of src/src/lib/olx.ts addresses rows by id.
THEOREM CompletionsStay == ASSUME Calm PROVE Spec => CompletionsKept
<1>1. Init => CompletionsInv
  BY InitCompletions
<1>2. CompletionsInv /\ [Next]_vars => CompletionsInv'
  BY NextCompletions
<1>3. ASSUME CompletionsInv, [Next]_vars
      PROVE  [(\A r \in Requests : ~(DeleteTakenWrite(r) \/ DeleteTrainingWrite(r)
                            \/ DeleteGroupWrite(r))) =>
       \A t \in taken : t.title \notin OfType("OLX") =>
         \E u \in taken' : u.id = t.id /\ u.who = t.who /\ u.title \in DOMAIN training']_vars
  <2>1. \A u \in taken' : u.title \in DOMAIN training'
    BY <1>3, NextInv DEF CompletionsInv, CatalogueInv, TypeInv, TablesOK, Existing
  <2>2. QED BY <1>3, <2>1, NextCompletions DEF KeptStep
<1>4. QED BY <1>1, <1>2, <1>3, PTL DEF Spec, CompletionsKept
=============================================================================
