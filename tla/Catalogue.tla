------------------------------ MODULE Catalogue ------------------------------
(***************************************************************************)
(* The training catalogue, the completions learners hold, and the          *)
(* completions of OLX parents that the server derives from those of their  *)
(* sub-items.  A handler reads and validates, writes (often in one         *)
(* transaction), then recomputes the parents it affected, outside the      *)
(* transaction: each recomputation is a read that draws up a plan and the  *)
(* writes that apply it, addressed by row id.                              *)
(*                                                                         *)
(* A training title is a spelling; what is counted is the pair of a Full   *)
(* Title and a type.  certification[] and replacedBy[] hold titles with no *)
(* foreign key behind them; every other reference cascades.  Links, product*)
(* types, the "not needed" flag and the expiry date (completion plus two   *)
(* years) are left out.                                                    *)
(*                                                                         *)
(* "alone", "doubtful" and "typed" are history, read by the properties     *)
(* alone.                                                                  *)
(***************************************************************************)
EXTENDS Naturals, Sequences, FiniteSets

CONSTANTS
  Titles,     \* trainingTitle, the primary key
  FullTitles,
  Learners,
  Dates,      \* completion dates, numbered
  Requests,   \* the requests of a behaviour, each made at most once
  Workloads,  \* the mixes of operations, initial catalogues, names and
              \* files to consider, by name
  None,
  Keep,       \* a key the body does not have, or a column that is not mapped
  Blank       \* a column that is mapped, in a row that leaves it empty

Types == {"Certification", "Accreditation", "InstructorLedTraining", "OLX",
          "OLXSubItem"}
LegacyEligible == {"Certification", "Accreditation"}
CertBearing == {"InstructorLedTraining", "OLX"}
Classification == {"type", "product", "function"}

\* "unset": the columns that hold a placeholder nobody chose.
Training == [full: FullTitles, type: Types, cert: SUBSET Titles,
             legacy: BOOLEAN, repl: SUBSET Titles,
             unset: SUBSET Classification, incomplete: BOOLEAN]
Taken == [id: Nat, who: Learners, title: Titles, date: Dates]

VARIABLES
  workload,
  training, \* training_data: a function on the titles that exist
  members,  \* olx_sub_item_relations: pairs <<parent, sub-item>>
  taken,    \* training_taken
  nextId,
  \* A request in progress: where it is, what it was called with and has read, the
  \* recomputations it has left, and the plan it is about to apply.
  pc, call, todo, plan,
  alone,    \* the request nothing has overlapped, if any
  doubtful, \* parents no undisturbed recomputation has visited since they were
            \* regrouped, written by hand, or left to overlapping requests
  typed     \* titles that were missing when a list naming them was stored

vars == <<workload, training, members, taken, nextId, pc, call, todo, plan, alone,
          doubtful, typed>>
data == <<training, members, taken, nextId, doubtful, typed>>

ASSUME ParamAssumption ==
  /\ IsFiniteSet(Titles) /\ IsFiniteSet(Learners) /\ IsFiniteSet(Dates)
  /\ Dates \subseteq Nat /\ None \notin Titles
  /\ Keep \notin Titles \cup FullTitles \cup Types /\ Keep \notin BOOLEAN
  /\ \A T \in SUBSET Titles, l \in BOOLEAN : Keep \notin {T, [legacy |-> l, repl |-> T]}
  /\ \A W \in SUBSET Learners : W # Keep
  /\ Blank \notin Types \cup {Keep}

\* A row of a catalogue file.  "given" and "blank" are the classification columns
\* with a value and without.
Cells == [title: Titles, full: FullTitles, type: Types \cup {Keep, Blank},
          parents: SUBSET Titles, cert: {Keep} \cup SUBSET Titles,
          legacy: BOOLEAN \cup {Keep}, repl: {Keep} \cup SUBSET Titles,
          given: SUBSET Classification, blank: SUBSET Classification]

\* A catalogue: its keys refer to rows, and the rows of training_taken have ids.
Tables(c) ==
  LET titles == DOMAIN c.training IN
  /\ titles \subseteq Titles /\ c.training \in [titles -> Training]
  /\ c.members \subseteq titles \X titles
  /\ c.taken \subseteq Taken /\ \A t \in c.taken : t.title \in titles
  /\ \A t, u \in c.taken : t.id = u.id => t = u
  /\ IsFiniteSet(c.taken) /\ \A t \in c.taken : t.id <= Cardinality(c.taken)

ASSUME WorkloadsAssumption ==
  \A w \in DOMAIN Workloads :
    /\ Workloads[w].overlap \in BOOLEAN /\ Workloads[w].names \subseteq Titles
    /\ \A c \in Workloads[w].catalogues : Tables(c)
    /\ \A file \in Workloads[w].files : file \in Seq(Cells)

Mix == Workloads[workload]

Existing == DOMAIN training
OfType(ty) == {t \in Existing : training[t].type = ty}
Group(f, ty) == {t \in OfType(ty) : training[t].full = f}
Subs(p) == {m[2] : m \in {x \in members : x[1] = p}}
Parents(S) == {m[1] : m \in {x \in members : x[2] \in S}}

-----------------------------------------------------------------------------
(* The rule: a parent is held once every sub-item is, under any spelling. *)

Groups(p) ==
  {Group(training[s].full, training[s].type) \cap Subs(p) : s \in Subs(p)}

Rows(who, titles) == {t \in taken : t.who = who /\ t.title \in titles}

Done(who, p) == \A g \in Groups(p) : Rows(who, g) # {}

Latest(rows) == CHOOSE d \in {t.date : t \in rows} : \A t \in rows : d >= t.date

\* planOne: what one learner's rows imply for one parent.
PlanOne(who, p) ==
  LET rows == Rows(who, {p})
      latest == Latest(Rows(who, Subs(p)))
      kept == CHOOSE t \in rows : \A u \in rows :
                t.date > u.date \/ (t.date = u.date /\ t.id <= u.id)
  IN  IF ~Done(who, p)
        THEN [creates |-> {}, updates |-> {}, deletes |-> {t.id : t \in rows}]
      ELSE IF rows = {}
        THEN [creates |-> {[who |-> who, title |-> p, date |-> latest]},
              updates |-> {}, deletes |-> {}]
      ELSE [creates |-> {},
            updates |-> IF kept.date = latest THEN {}
                        ELSE {[id |-> kept.id, date |-> latest]},
            deletes |-> {t.id : t \in {u \in rows \ {kept} : u.date # latest}}]

\* loadParentDefs: only an OLX that has sub-items is ever recomputed.
Active(ps) == {p \in ps \cap OfType("OLX") : Subs(p) # {}}

\* Variant: the learners whose only row is the parent's are not visited.
SubItemHolders(p) == {t.who : t \in {u \in taken : u.title \in Subs(p)}}

\* recomputeAllStudentsForParent: whoever holds a sub-item, or a stale parent row.
Holders(p) == {t.who : t \in {u \in taken : u.title \in Subs(p) \cup {p}}}

Work(b) == {w \in Learners \X Active(b.parents) :
              w[1] \in (IF b.learners = Keep THEN Holders(w[2]) ELSE b.learners)}

\* recomputeBatch: one plan for the batch, drawn up from one reading.
PlanBatch(b) ==
  LET plans == {PlanOne(w[1], w[2]) : w \in Work(b)}
  IN  [batch |-> b,
       creates |-> UNION {x.creates : x \in plans},
       updates |-> UNION {x.updates : x \in plans},
       deletes |-> UNION {x.deletes : x \in plans}]

\* A parent of the batch is another's sub-item: evaluated one parent at a time
\* (recomputeParentsForStudentSequential), each from a reading of its own.
Nested(b) == \E p, q \in Active(b.parents) : p \in Subs(q)
OneByOne(b) == {[parents |-> {p}, learners |-> b.learners] : p \in b.parents}

-----------------------------------------------------------------------------
(* Keeping references in step. *)

\* rewriteTitleReferences: repoint (to = {title}) or scrub (to = {}).
Rewrite(tr, from, to) ==
  LET remap(list) == IF from \in list THEN (list \ {from}) \cup to ELSE list
  IN  [t \in DOMAIN tr |-> IF t = from THEN tr[t] ELSE
        [tr[t] EXCEPT !.cert = remap(@), !.repl = remap(@)]]

\* The same of several titles, scrubbed one after the other.
Scrubbed(tr, T) ==
  [t \in DOMAIN tr |-> [tr[t] EXCEPT !.cert = @ \ (T \ {t}), !.repl = @ \ (T \ {t})]]

\* sanitizeLegacyFields, reading the table of the moment.
Sanitized(t, ty, legacy, repl) ==
  IF ty \in LegacyEligible /\ legacy
    THEN [legacy |-> TRUE,
          repl |-> {x \in repl \ {t} : x \in UNION {OfType(e) : e \in LegacyEligible}}]
    ELSE [legacy |-> FALSE, repl |-> {}]

\* syncMemberships: the relations the titles T keep on either side, given their
\* type; of several, none is related to another anew.
Sync(ms, T, ty, subs, parents) ==
  LET above == {m \in ms : m[1] \in T}
      below == {m \in ms : m[2] \in T}
      newAbove == IF ty # "OLX" THEN {} ELSE IF subs = Keep THEN above ELSE T \X subs
      newBelow == IF ty # "OLXSubItem" THEN {}
                  ELSE IF parents = Keep THEN below ELSE parents \X T
  IN  [members |-> (ms \ (above \cup below)) \cup newAbove \cup newBelow,
       affected |-> {m[1] : m \in (below \ newBelow) \cup (newBelow \ below)
                                  \cup (above \ newAbove) \cup (newAbove \ above)}]

\* expandFullTitles: the spellings behind the Full Titles a picker offers.
Expanded(fulls, types, except) ==
  {t \in Existing : training[t].full \in fulls /\ training[t].type \in types}
    \ except

\* Variant: the completions stay.
WithoutRelations(T) ==
  /\ members' = {m \in members : m[1] \notin T /\ m[2] \notin T}
  /\ taken' = taken

\* ON DELETE CASCADE.
WithoutTitles(T) ==
  /\ members' = {m \in members : m[1] \notin T /\ m[2] \notin T}
  /\ taken' = {x \in taken : x.title \notin T}

-----------------------------------------------------------------------------
(* What the administrator's scan reports. *)

\* scanOlxParentState: the groups a learner holds of those a parent requires.
HeldGroups(who, p) == {g \in Groups(p) : Rows(who, g) # {}}

Scanned == {s \in Learners \X Active(OfType("OLX")) :
              Rows(s[1], Subs(s[2]) \cup {s[2]}) # {}}

Owed == {s \in Scanned : HeldGroups(s[1], s[2]) = Groups(s[2]) /\ Rows(s[1], {s[2]}) = {}}

Unsupported ==
  {s \in Scanned : HeldGroups(s[1], s[2]) # Groups(s[2]) /\ Rows(s[1], {s[2]}) # {}}

\* scanDanglingReferences: the targets that name no row.
Dangling == (UNION {training[t].cert \cup training[t].repl : t \in Existing}) \ Existing

\* scanLeadsToUneven: groups whose members store different lists.
Uneven == {g \in FullTitles \X CertBearing :
             \E t, u \in Group(g[1], g[2]) : training[t].cert # training[u].cert}

\* fetchLeadsToGroups: what a group leads to, whichever member says so, in every
\* spelling of the target.
LeadsTo(f, ty) ==
  UNION {IF c \in Existing THEN Group(training[c].full, training[c].type) ELSE {c} :
           c \in UNION {training[t].cert : t \in Group(f, ty)}}

-----------------------------------------------------------------------------
(* A catalogue in order. *)

\* Who holds a parent's completion has earned it, whoever has earned it holds it,
\* and it bears the date of the latest sub-item.  A parent of a parent may need
\* another: it is not promised anything.
HonestFor(w, p) ==
  Subs(p) \cap OfType("OLX") # {} \/
  /\ <<w, p>> \notin Owed \cup Unsupported
  /\ \A t \in Rows(w, {p}) : t.date = Latest(Rows(w, Subs(p)))

\* The markers of a training fit its type and one another.
Fits(row) ==
  /\ row.type = "OLXSubItem" => row.cert = {}
  /\ row.legacy => row.type \in LegacyEligible
  /\ ~row.legacy => row.repl = {}

\* An entry that does not await review has the columns somebody chose.
Reviewed(row) == ~row.incomplete => row.unset = {}

InOrder ==
  /\ \A p \in Active(Existing), w \in Learners : HonestFor(w, p)
  /\ \A m \in members : m[1] \in OfType("OLX")
  /\ Dangling = {}
  /\ \A t \in Existing :
       Fits(training[t]) /\ Reviewed(training[t]) /\ t \notin training[t].repl

-----------------------------------------------------------------------------
(* Requests. *)

NoCall == [op |-> None, body |-> None, seen |-> None]

InFlight == {r \in Requests : pc[r] \notin {"idle", "done"}}

\* A recomputation for all learners, or for some.
ForAll(ps) == {[parents |-> {p}, learners |-> Keep] : p \in ps}
\* Variant: only the parents the learner holds already.
ForHeld(w, ps) ==
  LET held == {p \in ps : Rows(w, {p}) # {}}
  IN  IF held = {} THEN {} ELSE {[parents |-> held, learners |-> {w}]}

ForOne(w, ps) == IF ps = {} THEN {} ELSE {[parents |-> ps, learners |-> {w}]}

Ready(r, op) == pc[r] = "idle" /\ op \in Mix.ops /\ (InFlight # {} => Mix.overlap)

\* The request has read and validated, and will write next.
Begin(r, op, body, seen) ==
  /\ pc' = [pc EXCEPT ![r] = "write"]
  /\ call' = [call EXCEPT ![r] = [op |-> op, body |-> body, seen |-> seen]]
  /\ alone' = IF InFlight = {} THEN {r} ELSE {}
  /\ doubtful' = IF InFlight = {} THEN doubtful ELSE Titles
  /\ UNCHANGED <<workload, training, members, taken, nextId, todo, plan, typed>>

Writing(r, op) == pc[r] = "write" /\ call[r].op = op

\* A request that has these recomputations left goes on with them.
Continues(r, batches) ==
  /\ pc' = [pc EXCEPT ![r] = IF batches = {} THEN "done" ELSE "recompute"]
  /\ todo' = [todo EXCEPT ![r] = batches]

\* The write is committed; what it affected is recomputed next.
Committed(r, batches) ==
  /\ Continues(r, batches)
  /\ UNCHANGED <<workload, call, plan, alone>>

\* The handler answers 500.
Fails(r) ==
  /\ pc' = [pc EXCEPT ![r] = "done"] /\ todo' = [todo EXCEPT ![r] = {}]
  /\ UNCHANGED <<workload, data, call, plan, alone>>

\* Init: one of the workload's catalogues, in order.
Init ==
  /\ workload \in DOMAIN Workloads
  /\ \E c \in Mix.catalogues :
       training = c.training /\ members = c.members /\ taken = c.taken
  /\ InOrder
  /\ nextId = Cardinality(taken) + 1
  /\ pc = [r \in Requests |-> "idle"] /\ call = [r \in Requests |-> NoCall]
  /\ todo = [r \in Requests |-> {}] /\ plan = [r \in Requests |-> None] /\ alone = {}
  /\ doubtful = {} /\ typed = {}

-----------------------------------------------------------------------------
(* Recomputation, after the write of whichever handler. *)

\* The reads of recomputeBatch, and the plan drawn up from them.
Evaluate(r) ==
  /\ pc[r] = "recompute"
  /\ \E b \in todo[r] :
       IF Nested(b)
         THEN /\ todo' = [todo EXCEPT ![r] = (@ \ {b}) \cup OneByOne(b)]
              /\ UNCHANGED <<pc, plan>>
         ELSE /\ pc' = [pc EXCEPT ![r] = "apply"]
              /\ plan' = [plan EXCEPT ![r] = PlanBatch(b)]
              /\ UNCHANGED todo
  /\ UNCHANGED <<workload, data, call, alone>>

Redated(row, d) == [id |-> row.id, who |-> row.who, title |-> row.title, date |-> d]

\* A row as a plan's updates leave it.
Revised(p, t) ==
  IF \E u \in p.updates : u.id = t.id
    THEN Redated(t, (CHOOSE u \in p.updates : u.id = t.id).date) ELSE t

\* applyPlan.  Updates and deletes of rows that are gone do nothing.
Apply(r) ==
  LET p == plan[r]
      b == p.batch
  IN
  /\ pc[r] = "apply"
  /\ \A c \in p.creates : c.title \in Existing
  /\ \E ids \in {f \in [p.creates -> nextId..nextId + Cardinality(p.creates) - 1] :
                   \A c, d \in p.creates : f[c] = f[d] => c = d} :
       taken' = {Revised(p, t) : t \in {u \in taken : u.id \notin p.deletes}}
                \cup {[id |-> ids[c], who |-> c.who, title |-> c.title, date |-> c.date] :
                   c \in p.creates}
  /\ nextId' = nextId + Cardinality(p.creates)
  /\ doubtful' = IF r \in alone /\ b.learners = Keep
                   THEN doubtful \ Active(b.parents) ELSE doubtful
  /\ Continues(r, todo[r] \ {b})
  /\ plan' = [plan EXCEPT ![r] = None]
  /\ UNCHANGED <<workload, training, members, call, alone, typed>>

\* A created row would name a training deleted since: the handler answers 500,
\* and the parents it has not reached are left as they are.
ApplyFails(r) ==
  /\ pc[r] = "apply"
  /\ \E c \in plan[r].creates : c.title \notin Existing
  /\ Fails(r)

-----------------------------------------------------------------------------
Completions == {"PostTaken", "PatchTaken", "DeleteTaken"}

(* Completions: POST /api/training-taken, PATCH and DELETE on one row. *)

PostTaken(r) ==
  /\ Ready(r, "PostTaken")
  /\ \E w \in Learners, t \in Existing, d \in Dates :
       /\ ~\E x \in Rows(w, {t}) : x.date = d
       /\ Begin(r, "PostTaken", [who |-> w, title |-> t, date |-> d], None)

\* Rows of an OLX parent may be written by hand too.
PostTakenWrite(r) ==
  LET b == call[r].body IN
  /\ Writing(r, "PostTaken") /\ b.title \in Existing
  /\ taken' = taken \cup {[id |-> nextId, who |-> b.who, title |-> b.title,
                           date |-> b.date]}
  /\ nextId' = nextId + 1
  /\ doubtful' = doubtful \cup {b.title}
  /\ Committed(r, ForOne(b.who, Parents({b.title})))
  /\ UNCHANGED <<training, members, typed>>

PatchTaken(r) ==
  /\ Ready(r, "PatchTaken")
  /\ \E x \in taken, d \in Dates : Begin(r, "PatchTaken", [date |-> d], x)

PatchTakenWrite(r) ==
  LET x == call[r].seen IN
  /\ Writing(r, "PatchTaken") /\ \E y \in taken : y.id = x.id
  /\ taken' = {IF y.id = x.id THEN Redated(y, call[r].body.date) ELSE y : y \in taken}
  /\ doubtful' = doubtful \cup {x.title}
  /\ Committed(r, ForOne(x.who, Parents({x.title})))
  /\ UNCHANGED <<training, members, nextId, typed>>

DeleteTaken(r) ==
  /\ Ready(r, "DeleteTaken")
  /\ \E x \in taken : Begin(r, "DeleteTaken", None, x)

DeleteTakenWrite(r) ==
  LET x == call[r].seen IN
  /\ Writing(r, "DeleteTaken") /\ \E y \in taken : y.id = x.id
  /\ taken' = {y \in taken : y.id # x.id}
  /\ doubtful' = doubtful \cup {x.title}
  /\ Committed(r, ForOne(x.who, Parents({x.title})))
  /\ UNCHANGED <<training, members, nextId, typed>>

-----------------------------------------------------------------------------
(* The catalogue, one training at a time: POST, PUT and DELETE. *)

\* What the pickers offer: sub-items to an OLX, OLX parents to a sub-item, and
\* the Certifications and Accreditations there are.
SubItems == OfType("OLXSubItem")
Marks == UNION {OfType(e) : e \in LegacyEligible}

PostTraining(r) ==
  /\ Ready(r, "PostTraining")
  /\ \E t \in Mix.names, f \in FullTitles, ty \in Types :
     \E subs \in IF ty = "OLX" THEN SUBSET SubItems ELSE {{}},
        parents \in IF ty = "OLXSubItem" THEN SUBSET OfType("OLX") ELSE {{}},
        certs \in IF ty \in CertBearing
                     THEN SUBSET {training[c].full : c \in OfType("Certification")} ELSE {{}},
        repl \in IF ty \in LegacyEligible
                    THEN SUBSET {training[c].full : c \in Marks} ELSE {{}} :
       LET marks == Sanitized(t, ty, TRUE, Expanded(repl, LegacyEligible, {}))
       IN Begin(r, "PostTraining", [title |-> t, subs |-> subs, parents |-> parents],
            [full |-> f, type |-> ty, legacy |-> repl # {}, repl |-> marks.repl,
             cert |-> Expanded(certs, {"Certification"}, Group(f, ty)),
             unset |-> {}, incomplete |-> FALSE])

PostTrainingWrite(r) ==
  LET b == call[r].body  row == call[r].seen IN
  /\ Writing(r, "PostTraining")
  /\ b.title \notin Existing /\ b.subs \cup b.parents \subseteq Existing
  /\ training' = [t \in Existing \cup {b.title} |->
                    IF t = b.title THEN row ELSE training[t]]
  /\ members' = members \cup ({b.title} \X b.subs) \cup (b.parents \X {b.title})
  /\ Committed(r, ForAll(IF row.type = "OLX" THEN {b.title} ELSE b.parents))
  /\ UNCHANGED <<taken, nextId, doubtful, typed>>

\* The keys a PUT may carry, a few at a time.  "choose": product and function,
\* which make a difference to an entry that awaits review.
NoBody == [title |-> Keep, full |-> Keep, type |-> Keep, subs |-> Keep,
           parents |-> Keep, cert |-> Keep, legacy |-> Keep, repl |-> Keep,
           choose |-> {}, complete |-> FALSE]

With(b, key, value) == [b EXCEPT ![key] = value]

PutBodies(t) ==
  {With(With(NoBody, "title", n), "full", f) :
     n \in (Mix.names \ Existing) \cup {Keep}, f \in FullTitles \cup {Keep}}
  \cup {With(With(NoBody, "type", ty), "subs", s) :
          ty \in Types, s \in {Keep} \cup SUBSET (SubItems \ {t})}
  \cup {With(With(NoBody, "type", ty), "parents", p) :
          ty \in {Keep, "OLXSubItem"}, p \in SUBSET (OfType("OLX") \ {t})}
  \cup {With(With(With(NoBody, "title", n), "legacy", l), "repl", x) :
          n \in (Mix.names \ Existing) \cup {Keep}, l \in BOOLEAN,
          x \in {Keep} \cup SUBSET (Marks \ {t})}
  \cup {With(NoBody, "cert", x) : x \in SUBSET (OfType("Certification") \ {t})}
  \cup {With(With(With(NoBody, "type", ty), "choose", c), "complete", done) :
          ty \in Types \cup {Keep}, done \in BOOLEAN,
          c \in IF training[t].incomplete THEN SUBSET {"product", "function"} ELSE {}}

\* Variant: the type is enough.
TypeGate(b) == b.complete => b.type # Keep

\* An entry awaiting review is completed by naming all three, or not at all.
CompletionGate(b) ==
  b.complete => b.type # Keep /\ {"product", "function"} \subseteq b.choose

\* The reads and checks made before the transaction is opened.
PutTraining(r) ==
  /\ Ready(r, "PutTraining")
  /\ \E t \in Existing : \E b \in PutBodies(t) :
       LET row == training[t]
           target == IF b.title = Keep THEN t ELSE b.title
           type == IF b.type = Keep THEN row.type ELSE b.type
           marks == Sanitized(target, type,
                      IF b.legacy = Keep THEN row.legacy ELSE b.legacy,
                      IF b.repl = Keep THEN row.repl ELSE b.repl)
           none == [legacy |-> FALSE, repl |-> {}]
       IN
       /\ CompletionGate(b)
       /\ Begin(r, "PutTraining", b,
            [title |-> t, target |-> target,
             marks |-> IF b.legacy # Keep \/ b.repl # Keep THEN marks
                       ELSE IF b.type \notin LegacyEligible \cup {Keep} THEN none
                       ELSE IF b.title # Keep /\ row.legacy THEN marks ELSE Keep,
             cert |-> IF type = "OLXSubItem" THEN {} ELSE b.cert])

\* Variant: the row is deleted and created again, and what named it cascades.
Recreated(from, to) ==
  [training |-> [t \in (Existing \ {from}) \cup {to} |->
                   training[IF t = to THEN from ELSE t]],
   members |-> {m \in members : from = to \/ from \notin {m[1], m[2]}},
   taken |-> {x \in taken : from = to \/ x.title # from}]

Name(from, to, t) == IF t = from THEN to ELSE t
Retitled(row, t) == [id |-> row.id, who |-> row.who, title |-> t, date |-> row.date]

\* ON UPDATE CASCADE carries every foreign key; the two lists are rewritten.
Renamed(from, to) ==
  LET name(t) == Name(from, to, t)
      carried == [t \in {name(u) : u \in Existing} |->
                    training[IF t = to THEN from ELSE t]]
  IN  [training |-> IF from = to THEN training ELSE Rewrite(carried, from, {to}),
       members |-> {<<name(m[1]), name(m[2])>> : m \in members},
       taken |-> {Retitled(x, name(x.title)) : x \in taken}]

\* A row whose classification columns are given values by an administrator.
Chosen(row, b, fields) ==
  [row EXCEPT !.unset = @ \ (fields \cup IF b.type = Keep THEN {} ELSE {"type"})]

\* A column whose key the body does not have stays as it is.
Or(value, old) == IF value = Keep THEN old ELSE value

\* The row that a PUT leaves.
PutRow(row, b, s) ==
  Chosen([full |-> Or(b.full, row.full), type |-> Or(b.type, row.type),
          cert |-> Or(s.cert, row.cert),
          legacy |-> IF s.marks = Keep THEN row.legacy ELSE s.marks.legacy,
          repl |-> IF s.marks = Keep THEN row.repl ELSE s.marks.repl,
          unset |-> row.unset, incomplete |-> row.incomplete /\ ~b.complete],
         b, b.choose)

\* The transaction: key, columns and memberships.
PutTrainingWrite(r) ==
  LET b == call[r].body
      s == call[r].seen
      moved == Renamed(s.title, s.target)
      row == moved.training[s.target]
      new == PutRow(row, b, s)
      sync == Sync(moved.members, {s.target}, new.type, b.subs, b.parents)
      regrouped == IF new.full # row.full \/ new.type # row.type
                     THEN {m[1] : m \in {x \in moved.members : x[2] = s.target}}
                     ELSE {}
  IN
  /\ Writing(r, "PutTraining")
  /\ s.title \in Existing /\ (s.target # s.title => s.target \notin Existing)
  /\ training' = [moved.training EXCEPT ![s.target] = new]
  /\ members' = sync.members
  /\ members' \subseteq (DOMAIN training') \X (DOMAIN training')
  /\ taken' = moved.taken
  /\ doubtful' = IF r \in alone
       THEN {Name(s.title, s.target, p) : p \in doubtful} \cup
            (regrouped \cap {m[1] : m \in sync.members})
       ELSE doubtful
  /\ Committed(r, ForAll(sync.affected \cup IF s.target = s.title THEN {} ELSE {s.target}))
  /\ UNCHANGED <<nextId, typed>>

\* The parents to recompute are read before the row goes.
DeleteTraining(r) ==
  /\ Ready(r, "DeleteTraining")
  /\ \E t \in Existing :
       Begin(r, "DeleteTraining", [title |-> t], [parents |-> Parents({t})])

DeleteTrainingWrite(r) ==
  LET t == call[r].body.title IN
  /\ Writing(r, "DeleteTraining") /\ t \in Existing
  /\ training' = Scrubbed([u \in Existing \ {t} |-> training[u]], {t})
  /\ WithoutTitles({t})
  /\ Committed(r, ForAll(call[r].seen.parents))
  /\ UNCHANGED <<nextId, doubtful, typed>>

-----------------------------------------------------------------------------
(* The catalogue, one Full Title at a time: PATCH and DELETE. *)

\* A Full Title of several types needs a scope before its columns are set.
Scopes(f) ==
  LET types == {training[t].type : t \in {u \in Existing : training[u].full = f}}
  IN  IF Cardinality(types) = 1 THEN types \cup {Keep} ELSE types

MembersOf(f, scope) ==
  {t \in Existing : training[t].full = f /\ scope \in {Keep, training[t].type}}

InUse == {training[t].full : t \in Existing}

\* setCertificationFullTitles, setSubItemFullTitles, setParentFullTitles, legacy
\* with its replacements, and the two columns that classify: each resolved to
\* titles when the request is validated.
PatchBodies(f, scope) ==
  LET group == MembersOf(f, scope)
      types == {training[t].type : t \in group}
      fulls(ty) == SUBSET {training[t].full : t \in OfType(ty)}
  IN  {With(NoBody, "cert", Expanded(c, {"Certification"},
                                 UNION {Group(f, ty) : ty \in types})) :
         c \in IF types \cap CertBearing = {} THEN {} ELSE fulls("Certification")}
      \cup {With(NoBody, "subs", Expanded(c, {"OLXSubItem"}, Group(f, "OLX"))) :
              c \in IF types = {"OLX"} THEN fulls("OLXSubItem") ELSE {}}
      \cup {With(NoBody, "parents", Expanded(c, {"OLX"}, Group(f, "OLXSubItem"))) :
              c \in IF types = {"OLXSubItem"} THEN fulls("OLX") ELSE {}}
      \cup {With(With(NoBody, "legacy", l), "repl",
                  IF l THEN Expanded(c, LegacyEligible, {}) ELSE {}) :
              l \in BOOLEAN, c \in fulls("Certification")}
      \cup {With(NoBody, "choose", c) : c \in SUBSET {"product", "function"}}

\* The reads, the checks and the expansions.
PatchGroup(r) ==
  /\ Ready(r, "PatchGroup")
  /\ \E f \in InUse : \E scope \in Scopes(f) : \E b \in PatchBodies(f, scope) :
       Begin(r, "PatchGroup", b, [t \in MembersOf(f, scope) |-> training[t].type])

\* The row that a PATCH leaves, given the type it was read with.
PatchRow(t, ty, b) ==
  LET row == training[t]
      marks == IF b.legacy # Keep /\ ty \in LegacyEligible
                 THEN Sanitized(t, ty, b.legacy, b.repl)
                 ELSE [legacy |-> row.legacy, repl |-> row.repl]
  IN  Chosen([full |-> row.full, type |-> row.type,
              cert |-> IF b.cert # Keep /\ ty \in CertBearing THEN b.cert ELSE row.cert,
              legacy |-> marks.legacy, repl |-> marks.repl,
              unset |-> row.unset, incomplete |-> row.incomplete], b, b.choose)

\* The transaction.  The members and their types are those read before it.
PatchGroupWrite(r) ==
  LET b == call[r].body
      seen == call[r].seen
      group == DOMAIN seen
      marked == {t \in group : seen[t] \in LegacyEligible}
      sync == Sync(members, group, IF b.subs = Keep THEN "OLXSubItem" ELSE "OLX",
                   b.subs, b.parents)
  IN
  /\ Writing(r, "PatchGroup")
  /\ b.legacy # Keep => marked \subseteq Existing
  /\ training' = [t \in Existing |->
       IF t \in group THEN PatchRow(t, seen[t], b) ELSE training[t]]
  /\ IF b.subs = Keep /\ b.parents = Keep
       THEN members' = members /\ Committed(r, {})
       ELSE /\ members' = sync.members /\ members' \subseteq Existing \X Existing
            /\ Committed(r, ForAll(sync.affected))
  /\ UNCHANGED <<taken, nextId, doubtful, typed>>

\* Moving titles to another Full Title regroups them; nothing is recomputed.
Regrouped(T, f) ==
  /\ training' = [t \in Existing |->
       IF t \in T THEN [training[t] EXCEPT !.full = f] ELSE training[t]]
  /\ doubtful' = doubtful \cup Parents(T)
  /\ UNCHANGED <<members, taken, nextId, typed>>

\* rename: to a Full Title nothing else has.
RenameGroup(r) ==
  /\ Ready(r, "RenameGroup")
  /\ \E f \in InUse, g \in FullTitles \ InUse :
       Begin(r, "RenameGroup", [from |-> f, to |-> g], None)

\* mergeInto: to a Full Title that something has.
MergeGroup(r) ==
  /\ Ready(r, "MergeGroup")
  /\ \E f, g \in InUse : f # g /\ Begin(r, "MergeGroup", [from |-> f, to |-> g], None)

RegroupWrite(r) ==
  \E op \in {"RenameGroup", "MergeGroup"} :
    /\ Writing(r, op)
    /\ Regrouped(MembersOf(call[r].body.from, Keep), call[r].body.to)
    /\ Committed(r, {})

\* moveAliases: some of the spellings, each of them under this Full Title.
MoveAliases(r) ==
  /\ Ready(r, "MoveAliases")
  /\ \E f \in InUse, g \in FullTitles : \E T \in (SUBSET MembersOf(f, Keep)) \ {{}} :
       f # g /\ Begin(r, "MoveAliases", [titles |-> T, to |-> g], None)

MoveAliasesWrite(r) ==
  /\ Writing(r, "MoveAliases")
  /\ Regrouped(call[r].body.titles \cap Existing, call[r].body.to)
  /\ Committed(r, {})

\* DELETE: the members and their parents are read before the transaction.
DeleteGroup(r) ==
  /\ Ready(r, "DeleteGroup")
  /\ \E f \in InUse :
       LET group == MembersOf(f, Keep) IN
       Begin(r, "DeleteGroup", [full |-> f],
             [group |-> group, parents |-> Parents(group) \ group])

\* deleteMany by Full Title; the scrub names the members read before.
DeleteGroupWrite(r) ==
  LET s == call[r].seen
      gone == MembersOf(call[r].body.full, Keep)
  IN
  /\ Writing(r, "DeleteGroup")
  /\ training' = Scrubbed([t \in Existing \ gone |-> training[t]], s.group)
  /\ WithoutTitles(gone)
  /\ Committed(r, ForAll(s.parents))
  /\ UNCHANGED <<nextId, doubtful, typed>>

-----------------------------------------------------------------------------
(* Clean-up: Reconcile OLX completions, and Level them up. *)

\* The list comes from an earlier scan, so it may name anything.
OlxBackfill(r) ==
  /\ Ready(r, "OlxBackfill")
  /\ \E ps \in (SUBSET OfType("OLX")) \ {{}} : Begin(r, "OlxBackfill", [parents |-> ps], None)

OlxBackfillWrite(r) ==
  /\ Writing(r, "OlxBackfill")
  /\ Committed(r, ForAll(call[r].body.parents))
  /\ UNCHANGED data

\* normaliseLeadsTo: the union of the group's lists to every member.
NormaliseLeadsTo(r) ==
  /\ Ready(r, "NormaliseLeadsTo")
  /\ \E f \in InUse, ty \in CertBearing :
       /\ Cardinality(Group(f, ty)) > 1
       /\ Begin(r, "NormaliseLeadsTo", [full |-> f, type |-> ty],
            [t \in Group(f, ty) |-> training[t].cert])

Levelled(lists) == UNION {lists[t] : t \in DOMAIN lists}

NormaliseLeadsToWrite(r) ==
  LET lists == call[r].seen
      union == Levelled(lists)
      stale == {t \in DOMAIN lists : lists[t] # union}
  IN
  /\ Writing(r, "NormaliseLeadsTo")
  /\ training' = [t \in Existing |->
       IF t \in stale THEN [training[t] EXCEPT !.cert = union] ELSE training[t]]
  /\ Committed(r, {})
  /\ UNCHANGED <<members, taken, nextId, doubtful, typed>>

-----------------------------------------------------------------------------
(* Import of a catalogue file, a row at a time and no transaction around them. *)

ImportCatalogue(r) ==
  /\ Ready(r, "ImportCatalogue")
  /\ \E file \in Mix.files :
       Begin(r, "ImportCatalogue", [rows |-> file], [repl |-> <<>>, links |-> {}])

Importing(r) == Writing(r, "ImportCatalogue")

\* The rows to come, and what the ones before leave for after the last.
Collected(r, rows, repl, links) ==
  /\ call' = [call EXCEPT ![r] = [op |-> "ImportCatalogue", body |-> [rows |-> rows],
                                  seen |-> [repl |-> repl, links |-> links]]]
  /\ UNCHANGED <<workload, pc, todo, plan, alone>>

\* What a row's cells, the stored row and the defaults make of it: "given" and
\* "blank" are the classification columns with a value and without.
Imported(row) ==
  LET exists == row.title \in Existing
      old == training[row.title]
      type == IF row.parents # {} THEN "OLXSubItem"
              ELSE IF row.type \in Types THEN row.type
              ELSE IF row.type = Blank /\ exists THEN old.type ELSE "Certification"
      chosen == row.given \cup
                IF row.parents # {} \/ row.type \in Types THEN {"type"} ELSE {}
      blank == (row.blank \cup IF row.type = Blank THEN {"type"} ELSE {}) \ chosen
      stored == IF exists THEN old.repl ELSE {}
      legacy == type \in LegacyEligible /\
                IF row.legacy = Keep THEN exists /\ old.legacy ELSE row.legacy
  IN  [full |-> row.full, type |-> type,
       cert |-> IF type = "OLXSubItem" THEN {}
                ELSE IF row.cert # Keep THEN row.cert
                ELSE IF exists THEN old.cert ELSE {},
       legacy |-> legacy,
       repl |-> IF legacy /\ row.repl # Keep THEN stored
                ELSE Sanitized(row.title, type, legacy, stored).repl,
       unset |-> IF exists THEN old.unset \ chosen ELSE blank,
       incomplete |-> IF exists THEN old.incomplete /\ chosen # Classification
                      ELSE blank # {}]

\* The upsert of the next row.  A type or Full Title it changes regroups the
\* title, and the relations it has are left to it.
ImportRow(r) ==
  LET rows == call[r].body.rows
      seen == call[r].seen
      row == Head(rows)
      new == Imported(row)
      regroups == row.title \in Existing /\
                  (new.full # training[row.title].full \/ new.type # training[row.title].type)
  IN
  /\ Importing(r) /\ rows # <<>>
  /\ training' = [t \in Existing \cup {row.title} |->
                    IF t = row.title THEN new ELSE training[t]]
  /\ Collected(r, Tail(rows),
       IF new.legacy /\ row.repl # Keep
         THEN Append(seen.repl, [title |-> row.title, repl |-> row.repl]) ELSE seen.repl,
       seen.links \cup (row.parents \X {row.title}))
  /\ doubtful' = doubtful \cup
       IF regroups THEN Parents({row.title}) \cup {row.title} ELSE {}
  /\ typed' = typed \cup (new.cert \ DOMAIN training')
  /\ UNCHANGED <<members, taken, nextId>>

\* Replacements wait for every row, so that they may name one further down.
ImportReplacement(r) ==
  LET next == Head(call[r].seen.repl)
      row == training[next.title]
  IN
  /\ Importing(r) /\ call[r].body.rows = <<>> /\ call[r].seen.repl # <<>>
  /\ training' = IF next.title \notin Existing THEN training ELSE
       [training EXCEPT ![next.title].repl =
          Sanitized(next.title, row.type, row.legacy, next.repl).repl]
  /\ Collected(r, <<>>, Tail(call[r].seen.repl), call[r].seen.links)
  /\ UNCHANGED <<members, taken, nextId, doubtful, typed>>

\* So do the links to parents; one to what is not an OLX is reported and skipped.
ImportLinks(r) ==
  LET links == {l \in call[r].seen.links : l[1] \in OfType("OLX")} IN
  /\ Importing(r) /\ call[r].body.rows = <<>> /\ call[r].seen.repl = <<>>
  /\ \A l \in links : l[2] \in Existing
  /\ members' = members \cup links
  /\ Committed(r, ForAll({l[1] : l \in links}))
  /\ UNCHANGED <<training, taken, nextId, doubtful, typed>>

-----------------------------------------------------------------------------

Reads(r) ==
  \/ PostTaken(r) \/ PatchTaken(r) \/ DeleteTaken(r)
  \/ PostTraining(r) \/ PutTraining(r) \/ DeleteTraining(r)
  \/ PatchGroup(r) \/ RenameGroup(r) \/ MergeGroup(r) \/ MoveAliases(r) \/ DeleteGroup(r)
  \/ OlxBackfill(r) \/ NormaliseLeadsTo(r) \/ ImportCatalogue(r)

Writes(r) ==
  \/ PostTakenWrite(r) \/ PatchTakenWrite(r) \/ DeleteTakenWrite(r)
  \/ PostTrainingWrite(r) \/ PutTrainingWrite(r) \/ DeleteTrainingWrite(r)
  \/ PatchGroupWrite(r) \/ RegroupWrite(r) \/ MoveAliasesWrite(r) \/ DeleteGroupWrite(r)
  \/ OlxBackfillWrite(r) \/ NormaliseLeadsToWrite(r)
  \/ ImportRow(r) \/ ImportReplacement(r) \/ ImportLinks(r)

\* A statement violates a key, or addresses a row that is gone: nothing of the
\* transaction is kept, and the handler answers 500.
WriteFails(r) ==
  /\ pc[r] = "write" /\ ~ENABLED Writes(r)
  /\ Fails(r)

Next == \E r \in Requests :
  Reads(r) \/ Writes(r) \/ WriteFails(r) \/ Evaluate(r) \/ Apply(r) \/ ApplyFails(r)

Spec == Init /\ [][Next]_vars

-----------------------------------------------------------------------------
(* Properties. *)

Quiet == InFlight = {}

TypeOK ==
  /\ workload \in DOMAIN Workloads
  /\ Existing \subseteq Titles /\ training \in [Existing -> Training]
  /\ members \subseteq Existing \X Existing
  /\ taken \subseteq Taken /\ \A t \in taken : t.title \in Existing /\ t.id < nextId
  /\ \A t, u \in taken : t.id = u.id => t = u
  /\ nextId \in Nat /\ doubtful \subseteq Titles /\ typed \subseteq Titles
  /\ pc \in [Requests -> {"idle", "write", "recompute", "apply", "done"}]
  /\ alone \subseteq Requests

\* Nobody is owed a parent completion or holds one that the sub-items do not
\* support, and its date is that of the latest sub-item, however the parent's
\* sub-items, their types, titles and completions were edited, deleted and
\* imported; and a reconciliation nothing overlaps mends what a regrouping, a
\* hand-written parent row or overlapping requests left behind.
ParentsHonest ==
  Quiet => \A p \in Active(Existing \ doubtful), w \in Learners : HonestFor(w, p)

\* Requests that add completions may overlap as they please: whichever of them
\* reads last sees the rows of all, so nobody is left without the parent's.  If
\* the rows have different dates, or the parent's was written by hand, a plan
\* drawn up earlier may delete the row another relies on.
AdditionsNeverOwe ==
  Quiet /\ Mix.ops = {"PostTaken"} =>
    \A s \in Owed :
      \/ Subs(s[2]) \cap OfType("OLX") # {}
      \/ \E t, u \in Rows(s[1], Subs(s[2])) : t.date # u.date
      \/ \E r \in Requests : call[r].op = "PostTaken" /\ call[r].body.who = s[1]
                             /\ call[r].body.title = s[2]

\* Both: whoever holds a parent's completion has earned it, and is not owed one.
CreditIsEarned == ParentsHonest /\ AdditionsNeverOwe

\* What leads to a certification, or is replaced by one, names a training there
\* is: renaming and deleting carry the lists along.  The lists that a file is
\* trusted with are excepted.
ReferencesResolve == ~Mix.overlap /\ Quiet => Dangling \subseteq typed

\* A training's markers fit its type and one another, whichever handler changed
\* which of them; and an entry the import created has left "needs attention"
\* only with a type, a product and a function that somebody chose.
MarkersFitType ==
  \A t \in Existing :
    Reviewed(training[t]) /\ (~Mix.overlap => Fits(training[t]))

\* Both: the columns and lists of the catalogue agree with one another.
RowsAgree == ReferencesResolve /\ MarkersFitType

\* Editing, retyping, renaming, moving and merging trainings lose no completion
\* that a learner earned: only a deletion removes one that is not derived.
CompletionsKept ==
  [][(\A r \in Requests : ~(DeleteTakenWrite(r) \/ DeleteTrainingWrite(r)
                            \/ DeleteGroupWrite(r))) =>
       \A t \in taken : t.title \notin OfType("OLX") =>
         \E u \in taken' : u.id = t.id /\ u.who = t.who /\ u.title \in DOMAIN training']_vars
=============================================================================
