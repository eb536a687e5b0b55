---------------------------- MODULE Learners_proofs ----------------------------
(***************************************************************************)
(* Safety of Learners for any tables, any users and any files: the keys of *)
(* the tables hold, and a request that nothing overlaps leaves the learners*)
(* of other companies alone, imports included; what an import says it      *)
(* created is what it inserted; and one that nothing overlaps writes what  *)
(* its rows come to one by one.                                            *)
(*                                                                         *)
(* What the rows of a file or of a chunk come to is a recursive function,  *)
(* and is shown by its least counterexample (LeastIsThere).                *)
(***************************************************************************)
EXTENDS Learners, FiniteSetTheorems, SequenceTheorems, WellFoundedInduction, TLAPS

\* The tables an import has a copy of.
Copied == {"regions", "students", "trainings", "taken"}
Fields == {"companies"} \cup Copied

\* The keys of completions.
Triples == Emails \X Titles \X Dates

\* What a row may have left to do.
StageLists == {Tables, <<"students", "trainings", "taken">>, <<"trainings", "taken">>,
             <<"taken">>, <<>>}

Busy(r) == req[r].pc \notin {"idle", "done"}

\* The fields of requests and imports.
ReqShape ==
  /\ DOMAIN req = Requests
  /\ \A r \in Requests : DOMAIN req[r] = {"pc", "op", "scope", "body", "outcome"}

ImportShape(m) ==
  /\ DOMAIN m = {"rows", "draft", "known", "introduced", "base", "at", "stages",
                 "missing", "out"}
  /\ m.stages \in StageLists
  /\ m.at \in Nat /\ Len(m.rows) \in Nat

ImportsShape ==
  /\ DOMAIN imports = Requests
  /\ \A r \in Requests : ImportShape(imports[r])

\* As much of Sound as keeping tenants apart needs.
DbOK ==
  /\ DOMAIN db = Fields
  /\ DOMAIN db.companies \subseteq Ids
  /\ \A e \in DOMAIN db.students : db.students[e].company \in DOMAIN db.companies

Mine(r, e) == e \in DOMAIN db.students /\ db.students[e].company \in req[r].scope

\* The routes of SuperAdmins, who access every company.
SuperOps == {"PostCompany", "PutCompany", "DeleteCompany", "PostRegion", "PutRegion",
             "DeleteRegion", "DeleteTraining"}

\* A write that is to come was let through for companies its user can access.
Intent(r) ==
  req[r].pc = "write" =>
    /\ req[r].op = "PostStudent" => req[r].body.row.company \in req[r].scope
    /\ req[r].op = "PutStudent" =>
         /\ Mine(r, req[r].body.email)
         /\ DOMAIN req[r].body.row = {"company", "country", "theatre"}
         /\ req[r].body.row.company \in req[r].scope
    /\ req[r].op = "DeleteStudent" => Mine(r, req[r].body.email)
    /\ req[r].op \in SuperOps => req[r].scope = Ids

\* The learners on the copy are those of the database, or new.
Agree(base) ==
  "students" \in DOMAIN base =>
    \A e \in DOMAIN base.students \cap DOMAIN db.students :
      base.students[e] = db.students[e]

\* CompanyOf, of an import and of what its request may use.
CompanyFor(m, scope, i) ==
  LET d == m.draft[i] IN
  IF d = None THEN None ELSE IF m.known[d] \in scope THEN m.known[d] ELSE None

\* The learner of this email, on the copy, is one of the caller's.
Own(base, email, scope) ==
  email \in DOMAIN base.students /\ base.students[email].company \in scope

\* How far the copy is; and past the lookup of a row's learner, it is the caller's.
Copying(m, pc, scope) ==
  /\ pc = "companies" => DOMAIN m.base = {}
  /\ pc = "read" => DOMAIN m.base \in {{}, {"regions"}, {"regions", "students"},
                                     {"regions", "students", "trainings"}}
  /\ pc \in {"companies", "read", "chunk"} => m.stages = <<>>
  /\ pc \in {"chunk", "slow"} => DOMAIN m.base = Copied
  /\ pc = "slow" /\ m.stages # <<>> => CompanyFor(m, scope, m.at) # None
  /\ pc = "slow" /\ m.stages \in {<<"trainings", "taken">>, <<"taken">>} =>
       Own(m.base, m.rows[m.at].email, scope)

Copy(r) ==
  /\ req[r].pc \in {"companies", "read", "chunk", "slow"} => Agree(imports[r].base)
  /\ Copying(imports[r], req[r].pc, req[r].scope)

\* The request of the witness has all this, for nobody else runs.
Alone ==
  \A r \in Requests : witness.of = r =>
    /\ req[r].pc # "idle"
    /\ Busy(r) => /\ \A q \in Requests : Busy(q) => q = r
                  /\ Intent(r) /\ Copy(r)

-----------------------------------------------------------------------------
\* The writes of requests.

LEMMA FailedWrites ==
  ASSUME NEW r \in Requests, WriteFails(r)
  PROVE  /\ req[r].pc = "write"
         /\ req' = [req EXCEPT ![r].pc = "done", ![r].outcome = "error"]
         /\ UNCHANGED <<workload, db, imports, inserted, witness>>
  BY Zenon DEF WriteFails

\* A request that is not on its own in flight has no say in what is kept of it.
LEMMA OthersStill ==
  ASSUME ReqShape, Alone, NEW r \in Requests, Busy(r), witness' = witness,
         DOMAIN req' = Requests, \A q \in Requests : q # r => req'[q] = req[q],
         req'[r].pc # "idle",
         witness.of = r /\ Busy(r)' => Intent(r)' /\ Copy(r)'
  PROVE  Alone'
<1> SUFFICES ASSUME NEW q \in Requests, witness'.of = q
             PROVE  /\ req'[q].pc # "idle"
                    /\ Busy(q)' => /\ \A p \in Requests : Busy(p)' => p = q
                                   /\ Intent(q)' /\ Copy(q)'
  BY Zenon DEF Alone
<1>1. witness.of = q OBVIOUS
<1>2. /\ req[q].pc # "idle"
      /\ Busy(q) => \A p \in Requests : Busy(p) => p = q
  BY <1>1, Zenon DEF Alone
<1>3. CASE q = r
  <2>1. \A p \in Requests : Busy(p)' => p = q
    BY <1>2, <1>3, Zenon DEF Busy
  <2> QED BY <1>1, <1>3, <2>1, Zenon
<1>4. CASE q # r
  <2>1. req'[q] = req[q] /\ ~Busy(q) BY <1>2, <1>4, Zenon
  <2>2. req'[q].pc # "idle" /\ ~Busy(q)' BY <1>2, <2>1, Zenon DEF Busy
  <2> QED BY <2>2, Zenon
<1> QED BY <1>3, <1>4

-----------------------------------------------------------------------------
LEMMA Beginning ==
  ASSUME ReqShape, DbOK, Alone, NEW r \in Requests, NEW op, NEW scope, NEW body, NEW pc,
         None \notin Requests,
         Begin(r, op, scope, body, pc), pc \notin {"idle", "done"}, Intent(r)', Copy(r)'
  PROVE  ReqShape' /\ DbOK' /\ Alone'
<1>1. req' = [req EXCEPT ![r] = Asked(op, scope, body, pc)]
  BY Zenon DEF Begin
<1>2. req'[r] = Asked(op, scope, body, pc) /\ DOMAIN req' = Requests
      /\ \A q \in Requests : q # r => req'[q] = req[q]
  BY <1>1, Zenon DEF ReqShape
<1>a. DOMAIN Asked(op, scope, body, pc) = {"pc", "op", "scope", "body", "outcome"}
  BY DEF Asked
<1>b. Asked(op, scope, body, pc).pc = pc BY DEF Asked
<1>3. ReqShape' BY <1>2, <1>a, Zenon DEF ReqShape
<1>4. db' = db BY Zenon DEF Begin
<1>5. DbOK' BY <1>4, Zenon DEF DbOK
<1>6. Alone'
  <2> SUFFICES ASSUME NEW q \in Requests, witness'.of = q
               PROVE  /\ req'[q].pc # "idle"
                      /\ Busy(q)' => /\ \A p \in Requests : Busy(p)' => p = q
                                     /\ Intent(q)' /\ Copy(q)'
    BY Zenon DEF Alone
  <2>1. InFlight = {} /\ q = r
    <3>1. NoWitness.of = None BY DEF NoWitness
    <3>2. [of |-> r, db |-> db].of = r OBVIOUS
    <3>3. witness' = IF InFlight = {} THEN [of |-> r, db |-> db] ELSE NoWitness
      BY Zenon DEF Begin
    <3>4. InFlight # {} => witness'.of = None BY <3>1, <3>3, Zenon
    <3>5. InFlight = {} BY <3>4, Zenon
    <3> QED BY <3>2, <3>3, <3>5, Zenon
  <2>2. \A p \in Requests : Busy(p)' => p = q
    <3>1. \A p \in Requests : ~Busy(p) BY <2>1, Zenon DEF InFlight, Busy
    <3> QED BY <1>2, <2>1, <3>1, Zenon DEF Busy
  <2>3. req'[r].pc = pc BY <1>2, <1>b, Zenon
  <2> QED BY <2>1, <2>2, <2>3, Zenon
<1> QED BY <1>3, <1>5, <1>6

\* A request that only writes has no copy to keep.
LEMMA Opening ==
  ASSUME ReqShape, ImportsShape, DbOK, Alone, NEW r \in Requests, NEW op, NEW scope, NEW body,
         None \notin Requests, Opened(r, op, scope, body),
         LET a == Asked(op, scope, body, "write") IN
           /\ op = "PostStudent" => a.body.row.company \in a.scope
           /\ op = "PutStudent" =>
                /\ a.body.email \in DOMAIN db.students
                /\ db.students[a.body.email].company \in a.scope
                /\ DOMAIN a.body.row = {"company", "country", "theatre"}
                /\ a.body.row.company \in a.scope
           /\ op = "DeleteStudent" => /\ a.body.email \in DOMAIN db.students
                                      /\ db.students[a.body.email].company \in a.scope
           /\ op \in SuperOps => a.scope = Ids
  PROVE  ReqShape' /\ ImportsShape' /\ DbOK' /\ Alone' /\ db' = db
<1>1. Begin(r, op, scope, body, "write") /\ imports' = imports
  BY Zenon DEF Opened
<1>2. req' = [req EXCEPT ![r] = Asked(op, scope, body, "write")] /\ db' = db
  BY <1>1, Zenon DEF Begin
<1>3. req'[r] = Asked(op, scope, body, "write")
  BY <1>2, Zenon DEF ReqShape
<1>a. Asked(op, scope, body, "write").pc = "write" BY DEF Asked
<1>b. Asked(op, scope, body, "write").op = op BY DEF Asked
<1>4. req'[r].pc = "write" /\ req'[r].op = op BY <1>3, <1>a, <1>b, Zenon
<1>5. Copy(r)' BY <1>4 DEF Copy, Copying
<1>6. Intent(r)' BY <1>2, <1>3, <1>4, Zenon DEF Intent, Mine
<1>7. ImportsShape' BY <1>1, Zenon DEF ImportsShape
<1>8. "write" \notin {"idle", "done"} OBVIOUS
<1>9. ReqShape' /\ DbOK' /\ Alone' BY <1>1, <1>5, <1>6, <1>8, Beginning, Zenon
<1> QED BY <1>2, <1>7, <1>9

LEMMA AskedFields ==
  ASSUME NEW op, NEW scope, NEW body
  PROVE  LET a == Asked(op, scope, body, "write") IN a.scope = scope /\ a.body = body
<1>1. Asked(op, scope, body, "write").scope = scope BY DEF Asked
<1>2. Asked(op, scope, body, "write").body = body BY DEF Asked
<1> QED BY <1>1, <1>2

\* A handler that reads leaves the database as it is.
LEMMA ReadsKeep ==
  ASSUME ReqShape, ImportsShape, DbOK, Alone, NEW r \in Requests, None \notin Requests,
         Reads(r), ~ImportRegions(r), ~ImportStudents(r)
  PROVE  ReqShape' /\ ImportsShape' /\ DbOK' /\ Alone' /\ db' = db
<1>1. CASE PostStudent(r)
  <2> DEFINE body(e, c, id) == [email |-> e, row |->
                                  [company |-> id, country |-> c, theatre |-> db.regions[c]]]
  <2>a. PICK scope \in Mix.scopes, e \in Mix.emails, c \in DOMAIN db.regions,
             id \in DOMAIN db.companies :
          id \in scope /\ Opened(r, "PostStudent", scope, body(e, c, id))
    BY <1>1, Zenon DEF PostStudent
  <2>1. body(e, c, id).row.company = id OBVIOUS
  <2> HIDE DEF body
  <2>2. LET a == Asked("PostStudent", scope, body(e, c, id), "write") IN
          a.scope = scope /\ a.body = body(e, c, id)
    BY AskedFields
  <2> QED BY <2>a, <2>1, <2>2, Opening DEF SuperOps
<1>2. CASE DeleteStudent(r)
  <2> DEFINE body(e) == [email |-> e]
  <2>a. PICK scope \in Mix.scopes, e \in DOMAIN db.students :
          db.students[e].company \in scope /\ Opened(r, "DeleteStudent", scope, body(e))
    BY <1>2, Zenon DEF DeleteStudent
  <2>1. body(e).email = e OBVIOUS
  <2> HIDE DEF body
  <2>2. LET a == Asked("DeleteStudent", scope, body(e), "write") IN
          a.scope = scope /\ a.body = body(e)
    BY AskedFields
  <2> QED BY <2>a, <2>1, <2>2, Opening DEF SuperOps
<1>3. CASE PutStudent(r)
  <2>a. PICK scope \in Mix.scopes, e \in DOMAIN db.students,
             new \in {Keep} \cup Mix.emails, c \in {Keep} \cup DOMAIN db.regions,
             id \in {Keep} \cup DOMAIN db.companies :
          /\ db.students[e].company \in scope
          /\ id \notin {Keep, db.students[e].company} => id \in scope
          /\ Opened(r, "PutStudent", scope, Edit(e, new, c, id))
    BY <1>3, Zenon DEF PutStudent
  <2> DEFINE body == Edit(e, new, c, id)
  <2>1. body.row.company = IF id = Keep THEN db.students[e].company ELSE id BY DEF Edit
  <2>2. DOMAIN body.row = {"company", "country", "theatre"} BY DEF Edit
  <2>3. body.email = e BY DEF Edit
  <2> HIDE DEF body
  <2>4. LET a == Asked("PutStudent", scope, body, "write") IN
          a.scope = scope /\ a.body = body
    BY AskedFields
  <2>5. body.row.company \in scope BY <2>a, <2>1
  <2>6. Opened(r, "PutStudent", scope, body) BY <2>a, Zenon DEF body
  <2> QED BY <2>a, <2>2, <2>3, <2>4, <2>5, <2>6, Opening DEF SuperOps
<1>4. CASE PostCompany(r)
  <2>a. PICK n \in Names : Opened(r, "PostCompany", Ids, [name |-> n])
    BY <1>4, Zenon DEF PostCompany
  <2>1. Asked("PostCompany", Ids, [name |-> n], "write").scope = Ids BY AskedFields
  <2> QED BY <2>a, <2>1, Opening
<1>5. CASE PutCompany(r)
  <2>a. PICK id \in DOMAIN db.companies, n \in Names :
          Opened(r, "PutCompany", Ids, [id |-> id, name |-> n])
    BY <1>5, Zenon DEF PutCompany
  <2>1. Asked("PutCompany", Ids, [id |-> id, name |-> n], "write").scope = Ids
    BY AskedFields
  <2> QED BY <2>a, <2>1, Opening
<1>6. CASE DeleteCompany(r)
  <2>a. PICK id \in DOMAIN db.companies : Opened(r, "DeleteCompany", Ids, [id |-> id])
    BY <1>6, Zenon DEF DeleteCompany
  <2>1. Asked("DeleteCompany", Ids, [id |-> id], "write").scope = Ids BY AskedFields
  <2> QED BY <2>a, <2>1, Opening
<1>7. CASE PostRegion(r)
  <2>a. PICK c \in Countries, t \in Theatres \cup {None} :
          Opened(r, "PostRegion", Ids, [country |-> c, theatre |-> t])
    BY <1>7, Zenon DEF PostRegion
  <2>1. Asked("PostRegion", Ids, [country |-> c, theatre |-> t], "write").scope = Ids
    BY AskedFields
  <2> QED BY <2>a, <2>1, Opening
<1>8. CASE PutRegion(r)
  <2>a. PICK c \in DOMAIN db.regions, t \in Theatres \cup {None, Keep},
             new \in (Countries \ DOMAIN db.regions) \cup {Keep} :
          Opened(r, "PutRegion", Ids, [country |-> c, new |-> new, theatre |-> t])
    BY <1>8, Zenon DEF PutRegion
  <2>1. Asked("PutRegion", Ids, [country |-> c, new |-> new, theatre |-> t], "write").scope = Ids
    BY AskedFields
  <2> QED BY <2>a, <2>1, Opening
<1>9. CASE DeleteRegion(r)
  <2>a. PICK c \in DOMAIN db.regions : Opened(r, "DeleteRegion", Ids, [country |-> c])
    BY <1>9, Zenon DEF DeleteRegion
  <2>1. Asked("DeleteRegion", Ids, [country |-> c], "write").scope = Ids BY AskedFields
  <2> QED BY <2>a, <2>1, Opening
<1>10. CASE DeleteTraining(r)
  <2>a. PICK t \in DOMAIN db.trainings : Opened(r, "DeleteTraining", Ids, [title |-> t])
    BY <1>10, Zenon DEF DeleteTraining
  <2>1. Asked("DeleteTraining", Ids, [title |-> t], "write").scope = Ids BY AskedFields
  <2> QED BY <2>a, <2>1, Opening
<1> QED BY <1>1, <1>2, <1>3, <1>4, <1>5, <1>6, <1>7, <1>8, <1>9, <1>10, Zenon DEF Reads

LEMMA RegionFilesKeep ==
  ASSUME ReqShape, ImportsShape, DbOK, Alone, NEW r \in Requests, None \notin Requests,
         ImportRegions(r)
  PROVE  ReqShape' /\ ImportsShape' /\ DbOK' /\ Alone' /\ db' = db
<1>a. PICK file \in Mix.regionFiles : Begin(r, "ImportRegions", Ids, [rows |-> file], "regions")
  BY Zenon DEF ImportRegions
<1>1. req' = [req EXCEPT ![r] = Asked("ImportRegions", Ids, [rows |-> file], "regions")]
      /\ db' = db /\ imports' = imports
  BY <1>a, Zenon DEF Begin, ImportRegions
<1>2. Asked("ImportRegions", Ids, [rows |-> file], "regions").pc = "regions" BY DEF Asked
<1>3. req'[r].pc = "regions" BY <1>1, <1>2, Zenon DEF ReqShape
<1>4. Intent(r)' BY <1>3 DEF Intent
<1>5. Copy(r)' BY <1>3 DEF Copy, Copying
<1>6. "regions" \notin {"idle", "done"} OBVIOUS
<1>7. ImportsShape' BY <1>1, Zenon DEF ImportsShape
<1>8. ReqShape' /\ DbOK' /\ Alone' BY <1>a, <1>4, <1>5, <1>6, Beginning, Zenon
<1> QED BY <1>1, <1>7, <1>8

-----------------------------------------------------------------------------
\* The learners of others, write by write.

IsPut(g, f, k, v) ==
  /\ DOMAIN g = DOMAIN f \cup {k} /\ g[k] = v
  /\ \A x \in DOMAIN f : x # k => g[x] = f[x]

IsWithout(g, f, gone) ==
  /\ DOMAIN g = DOMAIN f \ gone
  /\ \A x \in DOMAIN f \ gone : g[x] = f[x]

LEMMA PutIs ==
  ASSUME NEW f, NEW k, NEW v
  PROVE  IsPut(Put(f, k, v), f, k, v)
  BY DEF Put, IsPut

LEMMA WithoutIs ==
  ASSUME NEW f, NEW gone
  PROVE  IsWithout(Without(f, gone), f, gone)
  BY DEF Without, IsWithout

\* One table is written.
LEMMA OneTable ==
  ASSUME DbOK, NEW t \in Fields, NEW s, db' = [db EXCEPT ![t] = s]
  PROVE  DOMAIN db' = Fields /\ db'[t] = s /\ \A u \in Fields : u # t => db'[u] = db[u]
  BY Zenon DEF DbOK

\* A request is done.
LEMMA Ending ==
  ASSUME ReqShape, ImportsShape, Alone, NEW r \in Requests, Busy(r), NEW o,
         req' = [req EXCEPT ![r].pc = "done", ![r].outcome = o],
         UNCHANGED <<imports, witness>>
  PROVE  ReqShape' /\ ImportsShape' /\ Alone'
<1>1. DOMAIN req' = Requests /\ \A q \in Requests : q # r => req'[q] = req[q]
  BY DEF ReqShape
<1>2. req'[r].pc = "done" BY DEF ReqShape
<1>3. DOMAIN req'[r] = {"pc", "op", "scope", "body", "outcome"} BY DEF ReqShape
<1>4. ReqShape' BY <1>1, <1>3, Zenon DEF ReqShape
<1>5. ImportsShape' BY Zenon DEF ImportsShape
<1>6. ~Busy(r)' /\ req'[r].pc # "idle" BY <1>2 DEF Busy
<1>7. Alone' BY <1>1, <1>6, OthersStill, Zenon
<1> QED BY <1>4, <1>5, <1>7

\* What a learner has taken.
RowsOf(d, e) == {<<k, d.taken[k]>> : k \in {x \in DOMAIN d.taken : x[1] = e}}

\* What KeptApart asks, learner by learner.
LEMMA Apart ==
  ASSUME NEW r \in Requests,
         \A e \in DOMAIN db.students : db.students[e].company \notin req[r].scope =>
           /\ e \in DOMAIN db'.students /\ db'.students[e] = db.students[e]
           /\ RowsOf(db', e) = RowsOf(db, e),
         \A e \in DOMAIN db'.students :
           \/ db'.students[e].company \in req[r].scope
           \/ e \in DOMAIN db.students /\ db.students[e].company \notin req[r].scope
  PROVE  KeptApart(r)
  BY Zenon DEF KeptApart, RowsOf

LEMMA SameRows ==
  ASSUME db'.taken = db.taken, NEW e
  PROVE  RowsOf(db', e) = RowsOf(db, e)
  BY Zenon DEF RowsOf

LEMMA Untouched ==
  ASSUME NEW r \in Requests, db'.students = db.students, db'.taken = db.taken
  PROVE  KeptApart(r)
  BY Zenon DEF KeptApart

\* Whoever may use every company owns every learner.
LEMMA EveryCompany ==
  ASSUME NEW r \in Requests, req[r].scope = Ids, DbOK, DbOK'
  PROVE  KeptApart(r)
<1>1. \A e \in DOMAIN db.students : db.students[e].company \in req[r].scope
  BY DEF DbOK
<1>2. \A e \in DOMAIN db'.students : db'.students[e].company \in req[r].scope
  BY DEF DbOK
<1> QED BY <1>1, <1>2, Zenon DEF KeptApart

LEMMA StudentCreated ==
  ASSUME DbOK, NEW r \in Requests, PostStudentWrite(r)
  PROVE  DbOK' /\ (Intent(r) => KeptApart(r))
<1> DEFINE e == req[r].body.email
           row == req[r].body.row
<1>1. db' = [db EXCEPT !.students = Put(db.students, e, row)]
      /\ e \notin DOMAIN db.students /\ Placed(db, row)
  BY Zenon DEF PostStudentWrite, Written
<1>2. Intent(r) => row.company \in req[r].scope
  BY DEF PostStudentWrite, Writing, Intent
<1> HIDE DEF e, row
<1>3. /\ DOMAIN db' = Fields /\ db'.students = Put(db.students, e, row)
      /\ db'.companies = db.companies /\ db'.taken = db.taken
  BY <1>1, OneTable DEF Fields, Copied
<1>4. /\ DOMAIN db'.students = DOMAIN db.students \cup {e} /\ db'.students[e] = row
      /\ \A x \in DOMAIN db.students : db'.students[x] = db.students[x]
  <2>1. IsPut(db'.students, db.students, e, row) BY <1>3, PutIs, Zenon
  <2> QED BY <1>1, <2>1 DEF IsPut
<1>5. DbOK' BY <1>1, <1>3, <1>4 DEF DbOK, Placed
<1>6. ASSUME Intent(r) PROVE KeptApart(r)
  <2>1. \A x \in DOMAIN db.students : x \in DOMAIN db'.students BY <1>4
  <2>2. \A x \in DOMAIN db'.students : x \in DOMAIN db.students \/ x = e BY <1>4
  <2> QED BY <1>2, <1>3, <1>4, <1>6, <2>1, <2>2, Zenon DEF KeptApart
<1> QED BY <1>5, <1>6

LEMMA StudentEdited ==
  ASSUME DbOK, NEW r \in Requests, PutStudentWrite(r)
  PROVE  DbOK' /\ (Intent(r) => KeptApart(r))
<1> DEFINE b == req[r].body
           e == b.email
           row == [f \in DOMAIN b.row |->
                     IF f \in b.sets THEN b.row[f] ELSE db.students[e][f]]
<1>1. db' = [db EXCEPT !.students[e] = row] /\ e \in DOMAIN db.students /\ Placed(db, row)
  BY Zenon DEF PutStudentWrite, Written
<1>2. Intent(r) =>
        /\ Mine(r, e) /\ DOMAIN b.row = {"company", "country", "theatre"}
        /\ b.row.company \in req[r].scope
  BY DEF PutStudentWrite, Writing, Intent
<1>3. Intent(r) => row.company \in req[r].scope BY <1>2 DEF Mine
<1> HIDE DEF b, e, row
<1>4. db' = [db EXCEPT !.students = [db.students EXCEPT ![e] = row]] BY <1>1, Zenon
<1>5. /\ DOMAIN db' = Fields /\ db'.students = [db.students EXCEPT ![e] = row]
      /\ db'.companies = db.companies /\ db'.taken = db.taken
  BY <1>4, OneTable DEF Fields, Copied
<1>6. /\ DOMAIN db'.students = DOMAIN db.students /\ db'.students[e] = row
      /\ \A x \in DOMAIN db.students : x # e => db'.students[x] = db.students[x]
  BY <1>1, <1>5
<1>7. DbOK' BY <1>1, <1>5, <1>6 DEF DbOK, Placed
<1>8. ASSUME Intent(r) PROVE KeptApart(r)
  <2>1. \A x \in DOMAIN db.students :
          db.students[x].company \notin req[r].scope => db'.students[x] = db.students[x]
    BY <1>2, <1>6, <1>8, Zenon DEF Mine
  <2>2. \A x \in DOMAIN db'.students :
          \/ db'.students[x].company \in req[r].scope
          \/ x \in DOMAIN db.students /\ db.students[x].company \notin req[r].scope
    BY <1>2, <1>3, <1>6, <1>8, Zenon DEF Mine
  <2>3. \A x : RowsOf(db', x) = RowsOf(db, x) BY <1>5, SameRows, Zenon
  <2> QED BY <1>6, <2>1, <2>2, <2>3, Apart, Zenon
<1> QED BY <1>7, <1>8

LEMMA StudentRenamed ==
  ASSUME DbOK, NEW r \in Requests, RenameStudentWrite(r)
  PROVE  DbOK' /\ (Intent(r) => KeptApart(r))
<1> DEFINE b == req[r].body
           e == b.email
           new == b.new
           s == Without(db.students, {e})
<1>1. /\ db' = [db EXCEPT !.students = Put(s, new, b.row)]
      /\ e \in DOMAIN db.students /\ new \notin DOMAIN db.students /\ Placed(db, b.row)
  BY Zenon DEF RenameStudentWrite, Written
<1>2. Intent(r) => Mine(r, e) /\ b.row.company \in req[r].scope
  BY DEF RenameStudentWrite, Writing, Intent
<1> HIDE DEF e, new, s, b
<1>3. /\ DOMAIN db' = Fields /\ db'.students = Put(s, new, b.row)
      /\ db'.companies = db.companies /\ db'.taken = db.taken
  BY <1>1, OneTable DEF Fields, Copied
<1>4. /\ DOMAIN db'.students = (DOMAIN db.students \ {e}) \cup {new}
      /\ db'.students[new] = b.row
      /\ \A x \in DOMAIN db.students \ {e} : db'.students[x] = db.students[x]
  <2>1. IsPut(db'.students, s, new, b.row) BY <1>3, PutIs, Zenon
  <2>2. IsWithout(s, db.students, {e}) BY WithoutIs DEF s
  <2> QED BY <1>1, <2>1, <2>2 DEF IsPut, IsWithout
<1>5. DbOK' BY <1>1, <1>3, <1>4 DEF DbOK, Placed
<1>6. ASSUME Intent(r) PROVE KeptApart(r)
  <2>1. \A x \in DOMAIN db.students : db.students[x].company \notin req[r].scope =>
          x \in DOMAIN db'.students /\ db'.students[x] = db.students[x]
    BY <1>2, <1>4, <1>6 DEF Mine
  <2>2. \A x \in DOMAIN db'.students :
          \/ db'.students[x].company \in req[r].scope
          \/ x \in DOMAIN db.students /\ db.students[x].company \notin req[r].scope
    BY <1>2, <1>4, <1>6
  <2>3. \A x : RowsOf(db', x) = RowsOf(db, x) BY <1>3, SameRows, Zenon
  <2> QED BY <2>1, <2>2, <2>3, Apart, Zenon
<1> QED BY <1>5, <1>6

\* Completions go, those of one learner alone.
LEMMA RowsWithout ==
  ASSUME NEW e, NEW x, x # e,
         IsWithout(db'.taken, db.taken, {k \in DOMAIN db.taken : k[1] = e})
  PROVE  RowsOf(db', x) = RowsOf(db, x)
<1>1. {k \in DOMAIN db'.taken : k[1] = x} = {k \in DOMAIN db.taken : k[1] = x}
  BY DEF IsWithout
<1>2. \A k \in {y \in DOMAIN db.taken : y[1] = x} : db'.taken[k] = db.taken[k]
  BY DEF IsWithout
<1> DEFINE mine == {y \in DOMAIN db.taken : y[1] = x}
<1> HIDE DEF mine
<1>3. {<<k, db'.taken[k]>> : k \in mine} = {<<k, db.taken[k]>> : k \in mine}
  BY <1>2, Zenon DEF mine
<1> QED BY <1>1, <1>3, Zenon DEF RowsOf, mine

LEMMA StudentDeleted ==
  ASSUME DbOK, NEW r \in Requests, DeleteStudentWrite(r)
  PROVE  DbOK' /\ (Intent(r) => KeptApart(r))
<1> DEFINE e == req[r].body.email
           s == Without(db.students, {e})
           t == Without(db.taken, {k \in DOMAIN db.taken : k[1] = e})
<1>1. db' = [db EXCEPT !.students = s, !.taken = t]
  BY Zenon DEF DeleteStudentWrite, Written, WithoutLearner
<1>2. Intent(r) => Mine(r, e)
  BY DEF DeleteStudentWrite, Writing, Intent
<1> HIDE DEF e, s, t
<1>3. DOMAIN db' = Fields BY <1>1 DEF DbOK
<1>4. db'.students = s BY <1>1 DEF DbOK, Fields, Copied
<1>5. db'.companies = db.companies BY <1>1 DEF DbOK, Fields, Copied
<1>6. db'.taken = t BY <1>1 DEF DbOK, Fields, Copied
<1>7. IsWithout(db'.students, db.students, {e}) BY <1>4, WithoutIs DEF s
<1>8. IsWithout(db'.taken, db.taken, {k \in DOMAIN db.taken : k[1] = e})
  BY <1>6, WithoutIs DEF t
<1>9. DbOK' BY <1>3, <1>5, <1>7 DEF DbOK, IsWithout
<1>10. ASSUME Intent(r) PROVE KeptApart(r)
  <2>1. \A x \in DOMAIN db.students : db.students[x].company \notin req[r].scope =>
          x # e /\ x \in DOMAIN db'.students /\ db'.students[x] = db.students[x]
    BY <1>2, <1>7, <1>10 DEF Mine, IsWithout
  <2>2. \A x \in DOMAIN db'.students :
          \/ db'.students[x].company \in req[r].scope
          \/ x \in DOMAIN db.students /\ db.students[x].company \notin req[r].scope
    BY <1>7 DEF IsWithout
  <2>3. \A x : x # e => RowsOf(db', x) = RowsOf(db, x) BY <1>8, RowsWithout, Zenon
  <2> QED BY <2>1, <2>2, <2>3, Apart, Zenon
<1> QED BY <1>9, <1>10

LEMMA CompanyWritten ==
  ASSUME DbOK, NEW r \in Requests, NEW c, db' = [db EXCEPT !.companies = c],
         DOMAIN c \subseteq Ids,
         \A e \in DOMAIN db.students : db.students[e].company \in DOMAIN c
  PROVE  DbOK' /\ KeptApart(r)
<1>1. /\ DOMAIN db' = Fields /\ db'.students = db.students
      /\ db'.companies = c /\ db'.taken = db.taken
  BY OneTable DEF Fields, Copied
<1>2. DbOK' BY <1>1, Zenon DEF DbOK
<1>3. KeptApart(r) BY <1>1, Untouched, Zenon
<1> QED BY <1>2, <1>3

LEMMA CompanyCreated ==
  ASSUME DbOK, NEW r \in Requests, PostCompanyWrite(r)
  PROVE  DbOK' /\ KeptApart(r)
<1>a. PICK id \in FreeIds : db' = [db EXCEPT !.companies = Put(db.companies, id, req[r].body.name)]
  BY Zenon DEF PostCompanyWrite, Written
<1> DEFINE c == Put(db.companies, id, req[r].body.name)
<1>1. IsPut(c, db.companies, id, req[r].body.name) BY PutIs
<1> HIDE DEF c
<1>2. DOMAIN c = DOMAIN db.companies \cup {id} BY <1>1 DEF IsPut
<1>3. DOMAIN c \subseteq Ids BY <1>a, <1>2 DEF FreeIds, DbOK
<1>4. \A e \in DOMAIN db.students : db.students[e].company \in DOMAIN c
  BY <1>2 DEF DbOK
<1>5. db' = [db EXCEPT !.companies = c] BY <1>a, Zenon DEF c
<1> QED BY <1>3, <1>4, <1>5, CompanyWritten, Zenon

LEMMA CompanyRenamed ==
  ASSUME DbOK, NEW r \in Requests, PutCompanyWrite(r)
  PROVE  DbOK' /\ KeptApart(r)
<1> DEFINE c == [db.companies EXCEPT ![req[r].body.id] = req[r].body.name]
<1>1. db' = [db EXCEPT !.companies = c] BY Zenon DEF PutCompanyWrite, Written
<1>2. DOMAIN c = DOMAIN db.companies OBVIOUS
<1> HIDE DEF c
<1>3. DOMAIN c \subseteq Ids BY <1>2, Zenon DEF DbOK
<1>4. \A e \in DOMAIN db.students : db.students[e].company \in DOMAIN c
  BY <1>2, Zenon DEF DbOK
<1> QED BY <1>1, <1>3, <1>4, CompanyWritten, Zenon

LEMMA CompanyDeleted ==
  ASSUME DbOK, NEW r \in Requests, DeleteCompanyWrite(r)
  PROVE  DbOK' /\ KeptApart(r)
<1> DEFINE id == req[r].body.id
           c == Without(db.companies, {id})
<1>1. db' = [db EXCEPT !.companies = c] /\ Held(db, id) = {}
  BY Zenon DEF DeleteCompanyWrite, Written
<1>2. IsWithout(c, db.companies, {id}) BY WithoutIs
<1> HIDE DEF c, id
<1>3. DOMAIN c \subseteq Ids BY <1>2 DEF DbOK, IsWithout
<1>4. \A e \in DOMAIN db.students : db.students[e].company # id
  BY <1>1, Zenon DEF Held
<1>5. \A e \in DOMAIN db.students : db.students[e].company \in DOMAIN c
  BY <1>2, <1>4 DEF DbOK, IsWithout
<1> QED BY <1>1, <1>3, <1>5, CompanyWritten, Zenon

LEMMA RegionsWritten ==
  ASSUME DbOK, NEW r \in Requests, NEW c, db' = [db EXCEPT !.regions = c]
  PROVE  DbOK' /\ KeptApart(r)
<1>1. /\ DOMAIN db' = Fields /\ db'.students = db.students
      /\ db'.companies = db.companies /\ db'.taken = db.taken
  BY OneTable DEF Fields, Copied
<1>2. DbOK' BY <1>1, Zenon DEF DbOK
<1>3. KeptApart(r) BY <1>1, Untouched, Zenon
<1> QED BY <1>2, <1>3

LEMMA CountryMoved ==
  ASSUME DbOK, NEW r \in Requests, PutRegionWrite(r)
  PROVE  DbOK' /\ (Intent(r) => KeptApart(r))
<1> DEFINE b == req[r].body
           to == IF b.new = Keep THEN b.country ELSE b.new
           c == Put(Without(db.regions, {b.country}), to,
                    IF b.theatre = Keep THEN db.regions[b.country] ELSE b.theatre)
           s == [e \in DOMAIN db.students |->
                   IF db.students[e].country = b.country
                     THEN [db.students[e] EXCEPT !.country = to] ELSE db.students[e]]
<1>1. db' = [db EXCEPT !.regions = c, !.students = s]
  BY Zenon DEF PutRegionWrite, Written
<1>2. DOMAIN s = DOMAIN db.students OBVIOUS
<1>3. \A e \in DOMAIN db.students : s[e].company = db.students[e].company
  <2> SUFFICES ASSUME NEW e \in DOMAIN db.students
               PROVE  s[e].company = db.students[e].company
    OBVIOUS
  <2> DEFINE row == db.students[e]
  <2>1. s[e] = IF row.country = b.country THEN [row EXCEPT !.country = to] ELSE row
    OBVIOUS
  <2> HIDE DEF row, s, to
  <2>2. [row EXCEPT !.country = to].company = row.company OBVIOUS
  <2> QED BY <2>1, <2>2 DEF row
<1> HIDE DEF b, to, c, s
<1>4. DOMAIN db' = Fields BY <1>1 DEF DbOK
<1>5. db'.students = s BY <1>1 DEF DbOK, Fields, Copied
<1>6. db'.companies = db.companies BY <1>1 DEF DbOK, Fields, Copied
<1>7. DbOK' BY <1>2, <1>3, <1>4, <1>5, <1>6 DEF DbOK
<1>8. Intent(r) => req[r].scope = Ids BY DEF PutRegionWrite, Writing, Intent, SuperOps
<1> QED BY <1>7, <1>8, EveryCompany

LEMMA TrainingDeleted ==
  ASSUME DbOK, NEW r \in Requests, DeleteTrainingWrite(r)
  PROVE  DbOK' /\ (Intent(r) => KeptApart(r))
<1> DEFINE u == Without(db.trainings, {req[r].body.title})
           t == Without(db.taken, {k \in DOMAIN db.taken : k[2] = req[r].body.title})
<1>1. db' = [db EXCEPT !.trainings = u, !.taken = t]
  BY Zenon DEF DeleteTrainingWrite, Written, WithoutTitle
<1> HIDE DEF u, t
<1>2. DOMAIN db' = Fields BY <1>1 DEF DbOK
<1>3. db'.students = db.students BY <1>1 DEF DbOK, Fields, Copied
<1>4. db'.companies = db.companies BY <1>1 DEF DbOK, Fields, Copied
<1>5. DbOK' BY <1>2, <1>3, <1>4 DEF DbOK
<1>6. Intent(r) => req[r].scope = Ids BY DEF DeleteTrainingWrite, Writing, Intent, SuperOps
<1> QED BY <1>5, <1>6, EveryCompany

\* Every handler that writes keeps companies apart, and the references.
LEMMA WritesKeep ==
  ASSUME ReqShape, ImportsShape, DbOK, Alone, NEW r \in Requests, Writes(r)
  PROVE  /\ ReqShape' /\ ImportsShape' /\ DbOK' /\ Alone'
         /\ Intent(r) => KeptApart(r)
<1>1. /\ req[r].pc = "write"
      /\ req' = [req EXCEPT ![r].pc = "done", ![r].outcome = "ok"]
      /\ UNCHANGED <<imports, witness>>
  BY Zenon DEF Writes, Written, Writing, PostStudentWrite, PutStudentWrite, RenameStudentWrite,
       DeleteStudentWrite, PostCompanyWrite, PutCompanyWrite, DeleteCompanyWrite,
       PostRegionWrite, PutRegionWrite, DeleteRegionWrite, DeleteTrainingWrite
<1>2. Busy(r) BY <1>1 DEF Busy
<1>3. ReqShape' /\ ImportsShape' /\ Alone' BY <1>1, <1>2, Ending, Zenon
<1>4. ASSUME PostRegionWrite(r) PROVE DbOK' /\ KeptApart(r)
  BY <1>4, RegionsWritten, Zenon DEF PostRegionWrite, Written
<1>5. ASSUME DeleteRegionWrite(r) PROVE DbOK' /\ KeptApart(r)
  BY <1>5, RegionsWritten, Zenon DEF DeleteRegionWrite, Written
<1> QED BY <1>3, <1>4, <1>5, StudentCreated, StudentEdited, StudentRenamed, StudentDeleted,
           CompanyCreated, CompanyRenamed, CompanyDeleted, CountryMoved, TrainingDeleted,
           Zenon DEF Writes

-----------------------------------------------------------------------------
LEMMA EndsKeep ==
  ASSUME ReqShape, ImportsShape, DbOK, Alone, NEW r \in Requests,
         WriteFails(r) \/ ImportEnds(r)
  PROVE  ReqShape' /\ ImportsShape' /\ DbOK' /\ Alone' /\ KeptApart(r)
<1>1. /\ req[r].pc \in {"write", "chunk"} /\ UNCHANGED <<db, imports, witness>>
      /\ \E o \in {"ok", "error"} : req' = [req EXCEPT ![r].pc = "done", ![r].outcome = o]
  <2>1. CASE WriteFails(r) BY <2>1, FailedWrites, Zenon
  <2>2. CASE ImportEnds(r) BY <2>2, Zenon DEF ImportEnds
  <2> QED BY <2>1, <2>2
<1>a. PICK o : req' = [req EXCEPT ![r].pc = "done", ![r].outcome = o] BY <1>1, Zenon
<1>2. Busy(r) BY <1>1 DEF Busy
<1>3. ReqShape' /\ ImportsShape' /\ Alone' BY <1>1, <1>a, <1>2, Ending, Zenon
<1>4. DbOK' BY <1>1, Zenon DEF DbOK
<1>5. KeptApart(r) BY <1>1, Untouched, Zenon
<1> QED BY <1>3, <1>4, <1>5

LEMMA RegionRowKeeps ==
  ASSUME ReqShape, ImportsShape, DbOK, Alone, NEW r \in Requests, ImportRegionsRow(r)
  PROVE  ReqShape' /\ ImportsShape' /\ DbOK' /\ Alone' /\ KeptApart(r)
<1> DEFINE p == IF Len(req[r].body.rows) = 1 THEN "done" ELSE "regions"
           b == [req[r].body EXCEPT !.rows = Tail(@)]
<1>1. /\ req[r].pc = "regions" /\ UNCHANGED <<imports, witness>>
      /\ req' = [req EXCEPT ![r].body.rows = Tail(@),
                            ![r].pc = IF Len(req[r].body.rows) = 1 THEN "done" ELSE @]
  BY Zenon DEF ImportRegionsRow
<1>2. req' = [req EXCEPT ![r] = [req[r] EXCEPT !.body.rows = Tail(@),
                  !.pc = IF Len(req[r].body.rows) = 1 THEN "done" ELSE @]]
  BY <1>1
<1>3. req'[r] = [req[r] EXCEPT !.body = b, !.pc = p]
  BY <1>1 DEF ReqShape
<1>4. DOMAIN req' = Requests /\ \A q \in Requests : q # r => req'[q] = req[q]
  BY <1>2, Zenon DEF ReqShape
<1> HIDE DEF b, p
<1>5. req'[r].pc = p BY <1>3 DEF ReqShape
<1>6. DOMAIN req'[r] = {"pc", "op", "scope", "body", "outcome"} BY <1>3 DEF ReqShape
<1>7. ReqShape' BY <1>4, <1>6, Zenon DEF ReqShape
<1>8. p \in {"done", "regions"} BY DEF p
<1>9. Intent(r)' BY <1>5, <1>8 DEF Intent
<1>10. Copy(r)' BY <1>5, <1>8 DEF Copy, Copying
<1>11. Busy(r) /\ req'[r].pc # "idle" BY <1>1, <1>5, <1>8 DEF Busy
<1>12. Alone' BY <1>1, <1>4, <1>9, <1>10, <1>11, OthersStill, Zenon
<1>13. ImportsShape' BY <1>1, Zenon DEF ImportsShape
<1>14. DbOK' /\ KeptApart(r)
  <2>1. CASE db' = db
    <3>1. DbOK' BY <2>1, Zenon DEF DbOK
    <3> QED BY <2>1, <3>1, Untouched, Zenon
  <2>2. CASE \E c : db' = [db EXCEPT !.regions = c] BY <2>2, RegionsWritten, Zenon
  <2>3. db' = db \/ \E c : db' = [db EXCEPT !.regions = c]
    BY Zenon DEF ImportRegionsRow
  <2> QED BY <2>1, <2>2, <2>3
<1> QED BY <1>7, <1>12, <1>13, <1>14

\* No other request or import moves.
Others(r) ==
  \A q \in Requests : q # r => req'[q] = req[q] /\ imports'[q] = imports[q]

\* The import moves on: the request, its copy, and nothing of the others.
LEMMA ImportMoves ==
  ASSUME ReqShape, ImportsShape, Alone, NEW r \in Requests, Busy(r), witness' = witness,
         NEW q, req' = [req EXCEPT ![r] = q] \/ (req' = req /\ q = req[r]),
         DOMAIN q = {"pc", "op", "scope", "body", "outcome"}, q.pc \notin {"idle", "write"},
         q.scope = req[r].scope,
         NEW m, imports' = [imports EXCEPT ![r] = m], ImportShape(m),
         witness.of = r /\ Copy(r) /\ req'[r] = q /\ imports'[r] = m /\ q.pc # "done" => Copy(r)'
  PROVE  /\ ReqShape' /\ ImportsShape' /\ Alone' /\ req'[r].scope = req[r].scope
         /\ req'[r] = q /\ imports'[r] = m /\ Others(r)
<1>1. DOMAIN req' = Requests /\ req'[r] = q /\ \A p \in Requests : p # r => req'[p] = req[p]
  BY Zenon DEF ReqShape
<1>2. DOMAIN imports' = Requests /\ imports'[r] = m
      /\ \A p \in Requests : p # r => imports'[p] = imports[p]
  BY Zenon DEF ImportsShape
<1>3. ReqShape' BY <1>1, Zenon DEF ReqShape
<1>4. ImportsShape' BY <1>2, Zenon DEF ImportsShape
<1>5. Intent(r)' BY <1>1, Zenon DEF Intent
<1>6. witness.of = r => Copy(r) BY Zenon DEF Alone
<1>7. witness.of = r /\ Busy(r)' => Copy(r)' BY <1>1, <1>2, <1>6, Zenon DEF Busy
<1>8. req'[r].pc # "idle" BY <1>1, Zenon
<1>9. Alone' BY <1>1, <1>5, <1>7, <1>8, OthersStill, Zenon
<1>10. Others(r) BY <1>1, <1>2, Zenon DEF Others
<1> QED BY <1>1, <1>2, <1>3, <1>4, <1>9, <1>10, Zenon

\* The request, with another pc; the copy, with one field changed.
LEMMA Moved ==
  ASSUME ReqShape, NEW r \in Requests, NEW p
  PROVE  LET q == [req[r] EXCEPT !.pc = p] IN
         /\ DOMAIN q = {"pc", "op", "scope", "body", "outcome"}
         /\ q.pc = p /\ q.scope = req[r].scope
  BY DEF ReqShape

LEMMA IntroducedKeeps ==
  ASSUME ReqShape, ImportsShape, DbOK, Alone, NEW r \in Requests, ImportCompanies(r)
  PROVE  ReqShape' /\ ImportsShape' /\ DbOK' /\ Alone' /\ KeptApart(r)
<1> DEFINE new == imports[r].introduced
<1>1. req[r].pc = "companies" /\ witness' = witness BY Zenon DEF ImportCompanies
<1>2. Busy(r) BY <1>1 DEF Busy
<1>3. CASE \E i \in DOMAIN new : NameTaken(new[i], None)
  <2>1. /\ req' = [req EXCEPT ![r].pc = "done", ![r].outcome = "error"]
        /\ UNCHANGED <<db, imports>>
    BY <1>3, Zenon DEF ImportCompanies
  <2>2. ReqShape' /\ ImportsShape' /\ Alone' BY <1>1, <1>2, <2>1, Ending, Zenon
  <2>3. DbOK' BY <2>1, Zenon DEF DbOK
  <2>4. KeptApart(r) BY <2>1, Untouched, Zenon
  <2> QED BY <2>2, <2>3, <2>4
<1>4. CASE ~\E i \in DOMAIN new : NameTaken(new[i], None)
  <2>a. PICK f \in [DOMAIN new -> FreeIds] :
          /\ db' = [db EXCEPT !.companies =
               [id \in DOMAIN @ \cup {f[i] : i \in DOMAIN new} |->
                  IF id \in DOMAIN @ THEN @[id] ELSE new[CHOOSE i \in DOMAIN new : f[i] = id]]]
          /\ imports' = [imports EXCEPT ![r].known =
               [n \in DOMAIN @ \cup {new[i] : i \in DOMAIN new} |->
                  IF n \in DOMAIN @ THEN @[n] ELSE f[CHOOSE i \in DOMAIN new : new[i] = n]]]
          /\ req' = [req EXCEPT ![r].pc = "read"]
    BY <1>4, Zenon DEF ImportCompanies
  <2> DEFINE c == [id \in DOMAIN db.companies \cup {f[i] : i \in DOMAIN new} |->
                     IF id \in DOMAIN db.companies THEN db.companies[id]
                     ELSE new[CHOOSE i \in DOMAIN new : f[i] = id]]
             k == [n \in DOMAIN imports[r].known \cup {new[i] : i \in DOMAIN new} |->
                     IF n \in DOMAIN imports[r].known THEN imports[r].known[n]
                     ELSE f[CHOOSE i \in DOMAIN new : new[i] = n]]
             m == [imports[r] EXCEPT !.known = k]
             q == [req[r] EXCEPT !.pc = "read"]
  <2>1. db' = [db EXCEPT !.companies = c] BY <2>a, Zenon
  <2>2. imports' = [imports EXCEPT ![r] = m] BY <2>a, Zenon
  <2>3. req' = [req EXCEPT ![r] = q] BY <2>a, Zenon
  <2>4. DOMAIN c \subseteq Ids BY <2>a DEF FreeIds, DbOK
  <2>5. \A e \in DOMAIN db.students : db.students[e].company \in DOMAIN c
    BY DEF DbOK
  <2> HIDE DEF c, k
  <2>6. DbOK' /\ KeptApart(r) BY <2>1, <2>4, <2>5, CompanyWritten, Zenon
  <2>7. ImportShape(imports[r]) BY Zenon DEF ImportsShape
  <2>8. DOMAIN m = DOMAIN imports[r] OBVIOUS
  <2>9. m.stages = imports[r].stages BY <2>7 DEF ImportShape
  <2>10. m.base = imports[r].base BY <2>7 DEF ImportShape
  <2>11. ImportShape(m) BY <2>7, <2>8, <2>9, Zenon DEF ImportShape
  <2>12. /\ DOMAIN q = {"pc", "op", "scope", "body", "outcome"}
         /\ q.pc = "read" /\ q.scope = req[r].scope
    BY Moved
  <2> HIDE DEF m, q
  <2>13. ASSUME witness.of = r, Copy(r), req'[r] = q, imports'[r] = m, q.pc # "done"
         PROVE  Copy(r)'
    <3>1. DOMAIN imports'[r].base = {} /\ imports'[r].stages = <<>>
      BY <1>1, <2>9, <2>10, <2>13 DEF Copy, Copying
    <3>2. Agree(imports[r].base)' BY <3>1 DEF Agree
    <3> QED BY <2>12, <2>13, <3>1, <3>2 DEF Copy, Copying
  <2>14. q.pc \notin {"idle", "write"} BY <2>12
  <2>15. ReqShape' /\ ImportsShape' /\ Alone'
    BY <1>1, <1>2, <2>2, <2>3, <2>11, <2>12, <2>13, <2>14, ImportMoves, Zenon
  <2> QED BY <2>6, <2>15
<1> QED BY <1>3, <1>4

LEMMA PrefixTables ==
  /\ Cardinality({}) = 0 /\ Cardinality({"regions"}) = 1
  /\ Cardinality({"regions", "students"}) = 2
  /\ Cardinality({"regions", "students", "trainings"}) = 3
<1>1. IsFiniteSet({}) /\ Cardinality({}) = 0 BY FS_EmptySet
<1>2. IsFiniteSet({"regions"}) /\ Cardinality({"regions"}) = 1 BY FS_Singleton
<1>3. /\ IsFiniteSet({"regions"} \cup {"students"})
      /\ Cardinality({"regions"} \cup {"students"}) = 2
  BY <1>2, FS_AddElement
<1>4. {"regions"} \cup {"students"} = {"regions", "students"} OBVIOUS
<1>5. Cardinality({"regions", "students"} \cup {"trainings"}) = 3
  BY <1>3, <1>4, FS_AddElement
<1>6. {"regions", "students"} \cup {"trainings"} = {"regions", "students", "trainings"} OBVIOUS
<1> QED BY <1>1, <1>2, <1>3, <1>4, <1>5, <1>6

\* The tables are read in this order.
TablesRead == {{}, {"regions"}, {"regions", "students"}, {"regions", "students", "trainings"}}

\* What the import has read, and where it goes from there.
ReadOn(r) ==
  /\ imports'[r].rows = imports[r].rows /\ imports'[r].at = imports[r].at
  /\ req'[r].body = req[r].body
  /\ "regions" \in DOMAIN imports'[r].base =>
       \/ imports'[r].base.regions = db.regions
       \/ /\ "regions" \in DOMAIN imports[r].base
          /\ imports'[r].base.regions = imports[r].base.regions
  /\ DOMAIN imports[r].base \in TablesRead =>
       \/ req'[r].pc = "chunk" /\ DOMAIN imports'[r].base = Copied
       \/ req'[r].pc = "read" /\ DOMAIN imports'[r].base \in TablesRead

LEMMA ReadsTables ==
  ASSUME ReqShape, ImportsShape, DbOK, Alone, NEW r \in Requests, ImportReads(r)
  PROVE  /\ ReqShape' /\ ImportsShape' /\ DbOK' /\ Alone' /\ KeptApart(r)
         /\ Others(r) /\ ReadOn(r) /\ db' = db
<1> DEFINE base == imports[r].base
           t == Tables[Cardinality(DOMAIN base) + 1]
           p == IF t = "taken" THEN "chunk" ELSE "read"
           m == [imports[r] EXCEPT !.base = Put(base, t, db[t])]
           q == [req[r] EXCEPT !.pc = p]
<1>1. /\ req[r].pc = "read" /\ witness' = witness /\ db' = db
      /\ imports' = [imports EXCEPT ![r].base = Put(@, t, db[t])]
      /\ req' = [req EXCEPT ![r].pc = IF t = "taken" THEN "chunk" ELSE @]
  BY Zenon DEF ImportReads
<1>2. imports' = [imports EXCEPT ![r] = m] BY <1>1, Zenon
<1>3. req' = [req EXCEPT ![r] = q] BY <1>1
<1>4. Busy(r) BY <1>1 DEF Busy
<1>5. ImportShape(imports[r]) BY Zenon DEF ImportsShape
<1> HIDE DEF t
<1>6. DOMAIN m = DOMAIN imports[r] OBVIOUS
<1>7. m.stages = imports[r].stages BY <1>5 DEF ImportShape
<1>8. m.base = Put(base, t, db[t]) BY <1>5 DEF ImportShape
<1>a. m.rows = imports[r].rows BY <1>5 DEF ImportShape
<1>b. m.at = imports[r].at BY <1>5 DEF ImportShape
<1>c. q.body = req[r].body BY DEF ReqShape
<1>9. ImportShape(m) BY <1>5, <1>6, <1>7, <1>a, <1>b, Zenon DEF ImportShape
<1>10. /\ DOMAIN q = {"pc", "op", "scope", "body", "outcome"}
       /\ q.pc = p /\ q.scope = req[r].scope
  BY Moved
<1> HIDE DEF m, q
<1>11. p \in {"chunk", "read"} OBVIOUS
<1>12. q.pc \notin {"idle", "write"} BY <1>10, <1>11
<1>d. IsPut(m.base, base, t, db[t]) BY <1>8, PutIs, Zenon
<1>e. ASSUME DOMAIN base \in TablesRead
      PROVE  /\ \/ t = "regions" /\ DOMAIN base = {}
                \/ t = "students" /\ DOMAIN base = {"regions"}
                \/ t = "trainings" /\ DOMAIN base = {"regions", "students"}
                \/ t = "taken" /\ DOMAIN base = {"regions", "students", "trainings"}
             /\ \/ q.pc = "chunk" /\ DOMAIN m.base = Copied
                \/ q.pc = "read" /\ DOMAIN m.base \in TablesRead
  <2>1. \/ t = "regions" /\ DOMAIN base = {}
        \/ t = "students" /\ DOMAIN base = {"regions"}
        \/ t = "trainings" /\ DOMAIN base = {"regions", "students"}
        \/ t = "taken" /\ DOMAIN base = {"regions", "students", "trainings"}
    BY <1>e, PrefixTables DEF Tables, t, TablesRead
  <2>2. DOMAIN m.base = DOMAIN base \cup {t} BY <1>d DEF IsPut
  <2> QED BY <1>10, <2>1, <2>2 DEF Copied, TablesRead
<1>13. ASSUME witness.of = r, Copy(r), req'[r] = q, imports'[r] = m, q.pc # "done"
       PROVE  Copy(r)'
  <2>1. Agree(base) /\ imports[r].stages = <<>> /\ DOMAIN base \in TablesRead
    BY <1>1, <1>13 DEF Copy, Copying, TablesRead
  <2>4. Agree(m.base) BY <2>1, <1>d, <1>e DEF Agree, IsPut
  <2>5. Agree(imports[r].base)' BY <1>1, <1>13, <2>4, Zenon DEF Agree
  <2>7. \/ q.pc = "chunk" /\ DOMAIN m.base = Copied
        \/ q.pc = "read" /\ DOMAIN m.base \in TablesRead
    BY <1>e, <2>1
  <2>8. imports'[r].base = m.base /\ imports'[r].stages = <<>> /\ req'[r].pc = q.pc
    BY <1>7, <1>13, <2>1, Zenon
  <2> QED BY <2>5, <2>7, <2>8 DEF Copy, Copying, TablesRead
<1>14. /\ ReqShape' /\ ImportsShape' /\ Alone'
       /\ req'[r] = q /\ imports'[r] = m /\ Others(r)
  BY <1>1, <1>2, <1>3, <1>4, <1>9, <1>10, <1>12, <1>13, ImportMoves, Zenon
<1>15. DbOK' BY <1>1, Zenon DEF DbOK
<1>16. KeptApart(r) BY <1>1, Untouched, Zenon
<1>18. "regions" \in DOMAIN m.base =>
         \/ m.base.regions = db.regions
         \/ "regions" \in DOMAIN base /\ m.base.regions = base.regions
  BY <1>d DEF IsPut
<1>17. ReadOn(r) BY <1>a, <1>b, <1>c, <1>e, <1>14, <1>18, Zenon DEF ReadOn
<1> QED BY <1>1, <1>14, <1>15, <1>16, <1>17

-----------------------------------------------------------------------------
LEMMA TableTails ==
  /\ Tables # <<>> /\ Head(Tables) = "regions"
  /\ Tail(Tables) = <<"students", "trainings", "taken">>
  /\ <<"students", "trainings", "taken">> # <<>>
  /\ Head(<<"students", "trainings", "taken">>) = "students"
  /\ Tail(<<"students", "trainings", "taken">>) = <<"trainings", "taken">>
  /\ <<"trainings", "taken">> # <<>> /\ Head(<<"trainings", "taken">>) = "trainings"
  /\ Tail(<<"trainings", "taken">>) = <<"taken">>
  /\ <<"taken">> # <<>> /\ Head(<<"taken">>) = "taken" /\ Tail(<<"taken">>) = <<>>
<1>1. Tables # <<>> /\ Head(Tables) = "regions" BY DEF Tables
<1>2. Tail(Tables) = <<"students", "trainings", "taken">> BY DEF Tables
<1>3. <<"students", "trainings", "taken">> # <<>> OBVIOUS
<1>4. Head(<<"students", "trainings", "taken">>) = "students" OBVIOUS
<1>5. Tail(<<"students", "trainings", "taken">>) = <<"trainings", "taken">> OBVIOUS
<1>6. <<"trainings", "taken">> # <<>> OBVIOUS
<1>7. Head(<<"trainings", "taken">>) = "trainings" OBVIOUS
<1>8. Tail(<<"trainings", "taken">>) = <<"taken">> OBVIOUS
<1>9. <<"taken">> # <<>> /\ Head(<<"taken">>) = "taken" OBVIOUS
<1>10. Tail(<<"taken">>) = <<>> OBVIOUS
<1> QED BY <1>1, <1>2, <1>3, <1>4, <1>5, <1>6, <1>7, <1>8, <1>9, <1>10

LEMMA LongLists ==
  /\ Tables \notin {<<"trainings", "taken">>, <<"taken">>}
  /\ <<"students", "trainings", "taken">> \notin {<<"trainings", "taken">>, <<"taken">>}
  /\ <<>> \notin {<<"trainings", "taken">>, <<"taken">>}
<1>1. Head(<<"trainings", "taken">>) = "trainings" /\ Head(<<"taken">>) = "taken"
  BY TableTails
<1>2. Head(Tables) = "regions" BY TableTails
<1>3. Head(<<"students", "trainings", "taken">>) = "students" BY TableTails
<1>4. Tables # <<"trainings", "taken">> BY <1>1, <1>2
<1>5. Tables # <<"taken">> BY <1>1, <1>2
<1>6. <<"students", "trainings", "taken">> # <<"trainings", "taken">> BY <1>1, <1>3
<1>7. <<"students", "trainings", "taken">> # <<"taken">> BY <1>1, <1>3
<1>8. <<>> # <<"trainings", "taken">> /\ <<>> # <<"taken">> BY TableTails
<1> QED BY <1>4, <1>5, <1>6, <1>7, <1>8

\* The first stage, and those after it.
LEMMA NextStage ==
  ASSUME NEW s \in StageLists, s # <<>>
  PROVE  /\ Head(s) \in Copied /\ Tail(s) \in StageLists /\ Tail(s) # Tables
         /\ Tail(s) \in {<<"trainings", "taken">>, <<"taken">>} =>
              \/ Head(s) = "students"
              \/ Head(s) = "trainings" /\ s \in {<<"trainings", "taken">>, <<"taken">>}
         /\ Head(s) = "taken" => s \in {<<"trainings", "taken">>, <<"taken">>}
<1>1. CASE s = Tables BY <1>1, TableTails, LongLists DEF StageLists, Copied
<1>2. CASE s = <<"students", "trainings", "taken">>
  BY <1>2, TableTails, LongLists DEF StageLists, Copied
<1>3. CASE s = <<"trainings", "taken">>
  BY <1>3, TableTails, LongLists DEF StageLists, Copied
<1>4. CASE s = <<"taken">>
  BY <1>4, TableTails, LongLists DEF StageLists, Copied
<1> QED BY <1>1, <1>2, <1>3, <1>4 DEF StageLists

LEMMA CompanyIs ==
  ASSUME NEW r, NEW i
  PROVE  /\ CompanyOf(r, i) = CompanyFor(imports[r], req[r].scope, i)
         /\ CompanyOf(r, i) # None => CompanyOf(r, i) \in req[r].scope
<1>1. CompanyOf(r, i) = CompanyFor(imports[r], req[r].scope, i)
  BY Zenon DEF CompanyOf, CompanyFor
<1>2. CompanyOf(r, i) # None => CompanyOf(r, i) \in req[r].scope BY DEF CompanyOf
<1> QED BY <1>1, <1>2

LEMMA RowStages ==
  ASSUME NEW r, NEW i
  PROVE  /\ StagesAt(r, i) \in StageLists
         /\ StagesAt(r, i) \notin {<<"trainings", "taken">>, <<"taken">>}
         /\ StagesAt(r, i) # <<>> => CompanyOf(r, i) # None
<1>1. StagesAt(r, i) \in {Tables, <<"students", "trainings", "taken">>, <<>>}
  BY TableTails, Zenon DEF StagesAt, Stages
<1>2. StagesAt(r, i) # <<>> => CompanyOf(r, i) # None BY Zenon DEF StagesAt
<1>3. StagesAt(r, i) \notin {<<"trainings", "taken">>, <<"taken">>} BY <1>1, LongLists, Zenon
<1>4. StagesAt(r, i) \in StageLists BY <1>1, Zenon DEF StageLists
<1> QED BY <1>2, <1>3, <1>4

\* The row, and the stages it is left with.
NextRow(r) ==
  LET more == imports[r].at < req[r].body.last IN
  /\ imports'[r].rows = imports[r].rows /\ imports'[r].at = imports[r].at + 1
  /\ imports'[r].base = imports[r].base
  /\ imports'[r].stages = IF more THEN StagesAt(r, imports[r].at + 1) ELSE <<>>
  /\ req'[r].pc = IF more THEN "slow" ELSE "chunk"
  /\ req'[r].body = req[r].body

LEMMA NextRowKeeps ==
  ASSUME ReqShape, ImportsShape, DbOK, Alone, NEW r \in Requests, SlowNextRow(r)
  PROVE  /\ ReqShape' /\ ImportsShape' /\ DbOK' /\ Alone' /\ KeptApart(r)
         /\ Others(r) /\ NextRow(r) /\ db' = db
<1> DEFINE at == imports[r].at
           more == at < req[r].body.last
           out == IF CompanyOf(r, at) = None THEN Failed(imports[r].out, at) ELSE imports[r].out
           s == IF more THEN StagesAt(r, at + 1) ELSE <<>>
           m == [imports[r] EXCEPT !.at = at + 1, !.out = out, !.stages = s]
           p == IF more THEN "slow" ELSE "chunk"
           q == [req[r] EXCEPT !.pc = p]
<1>1. /\ req[r].pc = "slow" /\ witness' = witness /\ db' = db
      /\ imports' = [imports EXCEPT ![r].at = @ + 1,
           ![r].out = IF CompanyOf(r, imports[r].at) = None THEN Failed(@, imports[r].at) ELSE @,
           ![r].stages = IF imports[r].at < req[r].body.last THEN StagesAt(r, imports[r].at + 1)
                         ELSE <<>>]
      /\ req' = [req EXCEPT ![r].pc = IF imports[r].at < req[r].body.last THEN @ ELSE "chunk"]
  BY Zenon DEF SlowNextRow, Slow
<1>2. ImportShape(imports[r]) BY Zenon DEF ImportsShape
<1>3. imports' = [imports EXCEPT ![r] = m] BY <1>1, <1>2 DEF ImportShape, ImportsShape
<1>4. req' = [req EXCEPT ![r] = q] BY <1>1
<1>5. Busy(r) BY <1>1 DEF Busy
<1>6. /\ s \in StageLists /\ s \notin {<<"trainings", "taken">>, <<"taken">>}
      /\ s # <<>> => more /\ CompanyOf(r, at + 1) # None
  BY RowStages, LongLists, Zenon DEF StageLists
<1> HIDE DEF out, s, more
<1>7. DOMAIN m = DOMAIN imports[r] OBVIOUS
<1>8. m.stages = s BY <1>2 DEF ImportShape
<1>9. m.base = imports[r].base BY <1>2 DEF ImportShape
<1>10. m.at = at + 1 BY <1>2 DEF ImportShape
<1>11. m.draft = imports[r].draft BY <1>2 DEF ImportShape
<1>12. m.known = imports[r].known BY <1>2 DEF ImportShape
<1>21. m.rows = imports[r].rows BY <1>2 DEF ImportShape
<1>22. at + 1 \in Nat BY <1>2 DEF ImportShape, at
<1>13. ImportShape(m)
  BY <1>2, <1>6, <1>7, <1>8, <1>10, <1>21, <1>22, Zenon DEF ImportShape
<1>14. /\ DOMAIN q = {"pc", "op", "scope", "body", "outcome"}
       /\ q.pc = p /\ q.scope = req[r].scope
  BY Moved
<1>a. q.body = req[r].body BY DEF ReqShape
<1> HIDE DEF m, q, at
<1>15. p \in {"slow", "chunk"} /\ (s # <<>> => p = "slow") BY <1>6
<1>16. q.pc \notin {"idle", "write"} BY <1>14, <1>15
<1>17. ASSUME witness.of = r, Copy(r), req'[r] = q, imports'[r] = m, q.pc # "done"
       PROVE  Copy(r)'
  <2>1. Agree(imports[r].base) /\ DOMAIN imports[r].base = Copied
    BY <1>1, <1>17, Zenon DEF Copy, Copying
  <2>2. Agree(imports[r].base)' BY <1>1, <1>9, <1>17, <2>1, Zenon DEF Agree
  <2>3. s # <<>> => CompanyFor(m, q.scope, m.at) # None
    <3>1. CompanyOf(r, at + 1) = CompanyFor(imports[r], req[r].scope, at + 1) BY CompanyIs
    <3>2. CompanyFor(m, q.scope, m.at) = CompanyFor(imports[r], req[r].scope, at + 1)
      BY <1>10, <1>11, <1>12, <1>14 DEF CompanyFor
    <3> QED BY <1>6, <3>1, <3>2
  <2>4. Copying(m, q.pc, q.scope)
    BY <1>6, <1>8, <1>9, <1>14, <1>15, <2>1, <2>3 DEF Copying
  <2> QED BY <1>17, <2>2, <2>4, Zenon DEF Copy
<1>18. /\ ReqShape' /\ ImportsShape' /\ Alone'
       /\ req'[r] = q /\ imports'[r] = m /\ Others(r)
  BY <1>1, <1>3, <1>4, <1>5, <1>13, <1>14, <1>16, <1>17, ImportMoves, Zenon
<1>19. DbOK' BY <1>1, Zenon DEF DbOK
<1>20. KeptApart(r) BY <1>1, Untouched, Zenon
<1>23. NextRow(r)
  BY <1>8, <1>9, <1>10, <1>21, <1>14, <1>a, <1>18, Zenon DEF NextRow, at, s, more
<1> QED BY <1>1, <1>18, <1>19, <1>20, <1>23

LEMMA KeyOfRegion ==
  ASSUME NEW row
  PROVE  KeyIn("regions", row) = row.country
  BY DEF KeyIn

LEMMA KeyOfLearner ==
  ASSUME NEW row
  PROVE  KeyIn("students", row) = row.email
  BY DEF KeyIn

\* The copy of a table, after a key of the table may have been added to it.
Widened(old, new, table) ==
  /\ DOMAIN old \subseteq DOMAIN new
  /\ \A k \in DOMAIN new :
       \/ k \in DOMAIN old /\ new[k] = old[k]
       \/ k \in DOMAIN table /\ new[k] = table[k]

LEMMA TableWidened ==
  ASSUME NEW old, NEW new, NEW table, NEW k, NEW v, k \in DOMAIN table, table[k] = v,
         IsPut(new, old, k, v)
  PROVE  Widened(old, new, table)
  BY DEF Widened, IsPut

LEMMA SameIsWidened ==
  ASSUME NEW old, NEW table
  PROVE  Widened(old, old, table)
  BY DEF Widened

\* A stage of the row is over, or the row is.
Stepped(r) ==
  /\ imports'[r].rows = imports[r].rows /\ imports'[r].at = imports[r].at
  /\ imports'[r].stages \in {imports[r].stages, Tail(imports[r].stages), <<>>}
  /\ DOMAIN imports[r].base = Copied =>
       /\ DOMAIN imports'[r].base = Copied
       /\ Widened(imports[r].base.regions, imports'[r].base.regions, db'.regions)
       /\ imports[r].stages = Tables /\ imports'[r].stages = Tail(Tables) =>
            AtRow(r).country \in DOMAIN imports'[r].base.regions
  /\ req' = req

LEMMA LookupKeeps ==
  ASSUME ReqShape, ImportsShape, DbOK, Alone, NEW r \in Requests, SlowLookup(r)
  PROVE  /\ ReqShape' /\ ImportsShape' /\ DbOK' /\ Alone' /\ KeptApart(r)
         /\ Others(r) /\ Stepped(r) /\ db' = db
<1> DEFINE n == imports[r]
           t == Head(n.stages)
           row == AtRow(r)
           k == KeyIn(t, row)
           copy == n.base
           view == IF k \notin DOMAIN copy[t] /\ k \in DOMAIN db[t]
                     THEN [copy EXCEPT ![t] = Put(@, k, db[t][k])] ELSE copy
           out1 == Failed(n.out, n.at)
           out2 == Found(t, row, CompanyOf(r, n.at), view, n.out)
           m1 == [n EXCEPT !.missing = TRUE]
           m2 == [n EXCEPT !.base = view, !.out = out1, !.stages = <<>>]
           m3 == [n EXCEPT !.base = view, !.stages = Tail(n.stages), !.out = out2]
           scope == req[r].scope
           m == IF k \notin DOMAIN view[t] THEN m1
                ELSE IF Foreign(t, row, view, scope) THEN m2 ELSE m3
           q == req[r]
<1>1. /\ req[r].pc = "slow" /\ n.stages # <<>> /\ witness' = witness /\ db' = db
      /\ req' = req
  BY Zenon DEF SlowLookup, Slow
<1>2. imports' = [imports EXCEPT ![r] =
       IF k \notin DOMAIN view[t] THEN [n EXCEPT !.missing = TRUE]
       ELSE IF Foreign(t, row, view, req[r].scope)
         THEN [n EXCEPT !.base = view, !.out = Failed(@, n.at), !.stages = <<>>]
       ELSE [n EXCEPT !.base = view, !.stages = Tail(@),
               !.out = Found(t, row, CompanyOf(r, n.at), view, @)]]
  BY Zenon DEF SlowLookup
<1>3. ImportShape(n) BY Zenon DEF ImportsShape
<1> HIDE DEF view, t, k, row
<1>4. imports' = [imports EXCEPT ![r] = m]
  <2>1. [n EXCEPT !.base = view, !.out = Failed(@, n.at), !.stages = <<>>] = m2
    BY <1>3 DEF ImportShape
  <2>2. [n EXCEPT !.base = view, !.stages = Tail(@),
                  !.out = Found(t, row, CompanyOf(r, n.at), view, @)] = m3
    BY <1>3 DEF ImportShape
  <2> QED BY <1>2, <2>1, <2>2, Zenon
<1>5. req' = req /\ q = req[r] BY <1>1
<1>6. Busy(r) BY <1>1 DEF Busy
<1>7. /\ t \in Copied /\ Tail(n.stages) \in StageLists /\ n.stages \in StageLists
      /\ <<>> \in StageLists
  BY <1>1, <1>3, NextStage, Zenon DEF ImportShape, t, StageLists
<1> HIDE DEF out1, out2
\* Whatever the row comes to, the import keeps its rows and its companies.
<1>8. /\ DOMAIN m = DOMAIN n /\ m.at = n.at /\ m.draft = n.draft /\ m.known = n.known
      /\ m.rows = n.rows
  <2>1. DOMAIN m = DOMAIN n OBVIOUS
  <2>2. m.at = n.at BY <1>3 DEF ImportShape
  <2>3. m.draft = n.draft BY <1>3 DEF ImportShape
  <2>4. m.known = n.known BY <1>3 DEF ImportShape
  <2>5. m.rows = n.rows BY <1>3 DEF ImportShape
  <2> QED BY <2>1, <2>2, <2>3, <2>4, <2>5
<1>9. \/ k \notin DOMAIN view[t] /\ m.base = n.base /\ m.stages = n.stages
      \/ m.base = view /\ m.stages = <<>>
      \/ /\ m.base = view /\ m.stages = Tail(n.stages)
         /\ k \in DOMAIN view[t] /\ ~Foreign(t, row, view, scope)
  <2>1. CASE k \notin DOMAIN view[t]
    <3>1. m1.base = n.base BY <1>3 DEF ImportShape
    <3>2. m1.stages = n.stages BY <1>3 DEF ImportShape
    <3> QED BY <2>1, <3>1, <3>2, Zenon
  <2>2. CASE k \in DOMAIN view[t] /\ Foreign(t, row, view, scope)
    <3>1. m2.base = view BY <1>3 DEF ImportShape
    <3>2. m2.stages = <<>> BY <1>3 DEF ImportShape
    <3> QED BY <2>2, <3>1, <3>2, Zenon
  <2>3. CASE k \in DOMAIN view[t] /\ ~Foreign(t, row, view, scope)
    <3>1. m3.base = view BY <1>3 DEF ImportShape
    <3>2. m3.stages = Tail(n.stages) BY <1>3 DEF ImportShape
    <3> QED BY <2>3, <3>1, <3>2, Zenon
  <2> QED BY <2>1, <2>2, <2>3, Zenon
<1> HIDE DEF m, m1, m2, m3, q
<1>10. ImportShape(m)
  BY <1>3, <1>7, <1>8, <1>9, Zenon DEF ImportShape
<1>11. /\ DOMAIN q = {"pc", "op", "scope", "body", "outcome"}
       /\ q.pc = "slow" /\ q.scope = req[r].scope
  BY <1>1 DEF ReqShape, q
<1>12. q.pc \notin {"idle", "write"} BY <1>11
<1>13. ASSUME witness.of = r, Copy(r), req'[r] = q, imports'[r] = m, q.pc # "done"
       PROVE  Copy(r)'
  <2>1. Agree(copy) /\ DOMAIN copy = Copied /\ CompanyFor(n, scope, n.at) # None
    BY <1>1, <1>13, Zenon DEF Copy, Copying
  <2>2. DOMAIN view = Copied BY <2>1 DEF view
  <2>3. Agree(view)
    <3>1. CASE view = copy BY <2>1, <3>1, Zenon
    <3>2. CASE view = [copy EXCEPT ![t] = Put(copy[t], k, db[t][k])] /\ t = "students"
      <4>1. view.students = Put(copy.students, k, db.students[k])
        BY <2>1, <3>2 DEF Copied
      <4>2. IsPut(view.students, copy.students, k, db.students[k]) BY <4>1, PutIs, Zenon
      <4> QED BY <2>1, <4>2 DEF Agree, IsPut, Copied
    <3>3. CASE view = [copy EXCEPT ![t] = Put(copy[t], k, db[t][k])] /\ t # "students"
      <4>1. view.students = copy.students BY <2>1, <3>3 DEF Copied
      <4> QED BY <2>1, <2>2, <4>1, Zenon DEF Agree
    <3> QED BY <3>1, <3>2, <3>3, Zenon DEF view
  <2>4. Agree(m.base) /\ DOMAIN m.base = Copied BY <1>9, <2>1, <2>2, <2>3, Zenon
  <2>5. Agree(imports[r].base)' BY <1>1, <1>13, <2>4, Zenon DEF Agree
  <2>6. CompanyFor(m, scope, m.at) # None BY <1>8, <2>1 DEF CompanyFor
  <2>7. m.stages \in {<<"trainings", "taken">>, <<"taken">>} =>
          Own(m.base, m.rows[m.at].email, scope)
    <3> SUFFICES ASSUME m.stages \in {<<"trainings", "taken">>, <<"taken">>}
                 PROVE  Own(m.base, m.rows[m.at].email, scope)
      OBVIOUS
    <3>1. row = m.rows[m.at] BY <1>8, Zenon DEF AtRow, row
    <3>2. CASE m.stages = n.stages /\ m.base = n.base
      <4>1. Own(n.base, n.rows[n.at].email, scope)
        BY <1>1, <1>13, <3>2, Zenon DEF Copy, Copying
      <4> QED BY <1>8, <3>2, <4>1, Zenon
    <3>3. CASE m.stages = <<>> BY <3>3, LongLists, Zenon
    <3>4. CASE /\ m.base = view /\ m.stages = Tail(n.stages)
               /\ k \in DOMAIN view[t] /\ ~Foreign(t, row, view, scope)
      <4>1. \/ t = "students"
            \/ t = "trainings" /\ n.stages \in {<<"trainings", "taken">>, <<"taken">>}
        BY <1>1, <1>7, <3>4, NextStage, Zenon DEF t
      <4>2. CASE t = "students"
        <5>1. k = row.email BY <4>2, KeyOfLearner, Zenon DEF k
        <5> QED BY <3>1, <3>4, <4>2, <5>1, Zenon DEF Foreign, Own
      <4>3. CASE t = "trainings" /\ n.stages \in {<<"trainings", "taken">>, <<"taken">>}
        <5>1. Own(n.base, n.rows[n.at].email, scope)
          BY <1>1, <1>13, <4>3, Zenon DEF Copy, Copying
        <5>2. view.students = copy.students BY <2>1, <4>3 DEF Copied, view
        <5> QED BY <1>8, <3>4, <5>1, <5>2, Zenon DEF Own
      <4> QED BY <4>1, <4>2, <4>3
    <3> QED BY <1>9, <3>2, <3>3, <3>4, Zenon
  <2>8. Copying(m, q.pc, q.scope) BY <1>11, <2>4, <2>6, <2>7 DEF Copying
  <2> QED BY <1>13, <2>5, <2>8, Zenon DEF Copy
<1>14. ReqShape' /\ ImportsShape' /\ Alone' /\ imports'[r] = m /\ Others(r)
  BY <1>1, <1>4, <1>5, <1>6, <1>10, <1>11, <1>12, <1>13, ImportMoves, Zenon
<1>15. DbOK' BY <1>1, Zenon DEF DbOK
<1>16. KeptApart(r) BY <1>1, Untouched, Zenon
<1>17. Stepped(r)
  <2>1. DOMAIN copy = Copied => DOMAIN view = Copied BY DEF view
  <2>2. DOMAIN copy = Copied => DOMAIN m.base = Copied BY <1>9, <2>1, Zenon
  <2>3. m.stages \in {n.stages, Tail(n.stages), <<>>} BY <1>9, Zenon
  <2>4. DOMAIN copy = Copied => Widened(copy.regions, view.regions, db.regions)
    <3> SUFFICES ASSUME DOMAIN copy = Copied
                 PROVE  Widened(copy.regions, view.regions, db.regions)
      OBVIOUS
    <3>1. CASE t = "regions" /\ view = [copy EXCEPT ![t] = Put(copy[t], k, db[t][k])]
               /\ k \in DOMAIN db[t]
      <4>1. view.regions = Put(copy.regions, k, db.regions[k]) BY <3>1 DEF Copied
      <4>2. IsPut(view.regions, copy.regions, k, db.regions[k]) BY <4>1, PutIs, Zenon
      <4>3. k \in DOMAIN db.regions BY <3>1
      <4> QED BY <4>2, <4>3, TableWidened, Zenon
    <3>2. CASE view = copy \/ t # "regions"
      <4>1. view.regions = copy.regions BY <3>2 DEF Copied, view
      <4> QED BY <4>1, SameIsWidened, Zenon
    <3> QED BY <3>1, <3>2, Zenon DEF view
  <2>5. DOMAIN copy = Copied => Widened(copy.regions, m.base.regions, db.regions)
    BY <1>9, <2>4, SameIsWidened, Zenon
  <2>6. n.stages = Tables /\ m.stages = Tail(Tables) => row.country \in DOMAIN m.base.regions
    <3> SUFFICES ASSUME n.stages = Tables, m.stages = Tail(Tables)
                 PROVE  row.country \in DOMAIN m.base.regions
      OBVIOUS
    <3>1. t = "regions" BY TableTails, Zenon DEF t
    <3>2. k = row.country BY <3>1, KeyOfRegion, Zenon DEF k
    <3>3. Tail(Tables) # Tables /\ Tail(Tables) # <<>> BY TableTails DEF Tables
    <3>4. m.base = view /\ k \in DOMAIN view[t] BY <1>9, <3>3, Zenon
    <3> QED BY <3>1, <3>2, <3>4, Zenon
  <2> QED BY <1>1, <1>8, <1>14, <2>2, <2>3, <2>5, <2>6, Zenon DEF Stepped, row
<1> QED BY <1>1, <1>14, <1>15, <1>16, <1>17

LEMMA LearnerEntry ==
  ASSUME NEW row, NEW company, NEW view
  PROVE  EntryFor("students", row, company, view).company = company
<1>1. EntryFor("students", row, company, view) =
        [company |-> company, country |-> row.country, theatre |-> Theatre(row, view)]
  BY DEF EntryFor
<1> QED BY <1>1

LEMMA CompletionKey ==
  ASSUME NEW row
  PROVE  KeyIn("taken", row)[1] = row.email
<1>1. KeyIn("taken", row) = <<row.email, row.title, row.date>> BY DEF KeyIn
<1> QED BY <1>1

\* A completion is created: those of the other learners stay.
LEMMA RowsWith ==
  ASSUME NEW k, NEW v, NEW x, k[1] # x, IsPut(db'.taken, db.taken, k, v)
  PROVE  RowsOf(db', x) = RowsOf(db, x)
<1> DEFINE mine == {y \in DOMAIN db.taken : y[1] = x}
<1>1. {y \in DOMAIN db'.taken : y[1] = x} = mine BY DEF IsPut
<1>2. \A y \in mine : db'.taken[y] = db.taken[y] BY DEF IsPut
<1> HIDE DEF mine
<1>3. {<<y, db'.taken[y]>> : y \in mine} = {<<y, db.taken[y]>> : y \in mine}
  BY <1>2, Zenon
<1> QED BY <1>1, <1>3, Zenon DEF RowsOf, mine

LEMMA CreateKeeps ==
  ASSUME ReqShape, ImportsShape, DbOK, Alone, NEW r \in Requests, SlowCreate(r)
  PROVE  /\ ReqShape' /\ ImportsShape' /\ DbOK' /\ Alone'
         /\ Copy(r) => KeptApart(r)
         /\ Others(r) /\ Stepped(r)
<1> DEFINE n == imports[r]
           t == Head(n.stages)
           row == AtRow(r)
           k == KeyIn(t, row)
           company == CompanyOf(r, n.at)
           entry == EntryFor(t, row, company, n.base)
           count == IF t = "taken" /\ k \in DOMAIN db.taken THEN db.taken[k] + 1 ELSE entry
           out1 == Created(t, row, company, n.out)
           out2 == Failed(n.out, n.at)
           m1 == [n EXCEPT !.missing = FALSE, !.stages = Tail(@),
                           !.base[t] = Put(@, k, entry), !.out = Created(t, row, company, @)]
           m2 == [n EXCEPT !.missing = FALSE, !.stages = <<>>, !.out = Failed(@, n.at)]
           m == IF Accepted(t, k, entry) THEN m1 ELSE m2
           scope == req[r].scope
           q == req[r]
<1>1. /\ req[r].pc = "slow" /\ n.stages # <<>> /\ witness' = witness /\ req' = req
  BY Zenon DEF SlowCreate, Slow
<1>2. /\ imports' = [imports EXCEPT ![r] = m]
      /\ Accepted(t, k, entry) => db' = [db EXCEPT ![t] = Put(db[t], k, count)]
      /\ ~Accepted(t, k, entry) => db' = db
  BY Zenon DEF SlowCreate
<1>3. ImportShape(n) BY Zenon DEF ImportsShape
<1> HIDE DEF t, k, row, company, entry, count
<1>4. t \in Copied /\ Tail(n.stages) \in StageLists /\ <<>> \in StageLists
  BY <1>1, <1>3, NextStage, Zenon DEF ImportShape, t, StageLists
<1>5. /\ DOMAIN m = DOMAIN n /\ m.at = n.at /\ m.draft = n.draft /\ m.known = n.known
      /\ m.rows = n.rows
  <2>1. DOMAIN m = DOMAIN n OBVIOUS
  <2>2. m.at = n.at BY <1>3 DEF ImportShape
  <2>3. m.draft = n.draft BY <1>3 DEF ImportShape
  <2>4. m.known = n.known BY <1>3 DEF ImportShape
  <2>5. m.rows = n.rows BY <1>3 DEF ImportShape
  <2> QED BY <2>1, <2>2, <2>3, <2>4, <2>5
<1>6. \/ /\ Accepted(t, k, entry)
         /\ m.base = [n.base EXCEPT ![t] = Put(@, k, entry)] /\ m.stages = Tail(n.stages)
      \/ ~Accepted(t, k, entry) /\ m.base = n.base /\ m.stages = <<>>
  <2>1. CASE Accepted(t, k, entry)
    <3>1. m1.base = [n.base EXCEPT ![t] = Put(@, k, entry)] BY <1>3 DEF ImportShape
    <3>2. m1.stages = Tail(n.stages) BY <1>3 DEF ImportShape
    <3> QED BY <2>1, <3>1, <3>2, Zenon
  <2>2. CASE ~Accepted(t, k, entry)
    <3>1. m2.base = n.base BY <1>3 DEF ImportShape
    <3>2. m2.stages = <<>> BY <1>3 DEF ImportShape
    <3> QED BY <2>2, <3>1, <3>2, Zenon
  <2> QED BY <2>1, <2>2, Zenon
<1> HIDE DEF m, m1, m2, q
<1>7. ImportShape(m) BY <1>3, <1>4, <1>5, <1>6, Zenon DEF ImportShape
<1>8. Busy(r) BY <1>1 DEF Busy
<1>9. req' = req /\ q = req[r] BY <1>1, Zenon DEF q
<1>10. /\ DOMAIN q = {"pc", "op", "scope", "body", "outcome"}
       /\ q.pc = "slow" /\ q.scope = req[r].scope /\ q.pc \notin {"idle", "write"}
  BY <1>1 DEF ReqShape, q
\* What the statement did to the tables.
<1>11. ASSUME Accepted(t, k, entry) PROVE DbOK' /\ (Copy(r) => KeptApart(r))
  <2>1. /\ DOMAIN db' = Fields /\ db'[t] = Put(db[t], k, count)
        /\ \A u \in Fields : u # t => db'[u] = db[u]
    <3>1. t \in Fields BY <1>4 DEF Fields
    <3>2. db' = [db EXCEPT ![t] = Put(db[t], k, count)] BY <1>2, <1>11, Zenon
    <3> QED BY <3>1, <3>2, OneTable, Zenon
  <2>2. db'.companies = db.companies BY <1>4, <2>1 DEF Fields, Copied
  <2>3. CASE t = "students"
    <3>1. k \notin DOMAIN db.students /\ Placed(db, entry) BY <1>11, <2>3 DEF Accepted
    <3>2. count = entry BY <2>3 DEF count
    <3>3. IsPut(db'.students, db.students, k, entry) BY <2>1, <2>3, <3>2, PutIs, Zenon
    <3>4. DbOK' BY <2>1, <2>2, <3>1, <3>3 DEF DbOK, IsPut, Placed
    <3>5. ASSUME Copy(r) PROVE KeptApart(r)
      <4>1. company # None BY <1>1, <3>5, CompanyIs, Zenon DEF Copy, Copying, company
      <4>2. company \in scope BY <4>1, CompanyIs, Zenon DEF company
      <4>3. entry.company = company BY <2>3, LearnerEntry, Zenon DEF entry
      <4>4. \A x : RowsOf(db', x) = RowsOf(db, x)
        <5>1. db'.taken = db.taken BY <2>1, <2>3 DEF Fields, Copied
        <5> QED BY <5>1, SameRows, Zenon
      <4>5. \A x \in DOMAIN db.students :
              x \in DOMAIN db'.students /\ db'.students[x] = db.students[x]
        BY <3>1, <3>3 DEF IsPut
      <4>6. \A x \in DOMAIN db'.students :
              x \in DOMAIN db.students \/ db'.students[x].company \in scope
        BY <3>3, <4>2, <4>3 DEF IsPut
      <4> QED BY <4>4, <4>5, <4>6, Apart, Zenon
    <3> QED BY <3>4, <3>5
  <2>4. CASE t # "students"
    <3>1. db'.students = db.students BY <2>1, <2>4 DEF Fields, Copied
    <3>2. DbOK' BY <2>1, <2>2, <3>1, Zenon DEF DbOK
    <3>3. CASE t # "taken"
      <4>1. db'.taken = db.taken BY <2>1, <3>3 DEF Fields, Copied
      <4> QED BY <3>1, <3>2, <4>1, Untouched, Zenon
    <3>4. CASE t = "taken"
      <4>1. ASSUME Copy(r) PROVE KeptApart(r)
        <5>1. n.stages \in {<<"trainings", "taken">>, <<"taken">>}
          BY <1>1, <1>3, <3>4, NextStage, Zenon DEF t, ImportShape
        <5>2. Own(n.base, row.email, scope) /\ Agree(n.base) /\ DOMAIN n.base = Copied
          BY <1>1, <4>1, <5>1, Zenon DEF Copy, Copying, row, AtRow
        <5>3. k[1] = row.email BY <3>4, CompletionKey, Zenon DEF k
        <5>4. k[1] \in DOMAIN db.students BY <1>11, <3>4 DEF Accepted
        <5>5. db.students[k[1]].company \in scope
          BY <5>2, <5>3, <5>4 DEF Own, Agree, Copied
        <5>6. IsPut(db'.taken, db.taken, k, count) BY <2>1, <3>4, PutIs, Zenon
        <5>7. \A x : x # k[1] => RowsOf(db', x) = RowsOf(db, x)
          BY <5>6, RowsWith, Zenon
        <5> QED BY <3>1, <5>5, <5>7, Apart, Zenon
      <4> QED BY <3>2, <4>1
    <3> QED BY <3>3, <3>4
  <2> QED BY <2>3, <2>4
<1>12. ASSUME ~Accepted(t, k, entry) PROVE DbOK' /\ (Copy(r) => KeptApart(r))
  <2>1. db' = db BY <1>2, <1>12, Zenon
  <2>2. DbOK' BY <2>1, Zenon DEF DbOK
  <2> QED BY <2>1, <2>2, Untouched, Zenon
<1>13. DbOK' /\ (Copy(r) => KeptApart(r)) BY <1>11, <1>12, Zenon
<1>14. ASSUME witness.of = r, Copy(r), req'[r] = q, imports'[r] = m, q.pc # "done"
       PROVE  Copy(r)'
  <2>1. Agree(n.base) /\ DOMAIN n.base = Copied /\ CompanyFor(n, scope, n.at) # None
    BY <1>1, <1>14, Zenon DEF Copy, Copying
  <2>2. CASE ~Accepted(t, k, entry)
    <3>1. db' = db /\ m.base = n.base /\ m.stages = <<>> BY <1>2, <1>6, <2>2, Zenon
    <3>2. Agree(imports[r].base)' BY <1>14, <2>1, <3>1, Zenon DEF Agree
    <3>3. Copying(m, q.pc, q.scope) BY <1>10, <2>1, <3>1, LongLists DEF Copying
    <3> QED BY <1>14, <3>2, <3>3, Zenon DEF Copy
  <2>3. CASE Accepted(t, k, entry)
    <3>1. /\ m.base = [n.base EXCEPT ![t] = Put(@, k, entry)] /\ m.stages = Tail(n.stages)
          /\ db' = [db EXCEPT ![t] = Put(db[t], k, count)]
      BY <1>2, <1>6, <2>3, Zenon
    <3>2. DOMAIN m.base = Copied BY <2>1, <3>1
    <3>3. t # "students" => m.base.students = n.base.students /\ db'.students = db.students
      BY <1>4, <2>1, <3>1 DEF Copied, DbOK, Fields
    <3>4. t = "students" => /\ m.base.students = Put(n.base.students, k, entry)
                            /\ db'.students = Put(db.students, k, entry)
      <4>1. t = "students" => count = entry BY DEF count
      <4> QED BY <2>1, <3>1, <4>1 DEF Copied, DbOK, Fields
    <3>5. Agree(imports[r].base)'
      <4>1. CASE t # "students" BY <1>14, <2>1, <3>2, <3>3, <4>1, Zenon DEF Agree
      <4>2. CASE t = "students"
        <5>1. IsPut(m.base.students, n.base.students, k, entry) BY <3>4, <4>2, PutIs, Zenon
        <5>2. IsPut(db'.students, db.students, k, entry) BY <3>4, <4>2, PutIs, Zenon
        <5>3. \A e \in DOMAIN m.base.students \cap DOMAIN db'.students :
                m.base.students[e] = db'.students[e]
          BY <2>1, <5>1, <5>2 DEF Agree, IsPut, Copied
        <5> QED BY <1>14, <5>3, Zenon DEF Agree
      <4> QED BY <4>1, <4>2
    <3>6. CompanyFor(m, scope, m.at) # None BY <1>5, <2>1 DEF CompanyFor
    <3>7. m.stages \in {<<"trainings", "taken">>, <<"taken">>} =>
            Own(m.base, m.rows[m.at].email, scope)
      <4> SUFFICES ASSUME m.stages \in {<<"trainings", "taken">>, <<"taken">>}
                   PROVE  Own(m.base, m.rows[m.at].email, scope)
        OBVIOUS
      <4>1. row = m.rows[m.at] BY <1>5, Zenon DEF AtRow, row
      <4>2. \/ t = "students"
            \/ t = "trainings" /\ n.stages \in {<<"trainings", "taken">>, <<"taken">>}
        BY <1>1, <1>3, <3>1, NextStage, Zenon DEF t, ImportShape
      <4>3. CASE t = "students"
        <5>1. k = row.email BY <4>3, KeyOfLearner, Zenon DEF k
        <5>2. entry.company = company BY <4>3, LearnerEntry, Zenon DEF entry
        <5>3. company \in scope
          <6>1. company # None BY <2>1, CompanyIs, Zenon DEF company
          <6> QED BY <6>1, CompanyIs, Zenon DEF company
        <5>4. IsPut(m.base.students, n.base.students, k, entry) BY <3>4, <4>3, PutIs, Zenon
        <5> QED BY <4>1, <5>1, <5>2, <5>3, <5>4 DEF Own, IsPut
      <4>4. CASE t = "trainings" /\ n.stages \in {<<"trainings", "taken">>, <<"taken">>}
        <5>1. Own(n.base, n.rows[n.at].email, scope)
          BY <1>1, <1>14, <4>4, Zenon DEF Copy, Copying
        <5>2. m.base.students = n.base.students BY <3>3, <4>4
        <5> QED BY <1>5, <5>1, <5>2, Zenon DEF Own
      <4> QED BY <4>2, <4>3, <4>4
    <3>8. Copying(m, q.pc, q.scope) BY <1>10, <3>2, <3>6, <3>7 DEF Copying
    <3> QED BY <1>14, <3>5, <3>8, Zenon DEF Copy
  <2> QED BY <2>2, <2>3
<1>15. ReqShape' /\ ImportsShape' /\ Alone' /\ imports'[r] = m /\ Others(r)
  BY <1>1, <1>2, <1>7, <1>8, <1>9, <1>10, <1>14, ImportMoves, Zenon
<1>16. Stepped(r)
  <2>1. DOMAIN n.base = Copied => DOMAIN m.base = Copied
    <3>1. DOMAIN [n.base EXCEPT ![t] = Put(@, k, entry)] = DOMAIN n.base OBVIOUS
    <3> QED BY <1>6, <3>1, Zenon
  <2>2. m.stages \in {n.stages, Tail(n.stages), <<>>} BY <1>6, Zenon
  <2>3. DOMAIN n.base = Copied => Widened(n.base.regions, m.base.regions, db'.regions)
    <3> SUFFICES ASSUME DOMAIN n.base = Copied
                 PROVE  Widened(n.base.regions, m.base.regions, db'.regions)
      OBVIOUS
    <3>1. CASE Accepted(t, k, entry) /\ t = "regions"
      <4>1. /\ m.base = [n.base EXCEPT ![t] = Put(@, k, entry)]
            /\ db' = [db EXCEPT ![t] = Put(db[t], k, count)]
        BY <1>2, <1>6, <3>1, Zenon
      <4>2. count = entry BY <3>1 DEF count
      <4>3. m.base.regions = Put(n.base.regions, k, entry) BY <3>1, <4>1 DEF Copied
      <4>4. db'.regions = Put(db.regions, k, entry)
        BY <3>1, <4>1, <4>2 DEF Copied, DbOK, Fields
      <4>5. IsPut(m.base.regions, n.base.regions, k, entry) BY <4>3, PutIs, Zenon
      <4>6. k \in DOMAIN db'.regions /\ db'.regions[k] = entry BY <4>4 DEF Put
      <4> QED BY <4>5, <4>6, TableWidened, Zenon
    <3>2. CASE ~Accepted(t, k, entry) \/ t # "regions"
      <4>1. m.base = n.base \/ (t # "regions" /\ m.base = [n.base EXCEPT ![t] = Put(@, k, entry)])
        BY <1>6, <3>2, Zenon
      <4>2. m.base.regions = n.base.regions BY <4>1 DEF Copied
      <4> QED BY <4>2, SameIsWidened, Zenon
    <3> QED BY <3>1, <3>2
  <2>4. DOMAIN n.base = Copied /\ n.stages = Tables /\ m.stages = Tail(Tables) =>
          row.country \in DOMAIN m.base.regions
    <3> SUFFICES ASSUME DOMAIN n.base = Copied, n.stages = Tables, m.stages = Tail(Tables)
                 PROVE  row.country \in DOMAIN m.base.regions
      OBVIOUS
    <3>1. t = "regions" BY TableTails, Zenon DEF t
    <3>2. k = row.country BY <3>1, KeyOfRegion, Zenon DEF k
    <3>3. Tail(Tables) # <<>> BY TableTails DEF Tables
    <3>4. m.base = [n.base EXCEPT ![t] = Put(@, k, entry)] BY <1>6, <3>3, Zenon
    <3>5. m.base.regions = Put(n.base.regions, k, entry) BY <3>1, <3>4 DEF Copied
    <3> QED BY <3>2, <3>5 DEF Put
  <2> QED BY <1>1, <1>5, <1>15, <2>1, <2>2, <2>3, <2>4, Zenon DEF Stepped, row
<1> QED BY <1>13, <1>15, <1>16

-----------------------------------------------------------------------------
\* The rows of a chunk, taken on the copy one after the other.

LEMMA LeastIsThere ==
  ASSUME NEW numbers \in SUBSET Nat, numbers # {}
  PROVE  \E x \in numbers : \A y \in numbers : x <= y
<1>1. PICK x \in numbers : \A y \in numbers : ~(<<y, x>> \in OpToRel(<, Nat))
  BY Zenon, NatLessThanWellFounded, WFMin
<1>2. \A y \in numbers : ~(y < x) BY <1>1 DEF OpToRel
<1>3. x \in Nat /\ \A y \in numbers : y \in Nat OBVIOUS
<1> QED BY <1>2, <1>3

\* f takes the first m rows of the chunk.
Takes(r, f, m) ==
  f = [n \in 0..m |-> IF n = 0 THEN Untried(r) ELSE Worked(r, f[n - 1], Chunk(r)[n])]

LEMMA TakesFirst ==
  ASSUME NEW r
  PROVE  \E f : Takes(r, f, 0)
<1> DEFINE f == [n \in 0..0 |-> Untried(r)]
<1>1. f = [n \in 0..0 |-> IF n = 0 THEN Untried(r) ELSE Worked(r, f[n - 1], Chunk(r)[n])]
  OBVIOUS
<1> QED BY <1>1, Zenon DEF Takes

LEMMA TakesNext ==
  ASSUME NEW r, NEW m \in Nat, NEW f, Takes(r, f, m)
  PROVE  \E g : Takes(r, g, m + 1)
<1> DEFINE w(c, n) == Worked(r, c, Chunk(r)[n])
           g == [n \in 0..(m + 1) |-> IF n = m + 1 THEN w(f[m], n) ELSE f[n]]
<1>1. f = [n \in 0..m |-> IF n = 0 THEN Untried(r) ELSE w(f[n - 1], n)]
  BY Zenon DEF Takes
<1> HIDE DEF w
<1>2. \A n \in 0..m : f[n] = IF n = 0 THEN Untried(r) ELSE w(f[n - 1], n) BY <1>1
<1>3. \A n \in 0..(m + 1) : g[n] = IF n = 0 THEN Untried(r) ELSE w(g[n - 1], n)
  <2> SUFFICES ASSUME NEW n \in 0..(m + 1)
               PROVE  g[n] = IF n = 0 THEN Untried(r) ELSE w(g[n - 1], n)
    OBVIOUS
  <2>1. CASE n = m + 1
    <3>1. g[n] = w(f[m], n) /\ n # 0 /\ n - 1 = m /\ m \in 0..(m + 1) /\ m # m + 1 BY <2>1
    <3>2. g[m] = f[m] BY <3>1
    <3> QED BY <3>1, <3>2
  <2>2. CASE n = 0
    <3>1. g[n] = f[0] /\ 0 \in 0..m BY <2>2
    <3> QED BY <1>2, <2>2, <3>1
  <2>3. CASE n # m + 1 /\ n # 0
    <3>1. n \in 0..m /\ n - 1 \in 0..m /\ n - 1 # m + 1 /\ n - 1 \in 0..(m + 1) BY <2>3
    <3>2. g[n] = f[n] /\ g[n - 1] = f[n - 1] BY <2>3, <3>1
    <3> QED BY <1>2, <2>3, <3>1, <3>2
  <2> QED BY <2>1, <2>2, <2>3
<1>4. g = [n \in 0..(m + 1) |-> g[n]] OBVIOUS
<1> HIDE DEF g
<1>5. g = [n \in 0..(m + 1) |-> IF n = 0 THEN Untried(r) ELSE w(g[n - 1], n)]
  BY <1>3, <1>4
<1> QED BY <1>5, Zenon DEF Takes, w

LEMMA TakesAll ==
  ASSUME NEW r, NEW m \in Nat
  PROVE  \E f : Takes(r, f, m)
<1> DEFINE bad == {n \in Nat : ~\E f : Takes(r, f, n)}
<1>1. ASSUME bad # {} PROVE FALSE
  <2>1. bad \in SUBSET Nat OBVIOUS
  <2>2. PICK x \in bad : \A y \in bad : x <= y BY <1>1, <2>1, LeastIsThere, Zenon
  <2>3. x \in Nat /\ ~\E f : Takes(r, f, x) OBVIOUS
  <2> HIDE DEF bad
  <2>4. x # 0 BY <2>3, TakesFirst, Zenon
  <2>5. x - 1 \in Nat /\ ~(x <= x - 1) /\ (x - 1) + 1 = x BY <2>3, <2>4
  <2>6. x - 1 \notin bad BY <2>2, <2>5
  <2>7. \E f : Takes(r, f, x - 1) BY <2>5, <2>6, Zenon DEF bad
  <2>8. \E g : Takes(r, g, (x - 1) + 1) BY <2>5, <2>7, TakesNext, Zenon
  <2> QED BY <2>3, <2>5, <2>8, Zenon
<1> QED BY <1>1, Zenon

LEMMA CopiesTake ==
  ASSUME NEW r, Len(Chunk(r)) \in Nat
  PROVE  Takes(r, Copies(r), Len(Chunk(r)))
<1>1. \E f : Takes(r, f, Len(Chunk(r))) BY TakesAll, Zenon
<1>2. Copies(r) = CHOOSE f : Takes(r, f, Len(Chunk(r))) BY Zenon DEF Copies, Takes
<1> QED BY <1>1, <1>2, Zenon

\* What the copy keeps of the tables read, and adds to them, for the caller.
ViewOK(base, view, scope) ==
  /\ DOMAIN view = Copied
  /\ \A e \in DOMAIN base.students :
       e \in DOMAIN view.students /\ view.students[e] = base.students[e]
  /\ \A e \in DOMAIN view.students \ DOMAIN base.students : view.students[e].company \in scope
  /\ \A k \in DOMAIN view.taken \ DOMAIN base.taken : Own(view, k[1], scope)

\* So does the state of a chunk tried on it.
Trial(base, y, scope) ==
  DOMAIN y = {"view", "out", "stop"} /\ ViewOK(base, y.view, scope)

\* An entry of one's own is added to the copy.
LEMMA ViewGrows ==
  ASSUME NEW base, NEW view, NEW scope, ViewOK(base, view, scope), NEW t \in Copied,
         NEW k, k \notin DOMAIN view[t], NEW entry,
         t = "students" => entry.company \in scope,
         t = "taken" => Own(view, k[1], scope)
  PROVE  LET new == [view EXCEPT ![t] = Put(view[t], k, entry)] IN
         /\ ViewOK(base, new, scope)
         /\ \A e : Own(view, e, scope) => Own(new, e, scope)
         /\ t = "students" => Own(new, k, scope)
<1> DEFINE new == [view EXCEPT ![t] = Put(view[t], k, entry)]
<1>1. DOMAIN new = Copied /\ new[t] = Put(view[t], k, entry)
      /\ \A u \in Copied : u # t => new[u] = view[u]
  BY DEF ViewOK
<1> HIDE DEF new
<1>2. IsPut(new[t], view[t], k, entry) BY <1>1, PutIs, Zenon
<1>3. CASE t = "students"
  <2>1. IsPut(new.students, view.students, k, entry) BY <1>2, <1>3
  <2>2. new.taken = view.taken BY <1>1, <1>3 DEF Copied
  <2>3. \A e \in DOMAIN view.students :
          e \in DOMAIN new.students /\ new.students[e] = view.students[e]
    BY <1>3, <2>1 DEF IsPut
  <2>4. \A e : Own(view, e, scope) => Own(new, e, scope) BY <2>3, Zenon DEF Own
  <2>5. \A e \in DOMAIN new.students \ DOMAIN base.students : new.students[e].company \in scope
    BY <1>3, <2>1, <2>3 DEF ViewOK, IsPut
  <2>6. ViewOK(base, new, scope)
    BY <1>1, <2>2, <2>3, <2>4, <2>5, Zenon DEF ViewOK
  <2>7. Own(new, k, scope) BY <1>3, <2>1 DEF Own, IsPut
  <2> QED BY <2>4, <2>6, <2>7 DEF new
<1>4. CASE t = "taken"
  <2>1. IsPut(new.taken, view.taken, k, entry) BY <1>2, <1>4
  <2>2. new.students = view.students BY <1>1, <1>4 DEF Copied
  <2>3. \A e : Own(view, e, scope) <=> Own(new, e, scope) BY <2>2, Zenon DEF Own
  <2>4. \A x \in DOMAIN new.taken \ DOMAIN base.taken : Own(new, x[1], scope)
    BY <1>4, <2>1, <2>3 DEF ViewOK, IsPut
  <2>5. ViewOK(base, new, scope) BY <1>1, <2>2, <2>4, Zenon DEF ViewOK
  <2> QED BY <1>4, <2>3, <2>5 DEF new
<1>5. CASE t \notin {"students", "taken"}
  <2>1. new.students = view.students /\ new.taken = view.taken
    BY <1>1, <1>5 DEF Copied
  <2>2. \A e : Own(view, e, scope) <=> Own(new, e, scope) BY <2>1, Zenon DEF Own
  <2>3. ViewOK(base, new, scope) BY <1>1, <2>1, <2>2, Zenon DEF ViewOK
  <2> QED BY <1>5, <2>2, <2>3 DEF new
<1> QED BY <1>3, <1>4, <1>5, Zenon

\* A stage, for a row whose company the caller may use.
LEMMA StageKeeps ==
  ASSUME NEW r, NEW i, NEW t \in Copied, NEW base, NEW y, Trial(base, y, req[r].scope),
         CompanyOf(r, i) # None,
         t \in {"trainings", "taken"} =>
           y.stop \/ Own(y.view, imports[r].rows[i].email, req[r].scope)
  PROVE  /\ Trial(base, Stage(r, i, t, y), req[r].scope)
         /\ t # "regions" =>
              \/ Stage(r, i, t, y).stop
              \/ Own(Stage(r, i, t, y).view, imports[r].rows[i].email, req[r].scope)
<1> DEFINE row == imports[r].rows[i]
           company == CompanyOf(r, i)
           k == KeyIn(t, row)
           scope == req[r].scope
           entry == EntryFor(t, row, company, y.view)
           new == [y.view EXCEPT ![t] = Put(y.view[t], k, entry)]
           z == Stage(r, i, t, y)
           email == row.email
<1>1. DOMAIN y = {"view", "out", "stop"} /\ ViewOK(base, y.view, scope) BY Zenon DEF Trial
<1>2. CASE y.stop
  <2>1. z = y BY <1>2, Zenon DEF Stage
  <2> QED BY <1>2, <2>1, Zenon
<1>3. CASE ~y.stop /\ k \in DOMAIN y.view[t] /\ Foreign(t, row, y.view, scope)
  <2>1. z = [y EXCEPT !.stop = TRUE, !.out = Failed(@, i)] BY <1>3, Zenon DEF Stage
  <2>2. DOMAIN z = DOMAIN y BY <2>1
  <2>3. z.stop = TRUE BY <1>1, <2>1
  <2>4. z.view = y.view BY <1>1, <2>1
  <2> QED BY <1>1, <2>2, <2>3, <2>4, Zenon DEF Trial
<1>4. CASE ~y.stop /\ k \in DOMAIN y.view[t] /\ ~Foreign(t, row, y.view, scope)
  <2>1. z = [y EXCEPT !.out = Found(t, row, company, y.view, @)] BY <1>4, Zenon DEF Stage
  <2> DEFINE out == Found(t, row, company, y.view, y.out)
  <2>2. z = [y EXCEPT !.out = out] BY <2>1, Zenon
  <2> HIDE DEF out, z
  <2>3. DOMAIN z = DOMAIN y BY <2>2
  <2>4. z.view = y.view BY <1>1, <2>2
  <2>5. t = "students" => Own(y.view, email, scope)
    BY <1>4, KeyOfLearner, Zenon DEF Foreign, Own
  <2>6. t # "regions" => Own(y.view, email, scope) BY <1>4, <2>5 DEF Copied
  <2> QED BY <1>1, <2>3, <2>4, <2>6, Zenon DEF Trial, z
<1>5. CASE ~y.stop /\ k \notin DOMAIN y.view[t]
           /\ t = "students" /\ row.country \notin DOMAIN y.view.regions
  <2>1. z = [y EXCEPT !.stop = TRUE, !.out = Failed(@, i)] BY <1>5, Zenon DEF Stage
  <2>2. DOMAIN z = DOMAIN y BY <2>1
  <2>3. z.stop = TRUE BY <1>1, <2>1
  <2>4. z.view = y.view BY <1>1, <2>1
  <2> QED BY <1>1, <2>2, <2>3, <2>4, Zenon DEF Trial
<1>6. CASE ~y.stop /\ k \notin DOMAIN y.view[t]
           /\ ~(t = "students" /\ row.country \notin DOMAIN y.view.regions)
  <2> DEFINE out == Created(t, row, company, y.out)
  <2>1. z = [y EXCEPT !.view[t] = Put(@, k, entry), !.out = Created(t, row, company, @)]
    BY <1>6, Zenon DEF Stage
  <2> HIDE DEF entry
  <2>2. z.view = new BY <1>1, <2>1
  <2>3. DOMAIN z = DOMAIN y BY <2>1
  <2>4. company \in scope BY CompanyIs, Zenon
  <2>5. t = "students" => entry.company \in scope
    <3> HIDE DEF company, row
    <3>1. EntryFor("students", row, company, y.view).company = company BY LearnerEntry
    <3>2. company \in scope BY <2>4, Zenon DEF company
    <3>3. t = "students" => entry = EntryFor("students", row, company, y.view)
      BY Zenon DEF entry
    <3> QED BY <3>1, <3>2, <3>3
  <2>6. t = "taken" => Own(y.view, k[1], scope)
    <3>1. t = "taken" => k[1] = email BY CompletionKey, Zenon
    <3> QED BY <1>6, <3>1
  <2>7. /\ ViewOK(base, new, scope)
        /\ \A e : Own(y.view, e, scope) => Own(new, e, scope)
        /\ t = "students" => Own(new, k, scope)
    <3> HIDE DEF k, new
    <3>1. k \notin DOMAIN y.view[t] BY <1>6
    <3> QED BY <1>1, <2>5, <2>6, <3>1, ViewGrows, Zenon DEF new
  <2>8. t = "students" => k = email BY KeyOfLearner, Zenon
  <2> HIDE DEF z, new
  <2>9. t # "regions" => Own(new, email, scope) BY <1>6, <2>7, <2>8 DEF Copied
  <2> QED BY <1>1, <2>2, <2>3, <2>7, <2>9, Zenon DEF Trial, z
<1> QED BY <1>2, <1>3, <1>4, <1>5, <1>6, Zenon

\* A row.
LEMMA RowKeeps ==
  ASSUME NEW r, NEW i, NEW base, NEW x, Trial(base, x, req[r].scope)
  PROVE  Trial(base, Worked(r, x, i), req[r].scope)
<1> DEFINE scope == req[r].scope
           fresh == [x EXCEPT !.stop = FALSE]
           row == imports[r].rows[i]
           placed == IF row.country = Blank THEN fresh ELSE Stage(r, i, "regions", fresh)
           s == Stage(r, i, "students", placed)
           u == Stage(r, i, "trainings", s)
           v == Stage(r, i, "taken", u)
           email == row.email
<1>1. DOMAIN x = {"view", "out", "stop"} /\ ViewOK(base, x.view, scope) BY Zenon DEF Trial
<1>2. CASE CompanyOf(r, i) = None
  <2> DEFINE z == Worked(r, x, i)
             out == Failed(x.out, i)
  <2>1. z = [x EXCEPT !.out = out] BY <1>2, Zenon DEF Worked
  <2> HIDE DEF z, out
  <2>2. DOMAIN z = DOMAIN x BY <2>1
  <2>3. z.view = x.view BY <1>1, <2>1
  <2>4. Trial(base, z, scope) BY <1>1, <2>2, <2>3, Zenon DEF Trial
  <2> QED BY <2>4 DEF z
<1>3. CASE CompanyOf(r, i) # None
  <2>1. Worked(r, x, i) = v BY <1>3, Zenon DEF Worked
  <2>2. DOMAIN fresh = DOMAIN x OBVIOUS
  <2>3. fresh.view = x.view BY <1>1
  <2>4. Trial(base, fresh, scope) BY <1>1, <2>2, <2>3, Zenon DEF Trial
  <2> HIDE DEF fresh
  <2>5. /\ "regions" \in Copied /\ "students" \in Copied /\ "trainings" \in Copied
        /\ "taken" \in Copied
    BY DEF Copied
  <2>6. "regions" \notin {"trainings", "taken"} /\ "students" \notin {"trainings", "taken"}
        /\ "students" # "regions" /\ "trainings" # "regions"
    OBVIOUS
  <2>7. Trial(base, placed, scope)
    BY <1>3, <2>4, <2>5, <2>6, StageKeeps, Zenon
  <2> HIDE DEF placed
  <2>8. Trial(base, s, scope) /\ (s.stop \/ Own(s.view, email, scope))
    BY <1>3, <2>5, <2>6, <2>7, StageKeeps, Zenon
  <2> HIDE DEF s
  <2>9. Trial(base, u, scope) /\ (u.stop \/ Own(u.view, email, scope))
    BY <1>3, <2>5, <2>6, <2>8, StageKeeps, Zenon
  <2> HIDE DEF u
  <2>10. Trial(base, v, scope) BY <1>3, <2>5, <2>9, StageKeeps, Zenon
  <2> QED BY <2>1, <2>10, Zenon
<1> QED BY <1>2, <1>3

LEMMA ChunkLen ==
  ASSUME NEW r \in Requests, ImportsShape, ChunkSize \in Nat \ {0},
         imports[r].at <= Len(imports[r].rows)
  PROVE  /\ LastOf(r) \in Nat /\ LastOf(r) <= Len(imports[r].rows) /\ imports[r].at <= LastOf(r)
         /\ Len(Chunk(r)) = LastOf(r) - imports[r].at + 1 /\ Len(Chunk(r)) \in Nat
         /\ \A n \in 1..Len(Chunk(r)) : Chunk(r)[n] = imports[r].at + n - 1
<1> DEFINE at == imports[r].at
           last == LastOf(r)
           size == last - at + 1
<1>1. at \in Nat /\ Len(imports[r].rows) \in Nat BY Zenon DEF ImportsShape, ImportShape
<1>2. last \in Nat /\ last <= Len(imports[r].rows) /\ at <= last BY <1>1 DEF LastOf
<1>3. Chunk(r) = [j \in 1..size |-> at + j - 1] BY Zenon DEF Chunk
<1> HIDE DEF at, last
<1>4. size \in Nat BY <1>1, <1>2 DEF at
<1> HIDE DEF size
<1>5. Len([j \in 1..size |-> at + j - 1]) = size BY <1>4
<1>6. \A n \in 1..size : [j \in 1..size |-> at + j - 1][n] = at + n - 1 OBVIOUS
<1>7. Len(Chunk(r)) = size BY <1>3, <1>5, Zenon
<1>8. \A n \in 1..Len(Chunk(r)) : Chunk(r)[n] = at + n - 1 BY <1>3, <1>6, <1>7, Zenon
<1> QED BY <1>2, <1>4, <1>7, <1>8 DEF at, last, size

\* What holds of the copy, and of it after each row, holds after the chunk.
LEMMA ChunkKeeps ==
  ASSUME NEW r, NEW N \in Nat, NEW f, Takes(r, f, N), NEW base,
         Trial(base, Untried(r), req[r].scope)
  PROVE  Trial(base, f[N], req[r].scope)
<1> DEFINE scope == req[r].scope
           w(c, n) == Worked(r, c, Chunk(r)[n])
           bad == {n \in 0..N : ~Trial(base, f[n], scope)}
<1>1. f = [n \in 0..N |-> IF n = 0 THEN Untried(r) ELSE w(f[n - 1], n)] BY Zenon DEF Takes
<1>2. \A c, n : Trial(base, c, scope) => Trial(base, w(c, n), scope) BY RowKeeps, Zenon
<1> HIDE DEF w, scope
<1>3. \A n \in 0..N : f[n] = IF n = 0 THEN Untried(r) ELSE w(f[n - 1], n) BY <1>1
<1>4. ASSUME bad # {} PROVE FALSE
  <2>1. bad \in SUBSET Nat OBVIOUS
  <2>2. PICK x \in bad : \A y \in bad : x <= y BY <1>4, <2>1, LeastIsThere, Zenon
  <2>3. x \in 0..N /\ ~Trial(base, f[x], scope) OBVIOUS
  <2>4. x # 0
    <3>1. Trial(base, Untried(r), scope) BY Zenon DEF scope
    <3>2. 0 \in 0..N OBVIOUS
    <3>3. f[0] = Untried(r) BY <1>3, <3>2
    <3> QED BY <2>3, <3>1, <3>3, Zenon
  <2>5. x - 1 \in 0..N /\ ~(x <= x - 1) BY <2>3, <2>4
  <2>6. x - 1 \notin bad BY <2>2, <2>5
  <2>7. Trial(base, f[x - 1], scope) BY <2>5, <2>6
  <2>8. f[x] = w(f[x - 1], x) BY <1>3, <2>3, <2>4
  <2> QED BY <1>2, <2>3, <2>7, <2>8, Zenon
<1>5. N \in 0..N OBVIOUS
<1>6. Trial(base, f[N], scope) BY <1>4, <1>5
<1> QED BY <1>6 DEF scope

LEMMA FlushSound ==
  ASSUME DbOK, NEW r \in Requests, NEW view, Flushes(r, view), db' = Flushed(r, view)
  PROVE  /\ DbOK' /\ db'.companies = db.companies
         /\ db'.students = Merged(r, view, "students") /\ db'.taken = Merged(r, view, "taken")
<1> DEFINE s == Merged(r, view, "students")
           u == Merged(r, view, "taken")
           v == Merged(r, view, "regions")
           w == Merged(r, view, "trainings")
           d == [companies |-> db.companies, regions |-> v, students |-> s, trainings |-> w,
                 taken |-> u]
<1>1. db' = d BY Zenon DEF Flushed
<1>2. DOMAIN s = DOMAIN db.students \cup New(r, view, "students") BY DEF Merged
<1>3. \A e \in New(r, view, "students") : s[e] = view.students[e] BY DEF Merged
<1>4. \A e \in DOMAIN db.students \ New(r, view, "students") : s[e] = db.students[e]
  BY DEF Merged
<1> HIDE DEF s, u, v, w
<1>5. DOMAIN d = Fields BY DEF Fields, Copied
<1>6. d.companies = db.companies OBVIOUS
<1>7. d.students = s OBVIOUS
<1>8. d.taken = u OBVIOUS
<1> HIDE DEF d
<1>9. \A e \in New(r, view, "students") : Placed(d, view.students[e])
  BY Zenon DEF Flushes, Flushed, d, s, u, v, w
<1>10. \A e \in DOMAIN s : s[e].company \in DOMAIN db.companies
  BY <1>2, <1>3, <1>4, <1>6, <1>9 DEF Placed, DbOK
<1>11. DbOK' BY <1>1, <1>5, <1>6, <1>7, <1>10, Zenon DEF DbOK
<1> QED BY <1>1, <1>6, <1>7, <1>8, <1>11, Zenon DEF s, u

LEMMA FlushApart ==
  ASSUME DbOK, NEW r \in Requests, NEW view, Flushes(r, view), db' = Flushed(r, view),
         DOMAIN imports[r].base = Copied, Agree(imports[r].base),
         ViewOK(imports[r].base, view, req[r].scope)
  PROVE  /\ KeptApart(r)
         /\ \A e \in DOMAIN view.students \cap DOMAIN db'.students :
              view.students[e] = db'.students[e]
<1> DEFINE base == imports[r].base
           scope == req[r].scope
           ns == New(r, view, "students")
           nt == New(r, view, "taken")
<1>1. /\ db'.students = Merged(r, view, "students") /\ db'.taken = Merged(r, view, "taken")
  BY FlushSound, Zenon
<1>2. ns = DOMAIN view.students \ DOMAIN base.students BY DEF New
<1>3. nt = DOMAIN view.taken \ DOMAIN base.taken BY DEF New
<1>4. ns \cap DOMAIN db.students = {} BY Zenon DEF Flushes
<1>5. /\ DOMAIN db'.students = DOMAIN db.students \cup ns
      /\ \A e \in ns : db'.students[e] = view.students[e]
      /\ \A e \in DOMAIN db.students \ ns : db'.students[e] = db.students[e]
  BY <1>1 DEF Merged
<1>6. /\ DOMAIN db'.taken = DOMAIN db.taken \cup nt
      /\ \A k \in DOMAIN db.taken \ nt : db'.taken[k] = db.taken[k]
  BY <1>1 DEF Merged
<1> HIDE DEF ns, nt
<1>7. \A e \in DOMAIN base.students \cap DOMAIN db.students :
        base.students[e] = db.students[e]
  BY Zenon DEF Agree, Copied
<1>8. \A e \in DOMAIN db.students : e \in DOMAIN db'.students /\ db'.students[e] = db.students[e]
  BY <1>4, <1>5
<1>9. \A e \in DOMAIN db'.students : e \in DOMAIN db.students \/ db'.students[e].company \in scope
  BY <1>2, <1>5 DEF ViewOK
\* The completions inserted are of learners of the caller.
<1>10. \A k \in nt : k[1] \in DOMAIN db.students => db.students[k[1]].company \in scope
  <2> SUFFICES ASSUME NEW k \in nt, k[1] \in DOMAIN db.students
               PROVE  db.students[k[1]].company \in scope
    OBVIOUS
  <2>1. Own(view, k[1], scope) BY <1>3, Zenon DEF ViewOK
  <2>2. k[1] \in DOMAIN view.students /\ view.students[k[1]].company \in scope
    BY <2>1, Zenon DEF Own
  <2>3. k[1] \in DOMAIN base.students BY <1>2, <1>4, <2>2
  <2>4. view.students[k[1]] = base.students[k[1]] BY <2>3, Zenon DEF ViewOK
  <2>5. base.students[k[1]] = db.students[k[1]] BY <1>7, <2>3
  <2> QED BY <2>2, <2>4, <2>5, Zenon
<1>11. \A e \in DOMAIN db.students : db.students[e].company \notin scope =>
         RowsOf(db', e) = RowsOf(db, e)
  <2> SUFFICES ASSUME NEW e \in DOMAIN db.students, db.students[e].company \notin scope
               PROVE  RowsOf(db', e) = RowsOf(db, e)
    OBVIOUS
  <2> DEFINE mine == {y \in DOMAIN db.taken : y[1] = e}
  <2>1. \A y \in nt : y[1] # e BY <1>10
  <2>2. {y \in DOMAIN db'.taken : y[1] = e} = mine BY <1>6, <2>1
  <2>3. \A y \in mine : db'.taken[y] = db.taken[y] BY <1>6, <2>1
  <2> HIDE DEF mine
  <2>4. {<<y, db'.taken[y]>> : y \in mine} = {<<y, db.taken[y]>> : y \in mine}
    BY <2>3, Zenon
  <2> QED BY <2>2, <2>4, Zenon DEF RowsOf, mine
<1>12. KeptApart(r) BY <1>8, <1>9, <1>11, Apart, Zenon
<1>13. \A e \in DOMAIN view.students \cap DOMAIN db'.students :
         view.students[e] = db'.students[e]
  <2> SUFFICES ASSUME NEW e \in DOMAIN view.students \cap DOMAIN db'.students
               PROVE  view.students[e] = db'.students[e]
    OBVIOUS
  <2>1. CASE e \in ns BY <1>5, <2>1
  <2>2. CASE e \notin ns
    <3>1. e \in DOMAIN base.students /\ e \in DOMAIN db.students BY <1>2, <1>5, <2>2
    <3>2. view.students[e] = base.students[e] BY <3>1, Zenon DEF ViewOK
    <3>3. db'.students[e] = db.students[e] BY <1>8, <3>1
    <3> QED BY <1>7, <3>1, <3>2, <3>3
  <2> QED BY <2>1, <2>2
<1> QED BY <1>12, <1>13

\* The chunk is written, or it is run again a row at a time.
Chunked(r) ==
  /\ imports'[r].rows = imports[r].rows
  /\ IF Flushes(r, Simulated(r).view)
       THEN /\ req' = req /\ db' = Flushed(r, Simulated(r).view)
            /\ imports'[r].base = Simulated(r).view /\ imports'[r].at = LastOf(r) + 1
       ELSE /\ db' = db /\ imports'[r].base = imports[r].base
            /\ imports'[r].at = imports[r].at
            /\ imports'[r].stages = StagesAt(r, imports[r].at)
            /\ req'[r].pc = "slow"
            /\ req'[r].body = [req[r].body EXCEPT !.last = LastOf(r)]

LEMMA ChunkStep ==
  ASSUME ReqShape, ImportsShape, DbOK, Alone, NEW r \in Requests, ChunkSize \in Nat \ {0},
         ImportChunk(r)
  PROVE  /\ ReqShape' /\ ImportsShape' /\ DbOK' /\ Alone'
         /\ Copy(r) => KeptApart(r)
         /\ Others(r) /\ Chunked(r)
<1> DEFINE n == imports[r]
           x == Simulated(r)
           scope == req[r].scope
<1>1. /\ req[r].pc = "chunk" /\ n.at <= Len(n.rows) /\ witness' = witness
  BY Zenon DEF ImportChunk
<1>2. Busy(r) BY <1>1 DEF Busy
<1>3. ImportShape(n) BY Zenon DEF ImportsShape
<1>4. LastOf(r) \in Nat /\ Len(Chunk(r)) \in Nat BY <1>1, ChunkLen, Zenon
<1>5. Copy(r) => /\ DOMAIN n.base = Copied /\ Agree(n.base) /\ n.stages = <<>>
                 /\ ViewOK(n.base, x.view, scope)
  <2> SUFFICES ASSUME Copy(r)
               PROVE  /\ DOMAIN n.base = Copied /\ Agree(n.base) /\ n.stages = <<>>
                      /\ ViewOK(n.base, x.view, scope)
    OBVIOUS
  <2>1. DOMAIN n.base = Copied /\ Agree(n.base) /\ n.stages = <<>>
    BY <1>1, Zenon DEF Copy, Copying
  <2>2. ViewOK(n.base, n.base, scope) BY <2>1, Zenon DEF ViewOK
  <2>3. Untried(r).view = n.base BY DEF Untried
  <2>4. DOMAIN Untried(r) = {"view", "out", "stop"} BY DEF Untried
  <2>5. Trial(n.base, Untried(r), scope) BY <2>2, <2>3, <2>4, Zenon DEF Trial
  <2>6. Takes(r, Copies(r), Len(Chunk(r))) BY <1>4, CopiesTake, Zenon
  <2>7. Trial(n.base, Copies(r)[Len(Chunk(r))], scope)
    BY <1>4, <2>5, <2>6, ChunkKeeps, Zenon
  <2>8. ViewOK(n.base, x.view, scope) BY <2>7, Zenon DEF Trial, Simulated
  <2> QED BY <2>1, <2>8
<1> HIDE DEF x
<1>6. CASE Flushes(r, x.view)
  <2> DEFINE m == [n EXCEPT !.base = x.view, !.out = x.out, !.at = LastOf(r) + 1]
             q == req[r]
  <2>1. /\ db' = Flushed(r, x.view)
        /\ imports' = [imports EXCEPT ![r].base = CommittedCopy(r, x.view),
                                      ![r].out = x.out, ![r].at = LastOf(r) + 1]
        /\ req' = req
    BY <1>6, Zenon DEF ImportChunk, x
  <2>2. imports' = [imports EXCEPT ![r] = m]
    BY <1>3, <2>1 DEF ImportShape, ImportsShape, CommittedCopy
  <2>3. DOMAIN m = DOMAIN n OBVIOUS
  <2>4. m.stages = n.stages BY <1>3 DEF ImportShape
  <2>5. m.base = x.view BY <1>3 DEF ImportShape
  <2>6. m.rows = n.rows BY <1>3 DEF ImportShape
  <2>7. m.at = LastOf(r) + 1 BY <1>3 DEF ImportShape
  <2>8. LastOf(r) + 1 \in Nat BY <1>4
  <2> HIDE DEF m, q
  <2>9. ImportShape(m)
    BY <1>3, <2>3, <2>4, <2>6, <2>7, <2>8, Zenon DEF ImportShape
  <2>10. /\ DOMAIN q = {"pc", "op", "scope", "body", "outcome"}
         /\ q.pc = "chunk" /\ q.scope = req[r].scope /\ q.pc \notin {"idle", "write"}
    BY <1>1 DEF ReqShape, q
  <2>11. DbOK' BY <1>6, <2>1, FlushSound, Zenon
  <2>12. Copy(r) => /\ KeptApart(r)
                    /\ \A e \in DOMAIN x.view.students \cap DOMAIN db'.students :
                         x.view.students[e] = db'.students[e]
    BY <1>5, <1>6, <2>1, FlushApart, Zenon
  <2>13. ASSUME witness.of = r, Copy(r), req'[r] = q, imports'[r] = m, q.pc # "done"
         PROVE  Copy(r)'
    <3>1. Agree(imports[r].base)' BY <2>5, <2>12, <2>13, Zenon DEF Agree
    <3>2. DOMAIN m.base = Copied BY <1>5, <2>5, <2>13, Zenon DEF ViewOK
    <3>3. Copying(m, q.pc, q.scope) BY <1>5, <2>4, <2>10, <2>13, <3>2 DEF Copying
    <3> QED BY <2>13, <3>1, <3>3, Zenon DEF Copy
  <2>14. ReqShape' /\ ImportsShape' /\ Alone' /\ imports'[r] = m /\ Others(r)
    <3>1. req' = req /\ q = req[r] BY <2>1, Zenon DEF q
    <3> QED BY <1>1, <1>2, <2>2, <2>9, <2>10, <2>13, <3>1, ImportMoves, Zenon
  <2>15. Chunked(r) BY <1>6, <2>1, <2>5, <2>6, <2>7, <2>14, Zenon DEF Chunked, x
  <2> QED BY <2>11, <2>12, <2>14, <2>15
<1>7. CASE ~Flushes(r, x.view)
  <2> DEFINE s == StagesAt(r, n.at)
             m == [n EXCEPT !.out = RolledBack(r), !.stages = s]
             b == [req[r].body EXCEPT !.last = LastOf(r)]
             q == [req[r] EXCEPT !.pc = "slow", !.body = b]
  <2>1. /\ db' = db
        /\ imports' = [imports EXCEPT ![r].out = RolledBack(r), ![r].stages = StagesAt(r, n.at)]
        /\ req' = [req EXCEPT ![r].pc = "slow", ![r].body.last = LastOf(r)]
    BY <1>7, Zenon DEF ImportChunk, x
  <2>2. imports' = [imports EXCEPT ![r] = m]
    BY <1>3, <2>1 DEF ImportShape, ImportsShape
  <2>3. req' = [req EXCEPT ![r] = q] BY <2>1 DEF ReqShape
  <2>4. /\ s \in StageLists /\ s \notin {<<"trainings", "taken">>, <<"taken">>}
        /\ s # <<>> => CompanyOf(r, n.at) # None
    BY RowStages, Zenon
  <2> HIDE DEF s, b
  <2>5. DOMAIN m = DOMAIN n OBVIOUS
  <2>6. m.stages = s BY <1>3 DEF ImportShape
  <2>7. m.base = n.base BY <1>3 DEF ImportShape
  <2>8. m.rows = n.rows BY <1>3 DEF ImportShape
  <2>9. m.at = n.at BY <1>3 DEF ImportShape
  <2>10. m.draft = n.draft BY <1>3 DEF ImportShape
  <2>11. m.known = n.known BY <1>3 DEF ImportShape
  <2>12. q.pc = "slow" BY DEF ReqShape
  <2>13. q.scope = req[r].scope BY DEF ReqShape
  <2>14. DOMAIN q = {"pc", "op", "scope", "body", "outcome"} BY DEF ReqShape
  <2>a. q.body = b BY DEF ReqShape
  <2> HIDE DEF m, q
  <2>15. ImportShape(m)
    BY <1>3, <2>4, <2>5, <2>6, <2>8, <2>9, Zenon DEF ImportShape
  <2>16. q.pc \notin {"idle", "write"} BY <2>12
  <2>17. ASSUME witness.of = r, Copy(r), req'[r] = q, imports'[r] = m, q.pc # "done"
         PROVE  Copy(r)'
    <3>1. Agree(imports[r].base)' BY <1>5, <2>1, <2>7, <2>17, Zenon DEF Agree
    <3>2. s # <<>> => CompanyFor(m, q.scope, m.at) # None
      <4>1. CompanyOf(r, n.at) = CompanyFor(n, req[r].scope, n.at) BY CompanyIs
      <4>2. CompanyFor(m, q.scope, m.at) = CompanyFor(n, req[r].scope, n.at)
        BY <2>9, <2>10, <2>11, <2>13 DEF CompanyFor
      <4> QED BY <2>4, <4>1, <4>2
    <3>3. Copying(m, q.pc, q.scope)
      BY <1>5, <2>4, <2>6, <2>7, <2>12, <2>17, <3>2 DEF Copying
    <3> QED BY <2>17, <3>1, <3>3, Zenon DEF Copy
  <2>18. DbOK' BY <2>1, Zenon DEF DbOK
  <2>19. KeptApart(r) BY <2>1, Untouched, Zenon
  <2>20. /\ ReqShape' /\ ImportsShape' /\ Alone'
         /\ req'[r] = q /\ imports'[r] = m /\ Others(r)
    BY <1>1, <1>2, <2>2, <2>3, <2>13, <2>14, <2>15, <2>16, <2>17, ImportMoves, Zenon
  <2>21. Chunked(r)
    BY <1>7, <2>1, <2>6, <2>7, <2>8, <2>9, <2>12, <2>a, <2>20, Zenon DEF Chunked, x, s, b
  <2> QED BY <2>18, <2>19, <2>20, <2>21
<1> QED BY <1>6, <1>7

-----------------------------------------------------------------------------
\* The tables are typed, and their keys hold: what a request and an import hold
\* that a write depends on.

RowFields == {"company", "country", "theatre"}
RowOK(row) == DOMAIN row = RowFields /\ row.theatre \in Theatres \cup {None}

\* The parts of Sound.
CompaniesOK(c) ==
  /\ DOMAIN c \subseteq Ids
  /\ \A id \in DOMAIN c : c[id] \in Names
  /\ \A id, other \in DOMAIN c : c[id] = c[other] => id = other

RegionsOK(c) ==
  DOMAIN c \subseteq Countries /\ \A x \in DOMAIN c : c[x] \in Theatres \cup {None}

LearnersOK(s, d) ==
  \A e \in DOMAIN s : e \in Emails /\ Placed(d, s[e]) /\ RowOK(s[e])

TakenOK(t, s, u) ==
  /\ IsFiniteSet(DOMAIN t)
  /\ \A k \in DOMAIN t :
       k[1] \in DOMAIN s /\ k[2] \in DOMAIN u /\ k[3] \in Dates /\ t[k] \in Nat \ {0}

\* What a request asks for is typed.
Body(q) ==
  /\ q.pc = "write" =>
       /\ q.op = "PostStudent" => q.body.email \in Emails /\ RowOK(q.body.row)
       /\ q.op = "PutStudent" =>
            q.body.new \in Emails \cup {Keep} /\ RowOK(q.body.row)
       /\ q.op \in {"PostCompany", "PutCompany"} => q.body.name \in Names
       /\ q.op = "PostRegion" =>
            q.body.country \in Countries /\ q.body.theatre \in Theatres \cup {None}
       /\ q.op = "PutRegion" =>
            q.body.new \in Countries \cup {Keep} /\ q.body.theatre \in Theatres \cup {None, Keep}
  /\ q.pc = "regions" =>
       DOMAIN q.body = {"rows"} /\ q.body.rows \in Seq(RegionRows) /\ q.body.rows # <<>>

Distinct(names) ==
  /\ \A i \in DOMAIN names : names[i] \in Names
  /\ \A i, j \in DOMAIN names : names[i] = names[j] => i = j

\* An import is where its step says, and a country it relies on is on its copy.
Track(m, pc, last) ==
  /\ pc \in {"companies", "read", "chunk", "slow"} => m.rows \in Seq(FileRows) /\ m.at # 0
  /\ pc = "companies" => Distinct(m.introduced) /\ DOMAIN m.base = {}
  /\ pc = "read" => DOMAIN m.base \in TablesRead
  /\ pc \in {"chunk", "slow"} => DOMAIN m.base = Copied
  /\ pc = "slow" => last \in Nat /\ m.at <= last /\ last <= Len(m.rows)
  /\ pc = "slow" /\ m.stages = Tables => m.rows[m.at].country # Blank
  /\ pc \in {"read", "chunk", "slow"} /\ "regions" \in DOMAIN m.base => RegionsOK(m.base.regions)
  /\ pc = "slow" /\ m.stages = <<"students", "trainings", "taken">> =>
       \/ m.rows[m.at].country = Blank
       \/ m.rows[m.at].country \in DOMAIN m.base.regions

Sane(q, m) ==
  /\ Body(q)
  /\ q.pc \in {"companies", "read", "chunk", "slow"} => DOMAIN q.body = {"file", "last"}
  /\ Track(m, q.pc, q.body.last)

AllSane == \A r \in Requests : Sane(req[r], imports[r])

LEMMA SoundParts ==
  ASSUME NEW d
  PROVE  Sound(d) <=>
           /\ DOMAIN d = Fields
           /\ CompaniesOK(d.companies) /\ RegionsOK(d.regions) /\ LearnersOK(d.students, d)
           /\ DOMAIN d.trainings \subseteq Titles /\ TakenOK(d.taken, d.students, d.trainings)
<1>1. {"companies", "regions", "students", "trainings", "taken"} = Fields
  BY DEF Fields, Copied
<1> QED BY <1>1, Zenon DEF Sound, CompaniesOK, RegionsOK, LearnersOK, TakenOK, RowFields, RowOK

LEMMA SoundIsOK ==
  ASSUME Sound(db)
  PROVE  DbOK
  BY SoundParts, Zenon DEF DbOK, CompaniesOK, LearnersOK, Placed

LEMMA OthersSane ==
  ASSUME AllSane, NEW r \in Requests,
         \A q \in Requests : q # r => req'[q] = req[q] /\ imports'[q] = imports[q],
         Sane(req'[r], imports'[r])
  PROVE  AllSane'
<1> SUFFICES ASSUME NEW q \in Requests PROVE Sane(req'[q], imports'[q])
  BY Zenon DEF AllSane
<1>1. CASE q = r BY <1>1
<1>2. CASE q # r
  <2>1. Sane(req[q], imports[q]) BY Zenon DEF AllSane
  <2> QED BY <1>2, <2>1, Zenon
<1> QED BY <1>1, <1>2

LEMMA DoneIsSane ==
  ASSUME NEW q, NEW m, q.pc \in {"idle", "done"}
  PROVE  Sane(q, m)
  BY DEF Sane, Body, Track

\* A request begins with what it read and validated.
LEMMA BeginsSane ==
  ASSUME ReqShape, ImportsShape, AllSane, NEW r \in Requests, NEW op, NEW scope, NEW body, NEW pc,
         Begin(r, op, scope, body, pc), NEW m, imports' = [imports EXCEPT ![r] = m] \/
           (imports' = imports /\ m = imports[r]),
         Sane(Asked(op, scope, body, pc), m)
  PROVE  AllSane' /\ UNCHANGED <<workload, db>>
<1>1. /\ req' = [req EXCEPT ![r] = Asked(op, scope, body, pc)]
      /\ UNCHANGED <<workload, db>>
  BY Zenon DEF Begin
<1>2. req'[r] = Asked(op, scope, body, pc) /\ \A q \in Requests : q # r => req'[q] = req[q]
  BY <1>1, Zenon DEF ReqShape
<1>3. imports'[r] = m /\ \A q \in Requests : q # r => imports'[q] = imports[q]
  BY Zenon DEF ImportsShape
<1>4. Sane(req'[r], imports'[r]) BY <1>2, <1>3, Zenon
<1> QED BY <1>1, <1>2, <1>3, <1>4, OthersSane, Zenon

LEMMA OpensSane ==
  ASSUME ReqShape, ImportsShape, AllSane, NEW r \in Requests, NEW op, NEW scope, NEW body,
         Opened(r, op, scope, body), Body(Asked(op, scope, body, "write"))
  PROVE  AllSane' /\ UNCHANGED <<workload, db>>
<1> DEFINE q == Asked(op, scope, body, "write")
<1>1. q.pc = "write" BY DEF Asked
<1> HIDE DEF q
<1>2. Body(q) BY Zenon DEF q
<1>3. Sane(q, imports[r]) BY <1>1, <1>2 DEF Sane, Track
<1>4. Begin(r, op, scope, body, "write") /\ imports' = imports BY Zenon DEF Opened
<1> QED BY <1>3, <1>4, BeginsSane, Zenon DEF q

LEMMA WriteBody ==
  ASSUME NEW op, NEW scope, NEW b,
         op = "PostStudent" => b.email \in Emails /\ RowOK(b.row),
         op = "PutStudent" => b.new \in Emails \cup {Keep} /\ RowOK(b.row),
         op \in {"PostCompany", "PutCompany"} => b.name \in Names,
         op = "PostRegion" => b.country \in Countries /\ b.theatre \in Theatres \cup {None},
         op = "PutRegion" =>
           b.new \in Countries \cup {Keep} /\ b.theatre \in Theatres \cup {None, Keep}
  PROVE  Body(Asked(op, scope, b, "write"))
<1> DEFINE q == Asked(op, scope, b, "write")
<1>1. q.pc = "write" BY DEF Asked
<1>2. q.op = op BY DEF Asked
<1>3. q.body = b BY DEF Asked
<1> HIDE DEF q
<1>4. Body(q) BY <1>1, <1>2, <1>3 DEF Body
<1> QED BY <1>4, Zenon DEF q

\* Every handler that reads, but for the two imports of a file.
LEMMA ReadsSane ==
  ASSUME ReqShape, ImportsShape, AllSane, Sound(db), NEW r \in Requests, Reads(r),
         ~ImportRegions(r), ~ImportStudents(r), Mix.emails \subseteq Emails
  PROVE  AllSane' /\ UNCHANGED <<workload, db>>
<1>1. CASE PostStudent(r)
  <2> DEFINE body(e, c, id) == [email |-> e, row |->
                                  [company |-> id, country |-> c, theatre |-> db.regions[c]]]
  <2>a. PICK scope \in Mix.scopes, e \in Mix.emails, c \in DOMAIN db.regions,
             id \in DOMAIN db.companies : Opened(r, "PostStudent", scope, body(e, c, id))
    BY <1>1, Zenon DEF PostStudent
  <2>1. body(e, c, id).email = e /\ RowOK(body(e, c, id).row)
    <3>1. db.regions[c] \in Theatres \cup {None} BY SoundParts DEF RegionsOK
    <3> QED BY <3>1 DEF RowFields, RowOK
  <2> HIDE DEF body
  <2>2. Body(Asked("PostStudent", scope, body(e, c, id), "write"))
    BY <2>1, WriteBody
  <2> QED BY <2>a, <2>2, OpensSane, Zenon
<1>2. CASE DeleteStudent(r)
  <2>a. PICK scope \in Mix.scopes, e \in DOMAIN db.students :
          Opened(r, "DeleteStudent", scope, [email |-> e])
    BY <1>2, Zenon DEF DeleteStudent
  <2>2. Body(Asked("DeleteStudent", scope, [email |-> e], "write")) BY WriteBody
  <2> QED BY <2>a, <2>2, OpensSane, Zenon
<1>3. CASE PutStudent(r)
  <2>a. PICK scope \in Mix.scopes, e \in DOMAIN db.students,
             new \in {Keep} \cup Mix.emails, c \in {Keep} \cup DOMAIN db.regions,
             id \in {Keep} \cup DOMAIN db.companies :
          Opened(r, "PutStudent", scope, Edit(e, new, c, id))
    BY <1>3, Zenon DEF PutStudent
  <2> DEFINE body == Edit(e, new, c, id)
  <2>1. RowOK(body.row)
    <3>1. db.students[e].theatre \in Theatres \cup {None}
      BY SoundParts DEF LearnersOK, RowOK
    <3>2. c # Keep => db.regions[c] \in Theatres \cup {None} BY SoundParts DEF RegionsOK
    <3>3. DOMAIN body.row = RowFields BY DEF Edit, RowFields
    <3>4. body.row.theatre = IF c \notin {Keep, db.students[e].country} THEN db.regions[c]
                             ELSE db.students[e].theatre
      BY DEF Edit
    <3> QED BY <3>1, <3>2, <3>3, <3>4 DEF RowOK
  <2>2. body.new = new BY DEF Edit
  <2> HIDE DEF body
  <2>3. Body(Asked("PutStudent", scope, body, "write")) BY <2>1, <2>2, WriteBody
  <2>4. Opened(r, "PutStudent", scope, body) BY <2>a, Zenon DEF body
  <2> QED BY <2>3, <2>4, OpensSane, Zenon
<1>4. CASE PostCompany(r)
  <2>a. PICK n \in Names : Opened(r, "PostCompany", Ids, [name |-> n])
    BY <1>4, Zenon DEF PostCompany
  <2>1. Body(Asked("PostCompany", Ids, [name |-> n], "write")) BY WriteBody
  <2> QED BY <2>a, <2>1, OpensSane, Zenon
<1>5. CASE PutCompany(r)
  <2>a. PICK id \in DOMAIN db.companies, n \in Names :
          Opened(r, "PutCompany", Ids, [id |-> id, name |-> n])
    BY <1>5, Zenon DEF PutCompany
  <2>1. Body(Asked("PutCompany", Ids, [id |-> id, name |-> n], "write")) BY WriteBody
  <2> QED BY <2>a, <2>1, OpensSane, Zenon
<1>6. CASE DeleteCompany(r)
  <2>a. PICK id \in DOMAIN db.companies : Opened(r, "DeleteCompany", Ids, [id |-> id])
    BY <1>6, Zenon DEF DeleteCompany
  <2>1. Body(Asked("DeleteCompany", Ids, [id |-> id], "write")) BY WriteBody
  <2> QED BY <2>a, <2>1, OpensSane, Zenon
<1>7. CASE PostRegion(r)
  <2>a. PICK c \in Countries, t \in Theatres \cup {None} :
          Opened(r, "PostRegion", Ids, [country |-> c, theatre |-> t])
    BY <1>7, Zenon DEF PostRegion
  <2>1. Body(Asked("PostRegion", Ids, [country |-> c, theatre |-> t], "write")) BY WriteBody
  <2> QED BY <2>a, <2>1, OpensSane, Zenon
<1>8. CASE PutRegion(r)
  <2>a. PICK c \in DOMAIN db.regions, t \in Theatres \cup {None, Keep},
             new \in (Countries \ DOMAIN db.regions) \cup {Keep} :
          Opened(r, "PutRegion", Ids, [country |-> c, new |-> new, theatre |-> t])
    BY <1>8, Zenon DEF PutRegion
  <2>1. Body(Asked("PutRegion", Ids, [country |-> c, new |-> new, theatre |-> t], "write"))
    BY WriteBody
  <2> QED BY <2>a, <2>1, OpensSane, Zenon
<1>9. CASE DeleteRegion(r)
  <2>a. PICK c \in DOMAIN db.regions : Opened(r, "DeleteRegion", Ids, [country |-> c])
    BY <1>9, Zenon DEF DeleteRegion
  <2>1. Body(Asked("DeleteRegion", Ids, [country |-> c], "write")) BY WriteBody
  <2> QED BY <2>a, <2>1, OpensSane, Zenon
<1>10. CASE DeleteTraining(r)
  <2>a. PICK t \in DOMAIN db.trainings : Opened(r, "DeleteTraining", Ids, [title |-> t])
    BY <1>10, Zenon DEF DeleteTraining
  <2>1. Body(Asked("DeleteTraining", Ids, [title |-> t], "write")) BY WriteBody
  <2> QED BY <2>a, <2>1, OpensSane, Zenon
<1> QED BY <1>1, <1>2, <1>3, <1>4, <1>5, <1>6, <1>7, <1>8, <1>9, <1>10, Zenon DEF Reads

LEMMA RegionFilesSane ==
  ASSUME ReqShape, ImportsShape, AllSane, NEW r \in Requests, ImportRegions(r),
         Mix.regionFiles \subseteq Seq(RegionRows) \ {<<>>}
  PROVE  AllSane' /\ UNCHANGED <<workload, db>>
<1>a. PICK file \in Mix.regionFiles : Begin(r, "ImportRegions", Ids, [rows |-> file], "regions")
  BY Zenon DEF ImportRegions
<1> DEFINE body == [rows |-> file]
           q == Asked("ImportRegions", Ids, body, "regions")
<1>1. DOMAIN body = {"rows"} /\ body.rows \in Seq(RegionRows) /\ body.rows # <<>> OBVIOUS
<1> HIDE DEF body
<1>2. q.pc = "regions" BY DEF Asked
<1>3. q.body = body BY DEF Asked
<1> HIDE DEF q
<1>4. Sane(q, imports[r]) BY <1>1, <1>2, <1>3 DEF Sane, Body, Track
<1>5. imports' = imports /\ Begin(r, "ImportRegions", Ids, body, "regions")
  BY <1>a, Zenon DEF ImportRegions, body
<1> QED BY <1>4, <1>5, BeginsSane, Zenon DEF q

-----------------------------------------------------------------------------
\* One table is written: what it takes for the rest to stay sound.

LEMMA CompaniesSound ==
  ASSUME Sound(db), NEW c, db' = [db EXCEPT !.companies = c], CompaniesOK(c),
         \A e \in DOMAIN db.students : db.students[e].company \in DOMAIN c
  PROVE  Sound(db)'
<1>1. DbOK BY SoundIsOK
<1>2. /\ DOMAIN db' = Fields /\ db'.companies = c /\ db'.regions = db.regions
      /\ db'.students = db.students /\ db'.trainings = db.trainings /\ db'.taken = db.taken
  BY <1>1, OneTable DEF Fields, Copied
<1>3. LearnersOK(db.students, db) BY SoundParts, Zenon
<1>4. LearnersOK(db'.students, db') BY <1>2, <1>3 DEF LearnersOK, Placed
<1>5. RegionsOK(db.regions) /\ DOMAIN db.trainings \subseteq Titles
      /\ TakenOK(db.taken, db.students, db.trainings)
  BY SoundParts, Zenon
<1> QED BY <1>2, <1>4, <1>5, SoundParts, Zenon

LEMMA RegionsSound ==
  ASSUME Sound(db), NEW c, db' = [db EXCEPT !.regions = c], RegionsOK(c),
         \A e \in DOMAIN db.students : db.students[e].country \in DOMAIN c
  PROVE  Sound(db)'
<1>1. DbOK BY SoundIsOK
<1>2. /\ DOMAIN db' = Fields /\ db'.regions = c /\ db'.companies = db.companies
      /\ db'.students = db.students /\ db'.trainings = db.trainings /\ db'.taken = db.taken
  BY <1>1, OneTable DEF Fields, Copied
<1>3. LearnersOK(db.students, db) BY SoundParts, Zenon
<1>4. LearnersOK(db'.students, db') BY <1>2, <1>3 DEF LearnersOK, Placed
<1>5. CompaniesOK(db.companies) /\ DOMAIN db.trainings \subseteq Titles
      /\ TakenOK(db.taken, db.students, db.trainings)
  BY SoundParts, Zenon
<1> QED BY <1>2, <1>4, <1>5, SoundParts, Zenon

LEMMA LearnersSound ==
  ASSUME Sound(db), NEW s, db' = [db EXCEPT !.students = s], LearnersOK(s, db),
         \A k \in DOMAIN db.taken : k[1] \in DOMAIN s
  PROVE  Sound(db)'
<1>1. DbOK BY SoundIsOK
<1>2. /\ DOMAIN db' = Fields /\ db'.regions = db.regions /\ db'.companies = db.companies
      /\ db'.students = s /\ db'.trainings = db.trainings /\ db'.taken = db.taken
  BY <1>1, OneTable DEF Fields, Copied
<1>3. LearnersOK(db'.students, db') BY <1>2 DEF LearnersOK, Placed
<1>4. CompaniesOK(db.companies) /\ RegionsOK(db.regions) /\ DOMAIN db.trainings \subseteq Titles
      /\ TakenOK(db.taken, db.students, db.trainings)
  BY SoundParts, Zenon
<1>5. TakenOK(db.taken, s, db.trainings) BY <1>4, Zenon DEF TakenOK
<1> QED BY <1>2, <1>3, <1>4, <1>5, SoundParts, Zenon

\* Completions, and what they refer to, are written; companies and regions stay.
LEMMA RowsSound ==
  ASSUME Sound(db), DOMAIN db' = Fields, db'.companies = db.companies,
         db'.regions = db.regions, LearnersOK(db'.students, db),
         DOMAIN db'.trainings \subseteq Titles,
         TakenOK(db'.taken, db'.students, db'.trainings)
  PROVE  Sound(db)'
<1>1. LearnersOK(db'.students, db') BY Zenon DEF LearnersOK, Placed
<1>2. CompaniesOK(db.companies) /\ RegionsOK(db.regions) BY SoundParts, Zenon
<1> QED BY <1>1, <1>2, SoundParts, Zenon

-----------------------------------------------------------------------------
LEMMA CreatedSound ==
  ASSUME Sound(db), NEW r \in Requests, Body(req[r]), PostStudentWrite(r)
  PROVE  Sound(db)'
<1> DEFINE e == req[r].body.email
           row == req[r].body.row
           s == Put(db.students, e, row)
<1>1. db' = [db EXCEPT !.students = s] /\ Placed(db, row)
  BY Zenon DEF PostStudentWrite, Written
<1>2. e \in Emails /\ RowOK(row) BY DEF Body, PostStudentWrite, Writing
<1>3. IsPut(s, db.students, e, row) BY PutIs, Zenon
<1> HIDE DEF e, row, s
<1>4. LearnersOK(db.students, db) /\ TakenOK(db.taken, db.students, db.trainings)
  BY SoundParts, Zenon
<1>5. LearnersOK(s, db) BY <1>1, <1>2, <1>3, <1>4 DEF LearnersOK, IsPut
<1>6. \A k \in DOMAIN db.taken : k[1] \in DOMAIN s BY <1>3, <1>4 DEF TakenOK, IsPut
<1> QED BY <1>1, <1>5, <1>6, LearnersSound, Zenon

LEMMA EditedSound ==
  ASSUME Sound(db), NEW r \in Requests, Body(req[r]), PutStudentWrite(r)
  PROVE  Sound(db)'
<1> DEFINE b == req[r].body
           e == b.email
           row == [f \in DOMAIN b.row |->
                     IF f \in b.sets THEN b.row[f] ELSE db.students[e][f]]
           s == [db.students EXCEPT ![e] = row]
<1>1. db' = [db EXCEPT !.students = s] /\ e \in DOMAIN db.students /\ Placed(db, row)
  BY Zenon DEF PutStudentWrite, Written
<1>a. RowOK(b.row) /\ RowOK(db.students[e])
  BY <1>1, SoundParts DEF Body, PutStudentWrite, Writing, LearnersOK
<1>2. RowOK(row) BY <1>a DEF RowOK, RowFields
<1> HIDE DEF b, e, row
<1>3. DOMAIN s = DOMAIN db.students /\ s[e] = row
      /\ \A x \in DOMAIN db.students : x # e => s[x] = db.students[x]
  BY <1>1
<1> HIDE DEF s
<1>4. LearnersOK(db.students, db) /\ TakenOK(db.taken, db.students, db.trainings)
  BY SoundParts, Zenon
<1>5. LearnersOK(s, db) BY <1>1, <1>2, <1>3, <1>4 DEF LearnersOK
<1>6. \A k \in DOMAIN db.taken : k[1] \in DOMAIN s BY <1>3, <1>4 DEF TakenOK
<1> QED BY <1>1, <1>5, <1>6, LearnersSound, Zenon

\* The completions are not moved to an email nobody has: they would refer to it.
LEMMA RenamedSound ==
  ASSUME Sound(db), NEW r \in Requests, Body(req[r]), RenameStudentWrite(r)
  PROVE  Sound(db)'
<1> DEFINE b == req[r].body
           e == b.email
           new == b.new
           kept == Without(db.students, {e})
           s == Put(kept, new, b.row)
<1>1. /\ db' = [db EXCEPT !.students = s] /\ Placed(db, b.row) /\ new # Keep
      /\ new \notin DOMAIN db.students /\ (HasRows(e) => new \in DOMAIN db.students)
  BY Zenon DEF RenameStudentWrite, Written
<1>2. new \in Emails /\ RowOK(b.row)
  BY <1>1 DEF Body, RenameStudentWrite, Writing
<1>3. \A k \in DOMAIN db.taken : k[1] # e BY <1>1, Zenon DEF HasRows
<1>4. IsPut(s, kept, new, b.row) BY PutIs, Zenon
<1>5. IsWithout(kept, db.students, {e}) BY WithoutIs, Zenon
<1> HIDE DEF e, new, b, s, kept
<1>6. LearnersOK(db.students, db) /\ TakenOK(db.taken, db.students, db.trainings)
  BY SoundParts, Zenon
<1>7. LearnersOK(s, db) BY <1>1, <1>2, <1>4, <1>5, <1>6 DEF LearnersOK, IsPut, IsWithout
<1>8. \A k \in DOMAIN db.taken : k[1] \in DOMAIN s
  BY <1>3, <1>4, <1>5, <1>6 DEF TakenOK, IsPut, IsWithout
<1> QED BY <1>1, <1>7, <1>8, LearnersSound, Zenon

\* The completions of whoever goes, go too.
LEMMA DeletedSound ==
  ASSUME Sound(db), NEW r \in Requests, DeleteStudentWrite(r)
  PROVE  Sound(db)'
<1> DEFINE e == req[r].body.email
           s == Without(db.students, {e})
           t == Without(db.taken, {k \in DOMAIN db.taken : k[1] = e})
<1>1. db' = [db EXCEPT !.students = s, !.taken = t]
  BY Zenon DEF DeleteStudentWrite, Written, WithoutLearner
<1>2. IsWithout(s, db.students, {e}) BY WithoutIs, Zenon
<1>3. IsWithout(t, db.taken, {k \in DOMAIN db.taken : k[1] = e}) BY WithoutIs, Zenon
<1> HIDE DEF e, s, t
<1>4. DOMAIN db = Fields /\ LearnersOK(db.students, db) /\ DOMAIN db.trainings \subseteq Titles
      /\ TakenOK(db.taken, db.students, db.trainings)
  BY SoundParts, Zenon
<1>5. /\ DOMAIN db' = Fields /\ db'.companies = db.companies /\ db'.regions = db.regions
  BY <1>1, <1>4 DEF Fields, Copied
<1>6. db'.students = s /\ db'.trainings = db.trainings /\ db'.taken = t
  BY <1>1, <1>4 DEF Fields, Copied
<1>7. LearnersOK(s, db) BY <1>2, <1>4 DEF LearnersOK, IsWithout
<1>8. TakenOK(t, s, db.trainings)
  <2>1. DOMAIN t \subseteq DOMAIN db.taken BY <1>3 DEF IsWithout
  <2>2. IsFiniteSet(DOMAIN t) BY <1>4, <2>1, FS_Subset, Zenon DEF TakenOK
  <2> QED BY <1>2, <1>3, <1>4, <2>2 DEF TakenOK, IsWithout
<1> QED BY <1>4, <1>5, <1>6, <1>7, <1>8, RowsSound, Zenon

LEMMA TrainingSound ==
  ASSUME Sound(db), NEW r \in Requests, DeleteTrainingWrite(r)
  PROVE  Sound(db)'
<1> DEFINE x == req[r].body.title
           u == Without(db.trainings, {x})
           t == Without(db.taken, {k \in DOMAIN db.taken : k[2] = x})
<1>1. db' = [db EXCEPT !.trainings = u, !.taken = t]
  BY Zenon DEF DeleteTrainingWrite, Written, WithoutTitle
<1>2. IsWithout(u, db.trainings, {x}) BY WithoutIs, Zenon
<1>3. IsWithout(t, db.taken, {k \in DOMAIN db.taken : k[2] = x}) BY WithoutIs, Zenon
<1> HIDE DEF x, u, t
<1>4. DOMAIN db = Fields /\ LearnersOK(db.students, db) /\ DOMAIN db.trainings \subseteq Titles
      /\ TakenOK(db.taken, db.students, db.trainings)
  BY SoundParts, Zenon
<1>5. /\ DOMAIN db' = Fields /\ db'.companies = db.companies /\ db'.regions = db.regions
  BY <1>1, <1>4 DEF Fields, Copied
<1>6. db'.students = db.students /\ db'.trainings = u /\ db'.taken = t
  BY <1>1, <1>4 DEF Fields, Copied
<1>7. DOMAIN u \subseteq Titles BY <1>2, <1>4 DEF IsWithout
<1>8. TakenOK(t, db.students, u)
  <2>1. DOMAIN t \subseteq DOMAIN db.taken BY <1>3 DEF IsWithout
  <2>2. IsFiniteSet(DOMAIN t) BY <1>4, <2>1, FS_Subset, Zenon DEF TakenOK
  <2> QED BY <1>2, <1>3, <1>4, <2>2 DEF TakenOK, IsWithout
<1> QED BY <1>4, <1>5, <1>6, <1>7, <1>8, RowsSound, Zenon

LEMMA CompanyIsNew ==
  ASSUME CompaniesOK(db.companies), NEW id \in Ids, NEW n \in Names, NEW c,
         IsPut(c, db.companies, id, n),
         \A other \in DOMAIN db.companies : other # id => db.companies[other] # n
  PROVE  CompaniesOK(c)
<1>1. DOMAIN c \subseteq Ids BY DEF CompaniesOK, IsPut
<1>2. \A x \in DOMAIN c : c[x] \in Names BY DEF CompaniesOK, IsPut
<1>3. \A x, y \in DOMAIN c : c[x] = c[y] => x = y BY DEF CompaniesOK, IsPut
<1> QED BY <1>1, <1>2, <1>3, Zenon DEF CompaniesOK

LEMMA CompanyCreatedSound ==
  ASSUME Sound(db), NEW r \in Requests, Body(req[r]), PostCompanyWrite(r), None \notin Ids
  PROVE  Sound(db)'
<1> DEFINE n == req[r].body.name
<1>a. PICK id \in FreeIds : db' = [db EXCEPT !.companies = Put(db.companies, id, n)]
  BY Zenon DEF PostCompanyWrite, Written
<1> DEFINE c == Put(db.companies, id, n)
<1>1. ~NameTaken(n, None) BY Zenon DEF PostCompanyWrite
<1>2. n \in Names BY DEF Body, PostCompanyWrite, Writing
<1>3. IsPut(c, db.companies, id, n) BY PutIs, Zenon
<1>4. db' = [db EXCEPT !.companies = c] BY <1>a, Zenon
<1> HIDE DEF n, c
<1>5. CompaniesOK(db.companies) /\ LearnersOK(db.students, db) BY SoundParts, Zenon
<1>6. id \in Ids /\ id \notin DOMAIN db.companies BY <1>a DEF FreeIds
<1>7. \A other \in DOMAIN db.companies : db.companies[other] # n
  BY <1>1, <1>5 DEF NameTaken, CompaniesOK
<1>8. CompaniesOK(c) BY <1>2, <1>3, <1>5, <1>6, <1>7, CompanyIsNew, Zenon
<1>9. \A e \in DOMAIN db.students : db.students[e].company \in DOMAIN c
  BY <1>3, <1>5 DEF LearnersOK, Placed, IsPut
<1> QED BY <1>4, <1>8, <1>9, CompaniesSound, Zenon

LEMMA CompanyRenamedSound ==
  ASSUME Sound(db), NEW r \in Requests, Body(req[r]), PutCompanyWrite(r)
  PROVE  Sound(db)'
<1> DEFINE n == req[r].body.name
           id == req[r].body.id
           c == [db.companies EXCEPT ![id] = n]
<1>1. /\ db' = [db EXCEPT !.companies = c] /\ id \in DOMAIN db.companies
      /\ ~NameTaken(n, id)
  BY Zenon DEF PutCompanyWrite, Written
<1>2. n \in Names BY DEF Body, PutCompanyWrite, Writing
<1>3. IsPut(c, db.companies, id, n) BY <1>1 DEF IsPut
<1> HIDE DEF n, id, c
<1>5. CompaniesOK(db.companies) /\ LearnersOK(db.students, db) BY SoundParts, Zenon
<1>6. id \in Ids BY <1>1, <1>5 DEF CompaniesOK
<1>7. \A other \in DOMAIN db.companies : other # id => db.companies[other] # n
  BY <1>1, Zenon DEF NameTaken
<1>8. CompaniesOK(c) BY <1>2, <1>3, <1>5, <1>6, <1>7, CompanyIsNew, Zenon
<1>9. \A e \in DOMAIN db.students : db.students[e].company \in DOMAIN c
  BY <1>3, <1>5 DEF LearnersOK, Placed, IsPut
<1> QED BY <1>1, <1>8, <1>9, CompaniesSound, Zenon

LEMMA CompanyDeletedSound ==
  ASSUME Sound(db), NEW r \in Requests, DeleteCompanyWrite(r)
  PROVE  Sound(db)'
<1> DEFINE id == req[r].body.id
           c == Without(db.companies, {id})
<1>1. db' = [db EXCEPT !.companies = c] /\ Held(db, id) = {}
  BY Zenon DEF DeleteCompanyWrite, Written
<1>2. IsWithout(c, db.companies, {id}) BY WithoutIs, Zenon
<1> HIDE DEF c, id
<1>3. CompaniesOK(db.companies) /\ LearnersOK(db.students, db) BY SoundParts, Zenon
<1>4. CompaniesOK(c) BY <1>2, <1>3 DEF CompaniesOK, IsWithout
<1>5. \A e \in DOMAIN db.students : db.students[e].company # id
  BY <1>1, Zenon DEF Held
<1>6. \A e \in DOMAIN db.students : db.students[e].company \in DOMAIN c
  BY <1>2, <1>3, <1>5 DEF LearnersOK, Placed, IsWithout
<1> QED BY <1>1, <1>4, <1>6, CompaniesSound, Zenon

LEMMA RegionPut ==
  ASSUME Sound(db), NEW x \in Countries, NEW t \in Theatres \cup {None},
         db' = [db EXCEPT !.regions = Put(db.regions, x, t)]
  PROVE  Sound(db)'
<1> DEFINE c == Put(db.regions, x, t)
<1>1. IsPut(c, db.regions, x, t) BY PutIs, Zenon
<1>2. db' = [db EXCEPT !.regions = c] OBVIOUS
<1> HIDE DEF c
<1>3. RegionsOK(db.regions) /\ LearnersOK(db.students, db) BY SoundParts, Zenon
<1>4. RegionsOK(c) BY <1>1, <1>3 DEF RegionsOK, IsPut
<1>5. \A e \in DOMAIN db.students : db.students[e].country \in DOMAIN c
  BY <1>1, <1>3 DEF LearnersOK, Placed, IsPut
<1> QED BY <1>2, <1>4, <1>5, RegionsSound, Zenon

LEMMA RegionCreatedSound ==
  ASSUME Sound(db), NEW r \in Requests, Body(req[r]), PostRegionWrite(r)
  PROVE  Sound(db)'
<1>1. db' = [db EXCEPT !.regions = Put(db.regions, req[r].body.country, req[r].body.theatre)]
  BY Zenon DEF PostRegionWrite, Written
<1>2. req[r].body.country \in Countries /\ req[r].body.theatre \in Theatres \cup {None}
  BY DEF Body, PostRegionWrite, Writing
<1> QED BY <1>1, <1>2, RegionPut, Zenon

LEMMA RegionDeletedSound ==
  ASSUME Sound(db), NEW r \in Requests, DeleteRegionWrite(r)
  PROVE  Sound(db)'
<1> DEFINE x == req[r].body.country
           c == Without(db.regions, {x})
<1>1. db' = [db EXCEPT !.regions = c] /\ \A e \in DOMAIN db.students : db.students[e].country # x
  BY Zenon DEF DeleteRegionWrite, Written
<1>2. IsWithout(c, db.regions, {x}) BY WithoutIs, Zenon
<1> HIDE DEF c, x
<1>3. RegionsOK(db.regions) /\ LearnersOK(db.students, db) BY SoundParts, Zenon
<1>4. RegionsOK(c) BY <1>2, <1>3 DEF RegionsOK, IsWithout
<1>5. \A e \in DOMAIN db.students : db.students[e].country \in DOMAIN c
  BY <1>1, <1>2, <1>3 DEF LearnersOK, Placed, IsWithout
<1> QED BY <1>1, <1>4, <1>5, RegionsSound, Zenon

\* A country that is given another name takes its learners along.
LEMMA CountryMovedSound ==
  ASSUME Sound(db), NEW r \in Requests, Body(req[r]), PutRegionWrite(r)
  PROVE  Sound(db)'
<1> DEFINE b == req[r].body
           from == b.country
           to == IF b.new = Keep THEN from ELSE b.new
           theatre == IF b.theatre = Keep THEN db.regions[from] ELSE b.theatre
           kept == Without(db.regions, {from})
           c == Put(kept, to, theatre)
           s == [e \in DOMAIN db.students |->
                   IF db.students[e].country = from
                     THEN [db.students[e] EXCEPT !.country = to] ELSE db.students[e]]
<1>1. db' = [db EXCEPT !.regions = c, !.students = s] /\ from \in DOMAIN db.regions
  BY Zenon DEF PutRegionWrite, Written
<1>2. DOMAIN db = Fields /\ RegionsOK(db.regions) /\ LearnersOK(db.students, db)
      /\ CompaniesOK(db.companies) /\ DOMAIN db.trainings \subseteq Titles
      /\ TakenOK(db.taken, db.students, db.trainings)
  BY SoundParts, Zenon
<1>3. b.new \in Countries \cup {Keep} /\ b.theatre \in Theatres \cup {None, Keep}
  BY DEF Body, PutRegionWrite, Writing
<1>4. to \in Countries /\ theatre \in Theatres \cup {None}
  BY <1>1, <1>2, <1>3 DEF RegionsOK
<1>5. IsPut(c, kept, to, theatre) /\ IsWithout(kept, db.regions, {from})
  BY PutIs, WithoutIs, Zenon
<1>6. DOMAIN s = DOMAIN db.students OBVIOUS
<1>7. \A e \in DOMAIN s :
        /\ RowOK(s[e]) /\ s[e].company = db.students[e].company
        /\ s[e].country = IF db.students[e].country = from THEN to ELSE db.students[e].country
  <2> SUFFICES ASSUME NEW e \in DOMAIN s
               PROVE  /\ RowOK(s[e]) /\ s[e].company = db.students[e].company
                      /\ s[e].country = IF db.students[e].country = from THEN to
                                        ELSE db.students[e].country
    OBVIOUS
  <2> DEFINE row == db.students[e]
  <2>1. s[e] = IF row.country = from THEN [row EXCEPT !.country = to] ELSE row
    OBVIOUS
  <2>2. RowOK(row) BY <1>2, <1>6 DEF LearnersOK
  <2> HIDE DEF row, s, to, from
  <2>3. /\ [row EXCEPT !.country = to].company = row.company
        /\ [row EXCEPT !.country = to].country = to
        /\ RowOK([row EXCEPT !.country = to])
    BY <2>2 DEF RowFields, RowOK
  <2> QED BY <2>1, <2>2, <2>3 DEF row
<1> HIDE DEF b, from, to, theatre, kept, c, s
<1>8. DOMAIN db' = Fields /\ db'.companies = db.companies /\ db'.regions = c
  BY <1>1, <1>2 DEF Fields, Copied
<1>9. db'.students = s /\ db'.trainings = db.trainings /\ db'.taken = db.taken
  BY <1>1, <1>2 DEF Fields, Copied
<1>10. RegionsOK(c) BY <1>2, <1>4, <1>5 DEF RegionsOK, IsPut, IsWithout
<1>11. LearnersOK(s, db')
  <2>1. \A e \in DOMAIN s : Placed(db', s[e])
    BY <1>2, <1>5, <1>6, <1>7, <1>8 DEF LearnersOK, Placed, IsPut, IsWithout
  <2> QED BY <1>2, <1>6, <1>7, <2>1, Zenon DEF LearnersOK
<1>12. TakenOK(db.taken, s, db.trainings) BY <1>2, <1>6, Zenon DEF TakenOK
<1> QED BY <1>2, <1>8, <1>9, <1>10, <1>11, <1>12, SoundParts, Zenon

\* Every handler that writes, and one that fails to.
LEMMA WritesSound ==
  ASSUME ReqShape, ImportsShape, AllSane, Sound(db), NEW r \in Requests, None \notin Ids,
         Writes(r) \/ WriteFails(r)
  PROVE  AllSane' /\ Sound(db)' /\ workload' = workload
<1>1. /\ UNCHANGED <<imports, workload>>
      /\ \E o \in {"ok", "error"} : req' = [req EXCEPT ![r].pc = "done", ![r].outcome = o]
  <2>1. CASE Writes(r)
    BY <2>1, Zenon DEF Writes, Written, Writing, PostStudentWrite, PutStudentWrite,
       RenameStudentWrite, DeleteStudentWrite, PostCompanyWrite, PutCompanyWrite,
       DeleteCompanyWrite, PostRegionWrite, PutRegionWrite, DeleteRegionWrite,
       DeleteTrainingWrite
  <2>2. CASE WriteFails(r) BY <2>2, FailedWrites, Zenon
  <2> QED BY <2>1, <2>2
<1>a. PICK o : req' = [req EXCEPT ![r].pc = "done", ![r].outcome = o] BY <1>1, Zenon
<1>2. req'[r].pc = "done" /\ \A q \in Requests : q # r => req'[q] = req[q]
  BY <1>a DEF ReqShape
<1>b. req'[r].pc \in {"idle", "done"} BY <1>2
<1>3. Sane(req'[r], imports'[r]) BY <1>b, DoneIsSane
<1>4. AllSane' BY <1>1, <1>2, <1>3, OthersSane, Zenon
<1>5. Body(req[r]) BY Zenon DEF AllSane, Sane
<1>6. CASE WriteFails(r)
  <2>1. db' = db BY <1>6, FailedWrites, Zenon
  <2>2. Sound(db)' BY <2>1, Zenon
  <2> QED BY <1>1, <1>4, <2>2
<1>7. CASE Writes(r)
  <2>1. Sound(db)'
    BY <1>5, <1>7, CreatedSound, EditedSound, RenamedSound, DeletedSound, TrainingSound,
       CompanyCreatedSound, CompanyRenamedSound, CompanyDeletedSound, RegionCreatedSound,
       RegionDeletedSound, CountryMovedSound, Zenon DEF Writes
  <2> QED BY <1>1, <1>4, <2>1
<1> QED BY <1>6, <1>7

-----------------------------------------------------------------------------
\* A file of countries, and the companies a file introduces.

LEMMA RegionRowSound ==
  ASSUME ReqShape, ImportsShape, AllSane, Sound(db), NEW r \in Requests, ImportRegionsRow(r)
  PROVE  AllSane' /\ Sound(db)' /\ workload' = workload
<1> DEFINE rows == req[r].body.rows
           row == Head(rows)
           b == [req[r].body EXCEPT !.rows = Tail(@)]
           p == IF Len(rows) = 1 THEN "done" ELSE "regions"
           theatre == IF row.theatre # Keep THEN row.theatre
                      ELSE IF row.country \in DOMAIN db.regions THEN db.regions[row.country]
                      ELSE None
<1>1. /\ req[r].pc = "regions" /\ UNCHANGED <<imports, workload>>
      /\ req' = [req EXCEPT ![r].body.rows = Tail(@),
                            ![r].pc = IF Len(rows) = 1 THEN "done" ELSE @]
      /\ db' = IF row.country = Blank THEN db
               ELSE [db EXCEPT !.regions = Put(db.regions, row.country, theatre)]
  BY Zenon DEF ImportRegionsRow
<1>2. req' = [req EXCEPT ![r] = [req[r] EXCEPT !.body.rows = Tail(@),
                  !.pc = IF Len(rows) = 1 THEN "done" ELSE @]]
  BY <1>1
<1>3. req'[r] = [req[r] EXCEPT !.body = b, !.pc = p]
  BY <1>1 DEF ReqShape
<1>4. \A q \in Requests : q # r => req'[q] = req[q] BY <1>2, Zenon DEF ReqShape
<1>5. DOMAIN req[r].body = {"rows"} /\ rows \in Seq(RegionRows) /\ rows # <<>>
  BY <1>1 DEF AllSane, Sane, Body
<1>6. DOMAIN b = {"rows"} /\ b.rows = Tail(rows) BY <1>5
<1>7. row \in RegionRows /\ Tail(rows) \in Seq(RegionRows) /\ (Tail(rows) = <<>> => Len(rows) = 1)
  <2>1. \A s \in Seq(RegionRows) : s # <<>> => Head(s) \in RegionRows /\ Tail(s) \in Seq(RegionRows)
    BY HeadTailProperties, Zenon
  <2>2. \A s \in Seq(RegionRows) : s # <<>> => Len(Tail(s)) = Len(s) - 1
    BY HeadTailProperties, Zenon
  <2>3. Len(rows) \in Nat BY <1>5, LenProperties, Zenon
  <2>4. Tail(rows) = <<>> => Len(Tail(rows)) = 0 BY <1>5, <2>1, EmptySeq, Zenon
  <2> HIDE DEF rows
  <2>5. Len(Tail(rows)) = Len(rows) - 1 BY <1>5, <2>2, Zenon
  <2> QED BY <1>5, <2>1, <2>3, <2>4, <2>5
<1> HIDE DEF rows, b
<1>8. req'[r].pc = p /\ req'[r].body = b BY <1>3 DEF ReqShape
<1>9. Sane(req'[r], imports'[r])
  BY <1>6, <1>7, <1>8 DEF Sane, Body, Track, p
<1>10. AllSane' BY <1>1, <1>4, <1>9, OthersSane, Zenon
<1> HIDE DEF row, p
<1>11. row.country \in Countries \cup {Blank} /\ row.theatre \in Theatres \cup {None, Keep}
  BY <1>7 DEF RegionRows
<1>12. RegionsOK(db.regions) BY SoundParts, Zenon
<1>13. theatre \in Theatres \cup {None} BY <1>11, <1>12 DEF RegionsOK
<1> HIDE DEF theatre
<1>14. CASE row.country = Blank
  <2>1. db' = db BY <1>1, <1>14, Zenon
  <2>2. Sound(db)' BY <2>1, Zenon
  <2> QED BY <1>1, <1>10, <2>2
<1>15. CASE row.country # Blank
  <2>1. row.country \in Countries BY <1>11, <1>15
  <2>2. db' = [db EXCEPT !.regions = Put(db.regions, row.country, theatre)]
    BY <1>1, <1>15, Zenon
  <2>3. Sound(db)' BY <1>13, <2>1, <2>2, RegionPut, Zenon
  <2> QED BY <1>1, <1>10, <2>3
<1> QED BY <1>14, <1>15

Joined(old, new, f) ==
  [id \in DOMAIN old \cup {f[i] : i \in DOMAIN new} |->
     IF id \in DOMAIN old THEN old[id] ELSE new[CHOOSE i \in DOMAIN new : f[i] = id]]

LEMMA NamesJoin ==
  ASSUME CompaniesOK(db.companies), NEW new, Distinct(new),
         \A i \in DOMAIN new, id \in DOMAIN db.companies : db.companies[id] # new[i],
         NEW f, f \in [DOMAIN new -> FreeIds], \A i, j \in DOMAIN new : f[i] = f[j] => i = j
  PROVE  /\ CompaniesOK(Joined(db.companies, new, f))
         /\ DOMAIN db.companies \subseteq DOMAIN Joined(db.companies, new, f)
<1> DEFINE c == Joined(db.companies, new, f)
<1> USE DEF Joined
<1>1. DOMAIN c = DOMAIN db.companies \cup {f[i] : i \in DOMAIN new} OBVIOUS
<1>2. \A id \in DOMAIN db.companies : c[id] = db.companies[id] OBVIOUS
<1>3. \A id \in DOMAIN c \ DOMAIN db.companies :
        \E i \in DOMAIN new : f[i] = id /\ c[id] = new[i]
  OBVIOUS
<1> HIDE DEF c, Joined
<1>4. DOMAIN c \subseteq Ids BY <1>1 DEF FreeIds, CompaniesOK
<1>5. \A id \in DOMAIN c : c[id] \in Names BY <1>2, <1>3 DEF CompaniesOK, Distinct
<1>6. \A id, other \in DOMAIN c : c[id] = c[other] => id = other
  BY <1>2, <1>3 DEF CompaniesOK, Distinct
<1>7. CompaniesOK(c) BY <1>4, <1>5, <1>6, Zenon DEF CompaniesOK
<1>8. DOMAIN db.companies \subseteq DOMAIN c BY <1>1
<1> QED BY <1>7, <1>8, Zenon DEF c

LEMMA IntroducedSound ==
  ASSUME ReqShape, ImportsShape, AllSane, Sound(db), NEW r \in Requests, ImportCompanies(r),
         None \notin Ids, Ids \subseteq Nat
  PROVE  AllSane' /\ Sound(db)' /\ workload' = workload
<1> DEFINE new == imports[r].introduced
<1>1. req[r].pc = "companies" /\ workload' = workload BY Zenon DEF ImportCompanies
<1>b. Sane(req[r], imports[r]) BY Zenon DEF AllSane
<1>2. /\ Distinct(new) /\ DOMAIN imports[r].base = {}
      /\ imports[r].rows \in Seq(FileRows) /\ imports[r].at # 0
      /\ DOMAIN req[r].body = {"file", "last"}
  BY <1>1, <1>b DEF Sane, Track
<1>3. CASE \E i \in DOMAIN new : NameTaken(new[i], None)
  <2>1. /\ req' = [req EXCEPT ![r].pc = "done", ![r].outcome = "error"]
        /\ UNCHANGED <<db, imports>>
    BY <1>3, Zenon DEF ImportCompanies
  <2>2. req'[r].pc \in {"idle", "done"} /\ \A q \in Requests : q # r => req'[q] = req[q]
    BY <2>1 DEF ReqShape
  <2>3. Sane(req'[r], imports'[r]) BY <2>2, DoneIsSane
  <2>4. AllSane' BY <2>1, <2>2, <2>3, OthersSane, Zenon
  <2>5. Sound(db)' BY <2>1, Zenon
  <2> QED BY <1>1, <2>4, <2>5
<1>4. CASE ~\E i \in DOMAIN new : NameTaken(new[i], None)
  <2>a. PICK f \in [DOMAIN new -> FreeIds] :
          /\ \A i, j \in DOMAIN new : i < j => f[i] < f[j]
          /\ db' = [db EXCEPT !.companies =
               [id \in DOMAIN @ \cup {f[i] : i \in DOMAIN new} |->
                  IF id \in DOMAIN @ THEN @[id] ELSE new[CHOOSE i \in DOMAIN new : f[i] = id]]]
          /\ imports' = [imports EXCEPT ![r].known =
               [n \in DOMAIN @ \cup {new[i] : i \in DOMAIN new} |->
                  IF n \in DOMAIN @ THEN @[n] ELSE f[CHOOSE i \in DOMAIN new : new[i] = n]]]
          /\ req' = [req EXCEPT ![r].pc = "read"]
    BY <1>4, Zenon DEF ImportCompanies
  <2> DEFINE c == Joined(db.companies, new, f)
             k == [n \in DOMAIN imports[r].known \cup {new[i] : i \in DOMAIN new} |->
                     IF n \in DOMAIN imports[r].known THEN imports[r].known[n]
                     ELSE f[CHOOSE i \in DOMAIN new : new[i] = n]]
             m == [imports[r] EXCEPT !.known = k]
             q == [req[r] EXCEPT !.pc = "read"]
  <2>1. db' = [db EXCEPT !.companies = c] BY <2>a, Zenon DEF Joined
  <2>2. imports' = [imports EXCEPT ![r] = m] BY <2>a, Zenon
  <2>3. req' = [req EXCEPT ![r] = q] BY <2>a, Zenon
  <2>4. CompaniesOK(db.companies) /\ LearnersOK(db.students, db) BY SoundParts, Zenon
  <2>5. \A i \in DOMAIN new, id \in DOMAIN db.companies : db.companies[id] # new[i]
    BY <1>4, <2>4 DEF NameTaken, CompaniesOK
  <2>6. \A i, j \in DOMAIN new : f[i] = f[j] => i = j
    <3>1. \A i \in DOMAIN new : f[i] \in Nat BY <2>a DEF FreeIds
    <3>2. DOMAIN new \subseteq Nat BY <1>2 DEF Distinct
    <3> QED BY <2>a, <3>1, <3>2
  <2>c. f \in [DOMAIN new -> FreeIds] OBVIOUS
  <2>7. CompaniesOK(c) /\ DOMAIN db.companies \subseteq DOMAIN c
    BY <1>2, <2>4, <2>5, <2>6, <2>c, NamesJoin, Zenon
  <2> HIDE DEF c, k
  <2>8. \A e \in DOMAIN db.students : db.students[e].company \in DOMAIN c
    BY <2>4, <2>7 DEF LearnersOK, Placed
  <2>9. Sound(db)' BY <2>1, <2>7, <2>8, CompaniesSound, Zenon
  <2>10. ImportShape(imports[r]) BY Zenon DEF ImportsShape
  <2>11. m.base = imports[r].base BY <2>10 DEF ImportShape
  <2>12. m.rows = imports[r].rows BY <2>10 DEF ImportShape
  <2>13. m.at = imports[r].at BY <2>10 DEF ImportShape
  <2>14. q.pc = "read" /\ q.body = req[r].body BY DEF ReqShape
  <2> HIDE DEF m, q
  <2>u. "regions" \notin DOMAIN m.base BY <1>2, <2>11
  <2>v. Track(m, "read", q.body.last) BY <1>2, <2>11, <2>12, <2>13, <2>u DEF Track, TablesRead
  <2>w. Body(q) BY <2>14 DEF Body
  <2>15. Sane(q, m) BY <1>2, <2>14, <2>v, <2>w, Zenon DEF Sane
  <2>16. req'[r] = q /\ imports'[r] = m
         /\ \A p \in Requests : p # r => req'[p] = req[p] /\ imports'[p] = imports[p]
    BY <2>2, <2>3, Zenon DEF ReqShape, ImportsShape
  <2>17. AllSane' BY <2>15, <2>16, OthersSane, Zenon
  <2> QED BY <1>1, <2>9, <2>17
<1> QED BY <1>3, <1>4

-----------------------------------------------------------------------------
\* The import goes on: what it holds stays typed.

LEMMA ImportIsSane ==
  ASSUME ReqShape, AllSane, NEW r \in Requests, Others(r), NEW pc, NEW body,
         req'[r].pc = pc, req'[r].body = body, pc \in {"read", "chunk", "slow"},
         DOMAIN body = {"file", "last"}, Track(imports'[r], pc, body.last)
  PROVE  AllSane'
<1>1. Body(req'[r]) BY DEF Body
<1>2. Sane(req'[r], imports'[r]) BY <1>1, Zenon DEF Sane
<1> QED BY <1>2, OthersSane, Zenon DEF Others

LEMMA Importing ==
  ASSUME AllSane, NEW r \in Requests, req[r].pc \in {"companies", "read", "chunk", "slow"}
  PROVE  DOMAIN req[r].body = {"file", "last"} /\ Track(imports[r], req[r].pc, req[r].body.last)
<1>1. Sane(req[r], imports[r]) BY Zenon DEF AllSane
<1> QED BY <1>1, Zenon DEF Sane

LEMMA ReadsSound ==
  ASSUME ReqShape, AllSane, Sound(db), NEW r \in Requests, req[r].pc = "read",
         Others(r), ReadOn(r), db' = db, workload' = workload
  PROVE  AllSane' /\ Sound(db)' /\ workload' = workload
<1>1. DOMAIN req[r].body = {"file", "last"} /\ Track(imports[r], "read", req[r].body.last)
  BY Importing
<1>2. req'[r].pc \in {"read", "chunk"} /\ req'[r].body = req[r].body
  BY <1>1 DEF Track, ReadOn
<1>a. RegionsOK(db.regions) BY SoundParts, Zenon
<1>3. Track(imports'[r], req'[r].pc, req[r].body.last)
  BY <1>1, <1>2, <1>a DEF Track, ReadOn
<1>b. req'[r].pc \in {"read", "chunk", "slow"} BY <1>2
<1>4. AllSane' BY <1>1, <1>2, <1>b, <1>3, ImportIsSane, Zenon
<1>5. Sound(db)' BY Zenon
<1> QED BY <1>4, <1>5

\* A row without a country has no such stage.
LEMMA StagesOfRow ==
  ASSUME NEW r, NEW i
  PROVE  /\ StagesAt(r, i) = Tables => imports[r].rows[i].country # Blank
         /\ StagesAt(r, i) = Tail(Tables) => imports[r].rows[i].country = Blank
<1>1. Tables # <<>> /\ Tables # Tail(Tables) /\ Tail(Tables) # <<>>
  <2>1. Tables # <<>> /\ Head(Tables) = "regions" BY TableTails, Zenon
  <2>2. Head(Tail(Tables)) = "students" BY TableTails, Zenon
  <2>3. "regions" # "students" OBVIOUS
  <2>4. Tail(Tables) # <<>> BY TableTails, Zenon
  <2> QED BY <2>1, <2>2, <2>3, <2>4, Zenon
<1>2. StagesAt(r, i) = Tables => imports[r].rows[i].country # Blank
  BY <1>1, Zenon DEF StagesAt, Stages
<1>3. StagesAt(r, i) = Tail(Tables) => imports[r].rows[i].country = Blank
  BY <1>1, Zenon DEF StagesAt, Stages
<1> QED BY <1>2, <1>3

LEMMA NextRowSound ==
  ASSUME ReqShape, ImportsShape, AllSane, Sound(db), NEW r \in Requests, Slow(r),
         Others(r), NextRow(r), db' = db, workload' = workload
  PROVE  AllSane' /\ Sound(db)' /\ workload' = workload
<1> DEFINE last == req[r].body.last
           at == imports[r].at
<1>1. DOMAIN req[r].body = {"file", "last"} /\ Track(imports[r], "slow", last)
  BY Importing DEF Slow
<1>2. /\ imports[r].rows \in Seq(FileRows) /\ DOMAIN imports[r].base = Copied
      /\ last \in Nat /\ at <= last /\ last <= Len(imports[r].rows)
  BY <1>1 DEF Track
<1>a. at \in Nat BY Zenon DEF ImportsShape, ImportShape
<1>b. Tables # <<>> BY TableTails, Zenon
<1>3. CASE at < last
  <2>1. req'[r].pc = "slow" /\ imports'[r].stages = StagesAt(r, at + 1)
        /\ imports'[r].at = at + 1
    BY <1>3, Zenon DEF NextRow
  <2>2. /\ imports'[r].stages = Tables => imports[r].rows[at + 1].country # Blank
        /\ imports'[r].stages = Tail(Tables) => imports[r].rows[at + 1].country = Blank
    BY <2>1, StagesOfRow, Zenon
  <2>3. at + 1 # 0 /\ at + 1 <= last BY <1>2, <1>3, <1>a
  <2>4. Track(imports'[r], "slow", last)
    BY <1>1, <1>2, <2>1, <2>2, <2>3, TableTails DEF Track, NextRow
  <2> QED BY <1>1, <2>1, <2>4, ImportIsSane DEF NextRow
<1>4. CASE ~(at < last)
  <2>1. req'[r].pc = "chunk" /\ imports'[r].stages = <<>> /\ imports'[r].at = at + 1
    BY <1>4, Zenon DEF NextRow
  <2>2. at + 1 # 0 BY <1>a
  <2>3. Track(imports'[r], "chunk", last)
    BY <1>1, <1>2, <2>1, <2>2 DEF Track, NextRow
  <2> QED BY <1>1, <2>1, <2>3, ImportIsSane DEF NextRow
<1>5. AllSane' BY <1>3, <1>4
<1>6. Sound(db)' BY Zenon
<1> QED BY <1>5, <1>6

LEMMA SteppedSane ==
  ASSUME ReqShape, ImportsShape, AllSane, NEW r \in Requests, Slow(r), imports[r].stages # <<>>,
         Others(r), Stepped(r), Sound(db)'
  PROVE  AllSane'
<1> DEFINE last == req[r].body.last
<1>1. DOMAIN req[r].body = {"file", "last"} /\ Track(imports[r], "slow", last)
  BY Importing DEF Slow
<1>2. imports[r].stages \in StageLists BY Zenon DEF ImportsShape, ImportShape
<1>3. Tail(imports[r].stages) # Tables /\ <<>> # Tables BY <1>2, NextStage, TableTails, Zenon
<1>4. imports'[r].stages = Tables => imports[r].stages = Tables BY <1>3, Zenon DEF Stepped
<1>a. DOMAIN imports[r].base = Copied /\ RegionsOK(imports[r].base.regions)
  BY <1>1 DEF Track, Copied
<1>b. RegionsOK(db'.regions) BY SoundParts, Zenon DEF Sound, RegionsOK
<1>c. RegionsOK(imports'[r].base.regions)
  <2>1. Widened(imports[r].base.regions, imports'[r].base.regions, db'.regions)
    BY <1>a, Zenon DEF Stepped
  <2> QED BY <1>a, <1>b, <2>1 DEF RegionsOK, Widened
<1>d. imports'[r].stages = Tail(Tables) =>
        \/ imports[r].rows[imports[r].at].country = Blank
        \/ imports[r].rows[imports[r].at].country \in DOMAIN imports'[r].base.regions
  <2> SUFFICES ASSUME imports'[r].stages = Tail(Tables),
                      imports[r].rows[imports[r].at].country # Blank
               PROVE  imports[r].rows[imports[r].at].country \in DOMAIN imports'[r].base.regions
    OBVIOUS
  <2>1. imports[r].stages = Tables \/ imports[r].stages = Tail(Tables)
    BY <1>2, TableTails, LongLists DEF StageLists, Stepped
  <2>2. CASE imports[r].stages = Tables BY <1>a, <2>2, Zenon DEF Stepped, AtRow
  <2>3. CASE imports[r].stages = Tail(Tables)
    <3>1. imports[r].rows[imports[r].at].country \in DOMAIN imports[r].base.regions
      BY <1>1, <2>3, TableTails DEF Track
    <3>2. DOMAIN imports[r].base.regions \subseteq DOMAIN imports'[r].base.regions
      BY <1>a, Zenon DEF Stepped, Widened
    <3> QED BY <3>1, <3>2
  <2> QED BY <2>1, <2>2, <2>3
<1>5. Track(imports'[r], "slow", last)
  BY <1>1, <1>4, <1>a, <1>c, <1>d, TableTails DEF Track, Stepped
<1>6. req'[r].pc = "slow" /\ req'[r].body = req[r].body BY Zenon DEF Stepped, Slow
<1> QED BY <1>1, <1>5, <1>6, ImportIsSane

LEMMA FileRowTyped ==
  ASSUME NEW row \in FileRows
  PROVE  /\ row.email \in Emails /\ row.country \in Countries \cup {Blank}
         /\ row.theatre \in Theatres \cup {None} /\ row.title \in Titles /\ row.date \in Dates
         /\ row.company \in Names \cup {Blank}
  BY DEF FileRows

\* The row an import is at is one of the file.
LEMMA RowsAt ==
  ASSUME NEW rows \in Seq(FileRows), NEW i \in Nat \ {0}, i <= Len(rows)
  PROVE  rows[i] \in FileRows
<1>1. DOMAIN rows = 1..Len(rows) /\ rows \in [1..Len(rows) -> FileRows] /\ Len(rows) \in Nat
  BY LenProperties, Zenon
<1>2. i \in 1..Len(rows) BY <1>1
<1> QED BY <1>1, <1>2

LEMMA EntryOf ==
  ASSUME NEW row, NEW company, NEW view
  PROVE  /\ EntryFor("regions", row, company, view) = row.theatre
         /\ EntryFor("taken", row, company, view) = 1
         /\ DOMAIN EntryFor("students", row, company, view) = RowFields
         /\ EntryFor("students", row, company, view).theatre = Theatre(row, view)
         /\ EntryFor("students", row, company, view).country = row.country
<1>1. EntryFor("regions", row, company, view) = row.theatre BY DEF EntryFor
<1>2. EntryFor("taken", row, company, view) = 1 BY DEF EntryFor
<1>3. EntryFor("students", row, company, view) =
        [company |-> company, country |-> row.country, theatre |-> Theatre(row, view)]
  BY DEF EntryFor
<1>4. DOMAIN EntryFor("students", row, company, view) = RowFields BY <1>3 DEF RowFields
<1>5. /\ EntryFor("students", row, company, view).theatre = Theatre(row, view)
      /\ EntryFor("students", row, company, view).country = row.country
  BY <1>3
<1> QED BY <1>1, <1>2, <1>4, <1>5

\* The theatre of a learner to be: that of the country, or of the file.
LEMMA RowOf ==
  ASSUME NEW row \in FileRows, NEW company, NEW view, RegionsOK(view.regions),
         row.country # Blank => row.country \in DOMAIN view.regions
  PROVE  RowOK(EntryFor("students", row, company, view))
<1> DEFINE entry == EntryFor("students", row, company, view)
<1>1. DOMAIN entry = RowFields /\ entry.theatre = Theatre(row, view) BY EntryOf
<1>2. row.theatre \in Theatres \cup {None} BY FileRowTyped
<1>3. Theatre(row, view) \in Theatres \cup {None} BY <1>2 DEF Theatre, RegionsOK
<1> QED BY <1>1, <1>3 DEF RowOK

LEMMA KeyOf ==
  ASSUME NEW row
  PROVE  /\ KeyIn("regions", row) = row.country /\ KeyIn("students", row) = row.email
         /\ KeyIn("trainings", row) = row.title
         /\ KeyIn("taken", row)[3] = row.date
<1>1. KeyIn("taken", row) = <<row.email, row.title, row.date>> BY DEF KeyIn
<1>2. KeyIn("taken", row)[3] = row.date BY <1>1
<1>3. KeyIn("regions", row) = row.country BY DEF KeyIn
<1>4. KeyIn("students", row) = row.email BY DEF KeyIn
<1>5. KeyIn("trainings", row) = row.title BY DEF KeyIn
<1> QED BY <1>2, <1>3, <1>4, <1>5

\* A statement of a row: the keys of the tables let it in, and it is typed.
LEMMA CreateSound ==
  ASSUME ReqShape, ImportsShape, AllSane, Sound(db), NEW r \in Requests, SlowCreate(r)
  PROVE  Sound(db)'
<1> DEFINE n == imports[r]
           t == Head(n.stages)
           row == AtRow(r)
           k == KeyIn(t, row)
           entry == EntryFor(t, row, CompanyOf(r, n.at), n.base)
           count == IF t = "taken" /\ k \in DOMAIN db.taken THEN db.taken[k] + 1 ELSE entry
<1>1. req[r].pc = "slow" /\ n.stages # <<>> BY Zenon DEF SlowCreate, Slow
<1>2. /\ Accepted(t, k, entry) => db' = [db EXCEPT ![t] = Put(db[t], k, count)]
      /\ ~Accepted(t, k, entry) => db' = db
  BY Zenon DEF SlowCreate
<1>3. n.stages \in StageLists /\ n.at \in Nat BY Zenon DEF ImportsShape, ImportShape
<1>4. Track(n, "slow", req[r].body.last) BY <1>1, Importing
<1>5. n.rows \in Seq(FileRows) /\ n.at # 0 /\ n.at <= Len(n.rows)
  <2>1. Len(n.rows) \in Nat BY Zenon DEF ImportsShape, ImportShape
  <2> QED BY <1>3, <1>4, <2>1 DEF Track
<1>6. row \in FileRows BY <1>3, <1>5, RowsAt DEF AtRow
<1>7. t \in Copied BY <1>1, <1>3, NextStage, Zenon
<1>8. t = "regions" => row.country # Blank
  <2>1. t = "regions" => n.stages = Tables BY <1>1, <1>3, TableTails DEF StageLists
  <2> QED BY <1>4, <2>1 DEF Track, AtRow
<1> HIDE DEF t, k, row, entry
<1>9. /\ DOMAIN db = Fields /\ CompaniesOK(db.companies) /\ RegionsOK(db.regions)
      /\ LearnersOK(db.students, db) /\ DOMAIN db.trainings \subseteq Titles
      /\ TakenOK(db.taken, db.students, db.trainings)
  BY SoundParts, Zenon
<1>10. DbOK BY SoundIsOK
<1>11. CASE ~Accepted(t, k, entry)
  <2>1. db' = db BY <1>2, <1>11, Zenon
  <2> QED BY <2>1, Zenon
<1>12. CASE Accepted(t, k, entry)
  <2>1. db' = [db EXCEPT ![t] = Put(db[t], k, count)] BY <1>2, <1>12, Zenon
  <2>2. t \in Fields BY <1>7 DEF Fields
  <2>3. /\ DOMAIN db' = Fields /\ db'[t] = Put(db[t], k, count)
        /\ \A u \in Fields : u # t => db'[u] = db[u]
    BY <1>10, <2>1, <2>2, OneTable, Zenon
  <2>4. IsPut(db'[t], db[t], k, count) BY <2>3, PutIs, Zenon
  <2>5. CASE t = "regions"
    <3>1. k \in Countries BY <1>6, <1>8, <2>5, KeyOf, FileRowTyped DEF k
    <3>2. count = row.theatre /\ row.theatre \in Theatres \cup {None}
      BY <1>6, <2>5, EntryOf, FileRowTyped DEF entry
    <3>3. db' = [db EXCEPT !.regions = Put(db.regions, k, count)] BY <2>1, <2>5, Zenon
    <3> QED BY <3>1, <3>2, <3>3, RegionPut, Zenon
  <2>6. CASE t = "students"
    <3>1. k \in Emails BY <1>6, <2>6, KeyOf, FileRowTyped DEF k
    <3>2. count = entry BY <2>6
    <3>a. RowOK(entry)
      <4>1. n.stages = <<"students", "trainings", "taken">>
        BY <1>1, <1>3, <2>6, TableTails DEF StageLists, t
      <4>2. RegionsOK(n.base.regions) BY <1>4 DEF Track, Copied
      <4>3. row.country # Blank => row.country \in DOMAIN n.base.regions
        BY <1>4, <4>1 DEF Track, AtRow, row
      <4>4. RowOK(EntryFor("students", row, CompanyOf(r, n.at), n.base))
        BY <1>6, <4>2, <4>3, RowOf, Zenon
      <4> QED BY <2>6, <4>4, Zenon DEF entry
    <3>3. Placed(db, entry) BY <1>12, <2>6 DEF Accepted
    <3>4. db' = [db EXCEPT !.students = Put(db.students, k, count)] BY <2>1, <2>6, Zenon
    <3>5. IsPut(Put(db.students, k, count), db.students, k, count) BY PutIs, Zenon
    <3>6. LearnersOK(Put(db.students, k, count), db)
      BY <1>9, <3>1, <3>2, <3>a, <3>3, <3>5 DEF LearnersOK, IsPut
    <3>7. \A x \in DOMAIN db.taken : x[1] \in DOMAIN Put(db.students, k, count)
      BY <1>9, <3>5 DEF TakenOK, IsPut
    <3> QED BY <3>4, <3>6, <3>7, LearnersSound, Zenon
  <2>7. CASE t = "trainings"
    <3>1. k \in Titles BY <1>6, <2>7, KeyOf, FileRowTyped DEF k
    <3>2. /\ db'.companies = db.companies /\ db'.regions = db.regions
          /\ db'.students = db.students /\ db'.taken = db.taken
      BY <2>3, <2>7 DEF Fields, Copied
    <3>3. DOMAIN db'.trainings = DOMAIN db.trainings \cup {k} BY <2>4, <2>7 DEF IsPut
    <3>4. DOMAIN db'.trainings \subseteq Titles BY <1>9, <3>1, <3>3
    <3>5. TakenOK(db.taken, db.students, db'.trainings) BY <1>9, <3>3 DEF TakenOK
    <3> QED BY <1>9, <2>3, <3>2, <3>4, <3>5, RowsSound, Zenon
  <2>8. CASE t = "taken"
    <3>1. k[3] \in Dates BY <1>6, <2>8, KeyOf, FileRowTyped DEF k
    <3>2. entry = 1 BY <2>8, EntryOf DEF entry
    <3>3. count \in Nat \ {0} BY <1>9, <2>8, <3>2 DEF TakenOK
    <3>4. /\ db'.companies = db.companies /\ db'.regions = db.regions
          /\ db'.students = db.students /\ db'.trainings = db.trainings
      BY <2>3, <2>8 DEF Fields, Copied
    <3>5. IsPut(db'.taken, db.taken, k, count) BY <2>4, <2>8, Zenon
    <3> HIDE DEF count
    <3>6. k[1] \in DOMAIN db.students /\ k[2] \in DOMAIN db.trainings
      BY <1>12, <2>8 DEF Accepted
    <3>7. IsFiniteSet(DOMAIN db'.taken)
      <4>1. DOMAIN db'.taken = DOMAIN db.taken \cup {k} BY <3>5, Zenon DEF IsPut
      <4>2. IsFiniteSet(DOMAIN db.taken) BY <1>9, Zenon DEF TakenOK
      <4> QED BY <4>1, <4>2, FS_AddElement, Zenon
    <3>8. TakenOK(db'.taken, db.students, db.trainings)
      BY <1>9, <3>1, <3>3, <3>5, <3>6, <3>7 DEF TakenOK, IsPut
    <3> QED BY <1>9, <2>3, <3>4, <3>8, RowsSound, Zenon
  <2> QED BY <1>7, <2>5, <2>6, <2>7, <2>8 DEF Copied
<1> QED BY <1>11, <1>12

-----------------------------------------------------------------------------
\* What the rows of a chunk add to the copy is typed.

Typed(t, k, entry) ==
  /\ t = "regions" => k \in Countries /\ entry \in Theatres \cup {None}
  /\ t = "students" => k \in Emails /\ RowOK(entry)
  /\ t = "trainings" => k \in Titles
  /\ t = "taken" => k \in Triples /\ entry \in Nat \ {0}

\* All that a chunk adds is.
Fresh(base, view) ==
  /\ DOMAIN view = Copied
  /\ \A t \in Copied : \A k \in DOMAIN view[t] \ DOMAIN base[t] : Typed(t, k, view[t][k])
  /\ IsFiniteSet(DOMAIN view.taken \ DOMAIN base.taken) /\ RegionsOK(view.regions)

Tried(base, y) == DOMAIN y = {"view", "out", "stop"} /\ Fresh(base, y.view)

LEMMA EntryTyped ==
  ASSUME NEW t \in Copied, NEW row \in FileRows, NEW company, NEW view,
         RegionsOK(view.regions), t = "regions" => row.country # Blank,
         t = "students" => row.country \in DOMAIN view.regions
  PROVE  Typed(t, KeyIn(t, row), EntryFor(t, row, company, view))
<1> DEFINE k == KeyIn(t, row)
           entry == EntryFor(t, row, company, view)
<1>1. t = "regions" => k \in Countries /\ entry \in Theatres \cup {None}
  BY KeyOf, EntryOf, FileRowTyped
<1>2. t = "students" => k \in Emails /\ RowOK(entry) BY KeyOf, RowOf, FileRowTyped
<1>3. t = "trainings" => k \in Titles BY KeyOf, FileRowTyped
<1>4. t = "taken" => k \in Triples /\ entry \in Nat \ {0}
  <2>1. row.email \in Emails /\ row.title \in Titles /\ row.date \in Dates BY FileRowTyped
  <2>2. KeyIn("taken", row) = <<row.email, row.title, row.date>> BY DEF KeyIn
  <2>3. KeyIn("taken", row) \in Triples BY <2>1, <2>2 DEF Triples
  <2>4. EntryFor("taken", row, company, view) \in Nat \ {0} BY EntryOf
  <2> QED BY <2>3, <2>4, Zenon
<1> QED BY <1>1, <1>2, <1>3, <1>4, Zenon DEF Typed

LEMMA FreshGrows ==
  ASSUME NEW base, NEW view, Fresh(base, view), NEW t \in Copied, NEW k, NEW entry,
         Typed(t, k, entry)
  PROVE  Fresh(base, [view EXCEPT ![t] = Put(view[t], k, entry)])
<1> DEFINE new == [view EXCEPT ![t] = Put(view[t], k, entry)]
<1>1. DOMAIN new = Copied /\ new[t] = Put(view[t], k, entry)
      /\ \A u \in Copied : u # t => new[u] = view[u]
  BY DEF Fresh
<1> HIDE DEF new
<1>2. IsPut(new[t], view[t], k, entry) BY <1>1, PutIs, Zenon
<1>3. \A x \in DOMAIN new[t] \ DOMAIN base[t] : Typed(t, x, new[t][x])
  <2> SUFFICES ASSUME NEW x \in DOMAIN new[t] \ DOMAIN base[t]
               PROVE  Typed(t, x, new[t][x])
    OBVIOUS
  <2>1. CASE x = k
    <3>1. new[t][x] = entry BY <1>2, <2>1, Zenon DEF IsPut
    <3> QED BY <2>1, <3>1, Zenon
  <2>2. CASE x # k
    <3>1. x \in DOMAIN view[t] \ DOMAIN base[t] /\ new[t][x] = view[t][x]
      BY <1>2, <2>2 DEF IsPut
    <3>2. Typed(t, x, view[t][x]) BY <3>1, Zenon DEF Fresh
    <3> QED BY <3>1, <3>2, Zenon
  <2> QED BY <2>1, <2>2
<1>4. \A u \in Copied : \A x \in DOMAIN new[u] \ DOMAIN base[u] : Typed(u, x, new[u][x])
  BY <1>1, <1>3, Zenon DEF Fresh
<1>5. IsFiniteSet(DOMAIN new.taken \ DOMAIN base.taken)
  <2> DEFINE old == DOMAIN view.taken \ DOMAIN base.taken
  <2>1. IsFiniteSet(old) BY Zenon DEF Fresh
  <2>2. IsFiniteSet(old \cup {k}) BY <2>1, FS_AddElement, Zenon
  <2>3. DOMAIN new.taken \subseteq DOMAIN view.taken \cup {k} BY <1>1, <1>2 DEF IsPut, Copied
  <2>4. DOMAIN new.taken \ DOMAIN base.taken \subseteq old \cup {k} BY <2>3
  <2> QED BY <2>2, <2>4, FS_Subset, Zenon
<1>7. RegionsOK(new.regions)
  <2>1. RegionsOK(view.regions) BY Zenon DEF Fresh
  <2>2. CASE t = "regions"
    <3>1. k \in Countries /\ entry \in Theatres \cup {None} BY <2>2, Zenon DEF Typed
    <3>2. IsPut(new.regions, view.regions, k, entry) BY <1>2, <2>2, Zenon
    <3> QED BY <2>1, <3>1, <3>2 DEF RegionsOK, IsPut
  <2>3. CASE t # "regions"
    <3>1. new.regions = view.regions BY <1>1, <2>3 DEF Copied
    <3> QED BY <2>1, <3>1, Zenon
  <2> QED BY <2>2, <2>3
<1>6. Fresh(base, new) BY <1>1, <1>4, <1>5, <1>7, Zenon DEF Fresh
<1> QED BY <1>6 DEF new

LEMMA StageTried ==
  ASSUME NEW r, NEW i, NEW t \in Copied, NEW base, NEW y, Tried(base, y),
         imports[r].rows[i] \in FileRows, t = "regions" => imports[r].rows[i].country # Blank
  PROVE  Tried(base, Stage(r, i, t, y))
<1> DEFINE row == imports[r].rows[i]
           company == CompanyOf(r, i)
           k == KeyIn(t, row)
           entry == EntryFor(t, row, company, y.view)
           new == [y.view EXCEPT ![t] = Put(y.view[t], k, entry)]
           z == Stage(r, i, t, y)
<1>1. DOMAIN y = {"view", "out", "stop"} /\ Fresh(base, y.view) BY Zenon DEF Tried
<1> DEFINE placed == t = "students" => row.country \in DOMAIN y.view.regions
<1>2. \/ z = y
      \/ z = [y EXCEPT !.stop = TRUE, !.out = Failed(@, i)]
      \/ z = [y EXCEPT !.out = Found(t, row, company, y.view, @)]
      \/ /\ placed
         /\ z = [y EXCEPT !.view[t] = Put(@, k, entry), !.out = Created(t, row, company, @)]
  BY Zenon DEF Stage
<1>a. RegionsOK(y.view.regions) BY <1>1, Zenon DEF Fresh
<1>3. placed => Typed(t, k, entry) BY <1>a, EntryTyped, Zenon
<1> HIDE DEF k, entry, row, company, placed
<1>4. placed => Fresh(base, new) BY <1>1, <1>3, FreshGrows, Zenon
<1>5. DOMAIN z = DOMAIN y /\ (z.view = y.view \/ (placed /\ z.view = new))
  <2> HIDE DEF z
  <2>1. DOMAIN z = DOMAIN y BY <1>2
  <2>2. z.view = y.view \/ (placed /\ z.view = new) BY <1>1, <1>2
  <2> QED BY <2>1, <2>2
<1> HIDE DEF z, new
<1>6. Tried(base, z) BY <1>1, <1>4, <1>5 DEF Tried
<1> QED BY <1>6 DEF z

LEMMA RowTried ==
  ASSUME NEW r, NEW i, NEW base, NEW x, Tried(base, x), imports[r].rows[i] \in FileRows
  PROVE  Tried(base, Worked(r, x, i))
<1> DEFINE fresh == [x EXCEPT !.stop = FALSE]
           row == imports[r].rows[i]
           placed == IF row.country = Blank THEN fresh ELSE Stage(r, i, "regions", fresh)
           s == Stage(r, i, "students", placed)
           u == Stage(r, i, "trainings", s)
           v == Stage(r, i, "taken", u)
<1>1. DOMAIN x = {"view", "out", "stop"} /\ Fresh(base, x.view) BY Zenon DEF Tried
<1>2. CASE CompanyOf(r, i) = None
  <2> DEFINE z == Worked(r, x, i)
             out == Failed(x.out, i)
  <2>1. z = [x EXCEPT !.out = out] BY <1>2, Zenon DEF Worked
  <2> HIDE DEF z, out
  <2>2. DOMAIN z = DOMAIN x BY <2>1
  <2>3. z.view = x.view BY <1>1, <2>1
  <2>4. Tried(base, z) BY <1>1, <2>2, <2>3, Zenon DEF Tried
  <2> QED BY <2>4 DEF z
<1>3. CASE CompanyOf(r, i) # None
  <2>1. Worked(r, x, i) = v BY <1>3, Zenon DEF Worked
  <2>2. DOMAIN fresh = DOMAIN x OBVIOUS
  <2>3. fresh.view = x.view BY <1>1
  <2>4. Tried(base, fresh) BY <1>1, <2>2, <2>3, Zenon DEF Tried
  <2> HIDE DEF fresh
  <2>5. /\ "regions" \in Copied /\ "students" \in Copied /\ "trainings" \in Copied
        /\ "taken" \in Copied
    BY DEF Copied
  <2>6. "students" # "regions" /\ "trainings" # "regions" /\ "taken" # "regions"
    OBVIOUS
  <2>7. Tried(base, placed) BY <2>4, <2>5, StageTried, Zenon
  <2> HIDE DEF placed
  <2>8. Tried(base, s) BY <2>5, <2>6, <2>7, StageTried, Zenon
  <2> HIDE DEF s
  <2>9. Tried(base, u) BY <2>5, <2>6, <2>8, StageTried, Zenon
  <2> HIDE DEF u
  <2>10. Tried(base, v) BY <2>5, <2>6, <2>9, StageTried, Zenon
  <2> QED BY <2>1, <2>10, Zenon
<1> QED BY <1>2, <1>3

LEMMA ChunkTried ==
  ASSUME NEW r, NEW N \in Nat, NEW f, Takes(r, f, N), NEW base, Tried(base, Untried(r)),
         \A n \in 1..N : imports[r].rows[Chunk(r)[n]] \in FileRows
  PROVE  Tried(base, f[N])
<1> DEFINE w(c, n) == Worked(r, c, Chunk(r)[n])
           bad == {n \in 0..N : ~Tried(base, f[n])}
<1>1. f = [n \in 0..N |-> IF n = 0 THEN Untried(r) ELSE w(f[n - 1], n)] BY Zenon DEF Takes
<1>2. \A c, n : n \in 1..N /\ Tried(base, c) => Tried(base, w(c, n)) BY RowTried, Zenon
<1> HIDE DEF w
<1>3. \A n \in 0..N : f[n] = IF n = 0 THEN Untried(r) ELSE w(f[n - 1], n) BY <1>1
<1>4. ASSUME bad # {} PROVE FALSE
  <2>1. bad \in SUBSET Nat OBVIOUS
  <2>2. PICK x \in bad : \A y \in bad : x <= y BY <1>4, <2>1, LeastIsThere, Zenon
  <2>3. x \in 0..N /\ ~Tried(base, f[x]) OBVIOUS
  <2>4. x # 0
    <3>1. 0 \in 0..N OBVIOUS
    <3>2. f[0] = Untried(r) BY <1>3, <3>1
    <3> QED BY <2>3, <3>2, Zenon
  <2>5. x - 1 \in 0..N /\ ~(x <= x - 1) /\ x \in 1..N BY <2>3, <2>4
  <2>6. x - 1 \notin bad BY <2>2, <2>5
  <2>7. Tried(base, f[x - 1]) BY <2>5, <2>6
  <2>8. f[x] = w(f[x - 1], x) BY <1>3, <2>3, <2>4
  <2> QED BY <1>2, <2>3, <2>5, <2>7, <2>8, Zenon
<1>5. N \in 0..N OBVIOUS
<1> QED BY <1>4, <1>5

\* A chunk that is written: what it adds is typed, and its keys hold.
LEMMA FlushIsSound ==
  ASSUME Sound(db), NEW r \in Requests, NEW view, Fresh(imports[r].base, view),
         Flushes(r, view), db' = Flushed(r, view)
  PROVE  Sound(db)'
<1> DEFINE new(t) == New(r, view, t)
           v == Merged(r, view, "regions")
           s == Merged(r, view, "students")
           w == Merged(r, view, "trainings")
           u == Merged(r, view, "taken")
           d == [companies |-> db.companies, regions |-> v, students |-> s, trainings |-> w,
                 taken |-> u]
<1>1. db' = d BY Zenon DEF Flushed
<1>2. /\ DOMAIN d = Fields /\ d.companies = db.companies /\ d.regions = v /\ d.students = s
      /\ d.trainings = w /\ d.taken = u
  BY DEF Fields, Copied
<1>3. /\ DOMAIN v = DOMAIN db.regions \cup new("regions")
      /\ \A k \in DOMAIN v : v[k] = IF k \in new("regions") THEN view.regions[k]
                                    ELSE db.regions[k]
  BY DEF Merged
<1>4. /\ DOMAIN s = DOMAIN db.students \cup new("students")
      /\ \A k \in DOMAIN s : s[k] = IF k \in new("students") THEN view.students[k]
                                    ELSE db.students[k]
  BY DEF Merged
<1>5. DOMAIN w = DOMAIN db.trainings \cup new("trainings") BY DEF Merged
<1>6. /\ DOMAIN u = DOMAIN db.taken \cup new("taken")
      /\ \A k \in DOMAIN u :
           u[k] = IF k \notin new("taken") THEN db.taken[k]
                  ELSE IF k \in DOMAIN db.taken THEN db.taken[k] + 1 ELSE view.taken[k]
  BY DEF Merged
<1>7. /\ \A k \in new("regions") : Typed("regions", k, view.regions[k])
      /\ \A k \in new("students") : Typed("students", k, view.students[k])
      /\ \A k \in new("trainings") : Typed("trainings", k, view.trainings[k])
      /\ \A k \in new("taken") : Typed("taken", k, view.taken[k])
      /\ IsFiniteSet(new("taken"))
  <2>1. /\ "regions" \in Copied /\ "students" \in Copied /\ "trainings" \in Copied
        /\ "taken" \in Copied
    BY DEF Copied
  <2> QED BY <2>1, Zenon DEF Fresh, New
<1>8. /\ \A e \in new("students") : Placed(d, view.students[e])
      /\ \A k \in new("taken") : k[1] \in DOMAIN s /\ k[2] \in DOMAIN w
  BY <1>2, Zenon DEF Flushes, Flushed
<1> HIDE DEF new, v, s, w, u, d
<1>9. /\ CompaniesOK(db.companies) /\ RegionsOK(db.regions) /\ LearnersOK(db.students, db)
      /\ DOMAIN db.trainings \subseteq Titles /\ TakenOK(db.taken, db.students, db.trainings)
  BY SoundParts, Zenon
<1>10. RegionsOK(v) BY <1>3, <1>7, <1>9 DEF RegionsOK, Typed
<1>11. LearnersOK(s, d)
  <2> SUFFICES ASSUME NEW e \in DOMAIN s
               PROVE  e \in Emails /\ Placed(d, s[e]) /\ RowOK(s[e])
    BY Zenon DEF LearnersOK
  <2>1. CASE e \in new("students")
    <3>1. s[e] = view.students[e] BY <1>4, <2>1
    <3>2. e \in Emails /\ RowOK(view.students[e]) BY <1>7, <2>1 DEF Typed
    <3> QED BY <1>8, <2>1, <3>1, <3>2
  <2>2. CASE e \notin new("students")
    <3>1. e \in DOMAIN db.students /\ s[e] = db.students[e] BY <1>4, <2>2
    <3>2. e \in Emails /\ Placed(db, db.students[e]) /\ RowOK(db.students[e])
      BY <1>9, <3>1, Zenon DEF LearnersOK
    <3>3. Placed(d, db.students[e]) BY <1>2, <1>3, <3>2 DEF Placed
    <3> QED BY <3>1, <3>2, <3>3, Zenon
  <2> QED BY <2>1, <2>2
<1>12. DOMAIN w \subseteq Titles BY <1>5, <1>7, <1>9 DEF Typed
<1>13. TakenOK(u, s, w)
  <2>1. IsFiniteSet(DOMAIN u)
    <3>1. IsFiniteSet(DOMAIN db.taken) BY <1>9, Zenon DEF TakenOK
    <3>2. IsFiniteSet(new("taken")) BY <1>7, Zenon
    <3>3. IsFiniteSet(DOMAIN db.taken \cup new("taken")) BY <3>1, <3>2, FS_Union
    <3>4. DOMAIN u = DOMAIN db.taken \cup new("taken") BY <1>6
    <3> QED BY <3>3, <3>4, Zenon
  <2>2. \A k \in DOMAIN u :
          k[1] \in DOMAIN s /\ k[2] \in DOMAIN w /\ k[3] \in Dates /\ u[k] \in Nat \ {0}
    <3> SUFFICES ASSUME NEW k \in DOMAIN u
                 PROVE  k[1] \in DOMAIN s /\ k[2] \in DOMAIN w /\ k[3] \in Dates
                        /\ u[k] \in Nat \ {0}
      OBVIOUS
    <3>1. CASE k \in new("taken")
      <4>1. k[3] \in Dates /\ view.taken[k] \in Nat \ {0} BY <1>7, <3>1 DEF Typed, Triples
      <4>2. k \in DOMAIN db.taken => db.taken[k] \in Nat \ {0} BY <1>9 DEF TakenOK
      <4> QED BY <1>6, <1>8, <3>1, <4>1, <4>2
    <3>2. CASE k \notin new("taken")
      <4>1. k \in DOMAIN db.taken /\ u[k] = db.taken[k] BY <1>6, <3>2
      <4> QED BY <1>4, <1>5, <1>9, <4>1 DEF TakenOK
    <3> QED BY <3>1, <3>2
  <2> QED BY <2>1, <2>2, Zenon DEF TakenOK
<1>14. /\ DOMAIN db' = Fields /\ db'.companies = db.companies /\ db'.regions = v
       /\ db'.students = s /\ db'.trainings = w /\ db'.taken = u /\ db' = d
  BY <1>1, <1>2, Zenon
<1>15. LearnersOK(db'.students, db') BY <1>11, <1>14, Zenon
<1> QED BY <1>9, <1>10, <1>12, <1>13, <1>14, <1>15, SoundParts, Zenon

\* What the rows of the chunk add to the copy is typed.
LEMMA SimulatedIsFresh ==
  ASSUME ImportsShape, NEW r \in Requests, ChunkSize \in Nat \ {0},
         imports[r].at <= Len(imports[r].rows), imports[r].at # 0,
         imports[r].rows \in Seq(FileRows), DOMAIN imports[r].base = Copied,
         RegionsOK(imports[r].base.regions)
  PROVE  Fresh(imports[r].base, Simulated(r).view)
<1> DEFINE base == imports[r].base
           rows == imports[r].rows
           at == imports[r].at
           N == Len(Chunk(r))
<1>1. /\ LastOf(r) \in Nat /\ LastOf(r) <= Len(rows) /\ at <= LastOf(r)
      /\ N = LastOf(r) - at + 1 /\ N \in Nat
      /\ \A n \in 1..N : Chunk(r)[n] = at + n - 1
  BY ChunkLen, Zenon
<1>2. Takes(r, Copies(r), N) BY <1>1, CopiesTake, Zenon
<1>3. at \in Nat /\ Len(rows) \in Nat BY Zenon DEF ImportsShape, ImportShape
<1>4. \A n \in 1..N : rows[Chunk(r)[n]] \in FileRows
  <2> SUFFICES ASSUME NEW n \in 1..N PROVE rows[Chunk(r)[n]] \in FileRows
    OBVIOUS
  <2> HIDE DEF N, at, rows
  <2>1. at + n - 1 \in Nat \ {0} /\ at + n - 1 <= Len(rows)
    <3>1. at # 0 BY DEF at
    <3> QED BY <1>1, <1>3, <3>1
  <2>2. rows[at + n - 1] \in FileRows BY <2>1, RowsAt, Zenon DEF rows
  <2> QED BY <1>1, <2>2, Zenon
<1>5. Untried(r).view = base /\ DOMAIN Untried(r) = {"view", "out", "stop"} BY DEF Untried
<1>6. Fresh(base, base)
  <2>1. \A t \in Copied : DOMAIN base[t] \ DOMAIN base[t] = {} OBVIOUS
  <2>2. DOMAIN base.taken \ DOMAIN base.taken = {} OBVIOUS
  <2>3. IsFiniteSet({}) BY FS_EmptySet, Zenon
  <2>4. IsFiniteSet(DOMAIN base.taken \ DOMAIN base.taken) BY <2>2, <2>3, Zenon
  <2> HIDE DEF base
  <2>5. \A t \in Copied : \A k \in DOMAIN base[t] \ DOMAIN base[t] : Typed(t, k, base[t][k])
    OBVIOUS
  <2> QED BY <2>4, <2>5, Zenon DEF Fresh, base
<1>7. Tried(base, Untried(r)) BY <1>5, <1>6, Zenon DEF Tried
<1>8. Tried(base, Copies(r)[N]) BY <1>1, <1>2, <1>4, <1>7, ChunkTried, Zenon
<1> QED BY <1>8, Zenon DEF Tried, Simulated

LEMMA ChunkSound ==
  ASSUME ReqShape, ImportsShape, AllSane, Sound(db), NEW r \in Requests,
         ChunkSize \in Nat \ {0}, ImportChunk(r), Others(r), Chunked(r)
  PROVE  AllSane' /\ Sound(db)' /\ workload' = workload
<1> DEFINE n == imports[r]
           view == Simulated(r).view
           last == LastOf(r)
           b == [req[r].body EXCEPT !.last = last]
<1>1. req[r].pc = "chunk" /\ n.at <= Len(n.rows) /\ workload' = workload
  BY Zenon DEF ImportChunk
<1>2. DOMAIN req[r].body = {"file", "last"} /\ Track(n, "chunk", req[r].body.last)
  BY <1>1, Importing
<1>3. /\ n.rows \in Seq(FileRows) /\ n.at # 0 /\ DOMAIN n.base = Copied
      /\ RegionsOK(n.base.regions)
  BY <1>2 DEF Track, Copied
<1>4. Fresh(n.base, view) BY <1>1, <1>3, SimulatedIsFresh, Zenon
<1>5. last \in Nat /\ last <= Len(n.rows) /\ n.at <= last BY <1>1, ChunkLen, Zenon
<1> HIDE DEF view, last
<1>6. CASE Flushes(r, view)
  <2>1. /\ req' = req /\ db' = Flushed(r, view) /\ imports'[r].base = view
        /\ imports'[r].at = last + 1 /\ imports'[r].rows = n.rows
    BY <1>6, Zenon DEF Chunked, view, last
  <2>2. Sound(db)' BY <1>4, <1>6, <2>1, FlushIsSound, Zenon
  <2>3. last + 1 # 0 BY <1>5
  <2>4. DOMAIN view = Copied /\ RegionsOK(view.regions) BY <1>4, Zenon DEF Fresh
  <2>5. Track(imports'[r], "chunk", req[r].body.last)
    BY <1>3, <2>1, <2>3, <2>4 DEF Track
  <2>6. req'[r].pc = "chunk" /\ req'[r].body = req[r].body BY <1>1, <2>1
  <2>7. AllSane' BY <1>2, <2>5, <2>6, ImportIsSane
  <2> QED BY <1>1, <2>2, <2>7
<1>7. CASE ~Flushes(r, view)
  <2>1. /\ db' = db /\ imports'[r].base = n.base /\ imports'[r].at = n.at
        /\ imports'[r].stages = StagesAt(r, n.at) /\ req'[r].pc = "slow"
        /\ req'[r].body = b /\ imports'[r].rows = n.rows
    BY <1>7, Zenon DEF Chunked, view, last
  <2>2. DOMAIN b = {"file", "last"} /\ b.last = last BY <1>2
  <2>3. /\ imports'[r].stages = Tables => n.rows[n.at].country # Blank
        /\ imports'[r].stages = Tail(Tables) => n.rows[n.at].country = Blank
    <3>1. /\ StagesAt(r, n.at) = Tables => n.rows[n.at].country # Blank
          /\ StagesAt(r, n.at) = Tail(Tables) => n.rows[n.at].country = Blank
      BY StagesOfRow
    <3> HIDE DEF b
    <3> QED BY <2>1, <3>1
  <2> HIDE DEF b
  <2>4. Track(imports'[r], "slow", b.last)
    BY <1>3, <1>5, <2>1, <2>2, <2>3, TableTails DEF Track
  <2>5. AllSane' BY <2>1, <2>2, <2>4, ImportIsSane
  <2>6. Sound(db)' BY <2>1, Zenon
  <2> QED BY <1>1, <2>5, <2>6
<1> QED BY <1>6, <1>7

-----------------------------------------------------------------------------
\* Row by row, and the end of an import.

LEMMA LookupSound ==
  ASSUME ReqShape, ImportsShape, AllSane, Sound(db), NEW r \in Requests, SlowLookup(r),
         Others(r), Stepped(r), db' = db
  PROVE  AllSane' /\ Sound(db)' /\ workload' = workload
<1>1. Slow(r) /\ imports[r].stages # <<>> /\ workload' = workload BY Zenon DEF SlowLookup
<1>2. Sound(db)' BY Zenon
<1>3. AllSane' BY <1>1, <1>2, SteppedSane, Zenon
<1> QED BY <1>1, <1>2, <1>3

LEMMA StatementSound ==
  ASSUME ReqShape, ImportsShape, AllSane, Sound(db), NEW r \in Requests, SlowCreate(r),
         Others(r), Stepped(r)
  PROVE  AllSane' /\ Sound(db)' /\ workload' = workload
<1>1. Slow(r) /\ imports[r].stages # <<>> /\ workload' = workload BY Zenon DEF SlowCreate
<1>2. Sound(db)' BY CreateSound, Zenon
<1>3. AllSane' BY <1>1, <1>2, SteppedSane, Zenon
<1> QED BY <1>1, <1>2, <1>3

LEMMA EndSound ==
  ASSUME ReqShape, ImportsShape, AllSane, Sound(db), NEW r \in Requests, ImportEnds(r)
  PROVE  AllSane' /\ Sound(db)' /\ workload' = workload
<1>1. /\ req' = [req EXCEPT ![r].pc = "done", ![r].outcome = "ok"]
      /\ UNCHANGED <<workload, db, imports>>
  BY Zenon DEF ImportEnds
<1>2. req'[r].pc = "done" /\ \A q \in Requests : q # r => req'[q] = req[q]
  BY <1>1 DEF ReqShape
<1>3. req'[r].pc \in {"idle", "done"} BY <1>2
<1>4. Sane(req'[r], imports'[r]) BY <1>3, DoneIsSane
<1>5. AllSane' BY <1>1, <1>2, <1>4, OthersSane, Zenon
<1>6. db' = db /\ workload' = workload BY <1>1
<1>7. Sound(db)' BY <1>6, Zenon
<1> QED BY <1>5, <1>6, <1>7

-----------------------------------------------------------------------------
\* A file of completions: its rows are typed, and the names of the companies it
\* introduces differ.

LEMMA SetAsSeq ==
  ASSUME NEW S, IsFiniteSet(S)
  PROVE  SetToSeq(S) \in Seq(S)
<1>1. PICK n \in Nat : ExistsBijection(1..n, S) BY FS_NatBijection
<1>2. Cardinality(S) = n BY <1>1, FS_CountingElements
<1>3. \E f \in [1..Cardinality(S) -> S] : IsInjective(f)
  <2>1. PICK f : f \in Bijection(1..n, S) BY <1>1 DEF ExistsBijection
  <2>2. f \in [1..n -> S] /\ IsInjective(f)
    BY <2>1 DEF Bijection, Injection, IsInjective
  <2> QED BY <1>2, <2>2
<1>4. SetToSeq(S) \in [1..Cardinality(S) -> S] BY <1>3 DEF SetToSeq
<1>5. [1..n -> S] \subseteq Seq(S) BY SeqDef
<1> QED BY <1>2, <1>4, <1>5

LEMMA ExportTyped ==
  ASSUME Sound(db), NEW scope
  PROVE  Exported(scope) \in Seq(FileRows)
<1> DEFINE row(k) == LET s == db.students[k[1]] IN
              [email |-> k[1], title |-> k[2], date |-> k[3], country |-> s.country,
               theatre |-> s.theatre, company |-> db.companies[s.company], valid |-> TRUE]
           keys == {x \in DOMAIN db.taken : db.students[x[1]].company \in scope}
           S == {row(k) : k \in keys}
<1>1. Exported(scope) = SetToSeq(S) BY DEF Exported
<1>2. /\ CompaniesOK(db.companies) /\ RegionsOK(db.regions) /\ LearnersOK(db.students, db)
      /\ DOMAIN db.trainings \subseteq Titles /\ TakenOK(db.taken, db.students, db.trainings)
  BY SoundParts, Zenon
<1>3. \A k \in keys : row(k) \in FileRows
  <2> SUFFICES ASSUME NEW k \in keys PROVE row(k) \in FileRows
    BY Zenon
  <2> DEFINE s == db.students[k[1]]
  <2>1. k[1] \in DOMAIN db.students /\ k[2] \in DOMAIN db.trainings /\ k[3] \in Dates
    BY <1>2 DEF TakenOK
  <2>2. k[1] \in Emails /\ Placed(db, s) /\ RowOK(s) BY <1>2, <2>1 DEF LearnersOK
  <2>3. s.country \in Countries /\ s.theatre \in Theatres \cup {None}
    BY <1>2, <2>2 DEF Placed, RegionsOK, RowOK
  <2>4. db.companies[s.company] \in Names BY <1>2, <2>2 DEF Placed, CompaniesOK
  <2>5. k[2] \in Titles BY <1>2, <2>1
  <2>6. TRUE \in BOOLEAN OBVIOUS
  <2> HIDE DEF s
  <2>7. row(k) = [email |-> k[1], title |-> k[2], date |-> k[3], country |-> s.country,
                  theatre |-> s.theatre, company |-> db.companies[s.company], valid |-> TRUE]
    BY Zenon DEF s
  <2> HIDE DEF row
  <2> QED BY <2>1, <2>2, <2>3, <2>4, <2>5, <2>7 DEF FileRows
<1>4. IsFiniteSet(S)
  <2>1. IsFiniteSet(keys)
    <3>1. IsFiniteSet(DOMAIN db.taken) BY <1>2, Zenon DEF TakenOK
    <3>2. keys \subseteq DOMAIN db.taken OBVIOUS
    <3> QED BY <3>1, <3>2, FS_Subset
  <2> HIDE DEF row, keys
  <2>2. [k \in keys |-> row(k)] \in Surjection(keys, S) BY DEF Surjection
  <2> HIDE DEF S
  <2> QED BY <2>1, <2>2, FS_Surjection
<1>5. S \subseteq FileRows BY <1>3
<1> HIDE DEF S
<1>6. SetToSeq(S) \in Seq(S) BY <1>4, SetAsSeq
<1>7. SetToSeq(S) \in Seq(FileRows) BY <1>5, <1>6, SeqMonotonic
<1> QED BY <1>1, <1>7

LEMMA LoweredRows ==
  ASSUME NEW file \in Seq(FileRows), \A e \in Emails : Lower(e) \in Emails
  PROVE  [i \in DOMAIN file |-> [file[i] EXCEPT !.email = Lower(@)]] \in Seq(FileRows)
<1> DEFINE low(row) == [row EXCEPT !.email = Lower(@)]
           rows == [i \in DOMAIN file |-> low(file[i])]
<1>1. \A row \in FileRows : low(row) \in FileRows
  <2> SUFFICES ASSUME NEW row \in FileRows PROVE low(row) \in FileRows
    BY Zenon
  <2>1. row.email \in Emails BY DEF FileRows
  <2>2. Lower(row.email) \in Emails BY <2>1
  <2> QED BY <2>2 DEF FileRows
<1>2. DOMAIN file = 1..Len(file) /\ file \in [1..Len(file) -> FileRows] /\ Len(file) \in Nat
  BY LenProperties
<1> HIDE DEF low
<1>3. rows \in [1..Len(file) -> FileRows] BY <1>1, <1>2
<1>4. [1..Len(file) -> FileRows] \subseteq Seq(FileRows) BY <1>2, SeqDef
<1>5. rows \in Seq(FileRows) BY <1>3, <1>4
<1> QED BY <1>5 DEF low

\* x takes the first m rows, for their companies.
Drafts(rows, names, default, super, x, m) ==
  x = [n \in 0..m |->
         IF n = 0 THEN Unmet(default) ELSE Met(x[n - 1], rows[n], names, default, super)]

LEMMA DraftsNext ==
  ASSUME NEW rows, NEW names, NEW default, NEW super, NEW m \in Nat, NEW x,
         Drafts(rows, names, default, super, x, m)
  PROVE  \E y : Drafts(rows, names, default, super, y, m + 1)
<1> DEFINE w(c, n) == Met(c, rows[n], names, default, super)
           none == Unmet(default)
           y == [n \in 0..(m + 1) |-> IF n = m + 1 THEN w(x[m], n) ELSE x[n]]
<1>1. x = [n \in 0..m |-> IF n = 0 THEN none ELSE w(x[n - 1], n)] BY Zenon DEF Drafts
<1> HIDE DEF w, none
<1>2. \A n \in 0..m : x[n] = IF n = 0 THEN none ELSE w(x[n - 1], n) BY <1>1
<1>3. \A n \in 0..(m + 1) : y[n] = IF n = 0 THEN none ELSE w(y[n - 1], n)
  <2> SUFFICES ASSUME NEW n \in 0..(m + 1)
               PROVE  y[n] = IF n = 0 THEN none ELSE w(y[n - 1], n)
    OBVIOUS
  <2>1. CASE n = m + 1
    <3>1. y[n] = w(x[m], n) /\ n # 0 /\ n - 1 = m /\ m \in 0..(m + 1) /\ m # m + 1 BY <2>1
    <3>2. y[m] = x[m] BY <3>1
    <3> QED BY <3>1, <3>2
  <2>2. CASE n = 0
    <3>1. y[n] = x[0] /\ 0 \in 0..m BY <2>2
    <3> QED BY <1>2, <2>2, <3>1
  <2>3. CASE n # m + 1 /\ n # 0
    <3>1. n \in 0..m /\ n - 1 \in 0..m /\ n - 1 # m + 1 /\ n - 1 \in 0..(m + 1) BY <2>3
    <3>2. y[n] = x[n] /\ y[n - 1] = x[n - 1] BY <2>3, <3>1
    <3> QED BY <1>2, <2>3, <3>1, <3>2
  <2> QED BY <2>1, <2>2, <2>3
<1>4. y = [n \in 0..(m + 1) |-> y[n]] OBVIOUS
<1> HIDE DEF y
<1>5. y = [n \in 0..(m + 1) |-> IF n = 0 THEN none ELSE w(y[n - 1], n)]
  BY <1>3, <1>4
<1> QED BY <1>5, Zenon DEF Drafts, w, none

LEMMA DraftsAll ==
  ASSUME NEW rows, NEW names, NEW default, NEW super, NEW m \in Nat
  PROVE  \E x : Drafts(rows, names, default, super, x, m)
<1> DEFINE bad == {n \in Nat : ~\E x : Drafts(rows, names, default, super, x, n)}
           none == Unmet(default)
<1>1. ASSUME bad # {} PROVE FALSE
  <2>1. bad \in SUBSET Nat OBVIOUS
  <2>2. PICK n \in bad : \A k \in bad : n <= k BY <1>1, <2>1, LeastIsThere, Zenon
  <2>3. n \in Nat /\ ~\E x : Drafts(rows, names, default, super, x, n) OBVIOUS
  <2>4. n # 0
    <3> DEFINE x == [k \in 0..0 |-> none]
    <3> HIDE DEF none
    <3>1. x = [k \in 0..0 |-> IF k = 0 THEN none
                              ELSE Met(x[k - 1], rows[k], names, default, super)]
      OBVIOUS
    <3>2. Drafts(rows, names, default, super, x, 0) BY <3>1, Zenon DEF Drafts, none
    <3> QED BY <2>3, <3>2, Zenon
  <2> HIDE DEF bad
  <2>5. n - 1 \in Nat /\ ~(n <= n - 1) /\ (n - 1) + 1 = n BY <2>3, <2>4
  <2>6. n - 1 \notin bad BY <2>2, <2>5
  <2>7. \E x : Drafts(rows, names, default, super, x, n - 1) BY <2>5, <2>6, Zenon DEF bad
  <2>8. \E y : Drafts(rows, names, default, super, y, (n - 1) + 1)
    BY <2>5, <2>7, DraftsNext, Zenon
  <2> QED BY <2>3, <2>5, <2>8, Zenon
<1> QED BY <1>1, Zenon

LEMMA DraftIs ==
  ASSUME NEW rows, NEW names, NEW default, NEW super, Len(rows) \in Nat
  PROVE  \E x : /\ Drafts(rows, names, default, super, x, Len(rows))
                /\ Drafted(rows, names, default, super) = x[Len(rows)]
<1> DEFINE x == CHOOSE y : Drafts(rows, names, default, super, y, Len(rows))
<1>1. \E y : Drafts(rows, names, default, super, y, Len(rows)) BY DraftsAll, Zenon
<1>2. Drafts(rows, names, default, super, x, Len(rows)) BY <1>1, Zenon
<1>3. Drafted(rows, names, default, super) = x[Len(rows)] BY Zenon DEF Drafted, Drafts
<1> QED BY <1>2, <1>3, Zenon

\* The names introduced so far differ, and are remembered in lower case.
Remembered(x) ==
  /\ DOMAIN x = {"cache", "introduced", "draft"}
  /\ x.introduced \in Seq(Names) /\ Distinct(x.introduced)
  /\ \A i \in DOMAIN x.introduced : Lower(x.introduced[i]) \in DOMAIN x.cache

LEMMA MetRemembers ==
  ASSUME NEW x, Remembered(x), NEW row \in FileRows, NEW names, NEW default, NEW super
  PROVE  Remembered(Met(x, row, names, default, super))
<1> DEFINE n == row.company
           low == Lower(n)
           y == Met(x, row, names, default, super)
<1>1. n \in Names \cup {Blank} BY FileRowTyped
<1>2. \/ \E d : y = [x EXCEPT !.draft = Append(@, d)]
      \/ y = [x EXCEPT !.draft = Append(@, n), !.cache = Put(@, low, n)]
      \/ /\ n # Blank /\ low \notin DOMAIN x.cache
         /\ y = [x EXCEPT !.draft = Append(@, n), !.cache = Put(@, low, n),
                          !.introduced = Append(@, n)]
  BY Zenon DEF Met
<1> HIDE DEF y
<1>3. DOMAIN x = {"cache", "introduced", "draft"} BY Zenon DEF Remembered
<1>4. CASE \E d : y = [x EXCEPT !.draft = Append(@, d)]
  <2>a. PICK d : y = [x EXCEPT !.draft = Append(x.draft, d)] BY <1>4, Zenon
  <2> DEFINE more == Append(x.draft, d)
  <2> HIDE DEF more
  <2>b. y = [x EXCEPT !.draft = more] BY <2>a, Zenon DEF more
  <2>1. DOMAIN y = DOMAIN x /\ y.introduced = x.introduced /\ y.cache = x.cache
    BY <1>3, <2>b
  <2> QED BY <2>1, Zenon DEF Remembered, y
<1>5. CASE y = [x EXCEPT !.draft = Append(@, n), !.cache = Put(@, low, n)]
  <2> DEFINE more == Append(x.draft, n)
             cache == Put(x.cache, low, n)
  <2>1. DOMAIN x.cache \subseteq DOMAIN cache BY DEF Put
  <2>2. y = [x EXCEPT !.draft = more, !.cache = cache] BY <1>5, Zenon
  <2> HIDE DEF more, cache
  <2>3. DOMAIN y = DOMAIN x /\ y.introduced = x.introduced /\ y.cache = cache
    BY <1>3, <2>2
  <2>4. \A i \in DOMAIN y.introduced : Lower(y.introduced[i]) \in DOMAIN y.cache
    BY <2>1, <2>3 DEF Remembered
  <2> QED BY <2>3, <2>4, Zenon DEF Remembered, y
<1>6. CASE /\ n # Blank /\ low \notin DOMAIN x.cache
           /\ y = [x EXCEPT !.draft = Append(@, n), !.cache = Put(@, low, n),
                            !.introduced = Append(@, n)]
  <2> DEFINE more == Append(x.draft, n)
             cache == Put(x.cache, low, n)
             new == Append(x.introduced, n)
             old == x.introduced
  <2>1. DOMAIN cache = DOMAIN x.cache \cup {low} BY DEF Put
  <2>2. y = [x EXCEPT !.draft = more, !.cache = cache, !.introduced = new] BY <1>6, Zenon
  <2>3. n \in Names /\ old \in Seq(Names) BY <1>1, <1>6 DEF Remembered
  <2>4. /\ new \in Seq(Names) /\ DOMAIN new = 1..(Len(old) + 1) /\ Len(old) \in Nat
        /\ DOMAIN old = 1..Len(old)
        /\ new[Len(old) + 1] = n /\ \A i \in 1..Len(old) : new[i] = old[i]
    BY <2>3
  <2> HIDE DEF more, cache, new, old
  <2>5. DOMAIN y = DOMAIN x /\ y.introduced = new /\ y.cache = cache
    BY <1>3, <2>2
  <2>6. /\ \A i \in DOMAIN old : old[i] \in Names /\ Lower(old[i]) \in DOMAIN x.cache
        /\ \A i, j \in DOMAIN old : old[i] = old[j] => i = j
    BY Zenon DEF Remembered, Distinct, old
  <2>7. \A i \in DOMAIN old : old[i] # n BY <1>6, <2>6, Zenon
  <2>8. Distinct(new)
    <3>1. \A i \in DOMAIN new : new[i] \in Names BY <2>3, <2>4, <2>6
    <3>2. \A i, j \in DOMAIN new : new[i] = new[j] => i = j BY <2>4, <2>6, <2>7
    <3> QED BY <3>1, <3>2, Zenon DEF Distinct
  <2>9. \A i \in DOMAIN new : Lower(new[i]) \in DOMAIN cache
    <3> SUFFICES ASSUME NEW i \in DOMAIN new PROVE Lower(new[i]) \in DOMAIN cache
      OBVIOUS
    <3>1. CASE i \in 1..Len(old)
      <4>1. new[i] = old[i] BY <2>4, <3>1
      <4>2. Lower(old[i]) \in DOMAIN x.cache BY <2>4, <2>6, <3>1
      <4> QED BY <2>1, <4>1, <4>2, Zenon
    <3>2. CASE i = Len(old) + 1
      <4>1. new[i] = n BY <2>4, <3>2
      <4> QED BY <2>1, <4>1, Zenon
    <3> QED BY <2>4, <3>1, <3>2
  <2> QED BY <1>3, <2>4, <2>5, <2>8, <2>9, Zenon DEF Remembered, y
<1> QED BY <1>2, <1>4, <1>5, <1>6 DEF y

LEMMA IntroducedDiffer ==
  ASSUME NEW rows \in Seq(FileRows), NEW names, NEW default, NEW super
  PROVE  Distinct(Drafted(rows, names, default, super).introduced)
<1>1. Len(rows) \in Nat BY LenProperties
<1>2. PICK x : /\ Drafts(rows, names, default, super, x, Len(rows))
               /\ Drafted(rows, names, default, super) = x[Len(rows)]
  BY <1>1, DraftIs, Zenon
<1> DEFINE w(c, n) == Met(c, rows[n], names, default, super)
           none == Unmet(default)
           bad == {n \in 0..Len(rows) : ~Remembered(x[n])}
<1>3. x = [n \in 0..Len(rows) |-> IF n = 0 THEN none ELSE w(x[n - 1], n)]
  BY <1>2, Zenon DEF Drafts
<1>4. \A c, n : n \in Nat \ {0} /\ n <= Len(rows) /\ Remembered(c) => Remembered(w(c, n))
  BY MetRemembers, RowsAt, Zenon
<1>5. Remembered(none)
  <2>1. DOMAIN none = {"cache", "introduced", "draft"} BY DEF Unmet
  <2>2. none.introduced = <<>> BY DEF Unmet
  <2>3. <<>> \in Seq(Names) /\ DOMAIN <<>> = {} OBVIOUS
  <2> HIDE DEF none
  <2>4. Distinct(none.introduced) BY <2>2, <2>3 DEF Distinct
  <2> QED BY <2>1, <2>2, <2>3, <2>4 DEF Remembered
<1> HIDE DEF w, none
<1>6. \A n \in 0..Len(rows) : x[n] = IF n = 0 THEN none ELSE w(x[n - 1], n) BY <1>3
<1>7. ASSUME bad # {} PROVE FALSE
  <2>1. bad \in SUBSET Nat OBVIOUS
  <2>2. PICK k \in bad : \A y \in bad : k <= y BY <1>7, <2>1, LeastIsThere, Zenon
  <2>3. k \in 0..Len(rows) /\ ~Remembered(x[k]) OBVIOUS
  <2>4. k # 0
    <3>1. 0 \in 0..Len(rows) BY <1>1
    <3>2. x[0] = none BY <1>6, <3>1
    <3> QED BY <1>5, <2>3, <3>2, Zenon
  <2>5. k - 1 \in 0..Len(rows) /\ ~(k <= k - 1) /\ k \in Nat \ {0} /\ k <= Len(rows)
    BY <1>1, <2>3, <2>4
  <2>6. k - 1 \notin bad BY <2>2, <2>5
  <2>7. Remembered(x[k - 1]) BY <2>5, <2>6
  <2>8. x[k] = w(x[k - 1], k) BY <1>6, <2>3, <2>4
  <2> QED BY <1>4, <2>3, <2>5, <2>7, <2>8, Zenon
<1>8. Len(rows) \in 0..Len(rows) BY <1>1
<1>9. Remembered(x[Len(rows)]) BY <1>7, <1>8
<1> QED BY <1>2, <1>9, Zenon DEF Remembered

LEMMA RowsRead ==
  ASSUME Sound(db), NEW r \in Requests, ImportStudents(r),
         Mix.files \ {Export} \subseteq Seq(FileRows), \A e \in Emails : Lower(e) \in Emails
  PROVE  \E scope, f, rows, d :
           rows \in Seq(FileRows) /\ Distinct(d.introduced) /\ Drawn(r, scope, f, rows, d)
<1> DEFINE file(scope, f) == IF f = Export THEN Exported(scope) ELSE f
           rows(scope, f) == [i \in DOMAIN file(scope, f) |->
                                [file(scope, f)[i] EXCEPT !.email = Lower(@)]]
           name(default) == IF default = None THEN None ELSE db.companies[default]
           d(scope, f, default) ==
             Drafted(rows(scope, f), CompanyNames, name(default), scope = Ids)
<1>1. PICK scope \in Mix.scopes, f \in Mix.files, default \in {None} \cup DOMAIN db.companies :
        Drawn(r, scope, f, rows(scope, f), d(scope, f, default))
  BY Zenon DEF ImportStudents
<1>2. Exported(scope) \in Seq(FileRows) BY ExportTyped, Zenon
<1>3. file(scope, f) \in Seq(FileRows) BY <1>2
<1> HIDE DEF file
<1>4. rows(scope, f) \in Seq(FileRows) BY <1>3, LoweredRows, Zenon
<1> HIDE DEF rows, name
<1> DEFINE super == scope = Ids
<1>5. Distinct(Drafted(rows(scope, f), CompanyNames, name(default), super).introduced)
  <2> HIDE DEF super
  <2> QED BY <1>4, IntroducedDiffer, Zenon
<1>6. Distinct(d(scope, f, default).introduced) BY <1>5, Zenon
<1> HIDE DEF d
<1> QED BY <1>1, <1>4, <1>6, Zenon

LEMMA FilesKeep ==
  ASSUME ReqShape, ImportsShape, DbOK, Alone, NEW r \in Requests, None \notin Requests,
         NEW scope, NEW f, NEW rows \in Seq(FileRows), NEW d, Drawn(r, scope, f, rows, d)
  PROVE  ReqShape' /\ ImportsShape' /\ DbOK' /\ Alone' /\ db' = db
<1> DEFINE pc == IF d.introduced = <<>> THEN "read" ELSE "companies"
           body == [file |-> f, last |-> 0]
           known == [n \in CompanyNames |->
                       CHOOSE id \in DOMAIN db.companies : db.companies[id] = n]
           m == ImportOf(rows, d.draft, d.introduced, known)
<1>c. pc \in {"read", "companies"} OBVIOUS
<1>d. /\ Begin(r, "ImportStudents", scope, body, pc)
      /\ imports' = [imports EXCEPT ![r] = m]
  BY Zenon DEF Drawn
<1> HIDE DEF pc, body, known
<1>1. m.base = <<>> BY DEF ImportOf
<1>2. m.stages = <<>> BY DEF ImportOf
<1>3. DOMAIN m = {"rows", "draft", "known", "introduced", "base", "at", "stages",
                  "missing", "out"}
  BY DEF ImportOf
<1>a. m.at = 1 /\ m.rows = rows BY DEF ImportOf
<1>4. ImportShape(m)
  <2>1. Len(rows) \in Nat BY LenProperties
  <2>2. m.at \in Nat BY <1>a
  <2> HIDE DEF m
  <2> QED BY <1>2, <1>3, <1>a, <2>1, <2>2, Zenon DEF ImportShape, StageLists
<1> HIDE DEF m
<1>6. imports'[r] = m /\ ImportsShape' BY <1>4, <1>d, Zenon DEF ImportsShape
<1>7. req' = [req EXCEPT ![r] = Asked("ImportStudents", scope, body, pc)] /\ db' = db
  BY <1>d, Zenon DEF Begin
<1>8. Asked("ImportStudents", scope, body, pc).pc = pc BY DEF Asked
<1>9. req'[r].pc = pc BY <1>7, <1>8, Zenon DEF ReqShape
<1>10. Intent(r)' BY <1>9, <1>c DEF Intent
<1>11. DOMAIN m.base = {} BY <1>1
<1>13. Copy(r)'
  <2>1. imports'[r].base = m.base /\ imports'[r].stages = <<>> BY <1>2, <1>6, Zenon
  <2>3. pc = "read" \/ pc = "companies" BY <1>c, Zenon
  <2>4. DOMAIN imports'[r].base = {} BY <1>11, <2>1, Zenon
  <2>2. Agree(imports[r].base)' BY <2>4 DEF Agree
  <2> QED BY <1>9, <2>1, <2>2, <2>3, <2>4 DEF Copy, Copying
<1>14. pc \notin {"idle", "done"} BY <1>c
<1>15. ReqShape' /\ DbOK' /\ Alone' BY <1>d, <1>10, <1>13, <1>14, Beginning, Zenon
<1> QED BY <1>6, <1>7, <1>15

LEMMA FilesSane ==
  ASSUME ReqShape, ImportsShape, AllSane, NEW r \in Requests, NEW scope, NEW f,
         NEW rows \in Seq(FileRows), NEW d, Distinct(d.introduced), Drawn(r, scope, f, rows, d)
  PROVE  AllSane' /\ UNCHANGED <<workload, db>>
<1> DEFINE pc == IF d.introduced = <<>> THEN "read" ELSE "companies"
           body == [file |-> f, last |-> 0]
           known == [n \in CompanyNames |->
                       CHOOSE id \in DOMAIN db.companies : db.companies[id] = n]
           m == ImportOf(rows, d.draft, d.introduced, known)
           q == Asked("ImportStudents", scope, body, pc)
<1>1. /\ Begin(r, "ImportStudents", scope, body, pc)
      /\ imports' = [imports EXCEPT ![r] = m]
  BY Zenon DEF Drawn
<1>2. pc \in {"read", "companies"} OBVIOUS
<1>3. DOMAIN body = {"file", "last"} OBVIOUS
<1> HIDE DEF pc, body, known
<1>4. m.rows = rows /\ m.at = 1 /\ m.introduced = d.introduced /\ m.base = <<>>
  BY DEF ImportOf
<1>5. q.pc = pc /\ q.body = body BY DEF Asked
<1> HIDE DEF m, q
<1>6. DOMAIN m.base = {} /\ "regions" \notin DOMAIN m.base BY <1>4
<1>7. Track(m, pc, body.last) BY <1>2, <1>4, <1>6 DEF Track, TablesRead
<1>8. Body(q) BY <1>2, <1>5 DEF Body
<1>9. Sane(q, m) BY <1>3, <1>5, <1>7, <1>8, Zenon DEF Sane
<1>10. Sane(Asked("ImportStudents", scope, body, pc), m) BY <1>9, Zenon DEF q
<1> QED BY <1>1, <1>10, BeginsSane, Zenon

-----------------------------------------------------------------------------
\* The invariant, and what a step of any request keeps.

IndInv ==
  /\ ReqShape /\ ImportsShape /\ Alone
  /\ workload \in DOMAIN Workloads /\ Sound(db) /\ AllSane

\* What of Parameters the steps need.
Assumed ==
  /\ Ids \subseteq Nat /\ ChunkSize \in Nat \ {0} /\ None \notin Ids /\ None \notin Requests
  /\ \A e \in Emails : Lower(e) \in Emails
  /\ Mix.emails \subseteq Emails /\ Mix.files \ {Export} \subseteq Seq(FileRows)
  /\ Mix.regionFiles \subseteq Seq(RegionRows) \ {<<>>}

LEMMA StartsSound ==
  ASSUME Parameters, Init
  PROVE  IndInv
<1>1. workload \in DOMAIN Workloads /\ db \in Mix.databases BY Zenon DEF Init
<1>2. Sound(db) BY <1>1, Zenon DEF Parameters, Mix
<1>3. Idle = [pc |-> "idle", op |-> None, scope |-> {}, body |-> None, outcome |-> None]
  BY DEF Idle, Asked
<1>4. DOMAIN Idle = {"pc", "op", "scope", "body", "outcome"} /\ Idle.pc = "idle" BY <1>3
<1>5. req = [r \in Requests |-> Idle] /\ imports = [r \in Requests |-> NoImport]
  BY Zenon DEF Init
<1>6. ReqShape BY <1>4, <1>5, Zenon DEF ReqShape
<1>7. ImportShape(NoImport)
  <2>1. DOMAIN NoImport = {"rows", "draft", "known", "introduced", "base", "at", "stages",
                           "missing", "out"}
    BY DEF NoImport, ImportOf
  <2>2. NoImport.stages = <<>> /\ NoImport.at = 1 /\ NoImport.rows = <<>>
    BY DEF NoImport, ImportOf
  <2>3. NoImport.at \in Nat /\ Len(NoImport.rows) \in Nat
    <3>1. Len(<<>>) = 0 OBVIOUS
    <3> QED BY <2>2, <3>1
  <2> QED BY <2>1, <2>2, <2>3, Zenon DEF ImportShape, StageLists
<1>8. ImportsShape BY <1>5, <1>7, Zenon DEF ImportsShape
<1>9. \A r \in Requests : req[r].pc = "idle" BY <1>4, <1>5, Zenon
<1>10. Alone
  <2>1. witness.of = None BY DEF Init, NoWitness
  <2>2. None \notin Requests BY Zenon DEF Parameters
  <2> QED BY <2>1, <2>2, Zenon DEF Alone
<1>11. AllSane
  <2> SUFFICES ASSUME NEW r \in Requests PROVE Sane(req[r], imports[r])
    BY Zenon DEF AllSane
  <2>1. req[r].pc \in {"idle", "done"} BY <1>9
  <2> QED BY <2>1, DoneIsSane
<1> QED BY <1>1, <1>2, <1>6, <1>8, <1>10, <1>11, Zenon DEF IndInv

LEMMA AssumedHere ==
  ASSUME Parameters, workload \in DOMAIN Workloads
  PROVE  Assumed
  BY Zenon DEF Parameters, Assumed, Mix

LEMMA ReadsStep ==
  ASSUME IndInv, Assumed, NEW r \in Requests, Reads(r)
  PROVE  IndInv' /\ db' = db
<1>1. ReqShape /\ ImportsShape /\ DbOK /\ Alone /\ AllSane /\ Sound(db)
  BY SoundIsOK, Zenon DEF IndInv
<1>2. None \notin Requests BY Zenon DEF Assumed
<1>3. ReqShape' /\ ImportsShape' /\ Alone' /\ AllSane' /\ UNCHANGED <<workload, db>>
  <2>1. CASE ImportRegions(r)
    <3>1. ReqShape' /\ ImportsShape' /\ Alone' BY <1>1, <1>2, <2>1, RegionFilesKeep, Zenon
    <3>2. AllSane' /\ UNCHANGED <<workload, db>>
      BY <1>1, <2>1, RegionFilesSane, Zenon DEF Assumed
    <3> QED BY <3>1, <3>2
  <2>2. CASE ImportStudents(r)
    <3>1. PICK scope, f, rows, d :
            rows \in Seq(FileRows) /\ Distinct(d.introduced) /\ Drawn(r, scope, f, rows, d)
      BY <1>1, <2>2, RowsRead, Zenon DEF Assumed
    <3>2. ReqShape' /\ ImportsShape' /\ Alone' BY <1>1, <1>2, <3>1, FilesKeep, Zenon
    <3>3. AllSane' /\ UNCHANGED <<workload, db>> BY <1>1, <3>1, FilesSane, Zenon
    <3> QED BY <3>2, <3>3
  <2>3. CASE ~ImportRegions(r) /\ ~ImportStudents(r)
    <3>1. ReqShape' /\ ImportsShape' /\ Alone' BY <1>1, <1>2, <2>3, ReadsKeep, Zenon
    <3>2. AllSane' /\ UNCHANGED <<workload, db>>
      BY <1>1, <2>3, ReadsSane, Zenon DEF Assumed
    <3> QED BY <3>1, <3>2
  <2> QED BY <2>1, <2>2, <2>3
<1>4. workload' \in DOMAIN Workloads /\ db' = db /\ workload' = workload
  BY <1>3, Zenon DEF IndInv
<1>5. Sound(db)' BY <1>1, <1>4, Zenon
<1> QED BY <1>3, <1>4, <1>5, Zenon DEF IndInv

LEMMA WritesStep ==
  ASSUME IndInv, Assumed, NEW r \in Requests, Writes(r) \/ WriteFails(r) \/ Imports(r)
  PROVE  /\ IndInv' /\ Busy(r)
         /\ Intent(r) /\ Copy(r) => KeptApart(r)
<1>1. ReqShape /\ ImportsShape /\ DbOK /\ Alone /\ AllSane /\ Sound(db)
  BY SoundIsOK, Zenon DEF IndInv
<1>2. ChunkSize \in Nat \ {0} /\ None \notin Ids /\ Ids \subseteq Nat BY Zenon DEF Assumed
<1>3. CASE Writes(r)
  <2>1. ReqShape' /\ ImportsShape' /\ Alone' /\ (Intent(r) => KeptApart(r))
    BY <1>1, <1>3, WritesKeep, Zenon
  <2>2. AllSane' /\ Sound(db)' /\ workload' = workload BY <1>1, <1>2, <1>3, WritesSound, Zenon
  <2>3. req[r].pc = "write"
    BY <1>3, Zenon DEF Writes, Writing, PostStudentWrite, PutStudentWrite,
       RenameStudentWrite, DeleteStudentWrite, PostCompanyWrite, PutCompanyWrite,
       DeleteCompanyWrite, PostRegionWrite, PutRegionWrite, DeleteRegionWrite,
       DeleteTrainingWrite
  <2>4. Busy(r) BY <2>3 DEF Busy
  <2> QED BY <2>1, <2>2, <2>4, Zenon DEF IndInv
<1>4. CASE WriteFails(r)
  <2>1. ReqShape' /\ ImportsShape' /\ Alone' /\ KeptApart(r) BY <1>1, <1>4, EndsKeep, Zenon
  <2>2. AllSane' /\ Sound(db)' /\ workload' = workload BY <1>1, <1>2, <1>4, WritesSound, Zenon
  <2>3. req[r].pc = "write" BY <1>4, FailedWrites, Zenon
  <2>4. Busy(r) BY <2>3 DEF Busy
  <2> QED BY <2>1, <2>2, <2>4, Zenon DEF IndInv
<1>5. CASE ImportCompanies(r)
  <2>1. ReqShape' /\ ImportsShape' /\ Alone' /\ KeptApart(r)
    BY <1>1, <1>5, IntroducedKeeps, Zenon
  <2>2. AllSane' /\ Sound(db)' /\ workload' = workload
    BY <1>1, <1>2, <1>5, IntroducedSound, Zenon
  <2>3. req[r].pc = "companies" BY <1>5, Zenon DEF ImportCompanies
  <2>4. Busy(r) BY <2>3 DEF Busy
  <2> QED BY <2>1, <2>2, <2>4, Zenon DEF IndInv
<1>6. CASE ImportReads(r)
  <2>1. /\ ReqShape' /\ ImportsShape' /\ Alone' /\ KeptApart(r)
        /\ Others(r) /\ ReadOn(r) /\ db' = db
    BY <1>1, <1>6, ReadsTables, Zenon
  <2>2. req[r].pc = "read" /\ workload' = workload BY <1>6, Zenon DEF ImportReads
  <2>3. AllSane' /\ Sound(db)' BY <1>1, <2>1, <2>2, ReadsSound, Zenon
  <2>4. Busy(r) BY <2>2 DEF Busy
  <2> QED BY <2>1, <2>2, <2>3, <2>4, Zenon DEF IndInv
<1>7. CASE ImportChunk(r)
  <2>1. /\ ReqShape' /\ ImportsShape' /\ Alone' /\ (Copy(r) => KeptApart(r))
        /\ Others(r) /\ Chunked(r)
    BY <1>1, <1>2, <1>7, ChunkStep, Zenon
  <2>2. AllSane' /\ Sound(db)' /\ workload' = workload
    BY <1>1, <1>2, <1>7, <2>1, ChunkSound, Zenon
  <2>3. req[r].pc = "chunk" BY <1>7, Zenon DEF ImportChunk
  <2>4. Busy(r) BY <2>3 DEF Busy
  <2> QED BY <2>1, <2>2, <2>4, Zenon DEF IndInv
<1>8. CASE SlowLookup(r)
  <2>1. /\ ReqShape' /\ ImportsShape' /\ Alone' /\ KeptApart(r)
        /\ Others(r) /\ Stepped(r) /\ db' = db
    BY <1>1, <1>8, LookupKeeps, Zenon
  <2>2. AllSane' /\ Sound(db)' /\ workload' = workload BY <1>1, <1>8, <2>1, LookupSound, Zenon
  <2>3. req[r].pc = "slow" BY <1>8, Zenon DEF SlowLookup, Slow
  <2>4. Busy(r) BY <2>3 DEF Busy
  <2> QED BY <2>1, <2>2, <2>4, Zenon DEF IndInv
<1>9. CASE SlowCreate(r)
  <2>1. /\ ReqShape' /\ ImportsShape' /\ Alone' /\ (Copy(r) => KeptApart(r))
        /\ Others(r) /\ Stepped(r)
    BY <1>1, <1>9, CreateKeeps, Zenon
  <2>2. AllSane' /\ Sound(db)' /\ workload' = workload
    BY <1>1, <1>9, <2>1, StatementSound, Zenon
  <2>3. req[r].pc = "slow" BY <1>9, Zenon DEF SlowCreate, Slow
  <2>4. Busy(r) BY <2>3 DEF Busy
  <2> QED BY <2>1, <2>2, <2>4, Zenon DEF IndInv
<1>10. CASE SlowNextRow(r)
  <2>1. /\ ReqShape' /\ ImportsShape' /\ Alone' /\ KeptApart(r)
        /\ Others(r) /\ NextRow(r) /\ db' = db
    BY <1>1, <1>10, NextRowKeeps, Zenon
  <2>2. Slow(r) /\ workload' = workload BY <1>10, Zenon DEF SlowNextRow
  <2>3. AllSane' /\ Sound(db)' BY <1>1, <2>1, <2>2, NextRowSound, Zenon
  <2>4. Busy(r) BY <2>2 DEF Busy, Slow
  <2> QED BY <2>1, <2>2, <2>3, <2>4, Zenon DEF IndInv
<1>11. CASE ImportEnds(r)
  <2>1. ReqShape' /\ ImportsShape' /\ Alone' /\ KeptApart(r) BY <1>1, <1>11, EndsKeep, Zenon
  <2>2. AllSane' /\ Sound(db)' /\ workload' = workload BY <1>1, <1>11, EndSound, Zenon
  <2>3. req[r].pc = "chunk" BY <1>11, Zenon DEF ImportEnds
  <2>4. Busy(r) BY <2>3 DEF Busy
  <2> QED BY <2>1, <2>2, <2>4, Zenon DEF IndInv
<1>12. CASE ImportRegionsRow(r)
  <2>1. ReqShape' /\ ImportsShape' /\ Alone' /\ KeptApart(r)
    BY <1>1, <1>12, RegionRowKeeps, Zenon
  <2>2. AllSane' /\ Sound(db)' /\ workload' = workload BY <1>1, <1>12, RegionRowSound, Zenon
  <2>3. req[r].pc = "regions" BY <1>12, Zenon DEF ImportRegionsRow
  <2>4. Busy(r) BY <2>3 DEF Busy
  <2> QED BY <2>1, <2>2, <2>4, Zenon DEF IndInv
<1> QED
  BY <1>3, <1>4, <1>5, <1>6, <1>7, <1>8, <1>9, <1>10, <1>11, <1>12, Zenon DEF Imports

\* A step keeps apart what is of other companies, for the request that began
\* with nothing else in flight.
LEMMA StepsKeep ==
  ASSUME IndInv, Parameters, Next, NEW q \in Requests, witness.of = q, req[q].pc # "done"
  PROVE  KeptApart(q)
<1>1. Assumed BY AssumedHere, Zenon DEF IndInv
<1>2. PICK r \in Requests : Reads(r) \/ Writes(r) \/ WriteFails(r) \/ Imports(r)
  BY Zenon DEF Next
<1>3. CASE Reads(r)
  <2>1. db' = db BY <1>1, <1>3, ReadsStep, Zenon
  <2> QED BY <2>1, Untouched, Zenon
<1>4. CASE Writes(r) \/ WriteFails(r) \/ Imports(r)
  <2>1. Busy(r) /\ (Intent(r) /\ Copy(r) => KeptApart(r)) BY <1>1, <1>4, WritesStep, Zenon
  <2>2. req[q].pc # "idle" BY Zenon DEF IndInv, Alone
  <2>3. Busy(q) BY <2>2 DEF Busy
  <2>4. r = q /\ Intent(q) /\ Copy(q) BY <2>1, <2>3, Zenon DEF IndInv, Alone
  <2> QED BY <2>1, <2>4, Zenon
<1> QED BY <1>2, <1>3, <1>4

LEMMA StepsSound ==
  ASSUME IndInv, Parameters, Next \/ UNCHANGED vars
  PROVE  IndInv'
<1>1. Assumed BY AssumedHere, Zenon DEF IndInv
<1>2. CASE Next
  <2>1. PICK r \in Requests : Reads(r) \/ Writes(r) \/ WriteFails(r) \/ Imports(r)
    BY <1>2, Zenon DEF Next
  <2> QED BY <1>1, <2>1, ReadsStep, WritesStep, Zenon
<1>3. CASE UNCHANGED vars
  <2>1. /\ workload' = workload /\ db' = db /\ req' = req /\ imports' = imports
        /\ witness' = witness
    BY <1>3, Zenon DEF vars
  <2>2. ReqShape' /\ ImportsShape' /\ AllSane'
    BY <2>1, Zenon DEF IndInv, ReqShape, ImportsShape, AllSane
  <2>3. \A r \in Requests :
          (Intent(r) => Intent(r)') /\ (Copy(r) => Copy(r)') /\ (Busy(r)' <=> Busy(r))
    BY <2>1, Zenon DEF Intent, Mine, Copy, Agree, Busy
  <2>4. Alone' BY <2>1, <2>3, Zenon DEF IndInv, Alone
  <2>5. Sound(db)' BY <2>1, Zenon DEF IndInv
  <2> QED BY <2>1, <2>2, <2>4, <2>5, Zenon DEF IndInv
<1> QED BY <1>2, <1>3

LEMMA Inductive ==
  ASSUME Parameters PROVE Spec => []IndInv
<1>1. Init => IndInv BY StartsSound, Zenon
<1>2. IndInv /\ [Next]_vars => IndInv' BY StepsSound, Zenon
<1>3. QED BY <1>1, <1>2, PTL DEF Spec

\* Whatever requests and imports overlap: every learner has a company and a country
\* that exist, every completion its learner and its training, and no two companies
\* one name.  (schema.prisma; the handlers of students, companies and countries.)
THEOREM TablesSound ==
  ASSUME Parameters PROVE Spec => []TypeOK
<1>1. IndInv => TypeOK BY Zenon DEF IndInv, TypeOK
<1>2. QED BY <1>1, Inductive, PTL

\* For any tables, any scopes and any files: no write of a request that nothing overlaps,
\* and no chunk or row of such an import, changes, deletes or takes over a learner of a
\* company its user cannot access, nor what that learner has completed, nor puts anybody
\* in one.  (The handlers of students, companies and countries; importStudents.)
THEOREM RequestsKeepApart ==
  ASSUME Parameters PROVE Spec => TenantsKeptApart
<1>1. IndInv /\ [Next]_vars =>
        [\A r \in Requests : witness.of = r /\ req[r].pc # "done" => KeptApart(r)]_vars
  BY StepsKeep, Zenon
<1>2. QED BY <1>1, Inductive, PTL DEF Spec, TenantsKeptApart

-----------------------------------------------------------------------------
\* What an import counts.

CountFields == {"students", "updated", "trainings", "taken", "skipped", "conflicts",
                "failed", "pairs", "touched"}

\* The outcome counts n learners and k completions, and names as many.
Tells(out, n, k) ==
  /\ DOMAIN out = CountFields /\ n \in Nat /\ k \in Nat
  /\ out.students = n /\ out.taken = k
  /\ out.pairs \in Seq(Emails \X Titles) /\ Len(out.pairs) = k

\* A request, its import, and what was inserted for it.
Told(q, m, n) ==
  /\ DOMAIN n = {"students", "taken"}
  /\ q.pc = "idle" => n.students = 0 /\ n.taken = 0
  /\ q.op = "ImportStudents" /\ q.pc # "idle" => Tells(m.out, n.students, n.taken)

\* The counts of an import under way are those of the rows inserted so far.
CountInv ==
  DOMAIN inserted = Requests /\ \A r \in Requests : Told(req[r], imports[r], inserted[r])

LEMMA FailedTells ==
  ASSUME NEW out, NEW n, NEW k, Tells(out, n, k), NEW i
  PROVE  Tells(Failed(out, i), n, k)
<1> DEFINE new == [out EXCEPT !.failed = @ \cup {i}]
<1>1. DOMAIN new = DOMAIN out OBVIOUS
<1>2. new.students = out.students BY DEF Tells
<1>3. new.taken = out.taken BY DEF Tells
<1>4. new.pairs = out.pairs BY DEF Tells
<1> HIDE DEF new
<1>5. Tells(new, n, k) BY <1>1, <1>2, <1>3, <1>4, Zenon DEF Tells
<1> QED BY <1>5 DEF Failed, new

LEMMA FoundTells ==
  ASSUME NEW out, NEW n, NEW k, Tells(out, n, k), NEW t \in Copied, NEW row, NEW company,
         NEW view
  PROVE  Tells(Found(t, row, company, view, out), n, k)
<1> DEFINE own == view.students[row.email].company
           new == [out EXCEPT !.updated = @ + 1, !.touched = @ \cup {own},
                              !.conflicts = IF own = company THEN @ ELSE @ + 1]
           skip == [out EXCEPT !.skipped = @ + 1]
<1>1. CASE t = "students"
  <2>1. Found(t, row, company, view, out) = new BY <1>1, Zenon DEF Found
  <2> HIDE DEF own
  <2>2. DOMAIN new = DOMAIN out OBVIOUS
  <2>3. new.students = out.students BY DEF Tells
  <2>4. new.taken = out.taken BY DEF Tells
  <2>5. new.pairs = out.pairs BY DEF Tells
  <2> HIDE DEF new
  <2> QED BY <2>1, <2>2, <2>3, <2>4, <2>5, Zenon DEF Tells
<1>2. CASE t = "taken"
  <2>1. Found(t, row, company, view, out) = skip BY <1>2 DEF Found
  <2>2. DOMAIN skip = DOMAIN out OBVIOUS
  <2>3. skip.students = out.students BY DEF Tells
  <2>4. skip.taken = out.taken BY DEF Tells
  <2>5. skip.pairs = out.pairs BY DEF Tells
  <2> HIDE DEF skip
  <2> QED BY <2>1, <2>2, <2>3, <2>4, <2>5, Zenon DEF Tells
<1>3. CASE t = "regions" \/ t = "trainings"
  <2>1. Found(t, row, company, view, out) = out BY <1>3 DEF Found
  <2> QED BY <2>1, Zenon
<1> QED BY <1>1, <1>2, <1>3 DEF Copied

\* What a created entry adds to the counts.
LearnersIn(t) == IF t = "students" THEN 1 ELSE 0
RowsIn(t) == IF t = "taken" THEN 1 ELSE 0

LEMMA CreatedTells ==
  ASSUME NEW out, NEW n, NEW k, Tells(out, n, k), NEW t \in Copied, NEW row \in FileRows,
         NEW company
  PROVE  Tells(Created(t, row, company, out), n + LearnersIn(t), k + RowsIn(t))
<1> DEFINE learner == [out EXCEPT !.students = @ + 1, !.touched = @ \cup {company}]
           training == [out EXCEPT !.trainings = @ + 1]
           pair == <<row.email, row.title>>
           completion == [out EXCEPT !.taken = @ + 1, !.pairs = Append(@, pair)]
<1>a. n \in Nat /\ k \in Nat /\ n + 0 = n /\ k + 0 = k BY DEF Tells
<1>1. CASE t = "students"
  <2>1. Created(t, row, company, out) = learner BY <1>1, Zenon DEF Created
  <2>2. DOMAIN learner = DOMAIN out OBVIOUS
  <2>3. learner.students = n + 1 BY DEF Tells, CountFields
  <2>4. learner.taken = out.taken BY DEF Tells
  <2>5. learner.pairs = out.pairs BY DEF Tells
  <2>6. LearnersIn(t) = 1 /\ RowsIn(t) = 0 /\ n + 1 \in Nat BY <1>a, <1>1 DEF LearnersIn, RowsIn
  <2> HIDE DEF learner
  <2>7. Tells(learner, n + 1, k) BY <2>2, <2>3, <2>4, <2>5, <2>6, Zenon DEF Tells
  <2> QED BY <1>a, <2>1, <2>6, <2>7, Zenon
<1>2. CASE t = "taken"
  <2>1. Created(t, row, company, out) = completion BY <1>2 DEF Created
  <2>2. DOMAIN completion = DOMAIN out OBVIOUS
  <2>3. completion.students = out.students BY DEF Tells
  <2>4. completion.taken = k + 1 BY DEF Tells, CountFields
  <2>5. completion.pairs = Append(out.pairs, pair) BY DEF Tells, CountFields
  <2>6. pair \in Emails \X Titles BY FileRowTyped
  <2> HIDE DEF completion, pair
  <2>7. /\ Append(out.pairs, pair) \in Seq(Emails \X Titles)
        /\ Len(Append(out.pairs, pair)) = k + 1
    <3> DEFINE S == Emails \X Titles
    <3>1. out.pairs \in Seq(S) /\ Len(out.pairs) = k BY Zenon DEF Tells
    <3>2. pair \in S BY <2>6
    <3> HIDE DEF S
    <3>3. Append(out.pairs, pair) \in Seq(S) /\ Len(Append(out.pairs, pair)) = Len(out.pairs) + 1
      BY <3>1, <3>2
    <3> QED BY <3>1, <3>3 DEF S
  <2>8. LearnersIn(t) = 0 /\ RowsIn(t) = 1 /\ k + 1 \in Nat BY <1>a, <1>2 DEF LearnersIn, RowsIn
  <2>9. Tells(completion, n, k + 1)
    BY <2>2, <2>3, <2>4, <2>5, <2>7, <2>8, Zenon DEF Tells
  <2> QED BY <1>a, <2>1, <2>8, <2>9, Zenon
<1>3. CASE t = "trainings"
  <2>1. Created(t, row, company, out) = training BY <1>3 DEF Created
  <2>2. DOMAIN training = DOMAIN out OBVIOUS
  <2>3. training.students = out.students BY DEF Tells
  <2>4. training.taken = out.taken BY DEF Tells
  <2>5. training.pairs = out.pairs BY DEF Tells
  <2>6. LearnersIn(t) = 0 /\ RowsIn(t) = 0 BY <1>3 DEF LearnersIn, RowsIn
  <2> HIDE DEF training
  <2>7. Tells(training, n, k) BY <2>2, <2>3, <2>4, <2>5, Zenon DEF Tells
  <2> QED BY <1>a, <2>1, <2>6, <2>7, Zenon
<1>4. CASE t = "regions"
  <2>1. Created(t, row, company, out) = out BY <1>4 DEF Created
  <2>2. LearnersIn(t) = 0 /\ RowsIn(t) = 0 BY <1>4 DEF LearnersIn, RowsIn
  <2> QED BY <1>a, <2>1, <2>2, Zenon
<1> QED BY <1>1, <1>2, <1>3, <1>4 DEF Copied

\* What a copy holds that the tables read did not.
Added(base, view, t) == DOMAIN view[t] \ DOMAIN base[t]

\* The counts of a chunk tried on a copy are those of what it adds.
Tally(base, n, k, y) ==
  /\ DOMAIN y = {"view", "out", "stop"} /\ DOMAIN y.view = Copied /\ n \in Nat /\ k \in Nat
  /\ \A t \in Copied : DOMAIN base[t] \subseteq DOMAIN y.view[t]
  /\ IsFiniteSet(Added(base, y.view, "students")) /\ IsFiniteSet(Added(base, y.view, "taken"))
  /\ Tells(y.out, n + Cardinality(Added(base, y.view, "students")),
           k + Cardinality(Added(base, y.view, "taken")))

\* The copy is one entry larger, in one of its tables.
Grown(base, view, new, t, k) ==
  /\ DOMAIN new = Copied
  /\ \A u \in Copied : DOMAIN base[u] \subseteq DOMAIN new[u]
  /\ Added(base, new, t) = Added(base, view, t) \cup {k} /\ k \notin Added(base, view, t)
  /\ \A u \in Copied : u # t => Added(base, new, u) = Added(base, view, u)

LEMMA AddedGrows ==
  ASSUME NEW base, NEW view, DOMAIN view = Copied, NEW t \in Copied, NEW k, NEW entry,
         k \notin DOMAIN view[t], \A u \in Copied : DOMAIN base[u] \subseteq DOMAIN view[u]
  PROVE  Grown(base, view, [view EXCEPT ![t] = Put(view[t], k, entry)], t, k)
<1> DEFINE new == [view EXCEPT ![t] = Put(view[t], k, entry)]
<1>1. DOMAIN new = Copied /\ new[t] = Put(view[t], k, entry)
      /\ \A u \in Copied : u # t => new[u] = view[u]
  OBVIOUS
<1> HIDE DEF new
<1>2. DOMAIN new[t] = DOMAIN view[t] \cup {k}
  <2>1. IsPut(new[t], view[t], k, entry) BY <1>1, PutIs, Zenon
  <2> QED BY <2>1, Zenon DEF IsPut
<1>3. Added(base, new, t) = Added(base, view, t) \cup {k} /\ k \notin Added(base, view, t)
  BY <1>2 DEF Added
<1>4. \A u \in Copied : u # t => Added(base, new, u) = Added(base, view, u)
  BY <1>1, Zenon DEF Added
<1>5. \A u \in Copied : DOMAIN base[u] \subseteq DOMAIN new[u] BY <1>1, <1>2
<1>6. Grown(base, view, new, t, k) BY <1>1, <1>3, <1>4, <1>5, Zenon DEF Grown
<1> QED BY <1>6 DEF new

\* One entry more, and one more counted.
OneMore(old, new, k, one) ==
  (one = 1 /\ new = old \cup {k} /\ k \notin old) \/ (one = 0 /\ new = old)
CountsOneMore(old, new, n, one) ==
  IsFiniteSet(new) /\ n + Cardinality(new) = (n + Cardinality(old)) + one

LEMMA CardinalityGrows ==
  ASSUME NEW old, NEW new, NEW k, NEW one, NEW n \in Nat, IsFiniteSet(old),
         OneMore(old, new, k, one)
  PROVE  CountsOneMore(old, new, n, one)
<1>1. Cardinality(old) \in Nat BY FS_CardinalityType, Zenon
<1>2. CASE one = 1 /\ new = old \cup {k} /\ k \notin old
  <2>1. IsFiniteSet(old \cup {k}) /\ Cardinality(old \cup {k}) = Cardinality(old) + 1
    BY <1>2, FS_AddElement, Zenon
  <2>2. IsFiniteSet(new) /\ Cardinality(new) = Cardinality(old) + 1 BY <1>2, <2>1, Zenon
  <2> QED BY <1>1, <1>2, <2>2 DEF CountsOneMore
<1>3. CASE one = 0 /\ new = old
  <2>1. IsFiniteSet(new) /\ Cardinality(new) = Cardinality(old) BY <1>3, Zenon
  <2> QED BY <1>1, <1>3, <2>1 DEF CountsOneMore
<1> QED BY <1>2, <1>3 DEF OneMore

LEMMA StageTallies ==
  ASSUME NEW r, NEW i, NEW t \in Copied, NEW base, NEW n, NEW k, NEW y, Tally(base, n, k, y),
         imports[r].rows[i] \in FileRows
  PROVE  Tally(base, n, k, Stage(r, i, t, y))
<1> DEFINE row == imports[r].rows[i]
           company == CompanyOf(r, i)
           key == KeyIn(t, row)
           entry == EntryFor(t, row, company, y.view)
           new == [y.view EXCEPT ![t] = Put(y.view[t], key, entry)]
           z == Stage(r, i, t, y)
           failed == Failed(y.out, i)
           found == Found(t, row, company, y.view, y.out)
           created == Created(t, row, company, y.out)
           created0 == key \notin DOMAIN y.view[t]
<1>1. /\ DOMAIN y = {"view", "out", "stop"} /\ DOMAIN y.view = Copied /\ n \in Nat /\ k \in Nat
      /\ \A u \in Copied : DOMAIN base[u] \subseteq DOMAIN y.view[u]
      /\ IsFiniteSet(Added(base, y.view, "students"))
      /\ IsFiniteSet(Added(base, y.view, "taken"))
      /\ Tells(y.out, n + Cardinality(Added(base, y.view, "students")),
               k + Cardinality(Added(base, y.view, "taken")))
  BY Zenon DEF Tally
<1>2. \/ z = y
      \/ z = [y EXCEPT !.stop = TRUE, !.out = Failed(@, i)]
      \/ z = [y EXCEPT !.out = Found(t, row, company, y.view, @)]
      \/ /\ created0
         /\ z = [y EXCEPT !.view[t] = Put(@, key, entry), !.out = Created(t, row, company, @)]
  BY Zenon DEF Stage
<1> HIDE DEF key, entry, row, company, z
<1>3. DOMAIN z = DOMAIN y BY <1>2
<1>4. \/ z.view = y.view /\ (z.out = y.out \/ z.out = failed \/ z.out = found)
      \/ created0 /\ z.view = new /\ z.out = created
  <2> HIDE DEF created0
  <2>1. CASE z = y BY <2>1
  <2>2. CASE z = [y EXCEPT !.stop = TRUE, !.out = Failed(@, i)] BY <1>1, <2>2
  <2>3. CASE z = [y EXCEPT !.out = Found(t, row, company, y.view, @)] BY <1>1, <2>3
  <2>4. CASE /\ created0
             /\ z = [y EXCEPT !.view[t] = Put(@, key, entry),
                              !.out = Created(t, row, company, @)]
    BY <1>1, <2>4
  <2> QED BY <1>2, <2>1, <2>2, <2>3, <2>4
<1>5. CASE z.view = y.view /\ (z.out = y.out \/ z.out = failed \/ z.out = found)
  <2>1. Tells(z.out, n + Cardinality(Added(base, y.view, "students")),
              k + Cardinality(Added(base, y.view, "taken")))
    BY <1>1, <1>5, FailedTells, FoundTells, Zenon
  <2> QED BY <1>1, <1>3, <1>5, <2>1, Zenon DEF Tally, z
<1>6. CASE created0 /\ z.view = new /\ z.out = created
  <2>0. Grown(base, y.view, new, t, key) BY <1>1, <1>6, AddedGrows, Zenon
  <2> HIDE DEF new
  <2>1. /\ DOMAIN new = Copied
        /\ \A u \in Copied : DOMAIN base[u] \subseteq DOMAIN new[u]
        /\ Added(base, new, t) = Added(base, y.view, t) \cup {key}
        /\ key \notin Added(base, y.view, t)
        /\ \A u \in Copied : u # t => Added(base, new, u) = Added(base, y.view, u)
    BY <2>0, Zenon DEF Grown
  <2>2. /\ IsFiniteSet(Added(base, new, "students"))
        /\ n + Cardinality(Added(base, new, "students"))
             = (n + Cardinality(Added(base, y.view, "students"))) + LearnersIn(t)
    <3> DEFINE old == Added(base, y.view, "students")
               now == Added(base, new, "students")
    <3>1. "students" \in Copied BY DEF Copied
    <3>2. OneMore(old, now, key, LearnersIn(t))
      <4>1. CASE t = "students"
        <5>1. LearnersIn(t) = 1 BY <4>1 DEF LearnersIn
        <5> QED BY <2>1, <4>1, <5>1, Zenon DEF OneMore
      <4>2. CASE t # "students"
        <5>1. LearnersIn(t) = 0 BY <4>2 DEF LearnersIn
        <5> QED BY <2>1, <3>1, <4>2, <5>1, Zenon DEF OneMore
      <4> QED BY <4>1, <4>2
    <3>3. CountsOneMore(old, now, n, LearnersIn(t)) BY <1>1, <3>2, CardinalityGrows, Zenon
    <3> QED BY <3>3, Zenon DEF CountsOneMore
  <2>3. /\ IsFiniteSet(Added(base, new, "taken"))
        /\ k + Cardinality(Added(base, new, "taken"))
             = (k + Cardinality(Added(base, y.view, "taken"))) + RowsIn(t)
    <3> DEFINE old == Added(base, y.view, "taken")
               now == Added(base, new, "taken")
    <3>1. "taken" \in Copied BY DEF Copied
    <3>2. OneMore(old, now, key, RowsIn(t))
      <4>1. CASE t = "taken"
        <5>1. RowsIn(t) = 1 BY <4>1 DEF RowsIn
        <5> QED BY <2>1, <4>1, <5>1, Zenon DEF OneMore
      <4>2. CASE t # "taken"
        <5>1. RowsIn(t) = 0 BY <4>2 DEF RowsIn
        <5> QED BY <2>1, <3>1, <4>2, <5>1, Zenon DEF OneMore
      <4> QED BY <4>1, <4>2
    <3>3. CountsOneMore(old, now, k, RowsIn(t)) BY <1>1, <3>2, CardinalityGrows, Zenon
    <3> QED BY <3>3, Zenon DEF CountsOneMore
  <2>4. row \in FileRows BY DEF row
  <2>5. Tells(created, (n + Cardinality(Added(base, y.view, "students"))) + LearnersIn(t),
              (k + Cardinality(Added(base, y.view, "taken"))) + RowsIn(t))
    BY <1>1, <2>4, CreatedTells, Zenon
  <2>6. Tells(z.out, n + Cardinality(Added(base, z.view, "students")),
              k + Cardinality(Added(base, z.view, "taken")))
    BY <1>6, <2>2, <2>3, <2>5, Zenon
  <2> QED BY <1>1, <1>3, <1>6, <2>1, <2>2, <2>3, <2>6, Zenon DEF Tally, z
<1> QED BY <1>4, <1>5, <1>6

LEMMA RowTallies ==
  ASSUME NEW r, NEW i, NEW base, NEW n, NEW k, NEW x, Tally(base, n, k, x),
         imports[r].rows[i] \in FileRows
  PROVE  Tally(base, n, k, Worked(r, x, i))
<1> DEFINE fresh == [x EXCEPT !.stop = FALSE]
           row == imports[r].rows[i]
           placed == IF row.country = Blank THEN fresh ELSE Stage(r, i, "regions", fresh)
           s == Stage(r, i, "students", placed)
           u == Stage(r, i, "trainings", s)
           v == Stage(r, i, "taken", u)
<1>1. DOMAIN x = {"view", "out", "stop"} BY Zenon DEF Tally
<1>2. CASE CompanyOf(r, i) = None
  <2> DEFINE z == Worked(r, x, i)
             out == Failed(x.out, i)
  <2>1. z = [x EXCEPT !.out = out] BY <1>2, Zenon DEF Worked
  <2> HIDE DEF z, out
  <2>2. DOMAIN z = DOMAIN x BY <2>1
  <2>3. z.view = x.view /\ z.out = out BY <1>1, <2>1
  <2>4. Tells(out, n + Cardinality(Added(base, x.view, "students")),
              k + Cardinality(Added(base, x.view, "taken")))
    BY FailedTells, Zenon DEF Tally, out
  <2>5. Tally(base, n, k, z) BY <2>2, <2>3, <2>4, Zenon DEF Tally
  <2> QED BY <2>5 DEF z
<1>3. CASE CompanyOf(r, i) # None
  <2>1. Worked(r, x, i) = v BY <1>3, Zenon DEF Worked
  <2>2. DOMAIN fresh = DOMAIN x OBVIOUS
  <2>3. fresh.view = x.view /\ fresh.out = x.out BY <1>1
  <2> HIDE DEF fresh
  <2>4. Tally(base, n, k, fresh) BY <2>2, <2>3, Zenon DEF Tally
  <2>5. /\ "regions" \in Copied /\ "students" \in Copied /\ "trainings" \in Copied
        /\ "taken" \in Copied
    BY DEF Copied
  <2>6. Tally(base, n, k, placed) BY <2>4, <2>5, StageTallies, Zenon
  <2> HIDE DEF placed
  <2>7. Tally(base, n, k, s) BY <2>5, <2>6, StageTallies, Zenon
  <2> HIDE DEF s
  <2>8. Tally(base, n, k, u) BY <2>5, <2>7, StageTallies, Zenon
  <2> HIDE DEF u
  <2>9. Tally(base, n, k, v) BY <2>5, <2>8, StageTallies, Zenon
  <2> QED BY <2>1, <2>9, Zenon
<1> QED BY <1>2, <1>3

LEMMA ChunkTallies ==
  ASSUME NEW r, NEW N \in Nat, NEW f, Takes(r, f, N), NEW base, NEW n, NEW k,
         Tally(base, n, k, Untried(r)),
         \A m \in 1..N : imports[r].rows[Chunk(r)[m]] \in FileRows
  PROVE  Tally(base, n, k, f[N])
<1> DEFINE w(c, m) == Worked(r, c, Chunk(r)[m])
           bad == {m \in 0..N : ~Tally(base, n, k, f[m])}
<1>1. f = [m \in 0..N |-> IF m = 0 THEN Untried(r) ELSE w(f[m - 1], m)] BY Zenon DEF Takes
<1>2. \A c, m : m \in 1..N /\ Tally(base, n, k, c) => Tally(base, n, k, w(c, m))
  BY RowTallies, Zenon
<1> HIDE DEF w
<1>3. \A m \in 0..N : f[m] = IF m = 0 THEN Untried(r) ELSE w(f[m - 1], m) BY <1>1
<1>4. ASSUME bad # {} PROVE FALSE
  <2>1. bad \in SUBSET Nat OBVIOUS
  <2>2. PICK x \in bad : \A y \in bad : x <= y BY <1>4, <2>1, LeastIsThere, Zenon
  <2>3. x \in 0..N /\ ~Tally(base, n, k, f[x]) OBVIOUS
  <2>4. x # 0
    <3>1. 0 \in 0..N OBVIOUS
    <3>2. f[0] = Untried(r) BY <1>3, <3>1
    <3> QED BY <2>3, <3>2, Zenon
  <2>5. x - 1 \in 0..N /\ ~(x <= x - 1) /\ x \in 1..N BY <2>3, <2>4
  <2>6. x - 1 \notin bad BY <2>2, <2>5
  <2>7. Tally(base, n, k, f[x - 1]) BY <2>5, <2>6
  <2>8. f[x] = w(f[x - 1], x) BY <1>3, <2>3, <2>4
  <2> QED BY <1>2, <2>3, <2>5, <2>7, <2>8, Zenon
<1>5. N \in 0..N OBVIOUS
<1> QED BY <1>4, <1>5

\* What a chunk counts on the copy is what it adds to it.
LEMMA SimulatedTallies ==
  ASSUME ImportsShape, NEW r \in Requests, ChunkSize \in Nat \ {0},
         imports[r].at <= Len(imports[r].rows), imports[r].at # 0,
         imports[r].rows \in Seq(FileRows), DOMAIN imports[r].base = Copied,
         NEW n, NEW k, Tells(imports[r].out, n, k)
  PROVE  Tally(imports[r].base, n, k, Simulated(r))
<1> DEFINE base == imports[r].base
           rows == imports[r].rows
           at == imports[r].at
           N == Len(Chunk(r))
<1>1. /\ LastOf(r) \in Nat /\ LastOf(r) <= Len(rows) /\ at <= LastOf(r)
      /\ N = LastOf(r) - at + 1 /\ N \in Nat
      /\ \A m \in 1..N : Chunk(r)[m] = at + m - 1
  BY ChunkLen, Zenon
<1>2. Takes(r, Copies(r), N) BY <1>1, CopiesTake, Zenon
<1>3. at \in Nat /\ Len(rows) \in Nat BY Zenon DEF ImportsShape, ImportShape
<1>4. \A m \in 1..N : rows[Chunk(r)[m]] \in FileRows
  <2> SUFFICES ASSUME NEW m \in 1..N PROVE rows[Chunk(r)[m]] \in FileRows
    OBVIOUS
  <2> HIDE DEF N, at, rows
  <2>1. at + m - 1 \in Nat \ {0} /\ at + m - 1 <= Len(rows)
    <3>1. at # 0 BY DEF at
    <3> QED BY <1>1, <1>3, <3>1
  <2>2. rows[at + m - 1] \in FileRows BY <2>1, RowsAt, Zenon DEF rows
  <2> QED BY <1>1, <2>2, Zenon
<1>5. /\ Untried(r).view = base /\ Untried(r).out = imports[r].out
      /\ DOMAIN Untried(r) = {"view", "out", "stop"}
  BY DEF Untried
<1>6. Tally(base, n, k, Untried(r))
  <2>1. \A t \in Copied : Added(base, base, t) = {} BY DEF Added
  <2>2. Added(base, base, "students") = {} /\ Added(base, base, "taken") = {}
    BY <2>1 DEF Copied
  <2>3. IsFiniteSet({}) /\ Cardinality({}) = 0 BY FS_EmptySet
  <2>4. n \in Nat /\ k \in Nat BY Zenon DEF Tells
  <2>5. n + 0 = n /\ k + 0 = k BY <2>4
  <2> HIDE DEF base
  <2>6. \A t \in Copied : DOMAIN base[t] \subseteq DOMAIN base[t] OBVIOUS
  <2>7. DOMAIN base = Copied BY DEF base
  <2> QED BY <1>5, <2>2, <2>3, <2>4, <2>5, <2>6, <2>7, Zenon DEF Tally
<1>7. Tally(base, n, k, Copies(r)[N]) BY <1>1, <1>2, <1>4, <1>6, ChunkTallies, Zenon
<1> QED BY <1>7, Zenon DEF Simulated

LEMMA OthersTold ==
  ASSUME CountInv, NEW r \in Requests, DOMAIN inserted' = Requests,
         \A q \in Requests : q # r => /\ req'[q] = req[q] /\ imports'[q] = imports[q]
                                      /\ inserted'[q] = inserted[q],
         Told(req'[r], imports'[r], inserted'[r])
  PROVE  CountInv'
<1> SUFFICES ASSUME NEW q \in Requests PROVE Told(req'[q], imports'[q], inserted'[q])
  BY Zenon DEF CountInv
<1>1. CASE q = r BY <1>1, Zenon
<1>2. CASE q # r
  <2>1. Told(req[q], imports[q], inserted[q]) BY Zenon DEF CountInv
  <2> QED BY <1>2, <2>1, Zenon
<1> QED BY <1>1, <1>2

\* A step that inserts no row counts none.
LEMMA QuietTold ==
  ASSUME CountInv, NEW r \in Requests, inserted' = inserted,
         \A q \in Requests : q # r => req'[q] = req[q] /\ imports'[q] = imports[q],
         req[r].pc # "idle", req'[r].pc # "idle", req'[r].op = req[r].op,
         \A n, k : req[r].op = "ImportStudents" /\ Tells(imports[r].out, n, k)
                   => Tells(imports'[r].out, n, k)
  PROVE  CountInv'
<1>1. Told(req[r], imports[r], inserted[r]) /\ DOMAIN inserted = Requests BY Zenon DEF CountInv
<1>2. Told(req'[r], imports'[r], inserted'[r]) BY <1>1, Zenon DEF Told
<1> QED BY <1>1, <1>2, OthersTold, Zenon

\* The request and its import, in a step that writes one or the other.
LEMMA EndsTold ==
  ASSUME CountInv, ReqShape, NEW r \in Requests, Writes(r) \/ WriteFails(r) \/ ImportEnds(r)
  PROVE  CountInv'
<1>1. /\ req[r].pc \in {"write", "chunk"} /\ imports' = imports /\ inserted' = inserted
      /\ \E o \in {"ok", "error"} : req' = [req EXCEPT ![r].pc = "done", ![r].outcome = o]
  <2>1. CASE Writes(r)
    BY <2>1, Zenon DEF Writes, Written, Writing, PostStudentWrite, PutStudentWrite,
       RenameStudentWrite, DeleteStudentWrite, PostCompanyWrite, PutCompanyWrite,
       DeleteCompanyWrite, PostRegionWrite, PutRegionWrite, DeleteRegionWrite,
       DeleteTrainingWrite
  <2>2. CASE WriteFails(r) BY <2>2, FailedWrites, Zenon
  <2>3. CASE ImportEnds(r) BY <2>3, Zenon DEF ImportEnds
  <2> QED BY <2>1, <2>2, <2>3
<1>a. PICK o : req' = [req EXCEPT ![r].pc = "done", ![r].outcome = o] BY <1>1, Zenon
<1>2. \A q \in Requests : q # r => req'[q] = req[q] BY <1>a DEF ReqShape
<1>3. req'[r].pc = "done" BY <1>a DEF ReqShape
<1>4. req'[r].op = req[r].op BY <1>a DEF ReqShape
<1>5. req[r].pc # "idle" /\ req'[r].pc # "idle" BY <1>1, <1>3
<1> QED BY <1>1, <1>2, <1>4, <1>5, QuietTold, Zenon

LEMMA RegionRowTold ==
  ASSUME CountInv, ReqShape, NEW r \in Requests, ImportRegionsRow(r)
  PROVE  CountInv'
<1> DEFINE p == IF Len(req[r].body.rows) = 1 THEN "done" ELSE "regions"
           b == [req[r].body EXCEPT !.rows = Tail(@)]
<1>1. /\ req[r].pc = "regions" /\ imports' = imports /\ inserted' = inserted
      /\ req' = [req EXCEPT ![r].body.rows = Tail(@),
                            ![r].pc = IF Len(req[r].body.rows) = 1 THEN "done" ELSE @]
  BY Zenon DEF ImportRegionsRow
<1>2. req' = [req EXCEPT ![r] = [req[r] EXCEPT !.body.rows = Tail(@),
                  !.pc = IF Len(req[r].body.rows) = 1 THEN "done" ELSE @]]
  BY <1>1
<1>3. req'[r] = [req[r] EXCEPT !.body = b, !.pc = p]
  BY <1>1 DEF ReqShape
<1>4. \A q \in Requests : q # r => req'[q] = req[q]
  BY <1>2, Zenon DEF ReqShape
<1>5. p # "idle" OBVIOUS
<1> HIDE DEF b, p
<1>6. req'[r].pc = p BY <1>3 DEF ReqShape
<1>7. req'[r].op = req[r].op BY <1>3 DEF ReqShape
<1>8. req[r].pc # "idle" /\ req'[r].pc # "idle" BY <1>1, <1>5, <1>6
<1> QED BY <1>1, <1>4, <1>7, <1>8, QuietTold, Zenon

LEMMA CompaniesTold ==
  ASSUME CountInv, ReqShape, ImportsShape, NEW r \in Requests, ImportCompanies(r)
  PROVE  CountInv'
<1>1. req[r].pc = "companies" /\ inserted' = inserted BY Zenon DEF ImportCompanies
<1>2. \/ imports' = imports /\ req' = [req EXCEPT ![r].pc = "done", ![r].outcome = "error"]
      \/ \E known : /\ imports' = [imports EXCEPT ![r].known = known]
                    /\ req' = [req EXCEPT ![r].pc = "read"]
  BY Zenon DEF ImportCompanies
<1>3. CASE imports' = imports /\ req' = [req EXCEPT ![r].pc = "done", ![r].outcome = "error"]
  <2>1. \A q \in Requests : q # r => req'[q] = req[q] BY <1>3 DEF ReqShape
  <2>2. req'[r].pc = "done" BY <1>3 DEF ReqShape
  <2>3. req'[r].op = req[r].op BY <1>3 DEF ReqShape
  <2>4. req[r].pc # "idle" /\ req'[r].pc # "idle" BY <1>1, <2>2
  <2> QED BY <1>1, <1>3, <2>1, <2>3, <2>4, QuietTold, Zenon
<1>4. CASE \E known : /\ imports' = [imports EXCEPT ![r].known = known]
                      /\ req' = [req EXCEPT ![r].pc = "read"]
  <2>a. PICK known : /\ imports' = [imports EXCEPT ![r].known = known]
                     /\ req' = [req EXCEPT ![r].pc = "read"]
    BY <1>4, Zenon
  <2>1. \A q \in Requests : q # r => req'[q] = req[q] /\ imports'[q] = imports[q]
    BY <2>a DEF ReqShape, ImportsShape
  <2>2. req'[r].pc = "read" BY <2>a DEF ReqShape
  <2>3. req'[r].op = req[r].op BY <2>a DEF ReqShape
  <2>4. req[r].pc # "idle" /\ req'[r].pc # "idle" BY <1>1, <2>2
  <2>5. imports'[r].out = imports[r].out BY <2>a DEF ImportsShape, ImportShape
  <2> QED BY <1>1, <2>1, <2>3, <2>4, <2>5, QuietTold, Zenon
<1> QED BY <1>2, <1>3, <1>4

LEMMA ReadsTold ==
  ASSUME CountInv, ReqShape, ImportsShape, NEW r \in Requests, ImportReads(r)
  PROVE  CountInv'
<1>1. /\ req[r].pc = "read" /\ inserted' = inserted
      /\ \E base : imports' = [imports EXCEPT ![r].base = base]
      /\ \E p \in {"chunk", "read"} : req' = [req EXCEPT ![r].pc = p]
  <2>1. /\ req[r].pc = "read" /\ inserted' = inserted
        /\ \E base : imports' = [imports EXCEPT ![r].base = base]
    BY Zenon DEF ImportReads
  <2>2. \E t : req' = [req EXCEPT ![r].pc = IF t = "taken" THEN "chunk" ELSE @]
    BY Zenon DEF ImportReads
  <2>a. PICK t : req' = [req EXCEPT ![r].pc = IF t = "taken" THEN "chunk" ELSE @]
    BY <2>2, Zenon
  <2>3. req' = [req EXCEPT ![r].pc = "chunk"] \/ req' = [req EXCEPT ![r].pc = "read"]
    BY <2>1, <2>a
  <2> QED BY <2>1, <2>3, Zenon
<1>a. PICK base : imports' = [imports EXCEPT ![r].base = base] BY <1>1, Zenon
<1>b. PICK p \in {"chunk", "read"} : req' = [req EXCEPT ![r].pc = p] BY <1>1, Zenon
<1>2. \A q \in Requests : q # r => req'[q] = req[q] /\ imports'[q] = imports[q]
  BY <1>a, <1>b DEF ReqShape, ImportsShape
<1>3. req'[r].pc = p BY <1>b DEF ReqShape
<1>4. req'[r].op = req[r].op BY <1>b DEF ReqShape
<1>5. req[r].pc # "idle" /\ req'[r].pc # "idle" BY <1>1, <1>3, <1>b
<1>6. imports'[r].out = imports[r].out BY <1>a DEF ImportsShape, ImportShape
<1> QED BY <1>1, <1>2, <1>4, <1>5, <1>6, QuietTold, Zenon

LEMMA NextRowTold ==
  ASSUME CountInv, ReqShape, ImportsShape, NEW r \in Requests, SlowNextRow(r), Others(r),
         NextRow(r)
  PROVE  CountInv'
<1> DEFINE at == imports[r].at
           more == at < req[r].body.last
           s == IF more THEN StagesAt(r, at + 1) ELSE <<>>
           none == CompanyOf(r, at) = None
           failed == Failed(imports[r].out, at)
           out == IF none THEN failed ELSE imports[r].out
           m == [imports[r] EXCEPT !.at = at + 1, !.out = out, !.stages = s]
           p == IF more THEN "slow" ELSE "chunk"
<1>1. /\ req[r].pc = "slow" /\ inserted' = inserted
      /\ imports' = [imports EXCEPT ![r].at = @ + 1,
           ![r].out = IF CompanyOf(r, imports[r].at) = None THEN Failed(@, imports[r].at) ELSE @,
           ![r].stages = IF imports[r].at < req[r].body.last THEN StagesAt(r, imports[r].at + 1)
                         ELSE <<>>]
      /\ req' = [req EXCEPT ![r].pc = IF imports[r].at < req[r].body.last THEN @ ELSE "chunk"]
  BY Zenon DEF SlowNextRow, Slow
<1>2. ImportShape(imports[r]) BY Zenon DEF ImportsShape
<1>3. imports' = [imports EXCEPT ![r] = m] BY <1>1, <1>2 DEF ImportShape, ImportsShape
<1>4. imports'[r] = m BY <1>3, Zenon DEF ImportsShape
<1> HIDE DEF none, failed, s
<1>5. m.out = out BY <1>2 DEF ImportShape
<1>6. imports'[r].out = imports[r].out \/ imports'[r].out = failed BY <1>4, <1>5
<1>7. \A n, k : Tells(imports[r].out, n, k) => Tells(imports'[r].out, n, k)
  BY <1>6, FailedTells, Zenon DEF failed
<1>8. req'[r].op = req[r].op BY <1>1 DEF ReqShape
<1>9. req'[r].pc \in {"slow", "chunk"} BY Zenon DEF NextRow
<1>10. req[r].pc # "idle" /\ req'[r].pc # "idle" BY <1>1, <1>9
<1> QED BY <1>1, <1>7, <1>8, <1>10, QuietTold, Zenon DEF Others

LEMMA LookupTold ==
  ASSUME CountInv, ImportsShape, NEW r \in Requests, SlowLookup(r), Others(r)
  PROVE  CountInv'
<1> DEFINE n == imports[r]
           t == Head(n.stages)
           row == AtRow(r)
           k == KeyIn(t, row)
           copy == n.base
           view == IF k \notin DOMAIN copy[t] /\ k \in DOMAIN db[t]
                     THEN [copy EXCEPT ![t] = Put(@, k, db[t][k])] ELSE copy
           out1 == Failed(n.out, n.at)
           out2 == Found(t, row, CompanyOf(r, n.at), view, n.out)
           m1 == [n EXCEPT !.missing = TRUE]
           m2 == [n EXCEPT !.base = view, !.out = out1, !.stages = <<>>]
           m3 == [n EXCEPT !.base = view, !.stages = Tail(n.stages), !.out = out2]
           m == IF k \notin DOMAIN view[t] THEN m1
                ELSE IF Foreign(t, row, view, req[r].scope) THEN m2 ELSE m3
<1>1. req[r].pc = "slow" /\ n.stages # <<>> /\ req' = req /\ inserted' = inserted
  BY Zenon DEF SlowLookup, Slow
<1>2. imports' = [imports EXCEPT ![r] =
       IF k \notin DOMAIN view[t] THEN [n EXCEPT !.missing = TRUE]
       ELSE IF Foreign(t, row, view, req[r].scope)
         THEN [n EXCEPT !.base = view, !.out = Failed(@, n.at), !.stages = <<>>]
       ELSE [n EXCEPT !.base = view, !.stages = Tail(@),
               !.out = Found(t, row, CompanyOf(r, n.at), view, @)]]
  BY Zenon DEF SlowLookup
<1>3. ImportShape(n) BY Zenon DEF ImportsShape
<1>4. t \in Copied BY <1>1, <1>3, NextStage, Zenon DEF ImportShape
<1> HIDE DEF view, t, k, row
<1>5. imports'[r] = m
  <2>1. [n EXCEPT !.base = view, !.out = Failed(@, n.at), !.stages = <<>>] = m2
    BY <1>3 DEF ImportShape
  <2>2. [n EXCEPT !.base = view, !.stages = Tail(@),
                  !.out = Found(t, row, CompanyOf(r, n.at), view, @)] = m3
    BY <1>3 DEF ImportShape
  <2>3. imports' = [imports EXCEPT ![r] = m] BY <1>2, <2>1, <2>2, Zenon
  <2> QED BY <2>3, Zenon DEF ImportsShape
<1> HIDE DEF out1, out2
<1>6. m.out \in {n.out, out1, out2}
  <2>1. m1.out = n.out BY <1>3 DEF ImportShape
  <2>2. m2.out = out1 BY <1>3 DEF ImportShape
  <2>3. m3.out = out2 BY <1>3 DEF ImportShape
  <2> HIDE DEF m1, m2, m3
  <2> QED BY <2>1, <2>2, <2>3, Zenon
<1> HIDE DEF m
<1>7. \A c, d : Tells(n.out, c, d) => Tells(m.out, c, d)
  <2> SUFFICES ASSUME NEW c, NEW d, Tells(n.out, c, d) PROVE Tells(m.out, c, d)
    OBVIOUS
  <2>1. Tells(out1, c, d) BY FailedTells, Zenon DEF out1
  <2>2. Tells(out2, c, d) BY <1>4, FoundTells, Zenon DEF out2
  <2> QED BY <1>6, <2>1, <2>2, Zenon
<1>8. req[r].pc # "idle" /\ req'[r].pc # "idle" BY <1>1
<1> QED BY <1>1, <1>5, <1>7, <1>8, QuietTold, Zenon DEF Others

\* What is read of a row, in the row-by-row run.
LEMMA RowIsTyped ==
  ASSUME ImportsShape, AllSane, NEW r \in Requests, Slow(r), imports[r].stages # <<>>
  PROVE  AtRow(r) \in FileRows
<1> DEFINE n == imports[r]
<1>1. req[r].pc = "slow" BY Zenon DEF Slow
<1>2. n.at \in Nat /\ Len(n.rows) \in Nat BY Zenon DEF ImportsShape, ImportShape
<1>3. Track(n, "slow", req[r].body.last) BY <1>1, Importing
<1>4. n.rows \in Seq(FileRows) /\ n.at # 0 /\ n.at <= Len(n.rows) BY <1>2, <1>3 DEF Track
<1> QED BY <1>2, <1>4, RowsAt DEF AtRow

\* The step inserts learners and rows for the request, and its import counts as many.
LEMMA AddsTold ==
  ASSUME CountInv, NEW r \in Requests, Others(r), DOMAIN inserted' = Requests,
         \A q \in Requests : q # r => inserted'[q] = inserted[q],
         DOMAIN inserted'[r] = {"students", "taken"},
         req[r].pc # "idle", req'[r].pc # "idle", req'[r].op = req[r].op,
         Tells(imports[r].out, inserted[r].students, inserted[r].taken)
           => Tells(imports'[r].out, inserted'[r].students, inserted'[r].taken)
  PROVE  CountInv'
<1>1. Told(req[r], imports[r], inserted[r]) BY Zenon DEF CountInv
<1>2. Told(req'[r], imports'[r], inserted'[r]) BY <1>1, Zenon DEF Told
<1> QED BY <1>2, OthersTold, Zenon DEF Others

LEMMA CreateTold ==
  ASSUME CountInv, ImportsShape, AllSane, NEW r \in Requests, SlowCreate(r), Others(r)
  PROVE  CountInv'
<1> DEFINE n == imports[r]
           t == Head(n.stages)
           row == AtRow(r)
           k == KeyIn(t, row)
           company == CompanyOf(r, n.at)
           entry == EntryFor(t, row, company, n.base)
           out1 == Created(t, row, company, n.out)
           out2 == Failed(n.out, n.at)
           m1 == [n EXCEPT !.missing = FALSE, !.stages = Tail(@),
                           !.base[t] = Put(@, k, entry), !.out = Created(t, row, company, @)]
           m2 == [n EXCEPT !.missing = FALSE, !.stages = <<>>, !.out = Failed(@, n.at)]
           learners == inserted[r].students
           rows == inserted[r].taken
<1>1. req[r].pc = "slow" /\ n.stages # <<>> /\ req' = req /\ Slow(r)
  BY Zenon DEF SlowCreate, Slow
<1>2. /\ Accepted(t, k, entry) =>
           /\ imports' = [imports EXCEPT ![r] = m1]
           /\ inserted' = [inserted EXCEPT
                 ![r].students = IF t = "students" THEN @ + 1 ELSE @,
                 ![r].taken = IF t = "taken" THEN @ + 1 ELSE @]
      /\ ~Accepted(t, k, entry) =>
           imports' = [imports EXCEPT ![r] = m2] /\ inserted' = inserted
  BY Zenon DEF SlowCreate
<1>3. ImportShape(n) BY Zenon DEF ImportsShape
<1>4. t \in Copied BY <1>1, <1>3, NextStage, Zenon DEF ImportShape
<1>5. row \in FileRows BY <1>1, RowIsTyped, Zenon
<1>6. DOMAIN inserted = Requests /\ DOMAIN inserted[r] = {"students", "taken"}
  BY Zenon DEF CountInv, Told
<1>7. req[r].pc # "idle" /\ req'[r].pc # "idle" BY <1>1
<1>8. m1.out = out1
  <2> HIDE DEF t, k, row, company, entry
  <2> QED BY <1>3 DEF ImportShape
<1>9. m2.out = out2 BY <1>3 DEF ImportShape
<1> HIDE DEF t, k, row, company, entry, m1, m2
<1>10. CASE Accepted(t, k, entry)
  <2>1. imports'[r].out = out1 BY <1>2, <1>8, <1>10, Zenon DEF ImportsShape
  <2>2. /\ DOMAIN inserted' = Requests /\ DOMAIN inserted'[r] = {"students", "taken"}
        /\ \A q \in Requests : q # r => inserted'[q] = inserted[q]
    BY <1>2, <1>6, <1>10
  <2>3. inserted'[r].students = IF t = "students" THEN learners + 1 ELSE learners
    BY <1>2, <1>6, <1>10
  <2>4. inserted'[r].taken = IF t = "taken" THEN rows + 1 ELSE rows
    BY <1>2, <1>6, <1>10
  <2>5. ASSUME Tells(n.out, learners, rows)
        PROVE  Tells(imports'[r].out, inserted'[r].students, inserted'[r].taken)
    <3> HIDE DEF learners, rows
    <3>1. learners \in Nat /\ rows \in Nat BY <2>5, Zenon DEF Tells
    <3>2. Tells(out1, learners + LearnersIn(t), rows + RowsIn(t))
      BY <1>4, <1>5, <2>5, CreatedTells, Zenon
    <3>3. inserted'[r].students = learners + LearnersIn(t) BY <2>3, <3>1 DEF LearnersIn
    <3>4. inserted'[r].taken = rows + RowsIn(t) BY <2>4, <3>1 DEF RowsIn
    <3> QED BY <2>1, <3>2, <3>3, <3>4, Zenon
  <2> QED BY <1>1, <1>7, <2>2, <2>5, AddsTold, Zenon
<1>11. CASE ~Accepted(t, k, entry)
  <2>1. imports'[r].out = out2 /\ inserted' = inserted
    BY <1>2, <1>9, <1>11, Zenon DEF ImportsShape
  <2>2. \A c, d : Tells(n.out, c, d) => Tells(imports'[r].out, c, d)
    BY <2>1, FailedTells, Zenon
  <2> QED BY <1>1, <1>7, <2>1, <2>2, QuietTold, Zenon DEF Others
<1> QED BY <1>10, <1>11

LEMMA ChunkTold ==
  ASSUME CountInv, ReqShape, ImportsShape, AllSane, NEW r \in Requests,
         ChunkSize \in Nat \ {0}, ImportChunk(r), Others(r)
  PROVE  CountInv'
<1> DEFINE n == imports[r]
           x == Simulated(r)
           last == LastOf(r)
           learners == inserted[r].students
           rows == inserted[r].taken
<1>1. req[r].pc = "chunk" /\ n.at <= Len(n.rows) BY Zenon DEF ImportChunk
<1>2. Track(n, "chunk", req[r].body.last) BY <1>1, Importing
<1>3. n.rows \in Seq(FileRows) /\ n.at # 0 /\ DOMAIN n.base = Copied BY <1>2 DEF Track
<1>4. ImportShape(n) BY Zenon DEF ImportsShape
<1>5. DOMAIN inserted = Requests /\ DOMAIN inserted[r] = {"students", "taken"}
  BY Zenon DEF CountInv, Told
<1>6. Tells(n.out, learners, rows) => Tally(n.base, learners, rows, x)
  BY <1>1, <1>3, SimulatedTallies, Zenon
<1> HIDE DEF x, last
<1>7. CASE Flushes(r, x.view)
  <2> DEFINE s == Cardinality(New(r, x.view, "students"))
             c == Cardinality(New(r, x.view, "taken"))
  <2>1. /\ imports' = [imports EXCEPT ![r].base = CommittedCopy(r, x.view),
                                      ![r].out = x.out, ![r].at = last + 1]
        /\ inserted' = [inserted EXCEPT ![r].students = @ + s, ![r].taken = @ + c]
        /\ req' = req
    BY <1>7, Zenon DEF ImportChunk, x, last
  <2>2. New(r, x.view, "students") = Added(n.base, x.view, "students")
        /\ New(r, x.view, "taken") = Added(n.base, x.view, "taken")
    BY Zenon DEF New, Added
  <2> HIDE DEF s, c
  <2>3. imports'[r].out = x.out BY <1>4, <2>1 DEF ImportsShape, ImportShape
  <2>4. /\ DOMAIN inserted' = Requests /\ DOMAIN inserted'[r] = {"students", "taken"}
        /\ \A q \in Requests : q # r => inserted'[q] = inserted[q]
        /\ inserted'[r].students = learners + s /\ inserted'[r].taken = rows + c
    BY <1>5, <2>1
  <2>5. ASSUME Tells(n.out, learners, rows)
        PROVE  Tells(imports'[r].out, inserted'[r].students, inserted'[r].taken)
    <3>1. Tally(n.base, learners, rows, x) BY <1>6, <2>5
    <3>2. Tells(x.out, learners + s, rows + c) BY <2>2, <3>1, Zenon DEF Tally, s, c
    <3> QED BY <2>3, <2>4, <3>2, Zenon
  <2>6. req[r].pc # "idle" /\ req'[r].pc # "idle" /\ req'[r].op = req[r].op BY <1>1, <2>1
  <2> QED BY <2>4, <2>5, <2>6, AddsTold, Zenon
<1>8. CASE ~Flushes(r, x.view)
  <2>1. /\ imports' = [imports EXCEPT ![r].out = RolledBack(r), ![r].stages = StagesAt(r, n.at)]
        /\ req' = [req EXCEPT ![r].pc = "slow", ![r].body.last = last]
        /\ inserted' = inserted
    BY <1>8, Zenon DEF ImportChunk, x, last
  <2>2. imports'[r].out = RolledBack(r) BY <1>4, <2>1 DEF ImportsShape, ImportShape
  <2>3. imports'[r].out = n.out BY <2>2, Zenon DEF RolledBack
  <2>4. req'[r].pc = "slow" BY <2>1 DEF ReqShape
  <2>5. req'[r].op = req[r].op BY <2>1 DEF ReqShape
  <2>6. req[r].pc # "idle" /\ req'[r].pc # "idle" BY <1>1, <2>4
  <2> QED BY <2>1, <2>3, <2>5, <2>6, QuietTold, Zenon DEF Others
<1> QED BY <1>7, <1>8

\* A request begins: an import has counted nothing yet.
LEMMA BeginsTold ==
  ASSUME CountInv, ReqShape, NEW r \in Requests, NEW op, NEW scope, NEW body, NEW pc,
         Begin(r, op, scope, body, pc), inserted' = inserted, pc # "idle",
         \A q \in Requests : q # r => imports'[q] = imports[q],
         op = "ImportStudents" =>
           Tells(imports'[r].out, inserted[r].students, inserted[r].taken)
  PROVE  CountInv'
<1>1. req' = [req EXCEPT ![r] = Asked(op, scope, body, pc)] BY Zenon DEF Begin
<1>2. req'[r] = Asked(op, scope, body, pc) /\ \A q \in Requests : q # r => req'[q] = req[q]
  BY <1>1, Zenon DEF ReqShape
<1>3. Asked(op, scope, body, pc).pc = pc BY DEF Asked
<1>4. Asked(op, scope, body, pc).op = op BY DEF Asked
<1>5. DOMAIN inserted = Requests /\ DOMAIN inserted[r] = {"students", "taken"}
  BY Zenon DEF CountInv, Told
<1>6. Told(req'[r], imports'[r], inserted'[r]) BY <1>2, <1>3, <1>4, <1>5, Zenon DEF Told
<1> QED BY <1>2, <1>5, <1>6, OthersTold, Zenon

\* The other requests that begin, and what they are.
OtherOps == SuperOps \cup {"PostStudent", "PutStudent", "DeleteStudent", "ImportRegions"}

LEMMA OthersBeginTold ==
  ASSUME CountInv, ReqShape, NEW r \in Requests, Reads(r), ~ImportStudents(r)
  PROVE  CountInv'
<1>1. /\ imports' = imports /\ inserted' = inserted
      /\ \E op \in OtherOps, pc \in {"write", "regions"} :
           \E scope, body : Begin(r, op, scope, body, pc)
  <2>1. CASE ImportRegions(r)
    <3>1. "ImportRegions" \in OtherOps BY DEF OtherOps
    <3> QED BY <2>1, <3>1, Zenon DEF ImportRegions
  <2>2. CASE ~ImportRegions(r)
    <3>1. \E op \in {"PostStudent", "PutStudent", "DeleteStudent", "PostCompany", "PutCompany",
                     "DeleteCompany", "PostRegion", "PutRegion", "DeleteRegion",
                     "DeleteTraining"} :
            \E scope, body : Opened(r, op, scope, body)
      BY <2>2, Zenon DEF Reads, PostStudent, PutStudent, DeleteStudent, PostCompany, PutCompany,
         DeleteCompany, PostRegion, PutRegion, DeleteRegion, DeleteTraining
    <3>2. \E op \in OtherOps : \E scope, body : Opened(r, op, scope, body)
      BY <3>1, Zenon DEF OtherOps, SuperOps
    <3> QED BY <3>2, Zenon DEF Opened
  <2> QED BY <2>1, <2>2
<1>a. PICK op \in OtherOps, pc \in {"write", "regions"} :
        \E scope, body : Begin(r, op, scope, body, pc)
  BY <1>1, Zenon
<1>2. op # "ImportStudents" /\ pc # "idle" BY DEF OtherOps, SuperOps
<1> QED BY <1>1, <1>a, <1>2, BeginsTold, Zenon

LEMMA ImportBeginsTold ==
  ASSUME CountInv, ReqShape, ImportsShape, NEW r \in Requests, ImportStudents(r),
         NEW scope, NEW f, NEW rows, NEW d, Drawn(r, scope, f, rows, d)
  PROVE  CountInv'
<1> DEFINE pc == IF d.introduced = <<>> THEN "read" ELSE "companies"
           body == [file |-> f, last |-> 0]
           known == [n \in CompanyNames |->
                       CHOOSE id \in DOMAIN db.companies : db.companies[id] = n]
           m == ImportOf(rows, d.draft, d.introduced, known)
           learners == inserted[r].students
           taken == inserted[r].taken
<1>1. /\ Begin(r, "ImportStudents", scope, body, pc)
      /\ imports' = [imports EXCEPT ![r] = m] /\ inserted' = inserted
  BY Zenon DEF Drawn
<1>2. pc # "idle" OBVIOUS
<1>3. req[r].pc = "idle" BY Zenon DEF ImportStudents, Ready
<1> HIDE DEF pc, body, known
<1>4. m.out = NoCounts BY DEF ImportOf
<1> HIDE DEF m
<1>5. imports'[r] = m /\ \A q \in Requests : q # r => imports'[q] = imports[q]
  BY <1>1, Zenon DEF ImportsShape
<1>6. learners = 0 /\ taken = 0 BY <1>3, Zenon DEF CountInv, Told
<1>7. Tells(NoCounts, 0, 0)
  <2>1. DOMAIN NoCounts = CountFields BY DEF NoCounts, CountFields
  <2>2. NoCounts.students = 0 BY DEF NoCounts
  <2>3. NoCounts.taken = 0 BY DEF NoCounts
  <2>4. NoCounts.pairs = <<>> BY DEF NoCounts
  <2> DEFINE S == Emails \X Titles
  <2>5. <<>> \in Seq(S) /\ Len(<<>>) = 0 OBVIOUS
  <2>6. 0 \in Nat OBVIOUS
  <2> QED BY <2>1, <2>2, <2>3, <2>4, <2>5, <2>6, Zenon DEF Tells
<1>8. Tells(imports'[r].out, learners, taken) BY <1>4, <1>5, <1>6, <1>7, Zenon
<1> QED BY <1>1, <1>2, <1>5, <1>8, BeginsTold, Zenon

LEMMA StepsTold ==
  ASSUME IndInv, CountInv, Parameters, Next \/ UNCHANGED vars
  PROVE  CountInv'
<1>1. Assumed BY AssumedHere, Zenon DEF IndInv
<1>2. ReqShape /\ ImportsShape /\ DbOK /\ Alone /\ AllSane /\ Sound(db)
  BY SoundIsOK, Zenon DEF IndInv
<1>3. ChunkSize \in Nat \ {0} BY <1>1, Zenon DEF Assumed
<1>4. ASSUME NEW r \in Requests, Reads(r) PROVE CountInv'
  <2>1. CASE ImportStudents(r)
    <3>1. \E scope, f, rows, d : Drawn(r, scope, f, rows, d)
      BY <1>1, <1>2, <2>1, RowsRead, Zenon DEF Assumed
    <3> QED BY <1>2, <2>1, <3>1, ImportBeginsTold, Zenon
  <2>2. CASE ~ImportStudents(r) BY <1>2, <1>4, <2>2, OthersBeginTold, Zenon
  <2> QED BY <2>1, <2>2
<1>5. ASSUME NEW r \in Requests, Writes(r) \/ WriteFails(r) \/ Imports(r) PROVE CountInv'
  <2>1. CASE Writes(r) \/ WriteFails(r) \/ ImportEnds(r) BY <1>2, <2>1, EndsTold, Zenon
  <2>2. CASE ImportRegionsRow(r) BY <1>2, <2>2, RegionRowTold, Zenon
  <2>3. CASE ImportCompanies(r) BY <1>2, <2>3, CompaniesTold, Zenon
  <2>4. CASE ImportReads(r) BY <1>2, <2>4, ReadsTold, Zenon
  <2>5. CASE ImportChunk(r)
    <3>1. Others(r) BY <1>2, <1>3, <2>5, ChunkStep, Zenon
    <3> QED BY <1>2, <1>3, <2>5, <3>1, ChunkTold, Zenon
  <2>6. CASE SlowLookup(r)
    <3>1. Others(r) BY <1>2, <2>6, LookupKeeps, Zenon
    <3> QED BY <1>2, <2>6, <3>1, LookupTold, Zenon
  <2>7. CASE SlowCreate(r)
    <3>1. Others(r) BY <1>2, <2>7, CreateKeeps, Zenon
    <3> QED BY <1>2, <2>7, <3>1, CreateTold, Zenon
  <2>8. CASE SlowNextRow(r)
    <3>1. Others(r) /\ NextRow(r) BY <1>2, <2>8, NextRowKeeps, Zenon
    <3> QED BY <1>2, <2>8, <3>1, NextRowTold, Zenon
  <2> QED BY <1>5, <2>1, <2>2, <2>3, <2>4, <2>5, <2>6, <2>7, <2>8, Zenon DEF Imports
<1>6. CASE Next
  <2>1. PICK r \in Requests : Reads(r) \/ Writes(r) \/ WriteFails(r) \/ Imports(r)
    BY <1>6, Zenon DEF Next
  <2> QED BY <1>4, <1>5, <2>1, Zenon
<1>7. CASE UNCHANGED vars
  <2>1. req' = req /\ imports' = imports /\ inserted' = inserted BY <1>7, Zenon DEF vars
  <2> QED BY <2>1, Zenon DEF CountInv
<1> QED BY <1>6, <1>7

LEMMA StartsTold ==
  ASSUME Init
  PROVE  CountInv
<1>1. req = [r \in Requests |-> Idle]
      /\ inserted = [r \in Requests |-> [students |-> 0, taken |-> 0]]
  BY Zenon DEF Init
<1>2. Idle.pc = "idle" BY DEF Idle, Asked
<1>3. /\ DOMAIN [students |-> 0, taken |-> 0] = {"students", "taken"}
      /\ [students |-> 0, taken |-> 0].students = 0 /\ [students |-> 0, taken |-> 0].taken = 0
  OBVIOUS
<1>4. DOMAIN inserted = Requests BY <1>1
<1>5. \A r \in Requests : /\ req[r].pc = "idle" /\ DOMAIN inserted[r] = {"students", "taken"}
                          /\ inserted[r].students = 0 /\ inserted[r].taken = 0
  BY <1>1, <1>2, <1>3, Zenon
<1> QED BY <1>4, <1>5, Zenon DEF CountInv, Told

\* Whatever other requests and imports do meanwhile, and whichever of its chunks are rolled
\* back and run again row by row: an import that has ended says it created as many learners,
\* and as many completions, as it inserted, and hands over a pair for each completion.
\* (processRow, flushChunk and the counts of importStudents.)
THEOREM CountsHonest ==
  ASSUME Parameters PROVE Spec => []CountsAreHonest
<1>1. Init => CountInv BY StartsTold, Zenon
<1>2. IndInv /\ CountInv /\ [Next]_vars => CountInv' BY StepsTold, Zenon
<1>3. CountInv => CountsAreHonest
  <2> SUFFICES ASSUME CountInv, NEW r \in Requests, req[r].pc = "done",
                      req[r].op = "ImportStudents"
               PROVE  /\ imports[r].out.students = inserted[r].students
                      /\ imports[r].out.taken = inserted[r].taken
                      /\ Len(imports[r].out.pairs) = inserted[r].taken
    BY Zenon DEF CountsAreHonest
  <2>1. Told(req[r], imports[r], inserted[r]) /\ req[r].pc # "idle" BY Zenon DEF CountInv
  <2> QED BY <2>1, Zenon DEF Told, Tells
<1> QED BY <1>1, <1>2, <1>3, Inductive, PTL DEF Spec

-----------------------------------------------------------------------------
\* What an import writes.

IsTable(f) == f = [k \in DOMAIN f |-> f[k]]

\* Nobody else runs while the last request is the witness's, nor once it has ended.
Solo == \A r, q \in Requests : witness.of = r /\ Busy(q) => q = r

CompaniesFor(m, scope) == [i \in DOMAIN m.rows |-> CompanyFor(m, scope, i)]

Before(w, d) == [w EXCEPT !.companies = d.companies]

\* The database is what the rows before this one come to, and the rows that failed are
\* those they refuse.
Came(m, scope, w, d) ==
  LET x == RowByRow(m.rows, CompaniesFor(m, scope), scope, Before(w, d))[m.at - 1]
  IN  /\ d = x.db /\ x.rows \subseteq 1..(m.at - 1)
      /\ m.out.failed = (1..(m.at - 1)) \ x.rows

\* An import that has read no row.
AtFirst(m) == m.at = 1 /\ m.out.failed = {}

\* The companies of its rows are known, or to be introduced.
DraftOK(m, d) ==
  /\ \A i \in DOMAIN m.rows :
       \/ m.draft[i] = None
       \/ m.draft[i] \in DOMAIN m.known
       \/ \E j \in DOMAIN m.introduced : m.draft[i] = m.introduced[j]
  /\ \A n \in DOMAIN m.known : m.known[n] \in DOMAIN d.companies

\* The companies of its rows exist.
Placeable(m, scope, d) ==
  \A i \in DOMAIN m.rows : CompanyFor(m, scope, i) \in {None} \cup DOMAIN d.companies

\* The file is an export of w.
Mirror(m, scope, w) ==
  /\ m.introduced = <<>>
  /\ \A i \in DOMAIN m.rows : \E k \in DOMAIN w.taken :
       /\ m.rows[i].email = Lower(k[1]) /\ m.rows[i].title = k[2] /\ m.rows[i].date = k[3]
       /\ m.rows[i].country = w.students[k[1]].country
       /\ w.students[k[1]].company \in scope

\* An import that nothing overlaps, from a database w.
Exactly(q, m, w, d) ==
  /\ q.pc \in {"companies", "read", "chunk", "done"}
  /\ Sound(w) /\ Shaped(w)
  /\ q.body.file = Export => Mirror(m, q.scope, w) /\ d.companies = w.companies
  /\ q.pc = "companies" => d = w /\ m.introduced # <<>> /\ AtFirst(m) /\ DraftOK(m, d)
  /\ q.pc \in {"read", "chunk"} =>
       Placeable(m, q.scope, d) /\ \A t \in DOMAIN m.base : m.base[t] = d[t]
  /\ q.pc = "read" => d = Before(w, d) /\ AtFirst(m)
  /\ q.pc = "chunk" => m.at \in 1..(Len(m.rows) + 1) /\ Came(m, q.scope, w, d)
  /\ q.pc = "done" /\ q.outcome = "ok" =>
       m.rows \in Seq(FileRows) /\ m.at = Len(m.rows) + 1 /\ Came(m, q.scope, w, d)
  /\ q.pc = "done" /\ q.outcome # "ok" => d = w

ExactInv ==
  /\ Solo /\ Shaped(db)
  /\ \A r \in Requests : witness.of = r /\ req[r].op = "ImportStudents" =>
       Exactly(req[r], imports[r], witness.db, db)

-----------------------------------------------------------------------------

LEMMA ShapedParts ==
  ASSUME NEW d
  PROVE  Shaped(d) <=>
           /\ IsTable(d) /\ \A t \in DOMAIN d : IsTable(d[t])
           /\ DOMAIN d.taken \subseteq Triples
  BY Zenon DEF Shaped, IsTable, Triples

LEMMA PutIsTable ==
  ASSUME NEW f, NEW k, NEW v
  PROVE  IsTable(Put(f, k, v))
  BY DEF Put, IsTable

LEMMA WithoutIsTable ==
  ASSUME NEW f, NEW gone
  PROVE  IsTable(Without(f, gone))
  BY DEF Without, IsTable

LEMMA SameTable ==
  ASSUME NEW f, NEW g, IsTable(f), IsTable(g), DOMAIN f = DOMAIN g,
         \A k \in DOMAIN f : f[k] = g[k]
  PROVE  f = g
<1>1. [k \in DOMAIN f |-> f[k]] = [k \in DOMAIN g |-> g[k]] BY Zenon
<1>2. f = [k \in DOMAIN f |-> f[k]] /\ g = [k \in DOMAIN g |-> g[k]] BY Zenon DEF IsTable
<1> QED BY <1>1, <1>2, Zenon

\* One table of a database is written.
LEMMA TableShaped ==
  ASSUME NEW d, Shaped(d), DOMAIN d = Fields, NEW t \in Fields, NEW g, IsTable(g),
         t = "taken" => DOMAIN g \subseteq Triples
  PROVE  Shaped([d EXCEPT ![t] = g])
<1> DEFINE e == [d EXCEPT ![t] = g]
<1>1. /\ DOMAIN e = Fields /\ e[t] = g
      /\ \A u \in Fields : u # t => e[u] = d[u]
  BY Zenon
<1>2. IsTable(e) BY DEF IsTable
<1> HIDE DEF e
<1>3. \A u \in DOMAIN e : IsTable(e[u]) BY <1>1, ShapedParts, Zenon
<1>4. DOMAIN e.taken \subseteq Triples
  <2>1. CASE t = "taken" BY <1>1, <2>1, Zenon
  <2>2. CASE t # "taken"
    <3>1. "taken" \in Fields BY DEF Fields, Copied
    <3>2. e.taken = d.taken BY <1>1, <2>2, <3>1, Zenon
    <3> QED BY <3>2, ShapedParts, Zenon
  <2> QED BY <2>1, <2>2
<1>5. Shaped(e) BY <1>2, <1>3, <1>4, ShapedParts, Zenon
<1> QED BY <1>5, Zenon DEF e

LEMMA SameDatabase ==
  ASSUME NEW d, NEW e, IsTable(d), IsTable(e), DOMAIN d = Fields, DOMAIN e = Fields,
         \A t \in Fields : d[t] = e[t]
  PROVE  d = e
  BY SameTable, Zenon

\* Two tables of a database are written.
LEMMA TablesShaped ==
  ASSUME NEW d, Shaped(d), DOMAIN d = Fields, NEW t \in Fields, NEW g, IsTable(g),
         t = "taken" => DOMAIN g \subseteq Triples, NEW u \in Fields, NEW h, IsTable(h),
         u = "taken" => DOMAIN h \subseteq Triples
  PROVE  Shaped([d EXCEPT ![t] = g, ![u] = h])
<1> DEFINE e == [d EXCEPT ![t] = g]
<1>1. Shaped(e) BY TableShaped, Zenon
<1>2. DOMAIN e = Fields BY Zenon
<1> HIDE DEF e
<1>3. Shaped([e EXCEPT ![u] = h]) BY <1>1, <1>2, TableShaped, Zenon
<1> QED BY <1>3, Zenon DEF e

LEMMA FieldsOfTables ==
  /\ "companies" \in Fields /\ "regions" \in Fields /\ "students" \in Fields
  /\ "trainings" \in Fields /\ "taken" \in Fields
  BY DEF Fields, Copied

\* A handler's write leaves tables.
LEMMA WritesShaped ==
  ASSUME Shaped(db), DOMAIN db = Fields, NEW r \in Requests, Writes(r)
  PROVE  Shaped(db')
<1> DEFINE b == req[r].body
<1>a. \A gone : DOMAIN Without(db.taken, gone) \subseteq Triples
  BY ShapedParts DEF Without
<1>1. CASE PostStudentWrite(r)
  <2>1. db' = [db EXCEPT !.students = Put(db.students, b.email, b.row)]
    BY <1>1, Zenon DEF PostStudentWrite, Written
  <2>2. "students" # "taken" OBVIOUS
  <2> QED BY <2>1, <2>2, FieldsOfTables, PutIsTable, TableShaped, Zenon
<1>2. CASE PutStudentWrite(r)
  <2> DEFINE row == [f \in DOMAIN b.row |->
                       IF f \in b.sets THEN b.row[f] ELSE db.students[b.email][f]]
             g == [db.students EXCEPT ![b.email] = row]
  <2>1. db' = [db EXCEPT !.students = g]
    BY <1>2, Zenon DEF PutStudentWrite, Written
  <2>2. IsTable(g)
    <3> HIDE DEF row
    <3> QED BY DEF IsTable
  <2>3. "students" # "taken" OBVIOUS
  <2> HIDE DEF g
  <2> QED BY <2>1, <2>2, <2>3, FieldsOfTables, TableShaped, Zenon
<1>3. CASE RenameStudentWrite(r)
  <2>1. db' = [db EXCEPT !.students = Put(Without(db.students, {b.email}), b.new, b.row)]
    BY <1>3, Zenon DEF RenameStudentWrite, Written
  <2>2. "students" # "taken" OBVIOUS
  <2> QED BY <2>1, <2>2, FieldsOfTables, PutIsTable, TableShaped, Zenon
<1>4. CASE DeleteStudentWrite(r)
  <2> DEFINE g == Without(db.students, {b.email})
             h == Without(db.taken, {k \in DOMAIN db.taken : k[1] = b.email})
  <2>1. db' = [db EXCEPT !.students = g, !.taken = h]
    BY <1>4, Zenon DEF DeleteStudentWrite, Written, WithoutLearner
  <2>2. IsTable(g) /\ IsTable(h) BY WithoutIsTable, Zenon
  <2>3. "students" # "taken" OBVIOUS
  <2>4. DOMAIN h \subseteq Triples BY <1>a, Zenon
  <2> HIDE DEF g, h
  <2> QED BY <2>1, <2>2, <2>3, <2>4, FieldsOfTables, TablesShaped, Zenon
<1>5. CASE PostCompanyWrite(r)
  <2>a. PICK id \in FreeIds : Written(r, [db EXCEPT !.companies = Put(@, id, b.name)])
    BY <1>5, Zenon DEF PostCompanyWrite
  <2>1. db' = [db EXCEPT !.companies = Put(db.companies, id, b.name)]
    BY <2>a, Zenon DEF Written
  <2>2. "companies" # "taken" OBVIOUS
  <2> QED BY <2>1, <2>2, FieldsOfTables, PutIsTable, TableShaped, Zenon
<1>6. CASE PutCompanyWrite(r)
  <2> DEFINE g == [db.companies EXCEPT ![b.id] = b.name]
  <2>1. db' = [db EXCEPT !.companies = g]
    BY <1>6, Zenon DEF PutCompanyWrite, Written
  <2>2. IsTable(g) BY DEF IsTable
  <2>3. "companies" # "taken" OBVIOUS
  <2> HIDE DEF g
  <2> QED BY <2>1, <2>2, <2>3, FieldsOfTables, TableShaped, Zenon
<1>7. CASE DeleteCompanyWrite(r)
  <2>1. db' = [db EXCEPT !.companies = Without(db.companies, {b.id})]
    BY <1>7, Zenon DEF DeleteCompanyWrite, Written
  <2>2. "companies" # "taken" OBVIOUS
  <2> QED BY <2>1, <2>2, FieldsOfTables, WithoutIsTable, TableShaped, Zenon
<1>8. CASE PostRegionWrite(r)
  <2>1. db' = [db EXCEPT !.regions = Put(db.regions, b.country, b.theatre)]
    BY <1>8, Zenon DEF PostRegionWrite, Written
  <2>2. "regions" # "taken" OBVIOUS
  <2> QED BY <2>1, <2>2, FieldsOfTables, PutIsTable, TableShaped, Zenon
<1>9. CASE PutRegionWrite(r)
  <2> DEFINE to == IF b.new = Keep THEN b.country ELSE b.new
             th == IF b.theatre = Keep THEN db.regions[b.country] ELSE b.theatre
             g == Put(Without(db.regions, {b.country}), to, th)
             h == [e \in DOMAIN db.students |->
                     IF db.students[e].country = b.country
                       THEN [db.students[e] EXCEPT !.country = to] ELSE db.students[e]]
  <2>1. db' = [db EXCEPT !.regions = g, !.students = h]
    BY <1>9, Zenon DEF PutRegionWrite, Written
  <2>2. IsTable(g) BY PutIsTable, Zenon
  <2>3. IsTable(h)
    <3> DEFINE v(e) == IF db.students[e].country = b.country
                       THEN [db.students[e] EXCEPT !.country = to] ELSE db.students[e]
    <3>1. h = [e \in DOMAIN db.students |-> v(e)] OBVIOUS
    <3> HIDE DEF v, h
    <3> QED BY <3>1 DEF IsTable
  <2>4. "regions" # "taken" /\ "students" # "taken" OBVIOUS
  <2> HIDE DEF g, h
  <2> QED BY <2>1, <2>2, <2>3, <2>4, FieldsOfTables, TablesShaped, Zenon
<1>10. CASE DeleteRegionWrite(r)
  <2>1. db' = [db EXCEPT !.regions = Without(db.regions, {b.country})]
    BY <1>10, Zenon DEF DeleteRegionWrite, Written
  <2>2. "regions" # "taken" OBVIOUS
  <2> QED BY <2>1, <2>2, FieldsOfTables, WithoutIsTable, TableShaped, Zenon
<1>11. CASE DeleteTrainingWrite(r)
  <2> DEFINE g == Without(db.trainings, {b.title})
             h == Without(db.taken, {k \in DOMAIN db.taken : k[2] = b.title})
  <2>1. db' = [db EXCEPT !.trainings = g, !.taken = h]
    BY <1>11, Zenon DEF DeleteTrainingWrite, Written, WithoutTitle
  <2>2. IsTable(g) /\ IsTable(h) BY WithoutIsTable, Zenon
  <2>3. "trainings" # "taken" OBVIOUS
  <2>4. DOMAIN h \subseteq Triples BY <1>a, Zenon
  <2> HIDE DEF g, h
  <2> QED BY <2>1, <2>2, <2>3, <2>4, FieldsOfTables, TablesShaped, Zenon
<1> QED BY <1>1, <1>2, <1>3, <1>4, <1>5, <1>6, <1>7, <1>8, <1>9, <1>10, <1>11, Zenon DEF Writes

\* So does a row of countries.
LEMMA RegionRowShaped ==
  ASSUME Shaped(db), DOMAIN db = Fields, NEW r \in Requests, ImportRegionsRow(r)
  PROVE  Shaped(db')
<1> DEFINE row == Head(req[r].body.rows)
           known == row.country \in DOMAIN db.regions
           theatre == IF row.theatre # Keep THEN row.theatre
                      ELSE IF known THEN db.regions[row.country] ELSE None
<1>1. \/ db' = db
      \/ db' = [db EXCEPT !.regions = Put(db.regions, row.country, theatre)]
  BY Zenon DEF ImportRegionsRow
<1>2. "regions" # "taken" OBVIOUS
<1> HIDE DEF row, theatre
<1>3. CASE db' = [db EXCEPT !.regions = Put(db.regions, row.country, theatre)]
  BY <1>2, <1>3, FieldsOfTables, PutIsTable, TableShaped, Zenon
<1> QED BY <1>1, <1>3, Zenon

LEMMA CompaniesShaped ==
  ASSUME Shaped(db), DOMAIN db = Fields, NEW r \in Requests, ImportCompanies(r)
  PROVE  Shaped(db')
<1> DEFINE new == imports[r].introduced
<1>1. CASE \E i \in DOMAIN new : NameTaken(new[i], None)
  <2>1. db' = db BY <1>1, Zenon DEF ImportCompanies
  <2> QED BY <2>1, Zenon
<1>2. CASE ~\E i \in DOMAIN new : NameTaken(new[i], None)
  <2>a. PICK f \in [DOMAIN new -> FreeIds] :
          db' = [db EXCEPT !.companies =
                   [id \in DOMAIN @ \cup {f[i] : i \in DOMAIN new} |->
                      IF id \in DOMAIN @ THEN @[id] ELSE new[CHOOSE i \in DOMAIN new : f[i] = id]]]
    BY <1>2, Zenon DEF ImportCompanies
  <2> DEFINE g == Joined(db.companies, new, f)
  <2>1. db' = [db EXCEPT !.companies = g] BY <2>a, Zenon DEF Joined
  <2>2. IsTable(g)
    <3> DEFINE v(id) == IF id \in DOMAIN db.companies THEN db.companies[id]
                        ELSE new[CHOOSE i \in DOMAIN new : f[i] = id]
               D == DOMAIN db.companies \cup {f[i] : i \in DOMAIN new}
    <3>1. g = [id \in D |-> v(id)] BY Zenon DEF Joined
    <3> HIDE DEF v, g, D
    <3> QED BY <3>1 DEF IsTable
  <2>3. "companies" # "taken" OBVIOUS
  <2> HIDE DEF g
  <2> QED BY <2>1, <2>2, <2>3, FieldsOfTables, TableShaped, Zenon
<1> QED BY <1>1, <1>2

LEMMA MergedIsTable ==
  ASSUME NEW r, NEW view, NEW t
  PROVE  IsTable(Merged(r, view, t))
<1> DEFINE v(k) == IF k \notin New(r, view, t) THEN db[t][k]
                   ELSE IF t = "taken" /\ k \in DOMAIN db[t] THEN db[t][k] + 1
                   ELSE view[t][k]
           D == DOMAIN db[t] \cup New(r, view, t)
<1>1. Merged(r, view, t) = [k \in D |-> v(k)] BY Zenon DEF Merged
<1> HIDE DEF v, D
<1> QED BY <1>1 DEF IsTable

\* A database of its tables.
Made(d, c, v, s, w, u) ==
  /\ DOMAIN d = Fields /\ IsTable(d) /\ d.companies = c /\ d.regions = v /\ d.students = s
  /\ d.trainings = w /\ d.taken = u

LEMMA MadeIs ==
  ASSUME NEW c, NEW v, NEW s, NEW w, NEW u
  PROVE  Made([companies |-> c, regions |-> v, students |-> s, trainings |-> w, taken |-> u],
              c, v, s, w, u)
<1> DEFINE d == [companies |-> c, regions |-> v, students |-> s, trainings |-> w, taken |-> u]
<1>1. DOMAIN d = Fields BY DEF Fields, Copied
<1>2. d.companies = c /\ d.regions = v /\ d.students = s /\ d.trainings = w /\ d.taken = u
  OBVIOUS
<1>3. IsTable(d) BY DEF IsTable
<1> QED BY <1>1, <1>2, <1>3 DEF Made

LEMMA MadeShaped ==
  ASSUME NEW d, NEW c, NEW v, NEW s, NEW w, NEW u, Made(d, c, v, s, w, u),
         IsTable(c), IsTable(v), IsTable(s), IsTable(w), IsTable(u), DOMAIN u \subseteq Triples
  PROVE  Shaped(d)
<1>1. \A t \in Fields : t \in {"companies", "regions", "students", "trainings", "taken"}
  BY DEF Fields, Copied
<1>2. \A t \in Fields : IsTable(d[t]) BY <1>1 DEF Made
<1> QED BY <1>2, ShapedParts, Zenon DEF Made

LEMMA FlushShaped ==
  ASSUME Shaped(db), DOMAIN db = Fields, NEW r \in Requests, NEW view,
         Fresh(imports[r].base, view)
  PROVE  Shaped(Flushed(r, view))
<1> DEFINE v == Merged(r, view, "regions")
           s == Merged(r, view, "students")
           w == Merged(r, view, "trainings")
           u == Merged(r, view, "taken")
           d == Flushed(r, view)
<1>1. Made(d, db.companies, v, s, w, u) BY MadeIs, Zenon DEF Flushed
<1>2. DOMAIN u = DOMAIN db.taken \cup New(r, view, "taken") BY DEF Merged
<1>3. IsTable(v) /\ IsTable(s) /\ IsTable(w) /\ IsTable(u) BY MergedIsTable, Zenon
<1> HIDE DEF v, s, w, u, d
<1>4. \A k \in New(r, view, "taken") : k \in Triples
  <2>1. "taken" \in Copied BY DEF Copied
  <2>2. \A k \in New(r, view, "taken") : Typed("taken", k, view.taken[k])
    BY <2>1, Zenon DEF Fresh, New
  <2> QED BY <2>2, Zenon DEF Typed
<1>5. IsTable(db.companies) /\ DOMAIN db.taken \subseteq Triples
  BY FieldsOfTables, ShapedParts, Zenon
<1>6. DOMAIN u \subseteq Triples BY <1>2, <1>4, <1>5
<1>7. Shaped(d) BY <1>1, <1>3, <1>5, <1>6, MadeShaped, Zenon
<1> QED BY <1>7 DEF d

LEMMA ChunkShaped ==
  ASSUME Shaped(db), Sound(db), ImportsShape, AllSane, NEW r \in Requests,
         ChunkSize \in Nat \ {0}, ImportChunk(r)
  PROVE  Shaped(db')
<1> DEFINE view == Simulated(r).view
<1>1. req[r].pc = "chunk" /\ imports[r].at <= Len(imports[r].rows)
  BY Zenon DEF ImportChunk
<1>2. Track(imports[r], "chunk", req[r].body.last) BY <1>1, Importing
<1>a. "regions" \in Copied BY DEF Copied
<1>3. /\ imports[r].at # 0 /\ imports[r].rows \in Seq(FileRows)
      /\ DOMAIN imports[r].base = Copied /\ RegionsOK(imports[r].base.regions)
  BY <1>2, <1>a DEF Track
<1>4. Fresh(imports[r].base, view) BY <1>1, <1>3, SimulatedIsFresh, Zenon
<1>5. db' = db \/ db' = Flushed(r, view) BY Zenon DEF ImportChunk
<1> HIDE DEF view
<1>6. DOMAIN db = Fields BY SoundParts, Zenon
<1> QED BY <1>4, <1>5, <1>6, FlushShaped, Zenon

LEMMA CreateShaped ==
  ASSUME Shaped(db), Sound(db), ImportsShape, AllSane, NEW r \in Requests, SlowCreate(r)
  PROVE  Shaped(db')
<1> DEFINE m == imports[r]
           t == Head(m.stages)
           row == AtRow(r)
           k == KeyIn(t, row)
           entry == EntryFor(t, row, CompanyOf(r, m.at), m.base)
           count == IF t = "taken" /\ k \in DOMAIN db.taken THEN db.taken[k] + 1 ELSE entry
<1>1. db' = db \/ db' = [db EXCEPT ![t] = Put(db[t], k, count)] BY Zenon DEF SlowCreate
<1>2. Slow(r) /\ m.stages # <<>> BY Zenon DEF SlowCreate
<1>a. ImportShape(m) BY Zenon DEF ImportsShape
<1>b. t \in Copied BY <1>2, <1>a, NextStage, Zenon DEF ImportShape
<1>3. row \in FileRows /\ t \in Copied BY <1>2, <1>b, RowIsTyped, Zenon
<1> HIDE DEF count
<1>4. DOMAIN db = Fields BY SoundParts, Zenon
<1>5. t \in Fields BY <1>3 DEF Fields
<1>6. t = "taken" => DOMAIN Put(db[t], k, count) \subseteq Triples
  <2> SUFFICES ASSUME t = "taken" PROVE DOMAIN Put(db[t], k, count) \subseteq Triples
    OBVIOUS
  <2>1. row.email \in Emails /\ row.title \in Titles /\ row.date \in Dates
    BY <1>3, FileRowTyped
  <2>2. KeyIn("taken", row) = <<row.email, row.title, row.date>> BY DEF KeyIn
  <2>3. KeyIn("taken", row) \in Triples BY <2>1, <2>2 DEF Triples
  <2>4. k \in Triples BY <2>3, Zenon
  <2> HIDE DEF k
  <2>5. IsPut(Put(db[t], k, count), db[t], k, count) BY PutIs, Zenon
  <2>6. DOMAIN db[t] \subseteq Triples BY ShapedParts, Zenon
  <2> HIDE DEF t
  <2> QED BY <2>4, <2>5, <2>6 DEF IsPut
<1> HIDE DEF t, k
<1>7. Shaped([db EXCEPT ![t] = Put(db[t], k, count)])
  BY <1>4, <1>5, <1>6, PutIsTable, TableShaped, Zenon
<1> QED BY <1>1, <1>7, Zenon

-----------------------------------------------------------------------------
\* What the rows of a file come to.

\* x takes the first m rows.
Sums(rows, companies, scope, before, x, m) ==
  x = [n \in 0..m |-> IF n = 0 THEN [rows |-> {}, db |-> before]
                      ELSE Row(rows[n], companies[n], scope, x[n - 1], n)]

LEMMA SumsNext ==
  ASSUME NEW rows, NEW companies, NEW scope, NEW before, NEW m \in Nat, NEW x,
         Sums(rows, companies, scope, before, x, m)
  PROVE  \E y : Sums(rows, companies, scope, before, y, m + 1)
<1> DEFINE w(c, n) == Row(rows[n], companies[n], scope, c, n)
           none == [rows |-> {}, db |-> before]
           y == [n \in 0..(m + 1) |-> IF n = m + 1 THEN w(x[m], n) ELSE x[n]]
<1>1. x = [n \in 0..m |-> IF n = 0 THEN none ELSE w(x[n - 1], n)] BY Zenon DEF Sums
<1> HIDE DEF w, none
<1>2. \A n \in 0..m : x[n] = IF n = 0 THEN none ELSE w(x[n - 1], n) BY <1>1
<1>3. \A n \in 0..(m + 1) : y[n] = IF n = 0 THEN none ELSE w(y[n - 1], n)
  <2> SUFFICES ASSUME NEW n \in 0..(m + 1)
               PROVE  y[n] = IF n = 0 THEN none ELSE w(y[n - 1], n)
    OBVIOUS
  <2>1. CASE n = m + 1
    <3>1. y[n] = w(x[m], n) /\ n # 0 /\ n - 1 = m /\ m \in 0..(m + 1) /\ m # m + 1 BY <2>1
    <3>2. y[m] = x[m] BY <3>1
    <3> QED BY <3>1, <3>2
  <2>2. CASE n = 0
    <3>1. y[n] = x[0] /\ 0 \in 0..m BY <2>2
    <3> QED BY <1>2, <2>2, <3>1
  <2>3. CASE n # m + 1 /\ n # 0
    <3>1. n \in 0..m /\ n - 1 \in 0..m /\ n - 1 # m + 1 /\ n - 1 \in 0..(m + 1) BY <2>3
    <3>2. y[n] = x[n] /\ y[n - 1] = x[n - 1] BY <2>3, <3>1
    <3> QED BY <1>2, <2>3, <3>1, <3>2
  <2> QED BY <2>1, <2>2, <2>3
<1>4. y = [n \in 0..(m + 1) |-> y[n]] OBVIOUS
<1> HIDE DEF y
<1>5. y = [n \in 0..(m + 1) |-> IF n = 0 THEN none ELSE w(y[n - 1], n)]
  BY <1>3, <1>4
<1> QED BY <1>5, Zenon DEF Sums, w, none

LEMMA SumsAll ==
  ASSUME NEW rows, NEW companies, NEW scope, NEW before, NEW m \in Nat
  PROVE  \E x : Sums(rows, companies, scope, before, x, m)
<1> DEFINE bad == {n \in Nat : ~\E x : Sums(rows, companies, scope, before, x, n)}
           none == [rows |-> {}, db |-> before]
           w(c, n) == Row(rows[n], companies[n], scope, c, n)
<1>1. ASSUME bad # {} PROVE FALSE
  <2>1. bad \in SUBSET Nat OBVIOUS
  <2>2. PICK n \in bad : \A k \in bad : n <= k BY <1>1, <2>1, LeastIsThere, Zenon
  <2>3. n \in Nat /\ ~\E x : Sums(rows, companies, scope, before, x, n) OBVIOUS
  <2>4. n # 0
    <3> DEFINE x == [k \in 0..0 |-> none]
    <3> HIDE DEF none, w
    <3>1. x = [k \in 0..0 |-> IF k = 0 THEN none ELSE w(x[k - 1], k)] OBVIOUS
    <3>2. Sums(rows, companies, scope, before, x, 0) BY <3>1, Zenon DEF Sums, none, w
    <3> QED BY <2>3, <3>2, Zenon
  <2> HIDE DEF bad
  <2>5. n - 1 \in Nat /\ ~(n <= n - 1) /\ (n - 1) + 1 = n BY <2>3, <2>4
  <2>6. n - 1 \notin bad BY <2>2, <2>5
  <2>7. \E x : Sums(rows, companies, scope, before, x, n - 1) BY <2>5, <2>6, Zenon DEF bad
  <2>8. \E y : Sums(rows, companies, scope, before, y, (n - 1) + 1)
    BY <2>5, <2>7, SumsNext, Zenon
  <2> QED BY <2>3, <2>5, <2>8, Zenon
<1> QED BY <1>1, Zenon

\* At first no row is taken.
TakesNone(x, before) == x[0] = [rows |-> {}, db |-> before]

\* The next row is taken on what those before it came to.
TakesRow(rows, companies, scope, x, n) == x[n] = Row(rows[n], companies[n], scope, x[n - 1], n)

LEMMA RowByRowIs ==
  ASSUME NEW rows, NEW companies, NEW scope, NEW before, Len(rows) \in Nat
  PROVE  LET x == RowByRow(rows, companies, scope, before) IN
         /\ TakesNone(x, before)
         /\ \A n \in 1..Len(rows) : TakesRow(rows, companies, scope, x, n)
<1> DEFINE x == RowByRow(rows, companies, scope, before)
           none == [rows |-> {}, db |-> before]
           w(c, n) == Row(rows[n], companies[n], scope, c, n)
<1>1. \E y : Sums(rows, companies, scope, before, y, Len(rows)) BY SumsAll, Zenon
<1>2. x = CHOOSE y : Sums(rows, companies, scope, before, y, Len(rows))
  BY Zenon DEF RowByRow, Sums
<1>3. Sums(rows, companies, scope, before, x, Len(rows)) BY <1>1, <1>2, Zenon
<1>4. x = [n \in 0..Len(rows) |-> IF n = 0 THEN none ELSE w(x[n - 1], n)]
  BY <1>3, Zenon DEF Sums
<1> HIDE DEF none, w, x
<1>5. \A n \in 0..Len(rows) : x[n] = IF n = 0 THEN none ELSE w(x[n - 1], n) BY <1>4
<1>6. x[0] = none BY <1>5
<1>7. \A n \in 1..Len(rows) : x[n] = w(x[n - 1], n) BY <1>5
<1> QED BY <1>6, <1>7, Zenon DEF none, w, x, TakesRow, TakesNone

-----------------------------------------------------------------------------
\* A row on the copy of a chunk and in the reference.

\* The copy, with this much failed.
Tracks(y, failed) ==
  /\ DOMAIN y = {"view", "out", "stop"} /\ DOMAIN y.view = Copied
  /\ DOMAIN y.out = CountFields /\ y.out.failed = failed

LEMMA OutcomeFails ==
  ASSUME NEW out, DOMAIN out = CountFields, NEW i
  PROVE  DOMAIN Failed(out, i) = CountFields /\ Failed(out, i).failed = out.failed \cup {i}
  BY DEF Failed, CountFields

LEMMA FoundFails ==
  ASSUME NEW out, DOMAIN out = CountFields, NEW t, NEW row, NEW company, NEW view
  PROVE  LET new == Found(t, row, company, view, out) IN
         DOMAIN new = CountFields /\ new.failed = out.failed
<1> DEFINE own == view.students[row.email].company
           new == [out EXCEPT !.updated = @ + 1, !.touched = @ \cup {own},
                              !.conflicts = IF own = company THEN @ ELSE @ + 1]
           skip == [out EXCEPT !.skipped = @ + 1]
<1>1. CASE t = "students"
  <2>1. Found(t, row, company, view, out) = new BY <1>1, Zenon DEF Found
  <2> HIDE DEF own
  <2>2. DOMAIN new = DOMAIN out OBVIOUS
  <2>3. new.failed = out.failed BY DEF CountFields
  <2> HIDE DEF new
  <2> QED BY <2>1, <2>2, <2>3, Zenon
<1>2. CASE t = "taken"
  <2>1. Found(t, row, company, view, out) = skip BY <1>2 DEF Found
  <2>2. DOMAIN skip = DOMAIN out OBVIOUS
  <2>3. skip.failed = out.failed BY DEF CountFields
  <2> HIDE DEF skip
  <2> QED BY <2>1, <2>2, <2>3, Zenon
<1>3. CASE t \notin {"students", "taken"}
  <2>1. Found(t, row, company, view, out) = out BY <1>3 DEF Found
  <2> QED BY <2>1, Zenon
<1> QED BY <1>1, <1>2, <1>3

LEMMA CreatedFails ==
  ASSUME NEW out, DOMAIN out = CountFields, NEW t, NEW row, NEW company
  PROVE  LET new == Created(t, row, company, out) IN
         DOMAIN new = CountFields /\ new.failed = out.failed
<1> DEFINE learner == [out EXCEPT !.students = @ + 1, !.touched = @ \cup {company}]
           training == [out EXCEPT !.trainings = @ + 1]
           pair == <<row.email, row.title>>
           completion == [out EXCEPT !.taken = @ + 1, !.pairs = Append(@, pair)]
<1>1. CASE t = "students"
  <2>1. Created(t, row, company, out) = learner BY <1>1, Zenon DEF Created
  <2>2. DOMAIN learner = DOMAIN out OBVIOUS
  <2>3. learner.failed = out.failed BY DEF CountFields
  <2> HIDE DEF learner
  <2> QED BY <2>1, <2>2, <2>3, Zenon
<1>2. CASE t = "taken"
  <2>1. Created(t, row, company, out) = completion BY <1>2 DEF Created
  <2> HIDE DEF pair
  <2>2. DOMAIN completion = DOMAIN out OBVIOUS
  <2>3. completion.failed = out.failed BY DEF CountFields
  <2> HIDE DEF completion
  <2> QED BY <2>1, <2>2, <2>3, Zenon
<1>3. CASE t = "trainings"
  <2>1. Created(t, row, company, out) = training BY <1>3 DEF Created
  <2>2. DOMAIN training = DOMAIN out OBVIOUS
  <2>3. training.failed = out.failed BY DEF CountFields
  <2> HIDE DEF training
  <2> QED BY <2>1, <2>2, <2>3, Zenon
<1>4. CASE t \notin {"students", "taken", "trainings"}
  <2>1. Created(t, row, company, out) = out BY <1>4 DEF Created
  <2> QED BY <2>1, Zenon
<1> QED BY <1>1, <1>2, <1>3, <1>4

\* An entry is ensured in one of the tables.
Ensured(new, old, t, k, entry) ==
  /\ new[t] = Ensure(old[t], k, entry)
  /\ \A u \in Copied : u # t => new[u] = old[u]

\* What a stage comes to, when the row was not refused before.
Staged(z, y, t, k, entry, refused, failed, i) ==
  /\ refused => z.stop /\ z.view = y.view /\ Tracks(z, failed \cup {i})
  /\ ~refused => ~z.stop /\ Ensured(z.view, y.view, t, k, entry) /\ Tracks(z, failed)

\* The row is refused at this stage.
Refused(t, row, view, scope) ==
  t = "students" /\
    IF row.email \in DOMAIN view.students THEN view.students[row.email].company \notin scope
    ELSE row.country \notin DOMAIN view.regions

LEMMA StageIs ==
  ASSUME NEW r, NEW i, NEW t \in Copied, NEW y, NEW failed, Tracks(y, failed), ~y.stop
  PROVE  LET row == imports[r].rows[i] IN
         Staged(Stage(r, i, t, y), y, t, KeyIn(t, row), EntryFor(t, row, CompanyOf(r, i), y.view),
                Refused(t, row, y.view, req[r].scope), failed, i)
<1> DEFINE row == imports[r].rows[i]
           company == CompanyOf(r, i)
           k == KeyIn(t, row)
           entry == EntryFor(t, row, company, y.view)
           z == Stage(r, i, t, y)
           refused == Refused(t, row, y.view, req[r].scope)
           out1 == Failed(y.out, i)
           out2 == Found(t, row, company, y.view, y.out)
           out3 == Created(t, row, company, y.out)
           view3 == [y.view EXCEPT ![t] = Put(y.view[t], k, entry)]
           there == k \in DOMAIN y.view[t]
<1>1. /\ DOMAIN y = {"view", "out", "stop"} /\ DOMAIN y.view = Copied
      /\ DOMAIN y.out = CountFields /\ y.out.failed = failed
  BY Zenon DEF Tracks
<1>2. DOMAIN out1 = CountFields /\ out1.failed = failed \cup {i} BY <1>1, OutcomeFails, Zenon
<1>3. DOMAIN out2 = CountFields /\ out2.failed = failed BY <1>1, FoundFails, Zenon
<1>4. DOMAIN out3 = CountFields /\ out3.failed = failed BY <1>1, CreatedFails, Zenon
<1>5. t = "students" => k = row.email BY KeyOf
<1>6. \/ refused /\ z = [y EXCEPT !.stop = TRUE, !.out = Failed(@, i)]
      \/ /\ ~refused /\ there
         /\ z = [y EXCEPT !.out = Found(t, row, company, y.view, @)]
      \/ /\ ~refused /\ ~there
         /\ z = [y EXCEPT !.view[t] = Put(@, k, entry), !.out = Created(t, row, company, @)]
  BY <1>5, Zenon DEF Stage, Refused, Foreign
<1> HIDE DEF z, refused, k, entry, row, company
<1>7. CASE refused /\ z = [y EXCEPT !.stop = TRUE, !.out = Failed(@, i)]
  <2>1. DOMAIN z = DOMAIN y /\ z.stop = TRUE /\ z.view = y.view /\ z.out = out1
    BY <1>1, <1>7
  <2>2. Tracks(z, failed \cup {i}) BY <1>1, <1>2, <2>1, Zenon DEF Tracks
  <2>3. Staged(z, y, t, k, entry, refused, failed, i) BY <1>7, <2>1, <2>2, Zenon DEF Staged
  <2> QED BY <2>3, Zenon DEF z, k, entry, row, company, refused
<1>8. CASE /\ ~refused /\ there
           /\ z = [y EXCEPT !.out = Found(t, row, company, y.view, @)]
  <2>1. DOMAIN z = DOMAIN y /\ z.stop = y.stop /\ z.view = y.view /\ z.out = out2
    BY <1>1, <1>8
  <2>2. Tracks(z, failed) BY <1>1, <1>3, <2>1, Zenon DEF Tracks
  <2>a. Ensure(y.view[t], k, entry) = y.view[t] BY <1>8, Zenon DEF Ensure
  <2>3. Ensured(z.view, y.view, t, k, entry) BY <2>1, <2>a, Zenon DEF Ensured
  <2>4. Staged(z, y, t, k, entry, refused, failed, i)
    BY <1>8, <2>1, <2>2, <2>3, Zenon DEF Staged
  <2> QED BY <2>4, Zenon DEF z, k, entry, row, company, refused
<1>9. CASE /\ ~refused /\ ~there
           /\ z = [y EXCEPT !.view[t] = Put(@, k, entry), !.out = Created(t, row, company, @)]
  <2>1. DOMAIN z = DOMAIN y /\ z.stop = y.stop /\ z.view = view3 /\ z.out = out3
    BY <1>1, <1>9
  <2>2. DOMAIN view3 = Copied /\ view3[t] = Put(y.view[t], k, entry)
        /\ \A u \in Copied : u # t => view3[u] = y.view[u]
    BY <1>1, Zenon
  <2>3. Tracks(z, failed) BY <1>1, <1>4, <2>1, <2>2, Zenon DEF Tracks
  <2> HIDE DEF view3
  <2>4. Ensured(z.view, y.view, t, k, entry) BY <1>9, <2>1, <2>2, Zenon DEF Ensured, Ensure
  <2>5. Staged(z, y, t, k, entry, refused, failed, i)
    BY <1>9, <2>1, <2>3, <2>4, Zenon DEF Staged
  <2> QED BY <2>5, Zenon DEF z, k, entry, row, company, refused
<1> QED BY <1>6, <1>7, <1>8, <1>9, Zenon

\* The tables of the copy are those of the database.
AsTables(view, d) == \A t \in Copied : view[t] = d[t]

\* After i rows: the same tables, and the same rows refused.
Mirrors(y, z, i) ==
  /\ z.rows \subseteq 1..i /\ DOMAIN z.db = Fields
  /\ AsTables(y.view, z.db) /\ Tracks(y, (1..i) \ z.rows)

\* The parts of Row.
RegionsAfter(row, d) ==
  IF row.country = Blank THEN d.regions ELSE Ensure(d.regions, row.country, row.theatre)
RefusedAfter(row, d, scope) ==
  IF row.email \in DOMAIN d.students THEN d.students[row.email].company \notin scope
  ELSE row.country \notin DOMAIN RegionsAfter(row, d)
LearnerAfter(row, company, d) ==
  [company |-> company, country |-> row.country,
   theatre |-> IF row.country # Blank /\ RegionsAfter(row, d)[row.country] # None
                 THEN RegionsAfter(row, d)[row.country] ELSE row.theatre]
TablesAfter(row, company, d) ==
  [companies |-> d.companies, regions |-> RegionsAfter(row, d),
   students |-> Ensure(d.students, row.email, LearnerAfter(row, company, d)),
   trainings |-> Ensure(d.trainings, row.title, TRUE),
   taken |-> Ensure(d.taken, <<row.email, row.title, row.date>>, 1)]

RowComesTo(y, row, company, scope, x, i) ==
  \/ company = None /\ y = x
  \/ /\ company # None /\ RefusedAfter(row, x.db, scope)
     /\ y = [rows |-> x.rows, db |-> [x.db EXCEPT !.regions = RegionsAfter(row, x.db)]]
  \/ /\ company # None /\ ~RefusedAfter(row, x.db, scope)
     /\ y = [rows |-> x.rows \cup {i}, db |-> TablesAfter(row, company, x.db)]

LEMMA RowIs ==
  ASSUME NEW row, NEW company, NEW scope, NEW x, NEW i
  PROVE  RowComesTo(Row(row, company, scope, x, i), row, company, scope, x, i)
<1>1. company = None => Row(row, company, scope, x, i) = x BY Zenon DEF Row
<1>2. company # None /\ RefusedAfter(row, x.db, scope) =>
        Row(row, company, scope, x, i) =
          [rows |-> x.rows, db |-> [x.db EXCEPT !.regions = RegionsAfter(row, x.db)]]
  BY Zenon DEF Row, RefusedAfter, RegionsAfter
<1>3. company # None /\ ~RefusedAfter(row, x.db, scope) =>
        Row(row, company, scope, x, i) =
          [rows |-> x.rows \cup {i}, db |-> TablesAfter(row, company, x.db)]
  BY Zenon DEF Row, RefusedAfter, RegionsAfter, TablesAfter, LearnerAfter
<1> QED BY <1>1, <1>2, <1>3, Zenon DEF RowComesTo

\* An import's row on a copy that is the database's tables.
LEMMA RowMirrors ==
  ASSUME NEW r, NEW i \in Nat \ {0}, NEW y, NEW z, Mirrors(y, z, i - 1)
  PROVE  Mirrors(Worked(r, y, i),
                 Row(imports[r].rows[i], CompanyOf(r, i), req[r].scope, z, i), i)
<1> DEFINE row == imports[r].rows[i]
           company == CompanyOf(r, i)
           scope == req[r].scope
           d == z.db
           w == Row(row, company, scope, z, i)
           F == (1..(i - 1)) \ z.rows
           fresh == [y EXCEPT !.stop = FALSE]
           placed == IF row.country = Blank THEN fresh ELSE Stage(r, i, "regions", fresh)
           s == Stage(r, i, "students", placed)
           u == Stage(r, i, "trainings", s)
           v == Stage(r, i, "taken", u)
           refused == RefusedAfter(row, d, scope)
<1>1. /\ DOMAIN y = {"view", "out", "stop"} /\ DOMAIN y.view = Copied
      /\ DOMAIN y.out = CountFields /\ y.out.failed = F
      /\ \A t \in Copied : y.view[t] = d[t]
      /\ DOMAIN d = Fields /\ z.rows \subseteq 1..(i - 1)
  BY Zenon DEF Mirrors, Tracks, AsTables
<1>2. F \cup {i} = (1..i) \ z.rows /\ z.rows \subseteq 1..i
  BY <1>1
<1>3. F = (1..i) \ (z.rows \cup {i}) /\ z.rows \cup {i} \subseteq 1..i
  BY <1>1
<1>4. RowComesTo(w, row, company, scope, z, i) BY RowIs, Zenon
<1>5. /\ "regions" \in Copied /\ "students" \in Copied /\ "trainings" \in Copied
      /\ "taken" \in Copied
  BY DEF Copied
<1> HIDE DEF F, w
<1>6. CASE company = None
  <2> DEFINE x == Worked(r, y, i)
             out == Failed(y.out, i)
  <2>1. x = [y EXCEPT !.out = out] BY <1>6, Zenon DEF Worked
  <2>2. DOMAIN out = CountFields /\ out.failed = F \cup {i} BY <1>1, OutcomeFails, Zenon
  <2> HIDE DEF x, out
  <2>3. DOMAIN x = DOMAIN y /\ x.view = y.view /\ x.out = out BY <1>1, <2>1
  <2>4. w = z BY <1>4, <1>6, Zenon DEF RowComesTo
  <2>5. Tracks(x, (1..i) \ w.rows) BY <1>1, <1>2, <2>2, <2>3, <2>4, Zenon DEF Tracks
  <2>6. AsTables(x.view, w.db) BY <1>1, <2>3, <2>4, Zenon DEF AsTables
  <2>7. Mirrors(x, w, i) BY <1>1, <1>2, <2>4, <2>5, <2>6, Zenon DEF Mirrors
  <2> QED BY <2>7, Zenon DEF x, w
<1>7. CASE company # None
  <2>1. Worked(r, y, i) = v BY <1>7, Zenon DEF Worked
  <2>2. DOMAIN fresh = DOMAIN y /\ fresh.view = y.view /\ fresh.out = y.out /\ ~fresh.stop
    BY <1>1
  <2>3. Tracks(fresh, F) BY <1>1, <2>2, Zenon DEF Tracks
  <2> HIDE DEF fresh
  <2>4. /\ ~placed.stop /\ Tracks(placed, F) /\ placed.view.regions = RegionsAfter(row, d)
        /\ placed.view.students = d.students /\ placed.view.trainings = d.trainings
        /\ placed.view.taken = d.taken
    <3>1. CASE row.country = Blank
      <4>1. placed = fresh /\ RegionsAfter(row, d) = d.regions
        BY <3>1, Zenon DEF RegionsAfter
      <4> QED BY <1>1, <1>5, <2>2, <2>3, <4>1, Zenon
    <3>2. CASE row.country # Blank
      <4>1. /\ placed = Stage(r, i, "regions", fresh)
            /\ RegionsAfter(row, d) = Ensure(d.regions, row.country, row.theatre)
        BY <3>2, Zenon DEF RegionsAfter
      <4>2. ~Refused("regions", row, fresh.view, scope) BY DEF Refused
      <4> DEFINE entry == EntryFor("regions", row, company, fresh.view)
      <4>3. Staged(placed, fresh, "regions", KeyIn("regions", row), entry,
                   Refused("regions", row, fresh.view, scope), F, i)
        BY <1>5, <2>2, <2>3, <4>1, StageIs, Zenon
      <4>4. KeyIn("regions", row) = row.country /\ entry = row.theatre BY DEF KeyIn, EntryFor
      <4> HIDE DEF entry, placed
      <4>5. /\ ~placed.stop /\ Tracks(placed, F)
            /\ Ensured(placed.view, fresh.view, "regions", row.country, row.theatre)
        BY <4>2, <4>3, <4>4, Zenon DEF Staged
      <4>6. "students" # "regions" /\ "trainings" # "regions" /\ "taken" # "regions" OBVIOUS
      <4> QED BY <1>1, <1>5, <2>2, <4>1, <4>5, <4>6, Zenon DEF Ensured
    <3> QED BY <3>1, <3>2
  <2> HIDE DEF placed
  <2> DEFINE refusal == Refused("students", row, placed.view, scope)
             learner == EntryFor("students", row, company, placed.view)
  <2>5. refusal <=> refused BY <2>4, Zenon DEF Refused, RefusedAfter
  <2>6. Staged(s, placed, "students", KeyIn("students", row), learner, refusal, F, i)
    BY <1>5, <2>4, StageIs, Zenon
  <2>7. KeyIn("students", row) = row.email /\ KeyIn("trainings", row) = row.title
    BY KeyOf, Zenon
  <2>8. KeyIn("taken", row) = <<row.email, row.title, row.date>> BY DEF KeyIn
  <2>9. learner = LearnerAfter(row, company, d)
    <3>1. learner = [company |-> company, country |-> row.country,
                     theatre |-> Theatre(row, placed.view)]
      BY DEF EntryFor
    <3> HIDE DEF learner
    <3> QED BY <2>4, <3>1, Zenon DEF Theatre, LearnerAfter
  <2> HIDE DEF learner, refusal, s
  <2>10. CASE refused
    <3>1. s.stop /\ s.view = placed.view /\ Tracks(s, F \cup {i})
      BY <2>5, <2>6, <2>10, Zenon DEF Staged
    <3>2. u = s BY <3>1, Zenon DEF Stage
    <3> HIDE DEF u
    <3>3. v = u BY <3>1, <3>2, Zenon DEF Stage
    <3> HIDE DEF v
    <3> DEFINE e == [d EXCEPT !.regions = RegionsAfter(row, d)]
    <3>4. w = [rows |-> z.rows, db |-> e]
      BY <1>4, <1>7, <2>10, Zenon DEF RowComesTo
    <3>5. DOMAIN e = Fields /\ e.regions = RegionsAfter(row, d) /\ e.students = d.students
          /\ e.trainings = d.trainings /\ e.taken = d.taken
      BY <1>1, FieldsOfTables
    <3> HIDE DEF e
    <3>6. w.rows = z.rows /\ w.db = e BY <3>4
    <3>7. AsTables(v.view, w.db)
      BY <2>4, <3>1, <3>2, <3>3, <3>5, <3>6 DEF AsTables, Copied
    <3>8. Tracks(v, (1..i) \ w.rows) BY <1>2, <3>1, <3>2, <3>3, <3>6, Zenon
    <3>9. Mirrors(v, w, i) BY <1>2, <3>5, <3>6, <3>7, <3>8, Zenon DEF Mirrors
    <3> QED BY <2>1, <3>9, Zenon DEF w
  <2>11. CASE ~refused
    <3>1. ~s.stop /\ Tracks(s, F) /\ Ensured(s.view, placed.view, "students", row.email, learner)
      BY <2>5, <2>6, <2>7, <2>11, Zenon DEF Staged
    <3>2. ~Refused("trainings", row, s.view, scope) /\ ~Refused("taken", row, u.view, scope)
      BY DEF Refused
    <3>3. /\ EntryFor("trainings", row, company, s.view) = TRUE
          /\ EntryFor("taken", row, company, u.view) = 1
      BY DEF EntryFor
    <3>4. Staged(u, s, "trainings", KeyIn("trainings", row),
                 EntryFor("trainings", row, company, s.view),
                 Refused("trainings", row, s.view, scope), F, i)
      BY <1>5, <3>1, StageIs, Zenon
    <3> HIDE DEF u
    <3>5. ~u.stop /\ Tracks(u, F) /\ Ensured(u.view, s.view, "trainings", row.title, TRUE)
      BY <2>7, <3>2, <3>3, <3>4, Zenon DEF Staged
    <3>6. Staged(v, u, "taken", KeyIn("taken", row),
                 EntryFor("taken", row, company, u.view),
                 Refused("taken", row, u.view, scope), F, i)
      BY <1>5, <3>5, StageIs, Zenon
    <3> HIDE DEF v
    <3> DEFINE key == <<row.email, row.title, row.date>>
    <3>7. Tracks(v, F) /\ Ensured(v.view, u.view, "taken", key, 1)
      BY <2>8, <3>2, <3>3, <3>6, Zenon DEF Staged
    <3> HIDE DEF key
    <3> DEFINE e == TablesAfter(row, company, d)
    <3>8. w = [rows |-> z.rows \cup {i}, db |-> e]
      BY <1>4, <1>7, <2>11, Zenon DEF RowComesTo
    <3>9. /\ DOMAIN e = Fields /\ e.regions = RegionsAfter(row, d)
          /\ e.students = Ensure(d.students, row.email, learner)
          /\ e.trainings = Ensure(d.trainings, row.title, TRUE)
          /\ e.taken = Ensure(d.taken, key, 1)
      BY <2>9 DEF TablesAfter, Fields, Copied, key
    <3> HIDE DEF e
    <3>10. w.rows = z.rows \cup {i} /\ w.db = e BY <3>8
    <3>11. AsTables(v.view, w.db)
      <4>1. v.view.regions = RegionsAfter(row, d)
        BY <2>4, <3>1, <3>5, <3>7 DEF Ensured, Copied
      <4>2. v.view.students = Ensure(d.students, row.email, learner)
        BY <2>4, <3>1, <3>5, <3>7 DEF Ensured, Copied
      <4>3. v.view.trainings = Ensure(d.trainings, row.title, TRUE)
        BY <2>4, <3>1, <3>5, <3>7 DEF Ensured, Copied
      <4>4. v.view.taken = Ensure(d.taken, key, 1)
        BY <2>4, <3>1, <3>5, <3>7 DEF Ensured, Copied
      <4> QED BY <3>9, <3>10, <4>1, <4>2, <4>3, <4>4 DEF AsTables, Copied
    <3>12. Tracks(v, (1..i) \ w.rows) BY <1>3, <3>7, <3>10, Zenon
    <3>13. Mirrors(v, w, i) BY <1>3, <3>9, <3>10, <3>11, <3>12, Zenon DEF Mirrors
    <3> QED BY <2>1, <3>13, Zenon DEF w
  <2> QED BY <2>10, <2>11, Zenon
<1> QED BY <1>6, <1>7, Zenon

\* What a database has grown into: its entries are kept, and those it has besides are
\* in order.
Built(d, e) ==
  /\ DOMAIN e = Fields /\ IsTable(e) /\ \A t \in Copied : IsTable(e[t])
  /\ e.companies = d.companies
  /\ \A t \in Copied : \A k \in DOMAIN d[t] : k \in DOMAIN e[t] /\ e[t][k] = d[t][k]
  /\ \A x \in DOMAIN e.students : Placed(e, e.students[x])
  /\ \A k \in DOMAIN e.taken : k[1] \in DOMAIN e.students /\ k[2] \in DOMAIN e.trainings

\* g is f and, when it has none, an entry for k.
IsEnsured(g, f, k, v) ==
  /\ DOMAIN g = DOMAIN f \cup {k}
  /\ \A x \in DOMAIN f : g[x] = f[x]
  /\ k \notin DOMAIN f => g[k] = v
  /\ IsTable(f) => IsTable(g)

LEMMA EnsureIs ==
  ASSUME NEW f, NEW k, NEW v
  PROVE  IsEnsured(Ensure(f, k, v), f, k, v)
<1> DEFINE g == Put(f, k, v)
<1>1. IsPut(g, f, k, v) /\ IsTable(g) BY PutIs, PutIsTable, Zenon
<1> HIDE DEF g
<1>2. CASE k \in DOMAIN f
  <2>1. Ensure(f, k, v) = f BY <1>2, Zenon DEF Ensure
  <2> QED BY <1>2, <2>1 DEF IsEnsured
<1>3. CASE k \notin DOMAIN f
  <2>1. Ensure(f, k, v) = g BY <1>3, Zenon DEF Ensure, g
  <2>2. IsEnsured(g, f, k, v) BY <1>1, <1>3 DEF IsPut, IsEnsured
  <2> QED BY <2>1, <2>2, Zenon
<1> QED BY <1>2, <1>3

\* g has the entries of f.
HasAll(g, f) ==
  (\A k \in DOMAIN f : k \in DOMAIN g /\ g[k] = f[k]) /\ (IsTable(f) => IsTable(g))

LEMMA RegionsGrow ==
  ASSUME NEW row, NEW d
  PROVE  HasAll(RegionsAfter(row, d), d.regions)
<1> DEFINE g == Ensure(d.regions, row.country, row.theatre)
<1>1. IsEnsured(g, d.regions, row.country, row.theatre) BY EnsureIs, Zenon
<1> HIDE DEF g
<1>2. HasAll(g, d.regions) BY <1>1 DEF IsEnsured, HasAll
<1>3. HasAll(d.regions, d.regions) BY Zenon DEF HasAll
<1> QED BY <1>2, <1>3, Zenon DEF RegionsAfter, g

LEMMA RowBuilds ==
  ASSUME NEW d, NEW x, Built(d, x.db), NEW row, NEW company, NEW scope, NEW i,
         company \in {None} \cup DOMAIN d.companies
  PROVE  Built(d, Row(row, company, scope, x, i).db)
<1> DEFINE a == x.db
           w == Row(row, company, scope, x, i)
           regions == RegionsAfter(row, a)
<1>1. RowComesTo(w, row, company, scope, x, i) BY RowIs, Zenon
<1>2. /\ DOMAIN a = Fields /\ IsTable(a) /\ \A t \in Copied : IsTable(a[t])
      /\ a.companies = d.companies
      /\ \A t \in Copied : \A k \in DOMAIN d[t] : k \in DOMAIN a[t] /\ a[t][k] = d[t][k]
      /\ \A e \in DOMAIN a.students : Placed(a, a.students[e])
      /\ \A k \in DOMAIN a.taken : k[1] \in DOMAIN a.students /\ k[2] \in DOMAIN a.trainings
  BY Zenon DEF Built
<1>3. /\ \A k \in DOMAIN a.regions : k \in DOMAIN regions /\ regions[k] = a.regions[k]
      /\ IsTable(regions)
  <2>1. HasAll(regions, a.regions) BY RegionsGrow, Zenon
  <2>2. IsTable(a.regions) BY <1>2 DEF Copied
  <2> QED BY <2>1, <2>2, Zenon DEF HasAll
<1>4. /\ IsTable(a.regions) /\ IsTable(a.students) /\ IsTable(a.trainings) /\ IsTable(a.taken)
  BY <1>2 DEF Copied
<1> HIDE DEF w, regions, a
<1>5. CASE company = None
  <2>1. w = x BY <1>1, <1>5, Zenon DEF RowComesTo
  <2> QED BY <2>1, Zenon DEF w
<1>6. CASE company # None /\ RefusedAfter(row, a, scope)
  <2> DEFINE e == [a EXCEPT !.regions = regions]
  <2>1. w = [rows |-> x.rows, db |-> e]
    BY <1>1, <1>6, Zenon DEF RowComesTo, a, regions
  <2>2. DOMAIN e = Fields /\ e.regions = regions /\ e.students = a.students
        /\ e.trainings = a.trainings /\ e.taken = a.taken /\ e.companies = a.companies
    BY <1>2, FieldsOfTables
  <2>3. IsTable(e) BY DEF IsTable
  <2> HIDE DEF e
  <2>4. w.db = e BY <2>1
  <2>5. \A t \in Copied : IsTable(e[t]) BY <1>3, <1>4, <2>2 DEF Copied
  <2>6. \A t \in Copied : \A k \in DOMAIN d[t] : k \in DOMAIN e[t] /\ e[t][k] = d[t][k]
    BY <1>2, <1>3, <2>2 DEF Copied
  <2>7. \A y \in DOMAIN e.students : Placed(e, e.students[y])
    BY <1>2, <1>3, <2>2, Zenon DEF Placed
  <2>8. Built(d, e) BY <1>2, <2>2, <2>3, <2>5, <2>6, <2>7, Zenon DEF Built
  <2> QED BY <2>4, <2>8, Zenon DEF w
<1>7. CASE company # None /\ ~RefusedAfter(row, a, scope)
  <2> DEFINE learner == LearnerAfter(row, company, a)
             key == <<row.email, row.title, row.date>>
             s == Ensure(a.students, row.email, learner)
             n == Ensure(a.trainings, row.title, TRUE)
             u == Ensure(a.taken, key, 1)
             e == [companies |-> a.companies, regions |-> regions, students |-> s,
                   trainings |-> n, taken |-> u]
  <2>1. w = [rows |-> x.rows \cup {i}, db |-> e]
    BY <1>1, <1>7, Zenon DEF RowComesTo, TablesAfter, a, regions
  <2>2. /\ DOMAIN e = Fields /\ e.companies = a.companies /\ e.regions = regions
        /\ e.students = s /\ e.trainings = n /\ e.taken = u
    BY DEF Fields, Copied
  <2>3. IsTable(e) BY DEF IsTable
  <2>4. w.db = e BY <2>1
  <2>5. /\ DOMAIN s = DOMAIN a.students \cup {row.email} /\ IsTable(s)
        /\ \A k \in DOMAIN a.students : s[k] = a.students[k]
        /\ row.email \notin DOMAIN a.students => s[row.email] = learner
    <3>1. IsEnsured(s, a.students, row.email, learner) BY EnsureIs, Zenon
    <3> QED BY <1>4, <3>1, Zenon DEF IsEnsured
  <2>6. /\ DOMAIN n = DOMAIN a.trainings \cup {row.title} /\ IsTable(n)
        /\ \A k \in DOMAIN a.trainings : n[k] = a.trainings[k]
    <3>1. IsEnsured(n, a.trainings, row.title, TRUE) BY EnsureIs, Zenon
    <3> QED BY <1>4, <3>1, Zenon DEF IsEnsured
  <2>7. /\ DOMAIN u = DOMAIN a.taken \cup {key} /\ IsTable(u)
        /\ \A k \in DOMAIN a.taken : u[k] = a.taken[k]
    <3>1. IsEnsured(u, a.taken, key, 1) BY EnsureIs, Zenon
    <3> QED BY <1>4, <3>1, Zenon DEF IsEnsured
  <2>8. learner.company = company /\ learner.country = row.country BY DEF LearnerAfter
  <2>9. row.email \notin DOMAIN a.students => row.country \in DOMAIN regions
    BY <1>7, Zenon DEF RefusedAfter, regions
  <2>10. key[1] = row.email /\ key[2] = row.title OBVIOUS
  <2> HIDE DEF learner, key, s, n, u, e
  <2>11. \A t \in Copied : IsTable(e[t])
    BY <1>3, <2>2, <2>5, <2>6, <2>7 DEF Copied
  <2>12. \A t \in Copied : \A k \in DOMAIN d[t] : k \in DOMAIN e[t] /\ e[t][k] = d[t][k]
    BY <1>2, <1>3, <2>2, <2>5, <2>6, <2>7 DEF Copied
  <2>13. \A y \in DOMAIN e.students : Placed(e, e.students[y])
    <3> SUFFICES ASSUME NEW y \in DOMAIN e.students PROVE Placed(e, e.students[y])
      OBVIOUS
    <3>1. CASE y \in DOMAIN a.students
      <4>1. Placed(a, a.students[y]) /\ e.students[y] = a.students[y]
        BY <1>2, <2>2, <2>5, <3>1, Zenon
      <4> QED BY <1>3, <2>2, <4>1, Zenon DEF Placed
    <3>2. CASE y \notin DOMAIN a.students
      <4>1. y = row.email /\ e.students[y] = learner BY <2>2, <2>5, <3>2
      <4>2. company \in DOMAIN d.companies BY <1>7
      <4> QED BY <1>2, <2>2, <2>8, <2>9, <3>2, <4>1, <4>2, Zenon DEF Placed
    <3> QED BY <3>1, <3>2
  <2>14. \A k \in DOMAIN e.taken : k[1] \in DOMAIN e.students /\ k[2] \in DOMAIN e.trainings
    BY <1>2, <2>2, <2>5, <2>6, <2>7, <2>10
  <2>15. Built(d, e)
    BY <1>2, <2>2, <2>3, <2>11, <2>12, <2>13, <2>14, Zenon DEF Built
  <2> QED BY <2>4, <2>15, Zenon DEF w
<1> QED BY <1>5, <1>6, <1>7, Zenon DEF a

\* What holds of the copy and of the reference, and after each row, holds after the chunk.
Both(d, y, z, i) == Mirrors(y, z, i) /\ Built(d, z.db)

LEMMA ChunkMirrors ==
  ASSUME NEW r, NEW d, NEW N \in Nat, NEW f, Takes(r, f, N), NEW at \in Nat \ {0}, NEW X,
         \A n \in 1..N : Chunk(r)[n] = at + n - 1,
         \A n \in 1..N :
           /\ X[at + n - 1] = Row(imports[r].rows[at + n - 1], CompanyOf(r, at + n - 1),
                                  req[r].scope, X[at + n - 2], at + n - 1)
           /\ CompanyOf(r, at + n - 1) \in {None} \cup DOMAIN d.companies,
         Both(d, Untried(r), X[at - 1], at - 1)
  PROVE  Both(d, f[N], X[at + N - 1], at + N - 1)
<1> DEFINE w(c, n) == Worked(r, c, Chunk(r)[n])
           holds(n) == Both(d, f[n], X[at + n - 1], at + n - 1)
           bad == {n \in 0..N : ~holds(n)}
<1>1. f = [n \in 0..N |-> IF n = 0 THEN Untried(r) ELSE w(f[n - 1], n)] BY Zenon DEF Takes
<1>2. \A n \in 1..N : Both(d, f[n - 1], X[at + n - 2], at + n - 2)
        => Both(d, w(f[n - 1], n), X[at + n - 1], at + n - 1)
  <2> SUFFICES ASSUME NEW n \in 1..N, Both(d, f[n - 1], X[at + n - 2], at + n - 2)
               PROVE  Both(d, w(f[n - 1], n), X[at + n - 1], at + n - 1)
    OBVIOUS
  <2> DEFINE i == at + n - 1
             x == X[at + n - 2]
             row == imports[r].rows[i]
  <2>1. i \in Nat \ {0} /\ i - 1 = at + n - 2 OBVIOUS
  <2>2. Mirrors(f[n - 1], x, i - 1) /\ Built(d, x.db) BY <2>1, Zenon DEF Both
  <2>3. Chunk(r)[n] = i /\ X[i] = Row(row, CompanyOf(r, i), req[r].scope, x, i)
        /\ CompanyOf(r, i) \in {None} \cup DOMAIN d.companies
    BY Zenon
  <2> HIDE DEF i, x
  <2>4. Mirrors(Worked(r, f[n - 1], i), Row(row, CompanyOf(r, i), req[r].scope, x, i), i)
    BY <2>1, <2>2, RowMirrors, Zenon
  <2>5. Built(d, Row(row, CompanyOf(r, i), req[r].scope, x, i).db)
    BY <2>2, <2>3, RowBuilds, Zenon
  <2>6. Both(d, Worked(r, f[n - 1], i), X[i], i) BY <2>3, <2>4, <2>5, Zenon DEF Both
  <2> QED BY <2>3, <2>6, Zenon DEF i
<1> HIDE DEF w, holds
<1>3. \A n \in 0..N : f[n] = IF n = 0 THEN Untried(r) ELSE w(f[n - 1], n) BY <1>1
<1>4. ASSUME bad # {} PROVE FALSE
  <2>1. bad \in SUBSET Nat OBVIOUS
  <2>2. PICK x \in bad : \A y \in bad : x <= y BY <1>4, <2>1, LeastIsThere, Zenon
  <2>3. x \in 0..N /\ ~holds(x) OBVIOUS
  <2>4. x # 0
    <3>1. 0 \in 0..N /\ at + 0 - 1 = at - 1 OBVIOUS
    <3>2. f[0] = Untried(r) BY <1>3, <3>1
    <3>3. holds(0) BY <3>1, <3>2, Zenon DEF holds
    <3> QED BY <2>3, <3>3, Zenon
  <2>5. x - 1 \in 0..N /\ ~(x <= x - 1) /\ x \in 1..N /\ at + (x - 1) - 1 = at + x - 2
    BY <2>3, <2>4
  <2>6. x - 1 \notin bad BY <2>2, <2>5
  <2>7. holds(x - 1) BY <2>5, <2>6
  <2>8. f[x] = w(f[x - 1], x) BY <1>3, <2>3, <2>4
  <2>9. Both(d, f[x - 1], X[at + x - 2], at + x - 2) BY <2>5, <2>7, Zenon DEF holds
  <2>10. holds(x) BY <1>2, <2>5, <2>8, <2>9, Zenon DEF holds
  <2> QED BY <2>3, <2>10, Zenon
<1>5. N \in 0..N OBVIOUS
<1>6. holds(N) BY <1>4, <1>5
<1> QED BY <1>6, Zenon DEF holds

\* A sound database has grown out of itself.
LEMMA SoundIsBuilt ==
  ASSUME NEW d, Sound(d), Shaped(d)
  PROVE  Built(d, d)
<1>1. /\ DOMAIN d = Fields /\ LearnersOK(d.students, d)
      /\ TakenOK(d.taken, d.students, d.trainings)
  BY SoundParts, Zenon
<1>2. IsTable(d) /\ \A t \in DOMAIN d : IsTable(d[t]) BY ShapedParts, Zenon
<1>3. \A t \in Copied : IsTable(d[t]) BY <1>1, <1>2, Zenon DEF Fields
<1>4. \A x \in DOMAIN d.students : Placed(d, d.students[x]) BY <1>1, Zenon DEF LearnersOK
<1>5. \A k \in DOMAIN d.taken : k[1] \in DOMAIN d.students /\ k[2] \in DOMAIN d.trainings
  BY <1>1, Zenon DEF TakenOK
<1> QED BY <1>1, <1>2, <1>3, <1>4, <1>5, Zenon DEF Built

\* The transaction of a chunk goes through, and leaves the copy's tables.
LEMMA FlushIsExact ==
  ASSUME Sound(db), Shaped(db), NEW r \in Requests, NEW view, NEW e, Built(db, e),
         AsTables(view, e), AsTables(imports[r].base, db)
  PROVE  Flushes(r, view) /\ Flushed(r, view) = e
<1> DEFINE base == imports[r].base
           g == Flushed(r, view)
<1>1. /\ DOMAIN e = Fields /\ IsTable(e) /\ \A t \in Copied : IsTable(e[t])
      /\ e.companies = db.companies
      /\ \A t \in Copied : \A k \in DOMAIN db[t] : k \in DOMAIN e[t] /\ e[t][k] = db[t][k]
      /\ \A x \in DOMAIN e.students : Placed(e, e.students[x])
      /\ \A k \in DOMAIN e.taken : k[1] \in DOMAIN e.students /\ k[2] \in DOMAIN e.trainings
  BY Zenon DEF Built
<1>2. \A t \in Copied : view[t] = e[t] /\ base[t] = db[t] BY Zenon DEF AsTables
<1>3. \A t \in Copied : New(r, view, t) = DOMAIN e[t] \ DOMAIN db[t]
  BY <1>2, Zenon DEF New
<1>4. \A t \in Copied : Merged(r, view, t) = e[t]
  <2> SUFFICES ASSUME NEW t \in Copied PROVE Merged(r, view, t) = e[t]
    OBVIOUS
  <2> DEFINE m == Merged(r, view, t)
             n == New(r, view, t)
             v(k) == IF k \notin n THEN db[t][k]
                     ELSE IF t = "taken" /\ k \in DOMAIN db[t] THEN db[t][k] + 1
                     ELSE view[t][k]
  <2>1. m = [k \in DOMAIN db[t] \cup n |-> v(k)] BY Zenon DEF Merged
  <2>2. n = DOMAIN e[t] \ DOMAIN db[t] BY <1>3, Zenon
  <2>3. DOMAIN db[t] \subseteq DOMAIN e[t] BY <1>1
  <2>4. DOMAIN db[t] \cup n = DOMAIN e[t] BY <2>2, <2>3
  <2>5. \A k \in DOMAIN e[t] : v(k) = e[t][k] BY <1>1, <1>2, <2>2
  <2> HIDE DEF v, m, n
  <2>6. m = [k \in DOMAIN e[t] |-> v(k)] BY <2>1, <2>4, Zenon
  <2>7. DOMAIN m = DOMAIN e[t] /\ \A k \in DOMAIN e[t] : m[k] = e[t][k] BY <2>5, <2>6
  <2>8. IsTable(m) BY MergedIsTable, Zenon DEF m
  <2>9. m = e[t] BY <1>1, <2>7, <2>8, SameTable, Zenon
  <2> QED BY <2>9 DEF m
<1>5. g = [companies |-> db.companies, regions |-> e.regions, students |-> e.students,
           trainings |-> e.trainings, taken |-> e.taken]
  BY <1>4, Zenon DEF Flushed, Copied
<1>6. IsTable(g) BY <1>5 DEF IsTable
<1>7. DOMAIN g = Fields /\ \A t \in Fields : g[t] = e[t]
  BY <1>1, <1>5 DEF Fields, Copied
<1> HIDE DEF g
<1>8. g = e BY <1>1, <1>6, <1>7, SameDatabase, Zenon
<1>9. Flushed(r, view) = e BY <1>8 DEF g
<1>10. /\ "regions" \in Copied /\ "students" \in Copied /\ "trainings" \in Copied
       /\ "taken" \in Copied
  BY DEF Copied
<1>11. /\ New(r, view, "regions") \cap DOMAIN db.regions = {}
       /\ New(r, view, "students") \cap DOMAIN db.students = {}
  <2>1. New(r, view, "regions") = DOMAIN e.regions \ DOMAIN db.regions
    BY <1>3, <1>10, Zenon
  <2>2. New(r, view, "students") = DOMAIN e.students \ DOMAIN db.students
    BY <1>3, <1>10, Zenon
  <2> QED BY <2>1, <2>2
<1>12. \A x \in New(r, view, "students") : Placed(e, view.students[x])
  <2>1. New(r, view, "students") \subseteq DOMAIN e.students BY <1>3, <1>10
  <2>2. view.students = e.students BY <1>2, <1>10, Zenon
  <2> QED BY <1>1, <2>1, <2>2
<1>13. \A k \in New(r, view, "taken") : k[1] \in DOMAIN e.students /\ k[2] \in DOMAIN e.trainings
  <2>1. New(r, view, "taken") \subseteq DOMAIN e.taken BY <1>3, <1>10
  <2> QED BY <1>1, <2>1
<1>14. Flushes(r, view) BY <1>9, <1>11, <1>12, <1>13, Zenon DEF Flushes
<1> QED BY <1>9, <1>14

\* What the import of rows the chunks leave alone.
SameImport(n, m) == n.rows = m.rows /\ n.draft = m.draft /\ n.known = m.known
                  /\ n.introduced = m.introduced

LEMMA SameCompanies ==
  ASSUME NEW m, NEW n, SameImport(n, m), NEW scope
  PROVE  /\ \A i : CompanyFor(n, scope, i) = CompanyFor(m, scope, i)
         /\ CompaniesFor(n, scope) = CompaniesFor(m, scope)
         /\ \A d : Placeable(m, scope, d) => Placeable(n, scope, d)
         /\ \A w : Mirror(m, scope, w) => Mirror(n, scope, w)
<1>1. \A i : CompanyFor(n, scope, i) = CompanyFor(m, scope, i)
  BY DEF CompanyFor, SameImport
<1>2. CompaniesFor(n, scope) = CompaniesFor(m, scope)
  BY <1>1, Zenon DEF CompaniesFor, SameImport
<1>3. \A d : Placeable(m, scope, d) => Placeable(n, scope, d)
  BY <1>1, Zenon DEF Placeable, SameImport
<1>4. \A w : Mirror(m, scope, w) => Mirror(n, scope, w)
  BY DEF Mirror, SameImport
<1> QED BY <1>1, <1>2, <1>3, <1>4

\* A chunk, on tables that nobody else writes.
LEMMA ChunkExact ==
  ASSUME IndInv, NEW r \in Requests, ChunkSize \in Nat \ {0}, Shaped(db),
         DOMAIN imports[r].out = CountFields, NEW w, Exactly(req[r], imports[r], w, db),
         ImportChunk(r)
  PROVE  req' = req /\ Exactly(req'[r], imports'[r], w, db')
<1> DEFINE m == imports[r]
           scope == req[r].scope
           X == RowByRow(m.rows, CompaniesFor(m, scope), scope, Before(w, db))
           at == m.at
           N == Len(Chunk(r))
           view == Simulated(r).view
           n == imports'[r]
           end == at + N - 1
           len == Len(m.rows)
<1>1. /\ ReqShape /\ ImportsShape /\ AllSane /\ Sound(db) /\ ImportShape(m)
  BY Zenon DEF IndInv, ImportsShape
<1>2. req[r].pc = "chunk" /\ at <= len BY Zenon DEF ImportChunk
<1>3. Track(m, "chunk", req[r].body.last) BY <1>1, <1>2, Importing
<1>4. m.rows \in Seq(FileRows) /\ at # 0 /\ DOMAIN m.base = Copied BY <1>3 DEF Track
<1>5. /\ at \in Nat /\ len \in Nat /\ DOMAIN m.rows = 1..len
  BY <1>1, <1>4, LenProperties, Zenon DEF ImportShape
<1>6. /\ Sound(w) /\ Shaped(w) /\ Placeable(m, scope, db) /\ Came(m, scope, w, db)
      /\ \A t \in DOMAIN m.base : m.base[t] = db[t]
      /\ req[r].body.file = Export => Mirror(m, scope, w) /\ db.companies = w.companies
  BY <1>2, Zenon DEF Exactly
<1>7. /\ LastOf(r) \in Nat /\ LastOf(r) <= len /\ at <= LastOf(r)
      /\ N = LastOf(r) - at + 1 /\ N \in Nat
      /\ \A k \in 1..N : Chunk(r)[k] = at + k - 1
  BY <1>1, <1>2, ChunkLen, Zenon
<1>8. Takes(r, Copies(r), N) BY <1>7, CopiesTake, Zenon
<1>9. /\ db = X[at - 1].db /\ X[at - 1].rows \subseteq 1..(at - 1)
      /\ m.out.failed = (1..(at - 1)) \ X[at - 1].rows
  BY <1>6, Zenon DEF Came
<1>10. \A k \in 1..len : TakesRow(m.rows, CompaniesFor(m, scope), scope, X, k)
  BY <1>5, RowByRowIs, Zenon
<1>11. \A k \in 1..len : /\ CompaniesFor(m, scope)[k] = CompanyOf(r, k)
                         /\ CompanyOf(r, k) \in {None} \cup DOMAIN db.companies
  <2> SUFFICES ASSUME NEW k \in 1..len
               PROVE  /\ CompaniesFor(m, scope)[k] = CompanyOf(r, k)
                      /\ CompanyOf(r, k) \in {None} \cup DOMAIN db.companies
    OBVIOUS
  <2>1. CompanyOf(r, k) = CompanyFor(m, scope, k) BY CompanyIs, Zenon
  <2>2. k \in DOMAIN m.rows BY <1>5, Zenon
  <2>3. CompaniesFor(m, scope)[k] = CompanyFor(m, scope, k) BY <2>2, Zenon DEF CompaniesFor
  <2>4. CompanyFor(m, scope, k) \in {None} \cup DOMAIN db.companies
    BY <1>6, <2>2, Zenon DEF Placeable
  <2> QED BY <2>1, <2>3, <2>4, Zenon
<1> HIDE DEF X, at, N, len, end
<1>12. \A k \in 1..N :
         /\ X[at + k - 1] = Row(m.rows[at + k - 1], CompanyOf(r, at + k - 1), scope,
                                X[at + k - 2], at + k - 1)
         /\ CompanyOf(r, at + k - 1) \in {None} \cup DOMAIN db.companies
  <2> SUFFICES ASSUME NEW k \in 1..N
               PROVE  /\ X[at + k - 1] = Row(m.rows[at + k - 1], CompanyOf(r, at + k - 1),
                                             scope, X[at + k - 2], at + k - 1)
                      /\ CompanyOf(r, at + k - 1) \in {None} \cup DOMAIN db.companies
    OBVIOUS
  <2>1. at # 0 BY <1>4 DEF at
  <2>2. at + k - 1 \in 1..len /\ (at + k - 1) - 1 = at + k - 2 BY <1>5, <1>7, <2>1
  <2> QED BY <1>10, <1>11, <2>2, Zenon DEF TakesRow
<1>13. Both(db, Untried(r), X[at - 1], at - 1)
  <2> DEFINE y == Untried(r)
  <2>1. /\ DOMAIN y = {"view", "out", "stop"} /\ y.view = m.base /\ y.out = m.out
    BY DEF Untried
  <2> HIDE DEF y
  <2>2. Tracks(y, (1..(at - 1)) \ X[at - 1].rows) BY <1>4, <1>9, <2>1, Zenon DEF Tracks
  <2>3. AsTables(y.view, X[at - 1].db) BY <1>4, <1>6, <1>9, <2>1, Zenon DEF AsTables
  <2>4. Built(db, X[at - 1].db) BY <1>1, <1>9, SoundIsBuilt, Zenon
  <2>5. DOMAIN X[at - 1].db = Fields BY <2>4, Zenon DEF Built
  <2>6. Mirrors(y, X[at - 1], at - 1) BY <1>9, <2>2, <2>3, <2>5, Zenon DEF Mirrors
  <2> QED BY <2>4, <2>6, Zenon DEF Both, y
<1>14. at \in Nat \ {0} BY <1>4, <1>5 DEF at
<1>15. Both(db, Copies(r)[N], X[end], end)
  BY <1>7, <1>8, <1>12, <1>13, <1>14, ChunkMirrors, Zenon DEF end
<1>16. Copies(r)[N] = Simulated(r) BY Zenon DEF Simulated, N
<1>17. /\ Built(db, X[end].db) /\ AsTables(view, X[end].db) /\ X[end].rows \subseteq 1..end
       /\ Simulated(r).out.failed = (1..end) \ X[end].rows
  BY <1>15, <1>16, Zenon DEF Both, Mirrors, Tracks
<1>18. AsTables(m.base, db) BY <1>4, <1>6, Zenon DEF AsTables
<1>19. Flushes(r, view) /\ Flushed(r, view) = X[end].db
  BY <1>1, <1>17, <1>18, FlushIsExact, Zenon
<1>20. end = LastOf(r) /\ (LastOf(r) + 1) - 1 = end /\ LastOf(r) + 1 \in 1..(len + 1)
  BY <1>5, <1>7, <1>14 DEF end
<1>21. /\ req' = req /\ db' = X[end].db
       /\ imports' = [imports EXCEPT ![r].base = view, ![r].out = Simulated(r).out,
                                     ![r].at = LastOf(r) + 1]
  BY <1>19, Zenon DEF ImportChunk, CommittedCopy
<1> HIDE DEF view
<1>22. n.base = view /\ n.at = LastOf(r) + 1 /\ n.out = Simulated(r).out
  BY <1>1, <1>21 DEF ImportsShape, ImportShape
<1>23. SameImport(n, m) BY <1>1, <1>21 DEF ImportsShape, ImportShape, SameImport
<1> HIDE DEF n
<1>24. db'.companies = db.companies BY <1>17, <1>21, Zenon DEF Built
<1>25. /\ Placeable(n, scope, db') /\ CompaniesFor(n, scope) = CompaniesFor(m, scope)
       /\ Mirror(m, scope, w) => Mirror(n, scope, w)
  <2>1. Placeable(m, scope, db') BY <1>6, <1>24, Zenon DEF Placeable
  <2> QED BY <1>23, <2>1, SameCompanies, Zenon
<1>26. Came(n, scope, w, db')
  <2>1. Before(w, db') = Before(w, db) BY <1>24, Zenon DEF Before
  <2>2. n.rows = m.rows BY <1>23, Zenon DEF SameImport
  <2>3. RowByRow(n.rows, CompaniesFor(n, scope), scope, Before(w, db')) = X
    BY <1>25, <2>1, <2>2, Zenon DEF X
  <2>4. n.at - 1 = end BY <1>20, <1>22
  <2> QED BY <1>17, <1>21, <1>22, <2>3, <2>4, Zenon DEF Came
<1>27. \A t \in DOMAIN n.base : n.base[t] = db'[t]
  <2>1. DOMAIN n.base = Copied BY <1>15, <1>16, <1>22, Zenon DEF Both, Mirrors, Tracks, view
  <2> QED BY <1>17, <1>21, <1>22, <2>1, Zenon DEF AsTables
<1>28. n.at \in 1..(Len(n.rows) + 1) BY <1>20, <1>22, <1>23, Zenon DEF SameImport, len
<1>29. req'[r] = req[r] BY <1>21
<1>30. Exactly(req[r], n, w, db')
  BY <1>2, <1>6, <1>24, <1>25, <1>26, <1>27, <1>28 DEF Exactly
<1> QED BY <1>21, <1>29, <1>30, Zenon DEF n

\* An import that has read its tables and no row.
LEMMA FirstCame ==
  ASSUME NEW m, Len(m.rows) \in Nat, AtFirst(m), NEW scope, NEW w, NEW d, d = Before(w, d)
  PROVE  Came(m, scope, w, d) /\ m.at \in 1..(Len(m.rows) + 1)
<1> DEFINE X == RowByRow(m.rows, CompaniesFor(m, scope), scope, Before(w, d))
<1>1. TakesNone(X, Before(w, d)) BY RowByRowIs, Zenon
<1> HIDE DEF X
<1>2. X[0].rows = {} /\ X[0].db = d BY <1>1 DEF TakesNone
<1>3. m.at = 1 /\ m.out.failed = {} BY Zenon DEF AtFirst
<1>4. m.at - 1 = 0 /\ 1..(m.at - 1) = {} /\ m.at \in 1..(Len(m.rows) + 1) BY <1>3
<1>5. /\ d = X[m.at - 1].db /\ X[m.at - 1].rows \subseteq 1..(m.at - 1)
      /\ m.out.failed = (1..(m.at - 1)) \ X[m.at - 1].rows
  BY <1>2, <1>3, <1>4
<1> QED BY <1>4, <1>5, Zenon DEF Came, X

\* A request with another step, and the rest the same.
LEMMA PcMoves ==
  ASSUME ReqShape, NEW r \in Requests, NEW p, req' = [req EXCEPT ![r].pc = p]
  PROVE  /\ req'[r].pc = p /\ req'[r].scope = req[r].scope /\ req'[r].body = req[r].body
         /\ req'[r].op = req[r].op /\ req'[r].outcome = req[r].outcome
<1> DEFINE q == [req[r] EXCEPT !.pc = p]
<1>1. req'[r] = q BY DEF ReqShape
<1>2. q.pc = p /\ q.scope = req[r].scope /\ q.body = req[r].body BY DEF ReqShape
<1>3. q.op = req[r].op /\ q.outcome = req[r].outcome BY DEF ReqShape
<1> HIDE DEF q
<1> QED BY <1>1, <1>2, <1>3, Zenon

\* A table is read.
LEMMA ReadExact ==
  ASSUME IndInv, NEW r \in Requests, NEW w, Exactly(req[r], imports[r], w, db), ImportReads(r)
  PROVE  Exactly(req'[r], imports'[r], w, db') /\ req'[r].op = req[r].op
<1> DEFINE m == imports[r]
           base == m.base
           t == Tables[Cardinality(DOMAIN base) + 1]
           n == imports'[r]
           scope == req[r].scope
<1>1. ReqShape /\ ImportsShape /\ ImportShape(m) BY Zenon DEF IndInv, ImportsShape
<1>2. /\ req[r].pc = "read" /\ db' = db
      /\ imports' = [imports EXCEPT ![r].base = Put(@, t, db[t])]
      /\ req' = [req EXCEPT ![r].pc = IF t = "taken" THEN "chunk" ELSE @]
  BY Zenon DEF ImportReads
<1> HIDE DEF t
<1>3. n.base = Put(base, t, db[t]) BY <1>1, <1>2 DEF ImportsShape, ImportShape
<1>4. SameImport(n, m) BY <1>1, <1>2 DEF ImportsShape, ImportShape, SameImport
<1>5. n.at = m.at /\ n.out = m.out BY <1>1, <1>2 DEF ImportsShape, ImportShape
<1> DEFINE p == IF t = "taken" THEN "chunk" ELSE "read"
<1>6. req' = [req EXCEPT ![r].pc = p] BY <1>1, <1>2 DEF ReqShape
<1>7. p \in {"read", "chunk"} OBVIOUS
<1> HIDE DEF n, p
<1>8. /\ req'[r].pc = p /\ req'[r].scope = scope /\ req'[r].body = req[r].body
      /\ req'[r].op = req[r].op
  BY <1>1, <1>6, PcMoves, Zenon
<1>9. /\ Sound(w) /\ Shaped(w) /\ Placeable(m, scope, db) /\ AtFirst(m)
      /\ \A u \in DOMAIN base : base[u] = db[u]
      /\ db = Before(w, db)
      /\ req[r].body.file = Export => Mirror(m, scope, w) /\ db.companies = w.companies
  BY <1>2 DEF Exactly
<1>10. Placeable(n, scope, db) /\ (Mirror(m, scope, w) => Mirror(n, scope, w))
  BY <1>4, <1>9, SameCompanies, Zenon
<1>11. AtFirst(n) BY <1>5, <1>9, Zenon DEF AtFirst
<1>12. Len(n.rows) \in Nat BY <1>1, <1>4, Zenon DEF ImportShape, SameImport
<1>13. Came(n, scope, w, db) /\ n.at \in 1..(Len(n.rows) + 1)
  BY <1>9, <1>11, <1>12, FirstCame, Zenon
<1>14. \A u \in DOMAIN n.base : n.base[u] = db[u]
  <2>1. IsPut(n.base, base, t, db[t]) BY <1>3, PutIs, Zenon
  <2> QED BY <1>9, <2>1 DEF IsPut
<1>15. Exactly(req'[r], n, w, db)
  BY <1>7, <1>8, <1>9, <1>10, <1>11, <1>13, <1>14 DEF Exactly
<1> QED BY <1>2, <1>8, <1>15, Zenon DEF n

\* The companies of an import's rows exist once those it introduces do.
LEMMA IntroducedPlaced ==
  ASSUME NEW m, NEW d, DraftOK(m, d), m.introduced = <<>>, NEW scope
  PROVE  Placeable(m, scope, d)
<1> SUFFICES ASSUME NEW i \in DOMAIN m.rows
             PROVE  CompanyFor(m, scope, i) \in {None} \cup DOMAIN d.companies
  BY Zenon DEF Placeable
<1>1. \/ m.draft[i] = None
      \/ m.draft[i] \in DOMAIN m.known
      \/ \E j \in DOMAIN m.introduced : m.draft[i] = m.introduced[j]
  BY Zenon DEF DraftOK
<1>2. DOMAIN m.introduced = {} OBVIOUS
<1>3. \A n \in DOMAIN m.known : m.known[n] \in DOMAIN d.companies BY Zenon DEF DraftOK
<1> QED BY <1>1, <1>2, <1>3 DEF CompanyFor

\* The companies are created, or one was there already.
LEMMA CompaniesExact ==
  ASSUME IndInv, NEW r \in Requests, NEW w, Exactly(req[r], imports[r], w, db),
         ImportCompanies(r)
  PROVE  Exactly(req'[r], imports'[r], w, db') /\ req'[r].op = req[r].op
<1> DEFINE m == imports[r]
           new == m.introduced
           scope == req[r].scope
           q == [req[r] EXCEPT !.pc = "done", !.outcome = "error"]
<1>1. ReqShape /\ ImportsShape /\ ImportShape(m) BY Zenon DEF IndInv, ImportsShape
<1>2. req[r].pc = "companies" BY Zenon DEF ImportCompanies
<1>3. /\ Sound(w) /\ Shaped(w) /\ db = w /\ new # <<>> /\ AtFirst(m) /\ DraftOK(m, db)
      /\ req[r].body.file = Export => Mirror(m, scope, w)
  BY <1>2 DEF Exactly
<1>4. req[r].body.file # Export BY <1>3, Zenon DEF Mirror
<1>5. CASE \E i \in DOMAIN new : NameTaken(new[i], None)
  <2>1. /\ req' = [req EXCEPT ![r].pc = "done", ![r].outcome = "error"]
        /\ UNCHANGED <<db, imports>>
    BY <1>5, Zenon DEF ImportCompanies
  <2>2. req'[r] = q BY <1>1, <2>1 DEF ReqShape
  <2>3. q.pc = "done" /\ q.outcome = "error" BY <1>1 DEF ReqShape
  <2>4. q.body = req[r].body /\ q.op = req[r].op BY <1>1 DEF ReqShape
  <2> HIDE DEF q
  <2>5. Exactly(q, m, w, db) BY <1>3, <1>4, <2>3, <2>4 DEF Exactly
  <2> QED BY <2>1, <2>2, <2>4, <2>5, Zenon
<1>6. CASE ~\E i \in DOMAIN new : NameTaken(new[i], None)
  <2>a. PICK f \in [DOMAIN new -> FreeIds] :
          /\ db' = [db EXCEPT !.companies =
               [id \in DOMAIN @ \cup {f[i] : i \in DOMAIN new} |->
                  IF id \in DOMAIN @ THEN @[id] ELSE new[CHOOSE i \in DOMAIN new : f[i] = id]]]
          /\ imports' = [imports EXCEPT ![r].known =
               [n \in DOMAIN @ \cup {new[i] : i \in DOMAIN new} |->
                  IF n \in DOMAIN @ THEN @[n] ELSE f[CHOOSE i \in DOMAIN new : new[i] = n]]]
          /\ req' = [req EXCEPT ![r].pc = "read"]
    BY <1>6, Zenon DEF ImportCompanies
  <2> DEFINE c == [id \in DOMAIN db.companies \cup {f[i] : i \in DOMAIN new} |->
                     IF id \in DOMAIN db.companies THEN db.companies[id]
                     ELSE new[CHOOSE i \in DOMAIN new : f[i] = id]]
             k == [n \in DOMAIN m.known \cup {new[i] : i \in DOMAIN new} |->
                     IF n \in DOMAIN m.known THEN m.known[n]
                     ELSE f[CHOOSE i \in DOMAIN new : new[i] = n]]
             n == imports'[r]
             e == [db EXCEPT !.companies = c]
  <2>1. db' = e BY <2>a, Zenon
  <2>2. imports' = [imports EXCEPT ![r].known = k] BY <2>a, Zenon
  <2>3. DOMAIN c = DOMAIN db.companies \cup {f[i] : i \in DOMAIN new} OBVIOUS
  <2>4. /\ DOMAIN k = DOMAIN m.known \cup {new[i] : i \in DOMAIN new}
        /\ \A x \in DOMAIN k : k[x] = IF x \in DOMAIN m.known THEN m.known[x]
                                      ELSE f[CHOOSE i \in DOMAIN new : new[i] = x]
    OBVIOUS
  <2>5. DOMAIN db = Fields BY SoundParts, Zenon DEF IndInv
  <2> HIDE DEF c, k
  <2>6. e.companies = c BY <2>5, FieldsOfTables
  <2>7. e = Before(w, e) BY <1>3, <2>6, Zenon DEF Before
  <2> HIDE DEF e
  <2>8. n.known = k BY <1>1, <2>2 DEF ImportsShape, ImportShape
  <2>9. n.rows = m.rows /\ n.draft = m.draft BY <1>1, <2>2 DEF ImportsShape, ImportShape
  <2>10. n.at = m.at /\ n.out = m.out BY <1>1, <2>2 DEF ImportsShape, ImportShape
  <2>11. n.base = m.base BY <1>1, <2>2 DEF ImportsShape, ImportShape
  <2> HIDE DEF n
  <2>12. DOMAIN m.base = {} BY <1>2 DEF IndInv, AllSane, Sane, Track
  <2>13. AtFirst(n) BY <1>3, <2>10, Zenon DEF AtFirst
  <2>14. \A x \in DOMAIN k : k[x] \in DOMAIN c
    <3> SUFFICES ASSUME NEW x \in DOMAIN k PROVE k[x] \in DOMAIN c
      OBVIOUS
    <3>1. CASE x \in DOMAIN m.known
      <4>1. k[x] = m.known[x] BY <2>4, <3>1, Zenon
      <4>2. m.known[x] \in DOMAIN db.companies BY <1>3, <3>1, Zenon DEF DraftOK
      <4> QED BY <2>3, <4>1, <4>2
    <3>2. CASE x \notin DOMAIN m.known
      <4> DEFINE j == CHOOSE i \in DOMAIN new : new[i] = x
      <4>1. \E i \in DOMAIN new : new[i] = x BY <2>4, <3>2
      <4>2. j \in DOMAIN new BY <4>1, Zenon
      <4>3. k[x] = f[j] BY <2>4, <3>2, Zenon
      <4> HIDE DEF j
      <4> QED BY <2>3, <4>2, <4>3
    <3> QED BY <3>1, <3>2
  <2>15. Placeable(n, scope, e)
    <3> SUFFICES ASSUME NEW i \in DOMAIN n.rows
                 PROVE  CompanyFor(n, scope, i) \in {None} \cup DOMAIN e.companies
      BY Zenon DEF Placeable
    <3>1. m.draft[i] = None \/ m.draft[i] \in DOMAIN k
      BY <1>3, <2>4, <2>9 DEF DraftOK
    <3> QED BY <2>6, <2>8, <2>9, <2>14, <3>1 DEF CompanyFor
  <2>16. /\ req'[r].pc = "read" /\ req'[r].scope = scope /\ req'[r].body = req[r].body
         /\ req'[r].op = req[r].op
    BY <1>1, <2>a, PcMoves, Zenon
  <2>17. Exactly(req'[r], n, w, e)
    BY <1>3, <1>4, <2>7, <2>11, <2>12, <2>13, <2>15, <2>16 DEF Exactly
  <2> QED BY <2>1, <2>16, <2>17, Zenon DEF n
<1> QED BY <1>5, <1>6

\* The last row is past.
LEMMA EndExact ==
  ASSUME IndInv, NEW r \in Requests, NEW w, Exactly(req[r], imports[r], w, db), ImportEnds(r)
  PROVE  Exactly(req'[r], imports'[r], w, db') /\ req'[r].op = req[r].op
<1> DEFINE m == imports[r]
           q == [req[r] EXCEPT !.pc = "done", !.outcome = "ok"]
<1>1. ReqShape /\ ImportShape(m) BY Zenon DEF IndInv, ImportsShape
<1>2. /\ req[r].pc = "chunk" /\ m.at > Len(m.rows) /\ db' = db /\ imports' = imports
      /\ req' = [req EXCEPT ![r].pc = "done", ![r].outcome = "ok"]
  BY Zenon DEF ImportEnds
<1>3. req'[r] = q BY <1>1, <1>2 DEF ReqShape
<1>4. q.pc = "done" /\ q.outcome = "ok" BY <1>1 DEF ReqShape
<1>5. q.body = req[r].body /\ q.op = req[r].op /\ q.scope = req[r].scope
  BY <1>1 DEF ReqShape
<1> HIDE DEF q
<1>6. /\ Sound(w) /\ Shaped(w) /\ Came(m, req[r].scope, w, db)
      /\ m.at \in 1..(Len(m.rows) + 1)
      /\ req[r].body.file = Export => Mirror(m, req[r].scope, w) /\ db.companies = w.companies
  BY <1>2 DEF Exactly
<1>7. m.at = Len(m.rows) + 1 BY <1>1, <1>2, <1>6 DEF ImportShape
<1>a. m.rows \in Seq(FileRows)
  <2>1. AllSane BY Zenon DEF IndInv
  <2>2. Track(m, "chunk", req[r].body.last) BY <1>2, <2>1, Importing
  <2> QED BY <2>2 DEF Track
<1>8. Exactly(q, m, w, db) BY <1>4, <1>5, <1>6, <1>7, <1>a DEF Exactly
<1> QED BY <1>2, <1>3, <1>5, <1>8, Zenon

-----------------------------------------------------------------------------
\* The companies of an import's rows, as it begins.

\* A company that exists, or is to be introduced.
Nameable(x, names, v) ==
  v = None \/ v \in names \/ \E j \in DOMAIN x.introduced : v = x.introduced[j]

\* After n rows: so are those of the rows, and what is remembered; and a file of existing
\* companies introduces none.
Recalls(x, names, n, known) ==
  /\ DOMAIN x = {"cache", "introduced", "draft"} /\ x.introduced \in Seq(Names)
  /\ x.draft \in Seq(Names \cup {None}) /\ Len(x.draft) = n
  /\ \A i \in DOMAIN x.draft : Nameable(x, names, x.draft[i])
  /\ \A k \in DOMAIN x.cache : Nameable(x, names, x.cache[k]) /\ x.cache[k] \in Names
  /\ known => x.introduced = <<>>

LEMMA MetRecalls ==
  ASSUME NEW x, NEW names, names \subseteq Names, NEW n \in Nat, NEW known,
         Recalls(x, names, n, known), NEW row \in FileRows, known => row.company \in names,
         NEW default \in names \cup {None}, NEW super
  PROVE  Recalls(Met(x, row, names, default, super), names, n + 1, known)
<1> DEFINE c == row.company
           low == Lower(c)
           y == Met(x, row, names, default, super)
<1>1. c \in Names \cup {Blank} BY FileRowTyped
<1>2. \/ y = [x EXCEPT !.draft = Append(@, None)]
      \/ y = [x EXCEPT !.draft = Append(@, default)]
      \/ /\ low \in DOMAIN x.cache
         /\ y = [x EXCEPT !.draft = Append(@, x.cache[low])]
      \/ /\ c \in names
         /\ y = [x EXCEPT !.draft = Append(@, c), !.cache = Put(@, low, c)]
      \/ /\ c \notin names /\ c # Blank
         /\ y = [x EXCEPT !.draft = Append(@, c), !.cache = Put(@, low, c),
                          !.introduced = Append(@, c)]
  BY Zenon DEF Met
<1>3. /\ DOMAIN x = {"cache", "introduced", "draft"} /\ x.introduced \in Seq(Names)
      /\ x.draft \in Seq(Names \cup {None}) /\ Len(x.draft) = n
      /\ \A i \in DOMAIN x.draft : Nameable(x, names, x.draft[i])
      /\ \A k \in DOMAIN x.cache : Nameable(x, names, x.cache[k]) /\ x.cache[k] \in Names
      /\ known => x.introduced = <<>>
  BY Zenon DEF Recalls
<1> DEFINE V == Names \cup {None}
<1>4. \A v \in V : /\ Append(x.draft, v) \in Seq(V) /\ Len(Append(x.draft, v)) = n + 1
                   /\ DOMAIN Append(x.draft, v) = 1..(n + 1) /\ DOMAIN x.draft = 1..n
                   /\ Append(x.draft, v)[n + 1] = v
                   /\ \A i \in 1..n : Append(x.draft, v)[i] = x.draft[i]
  <2>1. x.draft \in Seq(V) /\ Len(x.draft) = n BY <1>3
  <2> HIDE DEF V
  <2> QED BY <2>1
<1> HIDE DEF y, V, low, c
\* One more draft, on what was introduced before.
<1>5. ASSUME NEW v \in V, Nameable(x, names, v), NEW z, NEW cache,
             DOMAIN z = DOMAIN x, z.draft = Append(x.draft, v), z.cache = cache,
             z.introduced = x.introduced,
             \A k \in DOMAIN cache : Nameable(x, names, cache[k]) /\ cache[k] \in Names
      PROVE  Recalls(z, names, n + 1, known)
  <2> DEFINE more == Append(x.draft, v)
  <2>1. more \in Seq(V) /\ Len(more) = n + 1 /\ DOMAIN more = 1..(n + 1)
        /\ DOMAIN x.draft = 1..n /\ more[n + 1] = v /\ \A i \in 1..n : more[i] = x.draft[i]
    BY <1>4
  <2>3. DOMAIN z = DOMAIN x /\ z.draft = more /\ z.cache = cache
        /\ z.introduced = x.introduced
    BY <1>5, Zenon
  <2> HIDE DEF more
  <2>4. \A i \in DOMAIN more : Nameable(x, names, more[i]) BY <1>3, <1>5, <2>1
  <2>5. \A e : Nameable(x, names, e) <=> Nameable(z, names, e) BY <2>3, Zenon DEF Nameable
  <2> QED BY <1>3, <1>5, <2>1, <2>3, <2>4, <2>5, Zenon DEF Recalls, V
<1>6. ASSUME NEW v, y = [x EXCEPT !.draft = Append(@, v)]
      PROVE  /\ DOMAIN y = DOMAIN x /\ y.draft = Append(x.draft, v) /\ y.cache = x.cache
             /\ y.introduced = x.introduced
  <2> DEFINE more == Append(x.draft, v)
  <2>1. y = [x EXCEPT !.draft = more] BY <1>6, Zenon
  <2> HIDE DEF more
  <2>2. DOMAIN y = DOMAIN x /\ y.draft = more /\ y.cache = x.cache
        /\ y.introduced = x.introduced
    BY <1>3, <2>1
  <2> QED BY <2>2, Zenon DEF more
<1>7. None \in V /\ default \in V BY DEF V
<1>8. CASE y = [x EXCEPT !.draft = Append(@, None)]
  <2>1. Nameable(x, names, None) BY DEF Nameable
  <2>2. /\ DOMAIN y = DOMAIN x /\ y.draft = Append(x.draft, None) /\ y.cache = x.cache
        /\ y.introduced = x.introduced
    BY <1>6, <1>8, Zenon
  <2> QED BY <1>3, <1>5, <1>7, <2>1, <2>2, Zenon DEF y
<1>9. CASE y = [x EXCEPT !.draft = Append(@, default)]
  <2>1. Nameable(x, names, default) BY DEF Nameable
  <2>2. /\ DOMAIN y = DOMAIN x /\ y.draft = Append(x.draft, default) /\ y.cache = x.cache
        /\ y.introduced = x.introduced
    BY <1>6, <1>9, Zenon
  <2> QED BY <1>3, <1>5, <1>7, <2>1, <2>2, Zenon DEF y
<1>10. CASE /\ low \in DOMAIN x.cache
            /\ y = [x EXCEPT !.draft = Append(@, x.cache[low])]
  <2> DEFINE v == x.cache[low]
  <2>1. Nameable(x, names, v) /\ v \in V BY <1>3, <1>10 DEF V
  <2> HIDE DEF v
  <2>2. /\ DOMAIN y = DOMAIN x /\ y.draft = Append(x.draft, v) /\ y.cache = x.cache
        /\ y.introduced = x.introduced
    BY <1>6, <1>10, Zenon DEF v
  <2> QED BY <1>3, <1>5, <2>1, <2>2, Zenon DEF y
<1>11. CASE /\ c \in names
            /\ y = [x EXCEPT !.draft = Append(@, c), !.cache = Put(@, low, c)]
  <2> DEFINE cache == Put(x.cache, low, c)
  <2>1. Nameable(x, names, c) /\ c \in V /\ c \in Names BY <1>11 DEF Nameable, V
  <2> DEFINE more == Append(x.draft, c)
  <2>a. y = [x EXCEPT !.draft = more, !.cache = cache] BY <1>11, Zenon
  <2>3. IsPut(cache, x.cache, low, c) BY PutIs, Zenon
  <2> HIDE DEF more, cache
  <2>b. /\ DOMAIN y = DOMAIN x /\ y.draft = more /\ y.cache = cache
        /\ y.introduced = x.introduced
    BY <1>3, <2>a
  <2>2. y.draft = Append(x.draft, c) BY <2>b DEF more
  <2>4. \A k \in DOMAIN cache : Nameable(x, names, cache[k]) /\ cache[k] \in Names
    BY <1>3, <2>1, <2>3 DEF IsPut
  <2> QED BY <1>5, <2>1, <2>2, <2>b, <2>4, Zenon DEF y
<1>12. CASE /\ c \notin names /\ c # Blank
            /\ y = [x EXCEPT !.draft = Append(@, c), !.cache = Put(@, low, c),
                             !.introduced = Append(@, c)]
  <2> DEFINE cache == Put(x.cache, low, c)
             more == Append(x.draft, c)
             new == Append(x.introduced, c)
             old == x.introduced
  <2>1. c \in Names /\ c \in V /\ ~known BY <1>1, <1>12 DEF c, V
  <2>2. y = [x EXCEPT !.draft = more, !.cache = cache, !.introduced = new] BY <1>12, Zenon
  <2>3. IsPut(cache, x.cache, low, c) BY PutIs, Zenon
  <2>4. /\ new \in Seq(Names) /\ DOMAIN new = 1..(Len(old) + 1) /\ Len(old) \in Nat
        /\ DOMAIN old = 1..Len(old)
        /\ new[Len(old) + 1] = c /\ \A i \in 1..Len(old) : new[i] = old[i]
    BY <1>3, <2>1
  <2>5. more \in Seq(V) /\ Len(more) = n + 1 /\ DOMAIN more = 1..(n + 1)
        /\ DOMAIN x.draft = 1..n /\ more[n + 1] = c /\ \A i \in 1..n : more[i] = x.draft[i]
    BY <1>4, <2>1
  <2> HIDE DEF cache, more, new, old
  <2>6. DOMAIN y = DOMAIN x /\ y.draft = more /\ y.cache = cache /\ y.introduced = new
    BY <1>3, <2>2
  <2>7. Nameable(y, names, c)
    <3>1. Len(old) + 1 \in DOMAIN new BY <2>4
    <3> QED BY <2>4, <2>6, <3>1, Zenon DEF Nameable
  <2>8. \A e : Nameable(x, names, e) => Nameable(y, names, e)
    <3>1. \A j \in DOMAIN old : j \in DOMAIN new /\ new[j] = old[j] BY <2>4
    <3> QED BY <2>6, <3>1, Zenon DEF Nameable, old
  <2>9. \A i \in DOMAIN more : Nameable(y, names, more[i]) BY <1>3, <2>5, <2>7, <2>8
  <2>10. \A k \in DOMAIN cache : Nameable(y, names, cache[k]) /\ cache[k] \in Names
    BY <1>3, <2>1, <2>3, <2>7, <2>8 DEF IsPut
  <2> QED
    BY <1>3, <2>1, <2>4, <2>5, <2>6, <2>9, <2>10, Zenon DEF Recalls, V, y
<1> QED BY <1>2, <1>8, <1>9, <1>10, <1>11, <1>12, Zenon DEF y

LEMMA DraftRecalls ==
  ASSUME NEW rows \in Seq(FileRows), NEW names, names \subseteq Names,
         NEW default \in names \cup {None}, NEW super, NEW known,
         known => \A i \in DOMAIN rows : rows[i].company \in names
  PROVE  Recalls(Drafted(rows, names, default, super), names, Len(rows), known)
<1>1. Len(rows) \in Nat /\ DOMAIN rows = 1..Len(rows) BY LenProperties
<1>2. PICK x : /\ Drafts(rows, names, default, super, x, Len(rows))
               /\ Drafted(rows, names, default, super) = x[Len(rows)]
  BY <1>1, DraftIs, Zenon
<1> DEFINE w(c, n) == Met(c, rows[n], names, default, super)
           none == Unmet(default)
           holds(n) == Recalls(x[n], names, n, known)
           bad == {n \in 0..Len(rows) : ~holds(n)}
<1>3. x = [n \in 0..Len(rows) |-> IF n = 0 THEN none ELSE w(x[n - 1], n)]
  BY <1>2, Zenon DEF Drafts
<1>4. \A c, n : n \in 1..Len(rows) /\ Recalls(c, names, n - 1, known)
        => Recalls(w(c, n), names, n, known)
  <2> SUFFICES ASSUME NEW c, NEW n \in 1..Len(rows), Recalls(c, names, n - 1, known)
               PROVE  Recalls(w(c, n), names, n, known)
    OBVIOUS
  <2>1. n - 1 \in Nat /\ (n - 1) + 1 = n /\ n \in Nat \ {0} /\ n <= Len(rows) BY <1>1
  <2>2. rows[n] \in FileRows BY <2>1, RowsAt, Zenon
  <2>3. known => rows[n].company \in names BY <1>1
  <2>4. Recalls(w(c, n), names, (n - 1) + 1, known) BY <2>1, <2>2, <2>3, MetRecalls, Zenon
  <2> QED BY <2>1, <2>4, Zenon
<1>5. Recalls(none, names, 0, known)
  <2>1. DOMAIN none = {"cache", "introduced", "draft"} BY DEF Unmet
  <2>2. none.introduced = <<>> BY DEF Unmet
  <2>3. none.draft = <<>> BY DEF Unmet
  <2>4. none.cache = IF default = None THEN <<>> ELSE [k \in {Lower(default)} |-> default]
    BY DEF Unmet
  <2>5. /\ <<>> \in Seq(Names) /\ DOMAIN <<>> = {} /\ Len(<<>>) = 0
        /\ <<>> \in Seq(Names \cup {None})
    OBVIOUS
  <2> HIDE DEF none
  <2>6. \A k \in DOMAIN none.cache : none.cache[k] \in names
    <3>1. CASE default = None BY <2>4, <2>5, <3>1
    <3>2. CASE default # None
      <4>1. none.cache = [k \in {Lower(default)} |-> default] BY <2>4, <3>2, Zenon
      <4>2. default \in names BY <3>2
      <4> QED BY <4>1, <4>2
    <3> QED BY <3>1, <3>2
  <2>7. \A k \in DOMAIN none.cache :
          Nameable(none, names, none.cache[k]) /\ none.cache[k] \in Names
    BY <2>6 DEF Nameable
  <2>8. \A i \in DOMAIN none.draft : Nameable(none, names, none.draft[i]) BY <2>3, <2>5
  <2> QED BY <2>1, <2>2, <2>3, <2>5, <2>7, <2>8, Zenon DEF Recalls
<1> HIDE DEF w, none
<1>6. \A n \in 0..Len(rows) : x[n] = IF n = 0 THEN none ELSE w(x[n - 1], n) BY <1>3
<1> HIDE DEF holds
<1>7. ASSUME bad # {} PROVE FALSE
  <2>1. bad \in SUBSET Nat OBVIOUS
  <2>2. PICK k \in bad : \A y \in bad : k <= y BY <1>7, <2>1, LeastIsThere, Zenon
  <2>3. k \in 0..Len(rows) /\ ~holds(k) OBVIOUS
  <2>4. k # 0
    <3>1. 0 \in 0..Len(rows) BY <1>1
    <3>2. x[0] = none BY <1>6, <3>1
    <3>3. holds(0) BY <1>5, <3>2, Zenon DEF holds
    <3> QED BY <2>3, <3>3, Zenon
  <2>5. k - 1 \in 0..Len(rows) /\ ~(k <= k - 1) /\ k \in 1..Len(rows)
    BY <1>1, <2>3, <2>4
  <2>6. k - 1 \notin bad BY <2>2, <2>5
  <2>7. Recalls(x[k - 1], names, k - 1, known) BY <2>5, <2>6 DEF holds
  <2>8. x[k] = w(x[k - 1], k) BY <1>6, <2>3, <2>4
  <2>9. holds(k) BY <1>4, <2>5, <2>7, <2>8, Zenon DEF holds
  <2> QED BY <2>3, <2>9, Zenon
<1>8. Len(rows) \in 0..Len(rows) BY <1>1
<1>9. holds(Len(rows)) BY <1>7, <1>8
<1> QED BY <1>2, <1>9, Zenon DEF holds

\* A row is what an export of w writes of a completion k.
Shows(row, k, scope, w) ==
  /\ k \in DOMAIN w.taken /\ row.title = k[2] /\ row.date = k[3]
  /\ row.country = w.students[k[1]].country /\ w.students[k[1]].company \in scope

LEMMA ExportShows ==
  ASSUME Sound(db), NEW scope
  PROVE  \A i \in DOMAIN Exported(scope) :
           /\ Exported(scope)[i].company \in CompanyNames
           /\ \E k : Shows(Exported(scope)[i], k, scope, db) /\ Exported(scope)[i].email = k[1]
<1> DEFINE row(k) == LET s == db.students[k[1]] IN
              [email |-> k[1], title |-> k[2], date |-> k[3], country |-> s.country,
               theatre |-> s.theatre, company |-> db.companies[s.company], valid |-> TRUE]
           keys == {x \in DOMAIN db.taken : db.students[x[1]].company \in scope}
           S == {row(k) : k \in keys}
           file == Exported(scope)
<1>1. file = SetToSeq(S) BY DEF Exported
<1>2. /\ LearnersOK(db.students, db) /\ TakenOK(db.taken, db.students, db.trainings)
  BY SoundParts, Zenon
<1>3. \A k \in keys : /\ Shows(row(k), k, scope, db) /\ row(k).email = k[1]
                      /\ row(k).company \in CompanyNames
  <2> SUFFICES ASSUME NEW k \in keys
               PROVE  /\ Shows(row(k), k, scope, db) /\ row(k).email = k[1]
                      /\ row(k).company \in CompanyNames
    BY Zenon
  <2> DEFINE s == db.students[k[1]]
             z == row(k)
  <2>1. k[1] \in DOMAIN db.students BY <1>2 DEF TakenOK
  <2>2. s.company \in DOMAIN db.companies BY <1>2, <2>1 DEF LearnersOK, Placed
  <2>3. z.email = k[1] /\ z.title = k[2] /\ z.date = k[3] OBVIOUS
  <2>4. z.country = s.country /\ z.company = db.companies[s.company] OBVIOUS
  <2>5. k \in DOMAIN db.taken /\ s.company \in scope OBVIOUS
  <2>6. z.company \in CompanyNames BY <2>2, <2>4, Zenon DEF CompanyNames
  <2> HIDE DEF z
  <2>7. Shows(z, k, scope, db) BY <2>3, <2>4, <2>5, Zenon DEF Shows
  <2> QED BY <2>3, <2>6, <2>7, Zenon DEF z
<1>4. IsFiniteSet(S)
  <2>1. IsFiniteSet(keys)
    <3>1. IsFiniteSet(DOMAIN db.taken) BY <1>2, Zenon DEF TakenOK
    <3>2. keys \subseteq DOMAIN db.taken OBVIOUS
    <3> QED BY <3>1, <3>2, FS_Subset
  <2> HIDE DEF row, keys
  <2>2. [k \in keys |-> row(k)] \in Surjection(keys, S) BY DEF Surjection
  <2> HIDE DEF S
  <2> QED BY <2>1, <2>2, FS_Surjection
<1> HIDE DEF row, keys
<1>5. \A x \in S : \E k \in keys : x = row(k) BY Zenon
<1> HIDE DEF S, file
<1>6. file \in Seq(S) BY <1>1, <1>4, SetAsSeq
<1>7. \A i \in DOMAIN file : file[i] \in S BY <1>6
<1>8. \A i \in DOMAIN file : \E k \in keys : file[i] = row(k) BY <1>5, <1>7, Zenon
<1>9. ASSUME NEW i \in DOMAIN file
      PROVE  /\ file[i].company \in CompanyNames
             /\ \E k : Shows(file[i], k, scope, db) /\ file[i].email = k[1]
  <2>1. PICK k \in keys : file[i] = row(k) BY <1>8, Zenon
  <2>2. Shows(file[i], k, scope, db) /\ file[i].email = k[1]
        /\ file[i].company \in CompanyNames
    BY <1>3, <2>1, Zenon
  <2> QED BY <2>2, Zenon
<1> QED BY <1>9, Zenon DEF file

\* The rows of a file, their emails in lower case.
Lowered(rows, file) ==
  rows = [i \in DOMAIN file |-> [file[i] EXCEPT !.email = Lower(@)]]

Lists(rows, scope, w) ==
  \A i \in DOMAIN rows : \E k : Shows(rows[i], k, scope, w) /\ rows[i].email = k[1]

ListsLowered(rows, scope, w) ==
  \A i \in DOMAIN rows : \E k : Shows(rows[i], k, scope, w) /\ rows[i].email = Lower(k[1])

LEMMA LoweredShows ==
  ASSUME NEW file \in Seq(FileRows), NEW rows, NEW scope, NEW w,
         Lowered(rows, file),
         Lists(file, scope, w)
  PROVE  ListsLowered(rows, scope, w)
<1> SUFFICES ASSUME NEW i \in DOMAIN rows
             PROVE  \E k : Shows(rows[i], k, scope, w) /\ rows[i].email = Lower(k[1])
  BY Zenon DEF ListsLowered
<1>1. i \in DOMAIN file /\ rows[i] = [file[i] EXCEPT !.email = Lower(@)] BY DEF Lowered
<1>2. PICK k : Shows(file[i], k, scope, w) /\ file[i].email = k[1] BY <1>1, Zenon DEF Lists
<1>3. file[i] \in FileRows BY <1>1
<1> DEFINE row == file[i]
           z == rows[i]
<1>4. z.title = row.title /\ z.date = row.date /\ z.country = row.country
      /\ z.email = Lower(row.email)
  BY <1>1, <1>3 DEF FileRows
<1> HIDE DEF row, z
<1>5. Shows(row, k, scope, w) /\ row.email = k[1] BY <1>2, Zenon DEF row
<1>6. Shows(z, k, scope, w) BY <1>4, <1>5, Zenon DEF Shows
<1>7. z.email = Lower(k[1]) BY <1>4, <1>5, Zenon
<1> QED BY <1>6, <1>7, Zenon DEF z

\* What an import begins with.
Begins(r, scope, f, rows, d) ==
  /\ rows \in Seq(FileRows) /\ Drawn(r, scope, f, rows, d)
  /\ Recalls(d, CompanyNames, Len(rows), f = Export)
  /\ f = Export => ListsLowered(rows, scope, db)

LEMMA ImportBegins ==
  ASSUME Sound(db), NEW r \in Requests, ImportStudents(r),
         Mix.files \ {Export} \subseteq Seq(FileRows), \A e \in Emails : Lower(e) \in Emails
  PROVE  \E scope, f, rows, d : Begins(r, scope, f, rows, d)
<1> DEFINE file(scope, f) == IF f = Export THEN Exported(scope) ELSE f
           rows(scope, f) == [i \in DOMAIN file(scope, f) |->
                                [file(scope, f)[i] EXCEPT !.email = Lower(@)]]
           name(default) == IF default = None THEN None ELSE db.companies[default]
           d(scope, f, default) ==
             Drafted(rows(scope, f), CompanyNames, name(default), scope = Ids)
<1>1. PICK scope \in Mix.scopes, f \in Mix.files, default \in {None} \cup DOMAIN db.companies :
        Drawn(r, scope, f, rows(scope, f), d(scope, f, default))
  BY Zenon DEF ImportStudents
<1>2. Exported(scope) \in Seq(FileRows) BY ExportTyped, Zenon
<1>3. file(scope, f) \in Seq(FileRows) BY <1>2
<1>4. name(default) \in CompanyNames \cup {None} BY DEF CompanyNames
<1>5. CompanyNames \subseteq Names
  <2>1. CompaniesOK(db.companies) BY SoundParts, Zenon
  <2> QED BY <2>1 DEF CompaniesOK, CompanyNames
<1>6. f = Export => file(scope, f) = Exported(scope) OBVIOUS
<1> DEFINE a == file(scope, f)
           b == rows(scope, f)
           n == name(default)
           super == scope = Ids
           known == f = Export
<1>7. b = [i \in DOMAIN a |-> [a[i] EXCEPT !.email = Lower(@)]] OBVIOUS
<1>8. Drawn(r, scope, f, b, Drafted(b, CompanyNames, n, super)) BY <1>1, Zenon
<1> HIDE DEF file, rows, name
<1>9. a \in Seq(FileRows) /\ n \in CompanyNames \cup {None} /\ (f = Export => a = Exported(scope))
  BY <1>3, <1>4, <1>6
<1> HIDE DEF a, n, super, b
<1>10. b \in Seq(FileRows) BY <1>7, <1>9, LoweredRows, Zenon
<1>11. \A i \in DOMAIN b : i \in DOMAIN a /\ b[i].company = a[i].company
  <2> SUFFICES ASSUME NEW i \in DOMAIN b PROVE i \in DOMAIN a /\ b[i].company = a[i].company
    OBVIOUS
  <2>1. i \in DOMAIN a /\ b[i] = [a[i] EXCEPT !.email = Lower(@)] BY <1>7
  <2>2. a[i] \in FileRows BY <1>9, <2>1
  <2> QED BY <2>1, <2>2 DEF FileRows
<1>12. f = Export => \A i \in DOMAIN b : b[i].company \in CompanyNames
  BY <1>9, <1>11, ExportShows, Zenon
<1>13. f = Export => ListsLowered(b, scope, db)
  <2> SUFFICES ASSUME f = Export PROVE ListsLowered(b, scope, db)
    OBVIOUS
  <2>1. a = Exported(scope) BY <1>9
  <2>2. Lists(a, scope, db) BY <2>1, ExportShows, Zenon DEF Lists
  <2>3. Lowered(b, a) BY <1>7, Zenon DEF Lowered
  <2> QED BY <1>9, <2>2, <2>3, LoweredShows, Zenon
<1> HIDE DEF known
<1>14. known => \A i \in DOMAIN b : b[i].company \in CompanyNames BY <1>12, Zenon DEF known
<1> DEFINE x == Drafted(b, CompanyNames, n, super)
<1>15. Recalls(x, CompanyNames, Len(b), known)
  BY <1>5, <1>9, <1>10, <1>14, DraftRecalls, Zenon
<1>16. Recalls(x, CompanyNames, Len(b), f = Export) BY <1>15, Zenon DEF known
<1> HIDE DEF x
<1>17. Drawn(r, scope, f, b, x) BY <1>8, Zenon DEF x
<1>18. Begins(r, scope, f, b, x) BY <1>10, <1>13, <1>16, <1>17, Zenon DEF Begins
<1> QED BY <1>18, Zenon

\* An import that begins when nobody else runs.
LEMMA BeginsExact ==
  ASSUME IndInv, Assumed, Shaped(db), NEW r \in Requests, ImportStudents(r), witness'.of = r
  PROVE  Exactly(req'[r], imports'[r], witness'.db, db')
<1>1. ReqShape /\ ImportsShape /\ Sound(db) BY Zenon DEF IndInv
<1>2. PICK scope, f, rows, d : Begins(r, scope, f, rows, d)
  BY <1>1, ImportBegins, Zenon DEF Assumed
<1> DEFINE pc == IF d.introduced = <<>> THEN "read" ELSE "companies"
           body == [file |-> f, last |-> 0]
           known == [n \in CompanyNames |->
                       CHOOSE id \in DOMAIN db.companies : db.companies[id] = n]
           m == ImportOf(rows, d.draft, d.introduced, known)
           q == Asked("ImportStudents", scope, body, pc)
<1>3. /\ Begin(r, "ImportStudents", scope, body, pc)
      /\ imports' = [imports EXCEPT ![r] = m]
  BY <1>2, Zenon DEF Begins, Drawn
<1>4. Recalls(d, CompanyNames, Len(rows), f = Export) /\ rows \in Seq(FileRows)
  BY <1>2, Zenon DEF Begins
<1>5. /\ d.draft \in Seq(Names \cup {None}) /\ Len(d.draft) = Len(rows)
      /\ \A i \in DOMAIN d.draft : Nameable(d, CompanyNames, d.draft[i])
      /\ f = Export => d.introduced = <<>>
  BY <1>4, Zenon DEF Recalls
<1>6. f = Export => ListsLowered(rows, scope, db) BY <1>2, Zenon DEF Begins
<1>7. DOMAIN known = CompanyNames /\ \A n \in DOMAIN known : known[n] \in DOMAIN db.companies
  BY Zenon DEF CompanyNames
<1>8. DOMAIN rows = DOMAIN d.draft BY <1>4, <1>5
<1>9. body.file = f OBVIOUS
<1>10. \/ pc = "read" /\ d.introduced = <<>>
       \/ pc = "companies" /\ d.introduced # <<>>
  OBVIOUS
<1> HIDE DEF pc, body, known
<1>11. /\ m.rows = rows /\ m.draft = d.draft /\ m.known = known
       /\ m.introduced = d.introduced /\ m.base = <<>> /\ m.at = 1
  BY DEF ImportOf
<1>12. m.out.failed = {}
  <2>1. m.out = NoCounts BY DEF ImportOf
  <2>2. NoCounts.failed = {} BY DEF NoCounts
  <2> QED BY <2>1, <2>2
<1> HIDE DEF m
<1>13. q.pc = pc /\ q.scope = scope /\ q.body = body BY DEF Asked
<1> HIDE DEF q
<1>14. req'[r] = q /\ imports'[r] = m /\ db' = db
  <2>1. req' = [req EXCEPT ![r] = q] /\ db' = db BY <1>3, Zenon DEF Begin, q
  <2> QED BY <1>1, <1>3, <2>1, Zenon DEF ReqShape, ImportsShape
<1>15. witness'.db = db
  <2>1. witness' = [of |-> r, db |-> db] \/ witness' = NoWitness
    BY <1>3, Zenon DEF Begin
  <2>2. NoWitness.of = None BY DEF NoWitness
  <2>3. r # None BY Zenon DEF Assumed
  <2>4. witness' = [of |-> r, db |-> db] BY <2>1, <2>2, <2>3, Zenon
  <2> QED BY <2>4
<1>16. AtFirst(m) BY <1>11, <1>12, Zenon DEF AtFirst
<1>17. DraftOK(m, db)
  <2>1. \A i \in DOMAIN m.rows :
          \/ m.draft[i] = None
          \/ m.draft[i] \in DOMAIN m.known
          \/ \E j \in DOMAIN m.introduced : m.draft[i] = m.introduced[j]
    BY <1>5, <1>7, <1>8, <1>11, Zenon DEF Nameable
  <2> QED BY <1>7, <1>11, <2>1, Zenon DEF DraftOK
<1>18. pc = "read" => Placeable(m, scope, db)
  BY <1>10, <1>11, <1>17, IntroducedPlaced, Zenon
<1>19. f = Export => Mirror(m, scope, db)
  BY <1>5, <1>6, <1>11, Zenon DEF Mirror, Shows, ListsLowered
<1>20. Before(db, db) = db
  <2>1. IsTable(db) /\ DOMAIN db = Fields BY <1>1, SoundParts, ShapedParts, Zenon
  <2> DEFINE e == Before(db, db)
  <2>2. DOMAIN e = DOMAIN db /\ (\A t \in DOMAIN db : e[t] = db[t]) /\ IsTable(e)
    BY DEF Before, IsTable
  <2> HIDE DEF e
  <2>3. e = db BY <2>1, <2>2 DEF IsTable
  <2> QED BY <2>3 DEF e
<1>21. \A t \in DOMAIN m.base : m.base[t] = db[t]
  <2>1. DOMAIN m.base = {} BY <1>11
  <2> QED BY <2>1
<1>22. Exactly(q, m, db, db)
  BY <1>1, <1>9, <1>10, <1>11, <1>13, <1>16, <1>17, <1>18, <1>19, <1>20, <1>21 DEF Exactly
<1> QED BY <1>14, <1>15, <1>22, Zenon

-----------------------------------------------------------------------------
\* What a step of any request keeps.

\* A request under way moves on, the others stay where they are.
MovesOn(r) ==
  /\ witness' = witness /\ req'[r].op = req[r].op
  /\ \A q \in Requests : q # r => req'[q] = req[q]

LEMMA RequestMoves ==
  ASSUME ReqShape, NEW r \in Requests, Writes(r) \/ WriteFails(r) \/ Imports(r)
  PROVE  MovesOn(r)
<1>1. witness' = witness
  <2>1. CASE Writes(r)
    BY <2>1, Zenon DEF Writes, Written, PostStudentWrite, PutStudentWrite,
       RenameStudentWrite, DeleteStudentWrite, PostCompanyWrite, PutCompanyWrite,
       DeleteCompanyWrite, PostRegionWrite, PutRegionWrite, DeleteRegionWrite,
       DeleteTrainingWrite
  <2>2. CASE WriteFails(r) BY <2>2, Zenon DEF WriteFails
  <2>3. CASE Imports(r)
    BY <2>3, Zenon DEF Imports, ImportCompanies, ImportReads, ImportChunk, SlowLookup,
       SlowCreate, SlowNextRow, ImportEnds, ImportRegionsRow
  <2> QED BY <2>1, <2>2, <2>3
<1>2. ASSUME NEW p, req' = [req EXCEPT ![r].pc = p] PROVE MovesOn(r)
  <2>1. req'[r].op = req[r].op BY <1>2, PcMoves, Zenon
  <2>2. \A q \in Requests : q # r => req'[q] = req[q] BY <1>2, Zenon DEF ReqShape
  <2> QED BY <1>1, <2>1, <2>2, Zenon DEF MovesOn
<1>3. ASSUME NEW o, req' = [req EXCEPT ![r].pc = "done", ![r].outcome = o] PROVE MovesOn(r)
  <2>1. req'[r].op = req[r].op BY <1>3 DEF ReqShape
  <2>2. \A q \in Requests : q # r => req'[q] = req[q] BY <1>3 DEF ReqShape
  <2> QED BY <1>1, <2>1, <2>2, Zenon DEF MovesOn
<1>4. CASE req' = req BY <1>1, <1>4, Zenon DEF MovesOn
<1>5. CASE Writes(r)
  <2>1. req' = [req EXCEPT ![r].pc = "done", ![r].outcome = "ok"]
    BY <1>5, Zenon DEF Writes, Written, PostStudentWrite, PutStudentWrite,
       RenameStudentWrite, DeleteStudentWrite, PostCompanyWrite, PutCompanyWrite,
       DeleteCompanyWrite, PostRegionWrite, PutRegionWrite, DeleteRegionWrite,
       DeleteTrainingWrite
  <2> QED BY <1>3, <2>1, Zenon
<1>6. CASE WriteFails(r) BY <1>3, <1>6, Zenon DEF WriteFails
<1>7. CASE ImportCompanies(r) BY <1>2, <1>3, <1>7, Zenon DEF ImportCompanies
<1>8. CASE ImportReads(r)
  <2>a. PICK t : req' = [req EXCEPT ![r].pc = IF t = "taken" THEN "chunk" ELSE @]
    BY <1>8, Zenon DEF ImportReads
  <2> DEFINE p == IF t = "taken" THEN "chunk" ELSE req[r].pc
  <2>1. req' = [req EXCEPT ![r].pc = p] BY <2>a, Zenon
  <2> HIDE DEF p
  <2> QED BY <1>2, <2>1, Zenon
<1>9. CASE ImportChunk(r)
  <2>1. \/ req' = req
        \/ \E last : req' = [req EXCEPT ![r].pc = "slow", ![r].body.last = last]
    BY <1>9, Zenon DEF ImportChunk
  <2>2. ASSUME NEW last, req' = [req EXCEPT ![r].pc = "slow", ![r].body.last = last]
        PROVE  MovesOn(r)
    <3>1. req'[r].op = req[r].op BY <2>2 DEF ReqShape
    <3>2. \A q \in Requests : q # r => req'[q] = req[q] BY <2>2 DEF ReqShape
    <3> QED BY <1>1, <3>1, <3>2, Zenon DEF MovesOn
  <2> QED BY <1>4, <2>1, <2>2, Zenon
<1>10. CASE SlowLookup(r) \/ SlowCreate(r)
  BY <1>4, <1>10, Zenon DEF SlowLookup, SlowCreate
<1>11. CASE SlowNextRow(r)
  <2> DEFINE p == IF imports[r].at < req[r].body.last THEN req[r].pc ELSE "chunk"
  <2>1. req' = [req EXCEPT ![r].pc = p] BY <1>11, Zenon DEF SlowNextRow
  <2> HIDE DEF p
  <2> QED BY <1>2, <2>1, Zenon
<1>12. CASE ImportEnds(r) BY <1>3, <1>12, Zenon DEF ImportEnds
<1>13. CASE ImportRegionsRow(r)
  <2> DEFINE p == IF Len(req[r].body.rows) = 1 THEN "done" ELSE req[r].pc
             b == [req[r].body EXCEPT !.rows = Tail(@)]
  <2>1. req' = [req EXCEPT ![r].body.rows = Tail(@),
                           ![r].pc = IF Len(req[r].body.rows) = 1 THEN "done" ELSE @]
    BY <1>13, Zenon DEF ImportRegionsRow
  <2>2. req'[r] = [req[r] EXCEPT !.body = b, !.pc = p] BY <2>1 DEF ReqShape
  <2>3. \A q \in Requests : q # r => req'[q] = req[q] BY <2>1 DEF ReqShape
  <2> HIDE DEF p, b
  <2>4. req'[r].op = req[r].op BY <2>2 DEF ReqShape
  <2> QED BY <1>1, <2>3, <2>4, Zenon DEF MovesOn
<1> QED
  BY <1>5, <1>6, <1>7, <1>8, <1>9, <1>10, <1>11, <1>12, <1>13, Zenon DEF Imports

\* A request begins.
LEMMA ReadsBegin ==
  ASSUME NEW r \in Requests, Reads(r)
  PROVE  \E op, scope, body, pc :
           /\ Begin(r, op, scope, body, pc)
           /\ op = "ImportStudents" => ImportStudents(r)
<1>1. CASE ImportStudents(r) BY <1>1, Zenon DEF ImportStudents, Drawn
<1>2. CASE ~ImportStudents(r)
  <2>1. \E op \in OtherOps, pc \in {"write", "regions"} :
           \E scope, body : Begin(r, op, scope, body, pc)
    <3>1. CASE ImportRegions(r)
      <4>1. "ImportRegions" \in OtherOps BY DEF OtherOps
      <4> QED BY <3>1, <4>1, Zenon DEF ImportRegions
    <3>2. CASE ~ImportRegions(r)
      <4>1. \E op \in {"PostStudent", "PutStudent", "DeleteStudent", "PostCompany",
                       "PutCompany", "DeleteCompany", "PostRegion", "PutRegion",
                       "DeleteRegion", "DeleteTraining"} :
              \E scope, body : Opened(r, op, scope, body)
        BY <1>2, <3>2, Zenon DEF Reads, PostStudent, PutStudent, DeleteStudent, PostCompany,
           PutCompany, DeleteCompany, PostRegion, PutRegion, DeleteRegion, DeleteTraining
      <4>2. \E op \in OtherOps : \E scope, body : Opened(r, op, scope, body)
        BY <4>1, Zenon DEF OtherOps, SuperOps
      <4> QED BY <4>2, Zenon DEF Opened
    <3> QED BY <3>1, <3>2
  <2>2. \A op \in OtherOps : op # "ImportStudents" BY DEF OtherOps, SuperOps
  <2> QED BY <2>1, <2>2, Zenon
<1> QED BY <1>1, <1>2

LEMMA ReadsExact ==
  ASSUME IndInv, Assumed, ExactInv, NEW r \in Requests, Reads(r)
  PROVE  ExactInv'
<1>1. ReqShape /\ ImportsShape /\ Shaped(db) BY Zenon DEF IndInv, ExactInv
<1>2. PICK op, scope, body, pc :
        /\ Begin(r, op, scope, body, pc)
        /\ op = "ImportStudents" => ImportStudents(r)
  BY ReadsBegin, Zenon
<1>3. /\ req' = [req EXCEPT ![r] = Asked(op, scope, body, pc)] /\ db' = db
      /\ witness' = IF InFlight = {} THEN [of |-> r, db |-> db] ELSE NoWitness
  BY <1>2, Zenon DEF Begin
<1>4. req'[r].op = op
  <2>1. Asked(op, scope, body, pc).op = op BY DEF Asked
  <2> QED BY <1>1, <1>3, <2>1, Zenon DEF ReqShape
<1>5. ASSUME NEW p \in Requests, witness'.of = p PROVE p = r /\ InFlight = {}
  <2>1. NoWitness.of = None BY DEF NoWitness
  <2>2. [of |-> r, db |-> db].of = r OBVIOUS
  <2>3. p # None BY Zenon DEF Assumed
  <2> QED BY <1>3, <1>5, <2>1, <2>2, <2>3, Zenon
<1>6. Solo'
  <2> SUFFICES ASSUME NEW p \in Requests, NEW q \in Requests, witness'.of = p, Busy(q)'
               PROVE  q = p
    BY Zenon DEF Solo
  <2>1. p = r /\ ~Busy(q) BY <1>5, Zenon DEF InFlight, Busy
  <2>2. q # r => req'[q] = req[q] BY <1>1, <1>3, Zenon DEF ReqShape
  <2> QED BY <2>1, <2>2, Zenon DEF Busy
<1>7. ASSUME NEW q \in Requests, witness'.of = q, req'[q].op = "ImportStudents"
      PROVE  Exactly(req'[q], imports'[q], witness'.db, db')
  <2>1. q = r BY <1>5, <1>7, Zenon
  <2>2. ImportStudents(r) BY <1>2, <1>4, <1>7, <2>1, Zenon
  <2> QED BY <1>1, <1>7, <2>1, <2>2, BeginsExact, Zenon
<1> QED BY <1>1, <1>3, <1>6, <1>7, Zenon DEF ExactInv

\* The tables after a step are tables.
LEMMA MovesShaped ==
  ASSUME IndInv, Assumed, Shaped(db), NEW r \in Requests,
         Writes(r) \/ WriteFails(r) \/ Imports(r)
  PROVE  Shaped(db')
<1>1. ImportsShape /\ AllSane /\ Sound(db) /\ DOMAIN db = Fields
  BY SoundParts, Zenon DEF IndInv
<1>2. ChunkSize \in Nat \ {0} BY Zenon DEF Assumed
<1>3. CASE Writes(r) BY <1>1, <1>3, WritesShaped, Zenon
<1>4. CASE WriteFails(r) \/ ImportReads(r) \/ SlowLookup(r) \/ SlowNextRow(r) \/ ImportEnds(r)
  <2>1. db' = db
    BY <1>4, Zenon DEF WriteFails, ImportReads, SlowLookup, SlowNextRow, ImportEnds
  <2> QED BY <2>1, Zenon
<1>5. CASE ImportCompanies(r) BY <1>1, <1>5, CompaniesShaped, Zenon
<1>6. CASE ImportChunk(r) BY <1>1, <1>2, <1>6, ChunkShaped, Zenon
<1>7. CASE SlowCreate(r) BY <1>1, <1>7, CreateShaped, Zenon
<1>8. CASE ImportRegionsRow(r) BY <1>1, <1>8, RegionRowShaped, Zenon
<1> QED BY <1>3, <1>4, <1>5, <1>6, <1>7, <1>8, Zenon DEF Imports

LEMMA MovesExact ==
  ASSUME IndInv, Assumed, CountInv, ExactInv, NEW r \in Requests,
         Writes(r) \/ WriteFails(r) \/ Imports(r)
  PROVE  ExactInv'
<1>1. ReqShape /\ Shaped(db) /\ Solo BY Zenon DEF IndInv, ExactInv
<1>2. MovesOn(r) BY <1>1, RequestMoves, Zenon
<1>3. Shaped(db') BY <1>1, MovesShaped, Zenon
<1>4. Busy(r) BY WritesStep, Zenon
<1>5. Solo'
  <2> SUFFICES ASSUME NEW p \in Requests, NEW q \in Requests, witness'.of = p, Busy(q)'
               PROVE  q = p
    BY Zenon DEF Solo
  <2>1. witness.of = p BY <1>2, Zenon DEF MovesOn
  <2>2. r = p BY <1>1, <1>4, <2>1, Zenon DEF Solo
  <2>3. q # r => req'[q] = req[q] BY <1>2, Zenon DEF MovesOn
  <2>4. q # r => Busy(q) BY <2>3, Zenon DEF Busy
  <2> QED BY <1>1, <2>1, <2>2, <2>4, Zenon DEF Solo
<1>6. ASSUME NEW q \in Requests, witness'.of = q, req'[q].op = "ImportStudents"
      PROVE  Exactly(req'[q], imports'[q], witness'.db, db')
  <2> DEFINE w == witness.db
  <2>1. witness' = witness BY <1>2, Zenon DEF MovesOn
  <2>2. q = r BY <1>1, <1>4, <1>6, <2>1, Zenon DEF Solo
  <2>3. req[r].op = "ImportStudents" BY <1>2, <1>6, <2>2, Zenon DEF MovesOn
  <2>4. Exactly(req[r], imports[r], w, db) BY <1>6, <2>1, <2>2, <2>3, Zenon DEF ExactInv
  <2>5. req[r].pc \in {"companies", "read", "chunk", "done"} BY <2>4, Zenon DEF Exactly
  <2>6. ChunkSize \in Nat \ {0} BY Zenon DEF Assumed
  <2>7. DOMAIN imports[r].out = CountFields
    <3>1. Told(req[r], imports[r], inserted[r]) BY Zenon DEF CountInv
    <3>2. req[r].pc # "idle" BY <2>5
    <3> QED BY <2>3, <3>1, <3>2, Zenon DEF Told, Tells
  <2> HIDE DEF w
  <2>8. Exactly(req'[r], imports'[r], w, db')
    <3>1. CASE Writes(r)
      <4>1. req[r].pc = "write"
        BY <3>1, Zenon DEF Writes, Writing, PostStudentWrite, PutStudentWrite,
           RenameStudentWrite, DeleteStudentWrite, PostCompanyWrite, PutCompanyWrite,
           DeleteCompanyWrite, PostRegionWrite, PutRegionWrite, DeleteRegionWrite,
           DeleteTrainingWrite
      <4> QED BY <2>5, <4>1
    <3>2. CASE WriteFails(r)
      <4>1. req[r].pc = "write" BY <3>2, FailedWrites, Zenon
      <4> QED BY <2>5, <4>1
    <3>3. CASE SlowLookup(r) \/ SlowCreate(r) \/ SlowNextRow(r)
      <4>1. req[r].pc = "slow" BY <3>3, Zenon DEF SlowLookup, SlowCreate, SlowNextRow, Slow
      <4> QED BY <2>5, <4>1
    <3>4. CASE ImportRegionsRow(r)
      <4>1. req[r].pc = "regions" BY <3>4, Zenon DEF ImportRegionsRow
      <4> QED BY <2>5, <4>1
    <3>5. CASE ImportCompanies(r) BY <2>4, <3>5, CompaniesExact, Zenon
    <3>6. CASE ImportReads(r) BY <2>4, <3>6, ReadExact, Zenon
    <3>7. CASE ImportChunk(r) BY <1>1, <2>4, <2>6, <2>7, <3>7, ChunkExact, Zenon
    <3>8. CASE ImportEnds(r) BY <2>4, <3>8, EndExact, Zenon
    <3> QED
      BY <3>1, <3>2, <3>3, <3>4, <3>5, <3>6, <3>7, <3>8, Zenon DEF Imports
  <2> QED BY <2>1, <2>2, <2>8, Zenon DEF w
<1> QED BY <1>3, <1>5, <1>6, Zenon DEF ExactInv

LEMMA StepsExact ==
  ASSUME IndInv, CountInv, ExactInv, Parameters, Next \/ UNCHANGED vars
  PROVE  ExactInv'
<1>1. Assumed BY AssumedHere, Zenon DEF IndInv
<1>2. CASE Next
  <2>1. PICK r \in Requests : Reads(r) \/ Writes(r) \/ WriteFails(r) \/ Imports(r)
    BY <1>2, Zenon DEF Next
  <2>2. CASE Reads(r) BY <1>1, <2>2, ReadsExact, Zenon
  <2>3. CASE Writes(r) \/ WriteFails(r) \/ Imports(r) BY <1>1, <2>3, MovesExact, Zenon
  <2> QED BY <2>1, <2>2, <2>3
<1>3. CASE UNCHANGED vars
  <2>1. db' = db /\ req' = req /\ imports' = imports /\ witness' = witness
    BY <1>3, Zenon DEF vars
  <2> QED BY <2>1, Zenon DEF ExactInv, Solo, Busy
<1> QED BY <1>2, <1>3

LEMMA StartsExact ==
  ASSUME Parameters, Init
  PROVE  ExactInv
<1>1. workload \in DOMAIN Workloads /\ db \in Mix.databases /\ witness = NoWitness
  BY Zenon DEF Init
<1>2. Shaped(db) BY <1>1, Zenon DEF Parameters, Mix
<1>3. witness.of = None BY <1>1 DEF NoWitness
<1>4. None \notin Requests BY Zenon DEF Parameters
<1>5. \A r \in Requests : witness.of # r BY <1>3, <1>4, Zenon
<1> QED BY <1>2, <1>5, Zenon DEF ExactInv, Solo

-----------------------------------------------------------------------------
\* What an import that nothing overlapped has written.

LEMMA BatchExact ==
  ASSUME IndInv, ExactInv
  PROVE  BatchIsRowByRow
<1> SUFFICES ASSUME NEW r \in Requests, Ended(r, "ImportStudents"), req[r].outcome = "ok"
             PROVE  LET rows == imports[r].rows
                        before == [witness.db EXCEPT !.companies = db.companies]
                        x == RowByRow(rows, [i \in DOMAIN rows |-> CompanyOf(r, i)],
                                      req[r].scope, before)
                    IN  /\ db = x[Len(rows)].db
                        /\ imports[r].out.failed = DOMAIN rows \ x[Len(rows)].rows
  BY Zenon DEF BatchIsRowByRow
<1> DEFINE m == imports[r]
           scope == req[r].scope
           w == witness.db
           X == RowByRow(m.rows, CompaniesFor(m, scope), scope, Before(w, db))
           len == Len(m.rows)
<1>1. witness.of = r /\ req[r].pc = "done" /\ req[r].op = "ImportStudents"
  BY Zenon DEF Ended
<1>2. Exactly(req[r], m, w, db) BY <1>1, Zenon DEF ExactInv
<1>3. m.rows \in Seq(FileRows) /\ m.at = len + 1 /\ Came(m, scope, w, db)
  BY <1>1, <1>2, Zenon DEF Exactly
<1>4. [i \in DOMAIN m.rows |-> CompanyOf(r, i)] = CompaniesFor(m, scope)
  <2>1. \A i : CompanyOf(r, i) = CompanyFor(m, scope, i) BY CompanyIs, Zenon
  <2> QED BY <2>1, Zenon DEF CompaniesFor
<1>5. len \in Nat /\ DOMAIN m.rows = 1..len BY <1>3, LenProperties
<1>6. m.at - 1 = len BY <1>3, <1>5
<1>7. db = X[len].db /\ m.out.failed = DOMAIN m.rows \ X[len].rows
  BY <1>3, <1>5, <1>6, Zenon DEF Came
<1> QED BY <1>4, <1>7, Zenon DEF Before

\* A row of an export of w comes to nothing on w.
LeavesAs(w, row, company, scope, x, i) == Row(row, company, scope, x, i).db = w

LEMMA RowIsThere ==
  ASSUME NEW w, Sound(w), Shaped(w), \A e \in DOMAIN w.students : e = Lower(e),
         NEW row, NEW k, NEW scope, Shows(row, k, scope, w), row.email = Lower(k[1]),
         NEW x, x.db = w
  PROVE  \A company, i : LeavesAs(w, row, company, scope, x, i)
<1> SUFFICES ASSUME NEW company, NEW i
             PROVE  Row(row, company, scope, x, i).db = w
  BY Zenon DEF LeavesAs
<1> DEFINE y == Row(row, company, scope, x, i)
<1>1. RowComesTo(y, row, company, scope, x, i) BY RowIs, Zenon
<1>2. /\ LearnersOK(w.students, w) /\ TakenOK(w.taken, w.students, w.trainings)
      /\ DOMAIN w = Fields
  BY SoundParts, Zenon
<1>3. IsTable(w) /\ DOMAIN w.taken \subseteq Triples BY ShapedParts, Zenon
<1>4. k \in DOMAIN w.taken /\ k[1] \in DOMAIN w.students /\ k[2] \in DOMAIN w.trainings
  BY <1>2 DEF Shows, TakenOK
<1>5. k[1] = Lower(k[1]) BY <1>4, Zenon
<1>6. row.email = k[1] /\ row.title = k[2] /\ row.date = k[3]
      /\ row.country = w.students[k[1]].country /\ w.students[k[1]].company \in scope
  BY <1>5, Zenon DEF Shows
<1>7. row.email \in DOMAIN w.students /\ w.students[row.email].company \in scope
  BY <1>4, <1>6, Zenon
<1>8. row.title \in DOMAIN w.trainings BY <1>4, <1>6, Zenon
<1>9. <<row.email, row.title, row.date>> \in DOMAIN w.taken
  <2>1. k = <<k[1], k[2], k[3]>> BY <1>3, <1>4 DEF Triples
  <2> QED BY <1>4, <1>6, <2>1, Zenon
<1>10. row.country \in DOMAIN w.regions
  <2>1. Placed(w, w.students[k[1]]) BY <1>2, <1>4, Zenon DEF LearnersOK
  <2> QED BY <1>6, <2>1, Zenon DEF Placed
<1>11. RegionsAfter(row, w) = w.regions BY <1>10, Zenon DEF RegionsAfter, Ensure
<1>12. ~RefusedAfter(row, w, scope) BY <1>7, Zenon DEF RefusedAfter
<1> HIDE DEF y
<1>13. CASE company = None
  <2>1. y = x BY <1>1, <1>13, Zenon DEF RowComesTo
  <2> QED BY <2>1, Zenon DEF y
<1>14. CASE company # None
  <2> DEFINE e == TablesAfter(row, company, w)
  <2>1. y = [rows |-> x.rows \cup {i}, db |-> e]
    BY <1>1, <1>12, <1>14, Zenon DEF RowComesTo
  <2>2. e = [companies |-> w.companies, regions |-> w.regions, students |-> w.students,
             trainings |-> w.trainings, taken |-> w.taken]
    BY <1>7, <1>8, <1>9, <1>11, Zenon DEF TablesAfter, Ensure
  <2>3. Made(e, w.companies, w.regions, w.students, w.trainings, w.taken)
    BY <2>2, MadeIs, Zenon
  <2> HIDE DEF e
  <2>4. \A t \in Fields : t \in {"companies", "regions", "students", "trainings", "taken"}
    BY DEF Fields, Copied
  <2>5. DOMAIN e = Fields /\ IsTable(e) /\ \A t \in Fields : e[t] = w[t]
    BY <2>3, <2>4 DEF Made
  <2>6. e = w BY <1>2, <1>3, <2>5 DEF IsTable
  <2>7. y.db = e BY <2>1
  <2> QED BY <2>6, <2>7, Zenon DEF y
<1> QED BY <1>13, <1>14

LEMMA ReimportExact ==
  ASSUME IndInv, ExactInv
  PROVE  ReimportChangesNothing
<1> SUFFICES ASSUME NEW r \in Requests, Ended(r, "ImportStudents"), req[r].body.file = Export,
                    \A e \in DOMAIN witness.db.students : e = Lower(e)
             PROVE  db = witness.db
  BY Zenon DEF ReimportChangesNothing
<1> DEFINE m == imports[r]
           scope == req[r].scope
           w == witness.db
           companies == CompaniesFor(m, scope)
           X == RowByRow(m.rows, companies, scope, Before(w, db))
           len == Len(m.rows)
<1>1. witness.of = r /\ req[r].pc = "done" /\ req[r].op = "ImportStudents"
  BY Zenon DEF Ended
<1>2. Exactly(req[r], m, w, db) BY <1>1, Zenon DEF ExactInv
<1>3. Sound(w) /\ Shaped(w) /\ Mirror(m, scope, w) /\ db.companies = w.companies
  BY <1>2, Zenon DEF Exactly
<1>4. CASE req[r].outcome # "ok" BY <1>1, <1>2, <1>4, Zenon DEF Exactly
<1>5. CASE req[r].outcome = "ok"
  <2>1. m.rows \in Seq(FileRows) /\ m.at = len + 1 /\ Came(m, scope, w, db)
    BY <1>1, <1>2, <1>5, Zenon DEF Exactly
  <2>2. len \in Nat /\ DOMAIN m.rows = 1..len BY <2>1, LenProperties
  <2>3. m.at - 1 = len BY <2>1, <2>2
  <2>4. db = X[len].db BY <2>1, <2>3, Zenon DEF Came
  <2>5. TakesNone(X, Before(w, db)) /\ \A n \in 1..len : TakesRow(m.rows, companies, scope, X, n)
    BY <2>2, RowByRowIs, Zenon
  <2>6. Before(w, db) = w
    <3>1. IsTable(w) /\ DOMAIN w = Fields BY <1>3, SoundParts, ShapedParts, Zenon
    <3> DEFINE e == Before(w, db)
    <3>2. DOMAIN e = DOMAIN w /\ (\A t \in DOMAIN w : e[t] = w[t]) /\ IsTable(e)
      BY <1>3 DEF Before, IsTable
    <3> HIDE DEF e
    <3>3. e = w BY <3>1, <3>2 DEF IsTable
    <3> QED BY <3>3 DEF e
  <2> DEFINE bad == {n \in 0..len : X[n].db # w}
  <2> HIDE DEF X, companies, len, w
  <2>7. X[0].db = w BY <2>5, <2>6 DEF TakesNone
  <2>8. ASSUME NEW n \in 1..len, X[n - 1].db = w PROVE X[n].db = w
    <3>1. n \in DOMAIN m.rows BY <2>2
    <3>2. PICK k \in DOMAIN w.taken :
            /\ m.rows[n].email = Lower(k[1]) /\ m.rows[n].title = k[2]
            /\ m.rows[n].date = k[3] /\ m.rows[n].country = w.students[k[1]].country
            /\ w.students[k[1]].company \in scope
      BY <1>3, <3>1, Zenon DEF Mirror
    <3>3. Shows(m.rows[n], k, scope, w) BY <3>2, Zenon DEF Shows
    <3>a. \A e \in DOMAIN w.students : e = Lower(e) BY Zenon DEF w
    <3> DEFINE row == m.rows[n]
               x == X[n - 1]
    <3>b. Shows(row, k, scope, w) /\ row.email = Lower(k[1]) /\ x.db = w
      BY <2>8, <3>2, <3>3, Zenon
    <3> HIDE DEF row, x
    <3>c. \A company, i : LeavesAs(w, row, company, scope, x, i)
      BY <1>3, <3>a, <3>b, RowIsThere, Zenon
    <3>4. Row(m.rows[n], companies[n], scope, X[n - 1], n).db = w
      BY <3>c, Zenon DEF LeavesAs, row, x
    <3> QED BY <2>5, <3>4, Zenon DEF TakesRow
  <2>9. ASSUME bad # {} PROVE FALSE
    <3>1. bad \in SUBSET Nat OBVIOUS
    <3>2. PICK n \in bad : \A y \in bad : n <= y BY <2>9, <3>1, LeastIsThere, Zenon
    <3>3. n \in 0..len /\ X[n].db # w OBVIOUS
    <3>4. n # 0 BY <2>7, <3>3
    <3>5. n - 1 \in 0..len /\ ~(n <= n - 1) /\ n \in 1..len BY <2>2, <3>3, <3>4
    <3>6. X[n - 1].db = w BY <3>2, <3>5
    <3> QED BY <2>8, <3>3, <3>5, <3>6, Zenon
  <2>10. len \in 0..len BY <2>2
  <2>11. X[len].db = w BY <2>9, <2>10
  <2> QED BY <2>4, <2>11, Zenon DEF w
<1> QED BY <1>4, <1>5

\* For any tables, files and scopes, whatever the size of a chunk: an import that nothing
\* overlaps leaves the tables that taking its rows one by one would leave, and refuses the
\* same rows; its counts are those of the rows it inserted, overlapped or not; and a file
\* that was exported changes nothing.  (importStudents, processRow, flushChunk; and the
\* export of the report.)
THEOREM ImportsExact ==
  ASSUME Parameters PROVE Spec => []ImportIsExact
<1>1. Init => ExactInv BY StartsExact, Zenon
<1>2. Init => CountInv BY StartsTold, Zenon
<1>3. IndInv /\ CountInv /\ [Next]_vars => CountInv' BY StepsTold, Zenon
<1>4. IndInv /\ CountInv /\ ExactInv /\ [Next]_vars => ExactInv' BY StepsExact, Zenon
<1>5. IndInv /\ ExactInv => BatchIsRowByRow /\ ReimportChangesNothing
  BY BatchExact, ReimportExact, Zenon
<1>6. Spec => [](CountInv /\ ExactInv) BY <1>1, <1>2, <1>3, <1>4, Inductive, PTL DEF Spec
<1>7. Spec => []CountsAreHonest BY CountsHonest, Zenon
<1>8. BatchIsRowByRow /\ CountsAreHonest /\ ReimportChangesNothing <=> ImportIsExact
  BY Zenon DEF ImportIsExact
<1> QED BY <1>5, <1>6, <1>7, <1>8, Inductive, PTL
=============================================================================
