------------------------------- MODULE Learners -------------------------------
(***************************************************************************)
(* Learners, the companies they belong to and the countries they are in,   *)
(* and the import of a file of completions.                                *)
(*                                                                         *)
(* A handler reads and validates, then writes.  The import decides the     *)
(* company of every row, copies what the file refers to, then takes        *)
(* ChunkSize rows at a time: it works a chunk out on its copy and writes   *)
(* it in one transaction; when that fails, the chunk is run again with a   *)
(* query and a statement per row, on the same copy.                        *)
(*                                                                         *)
(* Regions and ISO codes of countries, names of learners, expiry dates,    *)
(* warnings and the recomputation of OLX parents (Catalogue) are left out. *)
(*                                                                         *)
(* "inserted" and "witness" are history, read by the properties alone.     *)
(***************************************************************************)
EXTENDS Naturals, Sequences, FiniteSets, SequencesExt

CONSTANTS
  Emails,      \* as typed or as stored
  Names,       \* of companies
  Lower(_),    \* toLowerCase, on emails and names
  Countries, Theatres, Titles, Dates,
  Ids,         \* company ids, a set of numbers
  ChunkSize,   \* ROW_CHUNK
  Requests,    \* the requests of a behaviour, each made at most once
  Workloads,   \* the mixes of operations, initial databases and files, by name
  None,        \* no theatre, no company, nothing seen
  Keep,        \* a key the body does not have
  Export,      \* the file that is an export made at this moment
  Blank        \* an empty cell

Tables == <<"regions", "students", "trainings", "taken">>

VARIABLES
  workload,
  db,      \* companies: id -> name; regions: country -> theatre; students: email
           \* -> company, country, theatre; trainings: title -> TRUE; taken:
           \* <<email, title, date>> -> how many rows
  req,     \* requests in progress
  imports, \* what an import holds
  inserted,\* what the statements of an import inserted
  witness  \* the last request, when nothing overlaps it, and the database before

vars == <<workload, db, req, imports, inserted, witness>>

\* students_country_fkey and students_companyId_fkey.
Placed(d, row) == row.country \in DOMAIN d.regions /\ row.company \in DOMAIN d.companies

\* What the schema and its foreign keys make of a database.
Sound(d) ==
  /\ DOMAIN d = {"companies", "regions", "students", "trainings", "taken"}
  /\ DOMAIN d.companies \subseteq Ids /\ DOMAIN d.regions \subseteq Countries
  /\ \A c \in DOMAIN d.regions : d.regions[c] \in Theatres \cup {None}
  /\ \A id, other \in DOMAIN d.companies :
       d.companies[id] \in Names /\ (d.companies[id] = d.companies[other] => id = other)
  /\ \A e \in DOMAIN d.students :
       /\ e \in Emails /\ Placed(d, d.students[e])
       /\ DOMAIN d.students[e] = {"company", "country", "theatre"}
       /\ d.students[e].theatre \in Theatres \cup {None}
  /\ DOMAIN d.trainings \subseteq Titles /\ IsFiniteSet(DOMAIN d.taken)
  /\ \A k \in DOMAIN d.taken :
       /\ k[1] \in DOMAIN d.students /\ k[2] \in DOMAIN d.trainings /\ k[3] \in Dates
       /\ d.taken[k] \in Nat \ {0}

\* A database is a function of its tables, and a table of its keys.
Shaped(d) ==
  /\ d = [t \in DOMAIN d |-> d[t]]
  /\ \A t \in DOMAIN d : d[t] = [k \in DOMAIN d[t] |-> d[t][k]]
  /\ DOMAIN d.taken \subseteq Emails \X Titles \X Dates

\* The cells of a row, once they are parsed.
FileRows ==
  [email : Emails, country : Countries \cup {Blank}, theatre : Theatres \cup {None},
   title : Titles, date : Dates, company : Names \cup {Blank}, valid : BOOLEAN]
RegionRows == [country : Countries \cup {Blank}, theatre : Theatres \cup {None, Keep}]

Parameters ==
  /\ Ids \subseteq Nat /\ ChunkSize \in Nat \ {0}
  /\ None \notin Ids /\ None \notin Theatres \cup Names /\ None \notin Requests
  /\ Blank \notin Countries
  /\ \A e \in Emails : Lower(e) \in Emails
  /\ \A w \in DOMAIN Workloads :
       /\ \A d \in Workloads[w].databases : Sound(d) /\ Shaped(d)
       /\ Workloads[w].scopes \subseteq SUBSET Ids /\ Workloads[w].emails \subseteq Emails
       /\ Workloads[w].files \ {Export} \subseteq Seq(FileRows)
       /\ Workloads[w].regionFiles \subseteq Seq(RegionRows) \ {<<>>}

Mix == Workloads[workload]

Put(f, k, v) == [x \in DOMAIN f \cup {k} |-> IF x = k THEN v ELSE f[x]]
Without(f, gone) == [x \in DOMAIN f \ gone |-> f[x]]

\* Variant: the completions stay.
WithoutLearnerOnly(d, e) == [d EXCEPT !.students = Without(@, {e})]

\* ON DELETE CASCADE, from learners and from trainings to completions.
WithoutLearner(d, e) ==
  [d EXCEPT !.students = Without(@, {e}),
            !.taken = Without(@, {k \in DOMAIN @ : k[1] = e})]

WithoutTitle(d, t) ==
  [d EXCEPT !.trainings = Without(@, {t}),
            !.taken = Without(@, {k \in DOMAIN @ : k[2] = t})]

HasRows(e) == \E k \in DOMAIN db.taken : k[1] = e

Held(d, id) == {e \in DOMAIN d.students : d.students[e].company = id}

-----------------------------------------------------------------------------
(* Requests. *)

Asked(op, scope, body, pc) ==
  [pc |-> pc, op |-> op, scope |-> scope, body |-> body, outcome |-> None]
Idle == Asked(None, {}, None, "idle")
NoWitness == [of |-> None, db |-> None]
InFlight == {r \in Requests : req[r].pc \notin {"idle", "done"}}

Ready(r, op) ==
  req[r].pc = "idle" /\ op \in Mix.ops /\ (InFlight # {} => Mix.overlap)

\* The request has read and validated: a write follows.
Begin(r, op, scope, body, pc) ==
  /\ req' = [req EXCEPT ![r] = Asked(op, scope, body, pc)]
  /\ witness' = IF InFlight = {} THEN [of |-> r, db |-> db] ELSE NoWitness
  /\ UNCHANGED <<workload, db>>

Opened(r, op, scope, body) ==
  Begin(r, op, scope, body, "write") /\ UNCHANGED <<imports, inserted>>

Writing(r, op) == req[r].pc = "write" /\ req[r].op = op

\* The statement, or the transaction, is carried out.
Written(r, d) ==
  /\ db' = d
  /\ req' = [req EXCEPT ![r].pc = "done", ![r].outcome = "ok"]
  /\ UNCHANGED <<workload, imports, inserted, witness>>

-----------------------------------------------------------------------------
(* Learners: POST /api/students, PUT and DELETE on one. *)

\* The email is stored as it was typed, the theatre is that of the country.
PostStudent(r) ==
  /\ Ready(r, "PostStudent")
  /\ \E scope \in Mix.scopes, e \in Mix.emails, c \in DOMAIN db.regions,
        id \in DOMAIN db.companies :
       /\ id \in scope /\ db.regions[c] # None
       /\ Opened(r, "PostStudent", scope, [email |-> e, row |->
            [company |-> id, country |-> c, theatre |-> db.regions[c]]])

PostStudentWrite(r) ==
  LET b == req[r].body IN
  /\ Writing(r, "PostStudent")
  /\ b.email \notin DOMAIN db.students /\ Placed(db, b.row)
  /\ Written(r, [db EXCEPT !.students = Put(@, b.email, b.row)])

\* The row an edit asks for, and the fields it sets.
Edit(e, new, c, id) ==
  LET row == db.students[e]
      moves == c \notin {Keep, row.country}
  IN  [email |-> e, new |-> new,
       row |-> [company |-> IF id = Keep THEN row.company ELSE id,
                country |-> IF moves THEN c ELSE row.country,
                theatre |-> IF moves THEN db.regions[c] ELSE row.theatre],
       sets |-> {f \in {"company", "country", "theatre"} :
                   IF f = "company" THEN id \notin {Keep, row.company}
                   ELSE IF f = "country" THEN c # Keep ELSE moves}]

\* A learner is moved to a company the caller may use, or to a country that has
\* a theatre, which the learner takes over; and may be given another email.
PutStudent(r) ==
  /\ Ready(r, "PutStudent")
  /\ \E scope \in Mix.scopes, e \in DOMAIN db.students,
        new \in {Keep} \cup Mix.emails, c \in {Keep} \cup DOMAIN db.regions,
        id \in {Keep} \cup DOMAIN db.companies :
       /\ db.students[e].company \in scope
       /\ id \notin {Keep, db.students[e].company} => id \in scope
       /\ c \notin {Keep, db.students[e].country} => db.regions[c] # None
       /\ new # e
       /\ Opened(r, "PutStudent", scope, Edit(e, new, c, id))

PutStudentWrite(r) ==
  LET b == req[r].body
      row == [f \in DOMAIN b.row |->
                IF f \in b.sets THEN b.row[f] ELSE db.students[b.email][f]]
  IN
  /\ Writing(r, "PutStudent") /\ b.new = Keep
  /\ b.email \in DOMAIN db.students /\ Placed(db, row)
  /\ Written(r, [db EXCEPT !.students[b.email] = row])

\* The completions are moved first, then the row is deleted and created again.
\* The key they refer to is checked statement by statement.
RenameStudentWrite(r) ==
  LET b == req[r].body IN
  /\ Writing(r, "PutStudent") /\ b.new # Keep
  /\ HasRows(b.email) => b.new \in DOMAIN db.students
  /\ b.email \in DOMAIN db.students /\ b.new \notin DOMAIN db.students
  /\ Placed(db, b.row)
  /\ Written(r, [db EXCEPT !.students = Put(Without(@, {b.email}), b.new, b.row)])

DeleteStudent(r) ==
  /\ Ready(r, "DeleteStudent")
  /\ \E scope \in Mix.scopes, e \in DOMAIN db.students :
       /\ db.students[e].company \in scope
       /\ Opened(r, "DeleteStudent", scope, [email |-> e])

DeleteStudentWrite(r) ==
  /\ Writing(r, "DeleteStudent") /\ req[r].body.email \in DOMAIN db.students
  /\ Written(r, WithoutLearner(db, req[r].body.email))

-----------------------------------------------------------------------------
(* Companies, SuperAdmins only. *)

NameTaken(name, id) == \E c \in DOMAIN db.companies : c # id /\ db.companies[c] = name

FreeIds == Ids \ DOMAIN db.companies

PostCompany(r) ==
  /\ Ready(r, "PostCompany")
  /\ \E n \in Names : ~NameTaken(n, None) /\ Opened(r, "PostCompany", Ids, [name |-> n])

PostCompanyWrite(r) ==
  /\ Writing(r, "PostCompany") /\ ~NameTaken(req[r].body.name, None)
  /\ \E id \in FreeIds : Written(r, [db EXCEPT !.companies = Put(@, id, req[r].body.name)])

PutCompany(r) ==
  /\ Ready(r, "PutCompany")
  /\ \E id \in DOMAIN db.companies, n \in Names :
       ~NameTaken(n, id) /\ Opened(r, "PutCompany", Ids, [id |-> id, name |-> n])

PutCompanyWrite(r) ==
  LET b == req[r].body IN
  /\ Writing(r, "PutCompany") /\ b.id \in DOMAIN db.companies /\ ~NameTaken(b.name, b.id)
  /\ Written(r, [db EXCEPT !.companies[b.id] = b.name])

\* Counted first, and refused by the foreign key when a learner came since.
DeleteCompany(r) ==
  /\ Ready(r, "DeleteCompany")
  /\ \E id \in DOMAIN db.companies :
       Held(db, id) = {} /\ Opened(r, "DeleteCompany", Ids, [id |-> id])

DeleteCompanyWrite(r) ==
  LET id == req[r].body.id IN
  /\ Writing(r, "DeleteCompany") /\ id \in DOMAIN db.companies /\ Held(db, id) = {}
  /\ Written(r, [db EXCEPT !.companies = Without(@, {id})])

-----------------------------------------------------------------------------
(* Region data, SuperAdmins only. *)

PostRegion(r) ==
  /\ Ready(r, "PostRegion")
  /\ \E c \in Countries, t \in Theatres \cup {None} :
       Opened(r, "PostRegion", Ids, [country |-> c, theatre |-> t])

PostRegionWrite(r) ==
  LET b == req[r].body IN
  /\ Writing(r, "PostRegion") /\ b.country \notin DOMAIN db.regions
  /\ Written(r, [db EXCEPT !.regions = Put(@, b.country, b.theatre)])

PutRegion(r) ==
  /\ Ready(r, "PutRegion")
  /\ \E c \in DOMAIN db.regions, t \in Theatres \cup {None, Keep},
        new \in (Countries \ DOMAIN db.regions) \cup {Keep} :
       Opened(r, "PutRegion", Ids, [country |-> c, new |-> new, theatre |-> t])

\* ON UPDATE CASCADE carries the learners to the new name, with the theatres
\* they have.
PutRegionWrite(r) ==
  LET b == req[r].body
      to == IF b.new = Keep THEN b.country ELSE b.new
  IN
  /\ Writing(r, "PutRegion")
  /\ b.country \in DOMAIN db.regions /\ (b.new # Keep => b.new \notin DOMAIN db.regions)
  /\ Written(r, [db EXCEPT
       !.regions = Put(Without(@, {b.country}), to,
                       IF b.theatre = Keep THEN @[b.country] ELSE b.theatre),
       !.students = [e \in DOMAIN @ |->
          IF @[e].country = b.country THEN [@[e] EXCEPT !.country = to] ELSE @[e]]])

\* ON DELETE RESTRICT.
DeleteRegion(r) ==
  /\ Ready(r, "DeleteRegion")
  /\ \E c \in DOMAIN db.regions : Opened(r, "DeleteRegion", Ids, [country |-> c])

DeleteRegionWrite(r) ==
  LET c == req[r].body.country IN
  /\ Writing(r, "DeleteRegion") /\ c \in DOMAIN db.regions
  /\ \A e \in DOMAIN db.students : db.students[e].country # c
  /\ Written(r, [db EXCEPT !.regions = Without(@, {c})])

\* A file of countries, a row at a time; a theatre column that is not mapped
\* (Keep) is left alone.
ImportRegions(r) ==
  /\ Ready(r, "ImportRegions")
  /\ \E file \in Mix.regionFiles :
       Begin(r, "ImportRegions", Ids, [rows |-> file], "regions")
  /\ UNCHANGED <<imports, inserted>>

ImportRegionsRow(r) ==
  LET rows == req[r].body.rows
      row == Head(rows)
      known == row.country \in DOMAIN db.regions
      theatre == IF row.theatre # Keep THEN row.theatre
                 ELSE IF known THEN db.regions[row.country] ELSE None
  IN
  /\ req[r].pc = "regions"
  /\ db' = IF row.country = Blank THEN db
           ELSE [db EXCEPT !.regions = Put(@, row.country, theatre)]
  /\ req' = [req EXCEPT ![r].body.rows = Tail(@),
                        ![r].pc = IF Len(rows) = 1 THEN "done" ELSE @]
  /\ UNCHANGED <<workload, imports, inserted, witness>>

\* A training is deleted from the catalogue, and its completions with it.
DeleteTraining(r) ==
  /\ Ready(r, "DeleteTraining")
  /\ \E t \in DOMAIN db.trainings : Opened(r, "DeleteTraining", Ids, [title |-> t])

DeleteTrainingWrite(r) ==
  LET t == req[r].body.title IN
  /\ Writing(r, "DeleteTraining") /\ t \in DOMAIN db.trainings
  /\ Written(r, WithoutTitle(db, t))

-----------------------------------------------------------------------------
(* The import of completions.  A SuperAdmin's scope is every company. *)

\* What the export writes: a row for each completion in scope.
Exported(scope) ==
  LET row(k) == LET s == db.students[k[1]] IN
        [email |-> k[1], title |-> k[2], date |-> k[3], country |-> s.country,
         theatre |-> s.theatre, company |-> db.companies[s.company], valid |-> TRUE]
  IN  SetToSeq({row(k) : k \in {x \in DOMAIN db.taken : db.students[x[1]].company \in scope}})

NoCounts == [students |-> 0, updated |-> 0, trainings |-> 0, taken |-> 0, skipped |-> 0,
             conflicts |-> 0, failed |-> {}, pairs |-> <<>>, touched |-> {}]
ImportOf(rows, draft, introduced, known) ==
  [rows |-> rows, draft |-> draft, known |-> known, introduced |-> introduced,
   base |-> <<>>, at |-> 1, stages |-> <<>>, missing |-> FALSE, out |-> NoCounts]
NoImport == ImportOf(<<>>, <<>>, <<>>, <<>>)

\* resolveRowPreludes: the company of each row, by name, in row order.  What was
\* met is remembered in lower case, what is looked up is exact; and only a
\* SuperAdmin's file introduces companies.
Met(x, row, names, default, super) ==
  LET n == row.company
      low == Lower(n)
      gives(d) == [x EXCEPT !.draft = Append(@, d)]
  IN  IF ~row.valid THEN gives(None)
      ELSE IF n = Blank THEN gives(default)
      ELSE IF low \in DOMAIN x.cache THEN gives(x.cache[low])
      ELSE IF n \in names
        THEN [x EXCEPT !.draft = Append(@, n), !.cache = Put(@, low, n)]
      ELSE IF super
        THEN [x EXCEPT !.draft = Append(@, n), !.cache = Put(@, low, n),
                       !.introduced = Append(@, n)]
      ELSE gives(None)

Unmet(default) ==
  [cache |-> IF default = None THEN <<>> ELSE [k \in {Lower(default)} |-> default],
   introduced |-> <<>>, draft |-> <<>>]

Drafted(rows, names, default, super) ==
  LET x[n \in 0..Len(rows)] ==
        IF n = 0 THEN Unmet(default) ELSE Met(x[n - 1], rows[n], names, default, super)
  IN  x[Len(rows)]

CompanyNames == {db.companies[id] : id \in DOMAIN db.companies}

Drawn(r, scope, f, rows, d) ==
  /\ Begin(r, "ImportStudents", scope, [file |-> f, last |-> 0],
           IF d.introduced = <<>> THEN "read" ELSE "companies")
  /\ imports' = [imports EXCEPT ![r] =
       ImportOf(rows, d.draft, d.introduced,
         [n \in CompanyNames |-> CHOOSE id \in DOMAIN db.companies : db.companies[id] = n])]
  /\ UNCHANGED inserted

\* The email is put in lower case; the companies there are, are read.
ImportStudents(r) ==
  /\ Ready(r, "ImportStudents")
  /\ \E scope \in Mix.scopes, f \in Mix.files,
        default \in {None} \cup DOMAIN db.companies :
       LET file == IF f = Export THEN Exported(scope) ELSE f
           rows == [i \in DOMAIN file |-> [file[i] EXCEPT !.email = Lower(@)]]
           d == Drafted(rows, CompanyNames,
                        IF default = None THEN None ELSE db.companies[default], scope = Ids)
       IN
       /\ default # None => default \in scope
       /\ f = Export => default = None
       /\ Drawn(r, scope, f, rows, d)

\* One statement: when any of the names exists by now, the request ends here.
ImportCompanies(r) ==
  LET new == imports[r].introduced IN
  /\ req[r].pc = "companies"
  /\ IF \E i \in DOMAIN new : NameTaken(new[i], None)
       THEN /\ req' = [req EXCEPT ![r].pc = "done", ![r].outcome = "error"]
            /\ UNCHANGED <<db, imports>>
       ELSE \E f \in [DOMAIN new -> FreeIds] :
            /\ \A i, j \in DOMAIN new : i < j => f[i] < f[j]
            /\ db' = [db EXCEPT !.companies =
                 [id \in DOMAIN @ \cup {f[i] : i \in DOMAIN new} |->
                    IF id \in DOMAIN @ THEN @[id] ELSE new[CHOOSE i \in DOMAIN new : f[i] = id]]]
            /\ imports' = [imports EXCEPT ![r].known =
                 [n \in DOMAIN @ \cup {new[i] : i \in DOMAIN new} |->
                    IF n \in DOMAIN @ THEN @[n] ELSE f[CHOOSE i \in DOMAIN new : new[i] = n]]]
            /\ req' = [req EXCEPT ![r].pc = "read"]
  /\ UNCHANGED <<workload, inserted, witness>>

\* prefetchImportState: a table after the other.
ImportReads(r) ==
  LET t == Tables[Cardinality(DOMAIN imports[r].base) + 1] IN
  /\ req[r].pc = "read"
  /\ imports' = [imports EXCEPT ![r].base = Put(@, t, db[t])]
  /\ req' = [req EXCEPT ![r].pc = IF t = "taken" THEN "chunk" ELSE @]
  /\ UNCHANGED <<workload, db, inserted, witness>>

-----------------------------------------------------------------------------
(* A row, against a copy of the tables (processRow). *)

\* None: the row was refused before any of this.
CompanyOf(r, i) ==
  LET d == imports[r].draft[i] IN
  IF d = None THEN None
  ELSE IF imports[r].known[d] \in req[r].scope THEN imports[r].known[d] ELSE None

Stages(row) == IF row.country = Blank THEN Tail(Tables) ELSE Tables

KeyIn(t, row) ==
  CASE t = "regions" -> row.country
    [] t = "students" -> row.email
    [] t = "trainings" -> row.title
    [] t = "taken" -> <<row.email, row.title, row.date>>

\* The theatre of the country prevails over that of the file.
Theatre(row, view) ==
  IF row.country # Blank /\ view.regions[row.country] # None
    THEN view.regions[row.country] ELSE row.theatre

EntryFor(t, row, company, view) ==
  CASE t = "regions" -> row.theatre
    [] t = "students" -> [company |-> company, country |-> row.country,
                          theatre |-> Theatre(row, view)]
    [] t = "trainings" -> TRUE
    [] t = "taken" -> 1

Failed(out, i) == [out EXCEPT !.failed = @ \cup {i}]

\* Variant: not asked of the import.
NotForeign(t, row, view, scope) == FALSE

\* The learner belongs to a company that the caller cannot access.
Foreign(t, row, view, scope) ==
  t = "students" /\ view.students[row.email].company \notin scope

\* What an entry that is there already contributes to the outcome.
Found(t, row, company, view, out) ==
  CASE t = "students" ->
         LET own == view.students[row.email].company IN
         [out EXCEPT !.updated = @ + 1, !.touched = @ \cup {own},
                     !.conflicts = IF own = company THEN @ ELSE @ + 1]
    [] t = "taken" -> [out EXCEPT !.skipped = @ + 1]
    [] OTHER -> out

\* What an entry the row creates contributes.
Created(t, row, company, out) ==
  CASE t = "students" -> [out EXCEPT !.students = @ + 1, !.touched = @ \cup {company}]
    [] t = "trainings" -> [out EXCEPT !.trainings = @ + 1]
    [] t = "taken" -> [out EXCEPT !.taken = @ + 1,
                                  !.pairs = Append(@, <<row.email, row.title>>)]
    [] OTHER -> out

\* DeferredEnv: everything is created, on the copy, except a learner whose
\* country cannot be there.
Stage(r, i, t, y) ==
  LET row == imports[r].rows[i]
      company == CompanyOf(r, i)
      k == KeyIn(t, row)
  IN  IF y.stop THEN y
      ELSE IF k \in DOMAIN y.view[t]
        THEN IF Foreign(t, row, y.view, req[r].scope)
               THEN [y EXCEPT !.stop = TRUE, !.out = Failed(@, i)]
               ELSE [y EXCEPT !.out = Found(t, row, company, y.view, @)]
      ELSE IF t = "students" /\ row.country \notin DOMAIN y.view.regions
        THEN [y EXCEPT !.stop = TRUE, !.out = Failed(@, i)]
      ELSE [y EXCEPT !.view[t] = Put(@, k, EntryFor(t, row, company, y.view)),
                     !.out = Created(t, row, company, @)]

\* The country, the learner, the training, the completion.
Worked(r, x, i) ==
  LET fresh == [x EXCEPT !.stop = FALSE]
      placed == IF imports[r].rows[i].country = Blank THEN fresh
                ELSE Stage(r, i, "regions", fresh)
  IN  IF CompanyOf(r, i) = None THEN [x EXCEPT !.out = Failed(@, i)]
      ELSE Stage(r, i, "taken", Stage(r, i, "trainings", Stage(r, i, "students", placed)))

LastOf(r) ==
  LET n == Len(imports[r].rows)
      last == imports[r].at + ChunkSize - 1
  IN  IF last < n THEN last ELSE n

Chunk(r) == [j \in 1..(LastOf(r) - imports[r].at + 1) |-> imports[r].at + j - 1]

Untried(r) == [view |-> imports[r].base, out |-> imports[r].out, stop |-> FALSE]

\* The copy after the first n rows of the chunk.
Copies(r) ==
  LET x[n \in 0..Len(Chunk(r))] ==
        IF n = 0 THEN Untried(r) ELSE Worked(r, x[n - 1], Chunk(r)[n])
  IN  x

\* What the chunk comes to on the copy.
Simulated(r) == Copies(r)[Len(Chunk(r))]

New(r, view, t) == DOMAIN view[t] \ DOMAIN imports[r].base[t]

\* The transaction: a duplicate training is skipped; any other, and a reference
\* to what is gone, undo it all.
Merged(r, view, t) ==
  [k \in DOMAIN db[t] \cup New(r, view, t) |->
     IF k \notin New(r, view, t) THEN db[t][k]
     ELSE IF t = "taken" /\ k \in DOMAIN db[t] THEN db[t][k] + 1
     ELSE view[t][k]]

Flushed(r, view) ==
  [companies |-> db.companies,
   regions |-> Merged(r, view, "regions"), students |-> Merged(r, view, "students"),
   trainings |-> Merged(r, view, "trainings"), taken |-> Merged(r, view, "taken")]

Flushes(r, view) ==
  LET d == Flushed(r, view) IN
  /\ New(r, view, "regions") \cap DOMAIN db.regions = {}
  /\ New(r, view, "students") \cap DOMAIN db.students = {}
  /\ \A e \in New(r, view, "students") : Placed(d, view.students[e])
  /\ \A k \in New(r, view, "taken") : k[1] \in DOMAIN d.students /\ k[2] \in DOMAIN d.trainings

\* Variant: what a chunk rolled back had counted is kept.
KeptCounts(r) == Simulated(r).out
RolledBack(r) == imports[r].out

\* The copy after a chunk.
CommittedCopy(r, view) == view

\* The row (past the last: none) and the stages left for the row-by-row run.
StagesAt(r, i) == IF CompanyOf(r, i) = None THEN <<>> ELSE Stages(imports[r].rows[i])

ImportChunk(r) ==
  LET x == Simulated(r)
      i == imports[r].at
  IN
  /\ req[r].pc = "chunk" /\ i <= Len(imports[r].rows)
  /\ IF Flushes(r, x.view)
       THEN /\ db' = Flushed(r, x.view)
            /\ imports' = [imports EXCEPT ![r].base = CommittedCopy(r, x.view),
                                          ![r].out = x.out, ![r].at = LastOf(r) + 1]
            /\ inserted' = [inserted EXCEPT ![r].students = @ + Cardinality(New(r, x.view, "students")),
                                            ![r].taken = @ + Cardinality(New(r, x.view, "taken"))]
            /\ UNCHANGED req
       ELSE /\ imports' = [imports EXCEPT ![r].out = RolledBack(r),
                                          ![r].stages = StagesAt(r, i)]
            /\ req' = [req EXCEPT ![r].pc = "slow", ![r].body.last = LastOf(r)]
            /\ UNCHANGED <<db, inserted>>
  /\ UNCHANGED <<workload, witness>>

-----------------------------------------------------------------------------
(* Row by row (ImmediateEnv): a query, and a statement when it finds nothing. *)

Slow(r) == req[r].pc = "slow"
AtRow(r) == imports[r].rows[imports[r].at]

\* The next row, or the next chunk.
SlowNextRow(r) ==
  /\ Slow(r) /\ imports[r].stages = <<>>
  /\ imports' = [imports EXCEPT
       ![r].at = @ + 1,
       ![r].out = IF CompanyOf(r, imports[r].at) = None THEN Failed(@, imports[r].at) ELSE @,
       ![r].stages = IF imports[r].at < req[r].body.last THEN StagesAt(r, imports[r].at + 1)
                     ELSE <<>>]
  /\ req' = [req EXCEPT ![r].pc = IF imports[r].at < req[r].body.last THEN @ ELSE "chunk"]
  /\ UNCHANGED <<workload, db, inserted, witness>>

SlowLookup(r) ==
  LET m == imports[r]
      t == Head(m.stages)
      row == AtRow(r)
      k == KeyIn(t, row)
      copy == m.base
      view == IF k \notin DOMAIN copy[t] /\ k \in DOMAIN db[t]
                THEN [copy EXCEPT ![t] = Put(@, k, db[t][k])] ELSE copy
  IN
  /\ Slow(r) /\ m.stages # <<>> /\ ~m.missing
  /\ imports' = [imports EXCEPT ![r] =
       IF k \notin DOMAIN view[t] THEN [m EXCEPT !.missing = TRUE]
       ELSE IF Foreign(t, row, view, req[r].scope)
         THEN [m EXCEPT !.base = view, !.out = Failed(@, m.at), !.stages = <<>>]
       ELSE [m EXCEPT !.base = view, !.stages = Tail(@),
               !.out = Found(t, row, CompanyOf(r, m.at), view, @)]]
  /\ UNCHANGED <<workload, db, req, inserted, witness>>

\* What the keys of a table let in.
Accepted(t, k, entry) ==
  CASE t = "regions" -> k \notin DOMAIN db.regions
    [] t = "students" -> k \notin DOMAIN db.students /\ Placed(db, entry)
    [] t = "trainings" -> TRUE
    [] t = "taken" -> k[1] \in DOMAIN db.students /\ k[2] \in DOMAIN db.trainings

SlowCreate(r) ==
  LET m == imports[r]
      t == Head(m.stages)
      row == AtRow(r)
      k == KeyIn(t, row)
      company == CompanyOf(r, m.at)
      entry == EntryFor(t, row, company, m.base)
      count == IF t = "taken" /\ k \in DOMAIN db.taken THEN db.taken[k] + 1 ELSE entry
  IN
  /\ Slow(r) /\ m.stages # <<>> /\ m.missing
  /\ IF Accepted(t, k, entry)
       THEN /\ db' = [db EXCEPT ![t] = Put(@, k, count)]
            /\ imports' = [imports EXCEPT ![r] =
                 [m EXCEPT !.missing = FALSE, !.stages = Tail(@), !.base[t] = Put(@, k, entry),
                           !.out = Created(t, row, company, @)]]
            /\ inserted' = [inserted EXCEPT
                 ![r].students = IF t = "students" THEN @ + 1 ELSE @,
                 ![r].taken = IF t = "taken" THEN @ + 1 ELSE @]
       ELSE /\ imports' = [imports EXCEPT ![r] =
                 [m EXCEPT !.missing = FALSE, !.stages = <<>>, !.out = Failed(@, m.at)]]
            /\ UNCHANGED <<db, inserted>>
  /\ UNCHANGED <<workload, req, witness>>

ImportEnds(r) ==
  /\ req[r].pc = "chunk" /\ imports[r].at > Len(imports[r].rows)
  /\ req' = [req EXCEPT ![r].pc = "done", ![r].outcome = "ok"]
  /\ UNCHANGED <<workload, db, imports, inserted, witness>>

-----------------------------------------------------------------------------

Init ==
  /\ workload \in DOMAIN Workloads
  /\ db \in Mix.databases
  /\ req = [r \in Requests |-> Idle]
  /\ imports = [r \in Requests |-> NoImport]
  /\ inserted = [r \in Requests |-> [students |-> 0, taken |-> 0]]
  /\ witness = NoWitness

Reads(r) ==
  \/ PostStudent(r) \/ PutStudent(r) \/ DeleteStudent(r)
  \/ PostCompany(r) \/ PutCompany(r) \/ DeleteCompany(r)
  \/ PostRegion(r) \/ PutRegion(r) \/ DeleteRegion(r) \/ ImportRegions(r)
  \/ DeleteTraining(r) \/ ImportStudents(r)

Writes(r) ==
  \/ PostStudentWrite(r) \/ PutStudentWrite(r) \/ RenameStudentWrite(r)
  \/ DeleteStudentWrite(r) \/ PostCompanyWrite(r) \/ PutCompanyWrite(r)
  \/ DeleteCompanyWrite(r) \/ PostRegionWrite(r) \/ PutRegionWrite(r)
  \/ DeleteRegionWrite(r) \/ DeleteTrainingWrite(r)

\* A statement violates a key, or its row is gone: nothing is written.
WriteFails(r) ==
  /\ req[r].pc = "write" /\ ~ENABLED Writes(r)
  /\ req' = [req EXCEPT ![r].pc = "done", ![r].outcome = "error"]
  /\ UNCHANGED <<workload, db, imports, inserted, witness>>

Imports(r) ==
  \/ ImportCompanies(r) \/ ImportReads(r) \/ ImportChunk(r) \/ SlowLookup(r)
  \/ SlowCreate(r) \/ SlowNextRow(r) \/ ImportEnds(r) \/ ImportRegionsRow(r)

Next == \E r \in Requests : Reads(r) \/ Writes(r) \/ WriteFails(r) \/ Imports(r)

Spec == Init /\ [][Next]_vars

-----------------------------------------------------------------------------
(* Properties. *)

\* A request that nothing overlapped has just ended.
Ended(r, op) == witness.of = r /\ req[r].pc = "done" /\ req[r].op = op

\* The foreign keys hold, company names differ, and the tables are typed.
TypeOK == workload \in DOMAIN Workloads /\ Sound(db)

\* An entry that is not there yet.
Ensure(f, k, v) == IF k \in DOMAIN f THEN f ELSE Put(f, k, v)

\* What a row comes to on the tables x.db: the country, then the learner, the
\* training and the completion; x.rows are those that were not refused.
Row(row, company, scope, x, i) ==
  LET d == x.db
      regions == IF row.country = Blank THEN d.regions
                 ELSE Ensure(d.regions, row.country, row.theatre)
      refused == IF row.email \in DOMAIN d.students
                   THEN d.students[row.email].company \notin scope
                   ELSE row.country \notin DOMAIN regions
      theatre == IF row.country # Blank /\ regions[row.country] # None
                   THEN regions[row.country] ELSE row.theatre
      learner == [company |-> company, country |-> row.country, theatre |-> theatre]
  IN  IF company = None THEN x
      ELSE IF refused THEN [rows |-> x.rows, db |-> [d EXCEPT !.regions = regions]]
      ELSE [rows |-> x.rows \cup {i},
            db |-> [companies |-> d.companies, regions |-> regions,
                    students |-> Ensure(d.students, row.email, learner),
                    trainings |-> Ensure(d.trainings, row.title, TRUE),
                    taken |-> Ensure(d.taken, <<row.email, row.title, row.date>>, 1)]]

\* What the first rows of a file come to, one after the other.
RowByRow(rows, companies, scope, before) ==
  LET x[n \in 0..Len(rows)] ==
        IF n = 0 THEN [rows |-> {}, db |-> before]
        ELSE Row(rows[n], companies[n], scope, x[n - 1], n)
  IN  x

\* The import writes what taking the rows one by one would write, and refuses the
\* same rows: the copy, the chunks and the transactions do not show.  (The
\* companies a file introduces are in place before any row.)
BatchIsRowByRow ==
  \A r \in Requests : Ended(r, "ImportStudents") /\ req[r].outcome = "ok" =>
    LET rows == imports[r].rows
        before == [witness.db EXCEPT !.companies = db.companies]
        x == RowByRow(rows, [i \in DOMAIN rows |-> CompanyOf(r, i)], req[r].scope, before)
    IN  /\ db = x[Len(rows)].db
        /\ imports[r].out.failed = DOMAIN rows \ x[Len(rows)].rows

\* What the summary counts, and the completions handed to the recomputation of
\* OLX parents, are the rows inserted: whichever chunks were rolled back and run
\* again, and whatever others did meanwhile.
CountsAreHonest ==
  \A r \in Requests : req[r].pc = "done" /\ req[r].op = "ImportStudents" =>
    LET out == imports[r].out IN
    /\ out.students = inserted[r].students
    /\ out.taken = inserted[r].taken /\ Len(out.pairs) = inserted[r].taken

\* An export imported again changes nothing, if learners' emails are lower case.
ReimportChangesNothing ==
  \A r \in Requests :
    /\ Ended(r, "ImportStudents") /\ req[r].body.file = Export
    /\ \A e \in DOMAIN witness.db.students : e = Lower(e)
    => db = witness.db

\* All three: an import writes and reports what its rows amount to
\* (importStudents), and an export amounts to nothing.
ImportIsExact == BatchIsRowByRow /\ CountsAreHonest /\ ReimportChangesNothing

\* The learners of other companies, and what they have taken, stay as they are, and
\* all others are of the companies r may use.
KeptApart(r) ==
  LET mine(e, d) == d.students[e].company \in req[r].scope
      rows(e, d) == {<<k, d.taken[k]>> : k \in {x \in DOMAIN d.taken : x[1] = e}}
  IN  /\ \A e \in DOMAIN db.students : ~mine(e, db) =>
           /\ e \in DOMAIN db'.students /\ db'.students[e] = db.students[e]
           /\ rows(e, db') = rows(e, db)
      /\ \A e \in DOMAIN db'.students :
           mine(e, db') \/ (e \in DOMAIN db.students /\ ~mine(e, db))

\* An Admin's request leaves the learners of other companies, and what they have
\* taken, as they are, and puts nobody in a company the Admin cannot access.
TenantsKeptApart ==
  [][\A r \in Requests : witness.of = r /\ req[r].pc # "done" => KeptApart(r)]_vars
=============================================================================
