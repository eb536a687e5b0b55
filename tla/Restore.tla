------------------------------- MODULE Restore -------------------------------
(***************************************************************************)
(* src/src/app/api/admin/backup: taking a backup, full or of the           *)
(* configuration, and restoring one, here or on another install.           *)
(*                                                                         *)
(* A backup is read table by table outside any transaction, so it may mix  *)
(* two moments; a restore is one transaction.  Ids differ between          *)
(* installs: a restore matches companies, users, product types, sets and   *)
(* terms by name.  An archive of an older version lacks some files.        *)
(*                                                                         *)
(* Regions and theatres of countries, minimums, tiers, specialisations,    *)
(* alternatives, aliases, settings, encryption, upload limits and the      *)
(* password asked before a restore are left out.                           *)
(*                                                                         *)
(* "here", "away", "ended" and "last" are history: only the properties     *)
(* read them.                                                              *)
(***************************************************************************)
EXTENDS Naturals, Sequences, FiniteSets, Functions

CONSTANTS
  Workloads,  \* by name: the installs, the edits, what a backup may look like
  MaxEpoch,   \* MAX_SESSION_EPOCH
  MaxEdits,   \* bound: handlers other than backups and restores
  MaxRestores,\* bound
  None        \* no company, no set, no backup, no archive

\* Tables a backup reads.  The other fields of a database are its sequences.
Tables == {"companies", "types", "regions", "training", "olx", "learners", "taken",
           "users", "links", "programs", "requirements", "offerings", "sets", "terms"}
InConfig == Tables \ {"companies", "learners", "taken", "users", "links"}

VARIABLES
  workload,
  db,       \* companies, types: id -> name; regions, programs: names; training:
            \* title -> type; olx, taken, links, requirements: pairs; learners:
            \* email -> company, country; users: id -> name, admin, epoch;
            \* offerings: <<company, name>> -> titles; sets: <<company, name>>
            \* -> countries; terms: <<program, company>> -> name of a set
  backup,   \* the backup being read
  archive,  \* the last archive taken
  edits, restores,
  here,     \* cookies minted by this install, as [id, epoch]
  away,     \* cookies minted by the install the archive comes from
  ended,    \* cookies a restore has ended
  last      \* the last restore

\* Every foreign key but a cascade's.
Fits(d) ==
  /\ \A t \in DOMAIN d.training : d.training[t] \in DOMAIN d.types
  /\ \A e \in DOMAIN d.learners : d.learners[e].company \in DOMAIN d.companies
                                /\ d.learners[e].country \in d.regions
  /\ \A x \in d.taken : x[1] \in DOMAIN d.learners /\ x[2] \in DOMAIN d.training
  /\ \A x \in d.olx : {x[1], x[2]} \subseteq DOMAIN d.training
  /\ \A x \in d.requirements : x[1] \in d.programs /\ x[2] \in DOMAIN d.training
  /\ \A o \in DOMAIN d.offerings : d.offerings[o] \subseteq DOMAIN d.training

\* A table whose rows have ids and names of their own.
Numbered(names) ==
  IsFiniteSet(DOMAIN names) /\ DOMAIN names \subseteq Nat /\ IsInjective(names)

\* Keys of two columns.
Paired(keys) == \A x \in keys : x = <<x[1], x[2]>>

\* The accounts have ids their sequence has given, and epochs the column can hold.
SoundAccounts(d) ==
  /\ {"users", "nextUser"} \subseteq DOMAIN d /\ d.nextUser \in Nat
  /\ IsFiniteSet(DOMAIN d.users)
  /\ \A u \in DOMAIN d.users :
       /\ u \in Nat /\ u < d.nextUser
       /\ "epoch" \in DOMAIN d.users[u] /\ d.users[u].epoch \in 0 .. MaxEpoch

\* The sequence of the companies is past their ids; that of the product types
\* need not be past theirs.
SoundNames(d) ==
  /\ Numbered(d.companies) /\ Numbered(d.types)
  /\ {"nextCompany", "nextType"} \subseteq DOMAIN d
  /\ d.nextCompany \in Nat /\ d.nextType \in Nat
  /\ \A c \in DOMAIN d.companies : c < d.nextCompany

\* What belongs to a partner.
SoundPartners(d) ==
  /\ Paired(DOMAIN d.sets) /\ Paired(DOMAIN d.terms)
  /\ Paired(DOMAIN d.offerings) /\ Paired(d.links)
  /\ \A s \in DOMAIN d.sets : s[1] \in DOMAIN d.companies /\ d.sets[s] \subseteq d.regions
  /\ \A t \in DOMAIN d.terms : /\ t[1] \in d.programs /\ t[2] \in DOMAIN d.companies
                               /\ d.terms[t] # None => <<t[2], d.terms[t]>> \in DOMAIN d.sets
  /\ \A o \in DOMAIN d.offerings : o[1] \in DOMAIN d.companies
  /\ \A l \in d.links : l[1] \in DOMAIN d.users /\ l[2] \in DOMAIN d.companies

\* What the schema holds a database to.
Sound(d) ==
  /\ Tables \subseteq DOMAIN d
  /\ SoundAccounts(d) /\ SoundNames(d) /\ SoundPartners(d) /\ Fits(d)

\* Archives of an install had programs before country sets, and these before terms.
Parameters ==
  /\ MaxEpoch \in Nat /\ None \notin Nat /\ None \notin {"full", "config"}
  /\ \A w \in DOMAIN Workloads :
       /\ \A d \in Workloads[w].installs \cup Workloads[w].others : Sound(d)
       /\ \A files \in Workloads[w].files :
            "full" \in Workloads[w].kinds /\ "terms" \in files => {"reference", "sets"} \subseteq files

vars == <<workload, db, backup, archive, edits, restores, here, away, ended, last>>

Mix == Workloads[workload]
NoRestore == [kind |-> None, outcome |-> None, before |-> None, archive |-> None,
              edits |-> 0]

Init ==
  /\ workload \in DOMAIN Workloads
  /\ db \in Workloads[workload].installs
  /\ backup = None /\ archive = None
  /\ edits = 0 /\ restores = 0
  /\ here = {} /\ away = {} /\ ended = {}
  /\ last = NoRestore

HighestOf(numbers) ==
  IF numbers = {} THEN 0 ELSE CHOOSE n \in numbers : \A m \in numbers : m <= n
AtMost(n, bound) == IF n < bound THEN n ELSE bound

Named(names, n) == {i \in DOMAIN names : names[i] = n}
TheId(names, n) == CHOOSE i \in Named(names, n) : TRUE

\* Variant: of any partner.
LinkedToAny(d, company, set) ==
  IF \E s \in DOMAIN d.sets : s[2] = set THEN set ELSE None

\* A link to a set by name: to nothing, when that company has no such set.
Linked(d, company, set) == IF <<company, set>> \in DOMAIN d.sets THEN set ELSE None

-----------------------------------------------------------------------------
(* What changes the tables meanwhile.                                      *)

Edited(op, d) ==
  /\ op \in Mix.edits /\ edits < MaxEdits
  /\ db' = d /\ edits' = edits + 1
  /\ UNCHANGED <<workload, backup, archive, restores, away, ended, last>>

CreateCompany(n) ==
  /\ Named(db.companies, n) = {}
  /\ Edited("CreateCompany",
       [db EXCEPT !.companies = [i \in DOMAIN @ \cup {db.nextCompany} |->
                                   IF i \in DOMAIN @ THEN @[i] ELSE n],
                  !.nextCompany = @ + 1])
  /\ UNCHANGED here

RenameCompany(c, n) ==
  /\ Named(db.companies, n) = {}
  /\ Edited("RenameCompany", [db EXCEPT !.companies[c] = n])
  /\ UNCHANGED here

\* Refused while learners are assigned to it, and by the foreign key of its
\* offerings; its sets, its terms and the access to it go with it.
DeleteCompany(c) ==
  /\ \A e \in DOMAIN db.learners : db.learners[e].company # c
  /\ \A o \in DOMAIN db.offerings : o[1] # c
  /\ Edited("DeleteCompany",
       [db EXCEPT !.companies = Restrict(@, DOMAIN @ \ {c}),
                  !.sets = Restrict(@, {s \in DOMAIN @ : s[1] # c}),
                  !.terms = Restrict(@, {t \in DOMAIN @ : t[2] # c}),
                  !.links = {l \in @ : l[2] # c}])
  /\ UNCHANGED here

\* POST /api/admin/product-types: the sequence moves even if its id is taken, and
\* then the insert fails.
CreateType(n) ==
  /\ Named(db.types, n) = {}
  /\ Edited("CreateType",
       [db EXCEPT !.types = IF db.nextType \in DOMAIN @ THEN @
                            ELSE [i \in DOMAIN @ \cup {db.nextType} |->
                                    IF i \in DOMAIN @ THEN @[i] ELSE n],
                  !.nextType = @ + 1])
  /\ UNCHANGED here

\* The members are replaced in one transaction; the name stays.
EditSet(s, members) ==
  /\ members # db.sets[s]
  /\ Edited("EditSet", [db EXCEPT !.sets[s] = members])
  /\ UNCHANGED here

DeleteSet(s) ==
  /\ Edited("DeleteSet",
       [db EXCEPT !.sets = Restrict(@, DOMAIN @ \ {s}),
                  !.terms = [t \in DOMAIN @ |->
                               IF <<t[2], @[t]>> = s THEN None ELSE @[t]]])
  /\ UNCHANGED here

\* A partner's terms for a program, with a set of that partner or without one.
CreateTerms(p, c, set) ==
  /\ <<p, c>> \notin DOMAIN db.terms
  /\ Edited("CreateTerms",
       [db EXCEPT !.terms = [t \in DOMAIN @ \cup {<<p, c>>} |->
                               IF t \in DOMAIN @ THEN @[t] ELSE set]])
  /\ UNCHANGED here

\* A sign-in, and the two halves of a password change that matter here: the
\* counter goes up and a cookie is minted at the new value.
SignIn(u) ==
  /\ [id |-> u, epoch |-> db.users[u].epoch] \notin here
  /\ Edited("SignIn", db)
  /\ here' = here \cup {[id |-> u, epoch |-> db.users[u].epoch]}

ChangePassword(u) ==
  /\ db.users[u].epoch < MaxEpoch
  /\ Edited("ChangePassword", [db EXCEPT !.users[u].epoch = @ + 1])
  /\ here' = here \cup {[id |-> u, epoch |-> db'.users[u].epoch]}

Edit ==
  \/ \E n \in Mix.names :
       CreateCompany(n) \/ CreateType(n) \/ \E c \in DOMAIN db.companies : RenameCompany(c, n)
  \/ \E c \in DOMAIN db.companies :
       \/ DeleteCompany(c)
       \/ \E p \in db.programs, set \in {s[2] : s \in DOMAIN db.sets} \cup {None} :
            (set # None => <<c, set>> \in DOMAIN db.sets) /\ CreateTerms(p, c, set)
  \/ \E s \in DOMAIN db.sets : DeleteSet(s) \/ \E m \in SUBSET db.regions : EditSet(s, m)
  \/ \E u \in DOMAIN db.users : SignIn(u) \/ ChangePassword(u)
-----------------------------------------------------------------------------
(* Backups.                                                                *)

\* Some of the queries are answered.
BeginBackup(kind, files, first) ==
  /\ backup = None /\ archive = None
  /\ backup' = [kind |-> kind, files |-> files, first |-> first, db |-> db, here |-> here]
  /\ UNCHANGED <<workload, db, archive, edits, restores, here, away, ended, last>>

Read(t) == IF t \in backup.first THEN backup.db[t] ELSE db[t]

\* The others are answered, and the archive is written.  A row of a set, or of
\* terms, carries the name its company had when the row was read.
EndBackup ==
  /\ backup # None
  /\ archive' =
       [kind |-> backup.kind, files |-> backup.files,
        tables |-> [t \in Tables |-> Read(t)],
        setPartners |-> IF "sets" \in backup.first THEN backup.db.companies ELSE db.companies,
        termPartners |-> IF "terms" \in backup.first THEN backup.db.companies ELSE db.companies,
        whole |-> backup.db = db, cookies |-> backup.here]
  /\ backup' = None
  /\ UNCHANGED <<workload, db, edits, restores, here, away, ended, last>>

\* The archive is taken to another install, which shares the secret cookies are
\* signed with.
MoveToAnotherInstall ==
  /\ archive # None /\ last = NoRestore /\ away = {}
  /\ db' \in Mix.others
  /\ away' = here /\ here' = {}
  /\ UNCHANGED <<workload, backup, archive, edits, restores, ended, last>>
-----------------------------------------------------------------------------
(* What both restores do.                                                  *)

\* Variant: an archived id is taken at face value.
RowCompanyAtFaceValue(d, ids, c, name) ==
  IF c \in DOMAIN ids THEN ids[c] ELSE IF c \in DOMAIN d.companies THEN c ELSE None

\* Of an archived row, with its company and the name it carries: the company it
\* belongs to here, if any.  "ids" maps archived companies to local ones.
RowCompany(d, ids, c, name) ==
  IF c \in DOMAIN ids THEN ids[c]
  ELSE IF Named(d.companies, name) # {} THEN TheId(d.companies, name) ELSE None

SetCompany(d, ids, a, s) == RowCompany(d, ids, s[1], a.setPartners[s[1]])
TermCompany(d, ids, a, t) == RowCompany(d, ids, t[2], a.termPartners[t[2]])

Oldest(d) ==
  IF DOMAIN d.companies = {} THEN None
  ELSE CHOOSE c \in DOMAIN d.companies : \A x \in DOMAIN d.companies : c <= x

\* restoreCountrySets.  Without the file, the sets stay, and of their members
\* those whose country still exists.
WithSets(d, ids, a, everyone) ==
  IF "sets" \notin a.files
  THEN [d EXCEPT !.sets = [s \in DOMAIN @ |-> @[s] \cap d.regions]]
  ELSE LET rows == {s \in DOMAIN a.tables.sets : SetCompany(d, ids, a, s) # None}
           to(s) == <<SetCompany(d, ids, a, s), s[2]>>
           replaced == {to(s)[1] : s \in rows}
           kept == {s \in DOMAIN d.sets : ~everyone /\ s[1] \notin replaced}
       IN  [d EXCEPT !.sets = [x \in {to(s) : s \in rows} \cup kept |->
              IF x \in kept THEN d.sets[x]
              ELSE a.tables.sets[CHOOSE s \in rows : to(s) = x] \cap d.regions]]

\* restoreProgramCompanySettings, after the programs and the sets: "live" are the
\* terms before the restore.
WithTerms(d, ids, a, live, everyone) ==
  LET carried == "terms" \in a.files
      rows == IF carried
              THEN {t \in DOMAIN a.tables.terms : TermCompany(d, ids, a, t) # None} ELSE {}
      to(t) == <<t[1], TermCompany(d, ids, a, t)>>
      replaced == {to(t)[2] : t \in rows}
      archived == {to(t) : t \in {t \in rows : t[1] \in d.programs}}
      kept == {t \in DOMAIN live : /\ ~carried \/ (~everyone /\ t[2] \notin replaced)
                                   /\ t[1] \in d.programs /\ t[2] \in DOMAIN d.companies}
  IN  [d EXCEPT !.terms = [x \in archived \cup kept |->
         Linked(d, x[2], IF x \in archived
                         THEN a.tables.terms[CHOOSE t \in rows : to(t) = x] ELSE live[x])]]

\* The company an archived offering, or learner, is given.
Placed(d, ids, c) ==
  IF c \in DOMAIN ids THEN ids[c] ELSE IF c \in DOMAIN d.companies THEN c ELSE Oldest(d)

\* Programs, their requirements, offerings and OLX relations are wiped and those
\* of the archive inserted.
WithReference(d, ids, a) ==
  LET offered == {o \in DOMAIN a.tables.offerings : Placed(d, ids, o[1]) # None}
      to(o) == <<Placed(d, ids, o[1]), o[2]>>
  IN  [d EXCEPT !.programs = a.tables.programs, !.requirements = a.tables.requirements,
                !.olx = a.tables.olx,
                !.offerings = [x \in {to(o) : o \in offered} |->
                   a.tables.offerings[CHOOSE o \in offered : to(o) = x]]]

\* offerings_company_id_name_key.
OfferingsClash(d, ids, a) ==
  \E o, x \in DOMAIN a.tables.offerings :
    /\ o # x /\ o[2] = x[2]
    /\ Placed(d, ids, o[1]) = Placed(d, ids, x[1]) /\ Placed(d, ids, o[1]) # None
-----------------------------------------------------------------------------
(* A full restore.                                                         *)

\* Companies are upserted by name, in the order of their ids.
NewCompanies(d, a) ==
  {c \in DOMAIN a.tables.companies : Named(d.companies, a.tables.companies[c]) = {}}

\* Variant: the archived ids are kept.
CompanyIdsAsArchived(d, a) ==
  IF "companies" \notin a.files THEN <<>>
  ELSE [c \in DOMAIN a.tables.companies |->
          IF c \in NewCompanies(d, a)
          THEN d.nextCompany + Cardinality({x \in NewCompanies(d, a) : x < c}) ELSE c]

CompanyIds(d, a) ==
  IF "companies" \notin a.files THEN <<>>
  ELSE [c \in DOMAIN a.tables.companies |->
          IF c \in NewCompanies(d, a)
          THEN d.nextCompany + Cardinality({x \in NewCompanies(d, a) : x < c})
          ELSE TheId(d.companies, a.tables.companies[c])]

WithCompanies(d, ids, a) ==
  LET new == {c \in DOMAIN ids : ids[c] >= d.nextCompany}
  IN  [d EXCEPT !.companies = [i \in DOMAIN @ \cup {ids[c] : c \in new} |->
                  IF i \in DOMAIN @ THEN @[i]
                  ELSE a.tables.companies[CHOOSE c \in new : ids[c] = i]],
                !.nextCompany = @ + Cardinality(new)]

\* Completions, learners, trainings, product types and countries are deleted, and
\* with the trainings whatever names one of them; the product types, the
\* countries and the trainings of the archive take their place, ids included.
WithCatalogue(d, a) ==
  [d EXCEPT !.types = a.tables.types, !.regions = a.tables.regions,
            !.training = a.tables.training, !.olx = {}, !.requirements = {},
            !.offerings = [o \in DOMAIN @ |-> {}]]

WithLearners(d, ids, a) ==
  LET archived == a.tables.learners
  IN  [d EXCEPT !.learners = [e \in DOMAIN archived |->
                  [company |-> Placed(d, ids, archived[e].company),
                   country |-> archived[e].country]],
                !.taken = a.tables.taken]

\* An archive has passwords only if it was encrypted and they were asked for.
ReplacesUsers(a) == "credentials" \in a.files /\ DOMAIN a.tables.users # {}

Epochs(users) == {users[u].epoch : u \in DOMAIN users}

\* Variant: above those it replaces only.
EpochFloorOfLive(d, a) == AtMost(HighestOf(Epochs(d.users)) + 1, MaxEpoch)

\* Every account starts above the epochs it replaces and those of the archive,
\* as far as the column goes.
EpochFloor(d, a) ==
  AtMost(HighestOf(Epochs(d.users) \cup Epochs(a.tables.users)) + 1, MaxEpoch)

\* Accounts get fresh ids, and their access is mapped through their names.
WithUsers(d, ids, a) ==
  LET users == a.tables.users
      new(u) == d.nextUser + Cardinality({x \in DOMAIN users : x < u})
      company(c) == IF c \in DOMAIN ids THEN ids[c]
                    ELSE IF c \in DOMAIN d.companies THEN c ELSE None
      restored(u) == [name |-> users[u].name, admin |-> users[u].admin,
                      epoch |-> EpochFloor(d, a)]
  IN  [d EXCEPT
         !.users = [i \in {new(u) : u \in DOMAIN users} |->
                      restored(CHOOSE u \in DOMAIN users : new(u) = i)],
         !.links = {<<new(l[1]), company(l[2])>> :
                      l \in {l \in a.tables.links : l[1] \in DOMAIN users /\ company(l[2]) # None}},
         !.nextUser = @ + Cardinality(DOMAIN users)]

\* The transaction of restoreFullArchive.
FullyRestored(d, a) ==
  LET ids == CompanyIds(d, a)
      emptied == WithCatalogue(WithCompanies(d, ids, a), a)
      grouped == WithSets(emptied, ids, a, TRUE)
      referenced == IF "reference" \in a.files THEN WithReference(grouped, ids, a) ELSE grouped
      agreed == WithTerms(referenced, ids, a, d.terms, TRUE)
      peopled == WithLearners(agreed, ids, a)
  IN  IF ReplacesUsers(a) THEN WithUsers(peopled, ids, a) ELSE peopled

Restored(kind, outcome, d) ==
  /\ archive # None /\ archive.kind = kind /\ restores < MaxRestores
  /\ restores' = restores + 1
  /\ last' = [kind |-> kind, outcome |-> outcome, before |-> db, archive |-> archive,
             edits |-> edits]
  /\ db' = IF outcome = "ok" THEN d ELSE db
  /\ UNCHANGED <<workload, backup, archive, edits, away>>

\* Cookies of the accounts a restore replaces, on this install and, up to the
\* moment of the archive, on the one it comes from.  A cookie at the column's
\* ceiling cannot be outrun elsewhere.
Ended(a) == here \cup {c \in a.cookies : c.epoch < MaxEpoch}

\* restoreFullArchive refuses accounts without an enabled SuperAdmin; a key that
\* does not fit rolls everything back.
RestoreFull ==
  /\ archive # None
  /\ LET d == FullyRestored(db, archive)
         ids == CompanyIds(db, archive)
         refused == ReplacesUsers(archive)
                    /\ \A u \in DOMAIN archive.tables.users : ~archive.tables.users[u].admin
         clashes == "reference" \in archive.files
                    /\ OfferingsClash(WithCompanies(db, ids, archive), ids, archive)
         outcome == CASE refused -> "refused"
                      [] ~Fits(d) \/ clashes -> "failed"
                      [] OTHER -> "ok"
         ends == outcome = "ok" /\ ReplacesUsers(archive)
     IN  /\ Restored("full", outcome, d)
         /\ ended' = IF ends THEN ended \cup Ended(archive) ELSE ended
         /\ here' = IF ends THEN {} ELSE here
-----------------------------------------------------------------------------
(* A restore of the configuration.                                         *)

\* Product types are upserted by name, in the order of their ids.
NewTypes(d, a) ==
  {i \in DOMAIN a.tables.types : a.tables.types[i] \notin {d.types[x] : x \in DOMAIN d.types}}
NewTypeId(d, a, i) == d.nextType + Cardinality({x \in NewTypes(d, a) : x < i})

ConfigTypes(d, a) ==
  [x \in DOMAIN d.types \cup {NewTypeId(d, a, i) : i \in NewTypes(d, a)} |->
     IF x \in DOMAIN d.types THEN d.types[x]
     ELSE a.tables.types[CHOOSE i \in NewTypes(d, a) : NewTypeId(d, a, i) = x]]

\* Variant: no sequence is set.
NextTypeKept(d, types) == d.nextType

\* setval: the sequence goes on from the highest id.
NextType(d, types) == IF types = <<>> THEN 2 ELSE HighestOf(DOMAIN types) + 1

\* Product types, countries and trainings are upserted; the sequence of the
\* product types is set to the highest id.
WithConfigCatalogue(d, a) ==
  LET types == ConfigTypes(d, a)
  IN  [d EXCEPT !.types = types,
                !.nextType = NextType(d, types),
                !.regions = @ \cup a.tables.regions,
                !.training = [t \in DOMAIN @ \cup DOMAIN a.tables.training |->
                   IF t \in DOMAIN a.tables.training
                   THEN TheId(types, a.tables.types[a.tables.training[t]]) ELSE @[t]]]

\* The transaction of restoreConfigArchive: no id of a company is known.
Reconfigured(d, a) ==
  LET merged == WithConfigCatalogue(d, a)
      grouped == IF "sets" \in a.files THEN WithSets(merged, <<>>, a, FALSE) ELSE merged
      referenced == WithReference(grouped, <<>>, a)
  IN  WithTerms(referenced, <<>>, a, d.terms, FALSE)

RestoreConfig ==
  /\ archive # None
  /\ LET torn == \E t \in DOMAIN archive.tables.training :
                   archive.tables.training[t] \notin DOMAIN archive.tables.types
         taken == \E i \in NewTypes(db, archive) : NewTypeId(db, archive, i) \in DOMAIN db.types
         fails == \/ torn \/ taken \/ OfferingsClash(db, <<>>, archive)
                  \/ ~Fits(Reconfigured(db, archive))
     IN  Restored("config", IF fails THEN "failed" ELSE "ok",
                  IF torn \/ taken THEN db ELSE Reconfigured(db, archive))
  /\ UNCHANGED <<here, ended>>
-----------------------------------------------------------------------------
Next ==
  \/ Edit
  \/ \E kind \in Mix.kinds, files \in Mix.files, first \in Mix.cuts :
       BeginBackup(kind, files, first)
  \/ EndBackup
  \/ MoveToAnotherInstall
  \/ RestoreFull
  \/ RestoreConfig

Spec == Init /\ [][Next]_vars
-----------------------------------------------------------------------------
(* Properties.  A database without its ids, by what its rows are called.    *)

LearnersOf(d) == {<<e, d.companies[d.learners[e].company], d.learners[e].country>> :
                    e \in DOMAIN d.learners}
TrainingsOf(d) == {<<t, d.types[d.training[t]]>> : t \in DOMAIN d.training}
OfferingsOf(d) == {<<d.companies[o[1]], o[2], d.offerings[o]>> : o \in DOMAIN d.offerings}
ReferenceOf(d) == <<d.programs, d.requirements, d.olx, OfferingsOf(d)>>
SetsOf(d) == {<<d.companies[s[1]], s[2], d.sets[s]>> : s \in DOMAIN d.sets}
TermsOf(d) == {<<t[1], d.companies[t[2]], d.terms[t]>> : t \in DOMAIN d.terms}
AccountsOf(d) == {<<d.users[u].name, d.users[u].admin,
                    {d.companies[l[2]] : l \in {l \in d.links : l[1] = u}}>> : u \in DOMAIN d.users}

\* The rows of the database refer to rows that exist: no restore and no cascade
\* leaves one behind, and what is read as a name has one, which nothing shares.
TypeOK == Sound(db)

\* A full restore brings back what the archive holds, on any install and whatever
\* the ids are there: every learner, offering, set, term and access to a company
\* under the partner it was archived under.  What an archive of an older version
\* does not hold stays, as far as the countries, programs and sets it needs do.
FullRestoreIsExact ==
  last.kind = "full" /\ last.archive.whole /\ "companies" \in last.archive.files =>
    LET a == last.archive
        was == last.before
    IN  /\ last.outcome # "failed"
        /\ last.outcome = "ok" /\ edits = last.edits =>
           /\ LearnersOf(db) = LearnersOf(a.tables) /\ db.taken = a.tables.taken
           /\ TrainingsOf(db) = TrainingsOf(a.tables) /\ db.regions = a.tables.regions
           /\ "reference" \in a.files => ReferenceOf(db) = ReferenceOf(a.tables)
           /\ SetsOf(db) = IF "sets" \in a.files THEN SetsOf(a.tables)
                           ELSE {<<s[1], s[2], s[3] \cap db.regions>> : s \in SetsOf(was)}
           /\ TermsOf(db) =
                IF "terms" \in a.files THEN TermsOf(a.tables)
                ELSE {<<t[1], t[2], IF \E s \in SetsOf(db) : s[1] = t[2] /\ s[2] = t[3]
                                    THEN t[3] ELSE None>> :
                        t \in {t \in TermsOf(was) : t[1] \in db.programs}}
           /\ AccountsOf(db) = AccountsOf(IF ReplacesUsers(a) THEN a.tables ELSE was)

\* A restore of the configuration leaves learners, completions, accounts and
\* companies alone, and gives each partner the archive names, by name, the sets
\* and the terms archived for it; the other partners keep theirs.  "A set on the
\* wrong partner would quietly give that partner wrong compliance figures."  The
\* next product type can be created.
ConfigMergesByPartner ==
  last.kind = "config" /\ last.outcome = "ok" /\ edits = last.edits =>
    LET a == last.archive
        was == last.before
        partners == {db.companies[c] : c \in DOMAIN db.companies}
        archivedSets == {<<a.setPartners[s[1]], s[2], a.tables.sets[s]>> : s \in DOMAIN a.tables.sets}
        archivedTerms == {<<t[1], a.termPartners[t[2]], a.tables.terms[t]>> :
                            t \in DOMAIN a.tables.terms}
        ofPartner(rows, i, p) == {x \in rows : x[i] = p}
        linked(rows) ==
          {<<t[1], t[2], IF \E s \in SetsOf(db) : s[1] = t[2] /\ s[2] = t[3] THEN t[3] ELSE None>> :
             t \in {t \in rows : t[1] \in db.programs}}
    IN  /\ \A t \in Tables \ InConfig : db[t] = was[t]
        /\ TrainingsOf(a.tables) \subseteq TrainingsOf(db)
        /\ \A p \in partners :
             /\ ofPartner(SetsOf(db), 1, p) =
                  IF "sets" \in a.files /\ ofPartner(archivedSets, 1, p) # {}
                  THEN {<<s[1], s[2], s[3] \cap db.regions>> : s \in ofPartner(archivedSets, 1, p)}
                  ELSE ofPartner(SetsOf(was), 1, p)
             /\ ofPartner(TermsOf(db), 2, p) =
                  linked(ofPartner(IF "terms" \in a.files /\ ofPartner(archivedTerms, 2, p) # {}
                                   THEN archivedTerms ELSE TermsOf(was), 2, p))
        /\ db.nextType \notin DOMAIN db.types

\* A restore that replaces the accounts ends the sign-ins of this install, and
\* those the archive knew of on the install it comes from, for good: ids are never
\* given again here, and elsewhere every account starts above the archived epochs.
OldSessionsEnd ==
  \A c \in ended : c.id \in DOMAIN db.users => c.epoch < db.users[c.id].epoch

\* "A blank target gets a complete seed": the configuration of another install is
\* restored on one that has a company and nothing else.
BlankTargetIsSeeded ==
  /\ last.kind = "config" /\ last.archive.whole
  /\ last.before.training = <<>> /\ DOMAIN last.before.companies # {}
  => last.outcome = "ok"
=============================================================================
