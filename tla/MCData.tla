------------------------------- MODULE MCData -------------------------------
(***************************************************************************)
(* The import of learners, backups and restores, and compliance plans, on  *)
(* small databases.  They share no state here: a behaviour exercises one of*)
(* them and the others stand still in their initial states.                *)
(***************************************************************************)
EXTENDS Allocation, Sequences, TLC

CONSTANTS
  Emails, Names, Lower(_), Countries, Theatres, Titles, Dates, Ids, ChunkSize, Requests,
  Workloads, None, Keep, Export, Blank,       \* of Learners
  Parts,                                      \* what this run exercises
  Archives,                                   \* the mixes of Restore
  MaxEpoch, MaxEdits, MaxRestores

VARIABLES
  part,
  workload, db, req, imports, inserted, witness,
  question, taken, counted,
  scenario, install, backup, archive, edits, restores, here, away, ended, last

\* Learners_proofs is Learners with its theorems.
Learning == INSTANCE Learners_proofs
Backups == INSTANCE Restore WITH
  Workloads <- Archives, workload <- scenario, db <- install

Scenarios == INSTANCE PlanScenarios
Planner == INSTANCE CompliancePlan WITH
  Titles <- DOMAIN Scenarios!PairOf, PairOf <- Scenarios!PairOf,
  LeadsTo <- Scenarios!LeadsTo, ReplacedBy <- Scenarios!ReplacedBy,
  TheatreOf <- Scenarios!TheatreOf, Requests <- Scenarios!Questions

ASSUME ParamAssumption ==
  Parameters /\ Learning!Parameters /\ Backups!Parameters

learnersVars == <<workload, db, req, imports, inserted, witness>>
planVars == <<vars, question, taken, counted>>
restoreVars == <<scenario, install, backup, archive, edits, restores, here, away,
                 ended, last>>
-----------------------------------------------------------------------------
(* Learners.                                                               *)

MCLower(x) == CASE x = "Ann" -> "ann" [] x = "ACME" -> "acme" [] OTHER -> x

\* A learner of one company, in a country that has a theatre; another company,
\* and another country that has none.
Small ==
  [companies |-> (1 :> "acme") @@ (2 :> "bolt"),
   regions |-> ("fr" :> "EMEA") @@ ("us" :> None),
   students |-> "ann" :> [company |-> 1, country |-> "fr", theatre |-> "EMEA"],
   trainings |-> "t1" :> TRUE,
   taken |-> <<"ann", "t1", 1>> :> 1]

\* The same learner as typed by an administrator, in a company of the same letters.
Typed ==
  [Small EXCEPT !.companies = (1 :> "acme") @@ (2 :> "ACME"),
     !.students = "Ann" :> [company |-> 2, country |-> "us", theatre |-> "AMER"],
     !.taken = <<"Ann", "t1", 1>> :> 1]

Cells == [email |-> "ann", country |-> "fr", theatre |-> "EMEA", title |-> "t1", date |-> 2,
          company |-> Blank, valid |-> TRUE]

\* A learner and a training met twice, in one chunk and in the next; a country
\* met for the first time; a blank one; companies of the same letters; a row that
\* is not valid.
MCFiles == {
  << [Cells EXCEPT !.email = "bob", !.title = "t2"], [Cells EXCEPT !.email = "bob"],
     [Cells EXCEPT !.email = "bob", !.title = "t2"] >>,
  << [Cells EXCEPT !.email = "bob", !.country = "it", !.company = "ACME"],
     [Cells EXCEPT !.email = "ann", !.company = "acme"], [Cells EXCEPT !.company = "bolt"] >>,
  << [Cells EXCEPT !.email = "bob", !.country = Blank], [Cells EXCEPT !.country = Blank],
     [Cells EXCEPT !.valid = FALSE] >> }

All == {1, 2, 3}

Students == {"PostStudent", "PutStudent", "DeleteStudent"}
Regions == {"PostRegion", "PutRegion", "DeleteRegion", "ImportRegions"}
Companies == {"PostCompany", "PutCompany", "DeleteCompany"}

SerialMix ==
  [ops |-> Students \cup Regions \cup Companies \cup {"DeleteTraining", "ImportStudents"},
   overlap |-> FALSE, scopes |-> {All, {1}, {2}}, databases |-> {Small},
   emails |-> {"Ann", "bob"}, files |-> MCFiles \cup {Export},
   regionFiles |-> {<< [country |-> "fr", theatre |-> Keep], [country |-> "it", theatre |-> None] >>}]

\* Two imports, or one and whatever takes away or adds what it refers to.
OverlapMix ==
  [SerialMix EXCEPT !.overlap = TRUE, !.scopes = {All}, !.files = MCFiles,
                    !.emails = {"bob"}]

MCWorkloads == [serial |-> SerialMix, overlap |-> OverlapMix]
-----------------------------------------------------------------------------
(* Backups and restores.                                                   *)

User(n, admin, epoch) == [name |-> n, admin |-> admin, epoch |-> epoch]
Learner(c, country) == [company |-> c, country |-> country]

\* Two partners that each have a set and an offering of one name.
HomeInstall ==
  [companies |-> (1 :> "acme") @@ (2 :> "bolt"), nextCompany |-> 3,
   types |-> (1 :> "hw") @@ (3 :> "sw"), nextType |-> 4,
   regions |-> {"fr", "us"},
   training |-> ("t1" :> 1) @@ ("t2" :> 3), olx |-> {<<"t1", "t2">>},
   learners |-> ("ann" :> Learner(1, "fr")) @@ ("bob" :> Learner(2, "us")),
   taken |-> {<<"ann", "t1">>, <<"bob", "t2">>},
   users |-> (1 :> User("root", TRUE, 0)) @@ (2 :> User("clerk", FALSE, 1)), nextUser |-> 3,
   links |-> {<<2, 2>>},
   programs |-> {"p"}, requirements |-> {<<"p", "t1">>},
   offerings |-> (<<1, "gold">> :> {"t1"}) @@ (<<2, "gold">> :> {"t2"}),
   sets |-> (<<1, "eu">> :> {"fr"}) @@ (<<2, "eu">> :> {"us"}),
   terms |-> <<"p", 2>> :> "eu"]

\* Another install, where the ids stand for other companies and people.
OtherInstall ==
  [HomeInstall EXCEPT !.companies = (1 :> "bolt") @@ (2 :> "cord") @@ (3 :> "acme"), !.nextCompany = 4,
     !.types = 1 :> "sw", !.nextType = 2,
     !.training = "t3" :> 1, !.olx = {}, !.regions = {"us", "it"},
     !.learners = "cy" :> Learner(2, "it"), !.taken = {},
     !.users = (1 :> User("boss", TRUE, 1)) @@ (4 :> User("aide", FALSE, 0)), !.nextUser = 5,
     !.links = {<<4, 2>>},
     !.programs = {"p", "q"}, !.requirements = {<<"q", "t3">>},
     !.offerings = <<2, "gold">> :> {"t3"},
     !.sets = (<<2, "eu">> :> {"it"}) @@ (<<1, "eu">> :> {"it", "us"}),
     !.terms = (<<"p", 2>> :> "eu") @@ (<<"p", 1>> :> "eu") @@ (<<"q", 1>> :> None)]

\* After the migrations and the first set-up.
NewInstall ==
  [HomeInstall EXCEPT !.companies = 1 :> "Unassigned", !.nextCompany = 2,
     !.types = <<>>, !.nextType = 1, !.training = <<>>, !.olx = {}, !.regions = {},
     !.learners = <<>>, !.taken = {}, !.users = 1 :> User("root", TRUE, 0), !.nextUser = 2,
     !.links = {}, !.programs = {}, !.requirements = {},
     !.offerings = <<>>, !.sets = <<>>, !.terms = <<>>]

Current == {"companies", "reference", "sets", "terms"}
Older == {{"companies", "reference", "sets"}, {"companies", "reference"}, {"companies"}, {}}

CompanyEdits == {"CreateCompany", "RenameCompany", "DeleteCompany", "CreateType"}
GroupEdits == {"EditSet", "DeleteSet", "CreateTerms"}

FullArchives ==
  [installs |-> {HomeInstall, OtherInstall}, others |-> {OtherInstall, NewInstall},
   kinds |-> {"full"}, files |-> {Current} \cup Older, cuts |-> {{}},
   edits |-> CompanyEdits \cup GroupEdits, names |-> {"acme", "cord"}]

MCArchives ==
  [full |-> FullArchives,
   config |-> [FullArchives EXCEPT !.kinds = {"config"}, !.files = {Current, {"sets"}, {}}],
   torn |-> [FullArchives EXCEPT !.files = {Current \cup {"credentials"}}, !.kinds = {"full", "config"},
               !.cuts = {{"companies", "sets"}, {"sets", "training"}, {"terms", "learners", "users"}}],
   accounts |-> [FullArchives EXCEPT !.files = {Current \cup {"credentials"}},
                   !.edits = {"SignIn", "ChangePassword"}]]

\* A backup of the configuration, for an install that is about to be set up.
MCSeeds == [seed |-> [FullArchives EXCEPT !.kinds = {"config"}, !.files = {{"sets", "terms"}},
                                    !.others = {NewInstall}, !.edits = {}]]
-----------------------------------------------------------------------------
NoPlan ==
  /\ question = "family" /\ taken = {} /\ counted = <<>> /\ gaps = <<>> /\ Fresh

MCInit ==
  /\ part \in Parts
  /\ Learning!Init /\ Backups!Init
  /\ part # "learners" => workload = "overlap"
  /\ part # "restore" => scenario = "full" /\ install = HomeInstall
  /\ IF part = "plan" THEN Planner!PlanInit ELSE NoPlan

MCNext ==
  \/ part = "learners" /\ Learning!Next /\ UNCHANGED <<part, restoreVars, planVars>>
  \/ part = "restore" /\ Backups!Next /\ UNCHANGED <<part, learnersVars, planVars>>
  \/ part = "plan" /\ Planner!PlanNext /\ UNCHANGED <<part, learnersVars, restoreVars>>

MCSpec == MCInit /\ [][MCNext]_<<part, learnersVars, restoreVars, planVars>>

\* The type invariants of the three modules.
TypesOK ==
  /\ part = "learners" => Learning!TypeOK
  /\ part = "restore" => Backups!TypeOK
  /\ part = "plan" => Planner!PlanTypeOK

\* Restore!FullRestoreIsExact: a full restore brings back what the archive holds.
FullRestoreIsExact == part = "restore" => Backups!FullRestoreIsExact

\* Restore!ConfigMergesByPartner: a restore of the configuration leaves the other
\* partners, and what is not configuration, alone.
ConfigMergesByPartner == part = "restore" => Backups!ConfigMergesByPartner

\* Restore!OldSessionsEnd: a restore of the accounts ends the sign-ins before it.
OldSessionsEnd == part = "restore" => Backups!OldSessionsEnd

\* Learners!ImportIsExact: what an import says and leaves is what its rows ask
\* for, and an export asks for nothing.
ImportIsExact == part = "learners" => Learning!ImportIsExact

\* Learners!TenantsKeptApart: a request only changes the learners of its companies.
TenantsKeptApart == Learning!TenantsKeptApart

\* CompliancePlan!CostIsHonest: so many new people are enough, and not too many.
CostIsHonest == part = "plan" => Planner!CostIsHonest

\* CompliancePlan!PlanCloses: carried out, a plan closes its gaps on the dashboards.
PlanCloses == part = "plan" => Planner!PlanCloses

\* Restore!BlankTargetIsSeeded: a configuration can be restored on a new install.
BlankTargetIsSeeded == part = "restore" => Backups!BlankTargetIsSeeded
=============================================================================
