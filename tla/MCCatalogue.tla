---------------------------- MODULE MCCatalogue ----------------------------
(***************************************************************************)
(* Small catalogues, and the mixes of requests made of each.               *)
(***************************************************************************)
EXTENDS Catalogue, TLC

Row(f, ty) == [full |-> f, type |-> ty, cert |-> {}, legacy |-> FALSE, repl |-> {},
               unset |-> {}, incomplete |-> FALSE]

\* An OLX with two sub-items, and a learner who has taken the first of them.
OlxTraining == ("olx" :> Row("F1", "OLX")) @@ ("s1" :> Row("F1", "OLXSubItem"))
               @@ ("s2" :> Row("F2", "OLXSubItem"))
OlxCatalogue ==
  [training |-> OlxTraining, members |-> {<<"olx", "s1">>, <<"olx", "s2">>},
   taken |-> {[id |-> 1, who |-> "w1", title |-> "s1", date |-> 1]}]

\* The same, of one sub-item under two spellings, both taken, the parent held.
SpellingsCatalogue ==
  [training |-> [OlxTraining EXCEPT !["s2"].full = "F1"],
   members |-> OlxCatalogue.members,
   taken |-> {[id |-> 1, who |-> "w1", title |-> "s1", date |-> 1],
              [id |-> 2, who |-> "w1", title |-> "olx", date |-> 1]}]

\* A legacy certification, what replaces it, a training in two spellings that
\* lead to different certifications, and an entry that awaits review.
MarksTraining ==
  ("c1" :> [Row("F1", "Certification") EXCEPT !.legacy = TRUE, !.repl = {"c2"}])
  @@ ("c2" :> Row("F2", "Certification"))
  @@ ("i1" :> [Row("F2", "InstructorLedTraining") EXCEPT !.cert = {"c1"}])
  @@ ("i2" :> [Row("F2", "InstructorLedTraining") EXCEPT !.cert = {"c2"}])
MarksCatalogue ==
  [training |-> MarksTraining, members |-> {},
   taken |-> {[id |-> 1, who |-> "w1", title |-> "i1", date |-> 1]}]
ReviewCatalogue ==
  [training |-> "c1" :> [Row("F1", "Certification") EXCEPT
                           !.unset = Classification, !.incomplete = TRUE],
   members |-> {}, taken |-> {[id |-> 1, who |-> "w1", title |-> "c1", date |-> 1]}]

FileRow == [title |-> "olx", full |-> "F1", type |-> "OLX", parents |-> {}, cert |-> Keep,
            legacy |-> Keep, repl |-> Keep, given |-> {"product", "function"}, blank |-> {}]

\* A sub-item before its parent; a type that takes a sub-item's place; a list
\* that names nothing.
OlxFiles == {
  << [FileRow EXCEPT !.title = "new", !.full = "F2", !.type = Blank, !.parents = {"olx"}],
     FileRow >>,
  << [FileRow EXCEPT !.title = "s1", !.type = "OLX"] >>,
  << [FileRow EXCEPT !.cert = {"new"}] >> }

\* A replacement before it exists; a file exported from entries awaiting review.
MarksFiles == {
  << [FileRow EXCEPT !.title = "c1", !.type = "Certification", !.legacy = TRUE, !.repl = {"new"}],
     [FileRow EXCEPT !.title = "new", !.full = "F2", !.type = "Accreditation"] >>,
  << [FileRow EXCEPT !.title = "c1", !.type = Blank, !.given = {"function"}, !.blank = {"product"}],
     [FileRow EXCEPT !.title = "new", !.type = Blank] >> }

Edits == {"PostTraining", "PutTraining", "DeleteTraining", "PatchGroup", "DeleteGroup"}
Regroupings == {"RenameGroup", "MergeGroup", "MoveAliases"}

MCTitles == {"olx", "s1", "s2", "c1", "c2", "i1", "i2", "new"}

\* The mixes.  A name a request may introduce is one that is free, "new", or is
\* taken.
OlxMix ==
  [ops |-> Completions \cup Edits \cup Regroupings \cup {"OlxBackfill", "ImportCatalogue"},
   catalogues |-> {OlxCatalogue, SpellingsCatalogue}, names |-> {"new", "s1"},
   files |-> OlxFiles, overlap |-> FALSE]

OverlapMix ==
  [OlxMix EXCEPT !.ops = {"PostTaken", "DeleteTraining"}, !.overlap = TRUE,
                 !.catalogues = {OlxCatalogue, [OlxCatalogue EXCEPT !.taken = {}]}]

\* Additions of one day and of several, to a parent in one group and in two.
AdditionsMix ==
  [OverlapMix EXCEPT !.ops = {"PostTaken"},
     !.catalogues = @ \cup {SpellingsCatalogue, [SpellingsCatalogue EXCEPT !.taken = {}]}]

MarksMix ==
  [ops |-> Edits \cup Regroupings \cup {"NormaliseLeadsTo", "ImportCatalogue"},
   catalogues |-> {MarksCatalogue, ReviewCatalogue}, names |-> {"new", "c1"},
   files |-> MarksFiles, overlap |-> FALSE]

MCWorkloads == [olx |-> OlxMix, overlap |-> OverlapMix, additions |-> AdditionsMix,
                marks |-> MarksMix]
=============================================================================
