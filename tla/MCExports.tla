------------------------------ MODULE MCExports ------------------------------
(* Exports on small instances, one mix of requests at a time. *)
EXTENDS Exports, TLC

Scheduled(t, d) == [enabled |-> TRUE, time |-> t, destination |-> d, lastRunAt |-> Never]

\* One export to the cloud, and what touches its credential meanwhile.
Delivery == {[s \in Schedules |-> IF s = 1 THEN Scheduled(1, "cloud") ELSE None]}
Uses == [ops |-> {"runNow", "check", "wizard"}, provider |-> "box",
         schedules |-> Delivery, destinations |-> {}, requests |-> 3, clock |-> FALSE]
Changes == [Uses EXCEPT !.ops = {"runNow", "check", "wizard", "save", "delete", "crash", "revoke"}]

\* Two exports due in the same minute, edited and run by hand.
Clock == [ops |-> {"execute", "runNow", "edit", "crash"}, provider |-> "google",
          schedules |-> {[s \in Schedules |-> Scheduled(1, "local")]},
          destinations |-> {"local"}, requests |-> 2, clock |-> TRUE]
Clouds == [Clock EXCEPT !.ops = {"execute"}, !.requests = 0,
                        !.schedules = {[s \in Schedules |-> Scheduled(1, "cloud")]}]

MCWorkloads ==
  [boxUses |-> Uses,
   onedriveUses |-> [Uses EXCEPT !.provider = "onedrive", !.requests = 2],
   boxChanges |-> Changes,
   googleChanges |-> [Changes EXCEPT !.provider = "google"],
   clock |-> Clock, clouds |-> Clouds]

Alike == Permutations(Handlers)

\* A wizard that is opened and closed again.
Wizards == [wizard |-> [Uses EXCEPT !.ops = {"wizard", "runNow", "check"}]]
=============================================================================
