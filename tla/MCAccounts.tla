----------------------------- MODULE MCAccounts -----------------------------
(* Accounts on small instances, one mix of requests at a time.             *)
EXTENDS Accounts, TLC

\* Accounts, cookie jars and handlers are interchangeable.
Symmetry == Permutations(Users) \cup Permutations(Clients) \cup Permutations(Handlers)

\* The overlaps that are left are those the properties speak about: everything
\* overlaps everything but for the requests named in "exclusive".
Edits == [ops |-> {"login", "POST", "PUT", "PATCH", "DELETE"},
          exclusive |-> {"PUT", "PATCH", "DELETE"},
          roles |-> {"SuperAdmin", "User"}, musts |-> {"unchanged"}, writes |-> 2]
RoleEdits == [ops |-> {"login", "PUT", "changePassword"}, exclusive |-> {"PUT"},
          roles |-> {"SuperAdmin", "User"}, musts |-> {"unchanged"}, writes |-> 2]
Resets == [ops |-> {"login", "PUT", "resetPassword", "changePassword"},
           exclusive |-> {"PUT", "resetPassword", "changePassword"},
           roles |-> {"SuperAdmin"}, musts |-> {"on", "unchanged"}, writes |-> 2]
Enrolments == [ops |-> {"login", "PUT", "mfaSetup", "mfaVerify"},
               exclusive |-> {"PUT", "mfaVerify", "mfaSetup"},
               roles |-> {"SuperAdmin"}, musts |-> {"on", "off"}, writes |-> 3]
Removals == [ops |-> {"login", "setup", "mfaSetup", "mfaVerify", "mfaDisable",
                      "mfaDisableOther"},
             exclusive |-> {"setup", "mfaSetup", "mfaVerify", "mfaDisable",
                            "mfaDisableOther"},
             roles |-> {"SuperAdmin", "User"}, musts |-> {"unchanged"}, writes |-> 3]
SerialMixes == {Edits, RoleEdits, Resets, Enrolments, Removals}

\* Two SuperAdmins suspend each other.
Suspensions == {[ops |-> {"login", "PATCH"}, exclusive |-> {},
                 roles |-> {"SuperAdmin", "User"}, musts |-> {"unchanged"},
                 writes |-> 2]}
=============================================================================
