-------------------------------- MODULE Updater --------------------------------
(***************************************************************************)
(* The in-place update.  The application asks by writing a request file;   *)
(* a root-owned unit (or, on a schedule, cron) runs perform-update.sh: a   *)
(* backup, then pull, install, migrate, build, restart and verify, and a   *)
(* rollback when one of them fails.  Nothing keeps the two from running at *)
(* once (Exclusive), and either can be killed between any two steps.       *)
(*                                                                         *)
(* A commit is a number; commit n brings migration n, which adds to the    *)
(* schema and takes nothing away.  The history is linear, every branch a   *)
(* point on it, and a channel is its branch.                               *)
(*                                                                         *)
(* git, npm, prisma, pg_dump, psql and the service manager are modelled by *)
(* what the scripts rely on; each may fail where the scripts allow for it. *)
(*                                                                         *)
(* "before", "ended", "killed", "strayed" and "unchecked" are history,     *)
(* read by the properties alone.                                           *)
(*                                                                         *)
(* A definition whose comment begins "Variant:" is one edit away from the  *)
(* definition it precedes, and is there to show which property sees it.    *)
(***************************************************************************)
EXTENDS Naturals

CONSTANTS
  Branches,    \* the branches the channels track
  Stable,      \* the branch of the stable channel
  MaxCommit,   \* bound on the commits ever pushed
  Defective,   \* commits that build but do not start
  MaxPosts,    \* bound on the requests posted
  MaxCronRuns, \* bound on the scheduled updates
  MaxKills,    \* bound on killed updates and reboots
  Exclusive,   \* TRUE: an update starts only when none runs, which no code ensures
  None

ASSUME BranchAssumption ==
  /\ Stable \in Branches
  /\ MaxCommit \in Nat \ {0}
  /\ Defective \subseteq 1..MaxCommit
  /\ MaxPosts \in Nat /\ MaxCronRuns \in Nat /\ MaxKills \in Nat
  /\ Exclusive \in BOOLEAN
  /\ "update" \notin Branches /\ None \notin Branches \cup Nat \cup {"update"}

VARIABLES
  request,     \* .update-request: None, "update" or the branch to switch to
  channel,     \* UPDATE_CHANNEL in .env
  remote,      \* the head of each branch at the origin
  local,       \* the local ref of each branch, None if it was never checked out
  head,        \* the branch checked out, None when HEAD is detached
  tree,        \* the commit checked out
  deps,        \* node_modules: the commit it was installed for, or Broken
  client,      \* the Prisma client: the commit it was generated for
  build,       \* .next: commit and channel built in, or NoBuild
  schema,      \* the database: its last migration
  serving,     \* the build the running service serves, NoBuild if it is down
  saved,       \* .update-backup: the build and the dump, or None
  updater,     \* per updater: how far its perform-update.sh is
  posts, cronRuns, kills,
  ended,       \* how .update-status says the last update ended, and what it had found
  killed,      \* an update was killed, or the host rebooted
  strayed,     \* a switch changed .env and never reached its checkout
  unchecked    \* a switch was not compared with the code it replaced

site == <<channel, remote, local, head, tree, deps, client, build, schema>>
bounds == <<posts, cronRuns, kills>>
history == <<ended, killed, strayed, unchecked>>
updaterVars == <<request, site, serving, saved, updater, bounds, history>>
----------------------------------------------------------------------------
Commits == 1..MaxCommit
Broken == 0
Builds == [commit: Commits, channel: Branches]
NoBuild == [commit |-> Broken, channel |-> Stable]
Backups == [build: Builds \cup {NoBuild}, dump: Commits \cup {None}]

ASSUME BackupAssumption == None \notin Backups

Later(c, d) == IF c > d THEN c ELSE d

\* The unit of the request file and the cron entry run one script at a time each.
Updaters == {"agent", "cron"}

PCs == {"idle", "backup", "dump", "switch", "pull", "install", "migrate", "generate",
        "build", "retry", "restart", "verify", "cleanup",
        "rollGit", "rollDb", "rollBuild", "rollClient", "rollRestart"}

IdleUpdater == [pc |-> "idle", target |-> None, branch |-> Stable, commit |-> Broken,
         channel |-> Stable, migrated |-> FALSE, paused |-> FALSE,
         before |-> [build |-> NoBuild, schema |-> 0]]

Updating == \E p \in Updaters : updater[p].pc # "idle"
NotEnded == [how |-> "not", commit |-> Broken, build |-> NoBuild, schema |-> 0]

\* An installed system, up and at rest; a past rollback may have detached HEAD.
UpdaterInit ==
  /\ request = None
  /\ remote \in [Branches -> Commits]
  /\ channel \in Branches
  /\ tree = remote[channel] /\ tree \notin Defective
  /\ local = [b \in Branches |-> IF b = channel THEN tree ELSE None]
  /\ head \in {channel, None}
  /\ deps = tree /\ client = tree /\ schema = tree
  /\ build = [commit |-> tree, channel |-> channel]
  /\ serving = build
  /\ saved = None
  /\ updater = [p \in Updaters |-> IdleUpdater]
  /\ posts = 0 /\ cronRuns = 0 /\ kills = 0
  /\ ended = NotEnded
  /\ killed = FALSE /\ strayed = FALSE /\ unchecked = FALSE
----------------------------------------------------------------------------
(* The application *)

\* POST updates/apply, answered by the running service.
Apply ==
  /\ serving # NoBuild /\ posts < MaxPosts
  /\ request' = "update"
  /\ posts' = posts + 1
  /\ strayed' = (strayed \/ request \in Branches)
  /\ UNCHANGED <<site, serving, saved, updater, cronRuns, kills, ended,
                 killed, unchecked>>

\* The target branch contains the commit that is running.
Contains(b, commit) == remote[b] >= commit

\* POST updates/switch-channel: the running build knows its own channel and
\* commit.  When the origin does not answer, the switch goes ahead.
SwitchChannel(b) ==
  /\ serving # NoBuild /\ posts < MaxPosts
  /\ b # serving.channel
  /\ \E answered \in BOOLEAN :
       /\ answered => Contains(b, serving.commit)
       /\ unchecked' = (unchecked \/ ~answered \/ Updating)
  /\ channel' = b
  /\ request' = b
  /\ posts' = posts + 1
  /\ UNCHANGED <<remote, local, head, tree, deps, client, build, schema, serving,
                 saved, updater, cronRuns, kills, ended, killed, strayed>>

\* Someone pushes.
Push(b, c) ==
  /\ c > remote[b]
  /\ remote' = [remote EXCEPT ![b] = c]
  /\ UNCHANGED <<request, channel, local, head, tree, deps, client, build, schema,
                 serving, saved, updater, bounds, history>>
----------------------------------------------------------------------------
(* Starting an update *)

Start(p, target) ==
  /\ updater[p] = IdleUpdater /\ (Exclusive => ~Updating)
  /\ updater' = [updater EXCEPT ![p] = [IdleUpdater EXCEPT !.pc = "backup", !.target = target,
                    !.channel = channel, !.before = [build |-> build, schema |-> schema]]]
  /\ ended' = NotEnded

\* update-agent.sh takes the request and deletes it before it starts.
TakeRequest ==
  /\ request # None
  /\ Start("agent", IF request = "update" THEN None ELSE request)
  /\ request' = None
  /\ UNCHANGED <<site, serving, saved, bounds, killed, strayed, unchecked>>

\* check-update.sh: the stable channel wants a newer version, the others any
\* other commit than the one checked out.
UpdateAvailable ==
  IF channel = Stable THEN remote[channel] > tree ELSE remote[channel] # tree

\* auto-update.sh finds its time has come and an update to be had.
CronRun ==
  /\ cronRuns < MaxCronRuns
  /\ UpdateAvailable
  /\ Start("cron", None)
  /\ cronRuns' = cronRuns + 1
  /\ unchecked' = (unchecked \/ request \in Branches)
  /\ UNCHANGED <<request, site, serving, saved, posts, kills, killed, strayed>>
----------------------------------------------------------------------------
(* perform-update.sh, step by step *)

At(p, pc) == updater[p].pc = pc
Goto(p, pc) == updater' = [updater EXCEPT ![p].pc = pc]
RollBack(p) == Goto(p, "rollGit")

\* Where "git checkout" of a branch may arrive: its local ref, or one made from
\* the origin's as it was last fetched.
CheckedOut(b) == IF local[b] # None THEN {local[b]} ELSE 1..remote[b]

Finish(p, how) ==
  /\ updater' = [updater EXCEPT ![p] = IdleUpdater]
  /\ ended' = [how |-> how, commit |-> updater[p].commit,
               build |-> updater[p].before.build, schema |-> updater[p].before.schema]

\* Step 1: a detached HEAD is put back on the branch of the channel ...
Reattach(p) ==
  /\ At(p, "backup") /\ head = None
  /\ \/ /\ head' = channel
        /\ tree' \in CheckedOut(channel)
        /\ local' = [local EXCEPT ![channel] = tree']
        /\ UNCHANGED <<updater, ended>>
     \/ Finish(p, "refused") /\ UNCHANGED <<local, head, tree>>
  /\ UNCHANGED <<request, channel, remote, deps, client, build, schema, serving, saved,
                 bounds, killed, strayed, unchecked>>

\* ... and the branch, the commit and a copy of the build are kept.
Backup(p) ==
  /\ At(p, "backup") /\ head # None
  /\ updater' = [updater EXCEPT ![p].pc = "dump", ![p].branch = head, ![p].commit = tree]
  /\ saved' = [build |-> build, dump |-> None]
  /\ UNCHANGED <<request, site, serving, bounds, history>>

\* Step 1: pg_dump, which may fail without stopping the update.
Dump(p) ==
  /\ At(p, "dump")
  /\ Goto(p, "switch")
  /\ \/ saved # None /\ saved' = [saved EXCEPT !.dump = schema]
     \/ UNCHANGED saved
  /\ UNCHANGED <<request, site, serving, bounds, history>>

\* Variant: BRANCH stays what it was before the checkout.
BranchKept(p, target) == updater[p].branch

\* What the script takes as BRANCH once the target is checked out.
BranchAfter(p, target) == target

\* Step 2: the origin is verified and, for a switch, the target checked out.
Switch(p) ==
  /\ At(p, "switch")
  /\ UNCHANGED <<request, channel, remote, deps, client, build, schema,
                 serving, saved, bounds, ended, killed, unchecked>>
  /\ LET target == updater[p].target
         moving == target \notin {None, updater[p].branch}
     IN  \/ /\ ~moving
            /\ Goto(p, "pull")
            /\ UNCHANGED <<local, head, tree, strayed>>
         \/ /\ moving
            /\ tree' \in CheckedOut(target)
            /\ local' = [local EXCEPT ![target] = tree']
            /\ head' = target
            /\ updater' = [updater EXCEPT ![p].pc = "pull", ![p].branch = BranchAfter(p, target)]
            /\ UNCHANGED strayed
         \/ /\ RollBack(p)
            /\ strayed' = (strayed \/ moving)
            /\ UNCHANGED <<local, head, tree>>

\* Step 2: git pull.
Pull(p) ==
  /\ At(p, "pull")
  /\ \/ /\ tree' = Later(tree, remote[updater[p].branch])
        /\ local' = [local EXCEPT ![head] = tree']
        /\ Goto(p, "install")
     \/ RollBack(p) /\ UNCHANGED <<tree, local>>
  /\ UNCHANGED <<request, channel, remote, head, deps, client, build, schema,
                 serving, saved, bounds, history>>

\* Step 3: npm install, which may leave half of it behind.
Install(p) ==
  /\ At(p, "install")
  /\ \/ deps' = tree /\ Goto(p, "migrate")
     \/ deps' \in {deps, Broken} /\ RollBack(p)
  /\ UNCHANGED <<request, channel, remote, local, head, tree, client, build,
                 schema, serving, saved, bounds, history>>

\* Step 4: prisma migrate deploy, which may fail at any of the migrations.
Migrate(p) ==
  /\ At(p, "migrate")
  /\ \/ /\ schema' = Later(schema, tree)
        /\ updater' = [updater EXCEPT ![p].pc = "generate", ![p].migrated = TRUE]
     \/ /\ schema' \in schema..(Later(schema, tree - 1))
        /\ RollBack(p)
  /\ UNCHANGED <<request, channel, remote, local, head, tree, deps, client,
                 build, serving, saved, bounds, history>>

\* Step 4: prisma generate.
Generate(p) ==
  /\ At(p, "generate")
  /\ \/ client' = tree /\ Goto(p, "build")
     \/ UNCHANGED client /\ RollBack(p)
  /\ UNCHANGED <<request, channel, remote, local, head, tree, deps, build,
                 schema, serving, saved, bounds, history>>

\* Step 5: memory is short and the service is stopped for the build.
PauseForBuild(p) ==
  /\ At(p, "build") /\ ~updater[p].paused
  /\ updater' = [updater EXCEPT ![p].paused = TRUE]
  /\ serving' = NoBuild
  /\ UNCHANGED <<request, site, saved, bounds, history>>

BuildSucceeds(p) ==
  /\ build' = [commit |-> tree, channel |-> updater[p].channel]
  /\ Goto(p, "restart")

\* Step 5: the build.  If it fails the service is stopped, unless it already is,
\* for one more try.
Build(p) ==
  /\ At(p, "build")
  /\ \/ BuildSucceeds(p) /\ UNCHANGED serving
     \/ /\ build' \in {build, NoBuild}
        /\ updater' = [updater EXCEPT ![p].pc = "retry", ![p].paused = TRUE]
        /\ serving' = IF updater[p].paused THEN serving ELSE NoBuild
  /\ UNCHANGED <<request, channel, remote, local, head, tree, deps, client,
                 schema, saved, bounds, history>>

Retry(p) ==
  /\ At(p, "retry")
  /\ \/ BuildSucceeds(p)
     \/ build' \in {build, NoBuild} /\ RollBack(p)
  /\ UNCHANGED <<request, channel, remote, local, head, tree, deps, client,
                 schema, serving, saved, bounds, history>>

\* What the service may serve once it has been started on a build: nothing, if
\* the build is of no use or half of node_modules is missing.
Started(b) ==
  IF b = NoBuild \/ b.commit \in Defective THEN {NoBuild}
  ELSE IF deps = Broken THEN {b, NoBuild} ELSE {b}

\* Step 6.
Restart(p) ==
  /\ At(p, "restart")
  /\ serving' \in Started(build)
  /\ Goto(p, "verify")
  /\ UNCHANGED <<request, site, saved, bounds, history>>

\* The service can answer, which it may be too slow to do.
Responds == serving # NoBuild

\* Step 7.
Verify(p) ==
  /\ At(p, "verify")
  /\ \/ Responds /\ Goto(p, "cleanup")
     \/ RollBack(p)
  /\ UNCHANGED <<request, site, serving, saved, bounds, history>>

\* Step 8.
Cleanup(p) ==
  /\ At(p, "cleanup")
  /\ saved' = None
  /\ Finish(p, "complete")
  /\ UNCHANGED <<request, site, serving, bounds, killed, strayed, unchecked>>
----------------------------------------------------------------------------
(* rollback *)

\* Variant: the files are restored and the branch is not.
ResetFilesOnly(p) == local

\* reset --hard: whatever branch the update had reached now points at the commit
\* it started from.
ResetHard(p) == [local EXCEPT ![updater[p].branch] = updater[p].commit]

\* git checkout and reset.
RollGit(p) ==
  /\ At(p, "rollGit")
  /\ tree' = updater[p].commit
  /\ head' = updater[p].branch
  /\ local' = ResetHard(p)
  /\ Goto(p, "rollDb")
  /\ UNCHANGED <<request, channel, remote, deps, client, build, schema, serving,
                 saved, bounds, history>>

\* Variant: the dump drops what it finds, under a service that still runs.
ReplayedClean(current, dump) == dump

\* psql replays a plain dump: what exists it cannot create again, and what the
\* dump does not know it leaves alone.
Replayed(current, dump) == Later(current, dump)

RollDb(p) ==
  /\ At(p, "rollDb")
  /\ \/ /\ updater[p].migrated /\ saved # None /\ saved.dump # None
        /\ schema' = Replayed(schema, saved.dump)
     \/ UNCHANGED schema
  /\ Goto(p, "rollBuild")
  /\ UNCHANGED <<request, channel, remote, local, head, tree, deps, client, build,
                 serving, saved, bounds, history>>

\* Variant: the build is restored only if the service had been stopped for it.
RestoresPausedBuild(p) == saved # None /\ updater[p].paused

RestoresBuild(p) == saved # None

RollBuild(p) ==
  /\ At(p, "rollBuild")
  /\ build' = IF RestoresBuild(p) THEN saved.build ELSE build
  /\ Goto(p, "rollClient")
  /\ UNCHANGED <<request, channel, remote, local, head, tree, deps, client, schema,
                 serving, saved, bounds, history>>

\* prisma generate || true
RollClient(p) ==
  /\ At(p, "rollClient")
  /\ client' \in {client, tree}
  /\ Goto(p, "rollRestart")
  /\ UNCHANGED <<request, channel, remote, local, head, tree, deps, build, schema,
                 serving, saved, bounds, history>>

\* Variant: only a service that was stopped for the build is started again.
ServedIfPaused(p) == IF updater[p].paused THEN Started(build) ELSE {serving}

ServedAfter(p) == Started(build)

\* The previous version is started, and the failure reported last.
RollRestart(p) ==
  /\ At(p, "rollRestart")
  /\ serving' \in ServedAfter(p)
  /\ Finish(p, "rolledBack")
  /\ UNCHANGED <<request, site, saved, bounds, killed, strayed, unchecked>>
----------------------------------------------------------------------------
(* What interrupts an update *)

Kill == kills < MaxKills /\ kills' = kills + 1 /\ killed' = TRUE

\* The updaters P stop where they are: in the middle of an install, of the
\* migrations or of a build, or between two steps.
Interrupt(P) ==
  LET Amid(pcs) == \E p \in P : updater[p].pc \in pcs
  IN  /\ updater' = [p \in Updaters |-> IF p \in P THEN IdleUpdater ELSE updater[p]]
      /\ deps' \in {deps} \cup IF Amid({"install"}) THEN {Broken} ELSE {}
      /\ schema' \in schema..IF Amid({"migrate"}) THEN Later(schema, tree) ELSE schema
      /\ build' \in {build} \cup IF Amid({"build", "retry", "rollBuild"}) THEN {NoBuild} ELSE {}

\* The unit's TimeoutStartSec runs out.
TimeOut ==
  /\ ~At("agent", "idle")
  /\ Kill /\ Interrupt({"agent"})
  /\ UNCHANGED <<request, channel, remote, local, head, tree, client, serving, saved, posts,
                 cronRuns, ended, strayed, unchecked>>

\* The host goes down and comes back, and with it the service.
Reboot ==
  /\ Kill /\ Interrupt(Updaters)
  /\ serving' \in Started(build')
  /\ UNCHANGED <<request, channel, remote, local, head, tree, client, saved, posts, cronRuns,
                 ended, strayed, unchecked>>

Step(p) ==
  \/ Reattach(p) \/ Backup(p) \/ Dump(p) \/ Switch(p) \/ Pull(p) \/ Install(p) \/ Migrate(p) \/ Generate(p)
  \/ PauseForBuild(p) \/ Build(p) \/ Retry(p) \/ Restart(p) \/ Verify(p) \/ Cleanup(p)
  \/ RollGit(p) \/ RollDb(p) \/ RollBuild(p) \/ RollClient(p) \/ RollRestart(p)

UpdaterNext ==
  \/ Apply
  \/ \E b \in Branches : SwitchChannel(b) \/ \E c \in Commits : Push(b, c)
  \/ TakeRequest \/ CronRun
  \/ \E p \in Updaters : Step(p)
  \/ TimeOut \/ Reboot

\* A script that has been started runs on, and so does the unit.
Fairness == WF_updaterVars(TakeRequest) /\ \A p \in Updaters : WF_updaterVars(Step(p))

UpdaterSpec == UpdaterInit /\ [][UpdaterNext]_updaterVars /\ Fairness
----------------------------------------------------------------------------
\* The types, and: what is checked out is the head of its branch, and no updater
\* that has read its branch is without it (reset --hard moves both).
UpdaterTypeOK ==
  /\ request \in Branches \cup {None, "update"}
  /\ channel \in Branches /\ head \in Branches \cup {None}
  /\ remote \in [Branches -> Commits]
  /\ local \in [Branches -> Commits \cup {None}]
  /\ tree \in Commits /\ client \in Commits /\ schema \in Commits
  /\ deps \in Commits \cup {Broken}
  /\ {build, serving} \subseteq Builds \cup {NoBuild}
  /\ saved \in {None} \cup Backups
  /\ updater \in [Updaters ->
       [pc: PCs, target: Branches \cup {None}, branch: Branches,
        commit: Commits \cup {Broken}, channel: Branches, migrated: BOOLEAN, paused: BOOLEAN,
        before: [build: Builds \cup {NoBuild}, schema: Nat]]]
  /\ posts \in 0..MaxPosts /\ cronRuns \in 0..MaxCronRuns /\ kills \in 0..MaxKills
  /\ ended.how \in {"not", "refused", "complete", "rolledBack"}
  /\ {killed, strayed, unchecked} \subseteq BOOLEAN
  /\ head # None => local[head] = tree
  /\ \A p \in Updaters : updater[p].pc \notin {"idle", "backup"} => local[updater[p].branch] # None

AtRest == ~Updating /\ ~killed

\* No code is started on a schema that lacks its migrations: not while an update
\* is under way, not after a rollback, a kill or a reboot.  (Steps 4 to 6, and the
\* order of the rollback.)
SchemaCoversCode ==
  build.commit <= schema /\ serving.commit <= schema

\* An update that reports "complete" leaves dependencies, client, build and the
\* running service at the commit that is checked out.
CompleteIsCoherent ==
  AtRest /\ ended.how = "complete" =>
    /\ serving = build
    /\ build.commit = tree /\ deps = tree /\ client = tree /\ schema >= tree

\* An update that was rolled back leaves the code, the build and the running
\* service as it found them, whichever step failed and whatever was stopped.
\* node_modules is not restored: half an install may keep the service down.
RollbackRestores ==
  AtRest /\ ended.how = "rolledBack" =>
    /\ tree = ended.commit /\ build = ended.build
    /\ serving = build \/ deps = Broken

\* Both: an update that has ended has either arrived or never happened.
EndsWhole == CompleteIsCoherent /\ RollbackRestores

\* An update never ends at an older commit than it found, as long as the origin
\* answered the switch and no other update came in between.
NoDowngrade ==
  AtRest /\ ended.how = "complete" /\ ~unchecked => build.commit >= ended.build.commit

\* At rest, what is checked out is the branch of the channel in .env, which the
\* schedule compares it with: a switch that fails after its checkout included.
ChannelTracked ==
  AtRest /\ request = None /\ ~strayed /\ head # None => head = channel

\* Both: the commit and the branch an update leaves are those of the channel.
StaysOnChannel == NoDowngrade /\ ChannelTracked

\* A service stopped for a build is started again, whether or not the build
\* succeeds: "this never leaves the service down" (stop_app).
ServiceComesBack ==
  (serving = NoBuild) ~> (serving # NoBuild \/ killed \/ deps = Broken)

\* A rolled-back update that has a dump leaves the schema as the dump has it:
\* "Restores the database from the pre-update dump (if migrations ran)"
\* (README.md:1137).  It does not: a plain dump takes nothing away, and a
\* migration that fails half way is not counted as having run.
RollbackRestoresSchema ==
  AtRest /\ ended.how = "rolledBack" /\ saved.dump # None => schema = ended.schema
=============================================================================
