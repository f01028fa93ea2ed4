------------------------------ MODULE Cutover --------------------------------
(***************************************************************************)
(* migrate_postgres.py moves the database to the host of the API while the   *)
(* API, other clients of the source and automatic deployments go on. Its     *)
(* phase "prepare" copies the source to a trial database and compares the    *)
(* two. Its phase "cutover" makes the source read-only, ends the sessions    *)
(* that are still writing, copies and compares again, rewrites .env and      *)
(* recreates the API. An operator runs it, once or again after a failure.    *)
(*                                                                           *)
(* A migration is one process under the host lock, with one action per       *)
(* command that reads or changes shared state. It never undoes a step.       *)
(***************************************************************************)
EXTENDS Deployment

CONSTANTS
    Target,    \* the database of the new server, named by the time of the restore
    Writes,    \* bound: the rows that clients commit
    Sessions   \* sessions of the API and of other clients on the source

ASSUME CutoverAssumption == Target \in Databases /\ Target # Source

VARIABLES
    rows,      \* the committed rows of each database
    session,   \* the mode in which a session on the source runs its transactions
    files,     \* what the migration keeps on the host, and its role in the new server
    original,  \* original-database-settings.json
    migration  \* the run of the script

cutoverVars == <<rows, session, files, original, migration>>

vars == <<deployVars, cutoverVars>>

-----------------------------------------------------------------------------
(* The databases and the script *)

Artifacts == {"app-password", "role", "trial-settings", "app.env.before", "production-settings"}

Modes == {"none", "read-write", "read-only"}

PrepareSteps == {"preparing", "role", "trial dump"}

CutoverSteps == {"timer stopped",
                 "settings saved",  \* the settings of the source are saved
                 "env saved",       \* and a copy of .env
                 "read-only",       \* new transactions of the source are read-only
                 "sessions ended",
                 "snapshot", "dumped", "restored", "verified",
                 "writing",         \* .env.db-switch is written, not renamed yet
                 "switched",
                 "recreated"}       \* the new API container is healthy

\* What a snapshot compares and a dump holds.
Contents == [rows : SUBSET Writes, schema : Nat]

Nothing == [rows |-> {}, schema |-> 0]

\* expected: the snapshot of the source; archive: its dump; tag: the line of .env
\* that .env.db-switch repeats.
Migration == [step : {"idle"} \cup PrepareSteps \cup CutoverSteps, expected : Contents,
              archive : Contents, tag : Commits \cup {NoCommit}]

NoMigration == [step |-> "idle", expected |-> Nothing, archive |-> Nothing, tag |-> NoCommit]

TypeOK ==
    /\ DeployTypeOK
    /\ rows \in [Databases -> SUBSET Writes]
    /\ session \in [Sessions -> Modes]
    /\ files \in SUBSET Artifacts
    /\ original \in Modes
    /\ migration \in Migration

Init ==
    /\ DeployInit
    /\ rows = [d \in Databases |-> {}]
    /\ session = [s \in Sessions |-> "none"]
    /\ files = {}
    /\ original = "none"
    /\ migration = NoMigration

ContentsOf(db) == [rows |-> rows[db], schema |-> schema[db]]

\* default_transaction_read_only of the source, which its new sessions take over.
Setting == IF Source \in fenced THEN "read-only" ELSE "read-write"

At(step) == migration.step = step

Goes(step) == migration' = [migration EXCEPT !.step = step]

\* The script ends, by itself or by an exception: the finally clauses start the timer
\* again when the phase is cutover, and the lock is free.
Over ==
    /\ migration' = NoMigration
    /\ host_lock' = "free"
    /\ timer' = IF migration.step \in CutoverSteps THEN "on" ELSE timer

-----------------------------------------------------------------------------
(* Clients *)

connect(s) ==
    /\ session[s] = "none"
    /\ session' = [session EXCEPT ![s] = Setting]
    /\ UNCHANGED <<deployVars, rows, files, original, migration>>

disconnect(s) ==
    /\ session[s] # "none"
    /\ session' = [session EXCEPT ![s] = "none"]
    /\ UNCHANGED <<deployVars, rows, files, original, migration>>

\* A transaction of a session keeps the mode the session began with.
commit(s, w) ==
    /\ session[s] = "read-write"
    /\ w \notin rows[Source] \cup rows[Target]
    /\ rows' = [rows EXCEPT ![Source] = @ \cup {w}]
    /\ UNCHANGED <<deployVars, session, files, original, migration>>

\* Nobody but the API knows the new server.
commit_target(w) ==
    /\ api.db = Target
    /\ w \notin rows[Source] \cup rows[Target]
    /\ rows' = [rows EXCEPT ![Target] = @ \cup {w}]
    /\ UNCHANGED <<deployVars, session, files, original, migration>>

-----------------------------------------------------------------------------
(* prepare *)

\* The lock, the password file; the settings of the source come from the API
\* container of the first run, which is connected to the source.
prepare ==
    /\ At("idle")
    /\ host_lock = "free"
    /\ host_lock' = "migration"
    /\ files' = files \cup {"app-password"}
    /\ Goes("preparing")
    /\ UNCHANGED <<main, passed, head, leftover, images, env, api, schema, fenced, marker, timer,
                   deployer, faults, rows, session, original>>

\* The server is started, and the role of the application created unless it exists.
create_role ==
    /\ At("preparing")
    /\ files' = files \cup {"role"}
    /\ Goes("role")
    /\ UNCHANGED <<deployVars, rows, session, original>>

dump_trial ==
    /\ At("role")
    /\ migration' = [migration EXCEPT !.step = "trial dump", !.archive = ContentsOf(Source)]
    /\ UNCHANGED <<deployVars, rows, session, files, original>>

\* The snapshot comes after the dump, and the source is still written: the trial
\* fails when something was committed in between.
verify_trial ==
    /\ At("trial dump")
    /\ files' = IF migration.archive = ContentsOf(Source) THEN files \cup {"trial-settings"}
                ELSE files
    /\ Over
    /\ UNCHANGED <<main, passed, head, leftover, images, env, api, schema, fenced, marker,
                   deployer, faults, rows, session, original>>

-----------------------------------------------------------------------------
(* cutover *)

\* The password file is all that it needs of the phase before. It does not ask whether
\* somebody runs deploy.sh by hand.
cutover ==
    /\ At("idle")
    /\ "app-password" \in files
    /\ host_lock = "free"
    /\ host_lock' = "migration"
    /\ timer' = "off"
    /\ Goes("timer stopped")
    /\ UNCHANGED <<main, passed, head, leftover, images, env, api, schema, fenced, marker,
                   deployer, faults, rows, session, files, original>>

save_original ==
    /\ At("timer stopped")
    /\ original' = Setting
    /\ Goes("settings saved")
    /\ UNCHANGED <<deployVars, rows, session, files>>

save_env ==
    /\ At("settings saved")
    /\ "app.env.before" \notin files
    /\ files' = files \cup {"app.env.before"}
    /\ Goes("env saved")
    /\ UNCHANGED <<deployVars, rows, session, original>>

\* "Cutover has already started"
already_started ==
    /\ At("settings saved")
    /\ "app.env.before" \in files
    /\ Over
    /\ UNCHANGED <<main, passed, head, leftover, images, env, api, schema, fenced, marker,
                   deployer, faults, rows, session, files, original>>

fence ==
    /\ At("env saved")
    /\ fenced' = fenced \cup {Source}
    /\ Goes("read-only")
    /\ UNCHANGED <<main, passed, head, leftover, images, env, api, schema, marker, timer,
                   host_lock, deployer, faults, rows, session, files, original>>

\* Mutant of terminate_sessions: sessions that run already are left alone.
terminate_sessions_later ==
    /\ At("read-only")
    /\ Goes("sessions ended")
    /\ UNCHANGED <<deployVars, rows, session, files, original>>

\* pg_terminate_backend on every other session of the source; the setting is read
\* again, from a new session.
terminate_sessions ==
    /\ At("read-only")
    /\ session' = [s \in Sessions |-> "none"]
    /\ Goes("sessions ended")
    /\ UNCHANGED <<deployVars, rows, files, original>>

take_snapshot ==
    /\ At("sessions ended")
    /\ migration' = [migration EXCEPT !.step = "snapshot", !.expected = ContentsOf(Source)]
    /\ UNCHANGED <<deployVars, rows, session, files, original>>

dump ==
    /\ At("snapshot")
    /\ migration' = [migration EXCEPT !.step = "dumped", !.archive = ContentsOf(Source)]
    /\ UNCHANGED <<deployVars, rows, session, files, original>>

\* CREATE DATABASE ... OWNER needs the role, and nothing is switched to contents that
\* differ from the source.
CanGoOn ==
    /\ At("dumped") => "role" \in files
    /\ At("restored") => ContentsOf(Target) = migration.expected

restore ==
    /\ At("dumped")
    /\ CanGoOn
    /\ rows' = [rows EXCEPT ![Target] = migration.archive.rows]
    /\ schema' = [schema EXCEPT ![Target] = migration.archive.schema]
    /\ Goes("restored")
    /\ UNCHANGED <<main, passed, head, leftover, images, env, api, fenced, marker, timer,
                   host_lock, deployer, faults, session, files, original>>

\* The comparison, and a write that is rolled back.
verify ==
    /\ At("restored")
    /\ CanGoOn
    /\ Goes("verified")
    /\ UNCHANGED <<deployVars, rows, session, files, original>>

\* "Data comparison failed; no switch performed"
cutover_refused ==
    /\ ~CanGoOn
    /\ Over
    /\ UNCHANGED <<main, passed, head, leftover, images, env, api, schema, fenced, marker,
                   deployer, faults, rows, session, files, original>>

\* The lines of .env are read, and written to .env.db-switch with the new URL.
write_switch ==
    /\ At("verified")
    /\ migration' = [migration EXCEPT !.step = "writing", !.tag = env.tag]
    /\ UNCHANGED <<deployVars, rows, session, files, original>>

switch ==
    /\ At("writing")
    /\ env' = [tag |-> migration.tag, db |-> Target]
    /\ Goes("switched")
    /\ UNCHANGED <<main, passed, head, leftover, images, api, schema, fenced, marker, timer,
                   host_lock, deployer, faults, rows, session, files, original>>

\* compose up --force-recreate, with the tag and the database of .env.
recreate(healthy) ==
    /\ At("switched")
    /\ api' = Container(env.tag)
    /\ IF healthy THEN Goes("recreated") /\ UNCHANGED <<timer, host_lock, faults>>
       ELSE Fault /\ Over
    /\ UNCHANGED <<main, passed, head, leftover, images, env, schema, fenced, marker, deployer,
                   rows, session, files, original>>

\* /ready answers, and the result is saved.
complete ==
    /\ At("recreated")
    /\ files' = files \cup {"production-settings"}
    /\ Over
    /\ UNCHANGED <<main, passed, head, leftover, images, env, api, schema, fenced, marker,
                   deployer, faults, rows, session, original>>

\* A command or an assertion fails. Nothing is undone: the source stays read-only once
\* it is, and .env stays as it is.
migration_fails ==
    /\ ~At("idle")
    /\ Fault
    /\ leftover' = IF At("writing") THEN leftover \cup {".env.db-switch"} ELSE leftover
    /\ Over
    /\ UNCHANGED <<main, passed, head, images, env, api, schema, fenced, marker, deployer, rows,
                   session, files, original>>

\* The process dies without its finally clauses, by a signal: a timer that it stopped
\* stays stopped until the host starts again.
migration_dies ==
    /\ ~At("idle")
    /\ Fault
    /\ leftover' = IF At("writing") THEN leftover \cup {".env.db-switch"} ELSE leftover
    /\ migration' = NoMigration
    /\ host_lock' = "free"
    /\ UNCHANGED <<main, passed, head, images, env, api, schema, fenced, marker, timer, deployer,
                   rows, session, files, original>>

\* What is under way ends by fails and migration_fails first.
reboot ==
    /\ timer = "off"
    /\ At("idle")
    /\ timer' = "on"
    /\ UNCHANGED <<main, passed, head, leftover, images, env, api, schema, fenced, marker,
                   host_lock, deployer, faults, cutoverVars>>

-----------------------------------------------------------------------------
Deploying == DeployNext /\ UNCHANGED cutoverVars

Clients ==
    \/ \E s \in Sessions : connect(s)
    \/ \E s \in Sessions : disconnect(s)
    \/ \E s \in Sessions, w \in Writes : commit(s, w)
    \/ \E w \in Writes : commit_target(w)

Preparing == prepare \/ create_role \/ dump_trial \/ verify_trial

CuttingOver ==
    \/ cutover
    \/ save_original
    \/ save_env
    \/ already_started
    \/ fence
    \/ terminate_sessions
    \/ take_snapshot
    \/ dump
    \/ restore
    \/ verify
    \/ cutover_refused
    \/ write_switch
    \/ switch
    \/ \E healthy \in BOOLEAN : recreate(healthy)
    \/ complete

Next ==
    \/ Deploying
    \/ Clients
    \/ Preparing
    \/ CuttingOver
    \/ migration_fails
    \/ migration_dies
    \/ reboot

Spec == Init /\ [][Next]_vars

-----------------------------------------------------------------------------
(* Assumptions on the operators, which no lock of the code enforces *)

\* HEAD stays where it is between deploy.sh reading it and building from it. This asks
\* something of the service too: it may check out its commit beside a manual release.
HeadStill == head' # head => \A d \in Deployers : deployer[d].step # "tagged"

\* Nobody runs deploy.sh by hand during a cutover.
Apart == (migration.step \in CutoverSteps)' => \A d \in Operators : deployer'[d].step = "idle"

Orderly == HeadStill /\ Apart

OrderlySpec == Init /\ [][Next /\ Orderly]_vars

-----------------------------------------------------------------------------
(* Fairness *)

\* The timer fires again and again, and a command that has begun ends; the checkout of
\* the service may have to wait for a build. Nobody is obliged to run anything by hand.
ServiceRuns ==
    /\ WF_vars(deploy /\ UNCHANGED cutoverVars)
    /\ WF_vars(checkout_target /\ HeadStill /\ UNCHANGED cutoverVars)
    /\ WF_vars((read_tag(Service) \/ lock_refused) /\ UNCHANGED cutoverVars)
    /\ WF_vars((Release(Service) \/ mark) /\ UNCHANGED cutoverVars)

LiveSpec == OrderlySpec /\ ServiceRuns

-----------------------------------------------------------------------------
(* Properties *)

\* deploy.sh: "Never start the new API if migrations fail." The code that runs never
\* asks for a later revision than its database has, through failed and repeated
\* releases, rollbacks and the switch to the restored copy.
SchemaReady == Revision[api.code] <= schema[api.db]

\* Releases are serialized by file locks: what the service marks as deployed was accepted
\* by CI, is what the API runs and what .env names for the next start, and the database
\* has its schema. The host lock is not the lock of deploy.sh, and neither covers a
\* checkout by hand.
MarkedRuns ==
    [][marker' # marker =>
         /\ marker' \in passed
         /\ api = [tag |-> marker', code |-> marker', db |-> env.db]
         /\ env.tag = marker'
         /\ schema[env.db] = Revision[marker']]_vars

\* .env names another release only when that release runs: a release that fails
\* before it runs, a rollback beside the service or the switch of the database never
\* leaves a tag there that the next start would surprise with.
TagOfRunning == [][env'.tag # env.tag => env'.tag = api.tag]_vars

\* No row that a client committed is lost or appears twice: the API reads a store that
\* only grows, on whichever server, although the source is copied while clients write
\* to it, the script fails at any step and releases recreate the API meanwhile.
Store == INSTANCE DurableStore WITH data <- rows[api.db]

StoreSpec == Store!Spec

\* The settings of the source that a recovery would restore are those from before the
\* cutover, also after an operator has tried the cutover again.
OriginalKept == original # "read-only"

\* Commit c is the last one, CI accepted it, and nothing but the service is at work on
\* the host: no manual release and no other checkout before the service's own is read,
\* no temporary file left behind, a timer that runs, a database that can be migrated.
Settled(c) ==
    /\ main = c
    /\ c \in Scripted \cap passed
    /\ leftover = {}
    /\ timer = "on"
    /\ At("idle")
    /\ env.db \notin fenced
    /\ \A d \in Operators : deployer[d].step = "idle"
    /\ deployer[Service].step = "checked out" => head = c

\* A commit that CI accepted gets its deployment in the end, one that the service has
\* seen succeed, after any number of failed, killed, refused and manual deployments.
ReleaseArrives == \A c \in Commits : <>[]Settled(c) => <>(marker = c)
=============================================================================
