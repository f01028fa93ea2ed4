----------------------------- MODULE Deployment ------------------------------
(***************************************************************************)
(* Releases on the one host of the backend: dalm-deploy.service polls main   *)
(* and deploys a commit whose CI succeeded (auto_deploy.py), operators run   *)
(* deploy.sh by hand, for a first release or a rollback. All of them share   *)
(* one checkout, one .env, one set of images and the API container.          *)
(*                                                                           *)
(* Every command of the scripts that changes shared state is an action. A    *)
(* command may fail, and a process may die, at every step: the locks are     *)
(* flocks, so they go with it, and what it did stays. The database may be    *)
(* read-only: the module Cutover moves it to another server.                 *)
(***************************************************************************)
EXTENDS Naturals, FiniteSets

CONSTANTS
    LastCommit,  \* bound: main grows from commit 1 to this one
    Revision,    \* the last alembic revision in the tree of a commit
    Scripted,    \* the commits whose tree has deploy/aws/auto_deploy.py
    Service,        \* dalm-deploy.service
    Operators,   \* shells in which deploy.sh is run by hand
    Databases,
    Source,      \* the database of the first release
    MaxFaults    \* bound: how many commands fail and processes die

Commits == 1..LastCommit

NoCommit == 0

Deployers == Operators \cup {Service}

ASSUME DeploymentAssumption ==
    /\ LastCommit \in Nat \ {0}
    /\ Revision \in [Commits -> Nat]
    /\ \A c, d \in Commits : c <= d => Revision[c] <= Revision[d]
    /\ Scripted \subseteq Commits
    /\ Service \notin Operators
    /\ Source \in Databases
    /\ MaxFaults \in Nat

VARIABLES
    main,       \* origin/main
    passed,     \* the commits of main whose CI succeeded
    head,       \* the commit that is checked out
    leftover,   \* temporary files of .env that git status reports as untracked
    images,     \* the code in the image of each tag
    env,        \* .env: DALM_IMAGE_TAG and DALM_DATABASE_URL
    api,        \* the API container: its image, the code in it, its database
    schema,     \* the alembic revision of each database
    fenced,     \* the databases with default_transaction_read_only
    marker,     \* deploy/aws/.deployed-sha
    timer,      \* dalm-deploy.timer
    host_lock,  \* who holds /run/lock/dalm-auto-deploy.lock
    deployer,   \* the deployments under way
    faults      \* the number of faults so far

deployVars == <<main, passed, head, leftover, images, env, api, schema, fenced, marker, timer,
                host_lock, deployer, faults>>

-----------------------------------------------------------------------------
(* The host *)

\* From "tagged" to "recorded" deploy.sh holds .deploy.lock.
ReleaseSteps == {"tagged",    \* HEAD has been read, it is the tag
                 "built", "migrated", "up",
                 "writing",   \* .env.release is written, not renamed yet
                 "recorded"}

\* Before and after it the service has the host lock alone.
Steps == {"idle", "chosen", "checked out", "released"} \cup ReleaseSteps

\* target: the commit the service found on main; db: what .env.release says.
Deployment == [step : Steps, target : Commits \cup {NoCommit}, tag : Commits \cup {NoCommit},
               db : Databases]

NoDeployment == [step |-> "idle", target |-> NoCommit, tag |-> NoCommit, db |-> Source]

DeployTypeOK ==
    /\ main \in Commits
    /\ passed \in SUBSET Commits
    /\ head \in Commits
    /\ leftover \in SUBSET {".env.release", ".env.db-switch"}
    /\ images \in [Commits -> Commits \cup {NoCommit}]
    /\ env \in [tag : Commits, db : Databases]
    /\ api \in [tag : Commits, code : Commits, db : Databases]
    /\ schema \in [Databases -> Nat]
    /\ fenced \in SUBSET Databases
    /\ marker \in Commits \cup {NoCommit}
    /\ timer \in {"on", "off"}
    /\ host_lock \in {"free", "deploy", "migration"}
    /\ deployer \in [Deployers -> Deployment]
    /\ faults \in 0..MaxFaults

\* The first release was made by hand; install-ops.sh has just enabled the timer.
DeployInit ==
    /\ main = 1
    /\ passed = {}
    /\ head = 1
    /\ leftover = {}
    /\ images = [c \in Commits |-> IF c = 1 THEN 1 ELSE NoCommit]
    /\ env = [tag |-> 1, db |-> Source]
    /\ api = [tag |-> 1, code |-> 1, db |-> Source]
    /\ schema = [d \in Databases |-> IF d = Source THEN Revision[1] ELSE 0]
    /\ fenced = {}
    /\ marker = NoCommit
    /\ timer = "on"
    /\ host_lock = "free"
    /\ deployer = [d \in Deployers |-> NoDeployment]
    /\ faults = 0

\* Mutant of DeployLockFree: deploy.sh without its lock.
DeployLockFree_always == TRUE

DeployLockFree == \A d \in Deployers : deployer[d].step \notin ReleaseSteps

Moves(d, step) == deployer' = [deployer EXCEPT ![d].step = step]

\* Mutant of Ends: a lock file instead of a flock, which stays after the process.
Ends_lock_file(d) ==
    /\ deployer' = [deployer EXCEPT ![d] = NoDeployment]
    /\ UNCHANGED host_lock

\* The process ends, and its locks with it.
Ends(d) ==
    /\ deployer' = [deployer EXCEPT ![d] = NoDeployment]
    /\ host_lock' = IF d = Service THEN "free" ELSE host_lock

Fault == faults < MaxFaults /\ faults' = faults + 1

-----------------------------------------------------------------------------
(* GitHub and the operators *)

push ==
    /\ main < LastCommit
    /\ main' = main + 1
    /\ UNCHANGED <<passed, head, leftover, images, env, api, schema, fenced, marker, timer,
                   host_lock, deployer, faults>>

ci_succeeds(c) ==
    /\ c \in 1..main \ passed
    /\ passed' = passed \cup {c}
    /\ UNCHANGED <<main, head, leftover, images, env, api, schema, fenced, marker, timer,
                   host_lock, deployer, faults>>

\* An operator checks out a commit, for instance the one to roll back to, whoever may
\* be deploying.
operator_checkout(c) ==
    /\ Operators # {}
    /\ c \in 1..main \ {head}
    /\ head' = c
    /\ UNCHANGED <<main, passed, leftover, images, env, api, schema, fenced, marker, timer,
                   host_lock, deployer, faults>>

-----------------------------------------------------------------------------
(* auto_deploy.py *)

\* git status --porcelain reports nothing.
CleanCheckout == leftover = {} /\ \A d \in Deployers : deployer[d].step # "writing"

\* The commit on main is new, brings the release scripts, and its CI succeeded.
Deployable == marker # main /\ main \in Scripted \cap passed

\* The timer starts the service, which takes the host lock or gives up.
deploy ==
    /\ timer = "on"
    /\ deployer[Service].step = "idle"
    /\ host_lock = "free"
    /\ CleanCheckout
    /\ Deployable
    /\ host_lock' = "deploy"
    /\ deployer' = [deployer EXCEPT ![Service] = [NoDeployment EXCEPT !.step = "chosen", !.target = main]]
    /\ UNCHANGED <<main, passed, head, leftover, images, env, api, schema, fenced, marker, timer,
                   faults>>

\* It looks at no other lock, so a deploy.sh that has read HEAD may build another commit.
checkout_target ==
    /\ deployer[Service].step = "chosen"
    /\ head' = deployer[Service].target
    /\ Moves(Service, "checked out")
    /\ UNCHANGED <<main, passed, leftover, images, env, api, schema, fenced, marker, timer,
                   host_lock, faults>>

-----------------------------------------------------------------------------
(* deploy.sh *)

\* It looks at .deploy.lock only: an operator may run it during a migration.
Start(d) == deployer[d].step = IF d = Service THEN "checked out" ELSE "idle"

read_tag(d) ==
    /\ Start(d)
    /\ DeployLockFree
    /\ deployer' = [deployer EXCEPT ![d].step = "tagged", ![d].tag = head]
    /\ UNCHANGED <<main, passed, head, leftover, images, env, api, schema, fenced, marker, timer,
                   host_lock, faults>>

\* "Another deployment is running": the service fails and tries again later.
lock_refused ==
    /\ deployer[Service].step = "checked out"
    /\ ~DeployLockFree
    /\ Ends(Service)
    /\ UNCHANGED <<main, passed, head, leftover, images, env, api, schema, fenced, marker, timer,
                   faults>>

\* The build sends what is checked out now.
build(d) ==
    /\ deployer[d].step = "tagged"
    /\ images' = [images EXCEPT ![deployer[d].tag] = head]
    /\ Moves(d, "built")
    /\ UNCHANGED <<main, passed, head, leftover, env, api, schema, fenced, marker, timer,
                   host_lock, faults>>

\* alembic does not know a revision of a later commit, and migrates nothing on a
\* read-only database; when there is nothing to migrate it succeeds on both.
CanUpgrade(code, db) ==
    \/ schema[db] = Revision[code]
    \/ schema[db] < Revision[code] /\ db \notin fenced

\* Mutant of migrate: deploy.sh goes on when the migrations fail.
migrate_optional(d) ==
    LET code == images[deployer[d].tag]
    IN  /\ deployer[d].step = "built"
        /\ schema' = IF CanUpgrade(code, env.db) THEN [schema EXCEPT ![env.db] = Revision[code]]
                     ELSE schema
        /\ Moves(d, "migrated")
        /\ UNCHANGED <<main, passed, head, leftover, images, env, api, fenced, marker, timer,
                       host_lock, faults>>

\* alembic upgrade head, from the new image, in one transaction.
migrate(d) ==
    LET code == images[deployer[d].tag]
    IN  /\ deployer[d].step = "built"
        /\ CanUpgrade(code, env.db)
        /\ schema' = [schema EXCEPT ![env.db] = Revision[code]]
        /\ Moves(d, "migrated")
        /\ UNCHANGED <<main, passed, head, leftover, images, env, api, fenced, marker, timer,
                       host_lock, faults>>

migrate_refused(d) ==
    /\ deployer[d].step = "built"
    /\ ~CanUpgrade(images[deployer[d].tag], env.db)
    /\ Ends(d)
    /\ UNCHANGED <<main, passed, head, leftover, images, env, api, schema, fenced, marker, timer,
                   faults>>

\* Mutant of Container: the tag is the commit that is checked out.
Container_head(tag) == [tag |-> head, code |-> images[head], db |-> env.db]

\* A container of the image with a tag, with the settings that .env has now.
Container(tag) == [tag |-> tag, code |-> images[tag], db |-> env.db]

\* compose up replaces the container, then waits until it is healthy.
up(d, healthy) ==
    /\ deployer[d].step = "migrated"
    /\ api' = Container(deployer[d].tag)
    /\ IF healthy THEN Moves(d, "up") /\ UNCHANGED <<host_lock, faults>>
       ELSE Fault /\ Ends(d)
    /\ UNCHANGED <<main, passed, head, leftover, images, env, schema, fenced, marker, timer>>

\* The lines of .env are read, and written to .env.release with the new tag.
write_release(d) ==
    /\ deployer[d].step = "up"
    /\ deployer' = [deployer EXCEPT ![d].step = "writing", ![d].db = env.db]
    /\ UNCHANGED <<main, passed, head, leftover, images, env, api, schema, fenced, marker, timer,
                   host_lock, faults>>

\* os.replace, which takes away a file that an earlier deployment left behind.
record_release(d) ==
    /\ deployer[d].step = "writing"
    /\ env' = [tag |-> deployer[d].tag, db |-> deployer[d].db]
    /\ leftover' = leftover \ {".env.release"}
    /\ Moves(d, "recorded")
    /\ UNCHANGED <<main, passed, head, images, api, schema, fenced, marker, timer, host_lock,
                   faults>>

\* nginx and /ready answer: deploy.sh succeeds, and .deploy.lock is free.
finish(d) ==
    /\ deployer[d].step = "recorded"
    /\ IF d = Service THEN Moves(d, "released") /\ UNCHANGED host_lock ELSE Ends(d)
    /\ UNCHANGED <<main, passed, head, leftover, images, env, api, schema, fenced, marker, timer,
                   faults>>

\* The service marks the commit it has found on main, whatever deploy.sh has built.
mark ==
    /\ deployer[Service].step = "released"
    /\ marker' = deployer[Service].target
    /\ Ends(Service)
    /\ UNCHANGED <<main, passed, head, leftover, images, env, api, schema, fenced, timer, faults>>

\* A command fails, or the process is killed: by its time limit, a lost shell, a
\* reboot. Docker starts the container again with its image and settings.
fails(d) ==
    /\ deployer[d].step # "idle"
    /\ Fault
    /\ leftover' = IF deployer[d].step = "writing" THEN leftover \cup {".env.release"} ELSE leftover
    /\ Ends(d)
    /\ UNCHANGED <<main, passed, head, images, env, api, schema, fenced, marker, timer>>

\* The steps of a deployment that has begun.
Release(d) ==
    \/ build(d)
    \/ migrate(d)
    \/ migrate_refused(d)
    \/ up(d, TRUE)
    \/ write_release(d)
    \/ record_release(d)
    \/ finish(d)

DeployNext ==
    \/ push
    \/ \E c \in Commits : ci_succeeds(c)
    \/ \E c \in Commits : operator_checkout(c)
    \/ deploy
    \/ checkout_target
    \/ lock_refused
    \/ \E d \in Deployers : read_tag(d)
    \/ \E d \in Deployers : Release(d)
    \/ mark
    \/ \E d \in Deployers : up(d, FALSE)
    \/ \E d \in Deployers : fails(d)

DeploySpec == DeployInit /\ [][DeployNext]_deployVars
=============================================================================
