---------------------------- MODULE CutoverProofs -----------------------------
(***************************************************************************)
(* Proofs for Cutover: what the runs of TLC check on small instances, for    *)
(* any commits, operators, sessions and rows. Types hold for whatever        *)
(* operators and the service do beside each other; what is deployed and      *)
(* stored, as long as operators keep to the assumptions Orderly; what the    *)
(* service marks, as long as nobody comes between it and its mark.           *)
(***************************************************************************)
EXTENDS Cutover, TLAPS

-----------------------------------------------------------------------------
(* The locks of the host *)

\* The two locks have one holder each.
Locks ==
    /\ host_lock = "migration" <=> ~At("idle")
    /\ host_lock = "deploy" <=> deployer[Service].step # "idle"
    /\ \A d, e \in Deployers :
         deployer[d].step \in ReleaseSteps /\ deployer[e].step \in ReleaseSteps => d = e

\* A tag in use is a commit that has an image, of whatever code.
TagsOK ==
    /\ images[env.tag] \in Commits
    /\ \A d \in Deployers :
         /\ deployer[d].step \in ReleaseSteps => deployer[d].tag \in Commits
         /\ deployer[d].step \in ReleaseSteps \ {"tagged"} => images[deployer[d].tag] \in Commits
    /\ deployer[Service].step # "idle" => deployer[Service].target \in Commits
    /\ At("writing") => migration.tag \in Commits /\ images[migration.tag] \in Commits

HostInv == TypeOK /\ Locks /\ TagsOK

\* The types of what neither a deployment nor a migration has for itself.
HostTypeOK ==
    /\ main \in Commits
    /\ passed \in SUBSET Commits
    /\ head \in Commits
    /\ leftover \in SUBSET {".env.release", ".env.db-switch"}
    /\ images \in [Commits -> Commits \cup {NoCommit}]
    /\ env \in [tag : Commits, db : Databases]
    /\ api \in [tag : Commits, code : Commits, db : Databases]
    /\ schema \in [Databases -> Nat]
    /\ fenced \in SUBSET Databases
    /\ marker \in Commits \cup {NoCommit}
    /\ timer \in {"on", "off"}
    /\ faults \in 0..MaxFaults

LEMMA HostInit == ASSUME Init PROVE HostInv
  <1> USE DeploymentAssumption, CutoverAssumption
  <1>1. TypeOK
    BY DEF Init, DeployInit, TypeOK, DeployTypeOK, Commits, NoDeployment, Deployment, Steps,
       ReleaseSteps, NoMigration, Migration, Contents, Nothing, Modes, NoCommit, Deployers
  <1>2. Locks
    BY DEF Init, DeployInit, Locks, At, NoDeployment, NoMigration, ReleaseSteps, Deployers
  <1>3. TagsOK
    BY DEF Init, DeployInit, TagsOK, At, NoDeployment, NoMigration, ReleaseSteps, Deployers,
       Commits
  <1>4. QED
    BY <1>1, <1>2, <1>3 DEF HostInv

\* A step of one deployment leaves the records of the others alone.
LEMMA OneMoves ==
  ASSUME HostInv, NEW d \in Deployers, NEW next \in Deployment,
         deployer' = [deployer EXCEPT ![d] = next]
  PROVE  /\ deployer' \in [Deployers -> Deployment]
         /\ deployer'[d] = next
         /\ \A e \in Deployers \ {d} : deployer'[e] = deployer[e]
  BY DEF HostInv, TypeOK, DeployTypeOK

\* The invariant after a step of one deployment.
LEMMA DeploymentMoves ==
  ASSUME HostInv, NEW d \in Deployers, NEW next \in Deployment,
         deployer' = [deployer EXCEPT ![d] = next],
         UNCHANGED cutoverVars,
         HostTypeOK',
         \/ d = Service /\ host_lock # "migration"
            /\ host_lock' = IF next.step = "idle" THEN "free" ELSE "deploy"
         \/ d # Service /\ host_lock' = host_lock,
         next.step \in ReleaseSteps =>
           /\ deployer[d].step \in ReleaseSteps \/ DeployLockFree
           /\ next.tag \in Commits
           /\ next.step # "tagged" => images'[next.tag] \in Commits,
         d = Service /\ next.step # "idle" => next.target \in Commits,
         \A c \in Commits : images[c] \in Commits => images'[c] \in Commits,
         images'[env'.tag] \in Commits
  PROVE  HostInv'
  <1>1. /\ deployer' \in [Deployers -> Deployment]
        /\ deployer'[d] = next
        /\ \A e \in Deployers \ {d} : deployer'[e] = deployer[e]
    BY OneMoves
  <1>2. TypeOK /\ Locks /\ TagsOK
    BY DEF HostInv
  <1>3. TypeOK'
    <2>1. host_lock' \in {"free", "deploy", "migration"}
      BY <1>2 DEF TypeOK, DeployTypeOK
    <2>2. QED
      BY <1>1, <1>2, <2>1 DEF TypeOK, DeployTypeOK, HostTypeOK, cutoverVars
  <1>4. Locks'
    <2>1. Service \in Deployers
      BY DEF Deployers
    <2>2. migration' = migration
      BY DEF cutoverVars
    <2>3. /\ (host_lock = "migration" <=> ~At("idle"))'
          /\ (host_lock = "deploy" <=> deployer[Service].step # "idle")'
      BY <1>1, <1>2, <2>1, <2>2 DEF Locks, At
    <2>4. (\A e, f \in Deployers :
             deployer[e].step \in ReleaseSteps /\ deployer[f].step \in ReleaseSteps => e = f)'
      BY <1>1, <1>2 DEF Locks, DeployLockFree
    <2>5. QED
      BY <2>3, <2>4 DEF Locks
  <1>5. TagsOK'
    <2>1. Service \in Deployers /\ migration' = migration
      BY DEF cutoverVars, Deployers
    <2>2. ASSUME NEW e \in Deployers
          PROVE  /\ deployer'[e].step \in ReleaseSteps => deployer'[e].tag \in Commits
                 /\ deployer'[e].step \in ReleaseSteps \ {"tagged"} =>
                      images'[deployer'[e].tag] \in Commits
                 /\ e = Service /\ deployer'[e].step # "idle" => deployer'[e].target \in Commits
      <3>1. CASE e = d
        BY <1>1, <3>1
      <3>2. CASE e # d
        BY <1>1, <1>2, <3>2 DEF TagsOK
      <3>3. QED
        BY <3>1, <3>2
    <2>3. (At("writing") => migration.tag \in Commits /\ images[migration.tag] \in Commits)'
      BY <1>2, <2>1 DEF TagsOK, At
    <2>4. QED
      BY <2>1, <2>2, <2>3 DEF TagsOK
  <1>6. QED
    BY <1>3, <1>4, <1>5 DEF HostInv

\* The invariant after a step of anybody else.
LEMMA OthersMove ==
  ASSUME HostInv, HostTypeOK',
         UNCHANGED <<deployer, images>>,
         images[env'.tag] \in Commits,
         rows' \in [Databases -> SUBSET Writes],
         session' \in [Sessions -> Modes],
         files' \in SUBSET Artifacts,
         original' \in Modes,
         migration' \in Migration,
         \/ UNCHANGED <<host_lock, migration>>
         \/ /\ host_lock # "deploy"
            /\ host_lock' = IF migration'.step = "idle" THEN "free" ELSE "migration",
         migration'.step = "writing" =>
           migration'.tag \in Commits /\ images[migration'.tag] \in Commits
  PROVE  HostInv'
  <1>1. TypeOK /\ Locks /\ TagsOK
    BY DEF HostInv
  <1>2. TypeOK'
    <2>1. host_lock' \in {"free", "deploy", "migration"}
      BY <1>1 DEF TypeOK, DeployTypeOK
    <2>2. QED
      BY <1>1, <2>1 DEF TypeOK, DeployTypeOK, HostTypeOK
  <1>3. Locks'
    BY <1>1 DEF Locks, At
  <1>4. TagsOK'
    BY <1>1 DEF TagsOK, At
  <1>5. QED
    BY <1>2, <1>3, <1>4 DEF HostInv


\* The deployments keep the invariant.
LEMMA HostDeploys == ASSUME HostInv, Deploying PROVE HostInv'
  <1> USE DeploymentAssumption DEF Deploying
  <1>0. /\ TypeOK /\ Locks /\ TagsOK /\ HostTypeOK
        /\ Service \in Deployers
        /\ \A d \in Deployers : deployer[d] \in Deployment
        /\ UNCHANGED cutoverVars
    BY DEF HostInv, TypeOK, DeployTypeOK, HostTypeOK, Deployers
  <1>1. CASE \/ push
             \/ \E c \in Commits : ci_succeeds(c)
             \/ \E c \in Commits : operator_checkout(c)
    <2>1. HostTypeOK' /\ UNCHANGED <<deployer, images, env, host_lock>>
      <3>1. CASE push
        <4>1. main' \in Commits
          BY <1>0, <3>1 DEF push, HostTypeOK, Commits
        <4>2. QED
          BY <1>0, <3>1, <4>1 DEF push, HostTypeOK
      <3>2. CASE \E c \in Commits : ci_succeeds(c)
        BY <1>0, <3>2 DEF ci_succeeds, HostTypeOK
      <3>3. CASE \E c \in Commits : operator_checkout(c)
        BY <1>0, <3>3 DEF operator_checkout, HostTypeOK
      <3>4. QED
        BY <1>1, <3>1, <3>2, <3>3
    <2>2. QED
      BY <1>0, <2>1, OthersMove DEF TypeOK, TagsOK, cutoverVars, At
  <1>2. CASE deploy
    <2> DEFINE next == [NoDeployment EXCEPT !.step = "chosen", !.target = main]
    <2>1. /\ next \in Deployment /\ next.step = "chosen" /\ next.target \in Commits
          /\ deployer' = [deployer EXCEPT ![Service] = next]
          /\ host_lock = "free" /\ host_lock' = "deploy"
          /\ HostTypeOK' /\ UNCHANGED <<images, env>>
      BY <1>0, <1>2 DEF deploy, HostTypeOK, NoDeployment, Deployment, Steps
    <2> HIDE DEF next
    <2>2. QED
      BY <1>0, <2>1, DeploymentMoves DEF TagsOK, ReleaseSteps
  <1>3. CASE checkout_target
    <2> DEFINE next == [deployer[Service] EXCEPT !.step = "checked out"]
    <2>1. /\ deployer[Service].step = "chosen" /\ head' = deployer[Service].target
          /\ deployer' = [deployer EXCEPT ![Service] = next]
          /\ UNCHANGED <<main, passed, leftover, images, env, api, schema, fenced, marker, timer,
                         host_lock, faults>>
      BY <1>3 DEF checkout_target, Moves
    <2>2. deployer[Service].target \in Commits /\ host_lock = "deploy"
      BY <1>0, <2>1 DEF TagsOK, Locks
    <2>3. next \in Deployment /\ next.step = "checked out" /\ next.target \in Commits
      BY <1>0, <2>2 DEF Deployment, Steps
    <2> HIDE DEF next
    <2>4. HostTypeOK'
      BY <1>0, <2>1, <2>2 DEF HostTypeOK
    <2>5. QED
      BY <1>0, <2>1, <2>2, <2>3, <2>4, DeploymentMoves DEF TagsOK, ReleaseSteps
  <1>4. CASE mark
    <2>1. /\ NoDeployment \in Deployment /\ NoDeployment.step = "idle"
          /\ deployer' = [deployer EXCEPT ![Service] = NoDeployment]
          /\ host_lock = "deploy" /\ host_lock' = "free"
          /\ HostTypeOK' /\ UNCHANGED <<images, env>>
      BY <1>0, <1>4 DEF mark, Ends, NoDeployment, HostTypeOK, Deployment, Steps, TagsOK, Locks
    <2>2. QED
      BY <1>0, <2>1, DeploymentMoves DEF TagsOK, ReleaseSteps
  <1>5. ASSUME NEW d \in Deployers, Ends(d), deployer[d].step # "idle", HostTypeOK',
               UNCHANGED <<images, env>>
        PROVE  HostInv'
    <2>1. /\ NoDeployment \in Deployment /\ NoDeployment.step = "idle"
          /\ deployer' = [deployer EXCEPT ![d] = NoDeployment]
          /\ host_lock' = IF d = Service THEN "free" ELSE host_lock
          /\ d = Service => host_lock # "migration"
      BY <1>0, <1>5 DEF Ends, NoDeployment, Deployment, Steps, Locks
    <2>2. QED
      BY <1>0, <1>5, <2>1, DeploymentMoves DEF TagsOK, ReleaseSteps
  <1>6. CASE lock_refused
    BY <1>0, <1>5, <1>6 DEF lock_refused, HostTypeOK
  <1>7. ASSUME NEW d \in Deployers, migrate_refused(d) \/ up(d, FALSE) \/ fails(d)
        PROVE  HostInv'
    <2>1. Ends(d) /\ deployer[d].step # "idle" /\ UNCHANGED <<images, env>>
      BY <1>7 DEF migrate_refused, up, fails
    <2>2. HostTypeOK'
      <3>1. CASE migrate_refused(d)
        BY <1>0, <3>1 DEF migrate_refused, HostTypeOK
      <3>2. CASE up(d, FALSE)
        <4>1. images[deployer[d].tag] \in Commits /\ deployer[d].tag \in Commits
          BY <1>0, <3>2 DEF up, TagsOK, ReleaseSteps
        <4>2. QED
          BY <1>0, <3>2, <4>1 DEF up, Container, Fault, HostTypeOK
      <3>3. CASE fails(d)
        BY <1>0, <3>3 DEF fails, Fault, HostTypeOK
      <3>4. QED
        BY <1>7, <3>1, <3>2, <3>3
    <2>3. QED
      BY <1>5, <2>1, <2>2
  <1>8. ASSUME NEW d \in Deployers, read_tag(d)
        PROVE  HostInv'
    <2> DEFINE next == [deployer[d] EXCEPT !.step = "tagged", !.tag = head]
    <2>1. /\ next \in Deployment /\ next.step = "tagged" /\ next.tag \in Commits
          /\ next.target = deployer[d].target
      BY <1>0 DEF HostTypeOK, Deployment, Steps, ReleaseSteps
    <2>2. /\ deployer' = [deployer EXCEPT ![d] = next]
          /\ DeployLockFree
          /\ d = Service => deployer[d].step = "checked out"
      BY <1>8 DEF read_tag, Start
    <2>3. HostTypeOK' /\ UNCHANGED <<images, env, host_lock>>
      BY <1>0, <1>8 DEF read_tag, HostTypeOK
    <2> HIDE DEF next
    <2>4. d = Service => next.target \in Commits /\ host_lock = "deploy"
      BY <1>0, <2>1, <2>2 DEF TagsOK, Locks
    <2>5. QED
      BY <1>0, <2>1, <2>2, <2>3, <2>4, DeploymentMoves DEF TagsOK
  <1>9. ASSUME NEW d \in Deployers, NEW next \in Deployment,
               deployer' = [deployer EXCEPT ![d] = next],
               deployer[d].step \in ReleaseSteps,
               next.step \in ReleaseSteps \cup {"released"},
               next.tag = deployer[d].tag, next.target = deployer[d].target,
               HostTypeOK', UNCHANGED host_lock,
               next.step \in ReleaseSteps => images'[next.tag] \in Commits,
               \A c \in Commits : images[c] \in Commits => images'[c] \in Commits,
               images'[env'.tag] \in Commits
        PROVE  HostInv'
    <2>1. next.step # "idle" /\ deployer[d].step # "idle"
      BY <1>9 DEF ReleaseSteps
    <2>2. /\ next.tag \in Commits
          /\ d = Service => next.target \in Commits /\ host_lock = "deploy"
      BY <1>0, <1>9, <2>1 DEF TagsOK, Locks
    <2>3. QED
      BY <1>0, <1>9, <2>1, <2>2, DeploymentMoves
  <1>10. ASSUME NEW d \in Deployers, build(d) PROVE HostInv'
    <2> DEFINE next == [deployer[d] EXCEPT !.step = "built"]
    <2>1. /\ next \in Deployment /\ next.step = "built"
          /\ next.tag = deployer[d].tag /\ next.target = deployer[d].target
          /\ deployer' = [deployer EXCEPT ![d] = next]
          /\ deployer[d].step \in ReleaseSteps /\ deployer[d].tag \in Commits
      BY <1>0, <1>10 DEF build, Moves, Deployment, Steps, ReleaseSteps, TagsOK
    <2> HIDE DEF next
    <2>2. images' = [images EXCEPT ![deployer[d].tag] = head] /\ UNCHANGED <<env, host_lock>>
      BY <1>10 DEF build
    <2>3. HostTypeOK'
      BY <1>0, <1>10, <2>1, <2>2 DEF build, HostTypeOK
    <2>4. /\ \A c \in Commits : images[c] \in Commits => images'[c] \in Commits
          /\ images'[deployer[d].tag] \in Commits
      BY <1>0, <2>1, <2>2 DEF HostTypeOK
    <2>5. images'[env'.tag] \in Commits
      BY <1>0, <2>2, <2>4 DEF TagsOK, HostTypeOK
    <2>6. QED
      BY <1>9, <2>1, <2>2, <2>3, <2>4, <2>5 DEF ReleaseSteps
  <1>11. ASSUME NEW d \in Deployers, migrate(d) PROVE HostInv'
    <2> DEFINE next == [deployer[d] EXCEPT !.step = "migrated"]
    <2>1. /\ next \in Deployment /\ next.step = "migrated"
          /\ next.tag = deployer[d].tag /\ next.target = deployer[d].target
          /\ deployer' = [deployer EXCEPT ![d] = next]
          /\ deployer[d].step \in ReleaseSteps /\ images[deployer[d].tag] \in Commits
      BY <1>0, <1>11 DEF migrate, Moves, Deployment, Steps, ReleaseSteps, TagsOK
    <2> HIDE DEF next
    <2>2. UNCHANGED <<images, env, host_lock>>
      BY <1>11 DEF migrate
    <2>3. HostTypeOK'
      BY <1>0, <1>11, <2>1 DEF migrate, HostTypeOK
    <2>4. QED
      BY <1>0, <1>9, <2>1, <2>2, <2>3 DEF TagsOK, ReleaseSteps
  <1>12. ASSUME NEW d \in Deployers, up(d, TRUE) PROVE HostInv'
    <2> DEFINE next == [deployer[d] EXCEPT !.step = "up"]
    <2>1. /\ next \in Deployment /\ next.step = "up"
          /\ next.tag = deployer[d].tag /\ next.target = deployer[d].target
          /\ deployer' = [deployer EXCEPT ![d] = next]
          /\ deployer[d].step \in ReleaseSteps /\ deployer[d].tag \in Commits
          /\ images[deployer[d].tag] \in Commits
      BY <1>0, <1>12 DEF up, Moves, Deployment, Steps, ReleaseSteps, TagsOK
    <2> HIDE DEF next
    <2>2. UNCHANGED <<images, env, host_lock>>
      BY <1>12 DEF up
    <2>3. HostTypeOK'
      BY <1>0, <1>12, <2>1 DEF up, Container, HostTypeOK
    <2>4. QED
      BY <1>0, <1>9, <2>1, <2>2, <2>3 DEF TagsOK, ReleaseSteps
  <1>13. ASSUME NEW d \in Deployers, write_release(d) PROVE HostInv'
    <2> DEFINE next == [deployer[d] EXCEPT !.step = "writing", !.db = env.db]
    <2>1. /\ next \in Deployment /\ next.step = "writing"
          /\ next.tag = deployer[d].tag /\ next.target = deployer[d].target
      BY <1>0 DEF Deployment, Steps, ReleaseSteps, HostTypeOK
    <2>2. /\ deployer' = [deployer EXCEPT ![d] = next]
          /\ deployer[d].step \in ReleaseSteps /\ images[deployer[d].tag] \in Commits
      BY <1>0, <1>13 DEF write_release, ReleaseSteps, TagsOK
    <2> HIDE DEF next
    <2>3. HostTypeOK' /\ UNCHANGED <<images, env, host_lock>>
      BY <1>0, <1>13 DEF write_release, HostTypeOK
    <2>4. QED
      BY <1>0, <1>9, <2>1, <2>2, <2>3 DEF TagsOK, ReleaseSteps
  <1>14. ASSUME NEW d \in Deployers, record_release(d) PROVE HostInv'
    <2> DEFINE next == [deployer[d] EXCEPT !.step = "recorded"]
    <2>1. /\ next \in Deployment /\ next.step = "recorded"
          /\ next.tag = deployer[d].tag /\ next.target = deployer[d].target
          /\ deployer' = [deployer EXCEPT ![d] = next]
          /\ deployer[d].step \in ReleaseSteps /\ deployer[d].tag \in Commits
          /\ images[deployer[d].tag] \in Commits /\ deployer[d].db \in Databases
      BY <1>0, <1>14 DEF record_release, Moves, Deployment, Steps, ReleaseSteps, TagsOK
    <2> HIDE DEF next
    <2>2. UNCHANGED <<images, host_lock>> /\ env'.tag = deployer[d].tag
      BY <1>14 DEF record_release
    <2>3. HostTypeOK'
      BY <1>0, <1>14, <2>1 DEF record_release, HostTypeOK
    <2>4. QED
      BY <1>0, <1>9, <2>1, <2>2, <2>3 DEF TagsOK, ReleaseSteps
  <1>15. ASSUME NEW d \in Deployers, finish(d) PROVE HostInv'
    <2>1. CASE d = Service
      <3> DEFINE next == [deployer[d] EXCEPT !.step = "released"]
      <3>1. /\ next \in Deployment /\ next.step = "released"
            /\ next.tag = deployer[d].tag /\ next.target = deployer[d].target
            /\ deployer' = [deployer EXCEPT ![d] = next]
            /\ deployer[d].step \in ReleaseSteps
        BY <1>0, <1>15, <2>1 DEF finish, Moves, Deployment, Steps, ReleaseSteps
      <3> HIDE DEF next
      <3>2. HostTypeOK' /\ UNCHANGED <<images, env, host_lock>>
        BY <1>0, <1>15, <2>1 DEF finish, HostTypeOK
      <3>3. QED
        BY <1>0, <1>9, <3>1, <3>2 DEF TagsOK, ReleaseSteps
    <2>2. CASE d # Service
      BY <1>0, <1>5, <1>15, <2>2 DEF finish, HostTypeOK
    <2>3. QED
      BY <2>1, <2>2
  <1>16. CASE \E d \in Deployers : Release(d)
    BY <1>7, <1>10, <1>11, <1>12, <1>13, <1>14, <1>15, <1>16 DEF Release
  <1>17. QED
    BY <1>1, <1>2, <1>3, <1>4, <1>6, <1>7, <1>8, <1>16 DEF DeployNext


\* Clients and the migration keep the invariant.
LEMMA HostMigrates == ASSUME HostInv, Next, ~Deploying PROVE HostInv'
  <1> USE DeploymentAssumption, CutoverAssumption
  <1> DEFINE Data == /\ rows' \in [Databases -> SUBSET Writes]
                     /\ session' \in [Sessions -> Modes]
                     /\ files' \in SUBSET Artifacts
                     /\ original' \in Modes
  <1>0. /\ TypeOK /\ Locks /\ TagsOK /\ HostTypeOK
        /\ rows \in [Databases -> SUBSET Writes] /\ session \in [Sessions -> Modes]
        /\ files \in SUBSET Artifacts /\ original \in Modes /\ migration \in Migration
    BY DEF HostInv, TypeOK, DeployTypeOK, HostTypeOK
  <1>1. CASE Clients \/ reboot
    <2>1. /\ HostTypeOK' /\ UNCHANGED <<deployer, images, env, host_lock, migration>>
      BY <1>0, <1>1
      DEF Clients, reboot, connect, disconnect, commit, commit_target, deployVars, cutoverVars,
          HostTypeOK
    <2>2. Data
      BY <1>0, <1>1
      DEF Clients, reboot, connect, disconnect, commit, commit_target, cutoverVars, Setting, Modes
    <2>3. QED
      BY <1>0, <2>1, <2>2, OthersMove DEF TagsOK, At
  <1>2. ASSUME Over, ~At("idle"), HostTypeOK', Data, UNCHANGED <<deployer, images, env>>
        PROVE  HostInv'
    <2>1. /\ migration' \in Migration /\ migration'.step = "idle" /\ host_lock' = "free"
          /\ host_lock # "deploy"
      BY <1>0, <1>2
      DEF Over, NoMigration, Migration, Nothing, Contents, Locks, NoCommit
    <2>2. QED
      BY <1>0, <1>2, <2>1, OthersMove DEF TagsOK
  <1>3. ASSUME host_lock # "deploy", host_lock' = "migration", HostTypeOK', Data,
               UNCHANGED <<deployer, images>>, images[env'.tag] \in Commits,
               migration' \in Migration, migration'.step \notin {"idle", "writing"}
        PROVE  HostInv'
    BY <1>0, <1>3, OthersMove
  <1>4. \A step \in (PrepareSteps \cup CutoverSteps) \ {"writing"} :
          Goes(step) => migration' \in Migration /\ migration'.step \notin {"idle", "writing"}
    BY <1>0 DEF Goes, Migration, PrepareSteps, CutoverSteps
  <1>5. CASE prepare \/ cutover
    <2>1. host_lock = "free" /\ host_lock' = "migration" /\ UNCHANGED <<deployer, images, env>>
      BY <1>5 DEF prepare, cutover
    <2>2. HostTypeOK'
      BY <1>0, <1>5 DEF prepare, cutover, HostTypeOK
    <2>3. Data
      BY <1>0, <1>5 DEF prepare, cutover, Artifacts
    <2>4. Goes("preparing") \/ Goes("timer stopped")
      BY <1>5 DEF prepare, cutover
    <2>5. QED
      BY <1>0, <1>3, <1>4, <2>1, <2>2, <2>3, <2>4 DEF PrepareSteps, CutoverSteps, TagsOK
  <1>6. CASE verify_trial \/ already_started \/ cutover_refused \/ complete \/ migration_fails
    <2>1. Over /\ UNCHANGED <<deployer, images, env, rows, session, original>>
      BY <1>6 DEF verify_trial, already_started, cutover_refused, complete, migration_fails
    <2>2. ~At("idle")
      BY <1>6 DEF verify_trial, already_started, cutover_refused, CanGoOn, complete,
                  migration_fails, At
    <2>3. HostTypeOK'
      <3>1. timer' \in {"on", "off"}
        BY <1>0, <2>1 DEF Over, HostTypeOK
      <3>2. CASE migration_fails
        BY <1>0, <2>1, <3>1, <3>2 DEF migration_fails, Fault, HostTypeOK
      <3>3. CASE ~migration_fails
        BY <1>0, <1>6, <3>1, <3>3
        DEF verify_trial, already_started, cutover_refused, complete, HostTypeOK
      <3>4. QED
        BY <3>2, <3>3
    <2>4. Data
      BY <1>0, <1>6, <2>1 DEF verify_trial, already_started, cutover_refused, complete,
                              migration_fails, Artifacts
    <2>5. QED
      BY <1>2, <2>1, <2>2, <2>3, <2>4
  <1>7. CASE migration_dies
    <2>1. /\ ~At("idle") /\ migration' = NoMigration /\ host_lock' = "free"
          /\ UNCHANGED <<deployer, images, env, rows, session, files, original>>
      BY <1>7 DEF migration_dies
    <2>2. HostTypeOK'
      BY <1>0, <1>7 DEF migration_dies, Fault, HostTypeOK
    <2>3. /\ migration' \in Migration /\ migration'.step = "idle" /\ host_lock # "deploy"
      BY <1>0, <2>1 DEF NoMigration, Migration, Nothing, Contents, Locks, NoCommit
    <2>4. QED
      BY <1>0, <2>1, <2>2, <2>3, OthersMove DEF TagsOK
  <1>8. ASSUME ~At("idle") PROVE host_lock = "migration"
    BY <1>0, <1>8 DEF Locks
  <1>9. CASE create_role \/ save_original \/ save_env \/ fence \/ terminate_sessions \/ verify
    <2>1. /\ ~At("idle") /\ UNCHANGED <<deployer, images, env, host_lock>>
      BY <1>9 DEF create_role, save_original, save_env, fence, terminate_sessions, verify,
                  deployVars, At
    <2>2. HostTypeOK'
      BY <1>0, <1>9 DEF create_role, save_original, save_env, fence, terminate_sessions, verify,
                        deployVars, HostTypeOK
    <2>3. Data
      BY <1>0, <1>9 DEF create_role, save_original, save_env, fence, terminate_sessions, verify,
                        Artifacts, Setting, Modes
    <2>4. \E step \in (PrepareSteps \cup CutoverSteps) \ {"writing"} : Goes(step)
      BY <1>9 DEF create_role, save_original, save_env, fence, terminate_sessions, verify,
                  PrepareSteps, CutoverSteps
    <2>5. QED
      BY <1>0, <1>3, <1>4, <1>8, <2>1, <2>2, <2>3, <2>4 DEF TagsOK
  <1>10. CASE dump_trial \/ take_snapshot \/ dump
    <2>1. /\ ~At("idle") /\ UNCHANGED <<deployVars, rows, session, files, original>>
      BY <1>10 DEF dump_trial, take_snapshot, dump, At
    <2>2. ContentsOf(Source) \in Contents
      BY <1>0 DEF ContentsOf, Contents, HostTypeOK
    <2>3. migration' \in Migration /\ migration'.step \notin {"idle", "writing"}
      BY <1>0, <1>10, <2>2
      DEF dump_trial, take_snapshot, dump, Migration, PrepareSteps, CutoverSteps
    <2>4. HostTypeOK' /\ UNCHANGED <<deployer, images, env, host_lock>>
      BY <1>0, <2>1 DEF deployVars, HostTypeOK
    <2>5. QED
      BY <1>0, <1>3, <1>8, <2>1, <2>3, <2>4 DEF TagsOK
  <1>11. CASE restore
    <2>1. /\ ~At("idle") /\ Goes("restored")
          /\ UNCHANGED <<deployer, images, env, host_lock, session, files, original>>
      BY <1>11 DEF restore, At
    <2>2. migration.archive.rows \in SUBSET Writes /\ migration.archive.schema \in Nat
      BY <1>0 DEF Migration, Contents
    <2>3. HostTypeOK'
      BY <1>0, <1>11, <2>2 DEF restore, HostTypeOK
    <2>4. Data
      BY <1>0, <1>11, <2>2 DEF restore
    <2>5. QED
      BY <1>0, <1>3, <1>4, <1>8, <2>1, <2>3, <2>4 DEF TagsOK, CutoverSteps
  <1>12. CASE write_switch
    <2>1. /\ ~At("idle") /\ UNCHANGED <<deployVars, rows, session, files, original>>
          /\ migration' = [migration EXCEPT !.step = "writing", !.tag = env.tag]
      BY <1>12 DEF write_switch, At
    <2>2. migration' \in Migration /\ migration'.step = "writing" /\ migration'.tag = env.tag
      BY <1>0, <2>1 DEF Migration, CutoverSteps, HostTypeOK
    <2>3. HostTypeOK' /\ UNCHANGED <<deployer, images, env, host_lock>>
      BY <1>0, <2>1 DEF deployVars, HostTypeOK
    <2>4. env.tag \in Commits /\ images[env.tag] \in Commits
      BY <1>0 DEF TagsOK, HostTypeOK
    <2>5. QED
      BY <1>0, <1>8, <2>1, <2>2, <2>3, <2>4, OthersMove
  <1>13. CASE switch
    <2>1. /\ At("writing") /\ Goes("switched") /\ env' = [tag |-> migration.tag, db |-> Target]
          /\ UNCHANGED <<deployer, images, host_lock, rows, session, files, original>>
      BY <1>13 DEF switch
    <2>2. migration.tag \in Commits /\ images[migration.tag] \in Commits /\ ~At("idle")
      BY <1>0, <2>1 DEF TagsOK, At
    <2>3. HostTypeOK'
      BY <1>0, <1>13, <2>1, <2>2 DEF switch, HostTypeOK
    <2>4. QED
      BY <1>0, <1>3, <1>4, <1>8, <2>1, <2>2, <2>3 DEF CutoverSteps
  <1>14. ASSUME NEW healthy \in BOOLEAN, recreate(healthy) PROVE HostInv'
    <2>1. /\ ~At("idle") /\ UNCHANGED <<deployer, images, env, rows, session, files, original>>
      BY <1>14 DEF recreate, At
    <2>2. images[env.tag] \in Commits /\ env.tag \in Commits /\ env.db \in Databases
      BY <1>0 DEF TagsOK, HostTypeOK
    <2>3. HostTypeOK'
      BY <1>0, <1>14, <2>2 DEF recreate, Container, Fault, Over, HostTypeOK
    <2>4. Over \/ (Goes("recreated") /\ UNCHANGED host_lock)
      BY <1>14 DEF recreate
    <2>5. CASE Over
      BY <1>0, <1>2, <2>1, <2>3, <2>5
    <2>6. CASE Goes("recreated") /\ UNCHANGED host_lock
      BY <1>0, <1>3, <1>4, <1>8, <2>1, <2>2, <2>3, <2>6 DEF CutoverSteps
    <2>7. QED
      BY <2>4, <2>5, <2>6
  <1>15. QED
    BY <1>1, <1>5, <1>6, <1>7, <1>9, <1>10, <1>11, <1>12, <1>13, <1>14
    DEF Next, Preparing, CuttingOver

\* The invariant holds always, whatever operators and the service do beside each other.
LEMMA HostInvariant == Spec => []HostInv
  <1>1. Init => HostInv
    BY HostInit
  <1>2. HostInv /\ [Next]_vars => HostInv'
    <2>1. CASE UNCHANGED vars
      BY <2>1 DEF HostInv, TypeOK, DeployTypeOK, Locks, TagsOK, At, vars, deployVars, cutoverVars
    <2>2. QED
      BY <2>1, HostDeploys, HostMigrates
  <1>3. QED
    BY <1>1, <1>2, PTL DEF Spec


-----------------------------------------------------------------------------
(* The invariant of releases and cutovers *)

\* No deployment goes on beside a cutover.
NoneBeside == migration.step \in CutoverSteps => \A d \in Deployers : deployer[d].step = "idle"

\* What a deployment knows of the host at its step.
DeploymentOK(d) ==
    LET r == deployer[d]
    IN  /\ r.step \in ReleaseSteps => r.tag \in Commits
        /\ r.step = "tagged" => head = r.tag
        /\ r.step \in ReleaseSteps \ {"tagged"} => images[r.tag] = r.tag
        /\ r.step \in ReleaseSteps \ {"tagged", "built"} => schema[env.db] = Revision[r.tag]
        /\ r.step \in {"up", "writing", "recorded"} =>
             api = [tag |-> r.tag, code |-> r.tag, db |-> env.db]
        /\ r.step = "writing" => r.db = env.db
        /\ r.step = "recorded" => env.tag = r.tag

\* Images are what their tags say, and no code is ahead of its database.
ReleasesOK ==
    /\ \A c \in Commits : images[c] \in {c, NoCommit}
    /\ images[env.tag] = env.tag
    /\ Revision[env.tag] <= schema[env.db]
    /\ Revision[api.code] <= schema[api.db]

NoWriter == \A s \in Sessions : session[s] # "read-write"

OnSource == env.db = Source /\ api.db = Source

\* What the migration knows of the databases at its step.
MigrationOK ==
    /\ {env.db, api.db} \subseteq {Source, Target}
    /\ api.db = Target => env.db = Target
    /\ env.db = Target => /\ Source \in fenced
                          /\ NoWriter
                          /\ api.db = Source => rows[Target] = rows[Source]
    /\ "app.env.before" \notin files => OnSource
    /\ migration.step \in CutoverSteps \ {"timer stopped", "settings saved"} =>
         "app.env.before" \in files
    /\ migration.step \in {"env saved", "read-only", "sessions ended", "snapshot", "dumped",
                           "restored", "verified", "writing"} => OnSource
    /\ migration.step \in {"read-only", "sessions ended", "snapshot", "dumped", "restored",
                           "verified", "writing"} => Source \in fenced
    /\ migration.step \in {"sessions ended", "snapshot", "dumped", "restored", "verified",
                           "writing"} => NoWriter
    /\ migration.step \in {"snapshot", "dumped", "restored"} =>
         migration.expected = ContentsOf(Source)
    /\ At("dumped") => migration.archive = ContentsOf(Source)
    /\ migration.step \in {"restored", "verified", "writing"} =>
         ContentsOf(Target) = ContentsOf(Source)
    /\ At("writing") => migration.tag = env.tag

ReleaseInv ==
    /\ \A d \in Deployers : DeploymentOK(d)
    /\ ReleasesOK
    /\ MigrationOK

IInv == HostInv /\ NoneBeside /\ ReleaseInv

\* The invariant holds at first.
LEMMA InitOK == ASSUME Init PROVE IInv
  <1> USE DeploymentAssumption, CutoverAssumption
  <1>1. NoneBeside
    BY DEF Init, NoneBeside, NoMigration, CutoverSteps
  <1>2. \A d \in Deployers : DeploymentOK(d)
    BY DEF Init, DeployInit, DeploymentOK, NoDeployment, ReleaseSteps
  <1>3. ReleasesOK
    BY DEF Init, DeployInit, ReleasesOK, Commits, NoCommit
  <1>4. MigrationOK
    BY DEF Init, DeployInit, MigrationOK, OnSource, At, NoMigration, NoWriter, CutoverSteps
  <1>5. QED
    BY <1>1, <1>2, <1>3, <1>4, HostInit DEF IInv, ReleaseInv

\* A service that deploys has the host lock, which a migration does not get then; operators
\* keep apart.
LEMMA NoneBesideNext == ASSUME HostInv', Apart PROVE NoneBeside'
  BY DEF HostInv, Locks, Apart, NoneBeside, At, CutoverSteps, Deployers

-----------------------------------------------------------------------------
(* Releases *)

\* A deployment that holds .deploy.lock is alone, and no cutover is under way.
LEMMA Alone ==
  ASSUME IInv, NEW d \in Deployers, deployer[d].step \in ReleaseSteps
  PROVE  /\ migration.step \notin CutoverSteps
         /\ \A e \in Deployers \ {d} : deployer[e].step \notin ReleaseSteps
         /\ deployer[d] \in Deployment
         /\ deployer[d].tag \in Commits
  BY DEF IInv, HostInv, ReleaseInv, Locks, NoneBeside, TypeOK, DeployTypeOK, DeploymentOK,
     ReleaseSteps

\* main grows.
LEMMA Push == ASSUME IInv, push, UNCHANGED cutoverVars PROVE ReleaseInv'
  <1> USE DeploymentAssumption, CutoverAssumption
  <1>1. (\A d \in Deployers : DeploymentOK(d))'
    BY DEF IInv, ReleaseInv, push, cutoverVars, DeploymentOK
  <1>2. ReleasesOK'
    BY DEF IInv, ReleaseInv, push, cutoverVars, ReleasesOK
  <1>3. MigrationOK'
    BY DEF IInv, ReleaseInv, push, cutoverVars, MigrationOK, OnSource, At, NoWriter, ContentsOf
  <1>4. QED
    BY <1>1, <1>2, <1>3 DEF ReleaseInv

\* CI accepts a commit.
LEMMA CiSucceeds ==
  ASSUME IInv, NEW c \in Commits, ci_succeeds(c), UNCHANGED cutoverVars
  PROVE  ReleaseInv'
  <1> USE DeploymentAssumption, CutoverAssumption DEF IInv, HostInv, ReleaseInv, ci_succeeds,
      cutoverVars
  <1>1. (\A e \in Deployers : DeploymentOK(e))'
    BY DEF DeploymentOK, Locks, NoneBeside, TypeOK, DeployTypeOK, Deployers, Deployment, Steps,
       ReleaseSteps, At
  <1>2. ReleasesOK'
    BY DEF ReleasesOK, TypeOK, DeployTypeOK, DeploymentOK, ReleaseSteps, Commits, NoCommit
  <1>3. MigrationOK'
    BY DEF MigrationOK, Locks, NoneBeside, DeploymentOK, TypeOK, DeployTypeOK, OnSource, At,
       NoWriter, ContentsOf, ReleaseSteps, CutoverSteps, Deployers
  <1>4. QED
    BY <1>1, <1>2, <1>3

\* An operator moves HEAD while no deploy.sh is about to build from it.
LEMMA OperatorCheckout ==
  ASSUME IInv, NEW c \in Commits, operator_checkout(c), HeadStill, UNCHANGED cutoverVars
  PROVE  ReleaseInv'
  <1> USE DeploymentAssumption, CutoverAssumption DEF IInv, HostInv, ReleaseInv,
      operator_checkout, HeadStill, cutoverVars
  <1>1. (\A e \in Deployers : DeploymentOK(e))'
    BY DEF DeploymentOK, Locks, NoneBeside, TypeOK, DeployTypeOK, Deployers, Deployment, Steps,
       ReleaseSteps, At
  <1>2. ReleasesOK'
    BY DEF ReleasesOK, TypeOK, DeployTypeOK, DeploymentOK, ReleaseSteps, Commits, NoCommit
  <1>3. MigrationOK'
    BY DEF MigrationOK, Locks, NoneBeside, DeploymentOK, TypeOK, DeployTypeOK, OnSource, At,
       NoWriter, ContentsOf, ReleaseSteps, CutoverSteps, Deployers
  <1>4. QED
    BY <1>1, <1>2, <1>3

\* The service has the host lock, and a target.
LEMMA DeployChosen ==
  ASSUME IInv, deploy, UNCHANGED cutoverVars
  PROVE  ReleaseInv'
  <1> DEFINE r == deployer[Service]
             next == [NoDeployment EXCEPT !.step = "chosen", !.target = main]
  <1> USE DeploymentAssumption, CutoverAssumption
  <1>0. /\ HostInv /\ TypeOK /\ Locks
        /\ NoneBeside /\ DeploymentOK(Service) /\ ReleasesOK /\ MigrationOK
    BY DEF IInv, HostInv, ReleaseInv, Deployers
  <1>1. r \in Deployment /\ r.step = "idle"
    BY <1>0 DEF TypeOK, DeployTypeOK, DeploymentOK, ReleaseSteps, Deployers, deploy, Deployable,
       NoDeployment
  <1>2. next \in Deployment /\ deployer' = [deployer EXCEPT ![Service] = next]
    BY <1>0, <1>1 DEF TypeOK, DeployTypeOK, Deployment, Steps, ReleaseSteps, Deployers, deploy,
       Deployable, NoDeployment
  <1>3. /\ deployer' \in [Deployers -> Deployment]
        /\ deployer'[Service] = next
        /\ \A e \in Deployers \ {Service} : deployer'[e] = deployer[e]
    BY <1>0, <1>2, OneMoves DEF Deployers
  <1>4. /\ deployer'[Service].step = "chosen"
        /\ deployer'[Service].tag = NoCommit
        /\ deployer'[Service].db = Source
        /\ deployer'[Service].target = main
    BY <1>1, <1>3 DEF NoDeployment, Deployment
  <1> HIDE DEF next
  <1>5. (\A e \in Deployers : DeploymentOK(e))'
    <2>1. DeploymentOK(Service)'
      <3>1. DeploymentOK(Service)
        BY <1>0
      <3>2. QED
        BY <1>1, <1>4, <3>1 DEF DeploymentOK, ReleaseSteps, NoCommit
    <2>2. ASSUME NEW e \in Deployers \ {Service} PROVE DeploymentOK(e)'
      <3>1. DeploymentOK(e)
        BY DEF IInv, ReleaseInv
      <3>2. QED
        BY <1>0, <1>1, <1>3, <3>1 DEF DeploymentOK, ReleaseSteps, deploy, Deployable,
           NoDeployment, Deployers
    <2>3. QED
      BY <2>1, <2>2
  <1>6. ReleasesOK'
    BY <1>0, <1>1 DEF ReleasesOK, TypeOK, DeployTypeOK, DeploymentOK, ReleaseSteps, NoCommit,
       deploy, Deployable, NoDeployment, Deployers
  <1>7. MigrationOK'
    BY <1>0, <1>1 DEF MigrationOK, TypeOK, DeployTypeOK, OnSource, At, NoWriter, DeploymentOK,
       ContentsOf, cutoverVars, CutoverSteps, ReleaseSteps, deploy, Deployable, NoDeployment,
       Deployers
  <1>8. QED
    BY <1>0, <1>5, <1>6, <1>7 DEF ReleaseInv

\* The service moves HEAD to its target while no deploy.sh is about to build from it.
LEMMA CheckoutTarget ==
  ASSUME IInv, checkout_target, HeadStill, UNCHANGED cutoverVars
  PROVE  ReleaseInv'
  <1> DEFINE r == deployer[Service]
             next == [r EXCEPT !.step = "checked out"]
  <1> USE DeploymentAssumption, CutoverAssumption
  <1>0. /\ HostInv /\ TypeOK /\ Locks
        /\ NoneBeside /\ DeploymentOK(Service) /\ ReleasesOK /\ MigrationOK
    BY DEF IInv, HostInv, ReleaseInv, Deployers
  <1>1. r \in Deployment /\ r.step = "chosen"
    BY <1>0 DEF TypeOK, DeployTypeOK, DeploymentOK, ReleaseSteps, Deployers, checkout_target,
       Moves
  <1>2. next \in Deployment /\ deployer' = [deployer EXCEPT ![Service] = next]
    BY <1>0, <1>1 DEF TypeOK, DeployTypeOK, Deployment, Steps, ReleaseSteps, Deployers,
       checkout_target, Moves
  <1>3. /\ deployer' \in [Deployers -> Deployment]
        /\ deployer'[Service] = next
        /\ \A e \in Deployers \ {Service} : deployer'[e] = deployer[e]
    BY <1>0, <1>2, OneMoves DEF Deployers
  <1>4. /\ deployer'[Service].step = "checked out"
        /\ deployer'[Service].tag = r.tag
        /\ deployer'[Service].db = r.db
        /\ deployer'[Service].target = r.target
    BY <1>1, <1>3 DEF NoDeployment, Deployment
  <1> HIDE DEF next
  <1>5. (\A e \in Deployers : DeploymentOK(e))'
    <2>1. DeploymentOK(Service)'
      <3>1. DeploymentOK(Service)
        BY <1>0
      <3>2. head' = r.target
        BY DEF checkout_target
      <3>3. QED
        BY <1>1, <1>4, <3>1, <3>2 DEF DeploymentOK, ReleaseSteps, NoCommit
    <2>2. ASSUME NEW e \in Deployers \ {Service} PROVE DeploymentOK(e)'
      <3>1. DeploymentOK(e)
        BY DEF IInv, ReleaseInv
      <3>2. QED
        BY <1>0, <1>1, <1>3, <3>1 DEF DeploymentOK, ReleaseSteps, checkout_target, HeadStill
    <2>3. QED
      BY <2>1, <2>2
  <1>6. ReleasesOK'
    BY <1>0, <1>1 DEF ReleasesOK, TypeOK, DeployTypeOK, DeploymentOK, ReleaseSteps, NoCommit,
       checkout_target, Moves
  <1>7. MigrationOK'
    BY <1>0, <1>1 DEF MigrationOK, TypeOK, DeployTypeOK, OnSource, At, NoWriter, DeploymentOK,
       ContentsOf, cutoverVars, CutoverSteps, ReleaseSteps, checkout_target, Moves
  <1>8. QED
    BY <1>0, <1>5, <1>6, <1>7 DEF ReleaseInv

\* deploy.sh has its lock, and HEAD as its tag.
LEMMA ReadTag ==
  ASSUME IInv, NEW d \in Deployers, read_tag(d), UNCHANGED cutoverVars
  PROVE  ReleaseInv'
  <1> DEFINE r == deployer[d]
             next == [r EXCEPT !.step = "tagged", !.tag = head]
  <1> USE DeploymentAssumption, CutoverAssumption
  <1>0. HostInv /\ TypeOK /\ Locks /\ NoneBeside /\ DeploymentOK(d) /\ ReleasesOK /\ MigrationOK
    BY DEF IInv, HostInv, ReleaseInv, Deployers
  <1>1. r \in Deployment /\ r.step \in {"idle", "checked out"}
    BY <1>0 DEF TypeOK, DeployTypeOK, DeploymentOK, ReleaseSteps, Deployers, read_tag, Start
  <1>2. next \in Deployment /\ deployer' = [deployer EXCEPT ![d] = next]
    BY <1>0, <1>1 DEF TypeOK, DeployTypeOK, Deployment, Steps, ReleaseSteps, Deployers, read_tag,
       Start
  <1>3. \A e \in Deployers : deployer[e].step \notin ReleaseSteps
    BY DEF read_tag, DeployLockFree
  <1>4. /\ deployer' \in [Deployers -> Deployment]
        /\ deployer'[d] = next
        /\ \A e \in Deployers \ {d} : deployer'[e] = deployer[e]
    BY <1>0, <1>2, OneMoves DEF Deployers
  <1>5. /\ deployer'[d].step = "tagged"
        /\ deployer'[d].tag = head
        /\ deployer'[d].db = r.db
        /\ deployer'[d].target = r.target
    BY <1>1, <1>4 DEF NoDeployment, Deployment
  <1> HIDE DEF next
  <1>6. (\A e \in Deployers : DeploymentOK(e))'
    <2>1. DeploymentOK(d)'
      <3>1. DeploymentOK(d)
        BY <1>0
      <3>2. head' = head /\ head \in Commits
        BY <1>0, <1>1, <3>1 DEF TypeOK, DeployTypeOK, DeploymentOK, read_tag, Start
      <3>3. QED
        BY <1>1, <1>5, <3>1, <3>2 DEF DeploymentOK, ReleaseSteps, NoCommit
    <2>2. ASSUME NEW e \in Deployers \ {d} PROVE DeploymentOK(e)'
      <3>1. DeploymentOK(e)
        BY DEF IInv, ReleaseInv
      <3>2. QED
        BY <1>0, <1>1, <1>3, <1>4, <3>1 DEF DeploymentOK, ReleaseSteps, read_tag, Start
    <2>3. QED
      BY <2>1, <2>2
  <1>7. ReleasesOK'
    BY <1>0, <1>1 DEF ReleasesOK, TypeOK, DeployTypeOK, DeploymentOK, ReleaseSteps, NoCommit,
       read_tag, Start
  <1>8. MigrationOK'
    BY <1>0, <1>1, <1>3 DEF MigrationOK, TypeOK, DeployTypeOK, OnSource, At, NoWriter,
       DeploymentOK, ContentsOf, cutoverVars, CutoverSteps, ReleaseSteps, read_tag, Start
  <1>9. QED
    BY <1>0, <1>6, <1>7, <1>8 DEF ReleaseInv

\* The service gives up.
LEMMA LockRefused ==
  ASSUME IInv, lock_refused, UNCHANGED cutoverVars
  PROVE  ReleaseInv'
  <1> USE DeploymentAssumption, CutoverAssumption DEF IInv, HostInv, ReleaseInv, lock_refused,
      Ends, NoDeployment, cutoverVars
  <1>1. (\A e \in Deployers : DeploymentOK(e))'
    BY DEF DeploymentOK, Locks, NoneBeside, TypeOK, DeployTypeOK, Deployers, Deployment, Steps,
       ReleaseSteps, At
  <1>2. ReleasesOK'
    BY DEF ReleasesOK, TypeOK, DeployTypeOK, DeploymentOK, ReleaseSteps, Commits, NoCommit
  <1>3. MigrationOK'
    BY DEF MigrationOK, Locks, NoneBeside, DeploymentOK, TypeOK, DeployTypeOK, OnSource, At,
       NoWriter, ContentsOf, ReleaseSteps, CutoverSteps, Deployers
  <1>4. QED
    BY <1>1, <1>2, <1>3

\* The image of the tag is built from the commit of the tag.
LEMMA Build ==
  ASSUME IInv, NEW d \in Deployers, build(d), UNCHANGED cutoverVars
  PROVE  ReleaseInv'
  <1> DEFINE r == deployer[d]
             next == [r EXCEPT !.step = "built"]
  <1> USE DeploymentAssumption, CutoverAssumption
  <1>0. HostInv /\ TypeOK /\ Locks /\ NoneBeside /\ DeploymentOK(d) /\ ReleasesOK /\ MigrationOK
    BY DEF IInv, HostInv, ReleaseInv, Deployers
  <1>1. r \in Deployment /\ r.step = "tagged" /\ r.tag \in Commits /\ head = r.tag
    BY <1>0 DEF TypeOK, DeployTypeOK, DeploymentOK, ReleaseSteps, Deployers, build, Moves
  <1>2. next \in Deployment /\ deployer' = [deployer EXCEPT ![d] = next]
    BY <1>0, <1>1 DEF TypeOK, DeployTypeOK, Deployment, Steps, ReleaseSteps, Deployers, build,
       Moves
  <1>3. /\ migration.step \notin CutoverSteps
        /\ \A e \in Deployers \ {d} : deployer[e].step \notin ReleaseSteps
    BY <1>1, Alone DEF ReleaseSteps
  <1>4. /\ deployer' \in [Deployers -> Deployment]
        /\ deployer'[d] = next
        /\ \A e \in Deployers \ {d} : deployer'[e] = deployer[e]
    BY <1>0, <1>2, OneMoves DEF Deployers
  <1>5. /\ deployer'[d].step = "built"
        /\ deployer'[d].tag = r.tag
        /\ deployer'[d].db = r.db
        /\ deployer'[d].target = r.target
    BY <1>1, <1>4 DEF NoDeployment, Deployment
  <1> HIDE DEF next
  <1>6. (\A e \in Deployers : DeploymentOK(e))'
    <2>1. DeploymentOK(d)'
      <3>1. DeploymentOK(d)
        BY <1>0
      <3>2. images'[r.tag] = r.tag
        BY <1>0, <1>1, <3>1 DEF TypeOK, DeployTypeOK, DeploymentOK, build, Moves
      <3>3. QED
        BY <1>1, <1>5, <3>1, <3>2 DEF DeploymentOK, ReleaseSteps, NoCommit
    <2>2. ASSUME NEW e \in Deployers \ {d} PROVE DeploymentOK(e)'
      <3>1. DeploymentOK(e)
        BY DEF IInv, ReleaseInv
      <3>2. QED
        BY <1>0, <1>1, <1>3, <1>4, <3>1 DEF DeploymentOK, ReleaseSteps, build, Moves
    <2>3. QED
      BY <2>1, <2>2
  <1>7. ReleasesOK'
    BY <1>0, <1>1 DEF ReleasesOK, TypeOK, DeployTypeOK, DeploymentOK, ReleaseSteps, NoCommit,
       build, Moves
  <1>8. MigrationOK'
    BY <1>0, <1>1, <1>3 DEF MigrationOK, TypeOK, DeployTypeOK, OnSource, At, NoWriter,
       DeploymentOK, ContentsOf, cutoverVars, CutoverSteps, ReleaseSteps, build, Moves
  <1>9. QED
    BY <1>0, <1>6, <1>7, <1>8 DEF ReleaseInv

\* The schema becomes that of the tag.
LEMMA Migrate ==
  ASSUME IInv, NEW d \in Deployers, migrate(d), UNCHANGED cutoverVars
  PROVE  ReleaseInv'
  <1> DEFINE r == deployer[d]
             next == [r EXCEPT !.step = "migrated"]
  <1> USE DeploymentAssumption, CutoverAssumption
  <1>0. HostInv /\ TypeOK /\ Locks /\ NoneBeside /\ DeploymentOK(d) /\ ReleasesOK /\ MigrationOK
    BY DEF IInv, HostInv, ReleaseInv, Deployers
  <1>1. r \in Deployment /\ r.step = "built" /\ r.tag \in Commits /\ images[r.tag] = r.tag
    BY <1>0 DEF TypeOK, DeployTypeOK, DeploymentOK, ReleaseSteps, Deployers, migrate, CanUpgrade,
       Moves
  <1>2. next \in Deployment /\ deployer' = [deployer EXCEPT ![d] = next]
    BY <1>0, <1>1 DEF TypeOK, DeployTypeOK, Deployment, Steps, ReleaseSteps, Deployers, migrate,
       CanUpgrade, Moves
  <1>3. /\ migration.step \notin CutoverSteps
        /\ \A e \in Deployers \ {d} : deployer[e].step \notin ReleaseSteps
    BY <1>1, Alone DEF ReleaseSteps
  <1>4. /\ deployer' \in [Deployers -> Deployment]
        /\ deployer'[d] = next
        /\ \A e \in Deployers \ {d} : deployer'[e] = deployer[e]
    BY <1>0, <1>2, OneMoves DEF Deployers
  <1>5. /\ deployer'[d].step = "migrated"
        /\ deployer'[d].tag = r.tag
        /\ deployer'[d].db = r.db
        /\ deployer'[d].target = r.target
    BY <1>1, <1>4 DEF NoDeployment, Deployment
  <1> HIDE DEF next
  <1>6. (\A e \in Deployers : DeploymentOK(e))'
    <2>1. DeploymentOK(d)'
      <3>1. DeploymentOK(d)
        BY <1>0
      <3>2. /\ images' = images /\ env' = env /\ schema'[env.db] = Revision[r.tag]
        BY <1>0, <1>1, <3>1 DEF TypeOK, DeployTypeOK, DeploymentOK, migrate, CanUpgrade, Moves
      <3>3. QED
        BY <1>1, <1>5, <3>1, <3>2 DEF DeploymentOK, ReleaseSteps, NoCommit
    <2>2. ASSUME NEW e \in Deployers \ {d} PROVE DeploymentOK(e)'
      <3>1. DeploymentOK(e)
        BY DEF IInv, ReleaseInv
      <3>2. QED
        BY <1>0, <1>1, <1>3, <1>4, <3>1 DEF DeploymentOK, ReleaseSteps, migrate, CanUpgrade,
           Moves
    <2>3. QED
      BY <2>1, <2>2
  <1>7. ReleasesOK'
    BY <1>0, <1>1 DEF ReleasesOK, TypeOK, DeployTypeOK, DeploymentOK, ReleaseSteps, NoCommit,
       migrate, CanUpgrade, Moves
  <1>8. MigrationOK'
    BY <1>0, <1>1, <1>3 DEF MigrationOK, TypeOK, DeployTypeOK, OnSource, At, NoWriter,
       DeploymentOK, ContentsOf, cutoverVars, CutoverSteps, ReleaseSteps, migrate, CanUpgrade,
       Moves
  <1>9. QED
    BY <1>0, <1>6, <1>7, <1>8 DEF ReleaseInv

\* The deployment ends at its migration.
LEMMA MigrateRefused ==
  ASSUME IInv, NEW d \in Deployers, migrate_refused(d), UNCHANGED cutoverVars
  PROVE  ReleaseInv'
  <1> USE DeploymentAssumption, CutoverAssumption DEF IInv, HostInv, ReleaseInv, migrate_refused,
      Ends, NoDeployment, cutoverVars
  <1>1. (\A e \in Deployers : DeploymentOK(e))'
    BY DEF DeploymentOK, Locks, NoneBeside, TypeOK, DeployTypeOK, Deployers, Deployment, Steps,
       ReleaseSteps, At
  <1>2. ReleasesOK'
    BY DEF ReleasesOK, TypeOK, DeployTypeOK, DeploymentOK, ReleaseSteps, Commits, NoCommit
  <1>3. MigrationOK'
    BY DEF MigrationOK, Locks, NoneBeside, DeploymentOK, TypeOK, DeployTypeOK, OnSource, At,
       NoWriter, ContentsOf, ReleaseSteps, CutoverSteps, Deployers
  <1>4. QED
    BY <1>1, <1>2, <1>3

\* The API runs the tag on the database that .env names.
LEMMA Up ==
  ASSUME IInv, NEW d \in Deployers, up(d, TRUE), UNCHANGED cutoverVars
  PROVE  ReleaseInv'
  <1> DEFINE r == deployer[d]
             next == [r EXCEPT !.step = "up"]
  <1> USE DeploymentAssumption, CutoverAssumption
  <1>0. HostInv /\ TypeOK /\ Locks /\ NoneBeside /\ DeploymentOK(d) /\ ReleasesOK /\ MigrationOK
    BY DEF IInv, HostInv, ReleaseInv, Deployers
  <1>1. r \in Deployment /\ r.step = "migrated" /\ r.tag \in Commits /\ images[r.tag] = r.tag
    BY <1>0 DEF TypeOK, DeployTypeOK, DeploymentOK, ReleaseSteps, Deployers, up, Container, Moves
  <1>2. next \in Deployment /\ deployer' = [deployer EXCEPT ![d] = next]
    BY <1>0, <1>1 DEF TypeOK, DeployTypeOK, Deployment, Steps, ReleaseSteps, Deployers, up,
       Container, Moves
  <1>3. /\ migration.step \notin CutoverSteps
        /\ \A e \in Deployers \ {d} : deployer[e].step \notin ReleaseSteps
    BY <1>1, Alone DEF ReleaseSteps
  <1>4. /\ deployer' \in [Deployers -> Deployment]
        /\ deployer'[d] = next
        /\ \A e \in Deployers \ {d} : deployer'[e] = deployer[e]
    BY <1>0, <1>2, OneMoves DEF Deployers
  <1>5. /\ deployer'[d].step = "up"
        /\ deployer'[d].tag = r.tag
        /\ deployer'[d].db = r.db
        /\ deployer'[d].target = r.target
    BY <1>1, <1>4 DEF NoDeployment, Deployment
  <1> HIDE DEF next
  <1>6. (\A e \in Deployers : DeploymentOK(e))'
    <2>1. DeploymentOK(d)'
      <3>1. DeploymentOK(d)
        BY <1>0
      <3>2. /\ images' = images /\ env' = env /\ schema' = schema
          /\ api' = [tag |-> r.tag, code |-> r.tag, db |-> env.db]
        BY <1>0, <1>1, <3>1 DEF TypeOK, DeployTypeOK, DeploymentOK, up, Container, Moves
      <3>3. QED
        BY <1>1, <1>5, <3>1, <3>2 DEF DeploymentOK, ReleaseSteps, NoCommit
    <2>2. ASSUME NEW e \in Deployers \ {d} PROVE DeploymentOK(e)'
      <3>1. DeploymentOK(e)
        BY DEF IInv, ReleaseInv
      <3>2. QED
        BY <1>0, <1>1, <1>3, <1>4, <3>1 DEF DeploymentOK, ReleaseSteps, up, Container, Moves
    <2>3. QED
      BY <2>1, <2>2
  <1>7. ReleasesOK'
    BY <1>0, <1>1 DEF ReleasesOK, TypeOK, DeployTypeOK, DeploymentOK, ReleaseSteps, NoCommit, up,
       Container, Moves
  <1>8. MigrationOK'
    BY <1>0, <1>1, <1>3 DEF MigrationOK, TypeOK, DeployTypeOK, OnSource, At, NoWriter,
       DeploymentOK, ContentsOf, cutoverVars, CutoverSteps, ReleaseSteps, up, Container, Moves
  <1>9. QED
    BY <1>0, <1>6, <1>7, <1>8 DEF ReleaseInv

\* The API was replaced, and the deployment fails.
LEMMA UpUnhealthy ==
  ASSUME IInv, NEW d \in Deployers, up(d, FALSE), UNCHANGED cutoverVars
  PROVE  ReleaseInv'
  <1> DEFINE r == deployer[d]
             next == NoDeployment
  <1> USE DeploymentAssumption, CutoverAssumption
  <1>0. HostInv /\ TypeOK /\ Locks /\ NoneBeside /\ DeploymentOK(d) /\ ReleasesOK /\ MigrationOK
    BY DEF IInv, HostInv, ReleaseInv, Deployers
  <1>1. r \in Deployment /\ r.step = "migrated" /\ r.tag \in Commits /\ images[r.tag] = r.tag
    BY <1>0 DEF TypeOK, DeployTypeOK, DeploymentOK, ReleaseSteps, Deployers, up, Container, Ends,
       Fault, NoDeployment
  <1>2. next \in Deployment /\ deployer' = [deployer EXCEPT ![d] = next]
    BY <1>0, <1>1 DEF TypeOK, DeployTypeOK, Deployment, Steps, ReleaseSteps, Deployers, up,
       Container, Ends, Fault, NoDeployment
  <1>3. /\ migration.step \notin CutoverSteps
        /\ \A e \in Deployers \ {d} : deployer[e].step \notin ReleaseSteps
    BY <1>1, Alone DEF ReleaseSteps
  <1>4. /\ deployer' \in [Deployers -> Deployment]
        /\ deployer'[d] = next
        /\ \A e \in Deployers \ {d} : deployer'[e] = deployer[e]
    BY <1>0, <1>2, OneMoves DEF Deployers
  <1>5. deployer'[d].step = "idle"
    BY <1>1, <1>4 DEF NoDeployment, Deployment
  <1> HIDE DEF next
  <1>6. (\A e \in Deployers : DeploymentOK(e))'
    <2>1. DeploymentOK(d)'
      <3>1. DeploymentOK(d)
        BY <1>0
      <3>2. QED
        BY <1>1, <1>5, <3>1 DEF DeploymentOK, ReleaseSteps, NoCommit
    <2>2. ASSUME NEW e \in Deployers \ {d} PROVE DeploymentOK(e)'
      <3>1. DeploymentOK(e)
        BY DEF IInv, ReleaseInv
      <3>2. QED
        BY <1>0, <1>1, <1>3, <1>4, <3>1 DEF DeploymentOK, ReleaseSteps, up, Container, Ends,
           Fault, NoDeployment
    <2>3. QED
      BY <2>1, <2>2
  <1>7. ReleasesOK'
    BY <1>0, <1>1 DEF ReleasesOK, TypeOK, DeployTypeOK, DeploymentOK, ReleaseSteps, NoCommit, up,
       Container, Ends, Fault, NoDeployment
  <1>8. MigrationOK'
    BY <1>0, <1>1, <1>3 DEF MigrationOK, TypeOK, DeployTypeOK, OnSource, At, NoWriter,
       DeploymentOK, ContentsOf, cutoverVars, CutoverSteps, ReleaseSteps, up, Container, Ends,
       Fault, NoDeployment
  <1>9. QED
    BY <1>0, <1>6, <1>7, <1>8 DEF ReleaseInv

\* .env.release repeats the database of .env, which nobody changes now.
LEMMA WriteRelease ==
  ASSUME IInv, NEW d \in Deployers, write_release(d), UNCHANGED cutoverVars
  PROVE  ReleaseInv'
  <1> DEFINE r == deployer[d]
             next == [r EXCEPT !.step = "writing", !.db = env.db]
  <1> USE DeploymentAssumption, CutoverAssumption
  <1>0. HostInv /\ TypeOK /\ Locks /\ NoneBeside /\ DeploymentOK(d) /\ ReleasesOK /\ MigrationOK
    BY DEF IInv, HostInv, ReleaseInv, Deployers
  <1>1. r \in Deployment /\ r.step = "up" /\ r.tag \in Commits /\ images[r.tag] = r.tag
    BY <1>0 DEF TypeOK, DeployTypeOK, DeploymentOK, ReleaseSteps, Deployers, write_release
  <1>2. next \in Deployment /\ deployer' = [deployer EXCEPT ![d] = next]
    BY <1>0, <1>1 DEF TypeOK, DeployTypeOK, Deployment, Steps, ReleaseSteps, Deployers,
       write_release
  <1>3. /\ migration.step \notin CutoverSteps
        /\ \A e \in Deployers \ {d} : deployer[e].step \notin ReleaseSteps
    BY <1>1, Alone DEF ReleaseSteps
  <1>4. /\ deployer' \in [Deployers -> Deployment]
        /\ deployer'[d] = next
        /\ \A e \in Deployers \ {d} : deployer'[e] = deployer[e]
    BY <1>0, <1>2, OneMoves DEF Deployers
  <1>5. /\ deployer'[d].step = "writing"
        /\ deployer'[d].tag = r.tag
        /\ deployer'[d].db = env.db
        /\ deployer'[d].target = r.target
    BY <1>1, <1>4 DEF NoDeployment, Deployment
  <1> HIDE DEF next
  <1>6. (\A e \in Deployers : DeploymentOK(e))'
    <2>1. DeploymentOK(d)'
      <3>1. DeploymentOK(d)
        BY <1>0
      <3>2. UNCHANGED <<images, env, schema, api>>
        BY <1>0, <1>1, <3>1 DEF TypeOK, DeployTypeOK, DeploymentOK, write_release
      <3>3. QED
        BY <1>1, <1>5, <3>1, <3>2 DEF DeploymentOK, ReleaseSteps, NoCommit
    <2>2. ASSUME NEW e \in Deployers \ {d} PROVE DeploymentOK(e)'
      <3>1. DeploymentOK(e)
        BY DEF IInv, ReleaseInv
      <3>2. QED
        BY <1>0, <1>1, <1>3, <1>4, <3>1 DEF DeploymentOK, ReleaseSteps, write_release
    <2>3. QED
      BY <2>1, <2>2
  <1>7. ReleasesOK'
    BY <1>0, <1>1 DEF ReleasesOK, TypeOK, DeployTypeOK, DeploymentOK, ReleaseSteps, NoCommit,
       write_release
  <1>8. MigrationOK'
    BY <1>0, <1>1, <1>3 DEF MigrationOK, TypeOK, DeployTypeOK, OnSource, At, NoWriter,
       DeploymentOK, ContentsOf, cutoverVars, CutoverSteps, ReleaseSteps, write_release
  <1>9. QED
    BY <1>0, <1>6, <1>7, <1>8 DEF ReleaseInv

\* .env names the tag that runs.
LEMMA RecordRelease ==
  ASSUME IInv, NEW d \in Deployers, record_release(d), UNCHANGED cutoverVars
  PROVE  ReleaseInv'
  <1> DEFINE r == deployer[d]
             next == [r EXCEPT !.step = "recorded"]
  <1> USE DeploymentAssumption, CutoverAssumption
  <1>0. HostInv /\ TypeOK /\ Locks /\ NoneBeside /\ DeploymentOK(d) /\ ReleasesOK /\ MigrationOK
    BY DEF IInv, HostInv, ReleaseInv, Deployers
  <1>1. r \in Deployment /\ r.step = "writing" /\ r.tag \in Commits /\ images[r.tag] = r.tag
    BY <1>0 DEF TypeOK, DeployTypeOK, DeploymentOK, ReleaseSteps, Deployers, record_release,
       Moves, Deployment
  <1>2. next \in Deployment /\ deployer' = [deployer EXCEPT ![d] = next]
    BY <1>0, <1>1 DEF TypeOK, DeployTypeOK, Deployment, Steps, ReleaseSteps, Deployers,
       record_release, Moves
  <1>3. /\ migration.step \notin CutoverSteps
        /\ \A e \in Deployers \ {d} : deployer[e].step \notin ReleaseSteps
    BY <1>1, Alone DEF ReleaseSteps
  <1>4. /\ deployer' \in [Deployers -> Deployment]
        /\ deployer'[d] = next
        /\ \A e \in Deployers \ {d} : deployer'[e] = deployer[e]
    BY <1>0, <1>2, OneMoves DEF Deployers
  <1>5. /\ deployer'[d].step = "recorded"
        /\ deployer'[d].tag = r.tag
        /\ deployer'[d].db = r.db
        /\ deployer'[d].target = r.target
    BY <1>1, <1>4 DEF NoDeployment, Deployment
  <1> HIDE DEF next
  <1>6. (\A e \in Deployers : DeploymentOK(e))'
    <2>1. DeploymentOK(d)'
      <3>1. DeploymentOK(d)
        BY <1>0
      <3>2. /\ UNCHANGED <<images, schema, api>> /\ r.db = env.db
          /\ env' = [tag |-> r.tag, db |-> env.db]
        BY <1>0, <1>1, <3>1 DEF TypeOK, DeployTypeOK, DeploymentOK, record_release, Moves,
           Deployment
      <3>3. QED
        BY <1>1, <1>5, <3>1, <3>2 DEF DeploymentOK, ReleaseSteps, NoCommit
    <2>2. ASSUME NEW e \in Deployers \ {d} PROVE DeploymentOK(e)'
      <3>1. DeploymentOK(e)
        BY DEF IInv, ReleaseInv
      <3>2. QED
        BY <1>0, <1>1, <1>3, <1>4, <3>1 DEF DeploymentOK, ReleaseSteps, record_release, Moves,
           Deployment
    <2>3. QED
      BY <2>1, <2>2
  <1>7. ReleasesOK'
    BY <1>0, <1>1 DEF ReleasesOK, TypeOK, DeployTypeOK, DeploymentOK, ReleaseSteps, NoCommit,
       record_release, Moves, Deployment
  <1>8. MigrationOK'
    BY <1>0, <1>1, <1>3 DEF MigrationOK, TypeOK, DeployTypeOK, OnSource, At, NoWriter,
       DeploymentOK, ContentsOf, cutoverVars, CutoverSteps, ReleaseSteps, record_release, Moves,
       Deployment
  <1>9. QED
    BY <1>0, <1>6, <1>7, <1>8 DEF ReleaseInv

\* A deployment succeeds.
LEMMA Finish ==
  ASSUME IInv, NEW d \in Deployers, finish(d), UNCHANGED cutoverVars
  PROVE  ReleaseInv'
  <1> USE DeploymentAssumption, CutoverAssumption
  <1>0. deployer \in [Deployers -> Deployment] /\ ReleasesOK /\ MigrationOK
    BY DEF IInv, HostInv, ReleaseInv, TypeOK, DeployTypeOK
  <1>1. /\ deployer'[d].step \in {"idle", "released"}
        /\ \A e \in Deployers \ {d} : deployer'[e] = deployer[e]
        /\ UNCHANGED <<head, images, env, api, schema, fenced>>
    <2>1. CASE d = Service
      <3>1. deployer' = [deployer EXCEPT ![d].step = "released"]
        BY <2>1 DEF finish, Moves
      <3>2. deployer[d] \in Deployment
        BY <1>0
      <3>3. QED
        BY <1>0, <3>1, <3>2 DEF finish, Deployment
    <2>2. CASE d # Service
      BY <1>0, <2>2 DEF finish, Ends, NoDeployment
    <2>3. QED
      BY <2>1, <2>2
  <1>2. (\A e \in Deployers : DeploymentOK(e))'
    <2>1. DeploymentOK(d)'
      BY <1>1 DEF DeploymentOK, ReleaseSteps
    <2>2. ASSUME NEW e \in Deployers \ {d} PROVE DeploymentOK(e)'
      BY <1>1 DEF IInv, ReleaseInv, DeploymentOK
    <2>3. QED
      BY <2>1, <2>2
  <1>3. ReleasesOK'
    BY <1>0, <1>1 DEF ReleasesOK
  <1>4. MigrationOK'
    BY <1>0, <1>1 DEF MigrationOK, OnSource, At, NoWriter, ContentsOf, cutoverVars
  <1>5. QED
    BY <1>2, <1>3, <1>4 DEF ReleaseInv

\* The service writes its mark.
LEMMA Mark ==
  ASSUME IInv, mark, UNCHANGED cutoverVars
  PROVE  ReleaseInv'
  <1> USE DeploymentAssumption, CutoverAssumption DEF IInv, HostInv, ReleaseInv, mark, Ends,
      NoDeployment, cutoverVars
  <1>1. (\A e \in Deployers : DeploymentOK(e))'
    BY DEF DeploymentOK, Locks, NoneBeside, TypeOK, DeployTypeOK, Deployers, Deployment, Steps,
       ReleaseSteps, At
  <1>2. ReleasesOK'
    BY DEF ReleasesOK, TypeOK, DeployTypeOK, DeploymentOK, ReleaseSteps, Commits, NoCommit
  <1>3. MigrationOK'
    BY DEF MigrationOK, Locks, NoneBeside, DeploymentOK, TypeOK, DeployTypeOK, OnSource, At,
       NoWriter, ContentsOf, ReleaseSteps, CutoverSteps, Deployers
  <1>4. QED
    BY <1>1, <1>2, <1>3

\* A deployment ends at any step.
LEMMA Fails ==
  ASSUME IInv, NEW d \in Deployers, fails(d), UNCHANGED cutoverVars
  PROVE  ReleaseInv'
  <1> DEFINE r == deployer[d]
             next == NoDeployment
  <1> USE DeploymentAssumption, CutoverAssumption
  <1>0. HostInv /\ TypeOK /\ Locks /\ NoneBeside /\ DeploymentOK(d) /\ ReleasesOK /\ MigrationOK
    BY DEF IInv, HostInv, ReleaseInv, Deployers
  <1>1. r \in Deployment /\ r.step # "idle"
    BY <1>0 DEF TypeOK, DeployTypeOK, DeploymentOK, ReleaseSteps, Deployers, fails, Ends, Fault,
       NoDeployment
  <1>2. next \in Deployment /\ deployer' = [deployer EXCEPT ![d] = next]
    BY <1>0, <1>1 DEF TypeOK, DeployTypeOK, Deployment, Steps, ReleaseSteps, Deployers, fails,
       Ends, Fault, NoDeployment
  <1>3. /\ deployer' \in [Deployers -> Deployment]
        /\ deployer'[d] = next
        /\ \A e \in Deployers \ {d} : deployer'[e] = deployer[e]
    BY <1>0, <1>2, OneMoves DEF Deployers
  <1>4. deployer'[d].step = "idle"
    BY <1>1, <1>3 DEF NoDeployment, Deployment
  <1> HIDE DEF next
  <1>5. (\A e \in Deployers : DeploymentOK(e))'
    <2>1. DeploymentOK(d)'
      <3>1. DeploymentOK(d)
        BY <1>0
      <3>2. QED
        BY <1>1, <1>4, <3>1 DEF DeploymentOK, ReleaseSteps, NoCommit
    <2>2. ASSUME NEW e \in Deployers \ {d} PROVE DeploymentOK(e)'
      <3>1. DeploymentOK(e)
        BY DEF IInv, ReleaseInv
      <3>2. QED
        BY <1>0, <1>1, <1>3, <3>1 DEF DeploymentOK, ReleaseSteps, fails, Ends, Fault,
           NoDeployment
    <2>3. QED
      BY <2>1, <2>2
  <1>6. ReleasesOK'
    BY <1>0, <1>1 DEF ReleasesOK, TypeOK, DeployTypeOK, DeploymentOK, ReleaseSteps, NoCommit,
       fails, Ends, Fault, NoDeployment
  <1>7. MigrationOK'
    BY <1>0, <1>1 DEF MigrationOK, TypeOK, DeployTypeOK, OnSource, At, NoWriter, DeploymentOK,
       ContentsOf, cutoverVars, CutoverSteps, ReleaseSteps, fails, Ends, Fault, NoDeployment
  <1>8. QED
    BY <1>0, <1>5, <1>6, <1>7 DEF ReleaseInv

-----------------------------------------------------------------------------
(* Clients *)

\* A session takes over the mode of the source: none writes after the fence.
LEMMA Connect ==
  ASSUME IInv, NEW s \in Sessions, connect(s)
  PROVE  ReleaseInv'
  <1> USE DeploymentAssumption, CutoverAssumption DEF connect, Setting, Modes, deployVars
  <1>0. HostInv /\ TypeOK /\ Locks /\ NoneBeside /\ ReleasesOK /\ MigrationOK
    BY DEF IInv, HostInv, ReleaseInv
  <1>1. (\A e \in Deployers : DeploymentOK(e))'
    BY <1>0 DEF IInv, ReleaseInv, DeploymentOK, Locks, NoneBeside, At, CutoverSteps, ReleaseSteps
  <1>2. ReleasesOK'
    BY <1>0 DEF ReleasesOK, TypeOK, DeployTypeOK, MigrationOK, At, ContentsOf, OnSource
  <1>3. MigrationOK'
    BY <1>0 DEF MigrationOK, TypeOK, DeployTypeOK, Migration, Contents, OnSource, At, NoWriter,
       ContentsOf, PrepareSteps, CutoverSteps
  <1>4. QED
    BY <1>0, <1>1, <1>2, <1>3 DEF ReleaseInv

\* A session ends.
LEMMA Disconnect ==
  ASSUME IInv, NEW s \in Sessions, disconnect(s)
  PROVE  ReleaseInv'
  <1> USE DeploymentAssumption, CutoverAssumption DEF disconnect, Modes, deployVars
  <1>0. HostInv /\ TypeOK /\ Locks /\ NoneBeside /\ ReleasesOK /\ MigrationOK
    BY DEF IInv, HostInv, ReleaseInv
  <1>1. (\A e \in Deployers : DeploymentOK(e))'
    BY <1>0 DEF IInv, ReleaseInv, DeploymentOK, Locks, NoneBeside, At, CutoverSteps, ReleaseSteps
  <1>2. ReleasesOK'
    BY <1>0 DEF ReleasesOK, TypeOK, DeployTypeOK, MigrationOK, At, ContentsOf, OnSource
  <1>3. MigrationOK'
    BY <1>0 DEF MigrationOK, TypeOK, DeployTypeOK, Migration, Contents, OnSource, At, NoWriter,
       ContentsOf, PrepareSteps, CutoverSteps
  <1>4. QED
    BY <1>0, <1>1, <1>2, <1>3 DEF ReleaseInv

\* A row in the source, which is not fenced for this session.
LEMMA Commit ==
  ASSUME IInv, NEW s \in Sessions, NEW w \in Writes, commit(s, w)
  PROVE  ReleaseInv'
  <1> USE DeploymentAssumption, CutoverAssumption DEF commit, deployVars
  <1>0. HostInv /\ TypeOK /\ Locks /\ NoneBeside /\ ReleasesOK /\ MigrationOK
    BY DEF IInv, HostInv, ReleaseInv
  <1>1. (\A e \in Deployers : DeploymentOK(e))'
    BY <1>0 DEF IInv, ReleaseInv, DeploymentOK, Locks, NoneBeside, At, CutoverSteps, ReleaseSteps
  <1>2. ReleasesOK'
    BY <1>0 DEF ReleasesOK, TypeOK, DeployTypeOK, MigrationOK, At, ContentsOf, OnSource
  <1>3. MigrationOK'
    BY <1>0 DEF MigrationOK, TypeOK, DeployTypeOK, Migration, Contents, OnSource, At, NoWriter,
       ContentsOf, PrepareSteps, CutoverSteps
  <1>4. QED
    BY <1>0, <1>1, <1>2, <1>3 DEF ReleaseInv

\* A row in the new database, which is in use.
LEMMA CommitTarget ==
  ASSUME IInv, NEW w \in Writes, commit_target(w)
  PROVE  ReleaseInv'
  <1> USE DeploymentAssumption, CutoverAssumption DEF commit_target, deployVars
  <1>0. HostInv /\ TypeOK /\ Locks /\ NoneBeside /\ ReleasesOK /\ MigrationOK
    BY DEF IInv, HostInv, ReleaseInv
  <1>1. (\A e \in Deployers : DeploymentOK(e))'
    BY <1>0 DEF IInv, ReleaseInv, DeploymentOK, Locks, NoneBeside, At, CutoverSteps, ReleaseSteps
  <1>2. ReleasesOK'
    BY <1>0 DEF ReleasesOK, TypeOK, DeployTypeOK, MigrationOK, At, ContentsOf, OnSource
  <1>3. MigrationOK'
    BY <1>0 DEF MigrationOK, TypeOK, DeployTypeOK, Migration, Contents, OnSource, At, NoWriter,
       ContentsOf, PrepareSteps, CutoverSteps
  <1>4. QED
    BY <1>0, <1>1, <1>2, <1>3 DEF ReleaseInv

-----------------------------------------------------------------------------
(* prepare *)

\* A trial begins.
LEMMA Prepare ==
  ASSUME IInv, prepare
  PROVE  ReleaseInv'
  <1> USE DeploymentAssumption, CutoverAssumption DEF prepare, Goes, Artifacts, deployVars
  <1>0. HostInv /\ TypeOK /\ Locks /\ NoneBeside /\ ReleasesOK /\ MigrationOK
    BY DEF IInv, HostInv, ReleaseInv
  <1>1. (\A e \in Deployers : DeploymentOK(e))'
    BY <1>0 DEF IInv, ReleaseInv, DeploymentOK, Locks, NoneBeside, At, CutoverSteps, ReleaseSteps
  <1>2. ReleasesOK'
    BY <1>0 DEF ReleasesOK, TypeOK, DeployTypeOK, MigrationOK, At, ContentsOf, OnSource
  <1>3. MigrationOK'
    BY <1>0 DEF MigrationOK, TypeOK, DeployTypeOK, Migration, Contents, OnSource, At, NoWriter,
       ContentsOf, PrepareSteps, CutoverSteps
  <1>4. QED
    BY <1>0, <1>1, <1>2, <1>3 DEF ReleaseInv

\* The role exists.
LEMMA CreateRole ==
  ASSUME IInv, create_role
  PROVE  ReleaseInv'
  <1> USE DeploymentAssumption, CutoverAssumption DEF create_role, Goes, Artifacts, deployVars
  <1>0. HostInv /\ TypeOK /\ Locks /\ NoneBeside /\ ReleasesOK /\ MigrationOK
    BY DEF IInv, HostInv, ReleaseInv
  <1>1. (\A e \in Deployers : DeploymentOK(e))'
    BY <1>0 DEF IInv, ReleaseInv, DeploymentOK, Locks, NoneBeside, At, CutoverSteps, ReleaseSteps
  <1>2. ReleasesOK'
    BY <1>0 DEF ReleasesOK, TypeOK, DeployTypeOK, MigrationOK, At, ContentsOf, OnSource
  <1>3. MigrationOK'
    BY <1>0 DEF MigrationOK, TypeOK, DeployTypeOK, Migration, Contents, OnSource, At, NoWriter,
       ContentsOf, PrepareSteps, CutoverSteps
  <1>4. QED
    BY <1>0, <1>1, <1>2, <1>3 DEF ReleaseInv

\* The trial is dumped.
LEMMA DumpTrial ==
  ASSUME IInv, dump_trial
  PROVE  ReleaseInv'
  <1> USE DeploymentAssumption, CutoverAssumption DEF dump_trial, Contents, deployVars
  <1>0. HostInv /\ TypeOK /\ Locks /\ NoneBeside /\ ReleasesOK /\ MigrationOK
    BY DEF IInv, HostInv, ReleaseInv
  <1>1. (\A e \in Deployers : DeploymentOK(e))'
    BY <1>0 DEF IInv, ReleaseInv, DeploymentOK, Locks, NoneBeside, At, CutoverSteps, ReleaseSteps
  <1>2. ReleasesOK'
    BY <1>0 DEF ReleasesOK, TypeOK, DeployTypeOK, MigrationOK, At, ContentsOf, OnSource
  <1>3. MigrationOK'
    BY <1>0 DEF MigrationOK, TypeOK, DeployTypeOK, Migration, Contents, OnSource, At, NoWriter,
       ContentsOf, PrepareSteps, CutoverSteps
  <1>4. QED
    BY <1>0, <1>1, <1>2, <1>3 DEF ReleaseInv

\* The trial is compared.
LEMMA VerifyTrial ==
  ASSUME IInv, verify_trial
  PROVE  ReleaseInv'
  <1> USE DeploymentAssumption, CutoverAssumption DEF verify_trial, Over, Artifacts, NoMigration,
      Nothing, deployVars
  <1>0. HostInv /\ TypeOK /\ Locks /\ NoneBeside /\ ReleasesOK /\ MigrationOK
    BY DEF IInv, HostInv, ReleaseInv
  <1>1. (\A e \in Deployers : DeploymentOK(e))'
    BY <1>0 DEF IInv, ReleaseInv, DeploymentOK, Locks, NoneBeside, At, CutoverSteps, ReleaseSteps
  <1>2. ReleasesOK'
    BY <1>0 DEF ReleasesOK, TypeOK, DeployTypeOK, MigrationOK, At, ContentsOf, OnSource
  <1>3. MigrationOK'
    BY <1>0 DEF MigrationOK, TypeOK, DeployTypeOK, Migration, Contents, OnSource, At, NoWriter,
       ContentsOf, PrepareSteps, CutoverSteps
  <1>4. QED
    BY <1>0, <1>1, <1>2, <1>3 DEF ReleaseInv

-----------------------------------------------------------------------------
(* cutover *)

\* A cutover begins: no deployment is under way, and none begins.
LEMMA StartCutover ==
  ASSUME IInv, cutover
  PROVE  ReleaseInv'
  <1> USE DeploymentAssumption, CutoverAssumption DEF cutover, Goes, deployVars
  <1>0. HostInv /\ TypeOK /\ Locks /\ NoneBeside /\ ReleasesOK /\ MigrationOK
    BY DEF IInv, HostInv, ReleaseInv
  <1>1. (\A e \in Deployers : DeploymentOK(e))'
    BY <1>0 DEF IInv, ReleaseInv, DeploymentOK, Locks, NoneBeside, At, CutoverSteps, ReleaseSteps
  <1>2. ReleasesOK'
    BY <1>0 DEF ReleasesOK, TypeOK, DeployTypeOK, MigrationOK, At, ContentsOf, OnSource
  <1>3. MigrationOK'
    BY <1>0 DEF MigrationOK, TypeOK, DeployTypeOK, Migration, Contents, OnSource, At, NoWriter,
       ContentsOf, PrepareSteps, CutoverSteps
  <1>4. QED
    BY <1>0, <1>1, <1>2, <1>3 DEF ReleaseInv

\* The settings of the source are saved.
LEMMA SaveOriginal ==
  ASSUME IInv, save_original
  PROVE  ReleaseInv'
  <1> USE DeploymentAssumption, CutoverAssumption DEF save_original, Goes, Setting, Modes,
      deployVars
  <1>0. HostInv /\ TypeOK /\ Locks /\ NoneBeside /\ ReleasesOK /\ MigrationOK
    BY DEF IInv, HostInv, ReleaseInv
  <1>1. (\A e \in Deployers : DeploymentOK(e))'
    BY <1>0 DEF IInv, ReleaseInv, DeploymentOK, Locks, NoneBeside, At, CutoverSteps, ReleaseSteps
  <1>2. ReleasesOK'
    BY <1>0 DEF ReleasesOK, TypeOK, DeployTypeOK, MigrationOK, At, ContentsOf, OnSource
  <1>3. MigrationOK'
    BY <1>0 DEF MigrationOK, TypeOK, DeployTypeOK, Migration, Contents, OnSource, At, NoWriter,
       ContentsOf, PrepareSteps, CutoverSteps
  <1>4. QED
    BY <1>0, <1>1, <1>2, <1>3 DEF ReleaseInv

\* The copy of .env is saved, .env still names the source.
LEMMA SaveEnv ==
  ASSUME IInv, save_env
  PROVE  ReleaseInv'
  <1> USE DeploymentAssumption, CutoverAssumption DEF save_env, Goes, Artifacts, deployVars
  <1>0. HostInv /\ TypeOK /\ Locks /\ NoneBeside /\ ReleasesOK /\ MigrationOK
    BY DEF IInv, HostInv, ReleaseInv
  <1>1. (\A e \in Deployers : DeploymentOK(e))'
    BY <1>0 DEF IInv, ReleaseInv, DeploymentOK, Locks, NoneBeside, At, CutoverSteps, ReleaseSteps
  <1>2. ReleasesOK'
    BY <1>0 DEF ReleasesOK, TypeOK, DeployTypeOK, MigrationOK, At, ContentsOf, OnSource
  <1>3. MigrationOK'
    BY <1>0 DEF MigrationOK, TypeOK, DeployTypeOK, Migration, Contents, OnSource, At, NoWriter,
       ContentsOf, PrepareSteps, CutoverSteps
  <1>4. QED
    BY <1>0, <1>1, <1>2, <1>3 DEF ReleaseInv

\* A later attempt is refused.
LEMMA AlreadyStarted ==
  ASSUME IInv, already_started
  PROVE  ReleaseInv'
  <1> USE DeploymentAssumption, CutoverAssumption DEF already_started, Over, NoMigration,
      Nothing, deployVars
  <1>0. HostInv /\ TypeOK /\ Locks /\ NoneBeside /\ ReleasesOK /\ MigrationOK
    BY DEF IInv, HostInv, ReleaseInv
  <1>1. (\A e \in Deployers : DeploymentOK(e))'
    BY <1>0 DEF IInv, ReleaseInv, DeploymentOK, Locks, NoneBeside, At, CutoverSteps, ReleaseSteps
  <1>2. ReleasesOK'
    BY <1>0 DEF ReleasesOK, TypeOK, DeployTypeOK, MigrationOK, At, ContentsOf, OnSource
  <1>3. MigrationOK'
    BY <1>0 DEF MigrationOK, TypeOK, DeployTypeOK, Migration, Contents, OnSource, At, NoWriter,
       ContentsOf, PrepareSteps, CutoverSteps
  <1>4. QED
    BY <1>0, <1>1, <1>2, <1>3 DEF ReleaseInv

\* The source is read-only for the sessions to come.
LEMMA Fence ==
  ASSUME IInv, fence
  PROVE  ReleaseInv'
  <1> USE DeploymentAssumption, CutoverAssumption DEF fence, Goes, deployVars
  <1>0. HostInv /\ TypeOK /\ Locks /\ NoneBeside /\ ReleasesOK /\ MigrationOK
    BY DEF IInv, HostInv, ReleaseInv
  <1>1. (\A e \in Deployers : DeploymentOK(e))'
    BY <1>0 DEF IInv, ReleaseInv, DeploymentOK, Locks, NoneBeside, At, CutoverSteps, ReleaseSteps
  <1>2. ReleasesOK'
    BY <1>0 DEF ReleasesOK, TypeOK, DeployTypeOK, MigrationOK, At, ContentsOf, OnSource
  <1>3. MigrationOK'
    BY <1>0 DEF MigrationOK, TypeOK, DeployTypeOK, Migration, Contents, OnSource, At, NoWriter,
       ContentsOf, PrepareSteps, CutoverSteps
  <1>4. QED
    BY <1>0, <1>1, <1>2, <1>3 DEF ReleaseInv

\* Nobody writes to the source any more.
LEMMA TerminateSessions ==
  ASSUME IInv, terminate_sessions
  PROVE  ReleaseInv'
  <1> USE DeploymentAssumption, CutoverAssumption DEF terminate_sessions, Goes, Modes, deployVars
  <1>0. HostInv /\ TypeOK /\ Locks /\ NoneBeside /\ ReleasesOK /\ MigrationOK
    BY DEF IInv, HostInv, ReleaseInv
  <1>1. (\A e \in Deployers : DeploymentOK(e))'
    BY <1>0 DEF IInv, ReleaseInv, DeploymentOK, Locks, NoneBeside, At, CutoverSteps, ReleaseSteps
  <1>2. ReleasesOK'
    BY <1>0 DEF ReleasesOK, TypeOK, DeployTypeOK, MigrationOK, At, ContentsOf, OnSource
  <1>3. MigrationOK'
    BY <1>0 DEF MigrationOK, TypeOK, DeployTypeOK, Migration, Contents, OnSource, At, NoWriter,
       ContentsOf, PrepareSteps, CutoverSteps
  <1>4. QED
    BY <1>0, <1>1, <1>2, <1>3 DEF ReleaseInv

\* The snapshot is what the source holds.
LEMMA TakeSnapshot ==
  ASSUME IInv, take_snapshot
  PROVE  ReleaseInv'
  <1> USE DeploymentAssumption, CutoverAssumption DEF take_snapshot, Contents, deployVars
  <1>0. HostInv /\ TypeOK /\ Locks /\ NoneBeside /\ ReleasesOK /\ MigrationOK
    BY DEF IInv, HostInv, ReleaseInv
  <1>1. (\A e \in Deployers : DeploymentOK(e))'
    BY <1>0 DEF IInv, ReleaseInv, DeploymentOK, Locks, NoneBeside, At, CutoverSteps, ReleaseSteps
  <1>2. ReleasesOK'
    BY <1>0 DEF ReleasesOK, TypeOK, DeployTypeOK, MigrationOK, At, ContentsOf, OnSource
  <1>3. MigrationOK'
    BY <1>0 DEF MigrationOK, TypeOK, DeployTypeOK, Migration, Contents, OnSource, At, NoWriter,
       ContentsOf, PrepareSteps, CutoverSteps
  <1>4. QED
    BY <1>0, <1>1, <1>2, <1>3 DEF ReleaseInv

\* The dump is what the source holds.
LEMMA Dump ==
  ASSUME IInv, dump
  PROVE  ReleaseInv'
  <1> USE DeploymentAssumption, CutoverAssumption DEF dump, Contents, deployVars
  <1>0. HostInv /\ TypeOK /\ Locks /\ NoneBeside /\ ReleasesOK /\ MigrationOK
    BY DEF IInv, HostInv, ReleaseInv
  <1>1. (\A e \in Deployers : DeploymentOK(e))'
    BY <1>0 DEF IInv, ReleaseInv, DeploymentOK, Locks, NoneBeside, At, CutoverSteps, ReleaseSteps
  <1>2. ReleasesOK'
    BY <1>0 DEF ReleasesOK, TypeOK, DeployTypeOK, MigrationOK, At, ContentsOf, OnSource
  <1>3. MigrationOK'
    BY <1>0 DEF MigrationOK, TypeOK, DeployTypeOK, Migration, Contents, OnSource, At, NoWriter,
       ContentsOf, PrepareSteps, CutoverSteps
  <1>4. QED
    BY <1>0, <1>1, <1>2, <1>3 DEF ReleaseInv

\* The new database holds what the source holds.
LEMMA Restore ==
  ASSUME IInv, restore
  PROVE  ReleaseInv'
  <1> USE DeploymentAssumption, CutoverAssumption DEF restore, Goes, Contents, deployVars
  <1>0. HostInv /\ TypeOK /\ Locks /\ NoneBeside /\ ReleasesOK /\ MigrationOK
    BY DEF IInv, HostInv, ReleaseInv
  <1>1. (\A e \in Deployers : DeploymentOK(e))'
    BY <1>0 DEF IInv, ReleaseInv, DeploymentOK, Locks, NoneBeside, At, CutoverSteps, ReleaseSteps
  <1>2. ReleasesOK'
    BY <1>0 DEF ReleasesOK, TypeOK, DeployTypeOK, MigrationOK, At, ContentsOf, OnSource
  <1>3. MigrationOK'
    BY <1>0 DEF MigrationOK, TypeOK, DeployTypeOK, Migration, Contents, OnSource, At, NoWriter,
       ContentsOf, PrepareSteps, CutoverSteps
  <1>4. QED
    BY <1>0, <1>1, <1>2, <1>3 DEF ReleaseInv

\* The new database is compared.
LEMMA Verify ==
  ASSUME IInv, verify
  PROVE  ReleaseInv'
  <1> USE DeploymentAssumption, CutoverAssumption DEF verify, Goes, deployVars
  <1>0. HostInv /\ TypeOK /\ Locks /\ NoneBeside /\ ReleasesOK /\ MigrationOK
    BY DEF IInv, HostInv, ReleaseInv
  <1>1. (\A e \in Deployers : DeploymentOK(e))'
    BY <1>0 DEF IInv, ReleaseInv, DeploymentOK, Locks, NoneBeside, At, CutoverSteps, ReleaseSteps
  <1>2. ReleasesOK'
    BY <1>0 DEF ReleasesOK, TypeOK, DeployTypeOK, MigrationOK, At, ContentsOf, OnSource
  <1>3. MigrationOK'
    BY <1>0 DEF MigrationOK, TypeOK, DeployTypeOK, Migration, Contents, OnSource, At, NoWriter,
       ContentsOf, PrepareSteps, CutoverSteps
  <1>4. QED
    BY <1>0, <1>1, <1>2, <1>3 DEF ReleaseInv

\* A database without an owner or a copy that differs ends the script.
LEMMA CutoverRefused ==
  ASSUME IInv, cutover_refused
  PROVE  ReleaseInv'
  <1> USE DeploymentAssumption, CutoverAssumption DEF cutover_refused, CanGoOn, Over,
      NoMigration, Nothing, deployVars
  <1>0. HostInv /\ TypeOK /\ Locks /\ NoneBeside /\ ReleasesOK /\ MigrationOK
    BY DEF IInv, HostInv, ReleaseInv
  <1>1. (\A e \in Deployers : DeploymentOK(e))'
    BY <1>0 DEF IInv, ReleaseInv, DeploymentOK, Locks, NoneBeside, At, CutoverSteps, ReleaseSteps
  <1>2. ReleasesOK'
    BY <1>0 DEF ReleasesOK, TypeOK, DeployTypeOK, MigrationOK, At, ContentsOf, OnSource
  <1>3. MigrationOK'
    BY <1>0 DEF MigrationOK, TypeOK, DeployTypeOK, Migration, Contents, OnSource, At, NoWriter,
       ContentsOf, PrepareSteps, CutoverSteps
  <1>4. QED
    BY <1>0, <1>1, <1>2, <1>3 DEF ReleaseInv

\* .env.db-switch repeats the tag of .env, which nobody changes now.
LEMMA WriteSwitch ==
  ASSUME IInv, write_switch
  PROVE  ReleaseInv'
  <1> USE DeploymentAssumption, CutoverAssumption DEF write_switch, deployVars
  <1>0. HostInv /\ TypeOK /\ Locks /\ NoneBeside /\ ReleasesOK /\ MigrationOK
    BY DEF IInv, HostInv, ReleaseInv
  <1>1. (\A e \in Deployers : DeploymentOK(e))'
    BY <1>0 DEF IInv, ReleaseInv, DeploymentOK, Locks, NoneBeside, At, CutoverSteps, ReleaseSteps
  <1>2. ReleasesOK'
    BY <1>0 DEF ReleasesOK, TypeOK, DeployTypeOK, MigrationOK, At, ContentsOf, OnSource
  <1>3. MigrationOK'
    BY <1>0 DEF MigrationOK, TypeOK, DeployTypeOK, Migration, Contents, OnSource, At, NoWriter,
       ContentsOf, PrepareSteps, CutoverSteps
  <1>4. QED
    BY <1>0, <1>1, <1>2, <1>3 DEF ReleaseInv

\* .env names the new database, which holds what the source holds.
LEMMA Switch ==
  ASSUME IInv, switch
  PROVE  ReleaseInv'
  <1> USE DeploymentAssumption, CutoverAssumption
  <1>0. HostInv /\ TypeOK /\ Locks /\ NoneBeside /\ ReleasesOK /\ MigrationOK
    BY DEF IInv, HostInv, ReleaseInv
  <1>1. /\ At("writing")
        /\ env' = [tag |-> migration.tag, db |-> Target]
        /\ migration' = [migration EXCEPT !.step = "switched"]
        /\ UNCHANGED <<main, passed, head, leftover, images, api, schema, fenced, marker, timer,
                       host_lock, deployer, faults, rows, session, files, original>>
    BY DEF switch, Goes
  <1>2. migration.tag = env.tag /\ env.tag \in Commits /\ OnSource /\ NoWriter /\ Source \in fenced
    BY <1>0, <1>1 DEF MigrationOK, TypeOK, DeployTypeOK, At
  <1>3. rows[Target] = rows[Source] /\ schema[Target] = schema[Source]
    BY <1>0, <1>1 DEF MigrationOK, ContentsOf, At
  <1>4. /\ env'.tag = env.tag
        /\ env'.db = Target
        /\ env' \in [tag : Commits, db : Databases]
    BY <1>1, <1>2
  <1>5. migration.step = "writing" /\ migration'.step = "switched" /\ migration' \in Migration
    BY <1>0, <1>1 DEF TypeOK, At, Migration, CutoverSteps
  <1>6. (\A e \in Deployers : DeploymentOK(e))'
    BY <1>0, <1>1, <1>5 DEF IInv, ReleaseInv, DeploymentOK, Locks, NoneBeside, At, CutoverSteps,
       ReleaseSteps
  <1>7. ReleasesOK'
    BY <1>0, <1>1, <1>2, <1>3, <1>4 DEF ReleasesOK, OnSource
  <1>8. MigrationOK'
    <2>1. NoWriter'
      BY <1>1, <1>2 DEF NoWriter
    <2>2. "app.env.before" \in files
      BY <1>0, <1>5 DEF MigrationOK, CutoverSteps
    <2>3. QED
      BY <1>0, <1>1, <1>2, <1>3, <1>4, <1>5, <2>1, <2>2 DEF MigrationOK, OnSource, At,
         CutoverSteps
  <1>9. QED
    BY <1>0, <1>6, <1>7, <1>8 DEF ReleaseInv

\* The API runs on the database that .env names.
LEMMA Recreate ==
  ASSUME IInv, recreate(TRUE)
  PROVE  ReleaseInv'
  <1> USE DeploymentAssumption, CutoverAssumption DEF recreate, Goes, Container, deployVars
  <1>0. HostInv /\ TypeOK /\ Locks /\ NoneBeside /\ ReleasesOK /\ MigrationOK
    BY DEF IInv, HostInv, ReleaseInv
  <1>1. api'.db = env.db /\ api'.code = env.tag
    BY <1>0 DEF TypeOK, DeployTypeOK, ReleasesOK
  <1>2. (\A e \in Deployers : DeploymentOK(e))'
    BY <1>0 DEF IInv, ReleaseInv, DeploymentOK, Locks, NoneBeside, At, CutoverSteps, ReleaseSteps
  <1>3. ReleasesOK'
    BY <1>0 DEF ReleasesOK, TypeOK, DeployTypeOK, MigrationOK, At, ContentsOf, OnSource
  <1>4. MigrationOK'
    BY <1>0, <1>1 DEF MigrationOK, TypeOK, DeployTypeOK, Migration, Contents, OnSource, At,
       NoWriter, ContentsOf, PrepareSteps, CutoverSteps
  <1>5. QED
    BY <1>0, <1>2, <1>3, <1>4 DEF ReleaseInv

\* The API was replaced, and the cutover fails.
LEMMA RecreateUnhealthy ==
  ASSUME IInv, recreate(FALSE)
  PROVE  ReleaseInv'
  <1> USE DeploymentAssumption, CutoverAssumption DEF recreate, Over, Fault, Container,
      NoMigration, Nothing, deployVars
  <1>0. HostInv /\ TypeOK /\ Locks /\ NoneBeside /\ ReleasesOK /\ MigrationOK
    BY DEF IInv, HostInv, ReleaseInv
  <1>1. api'.db = env.db /\ api'.code = env.tag
    BY <1>0 DEF TypeOK, DeployTypeOK, ReleasesOK
  <1>2. migration' = NoMigration
    OBVIOUS
  <1>3. (\A e \in Deployers : DeploymentOK(e))'
    BY <1>0 DEF IInv, ReleaseInv, DeploymentOK, Locks, NoneBeside, At, CutoverSteps, ReleaseSteps
  <1>4. ReleasesOK'
    BY <1>0 DEF ReleasesOK, TypeOK, DeployTypeOK, MigrationOK, At, ContentsOf, OnSource
  <1>5. MigrationOK'
    BY <1>0, <1>1, <1>2 DEF MigrationOK, TypeOK, DeployTypeOK, Migration, Contents, OnSource, At,
       NoWriter, ContentsOf, PrepareSteps, CutoverSteps
  <1>6. QED
    BY <1>0, <1>3, <1>4, <1>5 DEF ReleaseInv

\* The cutover is complete.
LEMMA Complete ==
  ASSUME IInv, complete
  PROVE  ReleaseInv'
  <1> USE DeploymentAssumption, CutoverAssumption DEF complete, Over, Artifacts, NoMigration,
      Nothing, deployVars
  <1>0. HostInv /\ TypeOK /\ Locks /\ NoneBeside /\ ReleasesOK /\ MigrationOK
    BY DEF IInv, HostInv, ReleaseInv
  <1>1. (\A e \in Deployers : DeploymentOK(e))'
    BY <1>0 DEF IInv, ReleaseInv, DeploymentOK, Locks, NoneBeside, At, CutoverSteps, ReleaseSteps
  <1>2. ReleasesOK'
    BY <1>0 DEF ReleasesOK, TypeOK, DeployTypeOK, MigrationOK, At, ContentsOf, OnSource
  <1>3. MigrationOK'
    BY <1>0 DEF MigrationOK, TypeOK, DeployTypeOK, Migration, Contents, OnSource, At, NoWriter,
       ContentsOf, PrepareSteps, CutoverSteps
  <1>4. QED
    BY <1>0, <1>1, <1>2, <1>3 DEF ReleaseInv

\* The script ends at any step.
LEMMA MigrationFails ==
  ASSUME IInv, migration_fails
  PROVE  ReleaseInv'
  <1> USE DeploymentAssumption, CutoverAssumption DEF migration_fails, Over, Fault, NoMigration,
      Nothing, deployVars
  <1>0. HostInv /\ TypeOK /\ Locks /\ NoneBeside /\ ReleasesOK /\ MigrationOK
    BY DEF IInv, HostInv, ReleaseInv
  <1>1. (\A e \in Deployers : DeploymentOK(e))'
    BY <1>0 DEF IInv, ReleaseInv, DeploymentOK, Locks, NoneBeside, At, CutoverSteps, ReleaseSteps
  <1>2. ReleasesOK'
    BY <1>0 DEF ReleasesOK, TypeOK, DeployTypeOK, MigrationOK, At, ContentsOf, OnSource
  <1>3. MigrationOK'
    BY <1>0 DEF MigrationOK, TypeOK, DeployTypeOK, Migration, Contents, OnSource, At,
       NoWriter, ContentsOf, PrepareSteps, CutoverSteps
  <1>4. QED
    BY <1>0, <1>1, <1>2, <1>3 DEF ReleaseInv

\* The script dies at any step.
LEMMA MigrationDies ==
  ASSUME IInv, migration_dies
  PROVE  ReleaseInv'
  <1> USE DeploymentAssumption, CutoverAssumption DEF migration_dies, Fault, NoMigration,
      Nothing, deployVars
  <1>0. HostInv /\ TypeOK /\ Locks /\ NoneBeside /\ ReleasesOK /\ MigrationOK
    BY DEF IInv, HostInv, ReleaseInv
  <1>1. (\A e \in Deployers : DeploymentOK(e))'
    BY <1>0 DEF IInv, ReleaseInv, DeploymentOK, Locks, NoneBeside, At, CutoverSteps, ReleaseSteps
  <1>2. ReleasesOK'
    BY <1>0 DEF ReleasesOK, TypeOK, DeployTypeOK, MigrationOK, At, ContentsOf, OnSource
  <1>3. MigrationOK'
    BY <1>0 DEF MigrationOK, TypeOK, DeployTypeOK, Migration, Contents, OnSource, At,
       NoWriter, ContentsOf, PrepareSteps, CutoverSteps
  <1>4. QED
    BY <1>0, <1>1, <1>2, <1>3 DEF ReleaseInv

\* The host starts again.
LEMMA Reboot ==
  ASSUME IInv, reboot
  PROVE  ReleaseInv'
  <1> USE DeploymentAssumption, CutoverAssumption DEF reboot, cutoverVars, deployVars
  <1>0. HostInv /\ TypeOK /\ Locks /\ NoneBeside /\ ReleasesOK /\ MigrationOK
    BY DEF IInv, HostInv, ReleaseInv
  <1>1. (\A e \in Deployers : DeploymentOK(e))'
    BY <1>0 DEF IInv, ReleaseInv, DeploymentOK, Locks, NoneBeside, At, CutoverSteps, ReleaseSteps
  <1>2. ReleasesOK'
    BY <1>0 DEF ReleasesOK, TypeOK, DeployTypeOK, MigrationOK, At, ContentsOf, OnSource
  <1>3. MigrationOK'
    BY <1>0 DEF MigrationOK, TypeOK, DeployTypeOK, Migration, Contents, OnSource, At, NoWriter,
       ContentsOf, PrepareSteps, CutoverSteps
  <1>4. QED
    BY <1>0, <1>1, <1>2, <1>3 DEF ReleaseInv

-----------------------------------------------------------------------------
(* The invariant *)

\* No step breaks the invariant.
LEMMA Inductive == ASSUME IInv, [Next /\ Orderly]_vars PROVE ReleaseInv'
  <1>1. CASE Deploying /\ HeadStill
    <2> USE <1>1 DEF Deploying
    <2>1. CASE push
      BY <2>1, Push
    <2>2. CASE \E c \in Commits : ci_succeeds(c)
      BY <2>2, CiSucceeds
    <2>3. CASE \E c \in Commits : operator_checkout(c)
      BY <2>3, OperatorCheckout
    <2>4. CASE deploy
      BY <2>4, DeployChosen
    <2>5. CASE checkout_target
      BY <2>5, CheckoutTarget
    <2>6. CASE lock_refused
      BY <2>6, LockRefused
    <2>7. CASE \E d \in Deployers : read_tag(d)
      BY <2>7, ReadTag
    <2>8. CASE \E d \in Deployers : Release(d)
      BY <2>8, Build, Migrate, MigrateRefused, Up, WriteRelease, RecordRelease, Finish DEF
         Release
    <2>9. CASE \E d \in Deployers : up(d, FALSE)
      BY <2>9, UpUnhealthy
    <2>10. CASE \E d \in Deployers : fails(d)
      BY <2>10, Fails
    <2>11. CASE mark
      BY <2>11, Mark
    <2>12. QED
      BY <2>1, <2>2, <2>3, <2>4, <2>5, <2>6, <2>7, <2>8, <2>9, <2>10, <2>11 DEF DeployNext
  <1>2. CASE Clients
    BY <1>2, Connect, Disconnect, Commit, CommitTarget DEF Clients
  <1>3. CASE Preparing
    BY <1>3, Prepare, CreateRole, DumpTrial, VerifyTrial DEF Preparing
  <1>4. CASE CuttingOver
    <2>1. CASE \E healthy \in BOOLEAN : recreate(healthy)
      BY <2>1, Recreate, RecreateUnhealthy
    <2>2. CASE ~\E healthy \in BOOLEAN : recreate(healthy)
      BY <1>4, <2>2, StartCutover, SaveOriginal, SaveEnv, AlreadyStarted, Fence, TerminateSessions,
         TakeSnapshot, Dump, Restore, Verify, CutoverRefused, WriteSwitch, Switch, Complete
         DEF CuttingOver
    <2>3. QED
      BY <2>1, <2>2
  <1>5. CASE migration_fails
    BY <1>5, MigrationFails
  <1>6. CASE migration_dies
    BY <1>6, MigrationDies
  <1>7. CASE reboot
    BY <1>7, Reboot
  <1>8. CASE UNCHANGED vars
    <2> USE <1>8 DEF IInv, ReleaseInv, vars, deployVars, cutoverVars
    <2>1. ReleasesOK' /\ (\A d \in Deployers : DeploymentOK(d))'
      BY DEF ReleasesOK, DeploymentOK
    <2>2. MigrationOK'
      BY DEF MigrationOK, At, OnSource, NoWriter, ContentsOf
    <2>3. QED
      BY <2>1, <2>2
  <1>9. QED
    BY <1>1, <1>2, <1>3, <1>4, <1>5, <1>6, <1>7, <1>8 DEF Next, Orderly

\* The invariant holds always, when operators keep to the assumptions.
LEMMA Invariant == OrderlySpec => []IInv
  <1>1. Init => IInv
    BY InitOK
  <1>2. IInv /\ HostInv' /\ [Next /\ Orderly]_vars => IInv'
    <2>1. CASE UNCHANGED vars
      BY <2>1, Inductive DEF IInv, NoneBeside, vars, deployVars, cutoverVars
    <2>2. CASE Next /\ Orderly
      BY <2>2, Inductive, NoneBesideNext DEF IInv, Orderly
    <2>3. QED
      BY <2>1, <2>2
  <1>3. OrderlySpec => Spec
    BY PTL DEF OrderlySpec, Spec
  <1>4. QED
    BY <1>1, <1>2, <1>3, HostInvariant, PTL DEF OrderlySpec

-----------------------------------------------------------------------------
(* Theorems *)

\* The variables of the releases and of the migration have their types, also when operators
\* and the service overlap: in particular every image in use has code of a commit.
THEOREM TypeCorrect == Spec => []TypeOK
  <1>1. HostInv => TypeOK
    BY DEF HostInv
  <1>2. QED
    BY <1>1, HostInvariant, PTL

\* The API never runs code that is ahead of its database, whatever fails, when HEAD keeps
\* still for deploy.sh and nobody releases by hand during a cutover.
THEOREM SchemaIsReady == OrderlySpec => []SchemaReady
  <1>1. IInv => SchemaReady
    BY DEF IInv, ReleaseInv, ReleasesOK, SchemaReady
  <1>2. QED
    BY <1>1, Invariant, PTL

\* .env follows the container: only deploy.sh writes a new tag there.
LEMMA TagStep ==
  ASSUME IInv, [Next]_vars, env'.tag # env.tag
  PROVE  env'.tag = api.tag
  <1>1. (\E d \in Deployers : record_release(d)) \/ switch
    BY DEF Next, Deploying, DeployNext, push, ci_succeeds, operator_checkout, deploy,
       checkout_target, lock_refused, read_tag, Release, build, migrate, migrate_refused, up,
       write_release, finish, mark, fails, Clients, connect, disconnect, commit, commit_target,
       Preparing, prepare, create_role, dump_trial, verify_trial, CuttingOver, cutover,
       save_original, save_env, already_started, fence, terminate_sessions, take_snapshot, dump,
       restore, verify, cutover_refused, write_switch, recreate, complete, migration_fails,
       migration_dies, reboot, deployVars, vars
  <1>2. CASE switch
    BY <1>2 DEF switch, IInv, ReleaseInv, MigrationOK, At
  <1>3. ASSUME NEW d \in Deployers, record_release(d) PROVE env'.tag = api.tag
    <2>1. DeploymentOK(d) /\ deployer[d].step = "writing" /\ env'.tag = deployer[d].tag
      BY <1>3 DEF IInv, ReleaseInv, record_release
    <2>2. QED
      BY <2>1 DEF DeploymentOK
  <1>4. QED
    BY <1>1, <1>2, <1>3

\* .env names another release only when that release runs, under the same assumptions.
THEOREM TagIsRunning == OrderlySpec => TagOfRunning
  <1>1. IInv /\ [Next /\ Orderly]_vars => [env'.tag # env.tag => env'.tag = api.tag]_vars
    BY TagStep
  <1>2. QED
    BY <1>1, Invariant, PTL DEF OrderlySpec, TagOfRunning

\* A container that is replaced reads the same rows in its database.
LEMMA SameRows ==
  ASSUME IInv, api'.db = env.db, rows' = rows
  PROVE  rows[api.db]' = rows[api.db]
  BY DEF IInv, ReleaseInv, MigrationOK

\* A step commits one row in the database of the API, or leaves its rows alone.
LEMMA StoreStep == ASSUME IInv, [Next]_vars PROVE [Store!Next]_(rows[api.db])
  <1> USE DEF Store!Next, Store!Commit
  <1>1. \/ rows' = rows /\ api' = api
        \/ \E d \in Deployers, healthy \in BOOLEAN : up(d, healthy) /\ UNCHANGED cutoverVars
        \/ \E healthy \in BOOLEAN : recreate(healthy)
        \/ \E s \in Sessions, w \in Writes : commit(s, w)
        \/ \E w \in Writes : commit_target(w)
        \/ restore
    BY DEF Next, Deploying, DeployNext, push, ci_succeeds, operator_checkout, deploy,
       checkout_target, lock_refused, read_tag, Release, build, migrate, migrate_refused,
       write_release, record_release, finish, mark, fails, Clients, connect, disconnect, Preparing,
       prepare, create_role, dump_trial, verify_trial, CuttingOver, cutover, save_original,
       save_env, already_started, fence, terminate_sessions, take_snapshot, dump, verify,
       cutover_refused, write_switch, switch, complete, migration_fails, migration_dies, reboot,
       deployVars,
       cutoverVars, vars
  <1>2. CASE rows' = rows /\ api' = api
    BY <1>2
  <1>3. CASE \E d \in Deployers, healthy \in BOOLEAN : up(d, healthy) /\ UNCHANGED cutoverVars
    BY <1>3, SameRows DEF up, Container, cutoverVars
  <1>4. CASE \E healthy \in BOOLEAN : recreate(healthy)
    BY <1>4, SameRows DEF recreate, Container
  <1>5. ASSUME NEW s \in Sessions, NEW w \in Writes, commit(s, w) PROVE Store!Next
    <2>1. env.db = Source /\ api.db = Source
      BY <1>5, CutoverAssumption DEF commit, IInv, ReleaseInv, MigrationOK, NoWriter
    <2>2. api' = api /\ rows' = [rows EXCEPT ![Source] = @ \cup {w}] /\ w \notin rows[Source]
      BY <1>5 DEF commit, deployVars
    <2>3. Source \in DOMAIN rows
      BY DeploymentAssumption DEF IInv, HostInv, TypeOK
    <2>4. QED
      BY <2>1, <2>2, <2>3
  <1>6. ASSUME NEW w \in Writes, commit_target(w) PROVE Store!Next
    <2>1. api.db = Target /\ api' = api /\ rows' = [rows EXCEPT ![Target] = @ \cup {w}]
      BY <1>6 DEF commit_target, deployVars
    <2>2. w \notin rows[Target] /\ Target \in DOMAIN rows
      BY <1>6, CutoverAssumption DEF commit_target, IInv, HostInv, TypeOK
    <2>3. QED
      BY <2>1, <2>2
  <1>7. CASE restore
    <2>1. api.db = Source /\ api' = api
      BY <1>7 DEF restore, IInv, ReleaseInv, MigrationOK, OnSource, At
    <2>2. rows'[Source] = rows[Source]
      BY <1>7, DeploymentAssumption, CutoverAssumption DEF restore, IInv, HostInv, TypeOK
    <2>3. QED
      BY <2>1, <2>2
  <1>8. QED
    BY <1>1, <1>2, <1>3, <1>4, <1>5, <1>6, <1>7

\* What the API reads is a durable store: no committed row is lost or doubled, through
\* releases, failures and the move to the other server, under the same assumptions.
THEOREM StoreImplemented == OrderlySpec => StoreSpec
  <1>1. Init => Store!Init
    BY DeploymentAssumption DEF Init, DeployInit, Store!Init
  <1>2. IInv /\ [Next /\ Orderly]_vars => [Store!Next]_(rows[api.db])
    BY StoreStep
  <1>3. QED
    BY <1>1, <1>2, Invariant, PTL DEF OrderlySpec, StoreSpec, Store!Spec

-----------------------------------------------------------------------------
(* The automatic deployment *)

\* Two steps of an operator come between the service and its mark: a checkout before the
\* service has built, and a manual release after deploy.sh and before the mark.
Interference ==
    \/ /\ deployer[Service].step \in {"checked out", "tagged"}
       /\ \E c \in Commits : operator_checkout(c)
    \/ /\ deployer[Service].step = "released"
       /\ \E d \in Operators : read_tag(d)

\* What the service knows of the host at its step.
ServiceInv ==
    LET s == deployer[Service]
    IN  /\ s.step # "idle" => s.target \in passed
        /\ s.step \in {"checked out", "tagged"} => head = s.target
        /\ s.step \in ReleaseSteps \cup {"released"} => s.tag = s.target
        /\ s.step \in (ReleaseSteps \cup {"released"}) \ {"tagged"} => images[s.target] = s.target
        /\ s.step \in (ReleaseSteps \cup {"released"}) \ {"tagged", "built"} =>
             schema[env.db] = Revision[s.target]
        /\ s.step \in {"up", "writing", "recorded", "released"} =>
             api = [tag |-> s.target, code |-> s.target, db |-> env.db]
        /\ s.step = "writing" => s.db = env.db
        /\ s.step \in {"recorded", "released"} => env.tag = s.target
        /\ s.step = "released" => \A d \in Operators : deployer[d].step \notin ReleaseSteps

\* A step of an operator's release.
LEMMA ServiceBesideOperator ==
  ASSUME HostInv, ServiceInv, ~Interference, NEW d \in Operators, UNCHANGED cutoverVars,
         read_tag(d) \/ Release(d) \/ up(d, FALSE) \/ fails(d)
  PROVE  ServiceInv'
  <1> USE DeploymentAssumption
  <1>1. d # Service /\ d \in Deployers /\ Service \in Deployers
    BY DEF Deployers
  <1>2. /\ deployer'[Service] = deployer[Service] /\ UNCHANGED <<passed, head>>
        /\ \A e \in Operators \ {d} : deployer'[e] = deployer[e]
    <2>1. deployer \in [Deployers -> Deployment]
      BY DEF HostInv, TypeOK, DeployTypeOK
    <2>2. UNCHANGED <<passed, head>> /\ \E next : deployer' = [deployer EXCEPT ![d] = next]
      BY <1>1 DEF read_tag, Release, build, migrate, migrate_refused, up, write_release,
                  record_release, finish, fails, Moves, Ends
    <2>3. QED
      BY <1>1, <2>1, <2>2 DEF Deployers
  <1>3. CASE deployer[Service].step \notin ReleaseSteps \cup {"released"}
    BY <1>2, <1>3 DEF ServiceInv, ReleaseSteps
  <1>4. CASE deployer[Service].step \in ReleaseSteps
    <2>1. deployer[d].step \notin ReleaseSteps /\ ~DeployLockFree
      BY <1>1, <1>4 DEF HostInv, Locks, DeployLockFree
    <2>2. fails(d)
      BY <2>1 DEF read_tag, Release, build, migrate, migrate_refused, up, write_release,
                  record_release, finish, ReleaseSteps
    <2>3. QED
      BY <1>2, <1>4, <2>2 DEF ServiceInv, fails, ReleaseSteps
  <1>5. CASE deployer[Service].step = "released"
    <2>1. deployer[d].step \notin ReleaseSteps /\ ~read_tag(d)
      BY <1>5 DEF ServiceInv, Interference
    <2>2. fails(d)
      BY <2>1 DEF Release, build, migrate, migrate_refused, up, write_release, record_release,
                  finish, ReleaseSteps
    <2>3. \A e \in Operators : deployer'[e].step \notin ReleaseSteps
      <3>1. deployer'[d].step \notin ReleaseSteps
        BY <1>1, <2>2 DEF fails, Ends, NoDeployment, ReleaseSteps, HostInv, TypeOK, DeployTypeOK
      <3>2. QED
        BY <1>2, <1>5, <3>1 DEF ServiceInv
    <2>4. QED
      BY <1>2, <1>5, <2>2, <2>3 DEF ServiceInv, fails, ReleaseSteps
  <1>6. QED
    BY <1>3, <1>4, <1>5

\* A step of the service itself.
LEMMA ServiceMoves ==
  ASSUME HostInv, ServiceInv, UNCHANGED cutoverVars,
         \/ deploy \/ checkout_target \/ lock_refused \/ mark
         \/ read_tag(Service) \/ Release(Service) \/ up(Service, FALSE) \/ fails(Service)
  PROVE  ServiceInv'
  <1> USE DeploymentAssumption
  <1> DEFINE s == deployer[Service]
  <1>1. /\ Service \in Deployers /\ deployer \in [Deployers -> Deployment]
        /\ images \in [Commits -> Commits \cup {NoCommit}]
        /\ schema \in [Databases -> Nat] /\ env \in [tag : Commits, db : Databases]
        /\ s.step # "idle" => s.target \in Commits
        /\ s \in Deployment
    BY DEF HostInv, TypeOK, DeployTypeOK, TagsOK, Deployers
  <1>2. CASE \/ lock_refused \/ mark \/ up(Service, FALSE) \/ fails(Service)
             \/ migrate_refused(Service)
    <2>1. Ends(Service)
      BY <1>2 DEF lock_refused, mark, up, fails, migrate_refused
    <2>2. deployer'[Service].step = "idle"
      BY <1>1, <2>1 DEF Ends, NoDeployment
    <2>3. QED
      BY <2>2 DEF ServiceInv, ReleaseSteps
  <1>3. CASE deploy
    <2>1. deployer'[Service].step = "chosen" /\ deployer'[Service].target = main
      BY <1>1, <1>3 DEF deploy, NoDeployment
    <2>2. main \in passed /\ passed' = passed
      BY <1>3 DEF deploy, Deployable
    <2>3. QED
      BY <2>1, <2>2 DEF ServiceInv, ReleaseSteps
  <1>4. CASE checkout_target
    <2>1. /\ deployer'[Service].step = "checked out" /\ deployer'[Service].target = s.target
      BY <1>1, <1>4 DEF checkout_target, Moves, Deployment
    <2>2. QED
      BY <1>4, <2>1 DEF ServiceInv, checkout_target, ReleaseSteps
  <1>5. CASE read_tag(Service)
    <2>1. /\ deployer'[Service].step = "tagged" /\ deployer'[Service].target = s.target
          /\ deployer'[Service].tag = head /\ s.step = "checked out"
      BY <1>1, <1>5 DEF read_tag, Start, Deployment
    <2>2. s.target \in passed /\ head = s.target /\ UNCHANGED <<passed, head>>
      BY <1>5, <2>1 DEF ServiceInv, read_tag
    <2>3. QED
      BY <2>1, <2>2 DEF ServiceInv, ReleaseSteps
  <1>6. CASE build(Service)
    <2>1. /\ deployer'[Service].step = "built" /\ deployer'[Service].target = s.target
          /\ deployer'[Service].tag = s.tag /\ s.step = "tagged"
      BY <1>1, <1>6 DEF build, Moves, Deployment
    <2>2. images'[s.target] = s.target /\ passed' = passed
      BY <1>1, <1>6, <2>1 DEF build, ServiceInv, ReleaseSteps
    <2>3. QED
      BY <2>1, <2>2 DEF ServiceInv, ReleaseSteps
  <1>7. CASE migrate(Service)
    <2>1. /\ deployer'[Service].step = "migrated" /\ deployer'[Service].target = s.target
          /\ deployer'[Service].tag = s.tag /\ s.step = "built"
      BY <1>1, <1>7 DEF migrate, Moves, Deployment
    <2>2. /\ schema'[env.db] = Revision[s.target] /\ UNCHANGED <<env, images, passed>>
      BY <1>1, <1>7, <2>1 DEF migrate, ServiceInv, ReleaseSteps
    <2>3. QED
      BY <2>1, <2>2 DEF ServiceInv, ReleaseSteps
  <1>8. CASE up(Service, TRUE)
    <2>1. /\ deployer'[Service].step = "up" /\ deployer'[Service].target = s.target
          /\ deployer'[Service].tag = s.tag /\ s.step = "migrated"
      BY <1>1, <1>8 DEF up, Moves, Deployment
    <2>2. /\ api' = [tag |-> s.target, code |-> s.target, db |-> env.db]
          /\ UNCHANGED <<env, images, passed, schema>>
      BY <1>8, <2>1 DEF up, Container, ServiceInv, ReleaseSteps
    <2>3. QED
      BY <2>1, <2>2 DEF ServiceInv, ReleaseSteps
  <1>9. CASE write_release(Service)
    <2>1. /\ deployer'[Service].step = "writing" /\ deployer'[Service].target = s.target
          /\ deployer'[Service].tag = s.tag /\ deployer'[Service].db = env.db /\ s.step = "up"
      BY <1>1, <1>9 DEF write_release, Deployment
    <2>2. UNCHANGED <<passed, images, schema, env, api>>
      BY <1>9 DEF write_release
    <2>3. QED
      BY <2>1, <2>2 DEF ServiceInv, ReleaseSteps
  <1>10. CASE record_release(Service)
    <2>1. /\ deployer'[Service].step = "recorded" /\ deployer'[Service].target = s.target
          /\ deployer'[Service].tag = s.tag /\ s.step = "writing"
      BY <1>1, <1>10 DEF record_release, Moves, Deployment
    <2>2. env'.tag = s.target /\ env'.db = env.db /\ UNCHANGED <<images, passed, schema, api>>
      BY <1>10, <2>1 DEF record_release, ServiceInv, ReleaseSteps
    <2>3. QED
      BY <2>1, <2>2 DEF ServiceInv, ReleaseSteps
  <1>11. CASE finish(Service)
    <2>1. /\ deployer'[Service].step = "released" /\ deployer'[Service].target = s.target
          /\ deployer'[Service].tag = s.tag /\ s.step = "recorded"
          /\ \A d \in Operators : deployer'[d] = deployer[d]
      BY <1>1, <1>11 DEF finish, Moves, Deployment, Deployers
    <2>2. \A d \in Operators : deployer'[d].step \notin ReleaseSteps
      BY <1>1, <2>1 DEF HostInv, Locks, ReleaseSteps, Deployers
    <2>3. QED
      BY <1>11, <2>1, <2>2 DEF ServiceInv, finish, ReleaseSteps
  <1>12. QED
    BY <1>2, <1>3, <1>4, <1>5, <1>6, <1>7, <1>8, <1>9, <1>10, <1>11 DEF Release

\* Clients and the migration have nothing to do with a deployment that is under way.
LEMMA ServiceElsewhere ==
  ASSUME HostInv, ServiceInv, Next, ~Deploying
  PROVE  ServiceInv'
  <1>1. deployer' = deployer
    BY DEF Next, Clients, connect, disconnect, commit, commit_target, Preparing, prepare,
       create_role, dump_trial, verify_trial, CuttingOver, cutover, save_original, save_env,
       already_started, fence, terminate_sessions, take_snapshot, dump, restore, verify,
       cutover_refused, write_switch, switch, recreate, complete, migration_fails, migration_dies,
       reboot, deployVars
  <1>2. CASE deployer[Service].step = "idle"
    BY <1>1, <1>2 DEF ServiceInv, ReleaseSteps
  <1>3. CASE deployer[Service].step # "idle"
    <2>1. host_lock = "deploy" /\ At("idle")
      BY <1>3 DEF HostInv, Locks
    <2>2. Clients \/ reboot
      BY <2>1 DEF Next, Preparing, prepare, create_role, dump_trial, verify_trial, CuttingOver,
         cutover, save_original, save_env, already_started, fence, terminate_sessions,
         take_snapshot, dump, restore, verify, cutover_refused, CanGoOn, write_switch, switch,
         recreate, complete, migration_fails, migration_dies, At
    <2>3. UNCHANGED <<passed, head, images, schema, env, api, deployer>>
      BY <2>2 DEF Clients, connect, disconnect, commit, commit_target, reboot, deployVars
    <2>4. QED
      BY <2>3 DEF ServiceInv
  <1>4. QED
    BY <1>2, <1>3

\* The invariant holds always, when nobody interferes.
LEMMA ServiceInvariant == Spec /\ [][~Interference]_vars => []ServiceInv
  <1>1. Init => ServiceInv
    <2>1. Init => deployer[Service].step = "idle"
      BY DEF Init, DeployInit, NoDeployment, Deployers
    <2>2. QED
      BY <2>1 DEF ServiceInv, ReleaseSteps
  <1>2. HostInv /\ ServiceInv /\ [Next]_vars /\ [~Interference]_vars => ServiceInv'
    <2> SUFFICES ASSUME HostInv, ServiceInv, [Next]_vars, [~Interference]_vars PROVE ServiceInv'
      OBVIOUS
    <2>1. CASE UNCHANGED vars
      BY <2>1 DEF ServiceInv, vars, deployVars
    <2>2. CASE Next /\ ~Deploying
      BY <2>2, ServiceElsewhere
    <2>3. CASE Deploying /\ ~Interference
      <3> USE <2>3 DEF Deploying
      <3>1. CASE push \/ (\E c \in Commits : ci_succeeds(c))
        BY <3>1 DEF push, ci_succeeds, ServiceInv
      <3>2. CASE \E c \in Commits : operator_checkout(c)
        BY <3>2 DEF operator_checkout, Interference, ServiceInv
      <3>3. ASSUME NEW d \in Deployers, read_tag(d) \/ Release(d) \/ up(d, FALSE) \/ fails(d)
            PROVE  ServiceInv'
        BY <3>3, ServiceBesideOperator, ServiceMoves DEF Deployers
      <3>4. CASE deploy \/ checkout_target \/ lock_refused \/ mark
        BY <3>4, ServiceMoves
      <3>5. QED
        BY <3>1, <3>2, <3>3, <3>4 DEF DeployNext
    <2>4. QED
      BY <2>1, <2>2, <2>3
  <1>3. QED
    BY <1>1, <1>2, HostInvariant, PTL DEF Spec

\* Only the last step of the service changes the mark.
LEMMA MarkStep ==
  ASSUME ServiceInv, [Next]_vars, marker' # marker
  PROVE  /\ marker' \in passed
         /\ api = [tag |-> marker', code |-> marker', db |-> env.db]
         /\ env.tag = marker'
         /\ schema[env.db] = Revision[marker']
  <1>1. mark
    BY DEF Next, Deploying, DeployNext, push, ci_succeeds, operator_checkout, deploy,
       checkout_target, lock_refused, read_tag, Release, build, migrate, migrate_refused, up,
       write_release, record_release, finish, fails, Clients, connect, disconnect, commit,
       commit_target, Preparing, prepare, create_role, dump_trial, verify_trial, CuttingOver,
       cutover, save_original, save_env, already_started, fence, terminate_sessions,
       take_snapshot, dump, restore, verify, cutover_refused, write_switch, switch, recreate,
       complete, migration_fails, migration_dies, reboot, deployVars, vars
  <1>2. deployer[Service].step = "released" /\ marker' = deployer[Service].target
    BY <1>1 DEF mark
  <1>3. QED
    BY <1>2 DEF ServiceInv, ReleaseSteps

\* What the service marks was accepted by CI, runs, stays and has its schema, whatever fails
\* and is migrated, unless an operator comes between the service and its mark. The run
\* "overlap" shows that without this condition it need not.
THEOREM MarkIsRunning == Spec /\ [][~Interference]_vars => MarkedRuns
  <1>1. ServiceInv /\ [Next]_vars
          => [marker' # marker =>
                /\ marker' \in passed
                /\ api = [tag |-> marker', code |-> marker', db |-> env.db]
                /\ env.tag = marker'
                /\ schema[env.db] = Revision[marker']]_vars
    BY MarkStep
  <1>2. QED
    BY <1>1, ServiceInvariant, PTL DEF Spec, MarkedRuns

-----------------------------------------------------------------------------
(* The settings of the source *)

\* The source is read-only only after a cutover has saved .env, a copy that is never
\* removed; what is saved of the settings is read-only only if the source was.
SettingsInv ==
    /\ "step" \in DOMAIN migration
    /\ migration.step \in {"env saved", "read-only"} => "app.env.before" \in files
    /\ Source \in fenced => "app.env.before" \in files
    /\ original = "read-only" => Source \in fenced

\* Releases know nothing of the read-only setting.
LEMMA DeployKeepsFenced == DeployNext => fenced' = fenced
  BY DEF DeployNext, push, ci_succeeds, operator_checkout, Release, deploy, checkout_target,
         read_tag, lock_refused, build, migrate, migrate_refused, up, write_release,
         record_release, finish, mark, fails

\* The settings are saved, the copy of .env made, the source fenced and a cutover begun by
\* one action each.
LEMMA SettingsSteps ==
  ASSUME [Next]_vars, "step" \in DOMAIN migration
  PROVE  /\ "step" \in DOMAIN migration'
         /\ files \subseteq files'
         /\ original' = original \/ save_original
         /\ fenced' = fenced \/ fence
         /\ migration'.step \in {"env saved", "read-only"} =>
              migration' = migration \/ save_env \/ fence
         /\ At("timer stopped")' => migration' = migration \/ cutover
  <1> DEFINE Kept == original' = original /\ fenced' = fenced /\ files \subseteq files'
             Other(step) == /\ "step" \in DOMAIN migration'
                            /\ migration'.step = step
                            /\ step \notin {"env saved", "read-only", "timer stopped"}
  <1>1. CASE Deploying \/ Clients \/ reboot \/ UNCHANGED vars
    <2>1. Kept /\ migration' = migration
      BY <1>1, DeployKeepsFenced
      DEF Deploying, Clients, reboot, connect, disconnect, commit, commit_target, cutoverVars,
          deployVars, vars
    <2>2. QED
      BY <2>1
  <1>2. \A step : Goes(step) => "step" \in DOMAIN migration' /\ migration'.step = step
    BY DEF Goes
  <1>3. Over => Other("idle")
    BY DEF Over, NoMigration
  <1>4. CASE Preparing \/ migration_fails \/ migration_dies
    <2>1. Kept
      BY <1>4 DEF Preparing, prepare, create_role, dump_trial, verify_trial, migration_fails,
                  migration_dies, deployVars
    <2>2. CASE prepare \/ create_role
      <3>1. Other("preparing") \/ Other("role")
        BY <1>2, <2>2 DEF prepare, create_role
      <3>2. QED
        BY <2>1, <3>1 DEF At
    <2>3. CASE dump_trial
      <3>1. Other("trial dump")
        BY <2>3 DEF dump_trial
      <3>2. QED
        BY <2>1, <3>1 DEF At
    <2>4. CASE verify_trial \/ migration_fails \/ migration_dies
      <3>1. Over \/ migration' = NoMigration
        BY <2>4 DEF verify_trial, migration_fails, migration_dies
      <3>2. Other("idle")
        BY <1>3, <3>1 DEF NoMigration
      <3>3. QED
        BY <2>1, <3>2 DEF At
    <2>5. QED
      BY <1>4, <2>2, <2>3, <2>4 DEF Preparing
  <1>5. CASE cutover \/ save_original \/ save_env \/ fence
    <2>1. CASE cutover
      <3>1. Kept /\ "step" \in DOMAIN migration' /\ migration'.step = "timer stopped"
        BY <1>2, <2>1 DEF cutover
      <3>2. QED
        BY <2>1, <3>1
    <2>2. CASE save_original
      <3>1. fenced' = fenced /\ files' = files /\ Other("settings saved")
        BY <1>2, <2>2 DEF save_original, deployVars
      <3>2. QED
        BY <2>2, <3>1 DEF At
    <2>3. CASE save_env
      <3>1. Kept /\ "step" \in DOMAIN migration' /\ migration'.step = "env saved"
        BY <1>2, <2>3 DEF save_env, deployVars
      <3>2. QED
        BY <2>3, <3>1 DEF At
    <2>4. CASE fence
      <3>1. /\ original' = original /\ files' = files
            /\ "step" \in DOMAIN migration' /\ migration'.step = "read-only"
        BY <1>2, <2>4 DEF fence
      <3>2. QED
        BY <2>4, <3>1 DEF At
    <2>5. QED
      BY <1>5, <2>1, <2>2, <2>3, <2>4
  <1>6. CASE already_started \/ cutover_refused \/ complete
    <2>1. Kept /\ Over
      BY <1>6 DEF already_started, cutover_refused, complete
    <2>2. QED
      BY <1>3, <2>1 DEF At
  <1>7. CASE \/ terminate_sessions \/ take_snapshot \/ dump \/ restore \/ verify \/ write_switch
             \/ switch
    <2>1. Kept
      BY <1>7 DEF terminate_sessions, take_snapshot, dump, restore, verify, write_switch, switch,
                  deployVars
    <2>2. \E step \in {"sessions ended", "snapshot", "dumped", "restored", "verified", "writing",
                       "switched"} : Other(step)
      BY <1>2, <1>7 DEF terminate_sessions, take_snapshot, dump, restore, verify, write_switch,
                        switch
    <2>3. QED
      BY <2>1, <2>2 DEF At
  <1>8. CASE \E healthy \in BOOLEAN : recreate(healthy)
    <2>1. Kept /\ (Goes("recreated") \/ Over)
      BY <1>8 DEF recreate
    <2>2. \E step \in {"recreated", "idle"} : Other(step)
      BY <1>2, <1>3, <2>1
    <2>3. QED
      BY <2>1, <2>2 DEF At
  <1>9. QED
    BY <1>1, <1>4, <1>5, <1>6, <1>7, <1>8 DEF Next, CuttingOver

\* The invariant of the settings holds always, also when operators and services overlap.
LEMMA SettingsInvariant == Spec => []SettingsInv
  <1>1. Init => SettingsInv
    BY DEF Init, DeployInit, SettingsInv, NoMigration
  <1>2. SettingsInv /\ [Next]_vars => SettingsInv'
    <2> SUFFICES ASSUME SettingsInv, [Next]_vars PROVE SettingsInv'
      OBVIOUS
    <2>1. /\ "step" \in DOMAIN migration'
          /\ files \subseteq files'
          /\ original' = original \/ save_original
          /\ fenced' = fenced \/ fence
          /\ migration'.step \in {"env saved", "read-only"} =>
               migration' = migration \/ save_env \/ fence
      BY SettingsSteps DEF SettingsInv
    <2>2. migration'.step \in {"env saved", "read-only"} => "app.env.before" \in files'
      BY <2>1 DEF SettingsInv, save_env, fence, At
    <2>3. Source \in fenced' => "app.env.before" \in files'
      BY <2>1 DEF SettingsInv, fence, At
    <2>4. original' = "read-only" => Source \in fenced'
      BY <2>1 DEF SettingsInv, save_original, fence, deployVars, Setting
    <2>5. QED
      BY <2>1, <2>2, <2>3, <2>4 DEF SettingsInv
  <1>3. QED
    BY <1>1, <1>2, PTL DEF Spec

\* The settings from before are lost only to a cutover that is tried again after one that
\* had fenced the source, and that second one is refused: the copy of .env exists.
THEOREM LostToRetry ==
  Spec => [](~OriginalKept => Source \in fenced /\ "app.env.before" \in files)
  <1>1. SettingsInv => (~OriginalKept => Source \in fenced /\ "app.env.before" \in files)
    BY DEF SettingsInv, OriginalKept
  <1>2. QED
    BY <1>1, SettingsInvariant, PTL

\* The settings from before the cutover are kept when no cutover is started on a source
\* that an earlier one has left read-only, whatever else fails, dies or is released.
THEOREM KeptWithoutRetry ==
  Spec /\ [][cutover => Source \notin fenced]_vars => []OriginalKept
  <1> DEFINE Unfenced == /\ original # "read-only"
                         /\ "step" \in DOMAIN migration
                         /\ At("timer stopped") => Source \notin fenced
  <1>1. Init => Unfenced
    BY DEF Init, DeployInit, NoMigration, At
  <1>2. Unfenced /\ [Next]_vars /\ [cutover => Source \notin fenced]_vars => Unfenced'
    <2> SUFFICES ASSUME Unfenced, [Next]_vars, [cutover => Source \notin fenced]_vars
                 PROVE  Unfenced'
      OBVIOUS
    <2>1. /\ "step" \in DOMAIN migration'
          /\ original' = original \/ save_original
          /\ fenced' = fenced \/ fence
          /\ At("timer stopped")' => migration' = migration \/ cutover
      BY SettingsSteps
    <2>2. original' # "read-only"
      BY <2>1 DEF save_original, Setting
    <2>3. At("timer stopped")' => Source \notin fenced'
      BY <2>1 DEF cutover, fence, At, Goes, vars, deployVars
    <2>4. QED
      BY <2>1, <2>2, <2>3
  <1>3. Unfenced => OriginalKept
    BY DEF OriginalKept
  <1>4. QED
    BY <1>1, <1>2, <1>3, PTL DEF Spec

=============================================================================
