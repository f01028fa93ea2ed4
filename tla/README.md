# DALM backend: models, checks and proofs

DALM lets a user upload one photo of a moment a day. A worker with a vision model validates the photo,
another worker extracts two embedding vectors, the server looks for a similar photo of a stranger within
seven days, and the two owners of a matched pair write each other postcards. The backend is a FastAPI
application over PostgreSQL, Redis and an S3-compatible object storage; the two workers are separate
processes that poll an internal HTTP API.

This directory holds TLA+ modules of the parts where requests, workers, schedulers and crashes meet, TLC
configurations that check them on small instances, and TLAPS proofs for all instances.

    tlc -workers 2 -config MCValidationQueue_queue.cfg MCValidationQueue    (any run of PROJECT.json)
    tlapm ValidationQueueProofs.tla

Paths below are relative to `src/`; `repositories.py` and the like are in `src/app/`.

## 1. Inventory

| component | state | operations | where it is hard |
|---|---|---|---|
| validation queue (`PhotoValidationRepository`, `repositories.py`) | `photo_validations`, `photos`, `notifications`, first row of `photo_embedding_jobs` | `claim_next`, `apply_result`, `record_failure` | leases that expire under a slow worker, reports that come late or twice, photos that are deleted or timed out while they are checked |
| validation worker (`ai_validation_worker.py`) | the job it runs (memory) | `run_validation_once` | dies and restarts; its HTTP calls are repeated, delayed or lost |
| photo rows (`HomeRepository`, `PhotoRepository`) | `photos` | upload, delete, `expire_stale_validations` | races with the queue, the day limit, storage calls outside the transaction |
| embedding queue and worker (`embedding_jobs.py`, `ai_embedding_worker.py`) | `photo_embedding_jobs`, `photo_embeddings` | `claim_next`, `apply_result`, `record_failure`, `run_embedding_once` | the result is committed before the search that it triggers |
| matching (`embedding_jobs.py`, `matching.py`, `photo_embeddings.py`, `match_ranking.py`) | `matches`, `match_participants`, `photos`, `notifications` | `orchestrate_match`, `list_candidates`, `rank_candidates`, `finalize` | stale candidate lists, two row locks per match, in another order than other lock takers, several transactions per request |
| search expiration (`expiration.py`, run by an external scheduler) | `photos`, `notifications` | `expire_due` | one UPDATE over many rows, against `finalize` |
| postcards (`PostcardRepository`) | `postcards` | `send`, `mark_read`, `delete`, list, get | turns decided by a timestamp, idempotency keys, two users at once |
| sessions (`auth.py`, `tokens.py`, `token_store.py`) | refresh tokens and their index in Redis; `users.status` in PostgreSQL | login, refresh, logout, `revoke_all` | two stores without a common transaction, keys that expire by themselves |
| users (`UserRepository`) | `users`, `terms_agreements` | onboarding, profile, withdrawal | unlocked reads before writes |
| blocks, reports (`SafetyRepository`, `ReportRepository`) | `blocks`, `reports`, hidden participants | block, unblock, report | decided elsewhere from unlocked reads |
| notifications, preferences, device tokens | their tables | list, mark read, settings | idempotent updates; nothing sends a push yet |
| moments, match viewing | `viewed_at`, `hidden_at` of `match_participants` | list, view, hide | mostly read-only |
| image processing, object storage, identity providers | none, buckets, none | conversion, put/delete/sign, token checks | external calls |
| releases (`deploy/aws/auto_deploy.py`, `deploy.sh`, systemd units, compose file) | the checkout, images, `.env`, `.deployed-sha`, the API container, two locks | automatic deployment, manual release and rollback, command by command | a kill or a failure at every step; a manual release beside the service, which holds another lock |
| move of the database (`deploy/aws/migrate_postgres.py`) | source and target database, files under `/var/lib/dalm/db-migration`, `.env`, the timer | `prepare`, `cutover` | sessions that still write, a failure midway, a second attempt |
| schema migrations (`alembic/`) | schema and revision of each database | `upgrade head`, once per release | a rollback meets a revision it does not know |
| configuration, backup (`config.py`, `deploy/aws/backup.py`) | none, archives | start-up, dump, upload | sequential |

How they interact: all API processes share PostgreSQL and Redis and keep nothing in memory between
requests. An upload inserts a photo and its validation job. The validation worker polls `claim_next`,
downloads, asks its provider and posts a result or a failure; a pass makes the photo `SEARCHING` and
inserts its embedding job. The embedding worker does the same; its result request also searches and may
commit a match, which changes the photo of *another* user. The owner's requests (delete, home screen),
the scheduler (`expire_due`) and blocks commit in between. The deployment service and the operators
replace the container of the API and migrate its database while all this goes on. Every handler is a
transaction, and most lock the rows they decide on with `SELECT ... FOR UPDATE`; the interesting
behaviour lies where one does not, or where a handler is made of several transactions.

What makes each component correct:

- validation: photo, job and notifications tell one story; a running lease is respected; no retry beyond
  the budget; every validation ends, with or without workers.
- matching: a photo is in one match at most; what was checked still holds at the commit; no similar pair
  is overlooked; requests never wait for each other in a circle, and for nobody for good; every search
  ends.
- the two together: a photo moves through its life cycle as its owner is told (`PhotoLifecycle`).
- postcards: the right user starts; the users alternate; a retry is safe; a block stops them.
- viewing, hiding, reports: what a user viewed, hid or reported is not offered again against the user's
  choice.
- uploads: no image and no day is used twice; a committed row has its object.
- sessions: no session forks; the index names every live token; a withdrawn account has none.
- users: no profile without consents; a withdrawn account never comes back.
- releases: the API never runs code ahead of its schema; what is marked as deployed runs (which the code
  does not ensure, see `overlap` in 3), and `.env` names what runs; a commit that CI accepted is
  deployed in the end.
- move of the database: no committed row is lost or doubled; what a recovery needs stays.

## 2. Modules

| module | role |
|---|---|
| `PhotoLifecycle` | abstract specification: status changes of a photo and the notification each goes out with |
| `ValidationQueue` | queue, workers, reports, owner's requests and time; implements `PhotoLifecycle` |
| `ValidationQueueProofs` | its safety properties and the refinement, proved |
| `Matching` | embedding queue, workers, result requests in their separate transactions, expiration, deletion, blocks, the locks of postcards; implements `PhotoLifecycle` |
| `PhotoUpload` | uploads and deletions of one user: object storage and database, statement by statement |
| `PhotoUploadProofs` | its safety properties, proved |
| `Postcards` | the postcards of one match, concurrent and repeated calls, blocks |
| `PostcardsProofs` | who starts, the late postcard and the overtaken ones, proved |
| `Safety` | EXTENDS `Postcards` with viewing, hiding and reports, and what the users are shown |
| `SafetyProofs` | EXTENDS `PostcardsProofs`: the refinement of `Postcards`, the properties of reports and of their answers, and the turn to send, proved |
| `Sessions` | the refresh tokens of one user, in Redis, and the status of the account, in PostgreSQL |
| `SessionsProofs` | its safety properties, and when a withdrawn account has no session, proved |
| `Accounts` | EXTENDS `Sessions` with the row of the user: creation, onboarding, profile, withdrawal; implements `Sessions` |
| `AccountsProofs` | EXTENDS `SessionsProofs`: the refinement and its safety properties, proved |
| `MatchingProofs` | its safety properties, freedom from deadlock among requests, when no pair is missed, what owners are told, the progress of requests and the refinement, proved |
| `Deployment` | releases on one host: GitHub, the service, operators, failures |
| `DurableStore` | abstract specification: a store whose committed rows stay |
| `Cutover` | EXTENDS `Deployment` with the move of the database and the clients that write meanwhile; implements `DurableStore` |
| `CutoverProofs` | safety of both, when the settings of the source are kept, and the refinement, proved |
| `MC*` | values of the constants for TLC |

The correspondence of each definition to lines of the source is the `map` of PROJECT.json. Conventions
shared by the modules: an action is one transaction (or one Redis script or MULTI), named as the
function in the code; a row that does not exist has status `ABSENT`; a disjunct the code reaches on an
error answers the request and leaves the rows alone.

### ValidationQueue

`photo` and `validation` are the rows, `running` is the memory of the workers, and `reports` is the
network: a report stays until `Drop` takes it, so it may be delivered at any time, several times, or
never. Every early return of the handlers that changes nothing is a step that is not taken; the ones
that change something are actions (`claim_next_unavailable`). Times are kept as ages and delays that a
`Tick` moves, and that stop where no comparison of the code can tell them apart: this keeps the state
finite without a bound on time. Attempt counts above `MaxAttempts` are one value for the same reason.
`claim_next` reads the photo without locking it; a change of the photo that commits meanwhile acts as if
it came after the claim, because `apply_result` and `record_failure` lock and read the photo again.
`create_photo` is one action: the partial unique index on active photos of a day (`alembic/versions`,
revision 0003) decides between two uploads that both saw none. `Paired` and `SearchExpired` stand for
the rest of the pipeline so that a late report also meets matched and expired photos.

### Matching

`request[r]` is one result or failure request in the API, `step` says between which two commits it is:
`received`, `saved` (the job is COMPLETED), `ranked` (candidates listed, nothing locked),
`locking`/`waiting` (row locks in the order of the ids), `deciding` (both rows locked, checks passed).
Everything else may act between two steps. Three operations lock several photos one after the other, and
each has its own order: `finalize` locks its pair by id (`FirstRow`), `PostcardRepository.send` the
photos of its match by `registered_at` and then by id (`NextRow`), and the UPDATE of the scheduler its
rows as its scan finds them. `delete_photo` locks one photo, `block` none. The locks of a request follow
from its step (`LockedBy`); `sends[s]` and `sweep` say which rows a postcard and the UPDATE still have
to lock and which they hold. Nobody takes a row that another holds (`Unlocked`). Of a postcard only the
locks are modelled here: `send` may be called for any match, as often as wanted, and `send_ends` stands
for its commit, each refusal and each failure; what it decides is in `Postcards`. `sweep` is the one
UPDATE of `expire_due`: it finds the rows that are due (`expire_due`), locks them one by one in any
order, which is all that a scan guarantees, reads each again once it has the lock (`expire_row`), and
commits them with their notifications (`expire_commit`) or is rolled back (`expire_aborted`). One
process of the scheduler runs at a time. PostgreSQL ends the transaction of any one that waits in a
circle (`Deadlocked`), whichever of the three kinds its members are: the request is answered with an
error, the postcard is refused, the sweep is rolled back. A request meets a postcard in a circle when it
tries, from a stale list, a pair that another request has just matched, while the first postcard of that
match is sent. `in_time` is the comparison of `search_expires_at` with the clock, which the code reads
before it waits for the locks. The candidate query's two reads (source, candidates) are one step. Scores
are a function of the pair; the cosine arithmetic is data. The retry delay is not kept: a `PENDING` job
may be claimed at any later time, which admits more behaviours than the code. The lock that
`apply_result` holds on an already completed job while it searches again is left out, which also admits
more. Photos enter already validated.

### PhotoUpload

An upload is a call whose `step` says which statement it has reached: the object is put, the account and
the day are checked, old rows give up their checksum, the duplicate is looked for, the row is committed;
the handler then deletes the object when anything after the put failed. Rows and objects are two stores
without a common transaction. A row lock that the release of a checksum takes is held until the commit,
so a deletion of that row waits. The two unique indexes decide at the commit (`Conflict`). The pipeline
moves rows between the statements as `PhotoLifecycle` allows. `faults` are the failures that leave an
object behind or remove one; `ObjectAgrees` names them as its exceptions.

### Postcards and Safety

`send` has an unprotected prefix: the start of the transaction, whose time becomes `sent_at`, and the
lookup of the idempotency key. Then it locks the participants and photos of the match and looks for a
block (`lock`); the rest, from the query for the last postcard to the commit, is one action, `send` or
`send_refused`. Nobody locks a block, so blocks may come between the two. `clock` counts transactions,
which is all that the order by `sent_at` tells apart. Only calls of the two participants of an existing
match are modelled.

In `Safety` a report of a user is three steps: the insert, which the query for a block flushes and which
makes a second report of the same target wait (`filing`); the commit with the block; or the conflict of
that block with one that was committed in between. `answer` is what the step answers to a report, for
the properties about answers. That a query flushes pending inserts first is the default of SQLAlchemy's
sessions, which `database.py:20` does not change. `Shown` is the filter of `get_next_unviewed_match`. A
hide or unhide that finds the value it wants writes nothing, and is a stutter.

### Sessions

A Redis key is its time to live, 0 when it does not exist. Login and withdrawal take one step in each
store, so `logins` and `withdrawals` say how far a request has come. `rotate` and `revoke` are Lua
scripts, hence atomic. Signatures are trusted: a caller holds the tokens it was given.

### Accounts

`row` (`ABSENT` or `STORED`), `nickname` and `terms` are the rows of the user; `first`, `edits` and
`loaded` say what each request under way has read. Onboarding, profile changes and withdrawals read the
row without a lock and commit later, so each is a pair of actions with the values it read in between;
the ORM writes the columns it changed, and the last commit wins column by column. Two first logins may
both insert the user: the unique index refuses the second, which reads again. The session part of each
action is the action of `Sessions` it extends, which is how the refinement is proved.

### Deployment and Cutover

One action is one command of the scripts that reads or changes shared state: the checkout, the reading
of HEAD for the tag, the build, `alembic upgrade head`, the start of the container with its health
check, the write of `.env.release` and its rename. When `deploy.sh` of the service has ended (`finish`,
step `released`), `.deploy.lock` is free, and `auto_deploy.py` has yet to write its mark (`mark`). Each
command may fail and each process may die (`fails`, `migration_fails`, `migration_dies`; at most
`MaxFaults` in an instance); the locks go with the process, what it did stays: images, a temporary file
beside `.env`, a stopped timer. A commit is a number whose tree has a last revision (`Revision`), an
image is the code it was built from, a database is its revision and its rows. An `alembic upgrade` is
one transaction, refused for a revision it does not know and by a read-only database.
`migrate_postgres.py` runs under the host lock, so no automatic deployment starts beside it; the test of
`systemctl is-active` in `cutover` follows from that lock. A session keeps the mode it took when it
began; `pg_terminate_backend` acts at once. All clients of the source are sessions; clients of the
target write through the API.

Nothing in `Spec` keeps people and services apart but the two locks: an operator may check out any commit
and run `deploy.sh` at any time, the service checks out its commit whoever has read HEAD
(`auto_deploy.py:40` looks at no lock but its own), and a cutover does not ask for manual releases. What
the releases need beside the locks is two assumptions of `OrderlySpec`, which no line of the code
enforces:

- `HeadStill`: nobody moves HEAD between `deploy.sh` reading it for the tag and building from it. Under
  `.deploy.lock` only one `deploy.sh` does so at a time, but a checkout takes no part in that lock. The
  assumption binds operators, and the service too, when an operator releases by hand.
- `Apart`: nobody runs `deploy.sh` by hand while a cutover is under way. The automatic deployment is kept
  away by the host lock.

The run `release` is under `OrderlySpec`, the runs `overlap` and `recovery` are under `Spec`, as are the
type invariant and the theorems about marks and settings (6).

## 3. Runs

Passing runs:

| run | instance | shows |
|---|---|---|
| `queue` | 2 photos of 2 owners, the first validated by workers or by the mock, the second by the mock, to be matched; 2 workers, 2 attempts, lease and backoff of 1, timeout of 2, 2 reports on their way | types, agreement of photo and job, one verdict, lease, refinement of `PhotoLifecycle`; every validation ends although no worker runs; every job ends while workers poll |
| `search` | 3 similar photos of 3 owners, 2 requests, 2 postcards at a time, expiration of two photos, deletion of two, a failed extraction, rollbacks of the scheduler, one block | `MatchedOnce`, `DecisionHolds`, `NoMissedPair`, `NoDeadlock`, refinement of `PhotoLifecycle` |
| `ends` | 2 photos, 2 requests, a postcard at a time, 2 attempts, expirations, crashes, restarts, lost claims, slow workers, failed extractions, deadlocks with the scheduler and with the postcard | types; requests are answered, searches end |
| `upload` | 3 uploads, of which 2 at once, 2 images, 2 days, every fault, deletion and pipeline step | `NoDoubleUpload`, `ChecksumKept`, `ObjectAgrees` |
| `safety` | 2 users, 2 concurrent calls, 3 calls in all, one key; reports, views and hiding beside the first call | the right user starts; a user repeats only after an overtaking; one late postcard after a block; the two decisions of whose turn it is agree; reports hide and block; what was viewed or reported does not come back |
| `accounts` | 3 tokens, 2 logins, 2 withdrawals, 2 edits, 2 nicknames, times to live of up to 2, Redis may fail | index complete, no fork, `revoke_all` complete, consents before a profile, withdrawn for good, refinement of `Sessions` |
| `release` | 2 commits of which the second brings a migration, the service and one operator, one fault, the move of the database, one session and one row | under `HeadStill` and `Apart`: types, `SchemaReady`, `TagOfRunning`, refinement of `DurableStore`; an accepted commit is deployed in the end |

Why the bounds are enough for what they are used for: two workers are a lease holder and the one who
took over (a third one is to each of them what the second is); two reports in flight are that of the
former holder of a lease and that of the present one, and a report stays on its way while the job goes
through any number of claims, and may be applied again. Two attempts give a retry and a last failure.
The second photo of `queue` is the partner of a match. Three photos and two requests are the smallest
instance with a stale candidate list, a second candidate to fall back to, and two requests that lock
overlapping pairs in opposite order; registration order, id order and score order differ on purpose.
`CandidateLimit` is 2 in `search`, exactly the other two photos each of the three has to be compared
with (see 5 and `NothingMissed` in 6). Three postcard calls are the smallest number in which a user can
repeat after an overtaking: the second postcard's transaction is the oldest, and its sender sends the
third. What a user does to one postcard has no effect on the others, so only the first one is read and
deleted (`MaxHandled`); and reports, views and hiding are explored with one call of `send` at most
(`Explored`), since they meet a call only in the block. Three uploads are an old row, whose checksum or
day is free again, and two that race for it. Three tokens are a session of two rotations beside another
session. Lease, timeout and times to live are small because the code only compares them. Symmetry is
used for interchangeable workers, requests, calls, tokens and logins in safety runs only; the photo ids
of `Matching` are ordered, so they are not symmetric. `Disturbances` names what beside the requests
happens in an instance of `Matching`, and to which photo: `search` has what changes photos and stops the
scheduler, `ends` what keeps requests, jobs and searches from ending. Its two photos are enough for a
deadlock of a request with the scheduler or with a postcard; circles of requests alone, or of postcards
alone, are excluded for any number of them by a proof. Two commits of `release` are a release, its
successor and a rollback to it; one fault is a failure or a kill at any one step, after which everything
may be tried again; one row is enough because a row is lost or kept by itself. TLC counts the next-state
relation of `release`, `Next /\ Orderly`, as one action; every disjunct of `Next` fires in it.

`CHECK_DEADLOCK FALSE` is set for `Matching` and `PhotoUpload`: when all photos are matched or deleted
and all jobs are closed, or all uploads or calls are made, nothing is left to do. Deadlock among row
locks is what `NoDeadlock` and `RequestsEnd` are about.

Runs that show a disagreement between the code and what its docs say:

| run | documented | what the code does |
|---|---|---|
| `crash` | `06-정책-예외-테스트-체크리스트.md:16`: searching photos of 7 days are compared with a new one | the job is COMPLETED before the search begins (`main.py:774`); a crash in between loses the search |
| `reported` | `repositories.py:305`: 409 "already received" for a repeated report | the insert fails in the query before the handler (`repositories.py:276,283`) and gives 503; the 409 goes to a new report that meets a block of the same user, and that report is lost |
| `login` | `main.py:456`: all refresh tokens of the user are revoked | a login between its read of the status and its `register` survives, and refreshes never read the status |
| `overlap` | `deploy/aws/README.md:149`: deployments are serialized by a file lock; `auto_deploy.py:14`: the host lock covers the checkout as well as the deployment | `deploy.sh` holds another lock, and a checkout by hand none: an operator who checks out a commit between the service's checkout (`auto_deploy.py:40`) and `deploy.sh:10` has that commit built and started, and the service marks its own (`auto_deploy.py:43`), which it does not deploy again |
| `recovery` | `migrate_postgres.py:289`, `deploy/aws/postgres/README.md:41,50`: the settings of the source are kept for a recovery | a second attempt overwrites them (`migrate_postgres.py:288`) with what the first one set, before it finds that the cutover has already started |

## 4. Fairness and liveness

Liveness is model-checked only. What of it needs no fairness is proved for requests: `AnswerComesNearer`
(each step of a request that is under way lowers its `Work`, a number of at most four for each photo and
three) and `NoDeadlocks`. So a request can only fail to end by not being served, which the fairness of
`LiveSpec` excludes.

- `ValidationQueue!FairSpec` asks only that time passes. `OwnerReturns` (the home screen is opened again
  and again) is the premise of `ValidationEnds`, and `WorkersReturn` that of `JobEnds`: both are
  premises inside the property, so each run shows what is needed for what. `WorkersReturn` uses strong
  fairness for the claim of each job and for one attempt and one report of it that fall within the
  lease: the queue is polled oldest first, workers are restarted by their supervisor, and a lease is
  much longer than an attempt. Without the last assumption a worker that always dies keeps a job alive
  for good, which the code allows.
- `Matching!LiveSpec`: strong fairness of each request and each postcard that is being served (an HTTP
  handler goes on, and PostgreSQL hands a released row to the one that waits for it, also when postcards
  or a sweep come back for it again and again: they queue behind it); weak fairness of the end of a
  search period; strong fairness of the steps of the scheduler, for the same reason (the deployment's
  README asks for a scheduler to run `scripts/expire_searching_photos.py`; the compose files of the
  repository start none, so this is an assumption on the deployment); weak fairness of the end of a
  deadlock, which PostgreSQL looks for after a second. Deletions, blocks, crashes and rollbacks of the
  scheduler by other causes are never fair.
- `Cutover!ServiceRuns`: weak fairness of the service's own steps: its timer fires every 5 minutes and
  each of its commands ends, with success or not (the unit has a start limit of 20 minutes, `up` and the
  calls of GitHub have their own). Operators, migrations and reboots are never fair. `ReleaseArrives`
  has its premise inside: `Settled`, that from some time on the commit is the last one, CI has accepted
  it, and the host is left to the service: no manual release, no checkout by hand before the service's
  own is read, no file left behind, a timer that runs, no migration and no read-only database. The
  checkout of the service is fair when it respects `HeadStill`, which under that premise always holds.
  `marker = c` says that a `deploy.sh` run for `c` has succeeded; that `c` then runs is `MarkedRuns`.

## 5. Divergences found by reading, without a run of their own

- Candidate limit: the spec (`03-API-명세서.md:154,158`) ranks all candidates, the query keeps the oldest
  100 before similarity is known (`photo_embeddings.py:200`). With `CandidateLimit = 1` `NoMissedPair`
  does not hold; with a limit that cuts nothing, and without a lost search, it is proved to hold
  (`NothingMissed`).
- Blocks (`06-...md:28`) are read without a lock in `finalize` (`matching.py:61-79`): a block that
  commits between that read and the commit does not prevent the match.
- A final embedding failure (`06-...md:49`) closes the job and leaves the photo `SEARCHING` without
  vectors (`embedding_jobs.py:113`).
- Withdrawal: when Redis fails after the commit, a retry is refused with 404 and the tokens stay;
  `WithdrawnHasNoSession` fails with `RedisFails = TRUE` even without a concurrent login (`main.py:465`,
  `repositories.py:123`). This and the late login of the run `login` are the only ways in which a
  session outlives its account (`WithdrawnEnds`).
- A validation timeout stores no notification; `PhotoLifecycle!TimeOut` is therefore silent.
- `expire_due` locks its rows in scan order, `finalize` in id order: PostgreSQL may abort one of the
  two. The scheduler comes back; a request that is aborted has lost the search of its photo, as after a
  crash. Three photos do not show it, as all partners of the victim are due then; with four photos, of
  which two are due, `NoMissedPair` does not hold.
- `send` locks the photos of its match by `registered_at`, `finalize` by id (`06-...md:193` asks for an
  order that lowers the risk of deadlocks, `03-...md:174` for one order): PostgreSQL may abort the first
  postcard of a match or a request that still tries one of its photos. The pair of that request is matched
  already, but a request that is aborted loses its further candidates as well. With two requests at a time
  this costs no pair in `search`; with four photos, three requests and a postcard `NoMissedPair` does not
  hold.
- Postcards alternate (`main.py:1284`, `06-...md:36`) by `sent_at`, which is the start of a transaction
  that may have waited for its locks (`repositories.py:556`): a later card may carry the earlier time,
  and its sender sends again. `RepeatsOnlyOvertaken` is what holds.
- A postcard can be repeated safely with its key (`main.py:1285`), but the key is looked up before the
  locks only (`repositories.py:514`): a repeated call beside the original one gets 409.
- Without `HeadStill` and `Apart` `SchemaReady`, `TagOfRunning` and the refinement of `DurableStore` do
  not hold either: `deploy.sh` reads HEAD, then builds what is checked out then (`deploy.sh:10`), so an
  operator's checkout builds one commit under the tag of another, as does the service's own checkout
  beside a manual release; and a manual release beside the switch of the database takes back a line of
  `.env`. The run `overlap` shows the case that contradicts what the documents say.
- A process that dies between the write and the rename of `.env.release` or `.env.db-switch` leaves a
  file that `.gitignore` does not name: `auto_deploy.py` finds the checkout dirty and refuses every
  later deployment until somebody removes it.
- A rollback with `deploy.sh` across a migration (`deploy/aws/README.md:115`) fails at `alembic upgrade
  head`, which does not know the revision of the database.
- A cutover that is killed leaves the timer stopped, until a reboot or an operator starts it.
- When a release dies between the start of the container and the record of its tag, a cutover recreates
  the API with the older tag of `.env`.
- An attempt of `cutover` that fails after the copy of `.env` cannot be tried again, also when it has
  not yet changed the source.
- A lease that expires is taken over without a look at `max_attempts` (`repositories.py:1296`), which
  only `record_failure` reads: a job whose worker dies each time runs more often than
  `DALM_VALIDATION_MAX_ATTEMPTS` (`README.md:133`), until the timeout ends it.
- A profile change and a withdrawal read the user without a lock; the last commit wins column by column,
  so a nickname may be written to an account that was withdrawn meanwhile, and stays taken.
- A crash between the upload of an object and the insert of its row leaves an object no row names; a
  failed refresh after the commit deletes the object of a committed row. `PhotoUpload` has both, as
  `faults`.
- A photo that is deleted between the release of old checksums and the query for a duplicate still holds
  its checksum: the upload is refused with `PHOTO_CONFLICT`, and succeeds when it is repeated.
- After a report or a block the page of the match (`get_match_detail`) and `can_access_photo` still show
  the partner's photo; `06-...md:169` asks that nothing of the other side is shown any more. Only the
  offer of unviewed matches is filtered.
- After a rollback in `finalize` the job object is expired when `main.py:778` reads its id; the answer
  may be a 500.
- A refresh whose answer is lost ends the session: the old token is gone. Worker ids default to the host
  name, so two workers of one host share a lease.

## 6. Proofs

Every theorem holds for all values of the constants that satisfy the named assumptions.

`ValidationQueueProofs` (for any sets of photos, users and workers and any settings):

- `Invariant`: `IInv == TypeOK /\ \A p : RowOK(p) /\ QueuedWithinBudget` is inductive. The properties of
  the runs are not inductive by themselves: that the owner has heard nothing while the job is live, that
  the rejection code names the way the photo was rejected, and that a deleted photo's job may end in any
  way but keeps the notification it went with, are all needed to take the next step, so `RowOK` states
  per photo which combinations of photo status, rejection code, job status, embedding job and
  notifications exist. There is one lemma per action, each of which rewrites one row (or the stale rows
  of one user) and leaves the others.
- `TypeCorrect`, `RowsAgree`, `VerdictOnce` and `RetriesBounded` (a job in the queue has attempts left)
  follow from it; `LeaseKept` is the action property, one case per action.
- `Refines`: `Spec => Lifecycle!Spec`, every action is a step of `PhotoLifecycle` or a stutter on it.
  The invariant is needed where a report meets the photo: only a photo in `VALIDATING` takes a verdict.

Assumptions: `ConstantsAssumption` (types of the constants, `NoWorker` and `NoJob` are no ids,
`MaxAttempts > 0` as `config.py` demands) and `BackoffAssumption` (the delay before an attempt is a
number; a power with a variable exponent is outside the provers' arithmetic).

`SessionsProofs`: `SInv` adds two facts to the properties. `FreshNotLive`: a token that was never issued
has no key, so a rotation issues a token other than the one it consumes. `IssuedOnce`: the login a token
descends from is over, so a login adds the first token of its session. With them `IndexKept`,
`SessionsNeverFork` and `AllRevoked` hold for any number of tokens, logins and withdrawals and any `Ttl
> 0`. The index outlives its tokens because each rotation sets it to `Ttl`, the largest time to live
there is. `WithdrawnEnds` turns the run `login` around: `WithdrawnHasNoSession` holds in every behaviour
without two named steps, a login that issues its token when no revocation is to come any more
(`LateLogin`) and a withdrawal that ends between its commit and its revocation (`LostRevocation`). Its
invariant is `RevokedOrDue`: the tokens of a withdrawn account are gone, or a withdrawal that has
committed will revoke them.

`AccountsProofs` proves `Implements` (`AccountSpec => SessionsSpec`) action by action: each either is
the action of `Sessions` or leaves its variables alone. With it the theorems about `Sessions` hold of an
account, `WithdrawnEnds` among them (`WithdrawnAccountEnds`). `AInv` adds that nothing of a user is
stored before the row, and that an edit under way that has read a completed onboarding finds all
consents; `NeverBack`, `AccountTypeCorrect` and `ConsentsKept` follow.

`PhotoUploadProofs`: `UInv` has, beside the types, `NoDoubleUpload` and `ChecksumKept`, `LocksHeld` (a
row whose checksum a running upload has released keeps a status that allows it), `RowsOnTime` (an upload
has no row before the step that inserts it) and `ObjectsOnTime` (the step of an upload without a fault
tells whether its object and its row exist). `UploadedOnce`, `ChecksumsKept` and `ObjectsAgree` hold for
any number of uploads, images and days.

`PostcardsProofs`: `PInv` adds `OneHolder` (two calls never hold the locks, since `lock` waits) and
`BeganOnTime` to the types and `FirstStarts`. `LateOnce` is the action property: the call that commits a
postcard was the holder, so when it ends nobody holds the locks, and whoever locks next finds the block.
`SafetyProofs` proves `ImplementsPostcards` (`SafetySpec => Spec`), which carries these over, and the
properties of reports action by action; `ReportHides` is inductive by itself, because a success stores
the report and a conflict has just met a block. `NeverToldSo` says what the run `reported` shows one
case of: the error for a report that was already received goes exactly to the reports that are not
stored. It needs `FilingIsNew`: as long as a report waits for its commit, no report of its user is
stored.

`RepeatsOnlyOvertaken` and `OneMaySend` rest on `OInv`: a time of the clock belongs to one transaction
(`TimesOnce`), and among the postcards there is a latest one (`HasLatest`). No induction over the
sequence is needed: each new postcard is the latest or leaves the latest as it is. A call that sends has
found the latest card to be of the other user; if the card before its own is nevertheless of the same
user, it is not the latest, which is therefore further back and overtook it. `OvertakenOnly`,
`SafetyOvertakenOnly` and `OneSender` follow, and while nobody is blocked exactly one user has the turn.

`MatchingProofs` (any finite set of photos, any users, workers, requests and scores): `MInv` says of
each request what it knows at its step (`RequestOK`: its photo has vectors, its candidates are similar
photos of others with vectors, a decided pair searches), that completed jobs have vectors, that no two
requests hold the same row (`LocksOK`), that no request holds a row of the scheduler (`SweepOK`), and
that matches are disjoint (`MatchesOK`, `MatchedOnce` without cardinalities). The locks are what carries
a decision to its commit: whoever takes a photo out of the search holds its row. That a request has a
best candidate, and that a circle of requests has a greatest first row, both come from `FirstOfOrder`: a
strict order on a finite set has a first element, by the well-foundedness of the subset order.
`NeverMatchedTwice`, `DecisionsHold`, `NoDeadlocks` (requests lock by id and postcards by registration,
so no number of either kind waits in a circle without one of another kind) and `Refines` follow; for
postcards `SendsOK` says that the rows a postcard holds come before those it still wants. `NoMissedPair`
does not hold of every behaviour (5), so `NothingMissed` proves it under the two conditions that its
counterexamples violate: `WithinLimit`, each photo that searches has at most `CandidateLimit` others to
be compared with, and no step is a `SearchDies`, the end of a request by a crash or a deadlock while its
photo still searches and candidates are left. `PairFound` says the same of one pair, and asks the second
condition of the two photos only. The invariant is `Attended`: for every similar pair that waits, one of
the two has a request that will come to the other, because it has not listed its candidates or has the
other one among them. It survives the commit of vectors (the later of the two lists the earlier one),
the loss of a candidate to a third photo, and each refusal of `finalize`, and that is where `SearchInv`
is needed: the clock a request has read is in time for a pair that is in time (`InTime`), blocks are
among those `Blockable` allows (`BlocksOK`), and jobs and vectors belong to photos that exist (`Known`).

`OwnersHear` determines the notifications of a photo by its status, through the refinement: each step of
the life cycle appends what it tells. `AnswerComesNearer` gives the variant that 4 uses.

`CutoverProofs` (any commits, operators, databases, sessions and rows, any number of faults) has its
invariants in three layers, each under as little as it needs:

- `HostInv`, of `Spec` without any assumption on operators: the types, the locks (who holds the host lock
  is at a step that needs it), and that a tag in use has an image. `TypeCorrect` follows from it.
- `IInv`, of `OrderlySpec`: it adds `NoneBeside` (no manual release beside a cutover) and `ReleaseInv`,
  which says what each deployment knows at its step (from the build on its image is its commit, from the
  migration on the schema is its revision, ...), what holds of the host at all times (an image is what
  its tag says, neither the running code nor the code that `.env` names is ahead of its database) and
  what the migration knows (from the end of the sessions to the switch nobody writes to the source, so
  the archive, the target and the source agree). A failure leaves any prefix of a script behind; what
  holds at all times is what all prefixes have in common. `SchemaIsReady`, `TagIsRunning` and
  `StoreImplemented` (`OrderlySpec => StoreSpec`) follow action by action.
- `ServiceInv`, of every behaviour of `Spec` without an `Interference`: an operator's checkout between the
  checkout of the service and its build, or an operator's `deploy.sh` between the end of the service's
  and its mark. `MarkIsRunning` says that `MarkedRuns` holds then, whatever else fails, is migrated or
  overlaps: these two steps are what the run `overlap` has to use. The invariant is what the service
  knows of the host at its step; a manual release that has read HEAD earlier is met by `.deploy.lock`.

`LostToRetry` and `KeptWithoutRetry` bound what the run `recovery` shows, under `Spec`: the saved settings
are wrong only while the source is fenced and the copy of `.env` exists, and they are right in every
behaviour in which no cutover starts on a source that an earlier one has fenced, whatever else fails or
overlaps. Their invariant `SettingsInv` follows the order of the script: `.env` is copied before the
source is fenced, and the settings are read before both.

The properties of the five violation runs do not hold, so they have no theorem by themselves; `crash`,
`reported`, `login`, `recovery` and `overlap` each have one that says when they hold, or what holds
instead.

Only model-checked: the liveness properties (`ValidationEnds`, `JobEnds`, `RequestsEnd`, `SearchEnds`,
`ReleaseArrives`). Out of the prover's reach: liveness under fairness (with ENABLED), and whatever would
need induction over data.

## 7. Not modelled, and the plan

Not modelled and why: image conversion and the HTTP clients of the providers (pure functions or external
services), configuration (start-up), schemas and error formats (layout), push delivery (not implemented
in the code), `backup.py` (a sequential script that shares no state with anything but a snapshot),
preferences and device tokens (single-row updates that nothing reads yet), what each alembic revision
changes (the constraints it creates are in the models of the tables).

Order of the work:

1. (done) `PhotoLifecycle`, `ValidationQueue`; `Matching`; `Postcards`, `Safety`, `Sessions`, `Accounts`
   and `PhotoUpload`; `Deployment`, `Cutover` and `DurableStore`; all with their proofs.
2. `MatchRanking`: weights, minimums and order as operators, against a reference definition.
3. Reading notifications, preferences and device tokens, where two devices meet.
4. A lease queue as an abstract specification that both queues implement; the pipeline as a composition
   of both.
