------------------------------ MODULE Matching ------------------------------
(***************************************************************************)
(* The embedding queue and automatic matching: the photos that search, their *)
(* embedding jobs, the workers that extract the vectors, and the requests of *)
(* the internal API, each of which stores a result, lists candidates and     *)
(* tries to finalize a match in several transactions while other requests,   *)
(* deletions, expirations, postcards and blocks commit in between.           *)
(*                                                                           *)
(* A transaction that locks every row it decides on is one action. The       *)
(* result handler is not one: request[r].step says how far it has come.      *)
(* Validation is left to ValidationQueue: a photo enters this module passed. *)
(***************************************************************************)
EXTENDS Naturals, Sequences, FiniteSets

CONSTANTS
    Photos,          \* photo ids, numbers: finalize sorts them
    Users,
    Owner,           \* photos.user_id
    RegisteredAt,    \* photos.registered_at
    Score,           \* final score of a pair in rank_candidates, 0 below a minimum
    CandidateLimit,  \* limit of list_candidates
    Workers,         \* worker_id values of the embedding workers
    NoWorker,        \* worker_id IS NULL
    NoJob,           \* a worker that runs no job
    MaxAttempts,     \* validation_max_attempts, also used for embedding jobs
    Requests,        \* the result and failure requests the API serves at a time
    Senders,         \* bound: the calls of PostcardRepository.send under way at a time
    Scheduler,       \* the process that runs expire_searching_photos.py, one at a time
    Blockable,       \* bound: the pairs <<blocker, blocked>> that may be stored
    Disturbances     \* bound: which disturbances an instance admits, of which photos

Pairs == {m \in SUBSET Photos : \E p, q \in Photos : m = {p, q}}

ASSUME ConstantsAssumption ==
    /\ Photos \subseteq Nat
    /\ IsFiniteSet(Photos)
    /\ Owner \in [Photos -> Users]
    /\ RegisteredAt \in [Photos -> Nat]
    /\ Score \in [Pairs -> Nat]
    /\ CandidateLimit \in Nat
    /\ NoWorker \notin Workers
    /\ NoJob \notin Photos
    /\ Requests \cap Senders = {}
    /\ Scheduler \notin Requests \cup Senders
    /\ MaxAttempts \in Nat \ {0}
    /\ Blockable \subseteq Users \X Users
    /\ Disturbances \subseteq
         {"deletion", "expiration", "lost claim", "slow worker", "failed extraction", "restart",
          "crash", "stopped scheduler"} \X Photos

VARIABLES
    photo,      \* photos
    job,        \* photo_embedding_jobs, keyed by its unique photo_id
    embedding,  \* the photos that have a photo_embeddings row
    matches,    \* matches, each with the photos of its two match_participants
    blocks,     \* blocks
    told,       \* notifications whose target is the photo or its match
    running,    \* the job each worker process is working on
    request,    \* the result and failure requests being served
    sends,      \* the postcards being sent: rows still to be locked, and rows held
    sweep       \* the UPDATE of the scheduler, likewise

vars == <<photo, job, embedding, matches, blocks, told, running, request, sends, sweep>>

-----------------------------------------------------------------------------
(* Rows and requests *)

PhotoStatus == {"ABSENT", "SEARCHING", "MATCHED", "EXPIRED", "DELETED"}

\* due: search_expires_at has passed.
PhotoRow == [status : PhotoStatus, due : BOOLEAN]

JobStatus == {"ABSENT", "PENDING", "PROCESSING", "COMPLETED", "FAILED"}

\* leased: started_at is less than the lease ago, read only while PROCESSING. The
\* retry delay is not kept: a PENDING job may be claimed at any later time.
JobRow == [status : JobStatus, worker_id : Workers \cup {NoWorker},
           attempt_count : 0..(MaxAttempts + 1), leased : BOOLEAN]

Step == {"idle",      \* no request
         "received",  \* posted, nothing done yet
         "saved",     \* the result is committed, orchestrate_match begins
         "ranked",    \* candidates listed and ranked, none or the last one tried
         "locking",   \* finalize has read the clock and waits for its first row
         "waiting",   \* it holds the first row and waits for the second
         "deciding"}  \* it holds both rows, and every check has passed

\* left: the ranked candidates not given up yet; in_time: neither photo of the
\* pair was due when finalize_match read the clock.
Request == [step : Step, outcome : {"RESULT", "RETRYABLE", "FATAL"},
            photo : Photos \cup {NoJob}, worker : Workers \cup {NoWorker},
            left : SUBSET Photos, in_time : BOOLEAN]

\* A transaction that locks photos one after the other, and then decides.
Locking == [todo : SUBSET Photos, held : SUBSET Photos]

NotificationType == {"VALIDATION_PASSED", "MATCHED", "SEARCH_EXPIRED"}

TypeOK ==
    /\ photo \in [Photos -> PhotoRow]
    /\ job \in [Photos -> JobRow]
    /\ embedding \in SUBSET Photos
    /\ matches \in SUBSET Pairs
    /\ blocks \in SUBSET (Users \X Users)
    /\ told \in [Photos -> Seq(NotificationType)]
    /\ running \in [Workers -> Photos \cup {NoJob}]
    /\ request \in [Requests -> Request]
    /\ sends \in [Senders -> Locking]
    /\ sweep \in Locking

NoJobRow == [status |-> "ABSENT", worker_id |-> NoWorker, attempt_count |-> 0, leased |-> FALSE]

Idle == [step |-> "idle", outcome |-> "RESULT", photo |-> NoJob, worker |-> NoWorker,
         left |-> {}, in_time |-> FALSE]

NoLocking == [todo |-> {}, held |-> {}]

Init ==
    /\ photo = [p \in Photos |-> [status |-> "ABSENT", due |-> FALSE]]
    /\ job = [p \in Photos |-> NoJobRow]
    /\ embedding = {}
    /\ matches = {}
    /\ blocks = {}
    /\ told = [p \in Photos |-> <<>>]
    /\ running = [w \in Workers |-> NoJob]
    /\ request = [r \in Requests |-> Idle]
    /\ sends = [s \in Senders |-> NoLocking]
    /\ sweep = NoLocking

-----------------------------------------------------------------------------
(* Ranking *)

Blocked(u, v) == <<u, v>> \in blocks \/ <<v, u>> \in blocks

\* Mutant of Comparable: a new photo is compared with the older ones only.
Comparable_older(p) ==
    {q \in Photos : /\ Owner[q] # Owner[p]
                    /\ RegisteredAt[q] < RegisteredAt[p]
                    /\ photo[q].status = "SEARCHING"
                    /\ ~photo[q].due
                    /\ q \in embedding
                    /\ ~Blocked(Owner[p], Owner[q])}

\* The rows of build_candidate_query without its limit. The test that a photo was
\* registered within 7 days is implied: search_expires_at is registered_at + 7 days.
Comparable(p) ==
    {q \in Photos : /\ Owner[q] # Owner[p]
                    /\ photo[q].status = "SEARCHING"
                    /\ ~photo[q].due
                    /\ q \in embedding
                    /\ ~Blocked(Owner[p], Owner[q])}

\* The first limit photos of S by registered_at.
Oldest(S) ==
    {q \in S : Cardinality({d \in S : RegisteredAt[d] < RegisteredAt[q]}) < CandidateLimit}

\* What rank_candidates keeps of them.
Candidates(p) == {q \in Oldest(Comparable(p)) : Score[{p, q}] > 0}

\* The order of rank_candidates: higher scores first, then smaller ids.
Best(p, left) ==
    CHOOSE c \in left : \A d \in left \ {c} : \/ Score[{p, c}] > Score[{p, d}]
                                              \/ Score[{p, c}] = Score[{p, d}] /\ c < d

-----------------------------------------------------------------------------
(* Row locks *)

Candidate(r) == Best(request[r].photo, request[r].left)

Pair(r) == {request[r].photo, Candidate(r)}

\* Mutant of FirstRow: the photo of the job first, then the candidate.
FirstRow_source(r) == request[r].photo

\* finalize locks its two rows in the order of their ids.
FirstRow(r) == CHOOSE p \in Pair(r) : \A q \in Pair(r) : p <= q

SecondRow(r) == CHOOSE p \in Pair(r) : p # FirstRow(r)

\* The row locks that a request holds on photos between two actions.
LockedBy(r) == CASE request[r].step = "waiting" -> {FirstRow(r)}
                 [] request[r].step = "deciding" -> Pair(r)
                 [] OTHER -> {}

\* send locks the photos of its match by registered_at, then by id.
NextRow(s) ==
    CHOOSE p \in sends[s].todo :
      \A q \in sends[s].todo : \/ RegisteredAt[p] < RegisteredAt[q]
                               \/ RegisteredAt[p] = RegisteredAt[q] /\ p <= q

Holds(x) == CASE x \in Requests -> LockedBy(x)
              [] x \in Senders -> sends[x].held
              [] x = Scheduler -> sweep.held

\* Whoever may hold a photo's lock from one action to the next, and wait for another.
Lockers == Requests \cup Senders \cup {Scheduler}

Unlocked(p) == \A x \in Lockers : p \notin Holds(x)

\* The rows for which x would wait while it holds others. The UPDATE takes its rows
\* in the order of its scan, which may be any.
Wants(x) == CASE x \in Requests -> IF request[x].step = "waiting" THEN {SecondRow(x)} ELSE {}
              [] x \in Senders -> IF sends[x].todo = {} THEN {} ELSE {NextRow(x)}
              [] x = Scheduler -> sweep.todo

\* Each member waits for a row of another, and another waits for one of its rows.
Cycle(C) ==
    /\ C # {}
    /\ \A x \in C : \E y, z \in C \ {x} : /\ Wants(x) \cap Holds(y) # {}
                                         /\ Wants(z) \cap Holds(x) # {}

\* PostgreSQL aborts a transaction that waits in a cycle.
Deadlocked(x) == \E C \in SUBSET {y \in Lockers : Wants(y) # {}} : x \in C /\ Cycle(C)

-----------------------------------------------------------------------------
(* The owners' requests, and the scheduler *)

\* The upload with mock validation. The passing result of a real validation does
\* the same to these rows.
create_photo(p) ==
    /\ photo[p].status = "ABSENT"
    /\ \A q \in Photos : RegisteredAt[q] < RegisteredAt[p] => photo[q].status # "ABSENT"
    /\ photo' = [photo EXCEPT ![p].status = "SEARCHING"]
    /\ job' = [job EXCEPT ![p].status = "PENDING"]
    /\ told' = [told EXCEPT ![p] = Append(@, "VALIDATION_PASSED")]
    /\ UNCHANGED <<embedding, matches, blocks, running, request, sends, sweep>>

\* Mutant of delete_photo: the row is read without FOR UPDATE.
delete_photo_unlocked(p) ==
    /\ <<"deletion", p>> \in Disturbances
    /\ photo[p].status \in {"SEARCHING", "EXPIRED"}
    /\ photo' = [photo EXCEPT ![p].status = "DELETED"]
    /\ UNCHANGED <<job, embedding, matches, blocks, told, running, request, sends, sweep>>

\* It waits for the row lock, and leaves the job and the embedding as they are.
delete_photo(p) ==
    /\ <<"deletion", p>> \in Disturbances
    /\ Unlocked(p)
    /\ photo[p].status \in {"SEARCHING", "EXPIRED"}
    /\ photo' = [photo EXCEPT ![p].status = "DELETED"]
    /\ UNCHANGED <<job, embedding, matches, blocks, told, running, request, sends, sweep>>

SearchPeriodEnds(p) ==
    /\ <<"expiration", p>> \in Disturbances
    /\ photo[p].status = "SEARCHING"
    /\ ~photo[p].due
    /\ photo' = [photo EXCEPT ![p].due = TRUE]
    /\ UNCHANGED <<job, embedding, matches, blocks, told, running, request, sends, sweep>>

\* Mutant of Expires: the UPDATE without its test of the status.
Expires_any_status(p) == photo[p].due

\* Mutant of Expires: only photos that could be matched at all.
Expires_embedded(p) == photo[p].status = "SEARCHING" /\ photo[p].due /\ p \in embedding

\* The condition of the UPDATE.
Expires(p) == photo[p].status = "SEARCHING" /\ photo[p].due

\* The UPDATE finds the photos that are due.
expire_due ==
    LET due == {p \in Photos : Expires(p)}
    IN  /\ sweep = NoLocking
        /\ due # {}
        /\ sweep' = [todo |-> due, held |-> {}]
        /\ UNCHANGED <<photo, job, embedding, matches, blocks, told, running, request, sends>>

\* It waits for the lock of one of them. It keeps the lock also when it finds that the
\* row no longer fits its condition.
expire_row(p) ==
    /\ p \in sweep.todo
    /\ Unlocked(p)
    /\ sweep' = [todo |-> sweep.todo \ {p}, held |-> sweep.held \cup {p}]
    /\ UNCHANGED <<photo, job, embedding, matches, blocks, told, running, request, sends>>

\* The photos that still fit and their notifications are committed together.
expire_commit ==
    LET expired == {p \in sweep.held : Expires(p)}
    IN  /\ sweep.todo = {}
        /\ sweep.held # {}
        /\ photo' = [p \in Photos |-> IF p \in expired
                                       THEN [photo[p] EXCEPT !.status = "EXPIRED"] ELSE photo[p]]
        /\ told' = [p \in Photos |-> IF p \in expired THEN Append(told[p], "SEARCH_EXPIRED")
                                     ELSE told[p]]
        /\ sweep' = NoLocking
        /\ UNCHANGED <<job, embedding, matches, blocks, running, request, sends>>

\* The script or its connection dies, or PostgreSQL ends its transaction.
expire_aborted ==
    /\ sweep # NoLocking
    /\ \/ \E p \in Photos : <<"stopped scheduler", p>> \in Disturbances
       \/ Deadlocked(Scheduler)
    /\ sweep' = NoLocking
    /\ UNCHANGED <<photo, job, embedding, matches, blocks, told, running, request, sends>>

\* A postcard for a match, by one of the two owners: both photos are read under locks.
\* What it decides and stores is left to Postcards.
send(s, m) ==
    /\ sends[s] = NoLocking
    /\ sends' = [sends EXCEPT ![s].todo = m]
    /\ UNCHANGED <<photo, job, embedding, matches, blocks, told, running, request, sweep>>

send_locks(s) ==
    /\ sends[s].todo # {}
    /\ Unlocked(NextRow(s))
    /\ sends' = [sends EXCEPT ![s] = [todo |-> @.todo \ {NextRow(s)},
                                      held |-> @.held \cup {NextRow(s)}]]
    /\ UNCHANGED <<photo, job, embedding, matches, blocks, told, running, request, sweep>>

\* The postcard is committed or refused. Before it has both locks, send ends only when
\* the process or its connection dies, or PostgreSQL ends its transaction.
send_ends(s) ==
    /\ sends[s] # NoLocking
    /\ sends' = [sends EXCEPT ![s] = NoLocking]
    /\ UNCHANGED <<photo, job, embedding, matches, blocks, told, running, request, sweep>>

\* Neither takes a lock on photos or users.
block(u, v) ==
    /\ <<u, v>> \in Blockable \ blocks
    /\ u # v
    /\ blocks' = blocks \cup {<<u, v>>}
    /\ UNCHANGED <<photo, job, embedding, matches, told, running, request, sends, sweep>>

unblock(u, v) ==
    /\ <<u, v>> \in blocks
    /\ blocks' = blocks \ {<<u, v>>}
    /\ UNCHANGED <<photo, job, embedding, matches, told, running, request, sends, sweep>>

-----------------------------------------------------------------------------
(* The embedding queue and its workers *)

Claimable(p) ==
    \/ job[p].status = "PENDING"
    \/ job[p].status = "PROCESSING" /\ ~job[p].leased

Lower(a, b) == IF a < b THEN a ELSE b

\* The lease is committed before the worker hears of it, if it ever does. Attempt
\* counts above max_attempts are not told apart.
claim_next(w, p, received) ==
    /\ received \/ <<"lost claim", p>> \in Disturbances
    /\ running[w] = NoJob
    /\ Claimable(p)
    /\ photo[p].status = "SEARCHING"
    /\ job' = [job EXCEPT
                 ![p] = [status |-> "PROCESSING", worker_id |-> w, leased |-> TRUE,
                         attempt_count |-> Lower(job[p].attempt_count + 1, MaxAttempts + 1)]]
    /\ running' = IF received THEN [running EXCEPT ![w] = p] ELSE running
    /\ UNCHANGED <<photo, embedding, matches, blocks, told, request, sends, sweep>>

\* Mutant of claim_next_unavailable: the error code is written into the status.
claim_next_unavailable_code(p) ==
    /\ \E w \in Workers : running[w] = NoJob
    /\ Claimable(p)
    /\ photo[p].status # "SEARCHING"
    /\ job' = [job EXCEPT ![p] = [@ EXCEPT !.status = "PHOTO_NOT_AVAILABLE", !.leased = FALSE]]
    /\ UNCHANGED <<photo, embedding, matches, blocks, told, running, request, sends, sweep>>

claim_next_unavailable(p) ==
    /\ \E w \in Workers : running[w] = NoJob
    /\ Claimable(p)
    /\ photo[p].status # "SEARCHING"
    /\ job' = [job EXCEPT ![p] = [@ EXCEPT !.status = "FAILED", !.leased = FALSE]]
    /\ UNCHANGED <<photo, embedding, matches, blocks, told, running, request, sends, sweep>>

LeaseEnds(p) ==
    /\ <<"slow worker", p>> \in Disturbances
    /\ job[p].leased
    /\ job' = [job EXCEPT ![p].leased = FALSE]
    /\ UNCHANGED <<photo, embedding, matches, blocks, told, running, request, sends, sweep>>

\* run_embedding_once after the claim: one request reports the vectors or the
\* failure, and the worker goes on, by itself or started again, before or after
\* the answer.
run_embedding_once(w, r, outcome) ==
    /\ outcome = "RESULT" \/ <<"failed extraction", running[w]>> \in Disturbances
    /\ running[w] # NoJob
    /\ request[r] = Idle
    /\ request' = [request EXCEPT ![r] = [Idle EXCEPT !.step = "received",
                                                      !.outcome = outcome,
                                                      !.photo = running[w],
                                                      !.worker = w]]
    /\ running' = [running EXCEPT ![w] = NoJob]
    /\ UNCHANGED <<photo, job, embedding, matches, blocks, told, sends, sweep>>

Restart(w) ==
    /\ <<"restart", running[w]>> \in Disturbances
    /\ running[w] # NoJob
    /\ running' = [running EXCEPT ![w] = NoJob]
    /\ UNCHANGED <<photo, job, embedding, matches, blocks, told, request, sends, sweep>>

-----------------------------------------------------------------------------
(* The result and failure handlers, one transaction at a time *)

\* The request goes on with new values of its fields.
Moves(r, new) == request' = [request EXCEPT ![r] = new]

\* The answer is sent: a result, no match, or an error of any kind.
Answer(r) == Moves(r, Idle)

\* The lease check of _locked_job on a job that is not completed.
HoldsLease(r) ==
    /\ job[request[r].photo].status = "PROCESSING"
    /\ job[request[r].photo].worker_id = request[r].worker

\* The vectors and the end of the job are committed together, before the search.
apply_result(r) ==
    LET p == request[r].photo
    IN  /\ request[r].step = "received"
        /\ request[r].outcome = "RESULT"
        /\ HoldsLease(r)
        /\ embedding' = embedding \cup {p}
        /\ job' = [job EXCEPT ![p] = [@ EXCEPT !.status = "COMPLETED", !.worker_id = NoWorker,
                                               !.leased = FALSE]]
        /\ Moves(r, [request[r] EXCEPT !.step = "saved"])
        /\ UNCHANGED <<photo, matches, blocks, told, running, sends, sweep>>

\* The result of a job that is already completed is not stored, but the search
\* is made again.
apply_result_again(r) ==
    /\ request[r].step = "received"
    /\ request[r].outcome = "RESULT"
    /\ job[request[r].photo].status = "COMPLETED"
    /\ Moves(r, [request[r] EXCEPT !.step = "saved"])
    /\ UNCHANGED <<photo, job, embedding, matches, blocks, told, running, sends, sweep>>

\* 409: the lease was lost, or a failure comes after the result.
refuse(r) ==
    /\ request[r].step = "received"
    /\ ~HoldsLease(r)
    /\ job[request[r].photo].status = "COMPLETED" => request[r].outcome # "RESULT"
    /\ Answer(r)
    /\ UNCHANGED <<photo, job, embedding, matches, blocks, told, running, sends, sweep>>

\* A failure that is final closes the job; the photo is not touched.
record_failure(r) ==
    LET p == request[r].photo
        retries == request[r].outcome = "RETRYABLE" /\ job[p].attempt_count < MaxAttempts
    IN  /\ request[r].step = "received"
        /\ request[r].outcome # "RESULT"
        /\ HoldsLease(r)
        /\ job' = [job EXCEPT ![p] = [@ EXCEPT !.status = IF retries THEN "PENDING" ELSE "FAILED",
                                               !.worker_id = NoWorker, !.leased = FALSE]]
        /\ Answer(r)
        /\ UNCHANGED <<photo, embedding, matches, blocks, told, running, sends, sweep>>

\* The source is read, the candidates are listed and ranked. Nothing is locked.
list_candidates(r) ==
    LET p == request[r].photo
    IN  /\ request[r].step = "saved"
        /\ IF photo[p].status = "SEARCHING" /\ ~photo[p].due
           THEN Moves(r, [request[r] EXCEPT !.step = "ranked", !.left = Candidates(p)])
           ELSE Answer(r)
        /\ UNCHANGED <<photo, job, embedding, matches, blocks, told, running, sends, sweep>>

\* No candidate is left: the photo keeps searching.
no_match(r) ==
    /\ request[r].step = "ranked"
    /\ request[r].left = {}
    /\ Answer(r)
    /\ UNCHANGED <<photo, job, embedding, matches, blocks, told, running, sends, sweep>>

\* finalize_match reads the clock before it waits for a lock.
finalize_match(r) ==
    /\ request[r].step = "ranked"
    /\ request[r].left # {}
    /\ Moves(r, [request[r] EXCEPT !.step = "locking",
                                   !.in_time = \A p \in Pair(r) : ~photo[p].due])
    /\ UNCHANGED <<photo, job, embedding, matches, blocks, told, running, sends, sweep>>

lock_first(r) ==
    /\ request[r].step = "locking"
    /\ Unlocked(FirstRow(r))
    /\ Moves(r, [request[r] EXCEPT !.step = "waiting"])
    /\ UNCHANGED <<photo, job, embedding, matches, blocks, told, running, sends, sweep>>

\* Mutant of Acceptable: the statuses are not read again under the locks.
Acceptable_stale(r) ==
    /\ request[r].in_time
    /\ \A p, q \in Pair(r) : ~Blocked(Owner[p], Owner[q])

\* What finalize checks once it holds both rows. The owners differ: Candidates
\* holds no other photo of the owner. The blocks are read, not locked.
Acceptable(r) ==
    /\ \A p \in Pair(r) : photo[p].status = "SEARCHING"
    /\ request[r].in_time
    /\ \A p, q \in Pair(r) : ~Blocked(Owner[p], Owner[q])

\* Mutant of lock_second: a candidate that is refused is tried again.
lock_second_again(r) ==
    /\ request[r].step = "waiting"
    /\ Unlocked(SecondRow(r))
    /\ Moves(r, [request[r] EXCEPT !.step = IF Acceptable(r) THEN "deciding" ELSE "ranked"])
    /\ UNCHANGED <<photo, job, embedding, matches, blocks, told, running, sends, sweep>>

\* With the second lock come the checks: the pair is decided on, or the
\* transaction is rolled back and the next candidate has its turn.
lock_second(r) ==
    /\ request[r].step = "waiting"
    /\ Unlocked(SecondRow(r))
    /\ IF Acceptable(r)
       THEN Moves(r, [request[r] EXCEPT !.step = "deciding"])
       ELSE Moves(r, [request[r] EXCEPT !.step = "ranked",
                                        !.left = @ \ {Candidate(r)},
                                        !.in_time = FALSE])
    /\ UNCHANGED <<photo, job, embedding, matches, blocks, told, running, sends, sweep>>

\* The match, its participants, both photos and both notifications are committed.
commit_match(r) ==
    /\ request[r].step = "deciding"
    /\ matches' = matches \cup {Pair(r)}
    /\ photo' = [p \in Photos |-> IF p \in Pair(r) THEN [photo[p] EXCEPT !.status = "MATCHED"]
                                  ELSE photo[p]]
    /\ told' = [p \in Photos |-> IF p \in Pair(r) THEN Append(told[p], "MATCHED") ELSE told[p]]
    /\ Answer(r)
    /\ UNCHANGED <<job, embedding, blocks, running, sends, sweep>>

\* The process, its connection or its transaction dies between two commits. The
\* victim of a deadlock is answered with an error that ends its search.
crash(r) ==
    /\ request[r].step # "idle"
    /\ <<"crash", request[r].photo>> \in Disturbances \/ Deadlocked(r)
    /\ Answer(r)
    /\ UNCHANGED <<photo, job, embedding, matches, blocks, told, running, sends, sweep>>

\* The steps of a request that is being served.
Serve(r) ==
    \/ apply_result(r)
    \/ apply_result_again(r)
    \/ refuse(r)
    \/ record_failure(r)
    \/ list_candidates(r)
    \/ no_match(r)
    \/ finalize_match(r)
    \/ lock_first(r)
    \/ lock_second(r)
    \/ commit_match(r)

Next ==
    \/ \E p \in Photos : create_photo(p)
    \/ \E p \in Photos : delete_photo(p)
    \/ \E p \in Photos : SearchPeriodEnds(p)
    \/ expire_due
    \/ \E p \in Photos : expire_row(p)
    \/ expire_commit
    \/ expire_aborted
    \/ \E s \in Senders, m \in matches : send(s, m)
    \/ \E s \in Senders : send_locks(s)
    \/ \E s \in Senders : send_ends(s)
    \/ \E u, v \in Users : block(u, v)
    \/ \E u, v \in Users : unblock(u, v)
    \/ \E w \in Workers, p \in Photos, received \in BOOLEAN : claim_next(w, p, received)
    \/ \E p \in Photos : claim_next_unavailable(p)
    \/ \E p \in Photos : LeaseEnds(p)
    \/ \E w \in Workers, r \in Requests, outcome \in {"RESULT", "RETRYABLE", "FATAL"} :
          run_embedding_once(w, r, outcome)
    \/ \E w \in Workers : Restart(w)
    \/ \E r \in Requests : Serve(r)
    \/ \E r \in Requests : crash(r)

Spec == Init /\ [][Next]_vars

-----------------------------------------------------------------------------
(* Fairness *)

\* The API goes on with every request and postcard it has begun, and PostgreSQL hands
\* a row to the one that waits for it, also if others come back for it again and again.
ApiRuns ==
    /\ \A r \in Requests : SF_vars(Serve(r))
    /\ \A s \in Senders : SF_vars(IF sends[s].todo = {} THEN send_ends(s) ELSE send_locks(s))

\* One step of a run of expire_searching_photos.py.
ExpireDue == expire_due \/ (\E p \in Photos : expire_row(p)) \/ expire_commit

\* Search periods end, and the scheduler runs expire_searching_photos again and
\* again; its UPDATE is in the queue for the locks it meets.
SchedulerRuns == WF_vars(\E p \in Photos : SearchPeriodEnds(p)) /\ SF_vars(ExpireDue)

DeadlockEnds ==
    \/ Deadlocked(Scheduler) /\ expire_aborted
    \/ \E r \in Requests : Deadlocked(r) /\ crash(r)
    \/ \E s \in Senders : Deadlocked(s) /\ send_ends(s)

\* PostgreSQL looks for a deadlock whenever it has waited for a second.
PostgresRuns == WF_vars(DeadlockEnds)

LiveSpec == Spec /\ ApiRuns /\ SchedulerRuns /\ PostgresRuns

-----------------------------------------------------------------------------
(* Properties *)

\* A photo is in one match at most, and is MATCHED exactly when it is in one; a
\* match joins similar photos of two owners. Requests that compete for the same
\* photo from stale candidate lists, deletions and expirations never break this.
MatchedOnce ==
    /\ \A p \in Photos :
         LET with == {m \in matches : p \in m}
         IN  /\ Cardinality(with) <= 1
             /\ photo[p].status = "MATCHED" <=> with # {}
    /\ \A m \in matches : \E p, q \in m : /\ m = {p, q}
                                          /\ Owner[p] # Owner[q]
                                          /\ Score[m] > 0

\* A pair whose checks have passed stays as it was checked until it is committed:
\* no deletion, expiration or other match gets in between, and no two requests
\* decide on the same photo.
DecisionHolds ==
    \A r \in Requests :
      request[r].step = "deciding" =>
        /\ \A p \in Pair(r) : photo[p].status = "SEARCHING" /\ p \in embedding
        /\ \A s \in Requests \ {r} : request[s].step = "deciding" => Pair(r) \cap Pair(s) = {}

\* Requests never wait for each other in a circle, whatever candidates they try and
\* however many they are, and neither do postcards. finalize, send and the UPDATE of
\* the scheduler each have their own order of rows, by id, by registration and by
\* scan: an answer that PostgreSQL turns into an error has met one of another kind.
NoDeadlock ==
    /\ \A C \in SUBSET Requests : ~Cycle(C)
    /\ \A C \in SUBSET Senders : ~Cycle(C)

\* A photo that waits to be looked at: its request has yet to list its candidates,
\* or still works on them.
InSearch(p) == \E r \in Requests : request[r].photo = p /\ request[r].step # "received"

\* MATCH-01: the photos of the last 7 days are compared both ways. Two similar
\* photos that both search and both have their vectors, of owners who never
\* blocked each other, are not left unmatched once the requests that stored the
\* vectors are over, whatever the order in which they committed and listed. Only a
\* request that dies, or that PostgreSQL ends, takes its search with it.
NoMissedPair ==
    \A p, q \in Photos :
      /\ {p, q} \subseteq embedding
      /\ Owner[p] # Owner[q]
      /\ Score[{p, q}] > 0
      /\ {<<Owner[p], Owner[q]>>, <<Owner[q], Owner[p]>>} \cap Blockable = {}
      /\ \A x \in {p, q} : photo[x].status = "SEARCHING" /\ ~photo[x].due
      => InSearch(p) \/ InSearch(q)

\* Matching implements the lifecycle that the owner of a photo is promised.
Lifecycle == INSTANCE PhotoLifecycle
               WITH status <- [p \in Photos |-> photo[p].status], told <- told

LifecycleSpec == Lifecycle!Spec

\* Every request is answered: no request waits for the rows of another, of a postcard
\* or of the scheduler, for good.
RequestsEnd == \A r \in Requests : request[r].step # "idle" ~> request[r].step = "idle"

\* A search ends, by a match, a deletion or its expiration.
SearchEnds == \A p \in Photos : photo[p].status = "SEARCHING" ~> photo[p].status # "SEARCHING"

=============================================================================
