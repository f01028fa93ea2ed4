---------------------------- MODULE MatchingProofs ----------------------------
(*****************************************************************************)
(* Proofs for Matching: what the runs of TLC check for two and three photos, *)
(* for any finite number of photos and any number of users, workers,         *)
(* requests and postcards; when a pair cannot be missed, what the owners are *)
(* told, and that each step of a request brings it nearer to its answer.     *)
(*****************************************************************************)
EXTENDS Matching, FiniteSetTheorems, SequenceTheorems, TLAPS

-----------------------------------------------------------------------------
(* Candidates *)

\* A strict order on a finite set has a first element.
LEMMA FirstOfOrder ==
  ASSUME NEW S, IsFiniteSet(S), S # {}, NEW before \in SUBSET (S \X S),
         \A x \in S : <<x, x>> \notin before,
         \A x, y, z \in S : <<x, y>> \in before /\ <<y, z>> \in before => <<x, z>> \in before
  PROVE  \E x \in S : \A y \in S : <<y, x>> \notin before
  <1> DEFINE Down(x) == {y \in S : <<y, x>> \in before}
             Downs == {Down(x) : x \in S}
  <1>1. IsWellFoundedOn(StrictSubsetOrdering(S), FiniteSubsetsOf(S))
    BY FS_StrictSubsetOrderingWellFounded
  <1>2. Downs \subseteq FiniteSubsetsOf(S) /\ Downs # {}
    <2>1. \A x \in S : Down(x) \in SUBSET S /\ IsFiniteSet(Down(x))
      BY FS_Subset
    <2>2. \A x \in S : Down(x) \in FiniteSubsetsOf(S)
      BY <2>1 DEF FiniteSubsetsOf
    <2> HIDE DEF Down
    <2>3. QED
      BY <2>2
  <1>3. \E D \in Downs : \A E \in Downs : <<E, D>> \notin StrictSubsetOrdering(S)
    <2> HIDE DEF Downs
    <2> QED BY <1>1, <1>2, WFMin
  <1>4. PICK x \in S : \A y \in S : <<Down(y), Down(x)>> \notin StrictSubsetOrdering(S)
    <2> HIDE DEF Down
    <2> QED BY <1>3
  <1>5. SUFFICES ASSUME NEW y \in S, <<y, x>> \in before PROVE FALSE
    OBVIOUS
  <1>6. Down(y) \subseteq Down(x) /\ y \in Down(x) /\ y \notin Down(y)
    BY <1>5
  <1>7. <<Down(y), Down(x)>> \in StrictSubsetOrdering(S)
    BY <1>6 DEF StrictSubsetOrdering
  <1>8. QED
    BY <1>4, <1>7

\* rank_candidates has a first candidate whenever it has one.
LEMMA BestOfLeft ==
  ASSUME NEW p \in Photos, NEW left \in SUBSET Photos, left # {}
  PROVE  Best(p, left) \in left
  <1> DEFINE Better(c, d) == \/ Score[{p, c}] > Score[{p, d}]
                             \/ Score[{p, c}] = Score[{p, d}] /\ c < d
             before == {cd \in left \X left : Better(cd[1], cd[2])}
  <1>1. \A c \in left : Score[{p, c}] \in Nat /\ c \in Nat
    <2>1. Score \in [Pairs -> Nat] /\ Photos \subseteq Nat
      BY ConstantsAssumption
    <2>2. \A c \in left : {p, c} \in Pairs
      BY DEF Pairs
    <2> HIDE DEF Better, before
    <2>3. QED
      BY <2>1, <2>2
  <1>2. IsFiniteSet(left)
    <2>1. IsFiniteSet(Photos)
      BY ConstantsAssumption
    <2>2. QED
      BY <2>1, FS_Subset
  <1>3. \A c \in left : ~Better(c, c)
    BY <1>1
  <1>4. \A c, d, e \in left : Better(c, d) /\ Better(d, e) => Better(c, e)
    BY <1>1
  <1>5. \A c, d \in left : c = d \/ Better(c, d) \/ Better(d, c)
    BY <1>1
  <1> HIDE DEF Better
  <1>6. \E c \in left : \A d \in left : <<d, c>> \notin before
    BY <1>2, <1>3, <1>4, FirstOfOrder
  <1>7. PICK c \in left : \A d \in left : ~Better(d, c)
    BY <1>6
  <1>8. \A d \in left \ {c} : Better(c, d)
    BY <1>5, <1>7
  <1>9. QED
    BY <1>8 DEF Best, Better

\* The order in which a postcard locks its rows.
RowBefore(p, q) == \/ RegisteredAt[p] < RegisteredAt[q]
                   \/ RegisteredAt[p] = RegisteredAt[q] /\ p < q

\* A postcard that has rows to lock has a first one.
LEMMA NextRowOfSend ==
  ASSUME TypeOK, NEW s \in Senders, sends[s].todo # {}
  PROVE  NextRow(s) \in sends[s].todo /\ \A q \in sends[s].todo \ {NextRow(s)} : RowBefore(NextRow(s), q)
  <1> DEFINE todo == sends[s].todo
             before == {pq \in todo \X todo : RowBefore(pq[1], pq[2])}
  <1>1. todo \in SUBSET Photos /\ todo # {}
    BY DEF TypeOK, Locking
  <1>2. \A p \in todo : RegisteredAt[p] \in Nat /\ p \in Nat
    BY <1>1, ConstantsAssumption
  <1>3. IsFiniteSet(todo)
    BY <1>1, FS_Subset, ConstantsAssumption
  <1> HIDE DEF todo
  <1>4. \A p \in todo : ~RowBefore(p, p)
    BY <1>2 DEF RowBefore
  <1>5. \A p, q, x \in todo : RowBefore(p, q) /\ RowBefore(q, x) => RowBefore(p, x)
    BY <1>2 DEF RowBefore
  <1>6. \A p, q \in todo : p = q \/ RowBefore(p, q) \/ RowBefore(q, p)
    BY <1>2 DEF RowBefore
  <1>7. PICK p \in todo : \A q \in todo : <<q, p>> \notin before
    BY <1>1, <1>3, <1>4, <1>5, FirstOfOrder
  <1>8. \A q \in todo \ {p} : RowBefore(p, q)
    BY <1>6, <1>7
  <1>9. \A q \in todo : \/ RegisteredAt[p] < RegisteredAt[q]
                        \/ RegisteredAt[p] = RegisteredAt[q] /\ p <= q
    BY <1>2, <1>8 DEF RowBefore
  <1>10. /\ NextRow(s) \in todo
         /\ \A q \in todo : \/ RegisteredAt[NextRow(s)] < RegisteredAt[q]
                            \/ RegisteredAt[NextRow(s)] = RegisteredAt[q] /\ NextRow(s) <= q
    BY <1>9 DEF NextRow, todo
  <1>11. QED
    BY <1>2, <1>10 DEF todo, RowBefore

\* The two rows of a pair in the order of their locks are its two photos.
LEMMA PairRows ==
  ASSUME NEW r \in Requests, Pair(r) \subseteq Photos, Candidate(r) # request[r].photo
  PROVE  /\ FirstRow(r) \in Pair(r)
         /\ SecondRow(r) \in Pair(r)
         /\ Pair(r) = {FirstRow(r), SecondRow(r)}
  <1> DEFINE a == request[r].photo
             b == Candidate(r)
  <1>0. Photos \subseteq Nat
    BY ConstantsAssumption
  <1>1. a \in Nat /\ b \in Nat
    BY <1>0 DEF Pair
  <1>2. \E p \in Pair(r) : \A q \in Pair(r) : p <= q
    BY <1>1 DEF Pair
  <1>3. FirstRow(r) \in Pair(r)
    BY <1>2 DEF FirstRow
  <1>4. \E p \in Pair(r) : p # FirstRow(r)
    BY DEF Pair
  <1>5. SecondRow(r) \in Pair(r) /\ SecondRow(r) # FirstRow(r)
    BY <1>4 DEF SecondRow
  <1>6. QED
    BY <1>3, <1>5 DEF Pair

\* The first row has the smaller id.
LEMMA RowOrder ==
  ASSUME NEW r \in Requests, Pair(r) \subseteq Photos, Candidate(r) # request[r].photo
  PROVE  FirstRow(r) \in Photos /\ SecondRow(r) \in Nat /\ FirstRow(r) < SecondRow(r)
  <1> DEFINE a == request[r].photo
             b == Candidate(r)
  <1>1. Photos \subseteq Nat
    BY ConstantsAssumption
  <1>2. a \in Nat /\ b \in Nat /\ a # b /\ Pair(r) = {a, b}
    BY <1>1 DEF Pair
  <1> HIDE DEF a, b
  <1>3. \E p \in Pair(r) : \A q \in Pair(r) : p <= q
    BY <1>2
  <1>4. FirstRow(r) \in Pair(r) /\ \A q \in Pair(r) : FirstRow(r) <= q
    BY <1>3 DEF FirstRow
  <1>5. SecondRow(r) \in Pair(r) /\ SecondRow(r) # FirstRow(r)
    <2>1. \E p \in Pair(r) : p # FirstRow(r)
      BY <1>2
    <2>2. QED
      BY <2>1 DEF SecondRow
  <1>6. QED
    BY <1>1, <1>2, <1>4, <1>5

\* A request that keeps its photo and its ranked candidates keeps its pair and its rows.
LEMMA SamePair ==
  ASSUME NEW r \in Requests,
         request'[r].photo = request[r].photo, request'[r].left = request[r].left
  PROVE  Pair(r)' = Pair(r) /\ FirstRow(r)' = FirstRow(r) /\ Candidate(r)' = Candidate(r)
  <1>1. Candidate(r)' = Candidate(r)
    BY DEF Candidate
  <1>2. Pair(r)' = Pair(r)
    BY <1>1 DEF Pair
  <1>3. FirstRow(r)' = FirstRow(r)
    BY <1>2 DEF FirstRow
  <1>4. QED
    BY <1>1, <1>2, <1>3

-----------------------------------------------------------------------------
(* The inductive invariant *)

Finalizing == {"locking", "waiting", "deciding"}

\* What a request knows of the photos at its step.
RequestOK(r) ==
    LET q == request[r]
    IN  /\ q.step # "idle" => q.photo \in Photos
        /\ q.step \notin {"idle", "received"} => q.photo \in embedding
        /\ \A c \in q.left : /\ q.photo \in Photos
                             /\ c \in embedding
                             /\ Owner[c] # Owner[q.photo]
                             /\ Score[{q.photo, c}] > 0
        /\ q.step \in Finalizing => q.left # {}
        /\ q.step = "deciding" => \A p \in Pair(r) : photo[p].status = "SEARCHING"

\* A completed job has stored its vectors.
JobsOK == \A p \in Photos : job[p].status = "COMPLETED" => p \in embedding

\* A row lock has one holder.
LocksOK == \A r, s \in Requests : r # s => LockedBy(r) \cap LockedBy(s) = {}

\* MatchedOnce, without a cardinality.
MatchesOK ==
    /\ \A m, n \in matches : m # n => m \cap n = {}
    /\ \A p \in Photos : photo[p].status = "MATCHED" <=> \E m \in matches : p \in m
    /\ \A m \in matches : \E p, q \in m : /\ m = {p, q}
                                          /\ Owner[p] # Owner[q]
                                          /\ Score[m] > 0

\* No request has locked a row of the scheduler.
SweepOK == \A p \in sweep.held : \A r \in Requests : p \notin LockedBy(r)

MInv ==
    /\ TypeOK
    /\ \A r \in Requests : RequestOK(r)
    /\ JobsOK
    /\ LocksOK
    /\ SweepOK
    /\ MatchesOK

-----------------------------------------------------------------------------
(* Requests and their locks *)

\* A request that tries a candidate is about two photos of two owners, with vectors.
LEMMA PairFacts ==
  ASSUME NEW r \in Requests, TypeOK, RequestOK(r), request[r].left # {}
  PROVE  /\ request[r].photo \in Photos
         /\ Candidate(r) \in request[r].left
         /\ Candidate(r) \in Photos
         /\ Candidate(r) # request[r].photo
         /\ Owner[Candidate(r)] # Owner[request[r].photo]
         /\ Pair(r) \in Pairs
         /\ Pair(r) \subseteq Photos
         /\ Score[Pair(r)] > 0
  <1>1. request[r] \in Request
    BY DEF TypeOK
  <1>2. request[r].left \in SUBSET Photos /\ request[r].photo \in Photos
    BY <1>1 DEF Request, RequestOK
  <1>3. Candidate(r) \in request[r].left
    BY <1>2, BestOfLeft DEF Candidate
  <1>4. /\ Candidate(r) \in Photos
        /\ Owner[Candidate(r)] # Owner[request[r].photo]
        /\ Score[{request[r].photo, Candidate(r)}] > 0
    BY <1>2, <1>3 DEF RequestOK
  <1>5. QED
    BY <1>2, <1>3, <1>4 DEF Pair, Pairs

\* A request that does not move keeps its locks.
LEMMA SameLocks ==
  ASSUME NEW r \in Requests, request'[r] = request[r]
  PROVE  LockedBy(r)' = LockedBy(r) /\ Pair(r)' = Pair(r)
  <1>1. Pair(r)' = Pair(r) /\ FirstRow(r)' = FirstRow(r)
    BY SamePair
  <1>2. QED
    BY <1>1 DEF LockedBy

\* A request that is not in finalize holds no row lock.
LEMMA NoLocks ==
  ASSUME NEW r \in Requests, request'[r].step \notin {"waiting", "deciding"}
  PROVE  LockedBy(r)' = {}
  BY DEF LockedBy

\* A free row is held neither by the scheduler nor by a request.
LEMMA FreeRow ==
  ASSUME NEW p, Unlocked(p)
  PROVE  p \notin sweep.held /\ \A r \in Requests : p \notin LockedBy(r)
  <1>1. \A x \in Lockers : p \notin Holds(x)
    BY DEF Unlocked
  <1>2. Holds(Scheduler) = sweep.held /\ \A r \in Requests : Holds(r) = LockedBy(r)
    BY ConstantsAssumption DEF Holds
  <1>3. QED
    BY <1>1, <1>2 DEF Lockers

\* A photo that searches does so after the step.
StillSearches(p) == photo[p].status = "SEARCHING" => photo'[p].status = "SEARCHING"

\* Whatever another request, worker or user does: rows that are locked keep searching.
LEMMA OthersOK ==
  ASSUME NEW r \in Requests, RequestOK(r), request'[r] = request[r], embedding \subseteq embedding',
         \A p \in LockedBy(r) : StillSearches(p)
  PROVE  RequestOK(r)' /\ LockedBy(r)' = LockedBy(r)
  <1>1. LockedBy(r)' = LockedBy(r) /\ Pair(r)' = Pair(r)
    BY SameLocks
  <1>2. request[r].step = "deciding" => LockedBy(r) = Pair(r)
    BY DEF LockedBy
  <1>3. QED
    BY <1>1, <1>2 DEF RequestOK, StillSearches

\* A request takes a lock that nobody holds, or none.
LEMMA LocksKept ==
  ASSUME NEW r \in Requests, LocksOK,
         \A s \in Requests \ {r} : LockedBy(s)' = LockedBy(s),
         \A p \in LockedBy(r)' : p \in LockedBy(r) \/ Unlocked(p)
  PROVE  LocksOK'
  BY FreeRow DEF LocksOK

\* One request moves, and the others keep what they know.
LEMMA OneMoves ==
  ASSUME MInv, NEW r \in Requests, NEW new \in Request,
         request' = [request EXCEPT ![r] = new],
         embedding \subseteq embedding',
         sweep' = sweep,
         \A s \in Requests \ {r} : \A p \in LockedBy(s) : StillSearches(p),
         RequestOK(r)',
         \A p \in LockedBy(r)' : p \in LockedBy(r) \/ Unlocked(p)
  PROVE  /\ request' \in [Requests -> Request]
         /\ \A s \in Requests : RequestOK(s)'
         /\ LocksOK'
         /\ SweepOK'
  <1>1. request \in [Requests -> Request] /\ LocksOK
    BY DEF MInv, TypeOK
  <1>2. \A s \in Requests \ {r} : request'[s] = request[s]
    BY <1>1
  <1>3. \A s \in Requests \ {r} : RequestOK(s)' /\ LockedBy(s)' = LockedBy(s)
    BY <1>2, OthersOK DEF MInv
  <1>4. LocksOK'
    BY <1>1, <1>3, LocksKept
  <1>5. SweepOK'
    <2>1. \A p \in sweep.held : p \notin LockedBy(r)'
      BY FreeRow DEF MInv, SweepOK
    <2>2. QED
      BY <1>3, <2>1 DEF MInv, SweepOK
  <1>6. QED
    BY <1>1, <1>3, <1>4, <1>5

\* No request moves. The scheduler may lock a row that nobody holds.
LEMMA NoneMoves ==
  ASSUME MInv, request' = request, embedding' = embedding,
         \A s \in Requests : \A p \in LockedBy(s) : StillSearches(p),
         \A p \in sweep'.held : p \in sweep.held \/ Unlocked(p)
  PROVE  (\A s \in Requests : RequestOK(s)') /\ LocksOK' /\ SweepOK'
  <1>1. \A s \in Requests : RequestOK(s)' /\ LockedBy(s)' = LockedBy(s)
    BY OthersOK DEF MInv
  <1>2. LocksOK'
    BY <1>1 DEF MInv, LocksOK
  <1>3. SweepOK'
    BY <1>1, FreeRow DEF MInv, SweepOK
  <1>4. QED
    BY <1>1, <1>2, <1>3

\* An answer leaves a request without photo and locks.
LEMMA Answered ==
  ASSUME MInv, NEW r \in Requests, Answer(r), embedding \subseteq embedding', sweep' = sweep,
         \A s \in Requests \ {r} : \A p \in LockedBy(s) : StillSearches(p)
  PROVE  /\ request' \in [Requests -> Request]
         /\ \A s \in Requests : RequestOK(s)'
         /\ LocksOK'
         /\ SweepOK'
  <1>1. request' = [request EXCEPT ![r] = Idle] /\ Idle \in Request
    BY DEF Answer, Moves, Idle, Request, Step
  <1>2. request'[r] = Idle
    BY <1>1 DEF MInv, TypeOK
  <1>3. RequestOK(r)'
    BY <1>2 DEF RequestOK, Idle, Finalizing
  <1>4. LockedBy(r)' = {}
    BY <1>2, NoLocks DEF Idle
  <1>5. QED
    BY <1>1, <1>3, <1>4, OneMoves

-----------------------------------------------------------------------------
(* Photos change *)

\* Matches stay sound while no photo becomes MATCHED or stops being it.
LEMMA MatchesKept ==
  ASSUME MatchesOK, matches' = matches,
         \A p \in Photos : photo'[p].status = "MATCHED" <=> photo[p].status = "MATCHED"
  PROVE  MatchesOK'
  BY DEF MatchesOK

\* Photos that nobody holds stop searching, without a match.
LEMMA PhotosChange ==
  ASSUME MInv, request' = request, embedding' = embedding, matches' = matches,
         UNCHANGED <<blocks, running, sends>>,
         job' \in [Photos -> JobRow],
         \A p \in Photos : job'[p].status = "COMPLETED" => job[p].status = "COMPLETED",
         photo' \in [Photos -> PhotoRow],
         told' \in [Photos -> Seq(NotificationType)],
         \A p \in Photos : photo'[p].status = "MATCHED" <=> photo[p].status = "MATCHED",
         \A p \in Photos : StillSearches(p) \/ \A r \in Requests : p \notin LockedBy(r),
         sweep' \in Locking,
         sweep'.held \subseteq sweep.held
  PROVE  MInv'
  <1>1. TypeOK'
    BY DEF MInv, TypeOK
  <1>2. \A s \in Requests : \A p \in LockedBy(s) : StillSearches(p)
    <2> SUFFICES ASSUME NEW s \in Requests, NEW p \in LockedBy(s)
                 PROVE  StillSearches(p)
      OBVIOUS
    <2>1. request[s].step \in Finalizing /\ LockedBy(s) \subseteq Pair(s)
      <3>1. request[s].step \in {"waiting", "deciding"}
        BY DEF LockedBy
      <3>2. request[s].left # {}
        BY <3>1 DEF MInv, RequestOK, Finalizing
      <3>3. FirstRow(s) \in Pair(s)
        BY <3>2, PairFacts, PairRows DEF MInv
      <3>4. QED
        BY <3>1, <3>3 DEF LockedBy, Finalizing
    <2>2. request[s].left # {}
      BY <2>1 DEF MInv, RequestOK
    <2>3. p \in Photos
      BY <2>1, <2>2, PairFacts DEF MInv
    <2>4. QED
      BY <2>3
  <1>3. (\A s \in Requests : RequestOK(s)') /\ LocksOK' /\ SweepOK'
    BY <1>2, NoneMoves
  <1>4. JobsOK'
    BY DEF MInv, JobsOK
  <1>5. MatchesOK'
    BY MatchesKept DEF MInv
  <1>6. QED
    BY <1>1, <1>3, <1>4, <1>5 DEF MInv

\* An upload.
LEMMA CreatePhoto ==
  ASSUME MInv, NEW p \in Photos, create_photo(p)
  PROVE  MInv'
  <1>1. /\ photo \in [Photos -> PhotoRow]
        /\ job \in [Photos -> JobRow]
        /\ told \in [Photos -> Seq(NotificationType)]
    BY DEF MInv, TypeOK
  <1>2. photo' \in [Photos -> PhotoRow]
    BY <1>1 DEF create_photo, PhotoRow, PhotoStatus
  <1>3. job' \in [Photos -> JobRow]
    BY <1>1 DEF create_photo, JobRow, JobStatus
  <1>4. told' \in [Photos -> Seq(NotificationType)]
    BY <1>1 DEF create_photo, NotificationType
  <1>5. \A q \in Photos : job'[q].status = "COMPLETED" => job[q].status = "COMPLETED"
    BY <1>1 DEF create_photo, JobRow
  <1>6. \A q \in Photos : photo'[q].status = "MATCHED" <=> photo[q].status = "MATCHED"
    BY <1>1 DEF create_photo, PhotoRow
  <1>7. \A q \in Photos : StillSearches(q)
    BY <1>1 DEF create_photo, StillSearches
  <1>8. sweep' = sweep /\ sweep \in Locking
    BY DEF create_photo, MInv, TypeOK
  <1>9. QED
    BY <1>2, <1>3, <1>4, <1>5, <1>6, <1>7, <1>8, PhotosChange DEF create_photo

\* A deletion, which waits for the row lock.
LEMMA DeletePhoto ==
  ASSUME MInv, NEW p \in Photos, delete_photo(p)
  PROVE  MInv'
  <1>1. photo \in [Photos -> PhotoRow] /\ job \in [Photos -> JobRow]
    BY DEF MInv, TypeOK
  <1>2. photo' \in [Photos -> PhotoRow]
    BY <1>1 DEF delete_photo, PhotoRow, PhotoStatus
  <1>3. \A q \in Photos : photo'[q].status = "MATCHED" <=> photo[q].status = "MATCHED"
    BY <1>1 DEF delete_photo, PhotoRow
  <1>4. \A q \in Photos : StillSearches(q) \/ Unlocked(q)
    BY <1>1 DEF delete_photo, StillSearches
  <1>5. sweep' = sweep /\ sweep \in Locking
    BY DEF delete_photo, MInv, TypeOK
  <1>6. \A q \in Photos : StillSearches(q) \/ \A r \in Requests : q \notin LockedBy(r)
    BY <1>4, FreeRow
  <1>7. told \in [Photos -> Seq(NotificationType)]
    BY DEF MInv, TypeOK
  <1>8. QED
    BY <1>1, <1>2, <1>3, <1>5, <1>6, <1>7, PhotosChange DEF delete_photo

\* A search period ends while the photo may be locked.
LEMMA PeriodEnds ==
  ASSUME MInv, NEW p \in Photos, SearchPeriodEnds(p)
  PROVE  MInv'
  <1>1. photo \in [Photos -> PhotoRow]
    BY DEF MInv, TypeOK
  <1>2. photo' \in [Photos -> PhotoRow] /\ \A q \in Photos : photo'[q].status = photo[q].status
    BY <1>1 DEF SearchPeriodEnds, PhotoRow
  <1>3. \A q \in Photos : StillSearches(q)
    BY <1>2 DEF StillSearches
  <1>4. /\ sweep' = sweep
        /\ sweep \in Locking
        /\ job \in [Photos -> JobRow]
        /\ told \in [Photos -> Seq(NotificationType)]
    BY DEF SearchPeriodEnds, MInv, TypeOK
  <1>5. QED
    BY <1>2, <1>3, <1>4, PhotosChange DEF SearchPeriodEnds

\* The scheduler locks rows, or gives them back: no photo and no request changes.
LEMMA SweepMoves ==
  ASSUME MInv, UNCHANGED <<photo, job, embedding, matches, blocks, told, running, request, sends>>,
         sweep' \in Locking,
         \A p \in sweep'.held : p \in sweep.held \/ Unlocked(p)
  PROVE  MInv'
  <1>1. TypeOK' /\ JobsOK' /\ MatchesOK'
    BY DEF MInv, TypeOK, JobsOK, MatchesOK
  <1>2. (\A s \in Requests : RequestOK(s)') /\ LocksOK' /\ SweepOK'
    BY NoneMoves DEF StillSearches
  <1>3. QED
    BY <1>1, <1>2 DEF MInv

\* The UPDATE begins, locks one of its rows, or is rolled back.
LEMMA Sweeping ==
  ASSUME MInv, expire_due \/ (\E p \in Photos : expire_row(p)) \/ expire_aborted
  PROVE  MInv'
  <1>1. sweep \in Locking /\ \A S \in SUBSET Photos : [todo |-> S, held |-> {}] \in Locking
    BY DEF MInv, TypeOK, Locking
  <1>2. CASE expire_due
    BY <1>1, <1>2, SweepMoves DEF expire_due
  <1>3. ASSUME NEW p \in Photos, expire_row(p) PROVE MInv'
    <2>1. sweep' = [todo |-> sweep.todo \ {p}, held |-> sweep.held \cup {p}]
      BY <1>3 DEF expire_row
    <2>2. sweep' \in Locking
      BY <1>1, <2>1 DEF Locking
    <2>3. \A q \in sweep'.held : q \in sweep.held \/ Unlocked(q)
      BY <1>3, <2>1 DEF expire_row
    <2>4. QED
      BY <1>3, <2>2, <2>3, SweepMoves DEF expire_row
  <1>4. CASE expire_aborted
    BY <1>1, <1>4, SweepMoves DEF expire_aborted, NoLocking
  <1>5. QED
    BY <1>2, <1>3, <1>4

\* The steps of a postcard.
Sends(s) == (\E m \in matches : send(s, m)) \/ send_locks(s) \/ send_ends(s)

\* They touch nothing else.
LEMMA SendsOnly ==
  ASSUME NEW s \in Senders, Sends(s)
  PROVE  UNCHANGED <<photo, job, embedding, matches, blocks, told, running, request, sweep>>
  BY DEF Sends, send, send_locks, send_ends

\* A postcard takes its locks and gives them back: it changes no photo, and no row that a
\* request or the scheduler holds.
LEMMA Sending ==
  ASSUME MInv, NEW s \in Senders, Sends(s)
  PROVE  MInv'
  <1>1. UNCHANGED <<photo, job, embedding, matches, blocks, told, running, request, sweep>>
    BY SendsOnly
  <1>2. sends \in [Senders -> Locking] /\ matches \in SUBSET Pairs
    BY DEF MInv, TypeOK
  <1>3. sends' \in [Senders -> Locking]
    <2>1. CASE send_ends(s)
      BY <1>2, <2>1 DEF send_ends, NoLocking, Locking
    <2>2. CASE send_locks(s)
      <3>1. NextRow(s) \in sends[s].todo
        BY <2>2, NextRowOfSend DEF send_locks, MInv
      <3>2. QED
        BY <1>2, <2>2, <3>1 DEF send_locks, Locking
    <2>3. ASSUME NEW m \in matches, send(s, m) PROVE sends' \in [Senders -> Locking]
      <3>1. m \in SUBSET Photos
        BY <1>2 DEF Pairs
      <3>2. QED
        BY <1>2, <2>3, <3>1 DEF send, Locking
    <2>4. QED
      BY <2>1, <2>2, <2>3 DEF Sends
  <1>4. TypeOK' /\ JobsOK' /\ MatchesOK'
    BY <1>1, <1>3 DEF MInv, TypeOK, JobsOK, MatchesOK
  <1>5. (\A r \in Requests : RequestOK(r)') /\ LocksOK' /\ SweepOK'
    BY <1>1, NoneMoves DEF StillSearches
  <1>6. QED
    BY <1>4, <1>5 DEF MInv

\* The commit of the UPDATE: the rows it holds are the scheduler's alone.
LEMMA ExpireCommit ==
  ASSUME MInv, expire_commit
  PROVE  MInv'
  <1> DEFINE expired == {q \in sweep.held : Expires(q)}
  <1>1. /\ photo \in [Photos -> PhotoRow]
        /\ told \in [Photos -> Seq(NotificationType)]
        /\ job \in [Photos -> JobRow]
    BY DEF MInv, TypeOK
  <1>2. \A q \in Photos : photo'[q] = IF q \in expired THEN [photo[q] EXCEPT !.status = "EXPIRED"]
                                      ELSE photo[q]
    BY DEF expire_commit
  <1>3. \A q \in expired : photo[q].status = "SEARCHING" /\ \A r \in Requests : q \notin LockedBy(r)
    BY DEF MInv, SweepOK, Expires
  <1>4. photo' \in [Photos -> PhotoRow]
    <2>1. photo' = [q \in Photos |-> photo'[q]]
      BY DEF expire_commit
    <2>2. \A q \in Photos : photo'[q] \in PhotoRow
      BY <1>1, <1>2 DEF PhotoRow, PhotoStatus
    <2>3. QED
      BY <2>1, <2>2
  <1>5. told' \in [Photos -> Seq(NotificationType)]
    BY <1>1 DEF expire_commit, NotificationType
  <1>6. \A q \in Photos : photo'[q].status = "MATCHED" <=> photo[q].status = "MATCHED"
    BY <1>1, <1>2, <1>3 DEF PhotoRow
  <1>7. \A q \in Photos : StillSearches(q) \/ \A r \in Requests : q \notin LockedBy(r)
    BY <1>2, <1>3 DEF StillSearches
  <1>8. sweep' = NoLocking /\ sweep' \in Locking /\ sweep'.held \subseteq sweep.held
    BY DEF expire_commit, NoLocking, Locking
  <1>9. QED
    BY <1>1, <1>4, <1>5, <1>6, <1>7, <1>8, PhotosChange DEF expire_commit

-----------------------------------------------------------------------------
(* Blocks, the queue and its workers *)

\* A block or its removal, also between the checks and the commit of a match.
LEMMA Blocks ==
  ASSUME MInv, NEW u \in Users, NEW v \in Users, block(u, v) \/ unblock(u, v)
  PROVE  MInv'
  <1>1. /\ blocks' \in SUBSET (Users \X Users)
        /\ UNCHANGED <<photo, job, embedding, matches, told, running, request, sends, sweep>>
    BY DEF MInv, TypeOK, block, unblock
  <1>2. TypeOK' /\ JobsOK' /\ MatchesOK'
    BY <1>1 DEF MInv, TypeOK, JobsOK, MatchesOK
  <1>3. (\A s \in Requests : RequestOK(s)') /\ LocksOK' /\ SweepOK'
    BY <1>1, NoneMoves DEF StillSearches
  <1>4. QED
    BY <1>2, <1>3 DEF MInv

\* A job changes, but is not completed; no photo and no request does.
LEMMA JobChanges ==
  ASSUME MInv, UNCHANGED <<photo, embedding, matches, blocks, told, request, sends, sweep>>,
         job' \in [Photos -> JobRow],
         running' \in [Workers -> Photos \cup {NoJob}],
         \A p \in Photos : job'[p].status = "COMPLETED" => job[p].status = "COMPLETED"
  PROVE  MInv'
  <1>1. TypeOK' /\ JobsOK' /\ MatchesOK'
    BY DEF MInv, TypeOK, JobsOK, MatchesOK
  <1>2. (\A s \in Requests : RequestOK(s)') /\ LocksOK' /\ SweepOK'
    BY NoneMoves DEF StillSearches
  <1>3. QED
    BY <1>1, <1>2 DEF MInv

\* A claim, heard of by its worker or not.
LEMMA ClaimNext ==
  ASSUME MInv, NEW w \in Workers, NEW p \in Photos, NEW received \in BOOLEAN,
         claim_next(w, p, received)
  PROVE  MInv'
  <1>1. job \in [Photos -> JobRow] /\ running \in [Workers -> Photos \cup {NoJob}]
    BY DEF MInv, TypeOK
  <1>2. job[p].attempt_count \in 0..(MaxAttempts + 1) /\ MaxAttempts \in Nat
    BY <1>1, ConstantsAssumption DEF JobRow
  <1>3. Lower(job[p].attempt_count + 1, MaxAttempts + 1) \in 0..(MaxAttempts + 1)
    BY <1>2 DEF Lower
  <1>4. job' \in [Photos -> JobRow]
    BY <1>1, <1>3 DEF claim_next, JobRow, JobStatus
  <1>5. running' \in [Workers -> Photos \cup {NoJob}]
    BY <1>1 DEF claim_next
  <1>6. \A q \in Photos : job'[q].status = "COMPLETED" => job[q].status = "COMPLETED"
    BY <1>1 DEF claim_next
  <1>7. QED
    BY <1>4, <1>5, <1>6, JobChanges DEF claim_next

\* A claim that closes the job of a photo that left the search.
LEMMA ClaimNextUnavailable ==
  ASSUME MInv, NEW p \in Photos, claim_next_unavailable(p)
  PROVE  MInv'
  <1>1. job \in [Photos -> JobRow] /\ running \in [Workers -> Photos \cup {NoJob}]
    BY DEF MInv, TypeOK
  <1>2. job' \in [Photos -> JobRow]
    BY <1>1 DEF claim_next_unavailable, JobRow, JobStatus
  <1>3. \A q \in Photos : job'[q].status = "COMPLETED" => job[q].status = "COMPLETED"
    BY <1>1 DEF claim_next_unavailable, JobRow
  <1>4. QED
    BY <1>1, <1>2, <1>3, JobChanges DEF claim_next_unavailable

\* A lease ends.
LEMMA LeaseEndsOK ==
  ASSUME MInv, NEW p \in Photos, LeaseEnds(p)
  PROVE  MInv'
  <1>1. job \in [Photos -> JobRow] /\ running \in [Workers -> Photos \cup {NoJob}]
    BY DEF MInv, TypeOK
  <1>2. job' \in [Photos -> JobRow]
    BY <1>1 DEF LeaseEnds, JobRow
  <1>3. \A q \in Photos : job'[q].status = "COMPLETED" => job[q].status = "COMPLETED"
    BY <1>1 DEF LeaseEnds, JobRow
  <1>4. QED
    BY <1>1, <1>2, <1>3, JobChanges DEF LeaseEnds

\* A worker is started again.
LEMMA Restarts ==
  ASSUME MInv, NEW w \in Workers, Restart(w)
  PROVE  MInv'
  <1>1. job \in [Photos -> JobRow] /\ running \in [Workers -> Photos \cup {NoJob}]
    BY DEF MInv, TypeOK
  <1>2. running' \in [Workers -> Photos \cup {NoJob}]
    BY <1>1 DEF Restart
  <1>3. QED
    BY <1>1, <1>2, JobChanges DEF Restart

-----------------------------------------------------------------------------
(* Requests *)

\* A worker reports.
LEMMA RunEmbedding ==
  ASSUME MInv, NEW w \in Workers, NEW r \in Requests,
         NEW outcome \in {"RESULT", "RETRYABLE", "FATAL"}, run_embedding_once(w, r, outcome)
  PROVE  MInv'
  <1> DEFINE new == [Idle EXCEPT !.step = "received", !.outcome = outcome, !.photo = running[w],
                                 !.worker = w]
  <1>1. request' = [request EXCEPT ![r] = new]
    BY DEF run_embedding_once
  <1>2. running[w] \in Photos /\ running' \in [Workers -> Photos \cup {NoJob}]
    BY DEF MInv, TypeOK, run_embedding_once
  <1>3. new \in Request
    BY <1>2 DEF Idle, Request, Step
  <1>4. request'[r] = new
    BY <1>1 DEF MInv, TypeOK
  <1>5. RequestOK(r)' /\ LockedBy(r)' = {}
    BY <1>2, <1>4, NoLocks DEF RequestOK, Idle, Finalizing
  <1>6. UNCHANGED <<photo, job, embedding, matches, blocks, told, sends, sweep>>
    BY DEF run_embedding_once
  <1> HIDE DEF new
  <1>7. request' \in [Requests -> Request] /\ (\A s \in Requests : RequestOK(s)') /\ LocksOK' /\ SweepOK'
    BY <1>1, <1>3, <1>5, <1>6, OneMoves DEF StillSearches
  <1>8. QED
    BY <1>2, <1>6, <1>7 DEF MInv, TypeOK, JobsOK, MatchesOK

\* A request moves within the search and takes no lock.
LEMMA Searching ==
  ASSUME MInv, NEW r \in Requests, NEW new \in Request, Moves(r, new),
         new.photo = request[r].photo, new.photo \in Photos, new.photo \in embedding',
         new.left \subseteq request[r].left \/ \A c \in new.left :
             c \in embedding /\ Owner[c] # Owner[new.photo] /\ Score[{new.photo, c}] > 0,
         new.step \in {"saved", "ranked", "locking"},
         new.step = "locking" => new.left # {},
         embedding \subseteq embedding', embedding' \in SUBSET Photos,
         job' \in [Photos -> JobRow],
         \A p \in Photos : job'[p].status = "COMPLETED" => p \in embedding',
         UNCHANGED <<photo, matches, blocks, told, running, sends, sweep>>
  PROVE  MInv'
  <1>1. request'[r] = new
    BY DEF MInv, TypeOK, Moves
  <1>2. \A c \in new.left : /\ c \in embedding'
                            /\ Owner[c] # Owner[new.photo]
                            /\ Score[{new.photo, c}] > 0
    BY DEF MInv, RequestOK
  <1>3. RequestOK(r)'
    BY <1>1, <1>2 DEF RequestOK, Finalizing
  <1>4. LockedBy(r)' = {}
    BY <1>1, NoLocks
  <1>5. request' \in [Requests -> Request] /\ (\A s \in Requests : RequestOK(s)') /\ LocksOK' /\ SweepOK'
    BY <1>3, <1>4, OneMoves DEF StillSearches, Moves
  <1>6. QED
    BY <1>5 DEF MInv, TypeOK, JobsOK, MatchesOK

\* The first result of a job.
LEMMA ApplyResult ==
  ASSUME MInv, NEW r \in Requests, apply_result(r)
  PROVE  MInv'
  <1> DEFINE p == request[r].photo
             new == [request[r] EXCEPT !.step = "saved"]
  <1>1. request[r] \in Request /\ p \in Photos /\ embedding \in SUBSET Photos
    BY DEF MInv, TypeOK, RequestOK, apply_result
  <1>2. new \in Request /\ new.photo = p /\ new.left = request[r].left /\ new.step = "saved"
    BY <1>1 DEF Request, Step
  <1>3. job \in [Photos -> JobRow]
    BY DEF MInv, TypeOK
  <1>4. job' \in [Photos -> JobRow]
    BY <1>1, <1>3 DEF apply_result, JobRow, JobStatus
  <1>5. embedding' = embedding \cup {p}
    BY DEF apply_result
  <1>6. \A q \in Photos : job'[q].status = "COMPLETED" => q \in embedding'
    <2>1. \A q \in Photos \ {p} : job'[q] = job[q]
      BY <1>3 DEF apply_result
    <2>2. QED
      BY <2>1, <1>5 DEF MInv, JobsOK
  <1>7. Moves(r, new) /\ UNCHANGED <<photo, matches, blocks, told, running, sends, sweep>>
    BY DEF apply_result
  <1> HIDE DEF new
  <1>8. QED
    BY <1>1, <1>2, <1>4, <1>5, <1>6, <1>7, Searching

\* A result that is repeated.
LEMMA ApplyResultAgain ==
  ASSUME MInv, NEW r \in Requests, apply_result_again(r)
  PROVE  MInv'
  <1> DEFINE p == request[r].photo
             new == [request[r] EXCEPT !.step = "saved"]
  <1>1. /\ request[r] \in Request
        /\ p \in Photos
        /\ p \in embedding
        /\ embedding \in SUBSET Photos
        /\ job \in [Photos -> JobRow]
    BY DEF MInv, TypeOK, RequestOK, apply_result_again, JobsOK
  <1>2. new \in Request /\ new.photo = p /\ new.left = request[r].left /\ new.step = "saved"
    BY <1>1 DEF Request, Step
  <1>3. Moves(r, new) /\ UNCHANGED <<photo, job, embedding, matches, blocks, told, running, sends, sweep>>
    BY DEF apply_result_again
  <1>4. \A q \in Photos : job'[q].status = "COMPLETED" => q \in embedding'
    BY <1>3 DEF MInv, JobsOK
  <1> HIDE DEF new
  <1>5. QED
    BY <1>1, <1>2, <1>3, <1>4, Searching

\* An answer that changes no row but the job's.
LEMMA OnlyAnswers ==
  ASSUME MInv, NEW r \in Requests, Answer(r), job' \in [Photos -> JobRow],
         \A p \in Photos : job'[p].status = "COMPLETED" => job[p].status = "COMPLETED",
         UNCHANGED <<photo, embedding, matches, blocks, told, running, sends, sweep>>
  PROVE  MInv'
  <1>1. request' \in [Requests -> Request] /\ (\A s \in Requests : RequestOK(s)') /\ LocksOK' /\ SweepOK'
    BY Answered DEF StillSearches
  <1>2. QED
    BY <1>1 DEF MInv, TypeOK, JobsOK, MatchesOK

\* A report that is refused.
LEMMA Refuse ==
  ASSUME MInv, NEW r \in Requests, refuse(r) \/ no_match(r) \/ crash(r)
  PROVE  MInv'
  <1>1. Answer(r) /\ UNCHANGED <<photo, job, embedding, matches, blocks, told, running, sends, sweep>>
    BY DEF refuse, no_match, crash
  <1>2. job \in [Photos -> JobRow]
    BY DEF MInv, TypeOK
  <1>3. QED
    BY <1>1, <1>2, OnlyAnswers

\* A reported failure.
LEMMA RecordFailure ==
  ASSUME MInv, NEW r \in Requests, record_failure(r)
  PROVE  MInv'
  <1>1. job \in [Photos -> JobRow] /\ request[r].photo \in Photos
    BY DEF MInv, TypeOK, RequestOK, record_failure
  <1>2. job' \in [Photos -> JobRow]
    BY <1>1 DEF record_failure, JobRow, JobStatus
  <1>3. \A q \in Photos : job'[q].status = "COMPLETED" => job[q].status = "COMPLETED"
    BY <1>1 DEF record_failure, JobRow
  <1>4. QED
    BY <1>2, <1>3, OnlyAnswers DEF record_failure

\* The list of candidates, made without a lock.
LEMMA ListCandidates ==
  ASSUME MInv, NEW r \in Requests, list_candidates(r)
  PROVE  MInv'
  <1> DEFINE p == request[r].photo
             new == [request[r] EXCEPT !.step = "ranked", !.left = Candidates(p)]
  <1>1. /\ request[r] \in Request
        /\ p \in Photos
        /\ p \in embedding
        /\ embedding \in SUBSET Photos
        /\ job \in [Photos -> JobRow]
    BY DEF MInv, TypeOK, RequestOK, list_candidates
  <1>2. \A c \in Candidates(p) : /\ c \in Photos
                                 /\ c \in embedding
                                 /\ Owner[c] # Owner[p]
                                 /\ Score[{p, c}] > 0
    BY DEF Candidates, Oldest, Comparable
  <1>3. UNCHANGED <<photo, job, embedding, matches, blocks, told, running, sends, sweep>>
    BY DEF list_candidates
  <1>4. CASE Answer(r)
    BY <1>1, <1>3, <1>4, OnlyAnswers
  <1>5. CASE Moves(r, new)
    <2>1. new \in Request /\ new.photo = p /\ new.left = Candidates(p) /\ new.step = "ranked"
      BY <1>1, <1>2 DEF Request, Step
    <2>2. \A q \in Photos : job'[q].status = "COMPLETED" => q \in embedding'
      BY <1>3 DEF MInv, JobsOK
    <2> HIDE DEF new
    <2>3. QED
      BY <1>1, <1>2, <1>3, <1>5, <2>1, <2>2, Searching
  <1>6. QED
    BY <1>4, <1>5 DEF list_candidates

\* The next candidate is tried.
LEMMA FinalizeMatch ==
  ASSUME MInv, NEW r \in Requests, finalize_match(r)
  PROVE  MInv'
  <1> DEFINE p == request[r].photo
             now == \A q \in Pair(r) : ~photo[q].due
             new == [request[r] EXCEPT !.step = "locking", !.in_time = now]
  <1>1. /\ request[r] \in Request
        /\ p \in Photos
        /\ p \in embedding
        /\ embedding \in SUBSET Photos
        /\ job \in [Photos -> JobRow]
        /\ request[r].left # {}
    BY DEF MInv, TypeOK, RequestOK, finalize_match
  <1>2. UNCHANGED <<photo, job, embedding, matches, blocks, told, running, sends, sweep>> /\ Moves(r, new)
    BY DEF finalize_match
  <1>3. now \in BOOLEAN
    OBVIOUS
  <1> HIDE DEF now
  <1>4. new \in Request /\ new.photo = p /\ new.left = request[r].left /\ new.step = "locking"
    BY <1>1, <1>3 DEF Request, Step
  <1>5. \A q \in Photos : job'[q].status = "COMPLETED" => q \in embedding'
    BY <1>2 DEF MInv, JobsOK
  <1> HIDE DEF new
  <1>6. QED
    BY <1>1, <1>2, <1>4, <1>5, Searching

\* A request takes a free row lock, and goes on with the same candidate.
LEMMA TakesLock ==
  ASSUME MInv, NEW r \in Requests, NEW step \in {"waiting", "deciding"},
         request[r].step \in {"locking", "waiting"},
         Moves(r, [request[r] EXCEPT !.step = step]),
         step = "waiting" => Unlocked(FirstRow(r)),
         step = "deciding" => /\ request[r].step = "waiting"
                              /\ Unlocked(SecondRow(r))
                              /\ \A p \in Pair(r) : photo[p].status = "SEARCHING",
         UNCHANGED <<photo, job, embedding, matches, blocks, told, running, sends, sweep>>
  PROVE  MInv'
  <1> DEFINE new == [request[r] EXCEPT !.step = step]
  <1>1. request[r] \in Request /\ RequestOK(r) /\ request[r].left # {}
    BY DEF MInv, TypeOK, RequestOK, Finalizing
  <1>2. new \in Request /\ request'[r] = new
    BY <1>1 DEF MInv, TypeOK, Moves, Request, Step
  <1>3. /\ request'[r].step = step
        /\ request'[r].photo = request[r].photo
        /\ request'[r].left = request[r].left
    BY <1>1, <1>2 DEF Request
  <1>4. Pair(r)' = Pair(r) /\ FirstRow(r)' = FirstRow(r)
    BY <1>3, SamePair
  <1>5. Pair(r) = {FirstRow(r), SecondRow(r)}
    BY <1>1, PairFacts, PairRows DEF MInv
  <1>6. RequestOK(r)'
    BY <1>1, <1>3, <1>4 DEF RequestOK, Finalizing
  <1>7. \A p \in LockedBy(r)' : p \in LockedBy(r) \/ Unlocked(p)
    <2>1. CASE step = "waiting"
      BY <1>3, <1>4, <2>1 DEF LockedBy
    <2>2. CASE step = "deciding"
      BY <1>3, <1>4, <1>5, <2>2 DEF LockedBy
    <2>3. QED
      BY <2>1, <2>2
  <1>8. request' = [request EXCEPT ![r] = new]
    BY DEF Moves
  <1> HIDE DEF new
  <1>9. request' \in [Requests -> Request] /\ (\A s \in Requests : RequestOK(s)') /\ LocksOK' /\ SweepOK'
    BY <1>2, <1>6, <1>7, <1>8, OneMoves DEF StillSearches
  <1>10. QED
    BY <1>9 DEF MInv, TypeOK, JobsOK, MatchesOK

\* The first row lock.
LEMMA LockFirst ==
  ASSUME MInv, NEW r \in Requests, lock_first(r)
  PROVE  MInv'
  BY TakesLock DEF lock_first

\* The second row lock, and the checks under both.
LEMMA LockSecond ==
  ASSUME MInv, NEW r \in Requests, lock_second(r)
  PROVE  MInv'
  <1> DEFINE new == [request[r] EXCEPT !.step = "ranked", !.left = @ \ {Candidate(r)},
                                       !.in_time = FALSE]
  <1>1. CASE Acceptable(r)
    BY <1>1, TakesLock DEF lock_second, Acceptable
  <1>2. CASE ~Acceptable(r)
    <2>1. /\ request[r] \in Request
          /\ request[r].photo \in Photos
          /\ request[r].photo \in embedding
          /\ embedding \in SUBSET Photos
          /\ job \in [Photos -> JobRow]
      BY DEF MInv, TypeOK, RequestOK, lock_second
    <2>2. Moves(r, new) /\ UNCHANGED <<photo, job, embedding, matches, blocks, told, running, sends, sweep>>
      BY <1>2 DEF lock_second
    <2>3. /\ new \in Request
          /\ new.photo = request[r].photo
          /\ new.left \subseteq request[r].left
          /\ new.step = "ranked"
      BY <2>1 DEF Request, Step
    <2>4. \A q \in Photos : job'[q].status = "COMPLETED" => q \in embedding'
      BY <2>2 DEF MInv, JobsOK
    <2> HIDE DEF new
    <2>5. QED
      BY <2>1, <2>2, <2>3, <2>4, Searching
  <1>3. QED
    BY <1>1, <1>2

\* The commit of a match: the only step that makes a photo MATCHED.
LEMMA CommitMatch ==
  ASSUME MInv, NEW r \in Requests, commit_match(r)
  PROVE  MInv'
  <1>1. /\ photo \in [Photos -> PhotoRow]
        /\ told \in [Photos -> Seq(NotificationType)]
        /\ request[r].left # {}
        /\ LockedBy(r) = Pair(r)
        /\ \A p \in Pair(r) : photo[p].status = "SEARCHING"
    BY DEF MInv, TypeOK, RequestOK, commit_match, Finalizing, LockedBy
  <1>2. /\ Pair(r) = {request[r].photo, Candidate(r)}
        /\ Owner[Candidate(r)] # Owner[request[r].photo]
        /\ Pair(r) \in Pairs
        /\ Pair(r) \subseteq Photos
        /\ Score[Pair(r)] > 0
    BY <1>1, PairFacts DEF MInv, Pair
  <1>3. \A p \in Photos : photo'[p] = IF p \in Pair(r) THEN [photo[p] EXCEPT !.status = "MATCHED"]
                                      ELSE photo[p]
    BY DEF commit_match
  <1>4. photo' \in [Photos -> PhotoRow]
    <2>1. photo' = [p \in Photos |-> photo'[p]]
      BY DEF commit_match
    <2>2. \A p \in Photos : photo'[p] \in PhotoRow
      BY <1>1, <1>3 DEF PhotoRow, PhotoStatus
    <2>3. QED
      BY <2>1, <2>2
  <1>5. told' \in [Photos -> Seq(NotificationType)]
    BY <1>1 DEF commit_match, NotificationType
  <1>6. \A s \in Requests \ {r} : \A p \in LockedBy(s) : StillSearches(p)
    <2> SUFFICES ASSUME NEW s \in Requests \ {r}, NEW p \in LockedBy(s), photo[p].status = "SEARCHING"
                 PROVE  photo'[p].status = "SEARCHING"
      BY DEF StillSearches
    <2>1. p \notin Pair(r)
      BY <1>1 DEF MInv, LocksOK
    <2>2. p \in Photos
      <3>1. request[s].step \in {"waiting", "deciding"}
        BY DEF LockedBy
      <3>2. request[s].left # {}
        BY <3>1 DEF MInv, RequestOK, Finalizing
      <3>3. Pair(s) \subseteq Photos /\ FirstRow(s) \in Pair(s)
        BY <3>2, PairFacts, PairRows DEF MInv
      <3>4. QED
        BY <3>1, <3>3 DEF LockedBy
    <2>3. QED
      BY <1>3, <2>1, <2>2
  <1>7. request' \in [Requests -> Request] /\ (\A s \in Requests : RequestOK(s)') /\ LocksOK' /\ SweepOK'
    BY <1>6, Answered DEF commit_match
  <1>8. matches' = matches \cup {Pair(r)} /\ UNCHANGED <<job, embedding, blocks, running, sends, sweep>>
    BY DEF commit_match
  <1>9. TypeOK' /\ JobsOK'
    BY <1>2, <1>4, <1>5, <1>7, <1>8 DEF MInv, TypeOK, JobsOK
  <1>10. MatchesOK'
    <2>1. \A m \in matches : m \cap Pair(r) = {}
      BY <1>1, <1>2 DEF MInv, MatchesOK
    <2>2. (\A m, n \in matches : m # n => m \cap n = {})'
      BY <1>8, <2>1 DEF MInv, MatchesOK
    <2>3. (\A p \in Photos : photo[p].status = "MATCHED" <=> \E m \in matches : p \in m)'
      <3>1. \A p \in Photos : photo'[p].status = "MATCHED" <=> p \in Pair(r) \/ photo[p].status = "MATCHED"
        BY <1>1, <1>3 DEF PhotoRow
      <3>2. \A p \in Photos : (\E m \in matches' : p \in m) <=> p \in Pair(r) \/ \E m \in matches : p \in m
        BY <1>8
      <3>3. \A p \in Photos : photo[p].status = "MATCHED" <=> \E m \in matches : p \in m
        BY DEF MInv, MatchesOK
      <3>4. QED
        BY <3>1, <3>2, <3>3
    <2>4. \E p, q \in Pair(r) : Pair(r) = {p, q} /\ Owner[p] # Owner[q] /\ Score[Pair(r)] > 0
      BY <1>2
    <2>5. QED
      BY <1>8, <2>2, <2>3, <2>4 DEF MInv, MatchesOK
  <1>11. QED
    BY <1>7, <1>9, <1>10 DEF MInv

-----------------------------------------------------------------------------
(* Theorems *)

\* The empty tables.
LEMMA InitOK == ASSUME Init PROVE MInv
  <1>1. TypeOK
    <2>1. NoJobRow \in JobRow
      <3>1. 0 \in 0..(MaxAttempts + 1)
        <4>1. MaxAttempts \in Nat
          BY ConstantsAssumption
        <4>2. QED
          BY <4>1
      <3>2. QED
        BY <3>1 DEF NoJobRow, JobRow, JobStatus
    <2>2. Idle \in Request
      BY DEF Idle, Request, Step
    <2>3. photo \in [Photos -> PhotoRow] /\ told \in [Photos -> Seq(NotificationType)]
      BY DEF Init, PhotoRow, PhotoStatus
    <2>4. QED
      BY <2>1, <2>2, <2>3 DEF Init, TypeOK, NoLocking, Locking
  <1>2. \A r \in Requests : RequestOK(r)
    BY DEF Init, RequestOK, Idle, Finalizing
  <1>3. LocksOK
    BY DEF Init, LocksOK, LockedBy, Idle
  <1>4. SweepOK
    BY DEF Init, SweepOK, NoLocking
  <1>5. JobsOK /\ MatchesOK
    BY DEF Init, JobsOK, MatchesOK, NoJobRow
  <1>6. QED
    BY <1>1, <1>2, <1>3, <1>4, <1>5 DEF MInv

\* Every step keeps the invariant.
LEMMA Inductive == ASSUME MInv, [Next]_vars PROVE MInv'
  <1>1. CASE \E r \in Requests : Serve(r) \/ crash(r)
    BY <1>1, ApplyResult, ApplyResultAgain, Refuse, RecordFailure, ListCandidates, FinalizeMatch,
       LockFirst, LockSecond, CommitMatch DEF Serve
  <1>2. CASE \E p \in Photos : \/ create_photo(p)
                               \/ delete_photo(p)
                               \/ SearchPeriodEnds(p)
                               \/ claim_next_unavailable(p)
                               \/ LeaseEnds(p)
    BY <1>2, CreatePhoto, DeletePhoto, PeriodEnds, ClaimNextUnavailable, LeaseEndsOK
  <1>3. CASE expire_due \/ (\E p \in Photos : expire_row(p)) \/ expire_commit \/ expire_aborted
    BY <1>3, Sweeping, ExpireCommit
  <1>4. CASE \E u, v \in Users : block(u, v) \/ unblock(u, v)
    BY <1>4, Blocks
  <1>5. CASE \E w \in Workers, p \in Photos, received \in BOOLEAN : claim_next(w, p, received)
    BY <1>5, ClaimNext
  <1>6. CASE \E w \in Workers, r \in Requests, outcome \in {"RESULT", "RETRYABLE", "FATAL"} :
               run_embedding_once(w, r, outcome)
    BY <1>6, RunEmbedding
  <1>7. CASE \E w \in Workers : Restart(w)
    BY <1>7, Restarts
  <1>8. CASE UNCHANGED vars
    <2>1. TypeOK' /\ JobsOK' /\ MatchesOK'
      BY <1>8 DEF MInv, TypeOK, JobsOK, MatchesOK, vars
    <2>2. (\A s \in Requests : RequestOK(s)') /\ LocksOK' /\ SweepOK'
      BY <1>8, NoneMoves DEF vars, StillSearches
    <2>3. QED
      BY <2>1, <2>2 DEF MInv
  <1>9. CASE \E s \in Senders : Sends(s)
    BY <1>9, Sending
  <1>10. QED
    BY <1>1, <1>2, <1>3, <1>4, <1>5, <1>6, <1>7, <1>8, <1>9 DEF Next, Sends

\* The invariant of every theorem below.
LEMMA Invariant == Spec => []MInv
  <1>1. Init => MInv
    BY InitOK
  <1>2. MInv /\ [Next]_vars => MInv'
    BY Inductive
  <1>3. QED
    BY <1>1, <1>2, PTL DEF Spec

\* Rows, jobs, matches, workers and requests keep their types.
THEOREM TypeCorrect == Spec => []TypeOK
  <1>1. MInv => TypeOK
    BY DEF MInv
  <1>2. QED
    BY <1>1, Invariant, PTL

\* A photo is in one match at most, and MATCHED exactly when it is in one, however many
\* requests compete for it.
THEOREM NeverMatchedTwice == Spec => []MatchedOnce
  <1>1. ASSUME MInv PROVE MatchedOnce
    <2>1. ASSUME NEW p \in Photos
          PROVE  /\ Cardinality({m \in matches : p \in m}) <= 1
                 /\ photo[p].status = "MATCHED" <=> {m \in matches : p \in m} # {}
      <3> DEFINE with == {m \in matches : p \in m}
      <3>1. photo[p].status = "MATCHED" <=> with # {}
        BY <1>1 DEF MInv, MatchesOK
      <3>2. with = {} \/ \E m \in matches : with = {m}
        BY <1>1 DEF MInv, MatchesOK
      <3> HIDE DEF with
      <3>3. Cardinality(with) <= 1
        <4>1. CASE with = {}
          BY <4>1, FS_EmptySet
        <4>2. ASSUME NEW m \in matches, with = {m} PROVE Cardinality(with) <= 1
          <5>1. Cardinality({m}) = 1
            BY FS_Singleton
          <5>2. QED
            BY <4>2, <5>1
        <4>3. QED
          BY <3>2, <4>1, <4>2
      <3>4. QED
        BY <3>1, <3>3 DEF with
    <2>2. QED
      BY <1>1, <2>1 DEF MInv, MatchesOK, MatchedOnce
  <1>2. QED
    BY <1>1, Invariant, PTL

\* What finalize has checked under its locks holds until it commits.
THEOREM DecisionsHold == Spec => []DecisionHolds
  <1>1. ASSUME MInv PROVE DecisionHolds
    <2> SUFFICES ASSUME NEW r \in Requests, request[r].step = "deciding"
                 PROVE  /\ \A p \in Pair(r) : photo[p].status = "SEARCHING" /\ p \in embedding
                        /\ \A s \in Requests \ {r} :
                             request[s].step = "deciding" => Pair(r) \cap Pair(s) = {}
      BY DEF DecisionHolds
    <2>1. request[r].left # {} /\ RequestOK(r)
      BY <1>1 DEF MInv, RequestOK, Finalizing
    <2>2. \A p \in Pair(r) : p \in embedding
      BY <1>1, <2>1, PairFacts DEF MInv, RequestOK, Pair
    <2>3. LockedBy(r) = Pair(r)
      BY DEF LockedBy
    <2>4. \A s \in Requests \ {r} : request[s].step = "deciding" => Pair(r) \cap Pair(s) = {}
      <3> SUFFICES ASSUME NEW s \in Requests \ {r}, request[s].step = "deciding"
                   PROVE  Pair(r) \cap Pair(s) = {}
        OBVIOUS
      <3>1. LockedBy(s) = Pair(s)
        BY DEF LockedBy
      <3>2. QED
        BY <1>1, <2>3, <3>1 DEF MInv, LocksOK
    <2>5. QED
      BY <2>1, <2>2, <2>4 DEF RequestOK
  <1>2. QED
    BY <1>1, Invariant, PTL

\* Requests lock their two rows in the order of the ids, so they never wait for each other in
\* a circle: the one that holds the greatest row waits for a row that none of them holds.
LEMMA NoCycleOfRequests ==
  ASSUME MInv, NEW C \in SUBSET Requests, Cycle(C)
  PROVE  FALSE
  <1> DEFINE Firsts == {FirstRow(x) : x \in C}
             above == {pq \in Firsts \X Firsts : pq[1] > pq[2]}
  <1>1. C # {} /\ \A x \in C : \E y \in C \ {x} : Wants(x) \cap Holds(y) # {}
    BY DEF Cycle
  <1>2. \A x \in C : Wants(x) # {} /\ \E y \in C : Wants(x) \cap Holds(y) # {}
    BY <1>1
  <1>3. \A x \in C : x \in Requests /\ x \notin Senders /\ x # Scheduler
    BY ConstantsAssumption
  <1>4. \A x \in C : request[x].step = "waiting" /\ Wants(x) = {SecondRow(x)}
    BY <1>2, <1>3 DEF Wants
  <1>5. \A x \in C : Holds(x) = {FirstRow(x)}
    BY <1>3, <1>4 DEF Holds, LockedBy
  <1>6. \A x \in C : FirstRow(x) \in Photos /\ SecondRow(x) \in Nat /\ FirstRow(x) < SecondRow(x)
    <2> SUFFICES ASSUME NEW x \in C
                 PROVE  /\ FirstRow(x) \in Photos
                        /\ SecondRow(x) \in Nat
                        /\ FirstRow(x) < SecondRow(x)
      OBVIOUS
    <2>1. RequestOK(x) /\ request[x].left # {} /\ x \in Requests /\ TypeOK
      BY <1>3, <1>4 DEF MInv, RequestOK, Finalizing
    <2>2. Pair(x) \subseteq Photos /\ Candidate(x) # request[x].photo
      BY <2>1, PairFacts
    <2>3. QED
      BY <2>1, <2>2, RowOrder
  <1>7. \A x \in C : \E y \in C : FirstRow(y) > FirstRow(x)
    BY <1>2, <1>4, <1>5, <1>6
  <1>8. Firsts \subseteq Nat /\ IsFiniteSet(Firsts) /\ Firsts # {}
    <2>1. IsFiniteSet(Photos)
      BY ConstantsAssumption
    <2>2. Photos \subseteq Nat
      BY ConstantsAssumption
    <2>3. Firsts \subseteq Photos
      BY <1>6
    <2>4. Firsts # {}
      BY <1>1
    <2> HIDE DEF Firsts
    <2>5. IsFiniteSet(Firsts)
      BY <2>1, <2>3, FS_Subset
    <2>6. QED
      BY <2>2, <2>3, <2>4, <2>5
  <1>9. \A p \in Firsts : \E q \in Firsts : <<q, p>> \in above
    BY <1>7
  <1> HIDE DEF Firsts
  <1>10. above \in SUBSET (Firsts \X Firsts) /\ \A p \in Firsts : <<p, p>> \notin above
    BY <1>8
  <1>11. \A p, q, o \in Firsts : <<p, q>> \in above /\ <<q, o>> \in above => <<p, o>> \in above
    BY <1>8
  <1> HIDE DEF above
  <1>12. \E p \in Firsts : \A q \in Firsts : <<q, p>> \notin above
    BY <1>8, <1>10, <1>11, FirstOfOrder
  <1>13. QED
    BY <1>9, <1>12

\* A postcard is about one match, and has locked the first rows of it.
SendsOK ==
    \A s \in Senders :
      sends[s] # NoLocking =>
        /\ sends[s].todo \cup sends[s].held \in matches
        /\ \A p \in sends[s].held, q \in sends[s].todo : RowBefore(p, q)

\* Matches are never dissolved, and only a postcard moves a postcard.
LEMMA OnlySends ==
  ASSUME [Next]_vars, ~\E s \in Senders : Sends(s)
  PROVE  sends' = sends /\ matches \subseteq matches'
  <1>1. CASE \E p \in Photos : \/ create_photo(p) \/ delete_photo(p) \/ SearchPeriodEnds(p)
                               \/ claim_next_unavailable(p) \/ LeaseEnds(p) \/ expire_row(p)
    BY <1>1 DEF create_photo, delete_photo, SearchPeriodEnds, claim_next_unavailable, LeaseEnds,
                expire_row
  <1>2. CASE expire_due \/ expire_commit \/ expire_aborted
    BY <1>2 DEF expire_due, expire_commit, expire_aborted
  <1>3. CASE \E u, v \in Users : block(u, v) \/ unblock(u, v)
    BY <1>3 DEF block, unblock
  <1>4. CASE \/ \E w \in Workers, p \in Photos, received \in BOOLEAN : claim_next(w, p, received)
             \/ \E w \in Workers, r \in Requests, outcome \in {"RESULT", "RETRYABLE", "FATAL"} :
                  run_embedding_once(w, r, outcome)
             \/ \E w \in Workers : Restart(w)
    BY <1>4 DEF claim_next, run_embedding_once, Restart
  <1>5. CASE \E r \in Requests : Serve(r) \/ crash(r)
    BY <1>5 DEF Serve, apply_result, apply_result_again, refuse, record_failure, list_candidates,
                no_match, finalize_match, lock_first, lock_second, commit_match, crash
  <1>6. CASE UNCHANGED vars
    BY <1>6 DEF vars
  <1>7. QED
    BY <1>1, <1>2, <1>3, <1>4, <1>5, <1>6 DEF Next, Sends

\* Each lock is the next one of the order.
LEMMA SendsKept ==
  ASSUME MInv, SendsOK, [Next]_vars
  PROVE  SendsOK'
  <1>1. CASE ~\E s \in Senders : Sends(s)
    BY <1>1, OnlySends DEF SendsOK
  <1>2. ASSUME NEW s \in Senders, Sends(s) PROVE SendsOK'
    <2>1. matches' = matches /\ sends \in [Senders -> Locking] /\ matches \in SUBSET Pairs
      BY <1>2, SendsOnly DEF MInv, TypeOK
    <2>2. CASE send_ends(s)
      BY <2>1, <2>2 DEF send_ends, SendsOK
    <2>3. ASSUME NEW m \in matches, send(s, m) PROVE SendsOK'
      <3>1. sends'[s].todo = m /\ sends'[s].held = {} /\ \A x \in Senders \ {s} : sends'[x] = sends[x]
        BY <2>1, <2>3 DEF send, NoLocking
      <3>2. QED
        BY <2>1, <3>1 DEF SendsOK
    <2>4. CASE send_locks(s)
      <3> DEFINE n == NextRow(s)
      <3>1. n \in sends[s].todo /\ \A q \in sends[s].todo \ {n} : RowBefore(n, q)
        <4>1. TypeOK /\ sends[s].todo # {}
          BY <2>4 DEF send_locks, MInv
        <4>2. QED
          BY <4>1, NextRowOfSend
      <3>2. /\ sends'[s].todo = sends[s].todo \ {n}
            /\ sends'[s].held = sends[s].held \cup {n}
            /\ \A x \in Senders \ {s} : sends'[x] = sends[x]
        BY <2>1, <2>4 DEF send_locks
      <3> HIDE DEF n
      <3>3. sends'[s].todo \cup sends'[s].held = sends[s].todo \cup sends[s].held
        BY <3>1, <3>2
      <3>4. \A q \in sends'[s].todo : RowBefore(n, q)
        BY <3>1, <3>2
      <3>5. sends[s] # NoLocking
        BY <3>1 DEF NoLocking
      <3>6. QED
        BY <2>1, <3>2, <3>3, <3>4, <3>5 DEF SendsOK
    <2>5. QED
      BY <1>2, <2>2, <2>3, <2>4 DEF Sends
  <1>3. QED
    BY <1>1, <1>2

\* Two postcards that meet are about the same match, and lock its rows in the same order.
LEMMA NoCycleOfSends ==
  ASSUME MInv, SendsOK, NEW C \in SUBSET Senders, Cycle(C)
  PROVE  FALSE
  <1>1. \A x \in C : /\ x \in Senders
                     /\ Holds(x) = sends[x].held
                     /\ Wants(x) = IF sends[x].todo = {} THEN {} ELSE {NextRow(x)}
    BY ConstantsAssumption DEF Holds, Wants
  <1>2. PICK x \in C : TRUE
    BY DEF Cycle
  <1>3. PICK y \in C, z \in C : Wants(x) \cap Holds(y) # {} /\ Wants(z) \cap Holds(x) # {}
    BY DEF Cycle
  <1>4. PICK v \in C : Wants(y) \cap Holds(v) # {}
    BY DEF Cycle
  <1>5. TypeOK
    BY DEF MInv
  <1>6. PICK n \in sends[y].held : n \in sends[x].todo
    BY <1>1, <1>3, <1>5, NextRowOfSend
  <1>7. PICK h \in sends[x].held : TRUE
    BY <1>1, <1>3
  <1>8. PICK t \in sends[y].todo : TRUE
    BY <1>1, <1>4
  <1>9. /\ RowBefore(h, n) /\ RowBefore(n, t)
        /\ {h, n} \subseteq sends[x].todo \cup sends[x].held
        /\ {n, t} \subseteq sends[y].todo \cup sends[y].held
        /\ sends[x].todo \cup sends[x].held \in matches
        /\ sends[y].todo \cup sends[y].held \in matches
    <2>1. x \in Senders /\ y \in Senders
      BY <1>1
    <2>2. sends[x] # NoLocking /\ sends[y] # NoLocking
      BY <1>6, <1>8 DEF NoLocking
    <2>3. QED
      BY <1>6, <1>7, <1>8, <2>1, <2>2 DEF SendsOK
  <1>10. PICK m \in matches : {h, n, t} \subseteq m
    BY <1>9 DEF MInv, MatchesOK
  <1>11. PICK a \in m, b \in m : m = {a, b}
    BY DEF MInv, MatchesOK
  <1>12. \A p \in {h, n, t} : p \in Nat /\ RegisteredAt[p] \in Nat
    BY <1>5, <1>10, ConstantsAssumption DEF TypeOK, Pairs
  <1>13. h # n /\ n # t /\ h # t
    BY <1>9, <1>12 DEF RowBefore
  <1>14. QED
    BY <1>10, <1>11, <1>13

\* Whatever candidates the requests try and whatever postcards are sent, each kind keeps its
\* own order of rows: a deadlock takes transactions of two kinds.
THEOREM NoDeadlocks == Spec => []NoDeadlock
  <1>1. Init => SendsOK
    BY DEF Init, SendsOK
  <1>2. MInv /\ SendsOK /\ [Next]_vars => SendsOK'
    BY SendsKept
  <1>3. MInv /\ SendsOK => NoDeadlock
    BY NoCycleOfRequests, NoCycleOfSends DEF NoDeadlock
  <1>4. QED
    BY <1>1, <1>2, <1>3, Invariant, PTL DEF Spec

-----------------------------------------------------------------------------
(* The refinement *)

\* The state function Lifecycle!status stands for.
StatusOf == [p \in Photos |-> photo[p].status]

\* One lemma per action that changes a status or a notification. An upload:
LEMMA CreateRefines ==
  ASSUME MInv, NEW p \in Photos, create_photo(p)
  PROVE  Lifecycle!Next
  <1>1. StatusOf[p] = "ABSENT"
    BY DEF create_photo, StatusOf
  <1>2. StatusOf' = [q \in Photos |-> IF q = p THEN "SEARCHING"
                                      ELSE IF q \in {} THEN "REJECTED" ELSE StatusOf[q]]
    BY DEF MInv, TypeOK, PhotoRow, create_photo, StatusOf
  <1>3. told' = [told EXCEPT ![p] = Append(@, "VALIDATION_PASSED")]
    BY DEF create_photo
  <1>4. Lifecycle!Register(p, {})
    BY <1>1, <1>2, <1>3 DEF Lifecycle!Register, StatusOf
  <1>5. {} \in SUBSET Photos
    OBVIOUS
  <1>6. QED
    BY <1>4, <1>5 DEF Lifecycle!Next

\* A deletion.
LEMMA DeleteRefines ==
  ASSUME MInv, NEW p \in Photos, delete_photo(p)
  PROVE  Lifecycle!Next
  <1>1. StatusOf[p] \in {"VALIDATING", "REJECTED", "SEARCHING", "EXPIRED"}
    BY DEF delete_photo, StatusOf
  <1>2. StatusOf' = [q \in Photos |-> IF q \in {p} THEN "DELETED" ELSE StatusOf[q]]
    BY DEF MInv, TypeOK, PhotoRow, delete_photo, StatusOf
  <1>3. UNCHANGED told
    BY DEF delete_photo
  <1>4. Lifecycle!Delete(p)
    BY <1>1, <1>2, <1>3 DEF StatusOf, Lifecycle!Delete, Lifecycle!MovesSilently
  <1>5. QED
    BY <1>4 DEF Lifecycle!Next

\* The end of a search period changes no status.
LEMMA PeriodEndsRefines ==
  ASSUME MInv, NEW p \in Photos, SearchPeriodEnds(p)
  PROVE  UNCHANGED <<StatusOf, told>>
  <1>1. \A q \in Photos : photo'[q].status = photo[q].status
    BY DEF MInv, TypeOK, PhotoRow, SearchPeriodEnds
  <1>2. QED
    BY <1>1 DEF SearchPeriodEnds, StatusOf

\* The UPDATE of the scheduler, over the rows it holds that still fit its condition.
LEMMA ExpireRefines ==
  ASSUME MInv, expire_commit
  PROVE  Lifecycle!Next \/ UNCHANGED <<StatusOf, told>>
  <1>1. PICK S \in SUBSET Photos : S = {p \in sweep.held : Expires(p)}
    BY DEF MInv, TypeOK, Locking
  <1>2. \A p \in S : StatusOf[p] = "SEARCHING"
    BY <1>1 DEF Expires, StatusOf
  <1>3. StatusOf' = [p \in Photos |-> IF p \in S THEN "EXPIRED" ELSE StatusOf[p]]
    BY <1>1 DEF MInv, TypeOK, PhotoRow, expire_commit, StatusOf
  <1>4. told' = [p \in Photos |-> IF p \in S THEN Append(told[p], "SEARCH_EXPIRED") ELSE told[p]]
    BY <1>1 DEF expire_commit
  <1>5. CASE S # {}
    <2>1. Lifecycle!Expire(S)
      BY <1>2, <1>3, <1>4, <1>5 DEF StatusOf, Lifecycle!Expire
    <2>2. QED
      BY <2>1 DEF Lifecycle!Next
  <1>6. CASE S = {}
    BY <1>3, <1>4, <1>6 DEF StatusOf, MInv, TypeOK
  <1>7. QED
    BY <1>5, <1>6

\* The commit of a match, which moves both photos of the pair.
LEMMA CommitRefines ==
  ASSUME MInv, NEW r \in Requests, commit_match(r)
  PROVE  Lifecycle!Next
  <1>1. RequestOK(r) /\ request[r].left # {}
    BY DEF MInv, RequestOK, Finalizing, commit_match
  <1>2. PICK p \in Photos, q \in Photos : Pair(r) = {p, q} /\ p # q
    BY <1>1, PairFacts DEF MInv, Pair
  <1>3. StatusOf[p] = "SEARCHING" /\ StatusOf[q] = "SEARCHING"
    BY <1>1, <1>2 DEF RequestOK, commit_match, StatusOf
  <1>4. StatusOf' = [StatusOf EXCEPT ![p] = "MATCHED", ![q] = "MATCHED"]
    BY <1>2 DEF MInv, TypeOK, PhotoRow, commit_match, StatusOf
  <1>5. told' = [told EXCEPT ![p] = Append(@, "MATCHED"), ![q] = Append(@, "MATCHED")]
    BY <1>2 DEF MInv, TypeOK, commit_match
  <1>6. Lifecycle!Pair(p, q)
    BY <1>2, <1>3, <1>4, <1>5 DEF StatusOf, Lifecycle!Pair
  <1>7. QED
    BY <1>6 DEF Lifecycle!Next

\* Every other step leaves the photos and the notifications as they are.
LEMMA StepRefines ==
  ASSUME MInv, [Next]_vars
  PROVE  Lifecycle!Next \/ UNCHANGED <<StatusOf, told>>
  <1>1. CASE UNCHANGED <<photo, told>>
    BY <1>1 DEF StatusOf
  <1>2. CASE Next /\ ~UNCHANGED <<photo, told>>
    <2>1. \/ \E p \in Photos : create_photo(p) \/ delete_photo(p) \/ SearchPeriodEnds(p)
          \/ expire_commit
          \/ \E r \in Requests : commit_match(r)
      BY <1>2 DEF Next, Serve, expire_due, expire_row, expire_aborted, block, unblock, claim_next, claim_next_unavailable, LeaseEnds,
                  run_embedding_once, Restart, apply_result, apply_result_again, refuse,
                  record_failure, list_candidates, no_match, finalize_match, lock_first,
                  lock_second, crash, send, send_locks, send_ends
    <2>2. QED
      BY <2>1, CreateRefines, DeleteRefines, PeriodEndsRefines, ExpireRefines, CommitRefines
  <1>3. QED
    BY <1>1, <1>2 DEF vars

\* The search, with its stale candidate lists, row locks, crashes and retries, implements the
\* lifecycle the owner of a photo is promised.
THEOREM Refines == Spec => LifecycleSpec
  <1>1. Init => Lifecycle!Init
    BY DEF Init, Lifecycle!Init
  <1>2. MInv /\ [Next]_vars => [Lifecycle!Next]_(Lifecycle!vars)
    BY StepRefines DEF Lifecycle!vars, StatusOf
  <1>3. QED
    BY <1>1, <1>2, Invariant, PTL DEF Spec, LifecycleSpec, Lifecycle!Spec

-----------------------------------------------------------------------------
(* What the owners hear *)

\* The news of a photo is its history, told once and in order: the search has begun, and
\* how it ended. A deletion is silent.
Heard ==
    \A p \in Photos :
      LET s == photo[p].status
          passed == <<"VALIDATION_PASSED">>
          expired == <<"VALIDATION_PASSED", "SEARCH_EXPIRED">>
      IN  /\ s = "ABSENT" => told[p] = <<>>
          /\ s = "SEARCHING" => told[p] = passed
          /\ s = "MATCHED" => told[p] = <<"VALIDATION_PASSED", "MATCHED">>
          /\ s = "EXPIRED" => told[p] = expired
          /\ s = "DELETED" => told[p] \in {passed, expired}

\* A second item makes a sequence of two.
LEMMA AppendToOne == \A x, y : Append(<<x>>, y) = <<x, y>>
<1> TAKE x, y
<1> DEFINE S == {x, y}
           a == Append(<<x>>, y)
           b == <<x, y>>
<1>1. a \in Seq(S) /\ b \in Seq(S) OBVIOUS
<1>2. Len(a) = 2 /\ Len(b) = 2 OBVIOUS
<1>3. a[1] = x /\ a[2] = y /\ b[1] = x /\ b[2] = y OBVIOUS
<1>4. \A i \in 1..Len(a) : a[i] = b[i] BY <1>2, <1>3
<1> QED BY <1>1, <1>2, <1>4, SeqEqual

\* Every step of the lifecycle tells what it does, so nothing is said twice or left out.
LEMMA HeardStep ==
  ASSUME TypeOK, TypeOK', Heard, Lifecycle!Next
  PROVE  Heard'
  <1>0. /\ \A p \in Photos : StatusOf[p] = photo[p].status /\ StatusOf'[p] = photo'[p].status
        /\ \A p \in Photos : StatusOf[p] \in PhotoStatus /\ StatusOf'[p] \in PhotoStatus
        /\ told \in [Photos -> Seq(NotificationType)]
    BY DEF TypeOK, PhotoRow, StatusOf
  <1>1. /\ Append(<<>>, "VALIDATION_PASSED") = <<"VALIDATION_PASSED">>
        /\ \A type : Append(<<"VALIDATION_PASSED">>, type) = <<"VALIDATION_PASSED", type>>
    BY AppendToOne
  <1>2. CASE \E p \in Photos, closed \in SUBSET Photos : Lifecycle!Register(p, closed)
    BY <1>0, <1>1, <1>2 DEF Heard, Lifecycle!Register, PhotoStatus, StatusOf
  <1>3. CASE \E p \in Photos : Lifecycle!Pass(p) \/ Lifecycle!Reject(p)
    BY <1>0, <1>3 DEF Lifecycle!Pass, Lifecycle!Reject, Lifecycle!MovesWithNotice, PhotoStatus, StatusOf
  <1>4. CASE \E p \in Photos : Lifecycle!Delete(p)
    <2>1. PICK p \in Photos : Lifecycle!Delete(p)
      BY <1>4
    <2>2. /\ StatusOf[p] \in {"SEARCHING", "EXPIRED"}
          /\ StatusOf'[p] = "DELETED"
          /\ \A x \in Photos \ {p} : StatusOf'[x] = StatusOf[x]
          /\ told' = told
      BY <1>0, <2>1 DEF Lifecycle!Delete, Lifecycle!MovesSilently, PhotoStatus, StatusOf
    <2>3. told[p] \in {<<"VALIDATION_PASSED">>, <<"VALIDATION_PASSED", "SEARCH_EXPIRED">>}
      BY <1>0, <2>2 DEF Heard
    <2>4. \A x \in Photos \ {p} : photo'[x].status = photo[x].status
      BY <1>0, <2>2
    <2>5. photo'[p].status = "DELETED"
      BY <1>0, <2>2
    <2>6. QED
      BY <2>2, <2>3, <2>4, <2>5 DEF Heard
  <1>5. CASE \E p, q \in Photos : Lifecycle!Pair(p, q)
    <2>1. PICK p \in Photos, q \in Photos : Lifecycle!Pair(p, q)
      BY <1>5
    <2>2. \A x \in Photos :
            IF x \in {p, q}
            THEN StatusOf[x] = "SEARCHING" /\ StatusOf'[x] = "MATCHED" /\ told'[x] = Append(told[x], "MATCHED")
            ELSE StatusOf'[x] = StatusOf[x] /\ told'[x] = told[x]
      BY <1>0, <2>1 DEF Lifecycle!Pair, StatusOf
    <2>3. ASSUME NEW x \in {p, q} PROVE told'[x] = <<"VALIDATION_PASSED", "MATCHED">>
      BY <1>0, <1>1, <2>2 DEF Heard
    <2>4. QED
      BY <1>0, <2>2, <2>3 DEF Heard
  <1>6. CASE \E S \in SUBSET Photos : Lifecycle!Expire(S)
    <2>1. PICK S \in SUBSET Photos : Lifecycle!Expire(S)
      BY <1>6
    <2>2. \A x \in Photos :
            IF x \in S
            THEN StatusOf[x] = "SEARCHING" /\ StatusOf'[x] = "EXPIRED" /\ told'[x] = Append(told[x], "SEARCH_EXPIRED")
            ELSE StatusOf'[x] = StatusOf[x] /\ told'[x] = told[x]
      BY <1>0, <2>1 DEF Lifecycle!Expire, StatusOf
    <2>3. ASSUME NEW x \in S PROVE told'[x] = <<"VALIDATION_PASSED", "SEARCH_EXPIRED">>
      BY <1>0, <1>1, <2>2 DEF Heard
    <2>4. QED
      BY <1>0, <2>2, <2>3 DEF Heard
  <1>7. CASE \E S \in SUBSET Photos : Lifecycle!TimeOut(S)
    BY <1>0, <1>7 DEF Lifecycle!TimeOut, Lifecycle!MovesSilently, PhotoStatus, StatusOf
  <1>8. QED
    BY <1>2, <1>3, <1>4, <1>5, <1>6, <1>7 DEF Lifecycle!Next

\* What the owner of a photo has been told is what has become of it: no retry, repeated
\* result, crash or race of a match with an expiration tells anything twice, or not at all.
THEOREM OwnersHear == Spec => []Heard
  <1>1. Init => Heard
    BY DEF Init, Heard
  <1>2. Heard /\ UNCHANGED <<StatusOf, told>> /\ TypeOK /\ TypeOK' => Heard'
    <2> SUFFICES ASSUME Heard, UNCHANGED <<StatusOf, told>> PROVE Heard'
      OBVIOUS
    <2>1. \A p \in Photos : photo'[p].status = photo[p].status
      BY DEF StatusOf
    <2>2. QED
      BY <2>1 DEF Heard
  <1>3. MInv /\ MInv' /\ Heard /\ [Next]_vars => Heard'
    BY <1>2, StepRefines, HeardStep DEF MInv
  <1>4. QED
    BY <1>1, <1>3, Invariant, PTL DEF Spec

-----------------------------------------------------------------------------
(* No pair is missed *)

\* The photo could be matched now.
Seeks(p) == photo[p].status = "SEARCHING" /\ ~photo[p].due

\* Two similar photos of owners who never block each other.
Mates(p, q) ==
    /\ Owner[p] # Owner[q]
    /\ Score[{p, q}] > 0
    /\ {<<Owner[p], Owner[q]>>, <<Owner[q], Owner[p]>>} \cap Blockable = {}

\* A pair that waits to be matched.
Waits(p, q) == Mates(p, q) /\ {p, q} \subseteq embedding /\ Seeks(p) /\ Seeks(q)

\* The search of p that will come to q: its list is not made yet, or q is on it.
Tries(r, p, q) ==
    /\ request[r].photo = p
    /\ \/ request[r].step = "saved"
       \/ request[r].step \in {"ranked"} \cup Finalizing /\ q \in request[r].left

Attended(p, q) == Waits(p, q) => \E r \in Requests : Tries(r, p, q) \/ Tries(r, q, p)

\* The clock that finalize_match has read never refuses a pair that is still in time.
InTime(r) ==
    request[r].step \in Finalizing /\ (\A p \in Pair(r) : ~photo[p].due) => request[r].in_time

\* Only what Blockable allows is stored, and nobody blocks oneself.
BlocksOK == blocks \subseteq Blockable /\ \A u \in Users : <<u, u>> \notin blocks

\* Jobs and vectors belong to photos that exist.
Known == \A p \in Photos : job[p].status # "ABSENT" \/ p \in embedding => photo[p].status # "ABSENT"

SearchInv ==
    /\ MInv
    /\ \A r \in Requests : InTime(r)
    /\ BlocksOK
    /\ Known

\* To each photo that searches, no more others do than the query returns.
WithinLimit == Cardinality({p \in embedding : Seeks(p)}) <= CandidateLimit + 1

\* A request ends, by a crash or as the victim of a deadlock, while its photo could still
\* be matched and before it has tried all its candidates.
SearchDies(p) ==
    \E r \in Requests : /\ request[r].photo = p
                        /\ Seeks(p)
                        /\ request[r].step = "saved" \/ request[r].left # {}
                        /\ crash(r)

\* Which steps write photos, blocks and vectors.
LEMMA Writers ==
  ASSUME [Next]_vars
  PROVE  /\ \/ photo' = photo
            \/ \E p \in Photos : create_photo(p) \/ delete_photo(p) \/ SearchPeriodEnds(p)
            \/ expire_commit
            \/ \E r \in Requests : commit_match(r)
         /\ blocks' = blocks \/ \E u, v \in Users : block(u, v) \/ unblock(u, v)
         /\ embedding' = embedding \/ \E r \in Requests : apply_result(r)
  <1>1. CASE \E p \in Photos : \/ create_photo(p) \/ delete_photo(p) \/ SearchPeriodEnds(p)
                               \/ claim_next_unavailable(p) \/ LeaseEnds(p)
    BY <1>1 DEF create_photo, delete_photo, SearchPeriodEnds, claim_next_unavailable, LeaseEnds
  <1>2. CASE expire_due \/ (\E p \in Photos : expire_row(p)) \/ expire_commit \/ expire_aborted
    BY <1>2 DEF expire_due, expire_row, expire_commit, expire_aborted
  <1>3. CASE \E u, v \in Users : block(u, v) \/ unblock(u, v)
    BY <1>3 DEF block, unblock
  <1>4. CASE \/ \E w \in Workers, p \in Photos, received \in BOOLEAN : claim_next(w, p, received)
             \/ \E w \in Workers, r \in Requests, outcome \in {"RESULT", "RETRYABLE", "FATAL"} :
                  run_embedding_once(w, r, outcome)
             \/ \E w \in Workers : Restart(w)
    BY <1>4 DEF claim_next, run_embedding_once, Restart
  <1>5. CASE \E r \in Requests : Serve(r) \/ crash(r)
    BY <1>5 DEF Serve, apply_result, apply_result_again, refuse, record_failure, list_candidates,
                no_match, finalize_match, lock_first, lock_second, commit_match, crash
  <1>6. CASE \E s \in Senders : Sends(s)
    BY <1>6, SendsOnly
  <1>7. CASE UNCHANGED vars
    BY <1>7 DEF vars
  <1>8. QED
    BY <1>1, <1>2, <1>3, <1>4, <1>5, <1>6, <1>7 DEF Next, Sends

\* A request moves by its own steps only.
LEMMA RequestMoves ==
  ASSUME MInv, [Next]_vars, NEW r \in Requests, request'[r] # request[r]
  PROVE  Serve(r) \/ crash(r) \/ (request[r] = Idle /\ request'[r].step = "received")
  <1>1. request \in [Requests -> Request]
    BY DEF MInv, TypeOK
  <1>2. CASE \E p \in Photos : \/ create_photo(p) \/ delete_photo(p) \/ SearchPeriodEnds(p)
                               \/ claim_next_unavailable(p) \/ LeaseEnds(p)
    BY <1>2 DEF create_photo, delete_photo, SearchPeriodEnds, claim_next_unavailable, LeaseEnds
  <1>3. CASE expire_due \/ (\E p \in Photos : expire_row(p)) \/ expire_commit \/ expire_aborted
    BY <1>3 DEF expire_due, expire_row, expire_commit, expire_aborted
  <1>4. CASE \E u, v \in Users : block(u, v) \/ unblock(u, v)
    BY <1>4 DEF block, unblock
  <1>5. CASE \/ \E w \in Workers, p \in Photos, received \in BOOLEAN : claim_next(w, p, received)
             \/ \E w \in Workers : Restart(w)
    BY <1>5 DEF claim_next, Restart
  <1>6. ASSUME NEW w \in Workers, NEW s \in Requests, NEW outcome \in {"RESULT", "RETRYABLE", "FATAL"},
               run_embedding_once(w, s, outcome)
        PROVE  request[r] = Idle /\ request'[r].step = "received"
    BY <1>1, <1>6 DEF run_embedding_once, Idle
  <1>7. ASSUME NEW s \in Requests, Serve(s) \/ crash(s)
        PROVE  r = s
    <2>1. \E new : Moves(s, new)
      BY <1>7 DEF Serve, apply_result, apply_result_again, refuse, record_failure, list_candidates,
                  no_match, finalize_match, lock_first, lock_second, commit_match, crash, Answer
    <2>2. QED
      BY <1>1, <2>1 DEF Moves
  <1>8. CASE \E s \in Senders : Sends(s)
    BY <1>8, SendsOnly
  <1>9. CASE UNCHANGED vars
    BY <1>9 DEF vars
  <1>10. QED
    BY <1>2, <1>3, <1>4, <1>5, <1>6, <1>7, <1>8, <1>9 DEF Next, Sends

\* A job appears with its photo.
LEMMA JobsAppear ==
  ASSUME MInv, [Next]_vars, NEW p \in Photos, job[p].status = "ABSENT", job'[p].status # "ABSENT"
  PROVE  create_photo(p)
  <1>1. job \in [Photos -> JobRow]
    BY DEF MInv, TypeOK
  <1>2. CASE \E x \in Photos : create_photo(x)
    BY <1>1, <1>2 DEF create_photo
  <1>3. CASE \E x \in Photos : delete_photo(x) \/ SearchPeriodEnds(x)
    BY <1>3 DEF delete_photo, SearchPeriodEnds
  <1>4. CASE \E x \in Photos : claim_next_unavailable(x)
    BY <1>1, <1>4 DEF claim_next_unavailable, Claimable
  <1>5. CASE \E x \in Photos : LeaseEnds(x)
    <2>1. PICK x \in Photos : LeaseEnds(x)
      BY <1>5
    <2>2. job' = [job EXCEPT ![x].leased = FALSE]
      BY <2>1 DEF LeaseEnds
    <2>3. job'[p].status = job[p].status
      BY <1>1, <2>2 DEF JobRow
    <2>4. QED
      BY <2>3
  <1>6. CASE expire_due \/ (\E x \in Photos : expire_row(x)) \/ expire_commit \/ expire_aborted
    BY <1>6 DEF expire_due, expire_row, expire_commit, expire_aborted
  <1>7. CASE \E u, v \in Users : block(u, v) \/ unblock(u, v)
    BY <1>7 DEF block, unblock
  <1>8. CASE \E w \in Workers, x \in Photos, received \in BOOLEAN : claim_next(w, x, received)
    BY <1>1, <1>8 DEF claim_next, Claimable
  <1>9. CASE \/ \E w \in Workers, r \in Requests, outcome \in {"RESULT", "RETRYABLE", "FATAL"} :
                  run_embedding_once(w, r, outcome)
             \/ \E w \in Workers : Restart(w)
    BY <1>9 DEF run_embedding_once, Restart
  <1>10. CASE \E r \in Requests : apply_result(r) \/ record_failure(r)
    BY <1>1, <1>10 DEF apply_result, record_failure, HoldsLease
  <1>11. CASE \E r \in Requests : (Serve(r) /\ ~apply_result(r) /\ ~record_failure(r)) \/ crash(r)
    BY <1>11 DEF Serve, apply_result_again, refuse, list_candidates, no_match, finalize_match,
                lock_first, lock_second, commit_match, crash
  <1>12. CASE \E s \in Senders : Sends(s)
    BY <1>12, SendsOnly
  <1>13. CASE UNCHANGED vars
    BY <1>13 DEF vars
  <1>14. QED
    BY <1>2, <1>3, <1>4, <1>5, <1>6, <1>7, <1>8, <1>9, <1>10, <1>11, <1>12, <1>13 DEF Next, Sends

\* A photo that is due stays due, one that exists stays in the table, and the search is
\* entered by the upload only.
LEMMA PhotoMoves ==
  ASSUME MInv, [Next]_vars, NEW p \in Photos
  PROVE  /\ photo[p].due => photo'[p].due
         /\ photo[p].status # "ABSENT" => photo'[p].status # "ABSENT"
         /\ photo'[p].status = "SEARCHING" => photo[p].status \in {"SEARCHING", "ABSENT"}
  <1>1. photo \in [Photos -> PhotoRow]
    BY DEF MInv, TypeOK
  <1>2. CASE \E x \in Photos : create_photo(x) \/ delete_photo(x) \/ SearchPeriodEnds(x)
    BY <1>1, <1>2 DEF create_photo, delete_photo, SearchPeriodEnds, PhotoRow
  <1>3. CASE expire_commit
    <2>1. photo'[p] = IF p \in {x \in sweep.held : Expires(x)}
                      THEN [photo[p] EXCEPT !.status = "EXPIRED"] ELSE photo[p]
      BY <1>3 DEF expire_commit
    <2>2. QED
      BY <1>1, <2>1 DEF PhotoRow
  <1>4. ASSUME NEW r \in Requests, commit_match(r)
        PROVE  /\ photo[p].due => photo'[p].due
               /\ photo[p].status # "ABSENT" => photo'[p].status # "ABSENT"
               /\ photo'[p].status = "SEARCHING" => photo[p].status \in {"SEARCHING", "ABSENT"}
    <2>1. photo'[p] = IF p \in Pair(r) THEN [photo[p] EXCEPT !.status = "MATCHED"] ELSE photo[p]
      BY <1>4 DEF commit_match
    <2>2. QED
      BY <1>1, <2>1 DEF PhotoRow
  <1>5. CASE photo' = photo
    BY <1>5
  <1>6. QED
    BY <1>2, <1>3, <1>4, <1>5, Writers

\* A vector is stored by a request about a job that has been claimed.
LEMMA KnownKept ==
  ASSUME SearchInv, [Next]_vars
  PROVE  Known'
  <1> SUFFICES ASSUME NEW p \in Photos, job'[p].status # "ABSENT" \/ p \in embedding'
               PROVE  photo'[p].status # "ABSENT"
    BY DEF Known
  <1>0. MInv /\ photo \in [Photos -> PhotoRow]
    BY DEF SearchInv, MInv, TypeOK
  <1>1. CASE job[p].status # "ABSENT" \/ p \in embedding
    BY <1>0, <1>1, PhotoMoves DEF SearchInv, Known
  <1>2. CASE job[p].status = "ABSENT" /\ job'[p].status # "ABSENT"
    <2>1. create_photo(p)
      BY <1>0, <1>2, JobsAppear
    <2>2. QED
      BY <1>0, <2>1 DEF create_photo
  <1>3. CASE p \notin embedding /\ p \in embedding'
    <2>1. PICK r \in Requests : apply_result(r)
      BY <1>3, Writers
    <2>2. request[r].photo = p /\ job[p].status = "PROCESSING"
      BY <1>3, <2>1 DEF apply_result, HoldsLease
    <2>3. QED
      BY <1>1, <2>2
  <1>4. QED
    BY <1>1, <1>2, <1>3

\* Only block adds a block.
LEMMA BlocksKept ==
  ASSUME BlocksOK, [Next]_vars
  PROVE  BlocksOK'
  <1>1. CASE blocks' = blocks
    BY <1>1 DEF BlocksOK
  <1>2. CASE \E u, v \in Users : block(u, v) \/ unblock(u, v)
    BY <1>2 DEF BlocksOK, block, unblock
  <1>3. QED
    BY <1>1, <1>2, Writers

\* finalize_match reads the clock for the pair it goes on with.
LEMMA InTimeKept ==
  ASSUME SearchInv, [Next]_vars, NEW r \in Requests
  PROVE  InTime(r)'
  <1> SUFFICES ASSUME request'[r].step \in Finalizing, \A p \in Pair(r)' : ~photo'[p].due
               PROVE  request'[r].in_time
    BY DEF InTime
  <1>1. MInv /\ request[r] \in Request
    BY DEF SearchInv, MInv, TypeOK
  <1>2. ASSUME Pair(r)' = Pair(r), request[r].left # {} PROVE \A p \in Pair(r) : ~photo[p].due
    <2>1. Pair(r) \subseteq Photos
      BY <1>1, <1>2, PairFacts DEF MInv
    <2>2. QED
      BY <1>1, <1>2, <2>1, PhotoMoves
  <1>3. request[r].step \in Finalizing => request[r].left # {}
    BY <1>1 DEF MInv, RequestOK
  <1>4. CASE request'[r] = request[r]
    BY <1>2, <1>3, <1>4, SamePair DEF SearchInv, InTime
  <1>5. CASE finalize_match(r)
    <2>1. request'[r] = [request[r] EXCEPT !.step = "locking",
                                           !.in_time = \A p \in Pair(r) : ~photo[p].due]
      BY <1>1, <1>5 DEF finalize_match, Moves, MInv, TypeOK
    <2>2. Pair(r)' = Pair(r)
      BY <1>1, <2>1, SamePair DEF Request
    <2>3. \A p \in Pair(r) : ~photo[p].due
      BY <1>2, <1>5, <2>2 DEF finalize_match
    <2>4. QED
      BY <1>1, <2>1, <2>3 DEF Request
  <1>6. CASE lock_first(r) \/ (lock_second(r) /\ Acceptable(r))
    <2>1. \E step \in {"waiting", "deciding"} : request'[r] = [request[r] EXCEPT !.step = step]
      BY <1>1, <1>6 DEF lock_first, lock_second, Moves, MInv, TypeOK
    <2>2. /\ request'[r].in_time = request[r].in_time
          /\ request'[r].photo = request[r].photo
          /\ request'[r].left = request[r].left
          /\ request[r].step \in Finalizing
      BY <1>1, <1>6, <2>1 DEF Request, lock_first, lock_second, Finalizing
    <2>3. QED
      BY <1>2, <1>3, <2>2, SamePair DEF SearchInv, InTime
  <1>7. CASE \/ Serve(r) /\ ~finalize_match(r) /\ ~lock_first(r) /\ ~(lock_second(r) /\ Acceptable(r))
             \/ crash(r)
    <2>1. request'[r].step \notin Finalizing
      <3>1. \A new : Moves(r, new) => request'[r] = new
        BY <1>1 DEF Moves, MInv, TypeOK
      <3>2. Answer(r) => request'[r].step = "idle"
        BY <3>1 DEF Answer, Idle
      <3>3. CASE apply_result(r) \/ apply_result_again(r)
        <4>1. request'[r] = [request[r] EXCEPT !.step = "saved"]
          BY <3>1, <3>3 DEF apply_result, apply_result_again
        <4>2. QED
          BY <1>1, <4>1 DEF Request, Finalizing
      <3>4. CASE list_candidates(r) /\ ~Answer(r)
        <4>1. request'[r] = [request[r] EXCEPT !.step = "ranked",
                                               !.left = Candidates(request[r].photo)]
          BY <3>1, <3>4 DEF list_candidates
        <4>2. QED
          BY <1>1, <4>1 DEF Request, Finalizing
      <3>5. CASE lock_second(r) /\ ~Acceptable(r)
        <4>1. request'[r] = [request[r] EXCEPT !.step = "ranked", !.left = @ \ {Candidate(r)},
                                               !.in_time = FALSE]
          BY <3>1, <3>5 DEF lock_second
        <4>2. QED
          BY <1>1, <4>1 DEF Request, Finalizing
      <3>6. QED
        BY <1>7, <3>2, <3>3, <3>4, <3>5
           DEF Serve, refuse, record_failure, no_match, commit_match, crash, Finalizing
    <2>2. QED
      BY <2>1
  <1>8. CASE request'[r].step = "received"
    BY <1>8 DEF Finalizing
  <1>9. QED
    BY <1>1, <1>4, <1>5, <1>6, <1>7, <1>8, RequestMoves

\* The invariant of the search is kept, and holds always.
LEMMA SearchInvKept ==
  ASSUME SearchInv, [Next]_vars
  PROVE  SearchInv'
  BY Inductive, InTimeKept, BlocksKept, KnownKept DEF SearchInv

LEMMA SearchInvariant == Spec => []SearchInv
  <1>1. Init => SearchInv
    <2> SUFFICES ASSUME Init PROVE SearchInv
      OBVIOUS
    <2>1. MInv
      BY InitOK
    <2>2. \A r \in Requests : InTime(r)
      BY DEF Init, InTime, Idle, Finalizing
    <2>3. BlocksOK /\ Known
      BY DEF Init, BlocksOK, Known, NoJobRow
    <2>4. QED
      BY <2>1, <2>2, <2>3 DEF SearchInv
  <1>2. SearchInv /\ [Next]_vars => SearchInv'
    BY SearchInvKept
  <1>3. QED
    BY <1>1, <1>2, PTL DEF Spec

-----------------------------------------------------------------------------
(* The search that will come to a pair *)

\* A pair begins to wait when the later one of its two vectors is stored.
LEMMA BeginsToWait ==
  ASSUME SearchInv, [Next]_vars, NEW p \in Photos, NEW q \in Photos,
         ~Waits(p, q), Waits(p, q)'
  PROVE  \E r \in Requests : Tries(r, p, q)' \/ Tries(r, q, p)'
  <1>0. MInv /\ request \in [Requests -> Request]
    BY DEF SearchInv, MInv, TypeOK
  <1>1. \A x \in {p, q} : photo[x].status # "ABSENT" => Seeks(x)
    BY <1>0, PhotoMoves DEF Waits, Seeks
  <1>2. CASE {p, q} \subseteq embedding
    BY <1>1, <1>2 DEF SearchInv, Known, Waits, Mates
  <1>3. CASE ~({p, q} \subseteq embedding)
    <2>1. PICK r \in Requests : apply_result(r)
      BY <1>3, Writers DEF Waits
    <2>2. request[r].photo \in {p, q}
      BY <1>3, <2>1 DEF apply_result, Waits
    <2>3. request'[r] = [request[r] EXCEPT !.step = "saved"]
      BY <1>0, <2>1 DEF apply_result, Moves
    <2>4. request'[r].photo = request[r].photo /\ request'[r].step = "saved"
      BY <1>0, <2>3 DEF Request
    <2>5. QED
      BY <2>2, <2>4 DEF Tries
  <1>4. QED
    BY <1>2, <1>3

\* The list of a photo contains every mate that waits, as long as the limit cuts nothing.
LEMMA ListsAll ==
  ASSUME SearchInv, WithinLimit, NEW p \in Photos, NEW q \in Photos, Waits(p, q)
  PROVE  q \in Candidates(p)
  <1> DEFINE S == {x \in embedding : Seeks(x)}
             older == {d \in Comparable(p) : RegisteredAt[d] < RegisteredAt[q]}
  <1>1. embedding \subseteq Photos /\ IsFiniteSet(Photos) /\ RegisteredAt \in [Photos -> Nat]
    BY ConstantsAssumption DEF SearchInv, MInv, TypeOK
  <1>2. ~Blocked(Owner[p], Owner[q])
    BY DEF Waits, Mates, Blocked, SearchInv, BlocksOK
  <1>3. q \in Comparable(p)
    BY <1>2 DEF Comparable, Waits, Mates, Seeks
  <1>4. IsFiniteSet(S) /\ p \in S /\ q \in S \ {p}
    BY <1>1, FS_Subset DEF Waits, Mates
  <1>5. older \subseteq (S \ {p}) \ {q}
    BY <1>1 DEF Comparable, Seeks
  <1>6. Cardinality(S) <= CandidateLimit + 1 /\ CandidateLimit \in Nat
    BY ConstantsAssumption DEF WithinLimit
  <1>7. Cardinality(older) < CandidateLimit
    <2> HIDE DEF S, older
    <2>1. IsFiniteSet(S \ {p}) /\ Cardinality(S \ {p}) = Cardinality(S) - 1
      BY <1>4, FS_RemoveElement
    <2>2. /\ IsFiniteSet((S \ {p}) \ {q})
          /\ Cardinality((S \ {p}) \ {q}) = Cardinality(S \ {p}) - 1
      BY <1>4, <2>1, FS_RemoveElement
    <2>3. IsFiniteSet(older) /\ Cardinality(older) <= Cardinality((S \ {p}) \ {q})
      BY <1>5, <2>2, FS_Subset
    <2>4. Cardinality(S) \in Nat /\ Cardinality(older) \in Nat
      BY <1>4, <2>3, FS_CardinalityType
    <2>5. QED
      BY <1>6, <2>1, <2>2, <2>3, <2>4
  <1>8. q \in Oldest(Comparable(p))
    BY <1>3, <1>7 DEF Oldest
  <1>9. QED
    BY <1>8 DEF Candidates, Waits, Mates

\* Nothing but the death of the request, or the end of the pair, keeps a search from coming
\* to the pair: a candidate that waits is accepted.
LEMMA GoesOn ==
  ASSUME SearchInv, WithinLimit, [Next]_vars, NEW p \in Photos, NEW q \in Photos, NEW r \in Requests,
         Waits(p, q), Waits(p, q)', Tries(r, p, q), ~SearchDies(p)
  PROVE  Tries(r, p, q)'
  <1>0. MInv /\ request \in [Requests -> Request] /\ request[r] \in Request
    BY DEF SearchInv, MInv, TypeOK
  <1>1. request[r] # Idle /\ request[r].photo = p
    BY DEF Tries, Idle, Finalizing
  <1>2. CASE request'[r] = request[r]
    BY <1>2 DEF Tries
  <1>3. CASE apply_result(r) \/ apply_result_again(r) \/ refuse(r) \/ record_failure(r)
    BY <1>3 DEF apply_result, apply_result_again, refuse, record_failure, Tries, Finalizing
  <1>4. CASE list_candidates(r)
    <2>1. q \in Candidates(p)
      BY ListsAll
    <2>2. request'[r] = [request[r] EXCEPT !.step = "ranked", !.left = Candidates(p)]
      BY <1>0, <1>1, <1>4 DEF list_candidates, Moves, Waits, Seeks
    <2>3. QED
      BY <1>0, <1>1, <2>1, <2>2 DEF Tries, Request
  <1>5. CASE no_match(r)
    BY <1>5 DEF no_match, Tries
  <1>6. CASE finalize_match(r) \/ lock_first(r) \/ (lock_second(r) /\ Acceptable(r))
    <2>1. request[r].step \in {"ranked"} \cup Finalizing
      BY <1>6 DEF finalize_match, lock_first, lock_second, Finalizing
    <2>2. \E step \in {"locking", "waiting", "deciding"}, in_time \in BOOLEAN :
            request'[r] = [request[r] EXCEPT !.step = step, !.in_time = in_time]
      <3>1. CASE finalize_match(r)
        <4>1. (\A x \in Pair(r) : ~photo[x].due) \in BOOLEAN
          OBVIOUS
        <4>2. QED
          BY <1>0, <3>1, <4>1 DEF finalize_match, Moves
      <3>2. CASE lock_first(r) \/ (lock_second(r) /\ Acceptable(r))
        <4>1. \E step \in {"waiting", "deciding"} : request'[r] = [request[r] EXCEPT !.step = step]
          BY <1>0, <3>2 DEF lock_first, lock_second, Moves
        <4>2. \A step : [request[r] EXCEPT !.step = step]
                          = [request[r] EXCEPT !.step = step, !.in_time = request[r].in_time]
          BY <1>0 DEF Request
        <4>3. request[r].in_time \in BOOLEAN
          BY <1>0 DEF Request
        <4>4. QED
          BY <4>1, <4>2, <4>3
      <3>3. QED
        BY <1>6, <3>1, <3>2
    <2>3. /\ request'[r].step \in Finalizing
          /\ request'[r].photo = request[r].photo
          /\ request'[r].left = request[r].left
      BY <1>0, <2>2 DEF Request, Finalizing
    <2>4. q \in request[r].left
      BY <2>1 DEF Tries, Finalizing
    <2>5. QED
      BY <1>1, <2>3, <2>4 DEF Tries
  <1>7. CASE lock_second(r) /\ ~Acceptable(r)
    <2>1. request'[r] = [request[r] EXCEPT !.step = "ranked", !.left = @ \ {Candidate(r)},
                                           !.in_time = FALSE]
      BY <1>0, <1>7 DEF lock_second, Moves
    <2>2. request'[r].step = "ranked" /\ request'[r].photo = p
          /\ request'[r].left = request[r].left \ {Candidate(r)}
      BY <1>0, <1>1, <2>1 DEF Request
    <2>3. q \in request[r].left
      BY <1>7 DEF lock_second, Tries
    <2>4. Candidate(r) # q
      <3> SUFFICES ASSUME Candidate(r) = q PROVE Acceptable(r)
        BY <1>7
      <3>1. Pair(r) = {p, q}
        BY <1>1 DEF Pair
      <3>2. request[r].in_time
        BY <1>7, <3>1 DEF SearchInv, InTime, Waits, Seeks, lock_second, Finalizing
      <3>3. Owner[p] \in Users /\ Owner[q] \in Users
        BY ConstantsAssumption
      <3>4. \A x, y \in {p, q} : ~Blocked(Owner[x], Owner[y])
        BY <3>3 DEF SearchInv, BlocksOK, Blocked, Waits, Mates
      <3>5. QED
        BY <3>1, <3>2, <3>4 DEF Acceptable, Waits, Seeks
    <2>5. QED
      BY <2>2, <2>3, <2>4 DEF Tries
  <1>8. CASE commit_match(r)
    <2>1. photo'[p] = [photo[p] EXCEPT !.status = "MATCHED"]
      BY <1>1, <1>8 DEF commit_match, Pair
    <2>2. photo[p] \in PhotoRow
      BY DEF SearchInv, MInv, TypeOK
    <2>3. QED
      BY <2>1, <2>2 DEF Waits, Seeks, PhotoRow
  <1>9. CASE crash(r)
    <2>1. request[r].step = "saved" \/ request[r].left # {}
      BY DEF Tries
    <2>2. QED
      BY <1>1, <1>9, <2>1 DEF SearchDies, Waits
  <1>10. QED
    BY <1>0, <1>1, <1>2, <1>3, <1>4, <1>5, <1>6, <1>7, <1>8, <1>9, RequestMoves DEF Serve

\* A pair stays attended.
LEMMA AttendedKept ==
  ASSUME SearchInv, WithinLimit, [Next]_vars, NEW p \in Photos, NEW q \in Photos,
         Attended(p, q), ~SearchDies(p), ~SearchDies(q)
  PROVE  Attended(p, q)'
  <1> SUFFICES ASSUME Waits(p, q)'
               PROVE  \E r \in Requests : Tries(r, p, q)' \/ Tries(r, q, p)'
    BY DEF Attended
  <1>1. CASE ~Waits(p, q)
    BY <1>1, BeginsToWait
  <1>2. CASE Waits(p, q)
    <2>1. PICK r \in Requests : Tries(r, p, q) \/ Tries(r, q, p)
      BY <1>2 DEF Attended
    <2>2. CASE Tries(r, p, q)
      BY <1>2, <2>2, GoesOn
    <2>3. CASE Tries(r, q, p)
      <3>1. Waits(q, p) /\ Waits(q, p)'
        <4>1. {p, q} = {q, p}
          OBVIOUS
        <4>2. QED
          BY <1>2, <4>1 DEF Waits, Mates
      <3>2. QED
        BY <2>3, <3>1, GoesOn
    <2>4. QED
      BY <2>1, <2>2, <2>3
  <1>3. QED
    BY <1>1, <1>2

\* What NoMissedPair says of one pair.
Found(p, q) == Waits(p, q) => InSearch(p) \/ InSearch(q)

\* A search that will come to the pair is under way.
LEMMA AttendedFound ==
  ASSUME NEW p \in Photos, NEW q \in Photos, Attended(p, q)
  PROVE  Found(p, q)
  BY DEF Attended, Found, Tries, InSearch, Finalizing

\* Two similar photos find each other, whatever happens to the requests of all other photos:
\* as long as no more photos search than the query for candidates returns, and none of the
\* requests of the two dies over its candidates.
THEOREM PairFound ==
  ASSUME NEW p \in Photos, NEW q \in Photos
  PROVE  Spec /\ []WithinLimit /\ [][~SearchDies(p) /\ ~SearchDies(q)]_vars => []Found(p, q)
  <1>1. Init => Attended(p, q)
    BY DEF Init, Attended, Waits
  <1>2. /\ SearchInv /\ WithinLimit /\ Attended(p, q) /\ [Next]_vars
        /\ [~SearchDies(p) /\ ~SearchDies(q)]_vars
        => Attended(p, q)'
    <2>1. ASSUME UNCHANGED vars, Attended(p, q) PROVE Attended(p, q)'
      BY <2>1 DEF vars, Attended, Waits, Mates, Seeks, Tries
    <2>2. QED
      BY <2>1, AttendedKept
  <1>3. Attended(p, q) => Found(p, q)
    BY AttendedFound
  <1>4. QED
    BY <1>1, <1>2, <1>3, SearchInvariant, PTL DEF Spec

\* MATCH-01 for any number of photos, requests and scores: no pair is missed while the limit of
\* the query cuts nothing and no request dies over its candidates. What the crash run shows
\* is the second condition; the code guarantees neither.
THEOREM NothingMissed ==
  Spec /\ []WithinLimit /\ [][\A p \in Photos : ~SearchDies(p)]_vars => []NoMissedPair
  <1> DEFINE AllAttended == \A p, q \in Photos : Attended(p, q)
  <1>1. Init => AllAttended
    BY DEF Init, Attended, Waits
  <1>2. /\ SearchInv /\ WithinLimit /\ AllAttended /\ [Next]_vars
        /\ [\A p \in Photos : ~SearchDies(p)]_vars
        => AllAttended'
    <2>1. ASSUME UNCHANGED vars, AllAttended PROVE AllAttended'
      BY <2>1 DEF vars, Attended, Waits, Mates, Seeks, Tries
    <2>2. QED
      BY <2>1, AttendedKept
  <1>3. AllAttended => NoMissedPair
    BY AttendedFound DEF NoMissedPair, Found, Waits, Mates, Seeks
  <1> HIDE DEF AllAttended
  <1>4. QED
    BY <1>1, <1>2, <1>3, SearchInvariant, PTL DEF Spec

-----------------------------------------------------------------------------
(* Every step of a request brings it nearer to its answer *)

\* The steps that a request may still take: four for each candidate it has left, and
\* before it has listed them, for each photo there is.
Work(q) ==
    CASE q.step = "idle"     -> 0
      [] q.step = "received" -> 4 * Cardinality(Photos) + 3
      [] q.step = "saved"    -> 4 * Cardinality(Photos) + 2
      [] q.step = "ranked"   -> 4 * Cardinality(q.left) + 1
      [] q.step = "locking"  -> 4 * Cardinality(q.left)
      [] q.step = "waiting"  -> 4 * Cardinality(q.left) - 1
      [] q.step = "deciding" -> 4 * Cardinality(q.left) - 2

WorkDone ==
    [][\A r \in Requests : request'[r] # request[r] =>
         request[r] = Idle \/ Work(request'[r]) < Work(request[r])]_vars

\* No list has more candidates than there are photos.
LEMMA Counts ==
  ASSUME NEW left \in SUBSET Photos
  PROVE  /\ Cardinality(Photos) \in Nat
         /\ Cardinality(left) \in Nat
         /\ Cardinality(left) <= Cardinality(Photos)
         /\ left # {} => Cardinality(left) > 0
         /\ \A c \in left : Cardinality(left \ {c}) = Cardinality(left) - 1
  <1>1. IsFiniteSet(Photos)
    BY ConstantsAssumption
  <1>2. IsFiniteSet(left) /\ Cardinality(left) <= Cardinality(Photos)
    BY <1>1, FS_Subset
  <1>3. QED
    BY <1>1, <1>2, FS_CardinalityType, FS_EmptySet, FS_RemoveElement

\* A request that is served has work left.
LEMMA SomeWork ==
  ASSUME MInv, NEW r \in Requests, request[r].step # "idle"
  PROVE  Work(request[r]) \in Nat /\ Work(request[r]) > 0
  <1>1. request[r] \in Request /\ (request[r].step \in Finalizing => request[r].left # {})
    BY DEF MInv, TypeOK, RequestOK
  <1>2. request[r].left \in SUBSET Photos /\ request[r].step \in Step
    BY <1>1 DEF Request
  <1>3. QED
    BY <1>1, <1>2, Counts DEF Work, Step, Finalizing

\* The work falls with each step; a candidate that is refused takes its four steps along.
LEMMA WorkFalls ==
  ASSUME MInv, [Next]_vars, NEW r \in Requests, request'[r] # request[r], request[r] # Idle
  PROVE  Work(request'[r]) < Work(request[r])
  <1> DEFINE q == request[r]
             n == Cardinality(q.left)
  <1>0. q \in Request /\ \A new : Moves(r, new) => request'[r] = new
    BY DEF MInv, TypeOK, Moves
  <1>1. q.left \in SUBSET Photos /\ n \in Nat /\ Cardinality(Photos) \in Nat
    BY <1>0, Counts DEF Request
  <1>2. Answer(r) /\ q.step # "idle" => Work(request'[r]) < Work(q)
    <2>1. Work(Idle) = 0
      BY DEF Work, Idle
    <2>2. QED
      BY <1>0, <2>1, SomeWork DEF Answer
  <1>3. CASE apply_result(r) \/ apply_result_again(r)
    <2>1. request'[r] = [q EXCEPT !.step = "saved"] /\ q.step = "received"
      BY <1>0, <1>3 DEF apply_result, apply_result_again
    <2>2. request'[r].step = "saved"
      BY <1>0, <2>1 DEF Request
    <2>3. QED
      BY <1>1, <2>1, <2>2 DEF Work
  <1>4. CASE list_candidates(r) /\ ~Answer(r)
    <2> DEFINE found == Candidates(q.photo)
    <2>1. request'[r] = [q EXCEPT !.step = "ranked", !.left = found] /\ q.step = "saved"
      BY <1>0, <1>4 DEF list_candidates
    <2>2. request'[r].step = "ranked" /\ request'[r].left = found
      BY <1>0, <2>1 DEF Request
    <2>3. found \in SUBSET Photos
      BY DEF Candidates, Oldest, Comparable
    <2>4. Cardinality(found) \in Nat /\ Cardinality(found) <= Cardinality(Photos)
      BY <2>3, Counts
    <2> HIDE DEF found
    <2>5. QED
      BY <1>1, <2>1, <2>2, <2>4 DEF Work
  <1>5. CASE finalize_match(r) \/ lock_first(r) \/ (lock_second(r) /\ Acceptable(r))
    <2>1. /\ request'[r].left = q.left
          /\ <<q.step, request'[r].step>> \in {<<"ranked", "locking">>, <<"locking", "waiting">>,
                                               <<"waiting", "deciding">>}
      BY <1>0, <1>5 DEF finalize_match, lock_first, lock_second, Request
    <2>2. QED
      BY <1>1, <2>1 DEF Work
  <1>6. CASE lock_second(r) /\ ~Acceptable(r)
    <2>1. /\ request'[r] = [q EXCEPT !.step = "ranked", !.left = @ \ {Candidate(r)}, !.in_time = FALSE]
          /\ q.step = "waiting"
      BY <1>0, <1>6 DEF lock_second
    <2>2. request'[r].step = "ranked" /\ request'[r].left = q.left \ {Candidate(r)}
      BY <1>0, <2>1 DEF Request
    <2>3. Candidate(r) \in q.left
      BY <2>1, PairFacts DEF MInv, RequestOK, Finalizing
    <2>4. Cardinality(request'[r].left) = n - 1
      BY <1>1, <2>2, <2>3, Counts
    <2>5. QED
      BY <1>1, <2>1, <2>2, <2>4 DEF Work
  <1>7. CASE refuse(r) \/ record_failure(r) \/ no_match(r) \/ commit_match(r) \/ crash(r)
             \/ (list_candidates(r) /\ Answer(r))
    BY <1>2, <1>7 DEF refuse, record_failure, no_match, commit_match, crash, list_candidates
  <1>8. QED
    BY <1>3, <1>4, <1>5, <1>6, <1>7, RequestMoves DEF Serve

\* A request is answered after at most four steps for each photo and three more, whatever
\* the other requests do: with NoDeadlock, all of RequestsEnd that needs no fairness.
THEOREM AnswerComesNearer == Spec => WorkDone
  <1>1. MInv /\ [Next]_vars =>
          [\A r \in Requests : request'[r] # request[r] =>
             request[r] = Idle \/ Work(request'[r]) < Work(request[r])]_vars
    BY WorkFalls
  <1>2. QED
    BY <1>1, Invariant, PTL DEF Spec, WorkDone

=============================================================================
