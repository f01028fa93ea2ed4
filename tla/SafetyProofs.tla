---------------------------- MODULE SafetyProofs ----------------------------
(***************************************************************************)
(* Proofs about Safety: it adds nothing to the postcards and blocks of      *)
(* Postcards, whose theorems hold of it, reports do what they promise, and  *)
(* the turn to send belongs to one of the two users.                        *)
(***************************************************************************)
EXTENDS Safety, PostcardsProofs

-----------------------------------------------------------------------------
(* Safety implements Postcards *)

LEMMA StepImplements == [SafetyNext]_safetyVars => [Next]_vars
<1> SUFFICES ASSUME [SafetyNext]_safetyVars PROVE [Next]_vars
  OBVIOUS
<1>1. CASE contact
  BY <1>1 DEF contact
<1>2. ASSUME NEW u \in Users, report_user_commit(u) PROVE [Next]_vars
  BY <1>2 DEF report_user_commit, Next
<1>3. ASSUME NEW u \in Users, \/ mark_match_viewed(u)
                              \/ \E hide \in BOOLEAN : update_match_visibility(u, hide)
      PROVE  UNCHANGED vars
  BY <1>3 DEF mark_match_viewed, update_match_visibility
<1>4. ASSUME NEW u \in Users, \/ \E target \in Targets : report_again(u, target)
                              \/ report_photo(u) \/ report_user(u)
                              \/ report_user_conflict(u) \/ report_user_abort(u)
      PROVE  UNCHANGED vars
  BY <1>4 DEF report_again, report_photo, report_user, report_user_conflict, report_user_abort
<1>5. CASE UNCHANGED safetyVars
  BY <1>5 DEF safetyVars
<1> QED
  BY <1>1, <1>2, <1>3, <1>4, <1>5 DEF SafetyNext

\* What the users do beside the postcards is, to the postcards and blocks, nothing but
\* a block: a report blocks as the user would.
THEOREM ImplementsPostcards == SafetySpec => Spec
<1>1. SafetyInit => Init
  BY DEF SafetyInit
<1> QED
  BY <1>1, StepImplements, PTL DEF SafetySpec, Spec

\* With reports and hiding, too, one postcard at most arrives after a block.
THEOREM SafetyLateOnce == SafetySpec => OneLatePostcard
BY ImplementsPostcards, LateOnce, PTL

\* Nor do they disturb the order of the postcards.
THEOREM SafetyOvertakenOnly == SafetySpec => []RepeatsOnlyOvertaken
BY ImplementsPostcards, OvertakenOnly, PTL

\* The page of the match and send give the turn to the same user, and always to one: the
\* query for the last postcard finds one, and it was sent by one of the two.
THEOREM OneSender == SafetySpec => []OneMaySend
<1>1. ASSUME OInv PROVE OneMaySend
  <2>0. First # Second /\ Users = {First, Second}
    BY ConstantsAssumption DEF Users
  <2> SUFFICES ASSUME blocks = {}
               PROVE  \E u \in Users : \A v \in Users :
                        /\ resolve_postcard_permission(v) = "CAN_SEND" <=> v = u
                        /\ HasTurn(v) <=> v = u
    BY DEF OneMaySend
  <2>1. CASE postcards = <<>>
    BY <2>0, <2>1 DEF resolve_postcard_permission, HasTurn, MayStart
  <2>2. CASE postcards # <<>>
    <3>1. Latest \in DOMAIN postcards
      BY <1>1, <2>2 DEF OInv, HasLatest, IsLatest, Latest
    <3>2. postcards[Latest].sender \in {First, Second}
      <4>1. postcards \in Seq(Postcard)
        BY <1>1 DEF OInv, PInv, TypeOK
      <4>2. postcards[Latest] \in Postcard
        BY <3>1, <4>1
      <4> QED
        BY <2>0, <4>2 DEF Postcard
    <3> QED
      BY <2>0, <2>2, <3>2 DEF resolve_postcard_permission, HasTurn
  <2> QED
    BY <2>1, <2>2
<1> QED
  BY <1>1, ImplementsPostcards, Order, PTL

-----------------------------------------------------------------------------
(* Types *)

LEMMA AnswerTypes ==
    /\ NoAnswer \in Answers
    /\ \A code \in {"REPORTED", "REPORT_ALREADY_EXISTS", "SERVICE_UNAVAILABLE"},
          u \in Users, target \in Targets :
         [code |-> code, user |-> u, target |-> target] \in Answers
BY DEF NoAnswer, Answers, Users, Targets

LEMMA TypeStep == MatchTypeOK /\ [SafetyNext]_safetyVars => MatchTypeOK'
<1> SUFFICES ASSUME MatchTypeOK, [SafetyNext]_safetyVars PROVE MatchTypeOK'
  OBVIOUS
<1>1. CASE contact
  BY <1>1, AnswerTypes DEF contact, matchVars, MatchTypeOK
<1>2. ASSUME NEW u \in Users, mark_match_viewed(u) PROVE MatchTypeOK'
  BY <1>2, AnswerTypes DEF mark_match_viewed, MatchTypeOK
<1>3. ASSUME NEW u \in Users, NEW hide \in BOOLEAN, update_match_visibility(u, hide)
      PROVE  MatchTypeOK'
  <2>1. hidden' \subseteq Users
    BY <1>3 DEF update_match_visibility, MatchTypeOK
  <2> QED
    BY <2>1, <1>3, AnswerTypes DEF update_match_visibility, MatchTypeOK
<1>4. ASSUME NEW u \in Users, NEW target \in Targets, report_again(u, target)
      PROVE  MatchTypeOK'
  BY <1>4, AnswerTypes DEF report_again, Reply, matchVars, MatchTypeOK
<1>5. ASSUME NEW u \in Users, report_photo(u) PROVE MatchTypeOK'
  <2>1. reports' \subseteq Users \X Targets /\ hidden' \subseteq Users
    BY <1>5 DEF report_photo, MatchTypeOK, Targets
  <2>2. answer' \in Answers
    BY <1>5, AnswerTypes DEF report_photo, Reply, Targets
  <2> QED
    BY <2>1, <2>2, <1>5 DEF report_photo, MatchTypeOK
<1>6. ASSUME NEW u \in Users, report_user(u) PROVE MatchTypeOK'
  <2>1. filing' \in [Users -> Filings]
    BY <1>6 DEF report_user, MatchTypeOK, Filings
  <2> QED
    BY <2>1, <1>6, AnswerTypes DEF report_user, MatchTypeOK
<1>7. ASSUME NEW u \in Users, report_user_commit(u) PROVE MatchTypeOK'
  <2>1. filing' \in [Users -> Filings]
    BY <1>7 DEF report_user_commit, MatchTypeOK, Filings
  <2>2. reports' \subseteq Users \X Targets
    <3>1. reports' = reports \cup {<<u, "USER">>}
      BY <1>7 DEF report_user_commit
    <3>2. <<u, "USER">> \in Users \X Targets
      BY DEF Targets
    <3> QED
      BY <3>1, <3>2 DEF MatchTypeOK
  <2>3. answer' \in Answers
    BY <1>7, AnswerTypes DEF report_user_commit, Reply, Targets
  <2>4. UNCHANGED <<viewed, hidden>>
    BY <1>7 DEF report_user_commit
  <2> QED
    BY <2>1, <2>2, <2>3, <2>4 DEF MatchTypeOK
<1>8. ASSUME NEW u \in Users, report_user_conflict(u) PROVE MatchTypeOK'
  BY <1>8, AnswerTypes DEF report_user_conflict, Reply, MatchTypeOK, Filings, Targets
<1>9. ASSUME NEW u \in Users, report_user_abort(u) PROVE MatchTypeOK'
  BY <1>9, AnswerTypes DEF report_user_abort, MatchTypeOK, Filings
<1>10. CASE UNCHANGED safetyVars
  BY <1>10 DEF safetyVars, matchVars, MatchTypeOK
<1> QED
  BY <1>1, <1>2, <1>3, <1>4, <1>5, <1>6, <1>7, <1>8, <1>9, <1>10 DEF SafetyNext

\* The types, of the postcards too.
THEOREM SafetyTypeCorrect == SafetySpec => []SafetyTypeOK
<1>1. SafetyInit => MatchTypeOK
  BY AnswerTypes DEF SafetyInit, MatchTypeOK, Filings
<1>2. MatchTypeOK /\ TypeOK => SafetyTypeOK
  BY DEF SafetyTypeOK
<1> QED
  BY <1>1, <1>2, TypeStep, ImplementsPostcards, PostcardsTypeCorrect, PTL DEF SafetySpec

-----------------------------------------------------------------------------
(* Reports *)

\* A success stores the report, a conflict meets a block; nothing else is answered.
LEMMA HideStep == ReportHides /\ [SafetyNext]_safetyVars => ReportHides'
<1> SUFFICES ASSUME ReportHides, [SafetyNext]_safetyVars PROVE ReportHides'
  OBVIOUS
<1>1. CASE answer'.code \in {"none", "SERVICE_UNAVAILABLE"}
  BY <1>1 DEF ReportHides
<1>2. ASSUME NEW u \in Users, report_photo(u) PROVE ReportHides'
  BY <1>2 DEF report_photo, Reply, ReportHides, Shown, Reported, Targets
<1>3. ASSUME NEW u \in Users, report_user_commit(u) PROVE ReportHides'
  BY <1>3 DEF report_user_commit, Reply, ReportHides, Shown, Reported, Targets
<1>4. ASSUME NEW u \in Users, report_user_conflict(u) PROVE ReportHides'
  <2>1. blocks' # {}
    BY <1>4 DEF report_user_conflict, vars
  <2> QED
    BY <2>1 DEF ReportHides, Shown
<1>5. CASE UNCHANGED safetyVars
  BY <1>5 DEF safetyVars, vars, matchVars, ReportHides, Shown, Reported
<1>6. ASSUME answer' = NoAnswer PROVE ReportHides'
  BY <1>6, <1>1 DEF NoAnswer
<1>7. ASSUME NEW u \in Users, NEW target \in Targets, report_again(u, target) PROVE ReportHides'
  BY <1>7, <1>1 DEF report_again, Reply
<1>8. ASSUME contact \/ \E u \in Users : \/ mark_match_viewed(u)
                                         \/ \E hide \in BOOLEAN : update_match_visibility(u, hide)
                                         \/ report_user(u) \/ report_user_abort(u)
      PROVE  answer' = NoAnswer
  BY <1>8 DEF contact, mark_match_viewed, update_match_visibility, report_user, report_user_abort
<1> QED
  BY <1>2, <1>3, <1>4, <1>5, <1>6, <1>7, <1>8 DEF SafetyNext

\* A report that is answered with success or a conflict hides the match from its user.
THEOREM ReportsHide == SafetySpec => []ReportHides
<1>1. SafetyInit => ReportHides
  BY DEF SafetyInit, ReportHides, NoAnswer
<1> QED
  BY <1>1, HideStep, PTL DEF SafetySpec

\* Reports are only added, and a report of a user only by its commit.
LEMMA BlockStep ==
    ASSUME SafetyNext, NEW u \in Users, <<u, "USER">> \in reports' \ reports
    PROVE  /\ u \in blocks' \/ filing[u] = "already blocked"
           /\ blocks' \ {u} = blocks \ {u}
<1>1. ASSUME NEW v \in Users, report_photo(v) PROVE FALSE
  BY <1>1 DEF report_photo
<1>2. ASSUME NEW v \in Users, report_user_commit(v) PROVE u = v
  BY <1>2 DEF report_user_commit
<1>3. report_user_commit(u)
  BY <1>1, <1>2 DEF SafetyNext, contact, matchVars, mark_match_viewed, update_match_visibility,
                    report_again, report_user, report_user_conflict, report_user_abort
<1>4. CASE block(u)
  BY <1>4 DEF block
<1>5. CASE filing[u] = "already blocked" /\ UNCHANGED vars
  BY <1>5 DEF vars
<1> QED
  BY <1>3, <1>4, <1>5 DEF report_user_commit

\* A report of a user blocks the other one, or its user has withdrawn a block meanwhile.
THEOREM ReportsBlock == SafetySpec => ReportBlocks
<1>1. [SafetyNext]_safetyVars =>
        [\A u \in Users : <<u, "USER">> \in reports' \ reports =>
            /\ u \in blocks' \/ filing[u] = "already blocked"
            /\ blocks' \ {u} = blocks \ {u}]_safetyVars
  BY BlockStep
<1> QED
  BY <1>1, PTL DEF SafetySpec, ReportBlocks

\* Reports and views are never taken back.
LEMMA KeepStep == SafetyNext => reports \subseteq reports' /\ viewed \subseteq viewed'
BY DEF SafetyNext, contact, matchVars, mark_match_viewed, update_match_visibility, report_again,
       report_photo, report_user, report_user_commit, report_user_conflict, report_user_abort

LEMMA ComeBackStep ==
    ASSUME SafetyNext, NEW u \in Users, ~Shown(u), Shown(u)'
    PROVE  /\ u \notin viewed /\ ~Reported(u)
           /\ u \in hidden \ hidden' \/ blocks # {}
BY KeepStep DEF Shown, Reported

\* A match comes back only by the users' own choice, never after a view or a report.
THEOREM ComesBack == SafetySpec => ComesBackByChoice
<1>1. [SafetyNext]_safetyVars =>
        [\A u \in Users : ~Shown(u) /\ Shown(u)' =>
            /\ u \notin viewed /\ ~Reported(u)
            /\ u \in hidden \ hidden' \/ blocks # {}]_safetyVars
  BY ComeBackStep
<1> QED
  BY <1>1, PTL DEF SafetySpec, ComesBackByChoice

-----------------------------------------------------------------------------
(* The answer to a report that is not filed *)

\* While a report of a user waits for its commit, no report of that user is stored.
FilingIsNew == \A u \in Users : filing[u] # "none" => <<u, "USER">> \notin reports

\* The error for "a report already received" goes to the reports that are not stored,
\* and to them only: RepeatedAnswer upside down.
ErrorsInverted ==
    answer.code \notin {"none", "REPORTED"} =>
      (answer.code = "REPORT_ALREADY_EXISTS" <=> <<answer.user, answer.target>> \notin reports)

\* A report waits only from its insert, which found none, to its end.
LEMMA FilingStep == MatchTypeOK /\ FilingIsNew /\ [SafetyNext]_safetyVars => FilingIsNew'
<1> SUFFICES ASSUME MatchTypeOK, FilingIsNew, [SafetyNext]_safetyVars,
                    NEW u \in Users, filing'[u] # "none"
             PROVE  <<u, "USER">> \notin reports'
  BY DEF FilingIsNew
<1>1. ASSUME NEW v \in Users, report_photo(v) PROVE <<u, "USER">> \notin reports'
  BY <1>1 DEF report_photo, FilingIsNew
<1>2. ASSUME NEW v \in Users, report_user(v) PROVE <<u, "USER">> \notin reports'
  BY <1>2 DEF report_user, FilingIsNew, MatchTypeOK
<1>3. ASSUME NEW v \in Users,
             report_user_commit(v) \/ report_user_conflict(v) \/ report_user_abort(v)
      PROVE  <<u, "USER">> \notin reports'
  <2>1. /\ filing' = [filing EXCEPT ![v] = "none"]
        /\ reports' = reports \/ reports' = reports \cup {<<v, "USER">>}
    BY <1>3 DEF report_user_commit, report_user_conflict, report_user_abort
  <2>2. u # v /\ filing[u] # "none"
    BY <2>1 DEF MatchTypeOK
  <2> QED
    BY <2>1, <2>2 DEF FilingIsNew
<1>4. CASE UNCHANGED <<filing, reports>>
  BY <1>4 DEF FilingIsNew
<1>5. ASSUME \/ contact \/ UNCHANGED safetyVars
             \/ \E v \in Users : \/ mark_match_viewed(v)
                                 \/ \E hide \in BOOLEAN : update_match_visibility(v, hide)
                                 \/ \E target \in Targets : report_again(v, target)
      PROVE  UNCHANGED <<filing, reports>>
  BY <1>5 DEF contact, safetyVars, matchVars, mark_match_viewed, update_match_visibility, report_again
<1> QED
  BY <1>1, <1>2, <1>3, <1>4, <1>5 DEF SafetyNext

LEMMA ErrorStep ==
  FilingIsNew /\ ErrorsInverted /\ [SafetyNext]_safetyVars => ErrorsInverted'
<1> SUFFICES ASSUME FilingIsNew, ErrorsInverted, [SafetyNext]_safetyVars PROVE ErrorsInverted'
  OBVIOUS
<1>1. CASE answer'.code \in {"none", "REPORTED"}
  BY <1>1 DEF ErrorsInverted
<1>2. ASSUME NEW u \in Users, NEW target \in Targets, report_again(u, target)
      PROVE  ErrorsInverted'
  BY <1>2 DEF report_again, Reply, matchVars, ErrorsInverted
<1>3. ASSUME NEW u \in Users, report_user_conflict(u) PROVE ErrorsInverted'
  BY <1>3 DEF report_user_conflict, Reply, FilingIsNew, ErrorsInverted
<1>4. CASE UNCHANGED safetyVars
  BY <1>4 DEF safetyVars, matchVars, ErrorsInverted
<1>5. ASSUME NEW u \in Users, report_photo(u) \/ report_user_commit(u) PROVE ErrorsInverted'
  <2>1. \E target \in Targets : Reply("REPORTED", u, target)
    BY <1>5 DEF report_photo, report_user_commit, Targets
  <2>2. answer'.code = "REPORTED"
    BY <2>1 DEF Reply
  <2> QED
    BY <1>1, <2>2
<1>6. ASSUME contact \/ \E u \in Users : \/ mark_match_viewed(u)
                                         \/ \E hide \in BOOLEAN : update_match_visibility(u, hide)
                                         \/ report_user(u) \/ report_user_abort(u)
      PROVE  ErrorsInverted'
  <2>1. answer' = NoAnswer
    BY <1>6 DEF contact, mark_match_viewed, update_match_visibility, report_user, report_user_abort
  <2> QED
    BY <1>1, <2>1 DEF NoAnswer
<1> QED
  BY <1>2, <1>3, <1>4, <1>5, <1>6 DEF SafetyNext

\* No report that is stored is ever answered as one already received, and each one that is
\* so answered is lost: RepeatedAnswer fails whenever an error is answered at all.
THEOREM NeverToldSo == SafetySpec => []ErrorsInverted
<1>1. SafetyInit => FilingIsNew /\ ErrorsInverted
  BY DEF SafetyInit, FilingIsNew, ErrorsInverted, NoAnswer
<1>2. SafetyTypeOK => MatchTypeOK
  BY DEF SafetyTypeOK
<1> QED
  BY <1>1, <1>2, FilingStep, ErrorStep, SafetyTypeCorrect, PTL DEF SafetySpec

=============================================================================
