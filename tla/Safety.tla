------------------------------- MODULE Safety -------------------------------
(***************************************************************************)
(* What each of the two users of a match does about it, beside the          *)
(* postcards: viewing and hiding the match, blocking and reporting the      *)
(* other user or the photo, and what the two are shown in consequence.      *)
(*                                                                          *)
(* A report of a user is several statements: the insert of the report,      *)
(* which is flushed before the query for a block that follows it, and the   *)
(* insert of the block at the commit. All other calls change one row, and   *)
(* are one action. A photo that is matched can no longer be deleted, and    *)
(* the day on which the photos were registered, when a match is not yet     *)
(* shown, is over.                                                          *)
(***************************************************************************)
EXTENDS Postcards

VARIABLES
    viewed,     \* the users whose participant row has a viewed_at
    hidden,     \* the users whose participant row has a hidden_at
    reports,    \* reports: <<reporter, target type>>; the target is the other side
    filing,     \* for each user, the report of a user that waits for its commit
    answer      \* what the step answers to the call of a report that it ends

matchVars == <<viewed, hidden, reports, filing>>
safetyVars == <<vars, matchVars, answer>>

Targets == {"USER", "PHOTO"}

\* The report is not yet inserted, or inserted and a block was found or not.
Filings == {"none", "already blocked", "not blocked"}

NoAnswer == [code |-> "none", user |-> First, target |-> "USER"]
Answers == [code : {"none", "REPORTED", "REPORT_ALREADY_EXISTS", "SERVICE_UNAVAILABLE"},
            user : Users, target : Targets]

MatchTypeOK ==
    /\ viewed \subseteq Users
    /\ hidden \subseteq Users
    /\ reports \subseteq Users \X Targets
    /\ filing \in [Users -> Filings]
    /\ answer \in Answers

SafetyTypeOK == TypeOK /\ MatchTypeOK

\* finalize_match stores the rows of the match.
SafetyInit ==
    /\ Init
    /\ viewed = {}
    /\ hidden = {}
    /\ reports = {}
    /\ filing = [u \in Users |-> "none"]
    /\ answer = NoAnswer

-----------------------------------------------------------------------------
(* What a user is shown *)

Reported(u) == \E target \in Targets : <<u, target>> \in reports

\* Mutant of Shown: reports are left out of the filter.
Shown_reported(u) == u \notin viewed /\ u \notin hidden /\ blocks = {}

\* get_next_unviewed_match offers the match to the user.
Shown(u) == u \notin viewed /\ u \notin hidden /\ blocks = {} /\ ~Reported(u)

\* Mutant of resolve_postcard_permission: nobody is the first to send.
resolve_postcard_permission_waiting(u) ==
    IF blocks # {} THEN "BLOCKED"
    ELSE IF postcards = <<>> THEN "WAITING_FOR_FIRST"
    ELSE IF postcards[Latest].sender = u THEN "WAITING_FOR_REPLY"
    ELSE "CAN_SEND"

\* The permission on the page of the match.
resolve_postcard_permission(u) ==
    IF blocks # {} THEN "BLOCKED"
    ELSE IF postcards = <<>> THEN IF u = First THEN "CAN_SEND" ELSE "WAITING_FOR_FIRST"
    ELSE IF postcards[Latest].sender = u THEN "WAITING_FOR_REPLY"
    ELSE "CAN_SEND"

-----------------------------------------------------------------------------
(* Viewing and hiding *)

mark_match_viewed(u) ==
    /\ u \notin viewed
    /\ viewed' = viewed \cup {u}
    /\ answer' = NoAnswer
    /\ UNCHANGED <<vars, hidden, reports, filing>>

\* Mutant of update_match_visibility: a match shown again is unviewed again.
update_match_visibility_afresh(u, hide) ==
    /\ hidden' = IF hide THEN hidden \cup {u} ELSE hidden \ {u}
    /\ viewed' = IF hide THEN viewed ELSE viewed \ {u}
    /\ answer' = NoAnswer
    /\ UNCHANGED <<vars, reports, filing>>

update_match_visibility(u, hide) ==
    /\ hidden' = IF hide THEN hidden \cup {u} ELSE hidden \ {u}
    /\ answer' = NoAnswer
    /\ UNCHANGED <<vars, viewed, reports, filing>>

-----------------------------------------------------------------------------
(* Reports *)

Reply(code, u, target) == answer' = [code |-> code, user |-> u, target |-> target]

\* The query that follows the insert flushes it. A report that is stored already
\* makes it fail there, outside the handler of IntegrityError: 503.
report_again(u, target) ==
    /\ <<u, target>> \in reports
    /\ Reply("SERVICE_UNAVAILABLE", u, target)
    /\ UNCHANGED <<vars, matchVars>>

\* Mutant of report_photo: the report is written where the participant belongs.
report_photo_row(u) ==
    /\ <<u, "PHOTO">> \notin reports
    /\ reports' = reports \cup {<<u, "PHOTO">>}
    /\ hidden' = hidden \cup {<<u, "PHOTO">>}
    /\ Reply("REPORTED", u, "PHOTO")
    /\ UNCHANGED <<vars, viewed, filing>>

\* The participant of the reporter is hidden with the report.
report_photo(u) ==
    /\ <<u, "PHOTO">> \notin reports
    /\ reports' = reports \cup {<<u, "PHOTO">>}
    /\ hidden' = hidden \cup {u}
    /\ Reply("REPORTED", u, "PHOTO")
    /\ UNCHANGED <<vars, viewed, filing>>

\* The report is inserted, and the block looked for. While the insert is not
\* committed, the unique (reporter_id, target_type, target_id) makes others wait.
report_user(u) ==
    /\ <<u, "USER">> \notin reports
    /\ filing[u] = "none"
    /\ filing' = [filing EXCEPT ![u] = IF u \in blocks THEN "already blocked"
                                                       ELSE "not blocked"]
    /\ answer' = NoAnswer
    /\ UNCHANGED <<vars, viewed, hidden, reports>>

\* Mutant of report_user_commit: the block is left to the user.
report_user_commit_alone(u) ==
    /\ filing[u] = "not blocked" => u \notin blocks
    /\ filing[u] # "none"
    /\ filing' = [filing EXCEPT ![u] = "none"]
    /\ reports' = reports \cup {<<u, "USER">>}
    /\ Reply("REPORTED", u, "USER")
    /\ UNCHANGED <<vars, viewed, hidden>>

\* The block, unless one was found before, and the report are committed.
report_user_commit(u) ==
    /\ \/ /\ filing[u] = "not blocked"
          /\ block(u)
       \/ /\ filing[u] = "already blocked"
          /\ UNCHANGED vars
    /\ filing' = [filing EXCEPT ![u] = "none"]
    /\ reports' = reports \cup {<<u, "USER">>}
    /\ Reply("REPORTED", u, "USER")
    /\ UNCHANGED <<viewed, hidden>>

\* The same, when the user has blocked the other one in between: the primary key of
\* blocks fails, and the report is rolled back with it.
report_user_conflict(u) ==
    /\ filing[u] = "not blocked"
    /\ u \in blocks
    /\ filing' = [filing EXCEPT ![u] = "none"]
    /\ Reply("REPORT_ALREADY_EXISTS", u, "USER")
    /\ UNCHANGED <<vars, viewed, hidden, reports>>

\* The client gives up, or the process dies, before the commit.
report_user_abort(u) ==
    /\ filing[u] # "none"
    /\ filing' = [filing EXCEPT ![u] = "none"]
    /\ answer' = NoAnswer
    /\ UNCHANGED <<vars, viewed, hidden, reports>>

-----------------------------------------------------------------------------

\* A call on the postcards, or a block or its withdrawal.
contact ==
    /\ Next
    /\ answer' = NoAnswer
    /\ UNCHANGED matchVars

SafetyNext ==
    \/ contact
    \/ \E u \in Users : mark_match_viewed(u)
    \/ \E u \in Users, hide \in BOOLEAN : update_match_visibility(u, hide)
    \/ \E u \in Users, target \in Targets : report_again(u, target)
    \/ \E u \in Users : report_photo(u)
    \/ \E u \in Users : report_user(u)
    \/ \E u \in Users : report_user_commit(u)
    \/ \E u \in Users : report_user_conflict(u)
    \/ \E u \in Users : report_user_abort(u)

SafetySpec == SafetyInit /\ [][SafetyNext]_safetyVars

-----------------------------------------------------------------------------
(* Properties *)

\* A call that files a report is answered, with success or REPORT_ALREADY_EXISTS,
\* only when its user is no longer offered the match, whatever the user's blocks,
\* their withdrawal and another report have done since the call began.
ReportHides ==
    answer.code \in {"REPORTED", "REPORT_ALREADY_EXISTS"} => ~Shown(answer.user)

\* A user's report blocks the other user, unless the user has withdrawn a block while
\* the call was under way; it never puts a block of the other user in place.
ReportBlocks ==
    [][\A u \in Users :
         <<u, "USER">> \in reports' \ reports =>
           /\ u \in blocks' \/ filing[u] = "already blocked"
           /\ blocks' \ {u} = blocks \ {u}]_safetyVars

\* A match that is no longer offered to a user is offered again only when the user
\* unhides it or the last block is withdrawn, and never after the user has viewed or
\* reported it.
ComesBackByChoice ==
    [][\A u \in Users :
         ~Shown(u) /\ Shown(u)' =>
           /\ u \notin viewed /\ ~Reported(u)
           /\ u \in hidden \ hidden' \/ blocks # {}]_safetyVars

\* While nobody blocks, the page of the match lets one of the two users send, and it
\* is the one to whom send gives the turn: the users never wait for each other.
OneMaySend ==
    blocks = {} =>
      \E u \in Users : \A v \in Users :
        /\ resolve_postcard_permission(v) = "CAN_SEND" <=> v = u
        /\ HasTurn(v) <=> v = u

\* The error of the handler, "a report already received": it answers every report
\* that is stored already, and no other.
RepeatedAnswer ==
    answer.code \notin {"none", "REPORTED"} =>
      (answer.code = "REPORT_ALREADY_EXISTS" <=> <<answer.user, answer.target>> \in reports)

=============================================================================
