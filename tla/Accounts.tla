------------------------------ MODULE Accounts ------------------------------
(***************************************************************************)
(* The account behind the sessions of one user: its creation by a first    *)
(* login, onboarding, changes of the profile, and the withdrawal.           *)
(*                                                                          *)
(* Each handler reads the row without a lock and commits later; the ORM     *)
(* writes the columns whose value differs from the one that was read, and   *)
(* no others. The nickname stands for the columns of the profile; a change   *)
(* of the bio alone writes the nickname that was read, so it leaves it. That *)
(* another account holds a nickname is left open: any change may be refused. *)
(***************************************************************************)
EXTENDS Sessions

CONSTANTS
    Nicknames,
    NoNickname,   \* nickname IS NULL
    Edits         \* onboarding and profile requests, each made once

ASSUME NicknamesAssumption == NoNickname \notin Nicknames

VARIABLES
    row,          \* the row of the user in users: "ABSENT" until the first login
    nickname,     \* users.nickname
    terms,        \* the term_type of the user's rows in user_terms
    first,        \* the logins that found no user and are about to create it
    edits,        \* how far each profile request has come, and what it read
    loaded        \* the nickname each withdrawal read

profile == <<row, nickname, terms, first, edits, loaded>>

accountVars == <<vars, profile>>

\* The term types of an onboarding, whether the optional one is agreed to or not.
Consents == {"SERVICE", "PRIVACY", "AGE_14", "MARKETING"}

Edit == [step : {"none", "onboarding", "update", "over"},
         nickname : Nicknames \cup {NoNickname}]

ProfileTypeOK ==
    /\ row \in {"ABSENT", "STORED"}
    /\ nickname \in Nicknames \cup {NoNickname}
    /\ terms \subseteq Consents
    /\ first \subseteq Logins
    /\ edits \in [Edits -> Edit]
    /\ loaded \in [Withdrawals -> Nicknames \cup {NoNickname}]

AccountTypeOK == TypeOK /\ ProfileTypeOK

AccountInit ==
    /\ Init
    /\ row = "ABSENT"
    /\ nickname = NoNickname
    /\ terms = {}
    /\ first = {}
    /\ edits = [e \in Edits |-> [step |-> "none", nickname |-> NoNickname]]
    /\ loaded = [w \in Withdrawals |-> NoNickname]

-----------------------------------------------------------------------------
(* The first login *)

\* get_by_kakao_id or get_by_apple_id finds no user.
find_nobody(l) ==
    /\ row = "ABSENT"
    /\ logins[l] = "none"
    /\ l \notin first
    /\ first' = first \cup {l}
    /\ UNCHANGED <<vars, row, nickname, terms, edits, loaded>>

\* The insert, or the unique index on the id of the provider refuses it: then the
\* row of the other login is read. Both ways the login goes on with the user.
create_from_provider(l) ==
    /\ l \in first
    /\ row' = "STORED"
    /\ first' = first \ {l}
    /\ UNCHANGED <<vars, nickname, terms, edits, loaded>>

\* The request dies before it has created the user, as if it was never made.
create_interrupted(l) ==
    /\ l \in first
    /\ first' = first \ {l}
    /\ UNCHANGED <<vars, row, nickname, terms, edits, loaded>>

-----------------------------------------------------------------------------
(* Onboarding and profile *)

\* Onboarding is required as long as there is no nickname.
onboarding_read(e) ==
    /\ row = "STORED"
    /\ status = "ACTIVE"
    /\ nickname = NoNickname
    /\ edits[e].step = "none"
    /\ edits' = [edits EXCEPT ![e] = [step |-> "onboarding", nickname |-> NoNickname]]
    /\ UNCHANGED <<vars, row, nickname, terms, first, loaded>>

\* Mutant of complete_onboarding: the consents are left to a commit of their own.
complete_onboarding_alone(e, n) ==
    /\ edits[e].step = "onboarding"
    /\ terms = {}
    /\ nickname' = n
    /\ edits' = [edits EXCEPT ![e].step = "over"]
    /\ UNCHANGED <<vars, row, terms, first, loaded>>

\* The nickname and the consents are committed together. The consents of a user
\* are stored once: a second onboarding violates their unique constraint.
complete_onboarding(e, n) ==
    /\ edits[e].step = "onboarding"
    /\ terms = {}
    /\ nickname' = n
    /\ terms' = Consents
    /\ edits' = [edits EXCEPT ![e].step = "over"]
    /\ UNCHANGED <<vars, row, first, loaded>>

update_read(e) ==
    /\ row = "STORED"
    /\ status = "ACTIVE"
    /\ nickname # NoNickname
    /\ edits[e].step = "none"
    /\ edits' = [edits EXCEPT ![e] = [step |-> "update", nickname |-> nickname]]
    /\ UNCHANGED <<vars, row, nickname, terms, first, loaded>>

\* Mutant of update_profile: the whole row is written as it was read.
update_profile_row(e, n) ==
    /\ edits[e].step = "update"
    /\ nickname' = n
    /\ status' = "ACTIVE"
    /\ edits' = [edits EXCEPT ![e].step = "over"]
    /\ UNCHANGED <<redis, logins, withdrawals, row, terms, first, loaded>>

\* A nickname that equals the one that was read is not written.
update_profile(e, n) ==
    /\ edits[e].step = "update"
    /\ nickname' = IF n = edits[e].nickname THEN nickname ELSE n
    /\ edits' = [edits EXCEPT ![e].step = "over"]
    /\ UNCHANGED <<vars, row, terms, first, loaded>>

\* 409 from the commit: another account has the nickname, or the consents are
\* stored already. Or the request dies before its commit.
edit_refused(e) ==
    /\ edits[e].step \in {"onboarding", "update"}
    /\ edits' = [edits EXCEPT ![e].step = "over"]
    /\ UNCHANGED <<vars, row, nickname, terms, first, loaded>>

-----------------------------------------------------------------------------
(* Sessions and withdrawal, with their part of the row *)

\* Mutant of account_login: the status is not checked.
account_login_unchecked(l) ==
    /\ row = "STORED"
    /\ l \notin first
    /\ logins[l] = "none"
    /\ logins' = [logins EXCEPT ![l] = "user read"]
    /\ UNCHANGED <<status, redis, withdrawals, profile>>

account_login(l) ==
    /\ row = "STORED"
    /\ l \notin first
    /\ login_read(l)
    /\ UNCHANGED profile

account_withdraw_read(w) ==
    /\ row = "STORED"
    /\ withdraw_read(w)
    /\ loaded' = [loaded EXCEPT ![w] = nickname]
    /\ UNCHANGED <<row, nickname, terms, first, edits>>

\* Mutant of account_withdraw: the nickname is replaced instead of cleared.
account_withdraw_renamed(w) ==
    /\ withdraw(w)
    /\ nickname' = "withdrawn user"
    /\ UNCHANGED <<row, terms, first, edits, loaded>>

\* A nickname that was not there when the row was read is not cleared.
account_withdraw(w) ==
    /\ withdraw(w)
    /\ nickname' = IF loaded[w] = NoNickname THEN nickname ELSE NoNickname
    /\ UNCHANGED <<row, terms, first, edits, loaded>>

AccountNext ==
    \/ \E l \in Logins : find_nobody(l)
    \/ \E l \in Logins : create_from_provider(l)
    \/ \E l \in Logins : create_interrupted(l)
    \/ \E l \in Logins : account_login(l)
    \/ \E e \in Edits : onboarding_read(e)
    \/ \E e \in Edits, n \in Nicknames : complete_onboarding(e, n)
    \/ \E e \in Edits : update_read(e)
    \/ \E e \in Edits, n \in Nicknames : update_profile(e, n)
    \/ \E e \in Edits : edit_refused(e)
    \/ \E w \in Withdrawals : account_withdraw_read(w)
    \/ \E w \in Withdrawals : account_withdraw(w)
    \/ /\ \/ \E l \in Logins, t \in Tokens : register(l, t)
          \/ \E t, new \in Tokens : rotate(t, new)
          \/ \E t \in Tokens : revoke(t)
          \/ \E w \in Withdrawals : withdraw_refused(w)
          \/ \E w \in Withdrawals : revoke_all(w)
          \/ \E w \in Withdrawals : withdraw_interrupted(w)
          \/ \E l \in Logins : login_interrupted(l)
          \/ Tick
       /\ UNCHANGED profile

AccountSpec == AccountInit /\ [][AccountNext]_accountVars

-----------------------------------------------------------------------------
(* Properties *)

\* A withdrawal is for good: no login, onboarding or profile change that read the
\* account before brings it back, whatever the order of their commits.
WithdrawnForGood == [][status = "WITHDRAWN" => status' = "WITHDRAWN"]_accountVars

\* A user who has a profile has given the consents, and there is no user whom no
\* login created: concurrent onboardings, refusals, profile changes and withdrawals
\* never leave a nickname without them, and no token is alive without an account.
ConsentBeforeProfile ==
    /\ nickname # NoNickname => terms = Consents /\ row = "STORED"
    /\ \A t \in Tokens : Live(t) => row = "STORED"

\* The account implements Sessions, so all that is shown of the sessions of an
\* account that exists holds from its creation to its withdrawal.
SessionsSpec == Spec

=============================================================================
