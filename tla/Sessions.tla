------------------------------ MODULE Sessions ------------------------------
(***************************************************************************)
(* The sessions of one user: the refresh tokens in Redis, the set that       *)
(* indexes them by their subject, login, refresh and logout, and the         *)
(* withdrawal of the account, which lives in PostgreSQL.                     *)
(*                                                                           *)
(* A pipeline with MULTI or a Lua script is atomic in Redis, and so is the   *)
(* commit in PostgreSQL, but a login or a withdrawal takes a step in each of *)
(* the two: logins[l] and withdrawals[w] say how far it has come. A key that *)
(* does not exist has 0 seconds to live.                                     *)
(***************************************************************************)
EXTENDS Naturals, FiniteSets

CONSTANTS
    Tokens,       \* token ids (jti) of refresh tokens, each issued once
    Logins,       \* login requests, each made once
    NoLogin,      \* a token that was never issued
    Withdrawals,  \* DELETE /v1/users/me requests, each made once
    Ttl,          \* refresh_token_ttl_seconds
    RedisFails    \* whether a request may lose Redis between its two steps

ASSUME ConstantsAssumption ==
    /\ NoLogin \notin Logins
    /\ Ttl \in Nat \ {0}
    /\ RedisFails \in BOOLEAN

VARIABLES
    status,       \* users.status
    ttl,          \* the time to live of each token's key
    indexed,      \* the members of the set of the subject
    index_ttl,    \* the time to live of this set
    session,      \* the login each token descends from (history)
    logins,
    withdrawals

vars == <<status, ttl, indexed, index_ttl, session, logins, withdrawals>>

redis == <<ttl, indexed, index_ttl, session>>

TypeOK ==
    /\ status \in {"ACTIVE", "WITHDRAWN"}
    /\ ttl \in [Tokens -> 0..Ttl]
    /\ indexed \subseteq Tokens
    /\ index_ttl \in 0..Ttl
    /\ session \in [Tokens -> Logins \cup {NoLogin}]
    /\ logins \in [Logins -> {"none", "user read", "over"}]
    /\ withdrawals \in [Withdrawals -> {"none", "user read", "committed", "over"}]

Init ==
    /\ status = "ACTIVE"
    /\ ttl = [t \in Tokens |-> 0]
    /\ indexed = {}
    /\ index_ttl = 0
    /\ session = [t \in Tokens |-> NoLogin]
    /\ logins = [l \in Logins |-> "none"]
    /\ withdrawals = [w \in Withdrawals |-> "none"]

Live(t) == ttl[t] > 0

Fresh(t) == session[t] = NoLogin

-----------------------------------------------------------------------------
(* Login *)

\* The provider's profile leads to the user, whose status is checked.
login_read(l) ==
    /\ logins[l] = "none"
    /\ status = "ACTIVE"
    /\ logins' = [logins EXCEPT ![l] = "user read"]
    /\ UNCHANGED <<status, redis, withdrawals>>

\* SET, SADD and EXPIRE in one pipeline.
register(l, t) ==
    /\ logins[l] = "user read"
    /\ Fresh(t)
    /\ ttl' = [ttl EXCEPT ![t] = Ttl]
    /\ indexed' = indexed \cup {t}
    /\ index_ttl' = Ttl
    /\ session' = [session EXCEPT ![t] = l]
    /\ logins' = [logins EXCEPT ![l] = "over"]
    /\ UNCHANGED <<status, withdrawals>>

-----------------------------------------------------------------------------
(* Refresh and logout *)

\* Mutant of rotate: the old token stays.
rotate_kept(t, new) ==
    /\ Live(t)
    /\ Fresh(new)
    /\ ttl' = [ttl EXCEPT ![new] = Ttl]
    /\ indexed' = indexed \cup {new}
    /\ index_ttl' = Ttl
    /\ session' = [session EXCEPT ![new] = session[t]]
    /\ UNCHANGED <<status, logins, withdrawals>>

\* Mutant of rotate: the set of the subject keeps the time to live it had.
rotate_index_ages(t, new) ==
    /\ Live(t)
    /\ Fresh(new)
    /\ ttl' = [ttl EXCEPT ![t] = 0, ![new] = Ttl]
    /\ indexed' = (indexed \ {t}) \cup {new}
    /\ session' = [session EXCEPT ![new] = session[t]]
    /\ UNCHANGED <<status, index_ttl, logins, withdrawals>>

\* Mutant of rotate: the new token is not added to the set of the subject.
rotate_unindexed(t, new) ==
    /\ Live(t)
    /\ Fresh(new)
    /\ ttl' = [ttl EXCEPT ![t] = 0, ![new] = Ttl]
    /\ indexed' = indexed \ {t}
    /\ index_ttl' = Ttl
    /\ session' = [session EXCEPT ![new] = session[t]]
    /\ UNCHANGED <<status, logins, withdrawals>>

\* The rotation script: a token is exchanged for a new one. The user's status is
\* not read. (Two refreshes with the same token are two rotations of t, and the
\* second one finds it gone.)
rotate(t, new) ==
    /\ Live(t)
    /\ Fresh(new)
    /\ ttl' = [ttl EXCEPT ![t] = 0, ![new] = Ttl]
    /\ indexed' = (indexed \ {t}) \cup {new}
    /\ index_ttl' = Ttl
    /\ session' = [session EXCEPT ![new] = session[t]]
    /\ UNCHANGED <<status, logins, withdrawals>>

\* The revocation script of a logout. A set that becomes empty is gone.
revoke(t) ==
    /\ Live(t)
    /\ ttl' = [ttl EXCEPT ![t] = 0]
    /\ indexed' = indexed \ {t}
    /\ index_ttl' = IF indexed \subseteq {t} THEN 0 ELSE index_ttl
    /\ UNCHANGED <<status, session, logins, withdrawals>>

-----------------------------------------------------------------------------
(* Withdrawal *)

withdraw_read(w) ==
    /\ withdrawals[w] = "none"
    /\ status = "ACTIVE"
    /\ withdrawals' = [withdrawals EXCEPT ![w] = "user read"]
    /\ UNCHANGED <<status, redis, logins>>

\* 404: the account is withdrawn already, and nothing is revoked.
withdraw_refused(w) ==
    /\ withdrawals[w] = "none"
    /\ status = "WITHDRAWN"
    /\ withdrawals' = [withdrawals EXCEPT ![w] = "over"]
    /\ UNCHANGED <<status, redis, logins>>

withdraw(w) ==
    /\ withdrawals[w] = "user read"
    /\ status' = "WITHDRAWN"
    /\ withdrawals' = [withdrawals EXCEPT ![w] = "committed"]
    /\ UNCHANGED <<redis, logins>>

\* The script deletes every key the set of the subject names, then the set.
revoke_all(w) ==
    /\ withdrawals[w] = "committed"
    /\ ttl' = [t \in Tokens |-> IF t \in indexed THEN 0 ELSE ttl[t]]
    /\ indexed' = {}
    /\ index_ttl' = 0
    /\ withdrawals' = [withdrawals EXCEPT ![w] = "over"]
    /\ UNCHANGED <<status, session, logins>>

\* The process dies or Redis does not answer: 5xx, and nothing is undone.
withdraw_interrupted(w) ==
    /\ RedisFails
    /\ withdrawals[w] = "committed"
    /\ withdrawals' = [withdrawals EXCEPT ![w] = "over"]
    /\ UNCHANGED <<status, redis, logins>>

login_interrupted(l) ==
    /\ RedisFails
    /\ logins[l] = "user read"
    /\ logins' = [logins EXCEPT ![l] = "over"]
    /\ UNCHANGED <<status, redis, withdrawals>>

Shorter(n) == IF n = 0 THEN 0 ELSE n - 1

\* Time passes for the keys in Redis.
Tick ==
    /\ ttl' = [t \in Tokens |-> Shorter(ttl[t])]
    /\ index_ttl' = Shorter(index_ttl)
    /\ indexed' = IF index_ttl <= 1 THEN {} ELSE indexed
    /\ UNCHANGED <<status, session, logins, withdrawals>>

Next ==
    \/ \E l \in Logins : login_read(l)
    \/ \E l \in Logins, t \in Tokens : register(l, t)
    \/ \E t, new \in Tokens : rotate(t, new)
    \/ \E t \in Tokens : revoke(t)
    \/ \E w \in Withdrawals : withdraw_read(w)
    \/ \E w \in Withdrawals : withdraw_refused(w)
    \/ \E w \in Withdrawals : withdraw(w)
    \/ \E w \in Withdrawals : revoke_all(w)
    \/ \E w \in Withdrawals : withdraw_interrupted(w)
    \/ \E l \in Logins : login_interrupted(l)
    \/ Tick

Spec == Init /\ [][Next]_vars

-----------------------------------------------------------------------------
(* Properties *)

\* The set of the subject names every live token, and lives at least as long as
\* each of them: without it a token could not be found when the account goes.
IndexComplete ==
    \A t \in Tokens : Live(t) => t \in indexed /\ index_ttl >= ttl[t]

\* However often and concurrently a session is refreshed, it never has more than
\* one live token: a copied token is of no use once the chain has moved on.
OneTokenPerSession ==
    \A t, u \in Tokens :
      /\ Live(t)
      /\ Live(u)
      /\ session[t] = session[u]
      => t = u

\* revoke_all leaves no token of the user alive, whatever logins, refreshes,
\* logouts and expirations came before it.
RevokesAll == [][\A w \in Withdrawals : revoke_all(w) => \A t \in Tokens : ~Live(t)']_vars

\* The API description: a withdrawal revokes all refresh tokens of the user. Once
\* no login and no withdrawal is under way, a withdrawn user has no live token.
WithdrawnHasNoSession ==
    /\ status = "WITHDRAWN"
    /\ \A l \in Logins : logins[l] # "user read"
    /\ \A w \in Withdrawals : withdrawals[w] \in {"none", "over"}
    => \A t \in Tokens : ~Live(t)

=============================================================================
