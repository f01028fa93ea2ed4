--------------------------- MODULE SessionsProofs ---------------------------
(***************************************************************************)
(* What holds of the refresh tokens for any numbers of tokens, logins and  *)
(* withdrawals. The index is complete and a session has one live token     *)
(* because a token that was never issued is not alive, and because a login *)
(* issues at most one token: these two facts make the invariant inductive. *)
(***************************************************************************)
EXTENDS Sessions, TLAPS

\* A token that was never issued has no key in Redis.
FreshNotLive == \A t \in Tokens : Fresh(t) => ~Live(t)

\* A token descends from a login that is over.
IssuedOnce == \A t \in Tokens : Fresh(t) \/ logins[session[t]] = "over"

SInv ==
    /\ TypeOK
    /\ IndexComplete
    /\ OneTokenPerSession
    /\ FreshNotLive
    /\ IssuedOnce

\* The values the handlers give to a time to live.
LEMMA Times ==
  /\ Ttl \in Nat /\ Ttl > 0
  /\ Ttl \in 0..Ttl
  /\ 0 \in 0..Ttl
  BY ConstantsAssumption

\* No token is alive before the first login.
LEMMA InitInv == Init => SInv
<1> SUFFICES ASSUME Init PROVE SInv
  OBVIOUS
<1>1. TypeOK
  BY Times DEF Init, TypeOK
<1>2. \A t \in Tokens : ~Live(t) /\ Fresh(t)
  BY DEF Init, Live, Fresh
<1> QED
  BY <1>1, <1>2 DEF SInv, IndexComplete, OneTokenPerSession, FreshNotLive, IssuedOnce

-----------------------------------------------------------------------------
(* Steps that issue or end tokens *)

\* register: the token of a login is new, and the login is over with it.
LEMMA RegisterInv ==
  ASSUME SInv, NEW l \in Logins, NEW t \in Tokens, register(l, t)
  PROVE  SInv'
<1>1. TypeOK'
  BY Times DEF SInv, TypeOK, register
<1>2. /\ ttl'[t] = Ttl /\ index_ttl' = Ttl /\ session'[t] = l
      /\ \A u \in Tokens \ {t} : ttl'[u] = ttl[u] /\ session'[u] = session[u]
      /\ logins'[l] = "over"
      /\ \A k \in Logins \ {l} : logins'[k] = logins[k]
  BY DEF SInv, TypeOK, register
<1>3. \A u \in Tokens : session[u] # l
  BY ConstantsAssumption DEF SInv, IssuedOnce, Fresh, register
<1>4. \A u \in Tokens : ttl[u] \in 0..Ttl
  BY DEF SInv, TypeOK
<1>5. IndexComplete'
  <2> SUFFICES ASSUME NEW u \in Tokens, Live(u)'
               PROVE  u \in indexed' /\ index_ttl' >= ttl'[u]
    BY DEF IndexComplete
  <2>1. CASE u = t
    <3>1. t \in indexed'
      BY DEF register
    <3>2. Ttl >= Ttl
      BY Times
    <3> QED
      BY <1>2, <2>1, <3>1, <3>2
  <2>2. CASE u # t
    <3>1. u \in indexed
      BY <1>2, <2>2 DEF Live, SInv, IndexComplete
    <3>2. Ttl >= ttl[u]
      BY <1>4, Times
    <3> QED
      BY <1>2, <2>2, <3>1, <3>2 DEF register
  <2> QED
    BY <2>1, <2>2
<1>6. OneTokenPerSession'
  BY <1>2, <1>3 DEF SInv, OneTokenPerSession, Live
<1>7. FreshNotLive'
  BY <1>2, ConstantsAssumption DEF SInv, FreshNotLive, Fresh, Live
<1>8. IssuedOnce'
  <2> SUFFICES ASSUME NEW u \in Tokens
               PROVE  session'[u] = NoLogin \/ logins'[session'[u]] = "over"
    BY DEF IssuedOnce, Fresh
  <2>1. CASE u = t
    BY <1>2, <2>1
  <2>2. CASE u # t
    <3>1. session'[u] = session[u] /\ session[u] \in Logins \cup {NoLogin} /\ session[u] # l
      BY <1>2, <1>3, <2>2 DEF SInv, TypeOK
    <3>2. session[u] = NoLogin \/ logins[session[u]] = "over"
      BY DEF SInv, IssuedOnce, Fresh
    <3> QED
      BY <1>2, <3>1, <3>2
  <2> QED
    BY <2>1, <2>2
<1> QED
  BY <1>1, <1>5, <1>6, <1>7, <1>8 DEF SInv

\* rotate: the old token goes as the new one of its session comes.
LEMMA RotateInv ==
  ASSUME SInv, NEW t \in Tokens, NEW new \in Tokens, rotate(t, new)
  PROVE  SInv'
<1>1. t # new /\ session[t] # NoLogin /\ session[t] \in Logins
  BY DEF SInv, TypeOK, FreshNotLive, Fresh, rotate
<1>2. TypeOK'
  BY <1>1, Times DEF SInv, TypeOK, rotate
<1>3. /\ ttl'[t] = 0 /\ ttl'[new] = Ttl /\ index_ttl' = Ttl
      /\ \A u \in Tokens \ {t, new} : ttl'[u] = ttl[u]
      /\ session'[new] = session[t]
      /\ \A u \in Tokens \ {new} : session'[u] = session[u]
      /\ logins' = logins
  BY <1>1 DEF SInv, TypeOK, rotate
<1>4. \A u \in Tokens : ttl[u] \in 0..Ttl
  BY DEF SInv, TypeOK
<1>5. ~Live(t)'
  BY <1>3 DEF Live
<1>6. IndexComplete'
  <2> SUFFICES ASSUME NEW u \in Tokens, Live(u)'
               PROVE  u \in indexed' /\ index_ttl' >= ttl'[u]
    BY DEF IndexComplete
  <2>1. CASE u = new
    BY <1>3, <2>1, Times DEF rotate
  <2>2. CASE u # new
    <3>1. u # t
      BY <1>5
    <3>2. u \in indexed
      BY <1>3, <2>2, <3>1 DEF Live, SInv, IndexComplete
    <3>3. Ttl >= ttl[u]
      BY <1>4, Times
    <3> QED
      BY <1>3, <2>2, <3>1, <3>2, <3>3 DEF rotate
  <2> QED
    BY <2>1, <2>2
<1>7. \A u \in Tokens \ {t, new} : Live(u)' => Live(u) /\ session[u] # session[t]
  BY <1>3 DEF SInv, OneTokenPerSession, Live, rotate
<1>8. OneTokenPerSession'
  <2> SUFFICES ASSUME NEW u \in Tokens, NEW v \in Tokens,
                      Live(u)', Live(v)', session'[u] = session'[v]
               PROVE  u = v
    BY DEF OneTokenPerSession
  <2>1. u # t /\ v # t
    BY <1>5
  <2>2. CASE u = new \/ v = new
    BY <1>3, <1>7, <2>1, <2>2
  <2>3. CASE u # new /\ v # new
    BY <1>3, <1>7, <2>1, <2>3 DEF SInv, OneTokenPerSession
  <2> QED
    BY <2>2, <2>3
<1>9. FreshNotLive'
  BY <1>1, <1>3, <1>5 DEF SInv, FreshNotLive, Fresh, Live
<1>10. IssuedOnce'
  BY <1>1, <1>3 DEF SInv, IssuedOnce, Fresh
<1> QED
  BY <1>2, <1>6, <1>8, <1>9, <1>10 DEF SInv

\* revoke: the set goes only with the last token it names.
LEMMA RevokeInv ==
  ASSUME SInv, NEW t \in Tokens, revoke(t)
  PROVE  SInv'
<1>1. TypeOK'
  BY Times DEF SInv, TypeOK, revoke
<1>2. ttl'[t] = 0 /\ \A u \in Tokens \ {t} : ttl'[u] = ttl[u]
  BY DEF SInv, TypeOK, revoke
<1>3. \A u \in Tokens : Live(u)' => u # t /\ Live(u)
  BY <1>2 DEF Live
<1>4. IndexComplete'
  BY <1>2, <1>3 DEF SInv, IndexComplete, revoke
<1>5. OneTokenPerSession' /\ FreshNotLive' /\ IssuedOnce'
  BY <1>3 DEF SInv, OneTokenPerSession, FreshNotLive, IssuedOnce, Fresh, revoke
<1> QED
  BY <1>1, <1>4, <1>5 DEF SInv

\* revoke_all ends every token, because the set names every live one.
LEMMA NoneAlive ==
  ASSUME SInv, NEW w \in Withdrawals, revoke_all(w)
  PROVE  \A t \in Tokens : ~Live(t)'
<1> SUFFICES ASSUME NEW t \in Tokens, Live(t)' PROVE FALSE
  OBVIOUS
<1>1. ttl'[t] = IF t \in indexed THEN 0 ELSE ttl[t]
  BY DEF revoke_all
<1>2. t \notin indexed /\ Live(t)
  BY <1>1 DEF Live
<1> QED
  BY <1>2 DEF SInv, IndexComplete

LEMMA RevokeAllInv ==
  ASSUME SInv, NEW w \in Withdrawals, revoke_all(w)
  PROVE  SInv'
<1>1. TypeOK'
  BY Times DEF SInv, TypeOK, revoke_all
<1>2. IndexComplete' /\ OneTokenPerSession' /\ FreshNotLive'
  BY NoneAlive DEF IndexComplete, OneTokenPerSession, FreshNotLive
<1>3. IssuedOnce'
  BY DEF SInv, IssuedOnce, Fresh, revoke_all
<1> QED
  BY <1>1, <1>2, <1>3 DEF SInv

\* Time: the set outlives each token it names.
LEMMA TickInv == SInv /\ Tick => SInv'
<1> SUFFICES ASSUME SInv, Tick PROVE SInv'
  OBVIOUS
<1>1. \A n \in 0..Ttl : Shorter(n) \in 0..Ttl
  BY Times DEF Shorter
<1>2. TypeOK'
  BY <1>1 DEF SInv, TypeOK, Tick
<1>3. \A t \in Tokens : ttl[t] \in 0..Ttl /\ ttl'[t] = Shorter(ttl[t])
  BY DEF SInv, TypeOK, Tick
<1>4. \A t \in Tokens : Live(t)' => ttl[t] > 1 /\ ttl'[t] = ttl[t] - 1
  BY <1>3, Times DEF Live, Shorter
<1>5. \A t \in Tokens : Live(t)' => Live(t)
  BY <1>3, <1>4, Times DEF Live
<1>6. index_ttl \in 0..Ttl /\ index_ttl' = Shorter(index_ttl)
  BY DEF SInv, TypeOK, Tick
<1>7. IndexComplete'
  <2> SUFFICES ASSUME NEW t \in Tokens, Live(t)'
               PROVE  t \in indexed' /\ index_ttl' >= ttl'[t]
    BY DEF IndexComplete
  <2>1. t \in indexed /\ index_ttl >= ttl[t]
    BY <1>5 DEF SInv, IndexComplete
  <2>2. index_ttl > 1 /\ index_ttl' = index_ttl - 1
    BY <1>3, <1>4, <1>6, <2>1, Times DEF Shorter
  <2>3. indexed' = indexed
    BY <1>6, <2>2, Times DEF Tick
  <2> QED
    BY <1>3, <1>4, <1>6, <2>1, <2>2, <2>3, Times
<1>8. OneTokenPerSession' /\ FreshNotLive' /\ IssuedOnce'
  BY <1>5 DEF SInv, OneTokenPerSession, FreshNotLive, IssuedOnce, Fresh, Tick
<1> QED
  BY <1>2, <1>7, <1>8 DEF SInv

\* Steps of a login or a withdrawal that leave Redis alone.
LEMMA RequestInv ==
  ASSUME SInv,
         \/ \E l \in Logins : login_read(l) \/ login_interrupted(l)
         \/ \E w \in Withdrawals : \/ withdraw_read(w) \/ withdraw_refused(w)
                                   \/ withdraw(w) \/ withdraw_interrupted(w)
  PROVE  SInv'
<1> USE DEF SInv, redis
<1>1. UNCHANGED redis
  BY DEF login_read, login_interrupted, withdraw_read, withdraw_refused, withdraw,
         withdraw_interrupted
<1>2. TypeOK'
  BY DEF TypeOK, login_read, login_interrupted, withdraw_read, withdraw_refused, withdraw,
         withdraw_interrupted
<1>3. \A l \in Logins : logins[l] = "over" => logins'[l] = "over"
  BY DEF TypeOK, login_read, login_interrupted, withdraw_read, withdraw_refused, withdraw,
         withdraw_interrupted
<1>4. IndexComplete' /\ OneTokenPerSession' /\ FreshNotLive'
  BY <1>1 DEF IndexComplete, OneTokenPerSession, FreshNotLive, Fresh, Live
<1>5. IssuedOnce'
  BY <1>1, <1>3 DEF IssuedOnce, Fresh, TypeOK
<1> QED
  BY <1>2, <1>4, <1>5

-----------------------------------------------------------------------------
(* The theorems *)

LEMMA NextInv == SInv /\ [Next]_vars => SInv'
<1> SUFFICES ASSUME SInv, [Next]_vars PROVE SInv'
  OBVIOUS
<1>1. CASE \E l \in Logins, t \in Tokens : register(l, t)
  BY <1>1, RegisterInv
<1>2. CASE \E t, new \in Tokens : rotate(t, new)
  BY <1>2, RotateInv
<1>3. CASE \E t \in Tokens : revoke(t)
  BY <1>3, RevokeInv
<1>4. CASE \E w \in Withdrawals : revoke_all(w)
  BY <1>4, RevokeAllInv
<1>5. CASE Tick
  BY <1>5, TickInv
<1>6. CASE \/ \E l \in Logins : login_read(l) \/ login_interrupted(l)
           \/ \E w \in Withdrawals : \/ withdraw_read(w) \/ withdraw_refused(w)
                                     \/ withdraw(w) \/ withdraw_interrupted(w)
  BY <1>6, RequestInv
<1>7. CASE UNCHANGED vars
  BY <1>7 DEF SInv, TypeOK, IndexComplete, OneTokenPerSession, FreshNotLive, IssuedOnce,
              Fresh, Live, vars, redis
<1> QED
  BY <1>1, <1>2, <1>3, <1>4, <1>5, <1>6, <1>7 DEF Next

\* The inductive invariant of the sessions.
THEOREM Invariant == Spec => []SInv
  BY InitInv, NextInv, PTL DEF Spec

\* Every variable keeps its type, times to live never exceed the configured one.
THEOREM TypeCorrect == Spec => []TypeOK
<1>1. SInv => TypeOK
  BY DEF SInv
<1> QED
  BY Invariant, <1>1, PTL

\* The set of the subject names every live token and outlives it.
THEOREM IndexKept == Spec => []IndexComplete
<1>1. SInv => IndexComplete
  BY DEF SInv
<1> QED
  BY Invariant, <1>1, PTL

\* A session never has two live tokens, however its refreshes race.
THEOREM SessionsNeverFork == Spec => []OneTokenPerSession
<1>1. SInv => OneTokenPerSession
  BY DEF SInv
<1> QED
  BY Invariant, <1>1, PTL

\* revoke_all leaves no live token behind.
THEOREM AllRevoked == Spec => RevokesAll
<1>1. SInv /\ [Next]_vars =>
        [\A w \in Withdrawals : revoke_all(w) => \A t \in Tokens : ~Live(t)']_vars
  BY NoneAlive
<1> QED
  BY Invariant, <1>1, PTL DEF Spec, RevokesAll

-----------------------------------------------------------------------------
(* A withdrawn account keeps no session, but for two races *)

\* A login issues its token after the revocation it should have met.
LateLogin ==
    /\ status = "WITHDRAWN"
    /\ \A w \in Withdrawals : withdrawals[w] # "committed"
    /\ \E l \in Logins, t \in Tokens : register(l, t)

\* A withdrawal ends between its commit and its revocation.
LostRevocation == \E w \in Withdrawals : withdraw_interrupted(w)

\* The tokens of a withdrawn account are gone, or a withdrawal is on its way to them.
RevokedOrDue ==
    status = "WITHDRAWN" =>
      \/ \E w \in Withdrawals : withdrawals[w] = "committed"
      \/ \A t \in Tokens : ~Live(t)

\* A step that gives life to a token of an account without one is a login's.
LEMMA NoTokenBorn ==
  ASSUME SInv, [Next]_vars, \A t \in Tokens : ~Live(t),
         ~\E l \in Logins, t \in Tokens : register(l, t)
  PROVE  \A t \in Tokens : ~Live(t)'
<1>1. \A t \in Tokens : ttl[t] \in 0..Ttl /\ ~(ttl[t] > 0)
  BY DEF SInv, TypeOK, Live
<1>2. \A t \in Tokens : ttl[t] = 0
  BY <1>1, Times
<1>3. ~\E t, new \in Tokens : rotate(t, new)
  BY DEF rotate
<1>4. Shorter(0) = 0
  BY DEF Shorter
<1>5. \A t \in Tokens : ttl'[t] = 0
  BY <1>2, <1>3, <1>4
  DEF Next, login_read, revoke, withdraw_read, withdraw_refused, withdraw, revoke_all,
      withdraw_interrupted, login_interrupted, Tick, redis, vars, SInv, TypeOK
<1> QED
  BY <1>5 DEF Live

\* But for the two races, a withdrawal on its way stays on its way to the end.
LEMMA RevokedOrDueNext ==
  ASSUME SInv, RevokedOrDue, [Next]_vars, ~LateLogin, ~LostRevocation
  PROVE  RevokedOrDue'
<1>1. CASE \E w \in Withdrawals : revoke_all(w)
  BY <1>1, NoneAlive DEF RevokedOrDue
<1>2. CASE \E w \in Withdrawals : withdraw(w)
  BY <1>2 DEF withdraw, RevokedOrDue, SInv, TypeOK
<1>3. CASE ~\E w \in Withdrawals : revoke_all(w) \/ withdraw(w)
  <2>1. status' = status
    BY <1>3
    DEF Next, login_read, register, rotate, revoke, withdraw_read, withdraw_refused,
        withdraw_interrupted, login_interrupted, Tick, vars
  <2>2. \A w \in Withdrawals : withdrawals[w] = "committed" => withdrawals'[w] = "committed"
    BY <1>3
    DEF Next, LostRevocation, login_read, register, rotate, revoke, withdraw_read,
        withdraw_refused, login_interrupted, Tick, vars, SInv, TypeOK
  <2>3. SUFFICES ASSUME status = "WITHDRAWN", \A w \in Withdrawals : withdrawals[w] # "committed"
                 PROVE  \A t \in Tokens : ~Live(t)'
    BY <2>1, <2>2 DEF RevokedOrDue
  <2>4. ~\E l \in Logins, t \in Tokens : register(l, t)
    BY <2>3 DEF LateLogin
  <2>5. \A t \in Tokens : ~Live(t)
    BY <2>3 DEF RevokedOrDue
  <2> QED
    BY <2>4, <2>5, NoTokenBorn
<1> QED
  BY <1>1, <1>2, <1>3

\* A withdrawn account has no live token once its withdrawals are over, unless a login
\* was late or a withdrawal was interrupted: no refresh, logout, expiration or second
\* withdrawal can leave one.
THEOREM WithdrawnEnds ==
  Spec /\ [][~LateLogin /\ ~LostRevocation]_vars => []WithdrawnHasNoSession
<1>1. Init => RevokedOrDue
  BY DEF Init, RevokedOrDue
<1>2. RevokedOrDue => WithdrawnHasNoSession
  <2> SUFFICES ASSUME RevokedOrDue, status = "WITHDRAWN",
                      \A w \in Withdrawals : withdrawals[w] \in {"none", "over"}
               PROVE  \A t \in Tokens : ~Live(t)
    BY DEF WithdrawnHasNoSession
  <2> QED
    BY DEF RevokedOrDue
<1>3. SInv /\ RevokedOrDue /\ [Next]_vars /\ [~LateLogin /\ ~LostRevocation]_vars => RevokedOrDue'
  <2>1. CASE UNCHANGED vars
    BY <2>1 DEF vars, RevokedOrDue, Live
  <2> QED
    BY <2>1, RevokedOrDueNext
<1> QED
  BY <1>1, <1>2, <1>3, Invariant, PTL DEF Spec

=============================================================================
