---------------------------- MODULE AccountsProofs ----------------------------
(***************************************************************************)
(* The account implements Sessions, so what SessionsProofs shows of the     *)
(* refresh tokens holds of a user from the first login on. A profile comes  *)
(* with the consents because each change of it was allowed by a read that   *)
(* either wrote them or found them written.                                 *)
(***************************************************************************)
EXTENDS Accounts, SessionsProofs

-----------------------------------------------------------------------------
(* Refinement *)

\* Every step of the account is one of its sessions, or leaves them alone.
LEMMA StepRefines == [AccountNext]_accountVars => [Next]_vars
<1> SUFFICES ASSUME [AccountNext]_accountVars PROVE [Next]_vars
  OBVIOUS
<1>1. CASE \/ \E l \in Logins : find_nobody(l)
           \/ \E l \in Logins : create_from_provider(l)
           \/ \E l \in Logins : create_interrupted(l)
           \/ \E e \in Edits : onboarding_read(e)
           \/ \E e \in Edits, n \in Nicknames : complete_onboarding(e, n)
           \/ \E e \in Edits : update_read(e)
           \/ \E e \in Edits, n \in Nicknames : update_profile(e, n)
           \/ \E e \in Edits : edit_refused(e)
           \/ UNCHANGED accountVars
  BY <1>1
  DEF find_nobody, create_from_provider, create_interrupted, onboarding_read,
      complete_onboarding, update_read, update_profile, edit_refused, accountVars
<1>2. CASE \E l \in Logins : account_login(l)
  BY <1>2 DEF account_login, Next
<1>3. CASE \E w \in Withdrawals : account_withdraw_read(w) \/ account_withdraw(w)
  BY <1>3 DEF account_withdraw_read, account_withdraw, Next
<1>4. CASE \/ \E l \in Logins, t \in Tokens : register(l, t)
           \/ \E t, new \in Tokens : rotate(t, new)
           \/ \E t \in Tokens : revoke(t)
           \/ \E w \in Withdrawals : withdraw_refused(w)
           \/ \E w \in Withdrawals : revoke_all(w)
           \/ \E w \in Withdrawals : withdraw_interrupted(w)
           \/ \E l \in Logins : login_interrupted(l)
           \/ Tick
  BY <1>4 DEF Next
<1> QED
  BY <1>1, <1>2, <1>3, <1>4 DEF AccountNext

\* The account implements Sessions.
THEOREM Implements == AccountSpec => SessionsSpec
<1>1. AccountInit => Init
  BY DEF AccountInit
<1> QED
  BY <1>1, StepRefines, PTL DEF AccountSpec, SessionsSpec, Spec

\* The invariant of the sessions holds of the account.
LEMMA SessionsInv == AccountSpec => []SInv
  BY Invariant, Implements, PTL DEF SessionsSpec

-----------------------------------------------------------------------------
(* Withdrawal *)

\* And so is what a withdrawal promises, under the same two conditions.
THEOREM WithdrawnAccountEnds ==
  AccountSpec /\ [][~LateLogin /\ ~LostRevocation]_vars => []WithdrawnHasNoSession
  BY Implements, WithdrawnEnds, PTL DEF SessionsSpec

\* A withdrawn account is never brought back: none of the commits that may follow a
\* withdrawal writes the status.
THEOREM NeverBack == AccountSpec => WithdrawnForGood
<1>1. [AccountNext]_accountVars => [status = "WITHDRAWN" => status' = "WITHDRAWN"]_accountVars
  <2>1. [Next]_vars => (status = "WITHDRAWN" => status' = "WITHDRAWN")
    BY DEF Next, vars, redis, login_read, register, rotate, revoke, withdraw_read,
           withdraw_refused, withdraw, revoke_all, withdraw_interrupted, login_interrupted, Tick
  <2> QED
    BY <2>1, StepRefines
<1> QED
  BY <1>1, PTL DEF AccountSpec, WithdrawnForGood

-----------------------------------------------------------------------------
(* Consents *)

\* What the reads of a profile request and of a login have found stays true.
AInv ==
    /\ ProfileTypeOK
    /\ nickname # NoNickname => terms = Consents
    /\ terms # {} => row = "STORED"
    /\ \A e \in Edits : /\ edits[e].step = "onboarding" => row = "STORED"
                        /\ edits[e].step = "update" => terms = Consents
    /\ \A l \in Logins : logins[l] = "user read" => row = "STORED"
    /\ \A t \in Tokens : Live(t) => row = "STORED"

LEMMA AccountInitInv == AccountInit => AInv
<1> SUFFICES ASSUME AccountInit PROVE AInv
  OBVIOUS
<1>1. row = "ABSENT" /\ terms = {}
  BY DEF AccountInit
<1>2. /\ nickname = NoNickname
      /\ first = {}
      /\ \A l \in Logins : logins[l] = "none"
      /\ \A t \in Tokens : ttl[t] = 0
      /\ \A e \in Edits : edits[e].step = "none"
  BY DEF AccountInit, Init
<1>3. /\ edits \in [Edits -> Edit]
      /\ loaded \in [Withdrawals -> Nicknames \cup {NoNickname}]
  BY DEF AccountInit, Edit
<1>4. ProfileTypeOK
  BY <1>1, <1>2, <1>3 DEF ProfileTypeOK
<1>5. \A t \in Tokens : ~Live(t)
  BY <1>2 DEF Live
<1> QED
  BY <1>1, <1>2, <1>4, <1>5 DEF AInv

\* Steps of the profile and of the first login.
LEMMA ProfileInv ==
  ASSUME AInv,
         \/ \E l \in Logins : \/ find_nobody(l)
                              \/ create_from_provider(l)
                              \/ create_interrupted(l)
         \/ \E e \in Edits : \/ onboarding_read(e)
                             \/ update_read(e)
                             \/ edit_refused(e)
                             \/ \E n \in Nicknames : complete_onboarding(e, n) \/ update_profile(e, n)
  PROVE  AInv'
<1>1. /\ nickname \in Nicknames \cup {NoNickname} /\ first \subseteq Logins
      /\ edits \in [Edits -> Edit] /\ loaded \in [Withdrawals -> Nicknames \cup {NoNickname}]
      /\ row \in {"ABSENT", "STORED"} /\ terms \subseteq Consents
  BY DEF AInv, ProfileTypeOK
<1>2. \A e \in Edits : /\ edits[e].step = "onboarding" => row = "STORED"
                       /\ edits[e].step = "update" => terms = Consents
  BY DEF AInv
<1>3. logins' = logins /\ ttl' = ttl
  BY DEF find_nobody, create_from_provider, create_interrupted, onboarding_read, update_read,
         edit_refused, complete_onboarding, update_profile, vars
<1>4. row' \in {"ABSENT", "STORED"} /\ terms' \subseteq Consents /\ first' \subseteq Logins /\ loaded' = loaded
  BY <1>1
  DEF find_nobody, create_from_provider, create_interrupted, onboarding_read, update_read,
      edit_refused, complete_onboarding, update_profile
<1>5. /\ row = "STORED" => row' = "STORED"
      /\ terms = Consents => terms' = Consents
      /\ terms' # {} => row' = "STORED"
      /\ nickname' \in Nicknames \cup {NoNickname}
      /\ nickname' # NoNickname => terms' = Consents
  <2>1. CASE \E l \in Logins : find_nobody(l) \/ create_from_provider(l) \/ create_interrupted(l)
    BY <1>1, <2>1 DEF AInv, find_nobody, create_from_provider, create_interrupted
  <2>2. CASE \E e \in Edits : onboarding_read(e) \/ update_read(e) \/ edit_refused(e)
    BY <1>1, <2>2 DEF AInv, onboarding_read, update_read, edit_refused
  <2>3. CASE \E e \in Edits, n \in Nicknames : complete_onboarding(e, n)
    <3>1. /\ \E e \in Edits : edits[e].step = "onboarding"
          /\ row' = row
          /\ terms' = Consents
          /\ nickname' \in Nicknames
      BY <2>3 DEF complete_onboarding
    <3>2. row = "STORED"
      BY <1>2, <3>1
    <3> QED
      BY <3>1, <3>2
  <2>4. CASE \E e \in Edits, n \in Nicknames : update_profile(e, n)
    BY <1>1, <2>4 DEF AInv, update_profile
  <2> QED
    BY <2>1, <2>2, <2>3, <2>4
<1>6. /\ edits' \in [Edits -> Edit]
      /\ \A e \in Edits : /\ edits'[e].step = "onboarding" => row = "STORED"
                          /\ edits'[e].step = "update" => terms = Consents
  <2>1. CASE \E l \in Logins : find_nobody(l) \/ create_from_provider(l) \/ create_interrupted(l)
    BY <1>1, <2>1 DEF AInv, find_nobody, create_from_provider, create_interrupted
  <2>2. CASE \E e \in Edits : onboarding_read(e) \/ update_read(e)
    <3> PICK e \in Edits : onboarding_read(e) \/ update_read(e)
      BY <2>2
    <3>1. \/ /\ edits' = [edits EXCEPT ![e] = [step |-> "onboarding", nickname |-> NoNickname]]
             /\ row = "STORED"
          \/ /\ edits' = [edits EXCEPT ![e] = [step |-> "update", nickname |-> nickname]]
             /\ terms = Consents
      BY DEF AInv, onboarding_read, update_read
    <3>2. /\ [step |-> "onboarding", nickname |-> NoNickname] \in Edit
          /\ [step |-> "update", nickname |-> nickname] \in Edit
      BY <1>1 DEF Edit
    <3> QED
      BY <1>1, <1>2, <3>1, <3>2
  <2>3. CASE \E e \in Edits : \/ edit_refused(e)
                              \/ \E n \in Nicknames : complete_onboarding(e, n) \/ update_profile(e, n)
    <3> PICK e \in Edits : edits' = [edits EXCEPT ![e].step = "over"]
      BY <2>3 DEF edit_refused, complete_onboarding, update_profile
    <3> DEFINE over == [edits[e] EXCEPT !.step = "over"]
    <3>1. edits' = [edits EXCEPT ![e] = over]
      BY <1>1
    <3>2. over \in Edit /\ over.step = "over"
      BY <1>1 DEF Edit
    <3> HIDE DEF over
    <3> QED
      BY <1>1, <1>2, <3>1, <3>2
  <2> QED
    BY <2>1, <2>2, <2>3
<1>7. ProfileTypeOK'
  BY <1>1, <1>4, <1>5, <1>6 DEF ProfileTypeOK
<1>8. /\ \A l \in Logins : logins'[l] = "user read" => row' = "STORED"
      /\ \A t \in Tokens : Live(t)' => row' = "STORED"
  BY <1>3, <1>5 DEF AInv, Live
<1> QED
  BY <1>5, <1>6, <1>7, <1>8 DEF AInv

\* Steps of the sessions: a token is issued to a user who exists.
LEMMA AccountSessionsInv ==
  ASSUME AInv, TypeOK,
         \/ \E l \in Logins : account_login(l)
         \/ \E w \in Withdrawals : account_withdraw_read(w) \/ account_withdraw(w)
         \/ /\ \/ \E l \in Logins, t \in Tokens : register(l, t)
               \/ \E t, new \in Tokens : rotate(t, new)
               \/ \E t \in Tokens : revoke(t)
               \/ \E w \in Withdrawals : withdraw_refused(w)
               \/ \E w \in Withdrawals : revoke_all(w)
               \/ \E w \in Withdrawals : withdraw_interrupted(w)
               \/ \E l \in Logins : login_interrupted(l)
               \/ Tick
            /\ UNCHANGED profile
         \/ UNCHANGED accountVars
  PROVE  AInv'
<1>1. row' = row /\ terms' = terms /\ edits' = edits /\ first' = first
  BY DEF account_login, account_withdraw_read, account_withdraw, profile, accountVars
<1>2. /\ nickname' = nickname \/ nickname' = NoNickname
      /\ loaded' \in [Withdrawals -> Nicknames \cup {NoNickname}]
  BY DEF AInv, ProfileTypeOK, account_login, account_withdraw_read, account_withdraw, profile,
         accountVars
<1>3. logins \in [Logins -> {"none", "user read", "over"}] /\ ttl \in [Tokens -> 0..Ttl]
  BY DEF TypeOK
<1>4. \A l \in Logins : logins'[l] = "user read" => row = "STORED"
  BY <1>3
  DEF AInv, account_login, account_withdraw_read, account_withdraw, login_read, withdraw_read,
      withdraw, register, rotate, revoke, withdraw_refused, revoke_all, withdraw_interrupted,
      login_interrupted, Tick, vars, accountVars
<1>5. \A t \in Tokens : Live(t)' => row = "STORED"
  <2>1. CASE \E l \in Logins, t \in Tokens : register(l, t)
    BY <1>3, <2>1 DEF AInv, Live, register
  <2>2. CASE \E t, new \in Tokens : rotate(t, new)
    BY <1>3, <2>2 DEF AInv, Live, rotate
  <2>3. CASE \/ \E t \in Tokens : revoke(t)
             \/ \E w \in Withdrawals : revoke_all(w)
    <3>1. \A t \in Tokens : ttl'[t] = ttl[t] \/ ttl'[t] = 0
      BY <1>3, <2>3 DEF revoke, revoke_all
    <3>2. \A t \in Tokens : ttl[t] > 0 => row = "STORED"
      BY DEF AInv, Live
    <3> QED
      BY <3>1, <3>2 DEF Live
  <2>4. CASE Tick
    <3>1. \A t \in Tokens : ttl'[t] = Shorter(ttl[t])
      BY <2>4 DEF Tick
    <3>2. \A t \in Tokens : Shorter(ttl[t]) > 0 => ttl[t] > 0
      <4>1. \A n \in Nat : Shorter(n) > 0 => n > 0
        BY DEF Shorter
      <4>2. \A t \in Tokens : ttl[t] \in Nat
        <5>1. \A t \in Tokens : ttl[t] \in 0..Ttl
          BY <1>3
        <5> QED
          BY <5>1, Times
      <4> QED
        BY <4>1, <4>2
    <3> QED
      BY <3>1, <3>2 DEF AInv, Live
  <2>5. CASE ttl' = ttl
    BY <2>5 DEF AInv, Live
  <2> QED
    BY <2>1, <2>2, <2>3, <2>4, <2>5
    DEF account_login, account_withdraw_read, account_withdraw, login_read, withdraw_read,
        withdraw, withdraw_refused, withdraw_interrupted, login_interrupted, redis, vars,
        accountVars
<1>6. ProfileTypeOK'
  BY <1>1, <1>2 DEF AInv, ProfileTypeOK
<1> QED
  BY <1>1, <1>2, <1>4, <1>5, <1>6 DEF AInv

LEMMA AccountNextInv == AInv /\ TypeOK /\ [AccountNext]_accountVars => AInv'
  BY ProfileInv, AccountSessionsInv DEF AccountNext

LEMMA AccountInvariant == AccountSpec => []AInv
<1>1. SInv => TypeOK
  BY DEF SInv
<1> QED
  BY <1>1, SessionsInv, AccountInitInv, AccountNextInv, PTL DEF AccountSpec

\* The account, its profile, its sessions and its requests keep their types.
THEOREM AccountTypeCorrect == AccountSpec => []AccountTypeOK
<1>1. AInv /\ SInv => AccountTypeOK
  BY DEF AInv, SInv, AccountTypeOK
<1> QED
  BY <1>1, AccountInvariant, SessionsInv, PTL

\* No profile without consents, and no living token without an account.
THEOREM ConsentsKept == AccountSpec => []ConsentBeforeProfile
<1>1. AInv => ConsentBeforeProfile
  BY DEF AInv, ConsentBeforeProfile, Consents
<1> QED
  BY <1>1, AccountInvariant, PTL
=============================================================================
