-------------------------- MODULE PostcardsProofs ---------------------------
(***************************************************************************)
(* Proofs about Postcards, for any number of calls and any keys: the types, *)
(* who starts, how many postcards may arrive after a block, and that only   *)
(* an overtaken postcard is followed by another of the same sender.         *)
(***************************************************************************)
EXTENDS Postcards, TLAPS

\* The row locks of the match have one holder.
OneHolder ==
    \A c, d \in Calls : call[c].step = "locked" /\ call[d].step = "locked" => c = d

\* A call under way has begun at a time that the clock has shown.
BeganOnTime ==
    \A c \in Calls : call[c].step # "idle" => call[c].began \in 1..MaxCalls

PInv ==
    /\ TypeOK
    /\ OneHolder
    /\ BeganOnTime
    /\ FirstStarts

-----------------------------------------------------------------------------
(* One call changes, the postcards do not *)

LEMMA InitInv == Init => PInv
BY ConstantsAssumption DEF Init, PInv, TypeOK, OneHolder, BeganOnTime, FirstStarts, Idle, Call, Users,
                           Postcard

LEMMA IdleCall == Idle \in Call
BY ConstantsAssumption DEF Idle, Call, Users

\* A call takes a step: the locks only when they are free, and no time of its own.
LEMMA StepInv ==
    ASSUME TypeOK, OneHolder, BeganOnTime, NEW c \in Calls, NEW next \in Call,
           next.step = "locked" => LocksFree,
           next.step # "idle" => next.began \in 1..MaxCalls,
           call' = [call EXCEPT ![c] = next]
    PROVE  call' \in [Calls -> Call] /\ OneHolder' /\ BeganOnTime'
<1>1. \A d \in Calls : call'[d] = IF d = c THEN next ELSE call[d]
  BY DEF TypeOK
<1>2. call' \in [Calls -> Call]
  BY DEF TypeOK
<1>3. OneHolder'
  <2>1. CASE next.step = "locked"
    <3>1. \A d \in Calls : call[d].step # "locked"
      BY <2>1 DEF LocksFree
    <3> QED
      BY <3>1, <1>1 DEF OneHolder
  <2>2. CASE next.step # "locked"
    BY <2>2, <1>1 DEF OneHolder
  <2> QED
    BY <2>1, <2>2
<1>4. BeganOnTime'
  BY <1>1 DEF BeganOnTime
<1> QED
  BY <1>2, <1>3, <1>4

\* Ending a call keeps what is said of the calls.
LEMMA AnswerInv ==
    ASSUME TypeOK, OneHolder, BeganOnTime, NEW c \in Calls, Answer(c)
    PROVE  call' \in [Calls -> Call] /\ OneHolder' /\ BeganOnTime'
<1>1. Idle.step = "idle" /\ call' = [call EXCEPT ![c] = Idle]
  BY DEF Idle, Answer
<1> QED
  BY <1>1, IdleCall, StepInv

\* A call under way goes on.
LEMMA GoOnInv ==
    ASSUME TypeOK, OneHolder, BeganOnTime, NEW c \in Calls, call[c].step # "idle",
           NEW s \in {"unknown key", "locked"}, s = "locked" => LocksFree,
           call' = [call EXCEPT ![c].step = s]
    PROVE  call' \in [Calls -> Call] /\ OneHolder' /\ BeganOnTime'
<1> DEFINE next == [call[c] EXCEPT !.step = s]
<1>1. call[c] \in Call /\ call[c].began \in 1..MaxCalls
  BY DEF TypeOK, BeganOnTime
<1>2. next \in Call /\ next.step = s /\ next.began = call[c].began
  BY <1>1 DEF Call
<1>3. call' = [call EXCEPT ![c] = next]
  OBVIOUS
<1> HIDE DEF next
<1> QED
  BY <1>1, <1>2, <1>3, StepInv

-----------------------------------------------------------------------------
(* The actions *)

LEMMA BeginInv ==
    ASSUME PInv, NEW c \in Calls, NEW u \in Users, NEW key \in Keys \cup {NoKey},
           begin_send(c, u, key)
    PROVE  PInv'
<1> DEFINE next == [step |-> IF key = NoKey THEN "unknown key" ELSE "begun",
                    user |-> u, key |-> key, began |-> clock + 1]
<1> USE DEF PInv
<1>1. clock' \in 1..MaxCalls /\ clock' \in 0..MaxCalls /\ clock' = clock + 1
  <2>1. clock \in 0..MaxCalls /\ clock < MaxCalls /\ MaxCalls \in Nat /\ clock' = clock + 1
    BY ConstantsAssumption DEF begin_send, TypeOK
  <2> QED
    BY <2>1
<1>2. next \in Call /\ next.step # "locked" /\ next.began \in 1..MaxCalls
  BY <1>1, ConstantsAssumption DEF Call
<1>3. call' = [call EXCEPT ![c] = next] /\ UNCHANGED <<postcards, blocks>>
  BY DEF begin_send
<1> HIDE DEF next
<1>4. call' \in [Calls -> Call] /\ OneHolder' /\ BeganOnTime'
  BY <1>2, <1>3, StepInv
<1> QED
  BY <1>1, <1>3, <1>4 DEF TypeOK, FirstStarts

LEMMA LookUpInv ==
    ASSUME PInv, NEW c \in Calls, look_up(c)
    PROVE  PInv'
<1> USE DEF PInv
<1>1. call' \in [Calls -> Call] /\ OneHolder' /\ BeganOnTime'
  <2>1. CASE SentWith(call[c].user, call[c].key) # {}
    BY <2>1, AnswerInv DEF look_up
  <2>2. CASE SentWith(call[c].user, call[c].key) = {}
    <3>1. call' = [call EXCEPT ![c].step = "unknown key"] /\ call[c].step # "idle"
      BY <2>2 DEF look_up
    <3> QED
      BY <3>1, GoOnInv
  <2> QED
    BY <2>1, <2>2
<1> QED
  BY <1>1 DEF look_up, TypeOK, FirstStarts

LEMMA LockInv ==
    ASSUME PInv, NEW c \in Calls, lock(c)
    PROVE  PInv'
<1> USE DEF PInv
<1>1. call' = [call EXCEPT ![c].step = "locked"] /\ call[c].step # "idle" /\ LocksFree
  BY DEF lock
<1>2. call' \in [Calls -> Call] /\ OneHolder' /\ BeganOnTime'
  BY <1>1, GoOnInv
<1> QED
  BY <1>2 DEF lock, TypeOK, FirstStarts

\* Only the first postcard can find none before it, and then its sender may start.
LEMMA SendInv ==
    ASSUME PInv, NEW c \in Calls, send(c)
    PROVE  PInv'
<1> USE DEF PInv
<1> DEFINE new == [sender |-> call[c].user, key |-> call[c].key, sent_at |-> call[c].began,
                   read |-> FALSE, sender_deleted |-> FALSE, receiver_deleted |-> FALSE]
<1>1. call' \in [Calls -> Call] /\ OneHolder' /\ BeganOnTime'
  BY AnswerInv DEF send
<1>2. call[c] \in Call /\ call[c].began \in 1..MaxCalls
  BY DEF TypeOK, BeganOnTime, send
<1>3. new \in Postcard /\ new.sender = call[c].user
  BY <1>2 DEF Postcard, Call
<1>4. postcards' = Append(postcards, new) /\ UNCHANGED <<blocks, clock>> /\ HasTurn(call[c].user)
  BY DEF send
<1> HIDE DEF new
<1>5. TypeOK'
  BY <1>1, <1>3, <1>4 DEF TypeOK
<1>6. FirstStarts'
  <2>1. CASE postcards = <<>>
    BY <2>1, <1>3, <1>4 DEF FirstStarts, HasTurn, MayStart
  <2>2. CASE postcards # <<>>
    <3>1. postcards \in Seq(Postcard) /\ 1 \in 1..Len(postcards)
      BY <2>2 DEF TypeOK
    <3>2. postcards'[1] = postcards[1]
      BY <3>1, <1>4, <1>3
    <3> QED
      BY <2>2, <3>2 DEF FirstStarts
  <2> QED
    BY <2>1, <2>2
<1> QED
  BY <1>1, <1>5, <1>6

LEMMA EndInv ==
    ASSUME PInv, NEW c \in Calls, send_refused(c) \/ abort(c)
    PROVE  PInv'
<1> USE DEF PInv
<1>1. Answer(c) /\ UNCHANGED <<postcards, blocks, clock>>
  BY DEF send_refused, abort
<1> QED
  BY <1>1, AnswerInv DEF TypeOK, FirstStarts

\* Reading and deleting change a flag of one postcard, and no sender.
LEMMA FlagInv ==
    ASSUME PInv, NEW i \in DOMAIN postcards, NEW row \in Postcard,
           row.sender = postcards[i].sender, postcards' = [postcards EXCEPT ![i] = row],
           UNCHANGED <<blocks, clock, call>>
    PROVE  PInv'
<1> USE DEF PInv
<1>1. postcards \in Seq(Postcard)
  BY DEF TypeOK
<1>2. postcards' \in Seq(Postcard) /\ Len(postcards') = Len(postcards)
  BY <1>1
<1>3. \A j \in DOMAIN postcards : postcards'[j].sender = postcards[j].sender
  BY <1>1
<1>4. FirstStarts'
  <2> SUFFICES ASSUME postcards' # <<>> PROVE postcards'[1].sender = First
    BY DEF FirstStarts
  <2>1. postcards # <<>> /\ 1 \in DOMAIN postcards
    BY <1>1, <1>2
  <2> QED
    BY <2>1, <1>3 DEF FirstStarts
<1>5. TypeOK' /\ OneHolder' /\ BeganOnTime'
  BY <1>2 DEF TypeOK, OneHolder, BeganOnTime
<1> QED
  BY <1>4, <1>5

LEMMA MarkReadInv ==
    ASSUME PInv, NEW u \in Users, NEW i \in Handled, mark_read(u, i)
    PROVE  PInv'
<1> DEFINE row == [postcards[i] EXCEPT !.read = TRUE]
<1>1. i \in DOMAIN postcards /\ postcards[i] \in Postcard
  BY DEF Handled, PInv, TypeOK
<1>2. row \in Postcard /\ row.sender = postcards[i].sender
  BY <1>1 DEF Postcard
<1>3. postcards' = [postcards EXCEPT ![i] = row] /\ UNCHANGED <<blocks, clock, call>>
  BY DEF mark_read
<1> HIDE DEF row
<1> QED
  BY <1>1, <1>2, <1>3, FlagInv

LEMMA DeleteInv ==
    ASSUME PInv, NEW u \in Users, NEW i \in Handled, delete(u, i)
    PROVE  PInv'
<1> DEFINE sent == [postcards[i] EXCEPT !.sender_deleted = TRUE]
           received == [postcards[i] EXCEPT !.receiver_deleted = TRUE]
<1>1. i \in DOMAIN postcards /\ postcards[i] \in Postcard
  BY DEF Handled, PInv, TypeOK
<1>2. /\ sent \in Postcard /\ sent.sender = postcards[i].sender
      /\ received \in Postcard /\ received.sender = postcards[i].sender
  BY <1>1 DEF Postcard
<1>3. /\ \/ postcards' = [postcards EXCEPT ![i] = sent]
         \/ postcards' = [postcards EXCEPT ![i] = received]
      /\ UNCHANGED <<blocks, clock, call>>
  BY DEF delete
<1> HIDE DEF sent, received
<1> QED
  BY <1>1, <1>2, <1>3, FlagInv

LEMMA BlockInv ==
    ASSUME PInv, NEW u \in Users, block(u) \/ unblock(u)
    PROVE  PInv'
BY DEF PInv, TypeOK, OneHolder, BeganOnTime, FirstStarts, block, unblock

LEMMA NextInv == PInv /\ [Next]_vars => PInv'
<1> SUFFICES ASSUME PInv, [Next]_vars PROVE PInv'
  OBVIOUS
<1>1. CASE \E c \in Calls, u \in Users, key \in Keys \cup {NoKey} : begin_send(c, u, key)
  BY <1>1, BeginInv
<1>2. CASE \E c \in Calls : look_up(c)
  BY <1>2, LookUpInv
<1>3. CASE \E c \in Calls : lock(c)
  BY <1>3, LockInv
<1>4. CASE \E c \in Calls : send(c)
  BY <1>4, SendInv
<1>5. CASE \E c \in Calls : send_refused(c) \/ abort(c)
  BY <1>5, EndInv
<1>6. CASE \E u \in Users, i \in Handled : mark_read(u, i)
  BY <1>6, MarkReadInv
<1>7. CASE \E u \in Users, i \in Handled : delete(u, i)
  BY <1>7, DeleteInv
<1>8. CASE \E u \in Users : block(u) \/ unblock(u)
  BY <1>8, BlockInv
<1>9. CASE UNCHANGED vars
  BY <1>9 DEF vars, PInv, TypeOK, OneHolder, BeganOnTime, FirstStarts
<1> QED
  BY <1>1, <1>2, <1>3, <1>4, <1>5, <1>6, <1>7, <1>8, <1>9 DEF Next

-----------------------------------------------------------------------------
(* Theorems *)

\* The inductive invariant.
THEOREM Invariant == Spec => []PInv
BY InitInv, NextInv, PTL DEF Spec

\* The types.
THEOREM PostcardsTypeCorrect == Spec => []TypeOK
BY Invariant, PTL DEF PInv

\* The user whose photo was registered first sends the first postcard.
THEOREM StartsFirst == Spec => []FirstStarts
BY Invariant, PTL DEF PInv

\* A step that adds a postcard is a send, which leaves the locks free.
LEMMA LateStep ==
    ASSUME PInv, Next, Len(postcards') > Len(postcards), NEW d \in Calls
    PROVE  call'[d].step # "locked"
<1>1. PICK c \in Calls : send(c)
  <2>1. postcards \in Seq(Postcard)
    BY DEF PInv, TypeOK
  <2>2. CASE \E i \in DOMAIN postcards : \E row : postcards' = [postcards EXCEPT ![i] = row]
    BY <2>1, <2>2
  <2>3. CASE UNCHANGED postcards
    BY <2>1, <2>3
  <2>4. ASSUME NEW u \in Users, NEW i \in Handled, mark_read(u, i) \/ delete(u, i)
        PROVE  FALSE
    <3>1. i \in DOMAIN postcards
      BY DEF Handled
    <3>2. \E row : postcards' = [postcards EXCEPT ![i] = row]
      BY <2>4 DEF mark_read, delete
    <3> QED
      BY <2>2, <3>1, <3>2, <2>1
  <2> QED
    BY <2>3, <2>4 DEF Next, begin_send, look_up, lock, send_refused, abort, block, unblock
<1>2. call'[d] = IF d = c THEN Idle ELSE call[d]
  BY <1>1 DEF send, Answer, PInv, TypeOK
<1>3. call[c].step = "locked" /\ Idle.step # "locked"
  BY <1>1 DEF send, Idle
<1> QED
  BY <1>2, <1>3 DEF PInv, OneHolder

\* After a block one postcard more may arrive, then none.
THEOREM LateOnce == Spec => OneLatePostcard
<1>1. PInv /\ [Next]_vars =>
        [Len(postcards') > Len(postcards) /\ blocks # {} =>
           \A c \in Calls : call'[c].step # "locked"]_vars
  BY LateStep
<1> QED
  BY <1>1, Invariant, PTL DEF Spec, OneLatePostcard

-----------------------------------------------------------------------------
(* The order of the postcards *)

Active(c) == call[c].step # "idle"

\* A time of the clock belongs to one transaction: a call under way or a postcard.
TimesOnce ==
    /\ \A c \in Calls : Active(c) =>
         /\ call[c].began <= clock
         /\ \A i \in DOMAIN postcards : postcards[i].sent_at # call[c].began
         /\ \A d \in Calls \ {c} : Active(d) => call[d].began # call[c].began
    /\ \A i \in DOMAIN postcards :
         /\ postcards[i].sent_at <= clock
         /\ \A j \in DOMAIN postcards \ {i} : postcards[j].sent_at # postcards[i].sent_at

\* The query for the last postcard finds one, if there is any.
IsLatest(i) == \A j \in DOMAIN postcards : postcards[j].sent_at <= postcards[i].sent_at

HasLatest == postcards # <<>> => \E i \in DOMAIN postcards : IsLatest(i)

OInv ==
    /\ PInv
    /\ TimesOnce
    /\ HasLatest
    /\ RepeatsOnlyOvertaken

\* The rows keep their senders and times.
SameTimes ==
    /\ DOMAIN postcards' = DOMAIN postcards
    /\ \A i \in DOMAIN postcards : /\ postcards'[i].sender = postcards[i].sender
                                   /\ postcards'[i].sent_at = postcards[i].sent_at

\* Steps that add no postcard: a call may begin, go on or end.
LEMMA NoPostcard ==
    ASSUME OInv, PInv', SameTimes, clock' = clock,
           \A c \in Calls : Active(c)' => Active(c) /\ call'[c].began = call[c].began
    PROVE  OInv'
<1>1. postcards \in Seq(Postcard) /\ postcards' \in Seq(Postcard)
  BY DEF OInv, PInv, TypeOK
<1>2. TimesOnce'
  BY DEF OInv, TimesOnce, SameTimes
<1>3. HasLatest'
  <2>1. postcards' # <<>> => postcards # <<>>
    BY <1>1 DEF SameTimes
  <2> QED
    BY <2>1 DEF OInv, HasLatest, IsLatest, SameTimes
<1>4. RepeatsOnlyOvertaken'
  <2> SUFFICES ASSUME NEW i \in DOMAIN postcards \ {1}, postcards'[i].sender = postcards'[i - 1].sender
               PROVE  \E j \in 1..(i - 2) : postcards'[j].sent_at > postcards'[i - 1].sent_at
    BY DEF RepeatsOnlyOvertaken, SameTimes
  <2>1. i - 1 \in DOMAIN postcards /\ \A j \in 1..(i - 2) : j \in DOMAIN postcards
    BY <1>1
  <2>2. postcards[i].sender = postcards[i - 1].sender
    BY <2>1 DEF SameTimes
  <2>3. PICK j \in 1..(i - 2) : postcards[j].sent_at > postcards[i - 1].sent_at
    BY <2>2 DEF OInv, RepeatsOnlyOvertaken
  <2> QED
    BY <2>1, <2>3 DEF SameTimes
<1> QED
  BY <1>2, <1>3, <1>4 DEF OInv

\* Times are numbers.
LEMMA Times ==
    ASSUME TypeOK
    PROVE  /\ clock \in Nat
           /\ \A i \in DOMAIN postcards : postcards[i].sent_at \in Nat
           /\ \A c \in Calls : call[c].began \in Nat
<1>1. MaxCalls \in Nat
  BY ConstantsAssumption
<1>2. 0..MaxCalls \subseteq Nat /\ 1..MaxCalls \subseteq Nat
  BY <1>1
<1>3. clock \in 0..MaxCalls
  BY DEF TypeOK
<1>4. \A i \in DOMAIN postcards : postcards[i] \in Postcard
  BY DEF TypeOK
<1>5. \A c \in Calls : call[c] \in Call
  BY DEF TypeOK
<1> QED
  BY <1>2, <1>3, <1>4, <1>5 DEF Postcard, Call

\* A transaction begins later than all that have begun.
LEMMA BeginOrder ==
    ASSUME OInv, PInv', NEW c \in Calls, NEW u \in Users, NEW key \in Keys \cup {NoKey},
           begin_send(c, u, key)
    PROVE  OInv'
<1>1. postcards' = postcards /\ clock' = clock + 1 /\ clock \in Nat
  BY Times DEF begin_send, OInv, PInv
<1>2. /\ call'[c].began = clock + 1
      /\ \A d \in Calls \ {c} : call'[d] = call[d]
  BY DEF begin_send, OInv, PInv, TypeOK
<1>3. /\ \A i \in DOMAIN postcards : postcards[i].sent_at \in Nat
      /\ \A d \in Calls : call[d].began \in Nat
  BY Times DEF OInv, PInv
<1>4. TimesOnce'
  BY <1>1, <1>2, <1>3 DEF OInv, TimesOnce, Active
<1> QED
  BY <1>1, <1>4 DEF OInv, HasLatest, IsLatest, RepeatsOnlyOvertaken

\* The sender of a new postcard differs from that of the latest one, so when it is the
\* sender of the postcard before, the latest one is further back, and later.
LEMMA SendOrder ==
    ASSUME OInv, PInv', NEW c \in Calls, send(c)
    PROVE  OInv'
<1> DEFINE n == Len(postcards)
           new == [sender |-> call[c].user, key |-> call[c].key, sent_at |-> call[c].began,
                   read |-> FALSE, sender_deleted |-> FALSE, receiver_deleted |-> FALSE]
<1>1. /\ postcards \in Seq(Postcard)
      /\ call \in [Calls -> Call]
  BY DEF OInv, PInv, TypeOK
<1>2. /\ Active(c)
      /\ HasTurn(call[c].user)
      /\ postcards' = Append(postcards, new)
      /\ new.sender = call[c].user
      /\ new.sent_at = call[c].began
      /\ clock' = clock
  BY DEF send, Active
<1> HIDE DEF new
<1>3. /\ DOMAIN postcards = 1..n
      /\ DOMAIN postcards' = 1..(n + 1)
      /\ n \in Nat
      /\ \A i \in 1..n : postcards'[i] = postcards[i]
      /\ postcards'[n + 1] = new
  BY <1>1, <1>2
<1>4. \A i \in 1..n : postcards[i].sent_at \in Nat
  BY <1>3, Times DEF OInv, PInv
<1>5. new.sent_at \in Nat /\ clock \in Nat
  BY <1>2, Times DEF OInv, PInv
<1>6. \A d \in Calls : Active(d)' => d # c /\ Active(d) /\ call'[d].began = call[d].began
  BY <1>1 DEF send, Answer, Idle, Active
<1> HIDE DEF n
<1>7. TimesOnce'
  <2>1. \A i \in 1..n : postcards[i].sent_at # new.sent_at /\ postcards[i].sent_at <= clock
    BY <1>2, <1>3 DEF OInv, TimesOnce
  <2>2. new.sent_at <= clock
    BY <1>2 DEF OInv, TimesOnce
  <2>3. \A d \in Calls : Active(d)' => call'[d].began # new.sent_at
    BY <1>2, <1>6 DEF OInv, TimesOnce
  <2>4. \A i \in 1..(n + 1) : i \in 1..n \/ i = n + 1
    BY <1>3
  <2>5. \A i \in 1..(n + 1) :
          /\ postcards'[i].sent_at <= clock
          /\ \A j \in (1..(n + 1)) \ {i} : postcards'[j].sent_at # postcards'[i].sent_at
    BY <1>3, <2>1, <2>2, <2>4 DEF OInv, TimesOnce
  <2>6. \A d \in Calls : Active(d)' =>
          /\ call'[d].began <= clock
          /\ \A i \in 1..(n + 1) : postcards'[i].sent_at # call'[d].began
          /\ \A e \in Calls \ {d} : Active(e)' => call'[e].began # call'[d].began
    BY <1>3, <1>6, <2>3, <2>4 DEF OInv, TimesOnce
  <2> QED
    BY <1>2, <1>3, <2>5, <2>6 DEF TimesOnce
<1>8. HasLatest'
  <2>1. CASE n = 0
    <3>1. \A j \in 1..(n + 1) : j = n + 1
      BY <2>1
    <3>2. \A j \in 1..(n + 1) : postcards'[j].sent_at <= postcards'[n + 1].sent_at
      BY <1>3, <1>5, <3>1
    <3> QED
      BY <1>3, <3>2 DEF HasLatest, IsLatest
  <2>2. CASE n # 0
    <3>1. PICK i \in 1..n : \A j \in 1..n : postcards[j].sent_at <= postcards[i].sent_at
      <4>1. postcards # <<>>
        BY <1>1, <2>2 DEF n
      <4> QED
        BY <1>3, <4>1 DEF OInv, HasLatest, IsLatest
    <3>2. CASE new.sent_at <= postcards[i].sent_at
      <4>1. \A j \in 1..(n + 1) : j \in 1..n \/ j = n + 1
        BY <1>3
      <4>2. \A j \in 1..(n + 1) : postcards'[j].sent_at <= postcards'[i].sent_at
        BY <1>3, <3>1, <3>2, <4>1
      <4>3. i \in 1..(n + 1)
        BY <1>3
      <4> QED
        BY <1>3, <4>2, <4>3 DEF HasLatest, IsLatest
    <3>3. CASE postcards[i].sent_at < new.sent_at
      <4>1. \A j \in 1..n : postcards[j].sent_at <= new.sent_at
        BY <1>4, <1>5, <3>1, <3>3
      <4>2. \A j \in 1..(n + 1) : postcards'[j].sent_at <= postcards'[n + 1].sent_at
        BY <1>3, <1>5, <4>1
      <4>3. n + 1 \in 1..(n + 1)
        BY <1>3
      <4> QED
        BY <1>3, <4>2, <4>3 DEF HasLatest, IsLatest
    <3> QED
      BY <1>4, <1>5, <3>2, <3>3
  <2> QED
    BY <2>1, <2>2
<1>9. RepeatsOnlyOvertaken'
  <2> SUFFICES ASSUME NEW i \in 2..(n + 1), postcards'[i].sender = postcards'[i - 1].sender
               PROVE  \E j \in 1..(i - 2) : postcards'[j].sent_at > postcards'[i - 1].sent_at
    BY <1>3 DEF RepeatsOnlyOvertaken
  <2>1. CASE i \in 2..n
    <3>1. i - 1 \in 1..n /\ \A j \in 1..(i - 2) : j \in 1..n
      BY <1>3, <2>1
    <3>2. PICK j \in 1..(i - 2) : postcards[j].sent_at > postcards[i - 1].sent_at
      <4>1. i \in DOMAIN postcards \ {1} /\ postcards[i].sender = postcards[i - 1].sender
        BY <1>3, <2>1, <3>1
      <4> QED
        BY <4>1 DEF OInv, RepeatsOnlyOvertaken
    <3> QED
      BY <1>3, <3>1, <3>2
  <2>2. CASE i = n + 1
    <3>1. n \in 1..n /\ i - 1 = n /\ i - 2 = n - 1
      BY <1>3, <2>2
    <3>2. postcards[n].sender = call[c].user
      BY <1>2, <1>3, <2>2, <3>1
    <3>3. postcards # <<>>
      BY <1>1, <3>1 DEF n
    <3>4. Latest \in 1..n /\ \A j \in 1..n : postcards[j].sent_at <= postcards[Latest].sent_at
      BY <1>3, <3>3 DEF OInv, HasLatest, IsLatest, Latest
    <3>5. Latest # n
      BY <1>2, <3>2, <3>3 DEF HasTurn
    <3>6. postcards[Latest].sent_at > postcards[n].sent_at
      <4>1. postcards[Latest].sent_at # postcards[n].sent_at
        BY <1>3, <3>1, <3>4, <3>5 DEF OInv, TimesOnce
      <4> QED
        BY <1>4, <3>1, <3>4, <4>1
    <3>7. Latest \in 1..(i - 2)
      BY <1>3, <3>1, <3>4, <3>5
    <3> QED
      BY <1>3, <3>1, <3>4, <3>6, <3>7
  <2> QED
    BY <1>3, <2>1, <2>2
<1> QED
  BY <1>7, <1>8, <1>9 DEF OInv

LEMMA NextOrder ==
    ASSUME OInv, [Next]_vars
    PROVE  OInv'
<1>0. PInv'
  BY NextInv DEF OInv
<1>1. postcards \in Seq(Postcard) /\ call \in [Calls -> Call]
  BY DEF OInv, PInv, TypeOK
<1>2. CASE \E c \in Calls, u \in Users, key \in Keys \cup {NoKey} : begin_send(c, u, key)
  BY <1>0, <1>2, BeginOrder
<1>3. CASE \E c \in Calls : send(c)
  BY <1>0, <1>3, SendOrder
<1>4. CASE \E c \in Calls : look_up(c) \/ lock(c) \/ send_refused(c) \/ abort(c)
  <2>1. PICK c \in Calls : look_up(c) \/ lock(c) \/ send_refused(c) \/ abort(c)
    BY <1>4
  <2>2. /\ UNCHANGED <<postcards, clock>>
        /\ Active(c)
        /\ \/ Answer(c)
           \/ \E s \in {"unknown key", "locked"} : call' = [call EXCEPT ![c].step = s]
    BY <2>1 DEF look_up, lock, send_refused, abort, Active
  <2>3. \A d \in Calls : Active(d)' => Active(d) /\ call'[d].began = call[d].began
    <3>1. CASE Answer(c)
      BY <1>1, <3>1 DEF Answer, Idle, Active
    <3>2. ASSUME NEW s \in {"unknown key", "locked"}, call' = [call EXCEPT ![c].step = s]
          PROVE  \A d \in Calls : Active(d)' => Active(d) /\ call'[d].began = call[d].began
      <4>1. call[c] \in Call
        BY <1>1
      <4>2. call'[c].began = call[c].began /\ \A d \in Calls \ {c} : call'[d] = call[d]
        BY <1>1, <3>2, <4>1 DEF Call
      <4> QED
        BY <2>2, <4>2 DEF Active
    <3> QED
      BY <2>2, <3>1, <3>2
  <2> QED
    BY <1>0, <2>2, <2>3, NoPostcard DEF SameTimes
<1>5. CASE \E u \in Users, i \in Handled : mark_read(u, i) \/ delete(u, i)
  <2>1. PICK i \in DOMAIN postcards, row \in Postcard :
          /\ row.sender = postcards[i].sender
          /\ row.sent_at = postcards[i].sent_at
          /\ postcards' = [postcards EXCEPT ![i] = row]
    <3>1. PICK u \in Users, i \in Handled : mark_read(u, i) \/ delete(u, i)
      BY <1>5
    <3>2. i \in DOMAIN postcards /\ postcards[i] \in Postcard
      BY <1>1 DEF Handled
    <3> DEFINE Row(row) == /\ row \in Postcard
                           /\ row.sender = postcards[i].sender
                           /\ row.sent_at = postcards[i].sent_at
                           /\ postcards' = [postcards EXCEPT ![i] = row]
    <3>3. CASE mark_read(u, i)
      <4>1. Row([postcards[i] EXCEPT !.read = TRUE])
        BY <3>2, <3>3 DEF mark_read, Postcard
      <4> QED
        BY <3>2, <4>1
    <3>4. CASE delete(u, i)
      <4>1. \/ Row([postcards[i] EXCEPT !.sender_deleted = TRUE])
            \/ Row([postcards[i] EXCEPT !.receiver_deleted = TRUE])
        BY <3>2, <3>4 DEF delete, Postcard
      <4> QED
        BY <3>2, <4>1
    <3> QED
      BY <3>1, <3>3, <3>4
  <2>2. UNCHANGED <<clock, call>>
    BY <1>5 DEF mark_read, delete
  <2>3. SameTimes
    BY <1>1, <2>1 DEF SameTimes
  <2> QED
    BY <1>0, <2>2, <2>3, NoPostcard DEF Active
<1>6. CASE (\E u \in Users : block(u) \/ unblock(u)) \/ UNCHANGED vars
  <2>1. UNCHANGED <<postcards, clock, call>>
    BY <1>6 DEF block, unblock, vars
  <2> QED
    BY <1>0, <2>1, NoPostcard DEF Active, SameTimes
<1> QED
  BY <1>2, <1>3, <1>4, <1>5, <1>6 DEF Next

\* The inductive invariant of the order.
LEMMA Order == Spec => []OInv
<1>1. Init => OInv
  BY InitInv DEF OInv, Init, TimesOnce, HasLatest, RepeatsOnlyOvertaken, Active, Idle
<1> QED
  BY <1>1, NextOrder, PTL DEF Spec

\* A user sends twice in a row only after an overtaking, however many calls there are.
THEOREM OvertakenOnly == Spec => []RepeatsOnlyOvertaken
<1>1. OInv => RepeatsOnlyOvertaken
  BY DEF OInv
<1> QED
  BY <1>1, Order, PTL

=============================================================================
