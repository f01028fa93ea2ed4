----------------------------- MODULE Postcards ------------------------------
(***************************************************************************)
(* The postcards of one match: its two users send them in turn, and may     *)
(* retry a call with the same idempotency key while the first call is still *)
(* under way.                                                               *)
(*                                                                          *)
(* PostcardRepository.send looks its key up, locks the participants and     *)
(* photos of the match, looks for a block, then for the last postcard, and  *)
(* inserts. The locks protect the turn: from the last postcard to the       *)
(* commit is one action. They do not protect the lookup, the start of the   *)
(* transaction, whose time becomes sent_at, and the block, whose row nobody *)
(* locks. Both users are active; the match never goes away.                 *)
(***************************************************************************)
EXTENDS Naturals, Sequences, FiniteSets

CONSTANTS
    First, Second,  \* the two users, by the registered_at of their photos
    Keys,           \* idempotency keys
    NoKey,          \* a call without the header
    Calls,          \* the calls of the API that may be under way at a time
    MaxCalls,       \* bound: how many calls are made in all
    MaxHandled      \* bound: the first postcards, which may be read and deleted

ASSUME ConstantsAssumption ==
    /\ First # Second
    /\ NoKey \notin Keys
    /\ MaxCalls \in Nat
    /\ MaxHandled \in Nat

Users == {First, Second}

VARIABLES
    postcards,  \* postcards, in the order in which they were committed
    blocks,     \* the users who block the other one
    clock,      \* the number of transactions that have begun, the time of now()
    call        \* the calls of send under way

vars == <<postcards, blocks, clock, call>>

-----------------------------------------------------------------------------
(* Rows and calls *)

Postcard == [sender : Users, key : Keys \cup {NoKey}, sent_at : 1..MaxCalls,
             read : BOOLEAN, sender_deleted : BOOLEAN, receiver_deleted : BOOLEAN]

\* began: the time at which the transaction started.
Call == [step : {"idle", "begun", "unknown key", "locked"}, user : Users, key : Keys \cup {NoKey},
         began : 0..MaxCalls]

Idle == [step |-> "idle", user |-> First, key |-> NoKey, began |-> 0]

TypeOK ==
    /\ postcards \in Seq(Postcard)
    /\ blocks \subseteq Users
    /\ clock \in 0..MaxCalls
    /\ call \in [Calls -> Call]

Init ==
    /\ postcards = <<>>
    /\ blocks = {}
    /\ clock = 0
    /\ call = [c \in Calls |-> Idle]

-----------------------------------------------------------------------------
(* send *)

\* The postcards the user has sent with a key, whether or not they were deleted.
SentWith(u, key) ==
    {i \in DOMAIN postcards : postcards[i].sender = u /\ postcards[i].key = key}

Answer(c) == call' = [call EXCEPT ![c] = Idle]

\* The first statement of a call begins its transaction. A call without a key has
\* nothing to look up.
begin_send(c, u, key) ==
    /\ call[c] = Idle
    /\ clock < MaxCalls
    /\ clock' = clock + 1
    /\ call' = [call EXCEPT ![c] = [step |-> IF key = NoKey THEN "unknown key" ELSE "begun",
                                    user |-> u, key |-> key, began |-> clock + 1]]
    /\ UNCHANGED <<postcards, blocks>>

\* The lookup of the idempotency key: a postcard that was sent with it is the
\* answer (or 404, when its sender has deleted it).
look_up(c) ==
    /\ call[c].step = "begun"
    /\ IF SentWith(call[c].user, call[c].key) # {}
       THEN Answer(c)
       ELSE call' = [call EXCEPT ![c].step = "unknown key"]
    /\ UNCHANGED <<postcards, blocks, clock>>

\* Mutant of Latest: the order of the query is reversed.
Latest_oldest == CHOOSE i \in DOMAIN postcards :
                   \A j \in DOMAIN postcards : postcards[i].sent_at <= postcards[j].sent_at

\* The postcard that the query for the last sender returns, by sent_at.
Latest == CHOOSE i \in DOMAIN postcards :
            \A j \in DOMAIN postcards : postcards[j].sent_at <= postcards[i].sent_at

\* Mutant of MayStart: any of the two users may start.
MayStart_anyone(u) == u \in Users

MayStart(u) == u = First

\* Whose turn it is, for a user who asks under the locks.
HasTurn(u) ==
    IF postcards = <<>> THEN MayStart(u) ELSE postcards[Latest].sender # u

\* Mutant of LocksFree: the query of the participants does not lock.
LocksFree_always == TRUE

LocksFree == \A c \in Calls : call[c].step # "locked"

\* The locks are taken, and no block is found.
lock(c) ==
    /\ call[c].step = "unknown key"
    /\ LocksFree
    /\ blocks = {}
    /\ call' = [call EXCEPT ![c].step = "locked"]
    /\ UNCHANGED <<postcards, blocks, clock>>

\* The turn, the insert with the unique (sender_id, idempotency_key), the commit.
send(c) ==
    LET u == call[c].user
        key == call[c].key
    IN  /\ call[c].step = "locked"
        /\ HasTurn(u)
        /\ key = NoKey \/ SentWith(u, key) = {}
        /\ postcards' = Append(postcards, [sender |-> u, key |-> key, sent_at |-> call[c].began,
                                           read |-> FALSE, sender_deleted |-> FALSE,
                                           receiver_deleted |-> FALSE])
        /\ Answer(c)
        /\ UNCHANGED <<blocks, clock>>

\* One of the checks fails: 409, nothing is stored, and the locks are released.
send_refused(c) ==
    LET u == call[c].user
        key == call[c].key
    IN  /\ \/ /\ call[c].step = "unknown key"
              /\ LocksFree
              /\ blocks # {}
           \/ /\ call[c].step = "locked"
              /\ ~HasTurn(u) \/ (key # NoKey /\ SentWith(u, key) # {})
        /\ Answer(c)
        /\ UNCHANGED <<postcards, blocks, clock>>

\* The client gives up, the process dies, or PostgreSQL ends a transaction that waits
\* in a circle with a match being decided (Matching), before the commit.
abort(c) ==
    /\ call[c].step # "idle"
    /\ Answer(c)
    /\ UNCHANGED <<postcards, blocks, clock>>

-----------------------------------------------------------------------------
(* The other operations on the postcards, and blocks *)

\* The postcards that are read and deleted; what a user does to one of them has no
\* effect on the others, so the first ones stand for all.
Handled == {i \in DOMAIN postcards : i <= MaxHandled}

mark_read(u, i) ==
    /\ postcards[i].sender # u
    /\ ~postcards[i].receiver_deleted
    /\ ~postcards[i].read
    /\ postcards' = [postcards EXCEPT ![i].read = TRUE]
    /\ UNCHANGED <<blocks, clock, call>>

\* Each side deletes its own view of the postcard; the row stays.
delete(u, i) ==
    /\ \/ /\ postcards[i].sender = u
          /\ ~postcards[i].sender_deleted
          /\ postcards' = [postcards EXCEPT ![i].sender_deleted = TRUE]
       \/ /\ postcards[i].sender # u
          /\ ~postcards[i].receiver_deleted
          /\ postcards' = [postcards EXCEPT ![i].receiver_deleted = TRUE]
    /\ UNCHANGED <<blocks, clock, call>>

block(u) ==
    /\ u \notin blocks
    /\ blocks' = blocks \cup {u}
    /\ UNCHANGED <<postcards, clock, call>>

unblock(u) ==
    /\ u \in blocks
    /\ blocks' = blocks \ {u}
    /\ UNCHANGED <<postcards, clock, call>>

Next ==
    \/ \E c \in Calls, u \in Users, key \in Keys \cup {NoKey} : begin_send(c, u, key)
    \/ \E c \in Calls : look_up(c)
    \/ \E c \in Calls : lock(c)
    \/ \E c \in Calls : send(c)
    \/ \E c \in Calls : send_refused(c)
    \/ \E c \in Calls : abort(c)
    \/ \E u \in Users, i \in Handled : mark_read(u, i)
    \/ \E u \in Users, i \in Handled : delete(u, i)
    \/ \E u \in Users : block(u)
    \/ \E u \in Users : unblock(u)

Spec == Init /\ [][Next]_vars

-----------------------------------------------------------------------------
(* Properties *)

\* The user whose photo was registered first sends the first postcard, also when
\* both users call at once and the other one's transaction began before.
FirstStarts == postcards # <<>> => postcards[1].sender = First

\* A user sends twice in a row only after an overtaking: the first of the two
\* postcards was committed after one whose transaction had begun later. Calls that
\* do not overtake each other alternate, however they are retried or aborted.
RepeatsOnlyOvertaken ==
    \A i \in DOMAIN postcards \ {1} :
      postcards[i].sender = postcards[i - 1].sender =>
        \E j \in 1..(i - 2) : postcards[j].sent_at > postcards[i - 1].sent_at

\* After a block, from either side, one postcard more may arrive, whose call has
\* looked for blocks before; then none can, until all blocks are withdrawn.
OneLatePostcard ==
    [][Len(postcards') > Len(postcards) /\ blocks # {} =>
         \A c \in Calls : call'[c].step # "locked"]_vars
=============================================================================
