----------------------------- MODULE SPSCQueue -----------------------------
(***************************************************************************)
(* The single-producer single-consumer ring of spsc_queue.hpp, cut at its  *)
(* shared accesses.  head_ and tail_ are free-running size_t counters; a   *)
(* slot is found by masking.  Each side keeps a copy of the other side's   *)
(* counter and loads the counter itself only when the copy says full (or   *)
(* empty).  Such a load may return an older value: any value the counter   *)
(* had since the copy was made.  What an acquire load returns was stored   *)
(* by a release, so the slot accesses before the store are visible.        *)
(***************************************************************************)
EXTENDS Integers, Sequences

CONSTANTS
    Capacity,  \* slots_.size()
    Modulus,   \* size_t counters wrap at this value
    Values,    \* what is queued
    NULL       \* the value-initialised slot, and a try_pop that found nothing

ASSUME CapacityAssumption == Capacity \in Nat \ {0}
ASSUME ModulusAssumption ==
    Modulus \in Nat /\ Modulus > Capacity + 1 /\ Modulus % Capacity = 0
ASSUME NullAssumption == NULL \notin Values

VARIABLES
    head,        \* head_: values pushed so far
    tail,        \* tail_: values popped so far
    cachedTail,  \* the producer's copy of tail_
    cachedHead,  \* the consumer's copy of head_
    slots,       \* the ring
    pushing,     \* the producer's place in try_push, and its argument v
    popping,     \* the consumer's place in try_pop, and what it moved out
    accepted,    \* what the last try_push returned
    received     \* what the last try_pop handed out, NULL for false

producerVars == <<head, cachedTail, pushing, accepted>>
consumerVars == <<tail, cachedHead, popping, received>>
vars == <<producerVars, consumerVars, slots>>

\* The size the constructor picks: the first power of two that is large enough.
CapacityFor(minCapacity) ==
    CHOOSE cap \in {2^k : k \in 0..minCapacity} :
        /\ cap >= minCapacity
        /\ cap = 1 \/ cap \div 2 < minCapacity

Index == 0..Modulus - 1
Minus(a, b) == (a - b) % Modulus
After(i) == (i + 1) % Modulus
SlotOf(i) == i % Capacity

\* The values a load of a counter may return to a thread that last saw `seen`.
Loads(counter, seen) == {i \in Index : Minus(i, seen) <= Minus(counter, seen)}

Idle == [at |-> "idle", value |-> NULL]

Init ==
    /\ head = 0 /\ cachedTail = 0
    /\ tail = 0 /\ cachedHead = 0
    /\ slots = [s \in 0..Capacity - 1 |-> NULL]
    /\ pushing = Idle /\ popping = Idle
    /\ accepted = TRUE
    /\ received = NULL

-----------------------------------------------------------------------------
(* try_push, on the producer thread.                                       *)

\* Mutant of LooksFull: one slot too many.
LooksFullLate(seen) == Minus(After(head), seen) > Capacity + 1

LooksFull(seen) == Minus(After(head), seen) > Capacity

PushBegin(v) ==
    /\ pushing.at = "idle"
    /\ pushing' = [at |-> IF LooksFull(cachedTail) THEN "load" ELSE "write", value |-> v]
    /\ UNCHANGED <<head, cachedTail, accepted, slots, consumerVars>>

\* The load of tail_; still full means false.
PushLoad ==
    /\ pushing.at = "load"
    /\ \E seen \in Loads(tail, cachedTail) :
          /\ cachedTail' = seen
          /\ IF LooksFull(seen)
             THEN pushing' = Idle /\ accepted' = FALSE
             ELSE pushing' = [pushing EXCEPT !.at = "write"] /\ UNCHANGED accepted
    /\ UNCHANGED <<head, slots, consumerVars>>

\* Mutant of PushWrite: the write does not reach memory before head_ does.
PushWriteUnseen ==
    /\ pushing.at = "write"
    /\ pushing' = [pushing EXCEPT !.at = "publish"]
    /\ UNCHANGED <<head, cachedTail, accepted, slots, consumerVars>>

PushWrite ==
    /\ pushing.at = "write"
    /\ slots' = [slots EXCEPT ![SlotOf(head)] = pushing.value]
    /\ pushing' = [pushing EXCEPT !.at = "publish"]
    /\ UNCHANGED <<head, cachedTail, accepted, consumerVars>>

PushPublish ==
    /\ pushing.at = "publish"
    /\ head' = After(head)
    /\ pushing' = Idle
    /\ accepted' = TRUE
    /\ UNCHANGED <<cachedTail, slots, consumerVars>>

Producer == (\E v \in Values : PushBegin(v)) \/ PushLoad \/ PushWrite \/ PushPublish

-----------------------------------------------------------------------------
(* try_pop, on the consumer thread.                                        *)

\* Mutant of PopBegin: no look at the copy of head_.
PopBeginUnchecked ==
    /\ popping.at = "idle"
    /\ popping' = [popping EXCEPT !.at = "read"]
    /\ UNCHANGED <<tail, cachedHead, received, slots, producerVars>>

PopBegin ==
    /\ popping.at = "idle"
    /\ popping' = [popping EXCEPT !.at = IF tail = cachedHead THEN "load" ELSE "read"]
    /\ UNCHANGED <<tail, cachedHead, received, slots, producerVars>>

\* Mutant of PopLoad: the copy of head_ is never refreshed.
PopLoadKept ==
    /\ popping.at = "load"
    /\ popping' = Idle /\ received' = NULL
    /\ UNCHANGED <<tail, cachedHead, slots, producerVars>>

PopLoad ==
    /\ popping.at = "load"
    /\ \E seen \in Loads(head, cachedHead) :
          /\ cachedHead' = seen
          /\ IF tail = seen
             THEN popping' = Idle /\ received' = NULL
             ELSE popping' = [popping EXCEPT !.at = "read"] /\ UNCHANGED received
    /\ UNCHANGED <<tail, slots, producerVars>>

\* Mutant of PopRead: the newest value first.
PopReadNewest ==
    /\ popping.at = "read"
    /\ popping' = [at |-> "publish", value |-> slots[SlotOf(cachedHead - 1)]]
    /\ UNCHANGED <<tail, cachedHead, received, slots, producerVars>>

PopRead ==
    /\ popping.at = "read"
    /\ popping' = [at |-> "publish", value |-> slots[SlotOf(tail)]]
    /\ UNCHANGED <<tail, cachedHead, received, slots, producerVars>>

PopPublish ==
    /\ popping.at = "publish"
    /\ tail' = After(tail)
    /\ received' = popping.value
    /\ popping' = Idle
    /\ UNCHANGED <<cachedHead, slots, producerVars>>

Consumer == PopBegin \/ PopLoad \/ PopRead \/ PopPublish

-----------------------------------------------------------------------------
Next == Producer \/ Consumer

Spec == Init /\ [][Next]_vars

\* The consumer polls for ever, and a store does not stay invisible for ever:
\* loads of head_ cannot return the old value each time.
FairSpec ==
    /\ Spec
    /\ WF_vars(Consumer)
    /\ SF_vars(PopLoad /\ cachedHead' # cachedHead)

-----------------------------------------------------------------------------
\* Every variable has the shape the code's types give it, and a try_pop never
\* moves out a slot that no try_push has written.
TypeOK ==
    /\ head \in Index /\ tail \in Index
    /\ cachedTail \in Index /\ cachedHead \in Index
    /\ slots \in [0..Capacity - 1 -> Values \cup {NULL}]
    /\ pushing \in {Idle} \cup [at : {"load", "write", "publish"}, value : Values]
    /\ popping \in [at : {"idle", "load", "read"}, value : {NULL}]
                  \cup [at : {"publish"}, value : Values]
    /\ accepted \in BOOLEAN
    /\ received \in Values \cup {NULL}

\* The counters and their copies never overtake each other, also when they
\* wrap: cachedTail, tail, cachedHead, head come in this order and within
\* Capacity of one another.
CountersInOrder ==
    /\ Minus(tail, cachedTail) <= Minus(cachedHead, cachedTail)
    /\ Minus(cachedHead, cachedTail) <= Minus(head, cachedTail)
    /\ Minus(head, cachedTail) <= Capacity

\* The two threads are never at the same slot at the same time: its plain,
\* unsynchronised value is not written while it is read.
NoSlotRace ==
    pushing.at = "write" /\ popping.at = "read" => SlotOf(head) # SlotOf(tail)

\* A value that was pushed is popped, however late its store is seen.
EveryPushIsPopped == \A i \in Index : head # tail /\ tail = i ~> tail # i

\* The ring from tail to head, oldest value first.
Content == [k \in 1..Minus(head, tail) |-> slots[SlotOf(tail + k - 1)]]

\* Content is a bounded first-in first-out queue, and the answers of try_push and
\* try_pop are those of one whose sides learn late of each other's progress.
Fifo == INSTANCE BoundedFifo WITH
    content <- Content,
    freed <- Minus(tail, cachedTail),
    fresh <- Minus(head, cachedHead)

ImplementsFifo == Fifo!Spec
=============================================================================
