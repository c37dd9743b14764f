---------------------------- MODULE BoundedFifo ----------------------------
(***************************************************************************)
(* What a bounded queue between two threads promises: values come out in   *)
(* the order they went in, each once, never more than Capacity are inside. *)
(* Each side learns of the other side's progress late, but in order: the   *)
(* producer may be refused for room that was freed already, the consumer   *)
(* may find nothing where something was stored already, never the reverse. *)
(***************************************************************************)
EXTENDS Naturals, Sequences

CONSTANTS Capacity, Values, NULL

VARIABLES
    content,   \* the values inside, oldest first
    freed,     \* pops the producer has not seen
    fresh,     \* pushes the consumer has not seen
    accepted,  \* the answer of the last try_push
    received   \* the value of the last try_pop, NULL when it found nothing

vars == <<content, freed, fresh, accepted, received>>

Init ==
    /\ content = <<>>
    /\ freed = 0 /\ fresh = 0
    /\ accepted = TRUE
    /\ received = NULL

Push(v) ==
    /\ Len(content) + freed < Capacity
    /\ content' = Append(content, v)
    /\ fresh' = fresh + 1
    /\ accepted' = TRUE
    /\ UNCHANGED <<freed, received>>

Pop ==
    /\ Len(content) > fresh
    /\ received' = Head(content)
    /\ content' = Tail(content)
    /\ freed' = freed + 1
    /\ UNCHANGED <<fresh, accepted>>

\* The producer looks again: it may see all pops, some of them, or none.
Look(seen) ==
    /\ freed' = freed - seen
    /\ accepted' = (accepted /\ Len(content) + freed' < Capacity)
    /\ UNCHANGED <<content, fresh, received>>

\* The consumer looks again.
Watch(seen) ==
    /\ fresh' = fresh - seen
    /\ received' = IF Len(content) > fresh' THEN received ELSE NULL
    /\ UNCHANGED <<content, freed, accepted>>

Next ==
    \/ \E v \in Values : Push(v)
    \/ Pop
    \/ \E seen \in 0..freed : Look(seen)
    \/ \E seen \in 0..fresh : Watch(seen)

Spec == Init /\ [][Next]_vars
=============================================================================
