----------------------------- MODULE RecordLog -----------------------------
(***************************************************************************)
(* What telemetry promises its readers: every record that was published is *)
(* written once, in the order of publication, with nothing in between.     *)
(***************************************************************************)
EXTENDS Naturals, Sequences

CONSTANTS Producers, MaxRecords

VARIABLES
    sent,     \* producer -> how many records it has published
    pending,  \* records on their way, oldest first
    log       \* records written

vars == <<sent, pending, log>>

Init ==
    /\ sent = [p \in Producers |-> 0]
    /\ pending = <<>>
    /\ log = <<>>

Publish(p) ==
    /\ sent[p] < MaxRecords
    /\ sent' = [sent EXCEPT ![p] = @ + 1]
    /\ pending' = Append(pending, <<p, sent'[p]>>)
    /\ UNCHANGED log

Write ==
    /\ pending # <<>>
    /\ log' = Append(log, Head(pending))
    /\ pending' = Tail(pending)
    /\ UNCHANGED sent

Next == (\E p \in Producers : Publish(p)) \/ Write

Spec == Init /\ [][Next]_vars
=============================================================================
