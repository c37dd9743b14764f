-------------------------- MODULE TelemetryProofs --------------------------
(***************************************************************************)
(* For any producers and any numbers of records and restarts: the sinks    *)
(* have one writer at a time, stop() delivers, and the log is what         *)
(* RecordLog promises.                                                     *)
(***************************************************************************)
EXTENDS TelemetryPublisher, SequenceTheorems, TLAPS

-----------------------------------------------------------------------------
(* The inductive invariant.                                                *)

TypeInv ==
    /\ running \in BOOLEAN
    /\ queue \in Seq(Records)
    /\ worker \in {"none", "lock", "block", "wait", "emit", "done"}
    /\ main \in {"idle", "notify", "join", "drain", "emit"}
    /\ batch \in [{"worker", "main"} -> Seq(Records)]
    /\ pushed \subseteq Producers
    /\ sent \in [Producers -> 0..MaxRecords]
    /\ log \in Seq(Records)
    /\ flushed \in 0..Len(log)
    /\ owed \subseteq Records

\* running_ and the place of stop() tell whether there is a worker, and a thread
\* that is not writing has nothing to write.
ThreadInv ==
    /\ main = "idle" => IF running THEN worker \notin {"none", "done"} ELSE worker = "none"
    /\ main # "idle" => ~running
    /\ main \in {"notify", "join"} => worker # "none"
    /\ main \in {"drain", "emit"} => worker = "none"
    /\ worker # "emit" => batch["worker"] = <<>>
    /\ main # "emit" => batch["main"] = <<>>

\* The records of the queue, of both batches and of the log.
Everywhere == Range(log) \cup Range(batch["worker"]) \cup Range(batch["main"]) \cup Range(queue)

Flushed == {log[i] : i \in 1..flushed}

\* No record gets lost on its way, and stop() leaves none behind of those it owes:
\* they are wherever the records are, then in its own batch or written, then flushed.
DeliveryInv ==
    /\ \A r \in Records : r[2] <= sent[r[1]] => r \in Everywhere
    /\ \A r \in owed : r[2] <= sent[r[1]]
    /\ main = "emit" => owed \subseteq Range(log) \cup Range(batch["main"])
    /\ main = "idle" /\ ~running => owed \subseteq Flushed

IInv == TypeInv /\ ThreadInv /\ DeliveryInv

-----------------------------------------------------------------------------
(* Sequences.                                                              *)

\* What an appended record and a removed one do to the records of a sequence.
LEMMA RangeIs ==
    ASSUME NEW S, NEW s \in Seq(S), NEW e \in S
    PROVE  /\ Range(s) \subseteq S
           /\ Range(Append(s, e)) = Range(s) \cup {e}
           /\ s # <<>> => Range(s) = {Head(s)} \cup Range(Tail(s))
           /\ s = <<>> => Range(s) = {}
<1>1. Range(s) = {s[i] : i \in 1..Len(s)}  BY DEF Range
<1>2. Range(Append(s, e)) = Range(s) \cup {e}
  <2>1. Range(Append(s, e)) = {Append(s, e)[i] : i \in 1..Len(s) + 1}
    BY AppendProperties, LenProperties DEF Range
  <2>2. \A i \in 1..Len(s) : Append(s, e)[i] = s[i]  BY AppendProperties
  <2>3. Append(s, e)[Len(s) + 1] = e  BY AppendProperties
  <2>4. 1..Len(s) + 1 = 1..Len(s) \cup {Len(s) + 1}  BY LenProperties
  <2> QED  BY <1>1, <2>1, <2>2, <2>3, <2>4
<1>3. ASSUME s # <<>> PROVE Range(s) = {Head(s)} \cup Range(Tail(s))
  <2>1. /\ Tail(s) \in Seq(S) /\ Len(Tail(s)) = Len(s) - 1
        /\ \A i \in 1..Len(Tail(s)) : Tail(s)[i] = s[i + 1]
    BY <1>3, HeadTailProperties
  <2>2. Len(s) \in Nat \ {0} /\ Head(s) = s[1]  BY <1>3
  <2>3. Range(Tail(s)) = {Tail(s)[i] : i \in 1..Len(s) - 1}
    <3>1. DOMAIN Tail(s) = 1..Len(s) - 1  BY <2>1, LenProperties
    <3> QED  BY <3>1 DEF Range
  <2>4. \A i \in 1..Len(s) : i = 1 \/ (i - 1 \in 1..Len(s) - 1 /\ s[i] = Tail(s)[i - 1])
    BY <2>1, <2>2
  <2>5. \A i \in 1..Len(s) - 1 : i + 1 \in 1..Len(s) /\ Tail(s)[i] = s[i + 1]
    BY <2>1, <2>2
  <2>6. 1 \in 1..Len(s)  BY <2>2
  <2>7. ASSUME NEW x PROVE x \in Range(s) <=> x = Head(s) \/ x \in Range(Tail(s))
    <3>1. x \in Range(s) => x = Head(s) \/ x \in Range(Tail(s))
      <4>1. SUFFICES ASSUME NEW i \in 1..Len(s), x = s[i], x # Head(s)
                     PROVE  x \in Range(Tail(s))
        BY <1>1
      <4>2. i - 1 \in 1..Len(s) - 1 /\ x = Tail(s)[i - 1]  BY <2>2, <2>4, <4>1
      <4> QED  BY <2>3, <4>2
    <3>2. x \in Range(Tail(s)) => x \in Range(s)  BY <1>1, <2>3, <2>5
    <3> QED  BY <1>1, <2>2, <2>6, <3>1, <3>2
  <2> QED  BY <2>7
<1>4. s = <<>> => Range(s) = {}  BY DEF Range
<1>5. \A i \in 1..Len(s) : s[i] \in S  BY ElementOfSeq
<1> QED  BY <1>1, <1>2, <1>3, <1>4, <1>5

\* A sequence that something follows is appended to at the far end only, and loses
\* its own head first.
LEMMA Joined ==
    ASSUME NEW S, NEW s \in Seq(S), NEW t \in Seq(S), NEW e \in S
    PROVE  /\ s \o Append(t, e) = Append(s \o t, e)
           /\ s # <<>> => /\ s \o t # <<>>
                          /\ Head(s \o t) = Head(s)
                          /\ Tail(s \o t) = Tail(s) \o t
<1>1. s \o Append(t, e) = Append(s \o t, e)
  <2>1. s \o t \in Seq(S) /\ <<e>> \in Seq(S)  BY ConcatProperties
  <2>2. Append(t, e) = t \o <<e>> /\ Append(s \o t, e) = (s \o t) \o <<e>>
    BY <2>1, AppendIsConcat
  <2> QED  BY <2>1, <2>2, ConcatAssociative
<1>2. ASSUME s # <<>> PROVE s \o t # <<>> /\ Head(s \o t) = Head(s)
  <2>1. Len(s) \in Nat \ {0} /\ Len(t) \in Nat  BY <1>2, EmptySeq, LenProperties
  <2>2. Len(s \o t) = Len(s) + Len(t) /\ (s \o t)[1] = s[1]  BY <2>1, ConcatProperties
  <2> QED  BY <2>1, <2>2, ConcatProperties, EmptySeq
<1>3. ASSUME s # <<>> PROVE Tail(s \o t) = Tail(s) \o t
  <2>1. Len(s) \in Nat \ {0} /\ Len(t) \in Nat  BY <1>3, EmptySeq, LenProperties
  <2>2. /\ s \o t \in Seq(S) /\ Len(s \o t) = Len(s) + Len(t)
        /\ \A i \in 1..Len(s) + Len(t) :
              (s \o t)[i] = IF i <= Len(s) THEN s[i] ELSE t[i - Len(s)]
    BY ConcatProperties
  <2>3. /\ Tail(s) \in Seq(S) /\ Len(Tail(s)) = Len(s) - 1
        /\ \A i \in 1..Len(s) - 1 : Tail(s)[i] = s[i + 1]
    BY <1>3, HeadTailProperties
  <2>4. /\ Tail(s \o t) \in Seq(S) /\ Len(Tail(s \o t)) = Len(s) + Len(t) - 1
        /\ \A i \in 1..Len(s) + Len(t) - 1 : Tail(s \o t)[i] = (s \o t)[i + 1]
    BY <1>2, <1>3, <2>2, HeadTailProperties
  <2>5. /\ Tail(s) \o t \in Seq(S) /\ Len(Tail(s) \o t) = Len(s) - 1 + Len(t)
        /\ \A i \in 1..Len(s) - 1 + Len(t) :
              (Tail(s) \o t)[i] = IF i <= Len(s) - 1 THEN Tail(s)[i]
                                  ELSE t[i - (Len(s) - 1)]
    BY <2>3, ConcatProperties
  <2>6. ASSUME NEW i \in 1..Len(s) + Len(t) - 1
        PROVE  Tail(s \o t)[i] = (Tail(s) \o t)[i]
    <3>1. Tail(s \o t)[i] = (s \o t)[i + 1]  BY <2>4
    <3>2. (s \o t)[i + 1] = IF i + 1 <= Len(s) THEN s[i + 1] ELSE t[i + 1 - Len(s)]
      BY <2>1, <2>2
    <3>3. CASE i <= Len(s) - 1  BY <2>1, <2>3, <2>5, <3>1, <3>2, <3>3
    <3>4. CASE i > Len(s) - 1
      <4>1. i + 1 - Len(s) = i - (Len(s) - 1)  BY <2>1
      <4>2. ~(i + 1 <= Len(s)) /\ ~(i <= Len(s) - 1)  BY <2>1, <3>4
      <4> QED  BY <2>1, <2>5, <3>1, <3>2, <4>1, <4>2
    <3> QED  BY <2>1, <3>3, <3>4
  <2> QED  BY <2>1, <2>4, <2>5, <2>6, SeqEqual
<1> QED  BY <1>1, <1>2, <1>3

-----------------------------------------------------------------------------
(* Each part is kept by every step.                                        *)

\* The records a producer may publish next.
LEMMA NextRecord ==
    ASSUME TypeInv, NEW p \in Producers, sent[p] < MaxRecords
    PROVE  <<p, sent[p] + 1>> \in Records
  BY BoundsAssumption DEF TypeInv, Records

\* Every step keeps the types.
LEMMA TypeStep ==
    ASSUME TypeInv, [Next]_vars
    PROVE  TypeInv'
<1> USE DEF TypeInv
<1>1. ASSUME NEW p \in Producers, Push(p) PROVE TypeInv'
  <2>1. sent[p] < MaxRecords /\ sent' = [sent EXCEPT ![p] = @ + 1]  BY <1>1 DEF Push
  <2>2. sent'[p] = sent[p] + 1 /\ sent' \in [Producers -> 0..MaxRecords]
    BY <2>1, BoundsAssumption
  <2>3. queue' = Append(queue, <<p, sent[p] + 1>>)  BY <1>1, <2>2 DEF Push
  <2>4. queue' \in Seq(Records)  BY <2>1, <2>3, NextRecord, AppendProperties
  <2> QED  BY <1>1, <2>2, <2>4 DEF Push
<1>2. ASSUME NEW p \in Producers, Notify(p) PROVE TypeInv'
  BY <1>2 DEF Notify, Woken
<1>3. CASE WorkerCheck  BY <1>3, EmptySeq DEF WorkerCheck, Grab
<1>4. CASE WorkerBlock \/ WakeSpuriously  BY <1>4 DEF WorkerBlock, WakeSpuriously
<1>5. ASSUME NEW t \in {"worker", "main"}, Emit(t),
             UNCHANGED <<running, queue, worker, main, pushed, sent, flushed, owed>>
      PROVE  TypeInv'
  <2>1. batch[t] \in Seq(Records) /\ batch[t] # <<>>  BY <1>5 DEF Emit
  <2>2. Head(batch[t]) \in Records /\ Tail(batch[t]) \in Seq(Records)
    BY <2>1, HeadTailProperties
  <2>3. log' \in Seq(Records) /\ Len(log') = Len(log) + 1
    BY <1>5, <2>2, AppendProperties DEF Emit
  <2>4. batch' \in [{"worker", "main"} -> Seq(Records)]  BY <1>5, <2>2 DEF Emit
  <2>5. flushed' \in 0..Len(log')  BY <1>5, <2>3, LenProperties
  <2> QED  BY <1>5, <2>3, <2>4, <2>5
<1>6. CASE WorkerEmit \/ StopEmit  BY <1>5, <1>6 DEF WorkerEmit, StopEmit
<1>7. CASE WorkerFlush \/ StopFlush
  BY <1>7, LenProperties DEF WorkerFlush, StopFlush
<1>8. CASE Start  BY <1>8 DEF Start
<1>9. CASE StopBegin  BY <1>9 DEF StopBegin
<1>10. CASE StopNotify  BY <1>10 DEF StopNotify, Woken
<1>11. CASE StopJoin  BY <1>11 DEF StopJoin
<1>12. CASE StopDrain  BY <1>12, EmptySeq DEF StopDrain, Grab
<1>13. CASE UNCHANGED vars  BY <1>13 DEF vars
<1> QED  BY <1>1, <1>2, <1>3, <1>4, <1>6, <1>7, <1>8, <1>9, <1>10, <1>11, <1>12, <1>13
         DEF Next, Worker, Stop

\* Every step keeps which threads there are at each place.
LEMMA ThreadStep ==
    ASSUME TypeInv, ThreadInv, [Next]_vars
    PROVE  ThreadInv'
<1> USE DEF TypeInv, ThreadInv
<1>1. ASSUME NEW p \in Producers, Push(p) PROVE ThreadInv'  BY <1>1 DEF Push
<1>2. ASSUME NEW p \in Producers, Notify(p) PROVE ThreadInv'  BY <1>2 DEF Notify, Woken
<1>3. CASE WorkerCheck  BY <1>3 DEF WorkerCheck, Grab
<1>4. CASE WorkerBlock \/ WakeSpuriously  BY <1>4 DEF WorkerBlock, WakeSpuriously
<1>5. CASE WorkerEmit \/ StopEmit  BY <1>5, SMTT(60) DEF WorkerEmit, StopEmit, Emit
<1>6. CASE WorkerFlush \/ StopFlush  BY <1>6 DEF WorkerFlush, StopFlush
<1>7. CASE Start  BY <1>7 DEF Start
<1>8. CASE StopBegin  BY <1>8 DEF StopBegin
<1>9. CASE StopNotify  BY <1>9 DEF StopNotify, Woken
<1>10. CASE StopJoin  BY <1>10 DEF StopJoin
<1>11. CASE StopDrain  BY <1>11 DEF StopDrain, Grab
<1>12. CASE UNCHANGED vars  BY <1>12 DEF vars
<1> QED  BY <1>1, <1>2, <1>3, <1>4, <1>5, <1>6, <1>7, <1>8, <1>9, <1>10, <1>11, <1>12
         DEF Next, Worker, Stop

\* Where the records are after one was written, and after the queue was taken.
LEMMA Moved ==
    ASSUME TypeInv, NEW t \in {"worker", "main"}
    PROVE  /\ Emit(t) /\ UNCHANGED queue =>
                /\ Everywhere' = Everywhere
                /\ Range(log') \cup Range(batch'[t]) = Range(log) \cup Range(batch[t])
                /\ Flushed \subseteq Range(log)
           /\ Grab(t) /\ batch[t] = <<>> /\ UNCHANGED log =>
                /\ Everywhere' = Everywhere
                /\ Range(batch'[t]) = Range(queue)
<1>1. ASSUME Emit(t), UNCHANGED queue
      PROVE  /\ Everywhere' = Everywhere
             /\ Range(log') \cup Range(batch'[t]) = Range(log) \cup Range(batch[t])
  <2>1. batch[t] \in Seq(Records) /\ batch[t] # <<>> /\ log \in Seq(Records)
    BY <1>1 DEF Emit, TypeInv
  <2>2. Head(batch[t]) \in Records  BY <2>1, HeadTailProperties
  <2>3. Range(batch[t]) = {Head(batch[t])} \cup Range(Tail(batch[t]))  BY <2>1, <2>2, RangeIs
  <2>4. Range(log') = Range(log) \cup {Head(batch[t])}  BY <1>1, <2>1, <2>2, RangeIs DEF Emit
  <2>5. /\ batch'[t] = Tail(batch[t])
        /\ \A u \in {"worker", "main"} : u # t => batch'[u] = batch[u]
    BY <1>1 DEF Emit, TypeInv
  <2> QED  BY <1>1, <2>3, <2>4, <2>5 DEF Everywhere
<1>2. ASSUME Grab(t), batch[t] = <<>>, UNCHANGED log
      PROVE  /\ Everywhere' = Everywhere
             /\ Range(batch'[t]) = Range(queue)
  <2>1. Range(<<>>) = {}  BY DEF Range
  <2>2. queue' = <<>> /\ batch'[t] = queue
        /\ \A u \in {"worker", "main"} : u # t => batch'[u] = batch[u]
    BY <1>2 DEF Grab, TypeInv
  <2> QED  BY <1>2, <2>1, <2>2 DEF Everywhere
<1>3. Flushed \subseteq Range(log)  BY DEF Flushed, Range, TypeInv
<1> QED  BY <1>1, <1>2, <1>3

\* Every step keeps where each published record is.
LEMMA DeliveryStep ==
    ASSUME IInv, [Next]_vars
    PROVE  DeliveryInv'
<1> USE DEF IInv, DeliveryInv
<1>0. Flushed \subseteq Range(log) /\ Range(<<>>) = {}
  BY DEF Flushed, Range, TypeInv
<1>1. ASSUME NEW p \in Producers, Push(p) PROVE DeliveryInv'
  <2>1. /\ sent[p] < MaxRecords /\ sent' = [sent EXCEPT ![p] = @ + 1]
        /\ UNCHANGED <<running, main, batch, log, flushed, owed>>
        /\ sent \in [Producers -> 0..MaxRecords]
    BY <1>1 DEF Push, TypeInv
  <2>2. /\ sent'[p] = sent[p] + 1
        /\ \A q \in Producers : q # p => sent'[q] = sent[q]
    BY <2>1
  <2>3. queue' = Append(queue, <<p, sent[p] + 1>>)  BY <1>1, <2>2 DEF Push
  <2>4. Range(queue') = Range(queue) \cup {<<p, sent[p] + 1>>}
    <3>1. queue \in Seq(Records) /\ <<p, sent[p] + 1>> \in Records
      BY <2>1, NextRecord DEF TypeInv
    <3> QED  BY <2>3, <3>1, RangeIs
  <2>5. Everywhere' = Everywhere \cup {<<p, sent[p] + 1>>}  BY <2>1, <2>4 DEF Everywhere
  <2>6. ASSUME NEW r \in Records, r[2] <= sent'[r[1]] PROVE r \in Everywhere'
    <3>1. r = <<r[1], r[2]>> /\ r[1] \in Producers /\ r[2] \in Nat  BY DEF Records
    <3>2. CASE r[1] # p  BY <2>2, <2>5, <2>6, <3>1, <3>2
    <3>3. CASE r[1] = p
      <4>1. sent[p] \in Nat  BY <2>1
      <4>2. r[2] <= sent[p] \/ r[2] = sent[p] + 1  BY <2>2, <2>6, <3>1, <3>3, <4>1
      <4> QED  BY <2>5, <3>1, <3>3, <4>2
    <3> QED  BY <3>2, <3>3
  <2>7. ASSUME NEW r \in owed PROVE r[2] <= sent'[r[1]]
    <3>1. r[1] \in Producers /\ r[2] \in Nat /\ r[2] <= sent[r[1]]  BY DEF TypeInv, Records
    <3>2. sent[r[1]] \in Nat /\ sent'[r[1]] \in {sent[r[1]], sent[r[1]] + 1}
      BY <2>1, <2>2, <3>1
    <3> QED  BY <3>1, <3>2
  <2> QED  BY <2>1, <2>6, <2>7 DEF Flushed
<1>2. CASE (\E p \in Producers : Notify(p)) \/ WorkerBlock \/ WakeSpuriously \/ StopNotify
            \/ UNCHANGED vars
  <2>1. UNCHANGED <<running, queue, batch, sent, log, flushed, owed>>
    BY <1>2 DEF Notify, WorkerBlock, WakeSpuriously, StopNotify, vars
  <2>2. main' = main \/ main' = "join"
    BY <1>2 DEF Notify, WorkerBlock, WakeSpuriously, StopNotify, vars
  <2> QED  BY <2>1, <2>2 DEF Everywhere, Flushed
<1>3. CASE WorkerCheck
  <2>1. UNCHANGED <<running, main, sent, log, flushed, owed>>  BY <1>3 DEF WorkerCheck
  <2>2. batch'["main"] = batch["main"]  BY <1>3 DEF WorkerCheck, Grab, TypeInv
  <2>3. Everywhere' = Everywhere
    <3>1. CASE Grab("worker")  BY <1>3, <3>1, <2>1, Moved DEF ThreadInv, WorkerCheck
    <3>2. CASE UNCHANGED <<queue, batch>>  BY <3>2, <2>1 DEF Everywhere
    <3> QED  BY <1>3, <3>1, <3>2 DEF WorkerCheck
  <2> QED  BY <2>1, <2>2, <2>3 DEF Flushed
<1>4. CASE WorkerEmit
  <2>1. /\ Emit("worker") /\ UNCHANGED <<running, queue, main, sent, flushed, owed>>
        /\ worker = "emit"
    BY <1>4 DEF WorkerEmit
  <2>2. Everywhere' = Everywhere  BY <2>1, Moved
  <2>3. ~(main = "emit") /\ ~(main = "idle" /\ ~running)  BY <2>1 DEF ThreadInv
  <2> QED  BY <2>1, <2>2, <2>3
<1>5. CASE WorkerFlush
  <2>1. /\ UNCHANGED <<running, queue, main, batch, sent, log, owed>>
        /\ worker = "emit"
    BY <1>5 DEF WorkerFlush
  <2>2. ~(main = "emit") /\ ~(main = "idle" /\ ~running)  BY <2>1 DEF ThreadInv
  <2> QED  BY <2>1, <2>2 DEF Everywhere
<1>6. CASE Start
  BY <1>6 DEF Start, Everywhere
<1>7. CASE StopBegin
  <2>1. /\ UNCHANGED <<queue, batch, sent, log>> /\ main' = "notify"
        /\ owed' = {r \in Records : r[2] <= sent[r[1]]}
    BY <1>7 DEF StopBegin
  <2> QED  BY <2>1 DEF Everywhere
<1>8. CASE StopJoin
  BY <1>8 DEF StopJoin, Everywhere
<1>9. CASE StopDrain
  <2>1. /\ Grab("main") /\ main = "drain" /\ main' = "emit"
        /\ UNCHANGED <<running, worker, sent, log, flushed, owed>>
    BY <1>9 DEF StopDrain
  <2>2. batch["main"] = <<>> /\ batch["worker"] = <<>>  BY <2>1 DEF ThreadInv
  <2>3. Everywhere' = Everywhere /\ Range(batch'["main"]) = Range(queue)
    BY <2>1, <2>2, Moved
  <2>4. owed \subseteq Everywhere  BY DEF TypeInv
  <2>5. Everywhere = Range(log) \cup Range(queue)  BY <1>0, <2>2 DEF Everywhere
  <2> QED  BY <2>1, <2>3, <2>4, <2>5
<1>10. CASE StopEmit
  <2>1. /\ Emit("main") /\ main = "emit"
        /\ UNCHANGED <<running, queue, main, sent, flushed, owed>>
    BY <1>10 DEF StopEmit
  <2>2. /\ Everywhere' = Everywhere
        /\ Range(log') \cup Range(batch'["main"]) = Range(log) \cup Range(batch["main"])
    BY <2>1, Moved
  <2> QED  BY <2>1, <2>2
<1>11. CASE StopFlush
  <2>1. /\ main = "emit" /\ batch["main"] = <<>> /\ flushed' = Len(log) /\ main' = "idle"
        /\ UNCHANGED <<running, queue, batch, sent, log, owed>>
    BY <1>11 DEF StopFlush
  <2>2. Flushed' = {log[i] : i \in 1..Len(log)}  BY <2>1 DEF Flushed
  <2>3. DOMAIN log = 1..Len(log)  BY LenProperties DEF TypeInv
  <2>4. Flushed' = Range(log)  BY <2>2, <2>3 DEF Range
  <2> QED  BY <1>0, <2>1, <2>4 DEF Everywhere
<1> QED  BY <1>1, <1>2, <1>3, <1>4, <1>5, <1>6, <1>7, <1>8, <1>9, <1>10, <1>11
         DEF Next, Worker, Stop

-----------------------------------------------------------------------------
(* The theorems.                                                           *)

\* The program starts in it.
LEMMA InitIInv == Init => IInv
<1> SUFFICES ASSUME Init PROVE IInv  OBVIOUS
<1>1. TypeInv
  <2>1. queue \in Seq(Records) /\ log \in Seq(Records) /\ flushed \in 0..Len(log)
    BY EmptySeq DEF Init
  <2>2. batch \in [{"worker", "main"} -> Seq(Records)]  BY EmptySeq DEF Init
  <2>3. sent \in [Producers -> 0..MaxRecords]  BY BoundsAssumption DEF Init
  <2> QED  BY <2>1, <2>2, <2>3 DEF Init, TypeInv
<1>2. ThreadInv  BY DEF Init, ThreadInv
<1>3. DeliveryInv
  BY BoundsAssumption DEF Init, DeliveryInv, Records
<1> QED  BY <1>1, <1>2, <1>3 DEF IInv

\* Types, threads and delivery hold together in every state.
THEOREM InductiveInvariant == Spec => []IInv
<1>1. IInv /\ [Next]_vars => IInv'
  BY TypeStep, ThreadStep, DeliveryStep DEF IInv
<1> QED  BY InitIInv, <1>1, PTL DEF Spec

\* For any producers and any number of restarts, the worker and stop() never write
\* the sinks at the same time, although the sinks have no lock.
THEOREM OneWriter == Spec => []SinksHaveOneWriter
<1>1. IInv => SinksHaveOneWriter  BY DEF IInv, ThreadInv, SinksHaveOneWriter
<1> QED  BY <1>1, InductiveInvariant, PTL

\* For any producers and any number of restarts, a record published before stop()
\* was called is written and flushed when stop() returns.
THEOREM NothingLeftBehind == Spec => []StopDelivers
<1>1. IInv => StopDelivers  BY DEF IInv, DeliveryInv, Flushed, StopDelivers
<1> QED  BY <1>1, InductiveInvariant, PTL

-----------------------------------------------------------------------------
(* The log seen by its readers.                                            *)

Pending == batch["worker"] \o batch["main"] \o queue

\* Two batches and a queue, in a row.
LEMMA InARow ==
    ASSUME NEW S, NEW a \in Seq(S), NEW b \in Seq(S), NEW c \in Seq(S)
    PROVE  /\ a \o b \o c = a \o (b \o c)
           /\ a = <<>> => a \o b \o c = b \o c
           /\ a = <<>> /\ b = <<>> => a \o b \o c = c
           /\ c = <<>> => a \o b \o c = a \o b
<1>1. a \o b \in Seq(S) /\ b \o c \in Seq(S)  BY ConcatProperties
<1>2. a \o b \o c = a \o (b \o c)
  BY ConcatAssociative
<1>3. a = <<>> => a \o (b \o c) = b \o c  BY <1>1, ConcatEmptySeq
<1>4. b = <<>> => b \o c = c  BY ConcatEmptySeq
<1>5. c = <<>> => a \o b \o c = a \o b  BY <1>1, ConcatEmptySeq
<1> QED  BY <1>2, <1>3, <1>4, <1>5

\* Every step is a step of the log, or leaves it alone.
LEMMA LogStep ==
    ASSUME IInv, [Next]_vars
    PROVE  [Log!Next]_<<sent, Pending, log>>
<1> USE DEF IInv
<1>0. TypeInv'  BY TypeStep
<1>1. ASSUME NEW p \in Producers, Push(p) PROVE Log!Publish(p)
  <2>1. /\ sent[p] < MaxRecords /\ sent' = [sent EXCEPT ![p] = @ + 1]
        /\ queue' = Append(queue, <<p, sent'[p]>>) /\ UNCHANGED <<batch, log>>
    BY <1>1 DEF Push
  <2>2. sent'[p] = sent[p] + 1  BY <2>1 DEF TypeInv
  <2>3. <<p, sent'[p]>> \in Records  BY <2>1, <2>2, NextRecord
  <2>4. batch["worker"] \o batch["main"] \in Seq(Records) /\ queue \in Seq(Records)
    BY ConcatProperties DEF TypeInv
  <2>5. \A s \in Seq(Records) : s \o Append(queue, <<p, sent'[p]>>)
                                  = Append(s \o queue, <<p, sent'[p]>>)
    BY <2>3, <2>4, Joined
  <2>6. Pending' = Append(Pending, <<p, sent'[p]>>)  BY <2>1, <2>4, <2>5 DEF Pending
  <2> QED  BY <2>1, <2>6 DEF Log!Publish, Pending
<1>2. ASSUME NEW t \in {"worker", "main"}, Emit(t), UNCHANGED <<queue, sent>>,
             t = "main" => batch["worker"] = <<>>
      PROVE  Log!Write
  <2> DEFINE rest == IF t = "worker" THEN batch["main"] \o queue ELSE queue
  <2>1. /\ batch[t] \in Seq(Records) /\ batch[t] # <<>>
        /\ log' = Append(log, Head(batch[t])) /\ batch'[t] = Tail(batch[t])
        /\ \A u \in {"worker", "main"} : u # t => batch'[u] = batch[u]
    BY <1>2 DEF Emit, TypeInv
  <2>2. rest \in Seq(Records)  BY ConcatProperties DEF TypeInv
  <2>3. Pending = batch[t] \o rest
    <3>1. Pending = batch["worker"] \o (batch["main"] \o queue)
      BY InARow, SMTT(60) DEF Pending, TypeInv
    <3>2. batch["worker"] = <<>> => Pending = batch["main"] \o queue
      BY InARow DEF Pending, TypeInv
    <3> QED  BY <1>2, <3>1, <3>2
  <2>4. Pending' = batch'[t] \o rest
    <3>1. CASE t = "worker"
      <4>1. Pending' = batch'["worker"] \o (batch'["main"] \o queue')
        <5>1. /\ batch'["worker"] \in Seq(Records) /\ batch'["main"] \in Seq(Records)
              /\ queue' \in Seq(Records)
          BY <1>0 DEF TypeInv
        <5>2. \A a, b, c \in Seq(Records) : (a \o b) \o c = a \o (b \o c)
          BY InARow
        <5>3. Pending' = (batch'["worker"] \o batch'["main"]) \o queue'  BY DEF Pending
        <5> QED  BY <5>1, <5>2, <5>3, Zenon
      <4> QED  BY <1>2, <2>1, <3>1, <4>1
    <3>2. CASE t = "main"
      <4>1. batch'["worker"] = <<>>  BY <1>2, <2>1, <3>2
      <4>2. Pending' = batch'["main"] \o queue'  BY <1>0, <4>1, InARow DEF Pending, TypeInv
      <4> QED  BY <1>2, <3>2, <4>2
    <3> QED  BY <3>1, <3>2
  <2>5. Head(batch[t]) \in Records  BY <2>1, HeadTailProperties
  <2>6. Pending # <<>> /\ Head(Pending) = Head(batch[t]) /\ Tail(Pending) = batch'[t] \o rest
    <3>1. /\ batch[t] \o rest # <<>> /\ Head(batch[t] \o rest) = Head(batch[t])
          /\ Tail(batch[t] \o rest) = Tail(batch[t]) \o rest
      BY <2>1, <2>2, <2>5, Joined, ZenonT(60)
    <3> HIDE DEF rest
    <3> QED  BY <2>1, <2>3, <3>1
  <2> QED  BY <1>2, <2>1, <2>4, <2>6 DEF Log!Write, Pending
<1>3. ASSUME NEW t \in {"worker", "main"}, Grab(t), UNCHANGED <<sent, log>>,
             batch["worker"] = <<>>, batch["main"] = <<>>
      PROVE  UNCHANGED <<sent, Pending, log>>
  <2>1. /\ queue' = <<>> /\ batch'[t] = queue
        /\ \A u \in {"worker", "main"} : u # t => batch'[u] = <<>>
    BY <1>3 DEF Grab, TypeInv
  <2>2. Pending = queue  BY <1>3, InARow DEF Pending, TypeInv
  <2>3. queue \in Seq(Records)  BY DEF TypeInv
  <2>4. Pending' = batch'["worker"] \o batch'["main"] \o <<>>  BY <2>1 DEF Pending
  <2>5. Pending' = queue
    <3>1. queue \o <<>> = queue /\ <<>> \o queue = queue  BY <2>3, ConcatEmptySeq
    <3>2. CASE t = "worker"  BY <2>1, <2>4, <3>1, <3>2
    <3>3. CASE t = "main"  BY <2>1, <2>4, <3>1, <3>3
    <3> QED  BY <3>2, <3>3
  <2> QED  BY <1>3, <2>2, <2>5
<1>4. CASE WorkerEmit
  BY <1>2, <1>4 DEF WorkerEmit, Log!Next
<1>5. CASE StopEmit
  BY <1>2, <1>5 DEF StopEmit, Log!Next, ThreadInv
<1>6. CASE WorkerCheck
  <2>1. CASE Grab("worker")
    <3>1. worker = "lock" /\ main # "emit"  BY <1>6 DEF WorkerCheck, ThreadInv
    <3> QED  BY <1>3, <1>6, <2>1, <3>1 DEF WorkerCheck, ThreadInv
  <2>2. CASE UNCHANGED <<queue, batch>>  BY <1>6, <2>2 DEF WorkerCheck, Pending
  <2> QED  BY <1>6, <2>1, <2>2 DEF WorkerCheck
<1>7. CASE StopDrain
  BY <1>3, <1>7 DEF StopDrain, ThreadInv
<1>8. CASE \/ \E p \in Producers : Notify(p)
           \/ WorkerBlock \/ WakeSpuriously \/ WorkerFlush \/ Start \/ StopBegin
           \/ StopNotify \/ StopJoin \/ StopFlush \/ UNCHANGED vars
  <2>1. UNCHANGED <<sent, batch, queue, log>>
    BY <1>8 DEF Notify, WorkerBlock, WakeSpuriously, WorkerFlush, Start, StopBegin,
                StopNotify, StopJoin, StopFlush, vars
  <2> QED  BY <2>1 DEF Pending
<1> QED  BY <1>1, <1>4, <1>5, <1>6, <1>7, <1>8 DEF Next, Worker, Stop, Log!Next

\* Over any number of batches, stops and restarts, every record is written once and
\* in the order in which the producers got to push it.
THEOREM PublisherImplementsLog == Spec => ImplementsLog
<1>1. Init => Log!Init
  BY DEF Init, Log!Init
<1>2. IInv /\ [Next]_vars => [Log!Next]_Log!vars
  BY LogStep DEF Pending, Log!vars
<1> QED  BY <1>1, <1>2, InductiveInvariant, PTL DEF Spec, ImplementsLog, Log!Spec
=============================================================================
