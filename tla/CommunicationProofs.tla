------------------------- MODULE CommunicationProofs --------------------------
(***************************************************************************)
(* Theorems about what threads wait for: the semaphores of Semaphore.tla,  *)
(* for any sets of threads, any initial value and any bounds, and below    *)
(* them the message boxes of Mailbox.tla, where messages arrive whole and  *)
(* in order whatever the programs do, and TISEMPTY can be relied upon by   *)
(* threads that receive only after it said no, even if others do not ask.  *)
(***************************************************************************)
EXTENDS Semaphore, Mailbox, FiniteSetTheorems, SequenceTheorems, TLAPS

(* The queue elements are processes, so its head is one and its tail is a  *)
(* queue.                                                                  *)
LEMMA QueueFacts ==
    ASSUME NEW q \in Seq(Processes)
    PROVE  /\ \A i \in 1..Len(q) : q[i] \in Processes
           /\ q # <<>> => /\ Head(q) = q[1]
                          /\ Len(q) \in Nat \ {0}
                          /\ Tail(q) \in Seq(Processes)
                          /\ Len(Tail(q)) = Len(q) - 1
                          /\ \A i \in 1..Len(Tail(q)) : Tail(q)[i] = q[i + 1]
           /\ \A p \in Processes :
                /\ Append(q, p) \in Seq(Processes)
                /\ Len(Append(q, p)) = Len(q) + 1
                /\ Append(q, p)[Len(q) + 1] = p
                /\ \A i \in 1..Len(q) : Append(q, p)[i] = q[i]
  OBVIOUS

(* Type correctness holds at the start. *)
LEMMA TypeInit == Init => TypeOK
<1> SUFFICES ASSUME Init PROVE TypeOK
  OBVIOUS
<1>1. value \in Int /\ queue \in Seq(Processes)
  BY ValueAssumption DEF Init
<1>2. meddled \in BOOLEAN /\ freed \in BOOLEAN
  BY DEF Init
<1>3. /\ state \in [VmThreads -> {"NORMAL", "SUSPENDED"}]
      /\ op \in [VmThreads -> {"other", "semp", "exited"}]
      /\ channel \in [Natives -> {"none", "UNAVALIABLE", "AVALIABLE"}]
  BY DEF Init
<1> QED BY <1>1, <1>2, <1>3 DEF TypeOK

(* Every operation, of a thread or of a host, keeps type correctness. *)
LEMMA TypeStep == TypeOK /\ [Next]_vars => TypeOK'
<1> SUFFICES ASSUME TypeOK, [Next]_vars PROVE TypeOK'
  OBVIOUS
<1>0. \A p \in Processes : Append(queue, p) \in Seq(Processes)
  BY QueueFacts DEF TypeOK
<1>1. ASSUME NEW t \in VmThreads, TryP(t) PROVE TypeOK'
  <2>1. t \in Processes
    BY DEF Processes
  <2>2. value' \in Int
    BY <1>1 DEF TryP, TypeOK
  <2>3. queue' \in Seq(Processes)
    BY <1>1, <2>1, <1>0 DEF TryP, TypeOK
  <2> QED BY <1>1, <2>2, <2>3 DEF TryP, TypeOK
<1>2. ASSUME V, UNCHANGED op PROVE TypeOK'
  <2>1. value' \in Int
    BY <1>2 DEF V, TypeOK
  <2>2. queue' \in Seq(Processes)
    <3>1. queue' = queue \/ (queue # <<>> /\ queue' = Tail(queue))
      BY <1>2 DEF V
    <3> QED BY <3>1, QueueFacts DEF TypeOK
  <2>3. state' \in [VmThreads -> {"NORMAL", "SUSPENDED"}]
    BY <1>2 DEF V, TypeOK
  <2>4. channel' \in [Natives -> {"none", "UNAVALIABLE", "AVALIABLE"}]
    BY <1>2 DEF V, TypeOK
  <2>5. meddled' \in BOOLEAN /\ freed' \in BOOLEAN
    BY <1>2 DEF V, TypeOK
  <2> QED BY <1>2, <2>1, <2>2, <2>3, <2>4, <2>5 DEF TypeOK
<1>3. ASSUME NEW t \in VmThreads, Exit(t) PROVE TypeOK'
  BY <1>3 DEF Exit, TypeOK
<1>4. ASSUME NEW t \in VmThreads, NEW u \in VmThreads,
             NEW s \in {"NORMAL", "SUSPENDED"}, SetState(t, u, s)
      PROVE  TypeOK'
  BY <1>4 DEF SetState, TypeOK
<1>5. ASSUME NEW n \in Natives, NativeP(n) PROVE TypeOK'
  <2>1. n \in Processes
    BY DEF Processes
  <2>2. value' \in Int
    BY <1>5 DEF NativeP, TypeOK
  <2>3. queue' \in Seq(Processes)
    BY <1>5, <2>1, <1>0 DEF NativeP, TypeOK
  <2> QED BY <1>5, <2>2, <2>3 DEF NativeP, TypeOK
<1>6. ASSUME NEW n \in Natives, NativeTake(n) PROVE TypeOK'
  BY <1>6 DEF NativeTake, TypeOK
<1>7. CASE UNCHANGED vars
  BY <1>7 DEF vars, TypeOK
<1>8. V => UNCHANGED op
  BY DEF V
<1> QED
  BY <1>1, <1>2, <1>3, <1>4, <1>5, <1>6, <1>7, <1>8 DEF Next, SemV, NativeV

(* Every state of the semaphore has the types of TypeOK. *)
THEOREM TypeCorrect == Spec => []TypeOK
  BY TypeInit, TypeStep, PTL DEF Spec

(* The deficit: only a woken host thread takes without looking, and only   *)
(* once for each waking.                                                   *)
THEOREM DeficitBounded == Spec => []BoundedDeficit
<1> DEFINE Idle == Natives \ WokenNatives
<1>0. ASSUME NEW S \in SUBSET Natives PROVE IsFiniteSet(S) /\ Cardinality(S) \in Nat
  BY ThreadsAssumption, FS_Subset, FS_CardinalityType
<1>1. Init => BoundedDeficit
  <2> SUFFICES ASSUME Init PROVE BoundedDeficit
    OBVIOUS
  <2>1. Cardinality(Idle) \in Nat
    BY <1>0 DEF WokenNatives
  <2> QED BY <2>1, ValueAssumption DEF Init, BoundedDeficit, Lowest
<1>2. TypeOK /\ BoundedDeficit /\ [Next]_vars => BoundedDeficit'
  <2> SUFFICES ASSUME TypeOK, BoundedDeficit, [Next]_vars PROVE BoundedDeficit'
    OBVIOUS
  <2>0. /\ Cardinality(Idle) \in Nat /\ Cardinality(Idle') \in Nat
        /\ Lowest \in Int /\ Lowest <= 0 /\ value \in Int
        /\ value' \in Int
        /\ value >= Lowest - Cardinality(Idle)
    BY <1>0, TypeStep, ValueAssumption DEF WokenNatives, Lowest, BoundedDeficit, TypeOK
  <2>1. CASE value' >= 0
    BY <2>0, <2>1 DEF BoundedDeficit
  <2>2. CASE value' >= value /\ UNCHANGED channel
    <3>1. Idle' = Idle
      BY <2>2 DEF WokenNatives
    <3>2. Cardinality(Idle') = Cardinality(Idle)
      BY <3>1
    <3> QED BY <2>0, <2>2, <3>2 DEF BoundedDeficit
  <2>3. ASSUME NEW n \in Natives, NativeTake(n) PROVE BoundedDeficit'
    <3>1. n \notin Idle /\ Idle' = Idle \union {n} /\ value' = value - 1
      BY <2>3 DEF NativeTake, WokenNatives, TypeOK
    <3>2. Cardinality(Idle') = Cardinality(Idle) + 1
      BY <3>1, <1>0, FS_AddElement DEF WokenNatives
    <3> QED BY <3>1, <3>2, <2>0 DEF BoundedDeficit
  <2>4. ASSUME NEW n \in Natives, NativeP(n) PROVE BoundedDeficit'
    <3>1. CASE value > 0
      BY <2>4, <3>1, <2>0, <2>1 DEF NativeP
    <3>2. CASE value <= 0
      <4>1. UNCHANGED value /\ Idle' = Idle
        BY <2>4, <3>2, <2>0 DEF NativeP, WokenNatives, TypeOK
      <4> QED BY <4>1, <2>0 DEF BoundedDeficit
    <3> QED BY <3>1, <3>2, <2>0
  <2>5. ASSUME NEW t \in VmThreads, TryP(t) PROVE BoundedDeficit'
    BY <2>5, <2>0, <2>1, <2>2 DEF TryP
  <2>6. CASE V
    <3>1. CASE UNCHANGED channel
      BY <2>6, <3>1, <2>0, <2>2 DEF V
    <3>2. CASE value' > 0
      BY <3>2, <2>0, <2>1, <2>6 DEF V
    <3> QED BY <2>6, <3>1, <3>2 DEF V
  <2>7. ASSUME NEW t \in VmThreads, NEW u \in VmThreads, NEW s, SetState(t, u, s)
        PROVE  BoundedDeficit'
    BY <2>7, <2>0, <2>2 DEF SetState
  <2>8. ASSUME NEW t \in VmThreads, Exit(t) PROVE BoundedDeficit'
    BY <2>8, <2>0, <2>2 DEF Exit
  <2>9. CASE UNCHANGED vars
    BY <2>9, <2>0, <2>2 DEF vars
  <2> QED
    BY <2>3, <2>4, <2>5, <2>6, <2>7, <2>8, <2>9 DEF Next, SemV, NativeV
<1> QED
  BY <1>1, <1>2, TypeCorrect, PTL DEF Spec

(* What a step does to the queue, said of the processes in it. *)
LEMMA AppendQueued ==
    ASSUME NEW q \in Seq(Processes), NEW p \in Processes, queue = q, queue' = Append(q, p)
    PROVE  \A x : Queued(x)' <=> Queued(x) \/ x = p
<1> SUFFICES ASSUME NEW x PROVE Queued(x)' <=> Queued(x) \/ x = p
  OBVIOUS
<1>1. /\ Len(q) \in Nat /\ Len(queue') = Len(q) + 1
      /\ queue'[Len(q) + 1] = p
      /\ \A i \in 1..Len(q) : queue'[i] = queue[i]
  BY QueueFacts
<1>2. ASSUME Queued(x)' PROVE Queued(x) \/ x = p
  <2>1. PICK i \in 1..Len(queue') : queue'[i] = x
    BY <1>2 DEF Queued
  <2>2. CASE i = Len(q) + 1
    BY <2>1, <2>2, <1>1
  <2>3. CASE i \in 1..Len(q)
    BY <2>1, <2>3, <1>1 DEF Queued
  <2> QED BY <2>1, <2>2, <2>3, <1>1
<1>3. ASSUME Queued(x) PROVE Queued(x)'
  <2>1. PICK i \in 1..Len(queue) : queue[i] = x
    BY <1>3 DEF Queued
  <2>2. i \in 1..Len(queue') /\ queue'[i] = x
    BY <2>1, <1>1
  <2> QED BY <2>2 DEF Queued
<1>4. ASSUME x = p PROVE Queued(x)'
  <2>1. Len(q) + 1 \in 1..Len(queue')
    BY <1>1
  <2> QED BY <2>1, <1>1, <1>4 DEF Queued
<1> QED BY <1>2, <1>3, <1>4

DistinctQueue == \A i, j \in 1..Len(queue) : queue[i] = queue[j] => i = j

(* Queueing a process that is not queued keeps the queue free of
   duplicates: an atomic try_p never queues a process twice. *)
LEMMA AppendDistinct ==
    ASSUME NEW q \in Seq(Processes), NEW p \in Processes, queue = q, queue' = Append(q, p),
           DistinctQueue, ~Queued(p)
    PROVE  DistinctQueue'
<1>1. /\ Len(q) \in Nat /\ Len(queue') = Len(q) + 1
      /\ queue'[Len(q) + 1] = p
      /\ \A i \in 1..Len(q) : queue'[i] = queue[i]
  BY QueueFacts
<1>2. \A i \in 1..Len(q) : queue'[i] # p
  BY <1>1 DEF Queued
<1>3. \A i \in 1..Len(queue') : i = Len(q) + 1 \/ i \in 1..Len(q)
  BY <1>1
<1> SUFFICES ASSUME NEW i \in 1..Len(queue'), NEW j \in 1..Len(queue'), queue'[i] = queue'[j]
             PROVE  i = j
  BY DEF DistinctQueue
<1> QED BY <1>1, <1>2, <1>3 DEF DistinctQueue

(* Taking the head off the queue (list_v) leaves the queue free of
   duplicates, and takes exactly the head out of it. *)
LEMMA PopQueued ==
    ASSUME NEW q \in Seq(Processes), q # <<>>, queue = q, queue' = Tail(q), DistinctQueue
    PROVE  /\ Queued(Head(q))
           /\ DistinctQueue'
           /\ \A x : Queued(x)' <=> Queued(x) /\ x # Head(q)
<1>1. /\ Head(q) = q[1]
      /\ Len(q) \in Nat \ {0}
      /\ Len(queue') = Len(q) - 1
      /\ \A i \in 1..Len(queue') : queue'[i] = q[i + 1]
  BY QueueFacts
<1>2. \A i \in 1..Len(queue') : i \in Int /\ i + 1 \in 1..Len(q) /\ i + 1 # 1
  BY <1>1
<1>3. 1 \in 1..Len(q)
  BY <1>1
<1>4. Queued(Head(q))
  BY <1>1, <1>3 DEF Queued
<1>5. DistinctQueue'
  <2> SUFFICES ASSUME NEW i \in 1..Len(queue'), NEW j \in 1..Len(queue'),
                      queue'[i] = queue'[j]
               PROVE  i = j
    BY DEF DistinctQueue
  <2>1. i + 1 = j + 1
    BY <1>1, <1>2 DEF DistinctQueue
  <2> QED BY <2>1, <1>2
<1>6. ASSUME NEW x, Queued(x)' PROVE Queued(x) /\ x # Head(q)
  <2>1. PICK i \in 1..Len(queue') : queue'[i] = x
    BY <1>6 DEF Queued
  <2>2. q[i + 1] = x /\ i + 1 \in 1..Len(q) /\ i + 1 # 1
    BY <2>1, <1>1, <1>2
  <2>3. x # q[1]
    BY <2>2, <1>3 DEF DistinctQueue
  <2> QED BY <2>2, <2>3, <1>1 DEF Queued
<1>7. ASSUME NEW x, Queued(x), x # Head(q) PROVE Queued(x)'
  <2>1. PICK i \in 1..Len(q) : q[i] = x
    BY <1>7 DEF Queued
  <2>2. i - 1 \in 1..Len(queue') /\ queue'[i - 1] = q[(i - 1) + 1] /\ (i - 1) + 1 = i
    BY <2>1, <1>1, <1>7
  <2> QED BY <2>1, <2>2 DEF Queued
<1> QED BY <1>4, <1>5, <1>6, <1>7

-----------------------------------------------------------------------------
(* The invariant: the queue is exact, and nobody wrote to a destroyed      *)
(* thread, both as long as no program suspends or resumes by hand.  The    *)
(* first is inductive with the types; the second needs it, for the head of *)
(* the queue is then stopped at its SEMP and has not ended.                *)
QueueInv == TypeOK /\ QueueHoldsWaiters /\ NoWriteToDestroyed

(* The invariant of the queue holds at the start. *)
LEMMA QueueInvInit == Init => QueueInv
<1> SUFFICES ASSUME Init PROVE QueueInv
  OBVIOUS
<1>1. \A i : i \notin 1..Len(queue)
  BY DEF Init
<1>2. QueueHoldsWaiters
  BY <1>1 DEF Init, QueueHoldsWaiters, Queued
<1>3. NoWriteToDestroyed
  BY DEF Init, NoWriteToDestroyed
<1> QED BY <1>2, <1>3, TypeInit DEF QueueInv

(* Every operation keeps the invariant of the queue. *)
LEMMA QueueInvStep == QueueInv /\ [Next]_vars => QueueInv'
<1> SUFFICES ASSUME QueueInv, [Next]_vars PROVE QueueInv'
  OBVIOUS
<1>0. TypeOK /\ TypeOK'
  BY TypeStep DEF QueueInv
<1>1. CASE meddled'
  BY <1>0, <1>1 DEF QueueInv, QueueHoldsWaiters, NoWriteToDestroyed
<1>2. CASE ~meddled'
  <2>1. meddled' = meddled
    BY <1>0, <1>2 DEF Next, TryP, V, SemV, NativeV, Exit, SetState, NativeP, NativeTake, vars
  <2>2. ~meddled /\ DistinctQueue /\ ~freed
    BY <2>1, <1>2 DEF QueueInv, QueueHoldsWaiters, NoWriteToDestroyed, DistinctQueue
  <2>3. /\ \A t \in VmThreads : Queued(t) <=> (op[t] = "semp" /\ state[t] = "SUSPENDED")
        /\ \A n \in Natives : Queued(n) <=> channel[n] = "UNAVALIABLE"
    BY <2>2 DEF QueueInv, QueueHoldsWaiters
  <2> DEFINE VmExact == \A t \in VmThreads :
                            Queued(t) <=> (op[t] = "semp" /\ state[t] = "SUSPENDED")
             NativeExact == \A n \in Natives : Queued(n) <=> channel[n] = "UNAVALIABLE"
  <2> HIDE DEF VmExact, NativeExact
  <2>4. VmExact /\ NativeExact
    BY <2>3 DEF VmExact, NativeExact
  <2>5. SUFFICES DistinctQueue' /\ VmExact' /\ NativeExact' /\ ~freed'
    BY <1>0 DEF QueueInv, QueueHoldsWaiters, NoWriteToDestroyed, DistinctQueue, VmExact,
                NativeExact
  <2>6. ASSUME UNCHANGED queue
        PROVE  DistinctQueue' /\ \A x : Queued(x)' <=> Queued(x)
    BY <2>2, <2>6 DEF DistinctQueue, Queued
  <2>7. ASSUME NEW t \in VmThreads, TryP(t)
        PROVE  DistinctQueue' /\ VmExact' /\ NativeExact' /\ ~freed'
    <3>1. t \in Processes /\ t \notin Natives /\ ~Queued(t) /\ ~freed' /\ UNCHANGED channel
      BY <2>2, <2>3, <2>7, ThreadsAssumption DEF Processes, TryP, Steppable
    <3>2. CASE value > 0
      <4>1. UNCHANGED <<queue, state>> /\ op' = [op EXCEPT ![t] = "other"]
        BY <2>7, <3>2, <1>0 DEF TryP, TypeOK
      <4>2. DistinctQueue' /\ \A x : Queued(x)' <=> Queued(x)
        BY <4>1, <2>6
      <4>3. NativeExact'
        BY <4>2, <3>1, <2>4 DEF NativeExact
      <4>4. VmExact'
        BY <4>1, <4>2, <3>1, <2>3, <1>0 DEF VmExact, TypeOK
      <4> QED BY <4>2, <4>3, <4>4, <3>1
    <3>3. CASE ~(value > 0)
      <4>1. /\ queue' = Append(queue, t)
            /\ state' = [state EXCEPT ![t] = "SUSPENDED"]
            /\ op' = [op EXCEPT ![t] = "semp"]
        BY <2>7, <3>3 DEF TryP
      <4>2. DistinctQueue' /\ \A x : Queued(x)' <=> Queued(x) \/ x = t
        BY <4>1, <3>1, <2>2, <1>0, AppendQueued, AppendDistinct DEF TypeOK
      <4>3. NativeExact'
        BY <4>2, <3>1, <2>4 DEF NativeExact
      <4>4. VmExact'
        BY <4>1, <4>2, <3>1, <2>3, <1>0 DEF VmExact, TypeOK
      <4> QED BY <4>2, <4>3, <4>4, <3>1
    <3> QED BY <3>2, <3>3
  <2>8. ASSUME NEW n \in Natives, NativeP(n)
        PROVE  DistinctQueue' /\ VmExact' /\ NativeExact' /\ ~freed'
    <3>1. /\ n \in Processes /\ n \notin VmThreads /\ ~Queued(n) /\ ~freed'
          /\ UNCHANGED <<state, op>>
      BY <2>2, <2>3, <2>8, ThreadsAssumption DEF Processes, NativeP
    <3>2. CASE UNCHANGED <<queue, channel>>
      BY <3>2, <3>1, <2>4, <2>6 DEF VmExact, NativeExact
    <3>3. CASE queue' = Append(queue, n) /\ channel' = [channel EXCEPT ![n] = "UNAVALIABLE"]
      <4>1. DistinctQueue' /\ \A x : Queued(x)' <=> Queued(x) \/ x = n
        BY <3>3, <3>1, <2>2, <1>0, AppendQueued, AppendDistinct DEF TypeOK
      <4>2. VmExact'
        BY <4>1, <3>1, <2>4 DEF VmExact
      <4>3. NativeExact'
        BY <4>1, <3>1, <3>3, <2>3, <1>0 DEF NativeExact, TypeOK
      <4> QED BY <4>1, <4>2, <4>3, <3>1
    <3> QED BY <2>8, <3>2, <3>3 DEF NativeP
  <2>9. ASSUME NEW n \in Natives, NativeTake(n)
        PROVE  DistinctQueue' /\ VmExact' /\ NativeExact' /\ ~freed'
    <3>1. /\ UNCHANGED <<queue, state, op>> /\ ~freed'
          /\ channel[n] = "AVALIABLE" /\ channel' = [channel EXCEPT ![n] = "none"]
      BY <2>9, <2>2 DEF NativeTake
    <3>2. DistinctQueue' /\ \A x : Queued(x)' <=> Queued(x)
      BY <3>1, <2>6
    <3>3. NativeExact'
      BY <3>1, <3>2, <2>3, <1>0 DEF NativeExact, TypeOK
    <3> QED BY <3>1, <3>2, <3>3, <2>4 DEF VmExact
  <2>10. ASSUME V PROVE DistinctQueue' /\ VmExact' /\ NativeExact' /\ ~freed'
    <3>1. CASE UNCHANGED <<queue, state, channel, freed>>
      BY <2>10, <3>1, <2>2, <2>4, <2>6 DEF V, VmExact, NativeExact
    <3>2. CASE ~UNCHANGED <<queue, state, channel, freed>>
      <4> DEFINE w == Head(queue)
      <4>1. queue # <<>> /\ queue' = Tail(queue) /\ UNCHANGED op
        BY <2>10, <3>2 DEF V
      <4>2. /\ Queued(w) /\ DistinctQueue'
            /\ \A x : Queued(x)' <=> Queued(x) /\ x # w
        BY <4>1, <2>2, <1>0, PopQueued DEF TypeOK
      <4> HIDE DEF w
      <4>3. \/ /\ w \in VmThreads
               /\ state' = [state EXCEPT ![w] = "NORMAL"]
               /\ freed' = (freed \/ op[w] = "exited")
               /\ UNCHANGED channel
            \/ /\ w \in Natives
               /\ channel' = [channel EXCEPT ![w] = "AVALIABLE"]
               /\ UNCHANGED <<state, freed>>
        BY <2>10, <3>2, <4>1 DEF V, w
      <4>4. CASE w \in VmThreads
        <5>1. w \notin Natives /\ op[w] = "semp"
          BY <4>2, <4>4, <2>3, ThreadsAssumption
        <5>2. /\ state' = [state EXCEPT ![w] = "NORMAL"]
              /\ freed' = (freed \/ op[w] = "exited")
              /\ UNCHANGED channel
          BY <4>3, <5>1
        <5>3. ~freed'
          BY <5>1, <5>2, <2>2
        <5>4. NativeExact'
          BY <4>2, <5>1, <5>2, <2>4 DEF NativeExact
        <5>5. VmExact'
          BY <4>1, <4>2, <4>4, <5>2, <2>3, <1>0 DEF VmExact, TypeOK
        <5> QED BY <4>2, <5>3, <5>4, <5>5
      <4>5. CASE w \in Natives
        <5>1. w \notin VmThreads
          BY <4>5, ThreadsAssumption
        <5>2. channel' = [channel EXCEPT ![w] = "AVALIABLE"] /\ UNCHANGED <<state, freed>>
          BY <4>3, <5>1
        <5>3. VmExact'
          BY <4>1, <4>2, <5>1, <5>2, <2>4 DEF VmExact
        <5>4. NativeExact'
          BY <4>2, <4>5, <5>2, <2>3, <1>0 DEF NativeExact, TypeOK
        <5> QED BY <4>2, <5>2, <5>3, <5>4, <2>2
      <4> QED BY <4>3, <4>4, <4>5
    <3> QED BY <3>1, <3>2
  <2>11. ASSUME NEW t \in VmThreads, Exit(t)
         PROVE  DistinctQueue' /\ VmExact' /\ NativeExact' /\ ~freed'
    <3>1. /\ UNCHANGED <<queue, state, channel>> /\ ~freed'
          /\ op[t] = "other" /\ op' = [op EXCEPT ![t] = "exited"]
      BY <2>11, <2>2 DEF Exit
    <3>2. DistinctQueue' /\ \A x : Queued(x)' <=> Queued(x)
      BY <3>1, <2>6
    <3>3. VmExact'
      BY <3>1, <3>2, <2>3, <1>0 DEF VmExact, TypeOK
    <3> QED BY <3>1, <3>2, <3>3, <2>4 DEF NativeExact
  <2>12. CASE UNCHANGED vars
    BY <2>12, <2>2, <2>4, <2>6 DEF vars, VmExact, NativeExact
  <2>13. ASSUME NEW t \in VmThreads, NEW u \in VmThreads, NEW s, SetState(t, u, s) PROVE FALSE
    BY <2>13, <1>2 DEF SetState
  <2> QED
    BY <2>7, <2>8, <2>9, <2>10, <2>11, <2>12, <2>13 DEF Next, SemV, NativeV
<1> QED BY <1>1, <1>2

(* In programs that do not suspend or resume threads by hand, the queue of *)
(* semaphore_list_try_p, _p and _v holds exactly the blocked waiters, each *)
(* once.                                                                   *)
THEOREM QueueExact == Spec => []QueueHoldsWaiters
<1>1. QueueInv => QueueHoldsWaiters
  BY DEF QueueInv
<1> QED BY <1>1, QueueInvInit, QueueInvStep, PTL DEF Spec

(* In such programs V wakes only threads that still exist. *)
THEOREM WakesLivingThreads == Spec => []NoWriteToDestroyed
<1>1. QueueInv => NoWriteToDestroyed
  BY DEF QueueInv
<1> QED BY <1>1, QueueInvInit, QueueInvStep, PTL DEF Spec

(* Queue, states and channels agree in every reachable state, and V never  *)
(* follows a pointer to a thread that is gone.                             *)
THEOREM StaysConsistent == Spec => []Consistent
<1>1. TypeOK /\ QueueHoldsWaiters /\ NoWriteToDestroyed => Consistent
  BY DEF Consistent
<1> QED BY <1>1, TypeCorrect, QueueExact, WakesLivingThreads, PTL

-----------------------------------------------------------------------------
(* Sets of waiters are finite, so counting them makes sense. *)
LEMMA WokenFinite ==
    /\ IsFiniteSet(WokenVm) /\ Cardinality(WokenVm) \in Nat
    /\ IsFiniteSet(WokenNatives) /\ Cardinality(WokenNatives) \in Nat
  BY ThreadsAssumption, FS_Subset, FS_CardinalityType DEF WokenVm, WokenNatives

(* A woken thread or host that consumes its wakeup leaves one less. *)
LEMMA RemoveOne ==
    ASSUME NEW S, IsFiniteSet(S), NEW x
    PROVE  Cardinality(S \ {x}) >= Cardinality(S) - 1
<1>1. Cardinality(S) \in Nat
  BY FS_CardinalityType
<1>2. CASE x \in S
  BY <1>1, <1>2, FS_RemoveElement
<1>3. CASE x \notin S
  <2>1. S \ {x} = S
    BY <1>3
  <2>2. Cardinality(S \ {x}) = Cardinality(S)
    BY <2>1
  <2> QED BY <2>2, <1>1
<1> QED BY <1>2, <1>3

WakeupInv == QueueInv /\ NoLostWakeup

(* Every operation keeps enough wakeups for the units that are free. *)
LEMMA WakeupStep == WakeupInv /\ [Next]_vars => NoLostWakeup'
<1> SUFFICES ASSUME WakeupInv, [Next]_vars, ~meddled', queue' # <<>>
             PROVE  value' <= Cardinality(WokenVm') + Cardinality(WokenNatives')
  BY DEF NoLostWakeup
<1>0. TypeOK /\ TypeOK' /\ QueueInv
  BY QueueInvStep DEF WakeupInv, QueueInv
<1>1. /\ value \in Int /\ value' \in Int /\ ~meddled
      /\ Cardinality(WokenVm) \in Nat /\ Cardinality(WokenNatives) \in Nat
      /\ Cardinality(WokenVm') \in Nat /\ Cardinality(WokenNatives') \in Nat
      /\ IsFiniteSet(WokenVm) /\ IsFiniteSet(WokenNatives)
  <2>1. value \in Int /\ value' \in Int
    BY <1>0 DEF TypeOK
  <2>2. ~meddled
    BY <1>0 DEF Next, TryP, V, SemV, NativeV, Exit, SetState, NativeP, NativeTake, vars
  <2>3. Cardinality(WokenVm') \in Nat /\ Cardinality(WokenNatives') \in Nat
    BY ThreadsAssumption, FS_Subset, FS_CardinalityType DEF WokenVm, WokenNatives
  <2> QED BY <2>1, <2>2, <2>3, WokenFinite
<1>2. queue # <<>> => value <= Cardinality(WokenVm) + Cardinality(WokenNatives)
  BY <1>1 DEF WakeupInv, NoLostWakeup
<1>3. CASE value' <= 0
  BY <1>1, <1>3
<1>4. ASSUME NEW t \in VmThreads, TryP(t), value > 0
      PROVE  value' <= Cardinality(WokenVm') + Cardinality(WokenNatives')
  <2>1. /\ UNCHANGED <<queue, state, channel>> /\ op' = [op EXCEPT ![t] = "other"]
        /\ value' = value - 1 /\ state[t] = "NORMAL"
    BY <1>4, <1>1 DEF TryP, Steppable
  <2>2. WokenVm' = WokenVm \ {t} /\ WokenNatives' = WokenNatives
    BY <2>1, <1>0 DEF WokenVm, WokenNatives, TypeOK
  <2>3. Cardinality(WokenVm') >= Cardinality(WokenVm) - 1
    BY <2>2, <1>1, RemoveOne
  <2>4. Cardinality(WokenNatives') = Cardinality(WokenNatives)
    BY <2>2
  <2> QED BY <2>1, <2>3, <2>4, <1>1, <1>2
<1>5. ASSUME NEW n \in Natives, NativeTake(n)
      PROVE  value' <= Cardinality(WokenVm') + Cardinality(WokenNatives')
  <2>1. /\ UNCHANGED <<queue, state, op>> /\ channel' = [channel EXCEPT ![n] = "none"]
        /\ value' = value - 1
    BY <1>5 DEF NativeTake
  <2>2. WokenVm' = WokenVm /\ WokenNatives' = WokenNatives \ {n}
    BY <2>1, <1>0 DEF WokenVm, WokenNatives, TypeOK
  <2>3. Cardinality(WokenNatives') >= Cardinality(WokenNatives) - 1
    BY <2>2, <1>1, RemoveOne
  <2>4. Cardinality(WokenVm') = Cardinality(WokenVm)
    BY <2>2
  <2> QED BY <2>1, <2>3, <2>4, <1>1, <1>2
<1>6. ASSUME NEW n \in Natives, NativeP(n), value > 0
      PROVE  value' <= Cardinality(WokenVm') + Cardinality(WokenNatives')
  <2>1. UNCHANGED <<queue, state, op, channel>> /\ value' = value - 1
    BY <1>6, <1>1 DEF NativeP
  <2>2. WokenVm' = WokenVm /\ WokenNatives' = WokenNatives
    BY <2>1 DEF WokenVm, WokenNatives
  <2>3. /\ Cardinality(WokenVm') = Cardinality(WokenVm)
        /\ Cardinality(WokenNatives') = Cardinality(WokenNatives)
    BY <2>2
  <2> QED BY <2>1, <2>3, <1>1, <1>2
<1>7. ASSUME V, value' > 0
      PROVE  value' <= Cardinality(WokenVm') + Cardinality(WokenNatives')
  <2> DEFINE w == Head(queue)
  <2>1. queue # <<>> /\ queue' = Tail(queue) /\ UNCHANGED op /\ value' = value + 1
    BY <1>7 DEF V
  <2>2. Queued(w)
    <3>1. DistinctQueue
      BY <1>0, <1>1 DEF QueueInv, QueueHoldsWaiters, DistinctQueue
    <3> QED BY <2>1, <3>1, <1>0, PopQueued DEF TypeOK
  <2>3. \/ /\ w \in VmThreads
           /\ state' = [state EXCEPT ![w] = "NORMAL"]
           /\ UNCHANGED channel
        \/ /\ w \in Natives
           /\ channel' = [channel EXCEPT ![w] = "AVALIABLE"]
           /\ UNCHANGED state
    BY <1>7, <2>1 DEF V
  <2> HIDE DEF w
  <2>4. CASE w \in VmThreads
    <3>1. op[w] = "semp" /\ state[w] = "SUSPENDED" /\ w \notin Natives
      BY <2>2, <2>4, <1>0, <1>1, ThreadsAssumption DEF QueueInv, QueueHoldsWaiters
    <3>2. /\ w \notin WokenVm /\ WokenVm' = WokenVm \union {w}
          /\ WokenNatives' = WokenNatives
      BY <2>1, <2>3, <2>4, <3>1, <1>0 DEF WokenVm, WokenNatives, TypeOK
    <3>3. Cardinality(WokenVm') = Cardinality(WokenVm) + 1
      BY <3>2, <1>1, FS_AddElement
    <3>4. Cardinality(WokenNatives') = Cardinality(WokenNatives)
      BY <3>2
    <3> QED BY <3>3, <3>4, <2>1, <1>1, <1>2
  <2>5. CASE w \in Natives
    <3>1. channel[w] = "UNAVALIABLE" /\ w \notin VmThreads
      BY <2>2, <2>5, <1>0, <1>1, ThreadsAssumption DEF QueueInv, QueueHoldsWaiters
    <3>2. /\ w \notin WokenNatives /\ WokenNatives' = WokenNatives \union {w}
          /\ WokenVm' = WokenVm
      BY <2>1, <2>3, <2>5, <3>1, <1>0 DEF WokenVm, WokenNatives, TypeOK
    <3>3. Cardinality(WokenNatives') = Cardinality(WokenNatives) + 1
      BY <3>2, <1>1, FS_AddElement
    <3>4. Cardinality(WokenVm') = Cardinality(WokenVm)
      BY <3>2
    <3> QED BY <3>3, <3>4, <2>1, <1>1, <1>2
  <2> QED BY <2>3, <2>4, <2>5
<1>8. ASSUME NEW t \in VmThreads, Exit(t)
      PROVE  value' <= Cardinality(WokenVm') + Cardinality(WokenNatives')
  <2>1. /\ UNCHANGED <<queue, state, channel, value>>
        /\ op[t] = "other" /\ op' = [op EXCEPT ![t] = "exited"]
    BY <1>8 DEF Exit
  <2>2. WokenVm' = WokenVm /\ WokenNatives' = WokenNatives
    BY <2>1, <1>0 DEF WokenVm, WokenNatives, TypeOK
  <2>3. /\ Cardinality(WokenVm') = Cardinality(WokenVm)
        /\ Cardinality(WokenNatives') = Cardinality(WokenNatives)
    BY <2>2
  <2> QED BY <2>1, <2>3, <1>1, <1>2
<1>9. CASE UNCHANGED vars
  <2>1. WokenVm' = WokenVm /\ WokenNatives' = WokenNatives
    BY <1>9 DEF WokenVm, WokenNatives, vars
  <2>2. /\ Cardinality(WokenVm') = Cardinality(WokenVm)
        /\ Cardinality(WokenNatives') = Cardinality(WokenNatives)
    BY <2>1
  <2> QED BY <1>9, <2>2, <1>1, <1>2 DEF vars
<1>10. ASSUME NEW t \in VmThreads, NEW u \in VmThreads, NEW s, SetState(t, u, s) PROVE FALSE
  BY <1>10 DEF SetState
<1>11. ASSUME NEW t \in VmThreads, TryP(t), ~(value > 0)
       PROVE  value' <= Cardinality(WokenVm') + Cardinality(WokenNatives')
  BY <1>11, <1>1, <1>3 DEF TryP
<1>12. ASSUME NEW n \in Natives, NativeP(n), ~(value > 0)
       PROVE  value' <= Cardinality(WokenVm') + Cardinality(WokenNatives')
  BY <1>12, <1>1, <1>3 DEF NativeP
<1> QED
  BY <1>1, <1>3, <1>4, <1>5, <1>6, <1>7, <1>8, <1>9, <1>10, <1>11, <1>12
  DEF Next, SemV, NativeV

(* No wakeup is lost: while somebody is queued, every unit has a woken     *)
(* waiter that comes for it (semaphore_list_v pops one waiter per unit).   *)
THEOREM WakeupsAreNotLost == Spec => []NoLostWakeup
<1>1. Init => NoLostWakeup
  BY DEF Init, NoLostWakeup
<1>2. Init => WakeupInv
  BY <1>1, QueueInvInit DEF WakeupInv
<1>3. WakeupInv /\ [Next]_vars => WakeupInv'
  BY WakeupStep, QueueInvStep DEF WakeupInv
<1>4. WakeupInv => NoLostWakeup
  BY DEF WakeupInv
<1> QED BY <1>2, <1>3, <1>4, PTL DEF Spec

-----------------------------------------------------------------------------
(* Used by VM threads alone, the semaphore keeps the promise of            *)
(* CountingSemaphore: each step of the code is a step of the abstract      *)
(* semaphore or none (safety; fairness is left to the model checker).      *)
THEOREM KeepsPromise ==
    ASSUME Natives = {}
    PROVE  Spec => Promise!Init /\ [][Promise!Next]_(Promise!absVars)
<1> DEFINE waiters == {t \in VmThreads : op[t] = "semp"}
                         \union {n \in Natives : channel[n] # "none"}
<1>1. Init => Promise!Init
  BY DEF Init, Promise!Init
<1>2. TypeOK /\ [Next]_vars => [Promise!Next]_(Promise!absVars)
  <2> SUFFICES ASSUME TypeOK, [Next]_vars PROVE [Promise!Next]_(Promise!absVars)
    OBVIOUS
  <2>1. ASSUME NEW t \in VmThreads, TryP(t) PROVE Promise!Next
    <3>1. t \in Processes
      BY DEF Processes
    <3>2. CASE value > 0
      <4>1. value' = value - 1 /\ op' = [op EXCEPT ![t] = "other"] /\ UNCHANGED channel
        BY <2>1, <3>2 DEF TryP, TypeOK
      <4>2. waiters' = waiters \ {t}
        BY <4>1 DEF TypeOK
      <4>3. Promise!Take(t)
        BY <3>2, <4>1, <4>2 DEF Promise!Take
      <4> QED BY <3>1, <4>3 DEF Promise!Next
    <3>3. CASE ~(value > 0)
      <4>1. value <= 0 /\ value' = value /\ op' = [op EXCEPT ![t] = "semp"]
            /\ UNCHANGED channel
        BY <2>1, <3>3 DEF TryP
      <4>2. waiters' = waiters \union {t}
        BY <4>1 DEF TypeOK
      <4>3. Promise!Wait(t)
        BY <4>1, <4>2 DEF Promise!Wait
      <4> QED BY <3>1, <4>3 DEF Promise!Next
    <3> QED BY <3>2, <3>3
  <2>2. ASSUME V PROVE Promise!Next
    <3>1. value' = value + 1 /\ waiters' = waiters
      BY <2>2 DEF V
    <3>2. Promise!Give
      BY <3>1 DEF Promise!Give
    <3> QED BY <3>2 DEF Promise!Next
  <2>3. ASSUME NEW t \in VmThreads, Exit(t) PROVE UNCHANGED Promise!absVars
    BY <2>3 DEF Exit, Promise!absVars, TypeOK
  <2>4. ASSUME NEW t \in VmThreads, NEW u \in VmThreads, NEW s, SetState(t, u, s)
        PROVE  UNCHANGED Promise!absVars
    BY <2>4 DEF SetState, Promise!absVars
  <2>5. CASE UNCHANGED vars
    BY <2>5 DEF vars, Promise!absVars
  <2> QED BY <2>1, <2>2, <2>3, <2>4, <2>5 DEF Next, SemV, NativeV
<1> QED BY <1>1, <1>2, TypeCorrect, PTL DEF Spec
-----------------------------------------------------------------------------
(* Receiving moves the first message of the list behind what has been      *)
(* received: the whole is the same sequence.                               *)
LEMMA ReceiveKeepsOrder ==
    ASSUME NEW r \in Seq(Nat), NEW m \in Seq(Nat), m # <<>>
    PROVE  /\ Head(m) \in Nat /\ Tail(m) \in Seq(Nat)
           /\ Len(Tail(m)) = Len(m) - 1 /\ Len(m) \in Nat /\ Len(m) > 0
           /\ Append(r, Head(m)) \o Tail(m) = r \o m
<1>1. /\ Head(m) \in Nat /\ Tail(m) \in Seq(Nat)
      /\ Len(Tail(m)) = Len(m) - 1 /\ Len(m) \in Nat /\ Len(m) > 0
  BY EmptySeq, HeadTailProperties
<1>2. <<Head(m)>> \in Seq(Nat)
  BY <1>1
<1>3. m = <<Head(m)>> \o Tail(m)
  <2> DEFINE s == <<Head(m)>> \o Tail(m)
  <2>1. s \in Seq(Nat) /\ Len(s) = Len(m)
    BY <1>1, <1>2, ConcatProperties
  <2>2. \A i \in 1 .. Len(m) : s[i] = m[i]
    BY <1>1, <1>2, HeadTailProperties, ConcatProperties
  <2> QED BY <2>1, <2>2, SeqEqual
<1>4. Append(r, Head(m)) = r \o <<Head(m)>>
  BY <1>1, AppendIsConcat
<1>5. (r \o <<Head(m)>>) \o Tail(m) = r \o (<<Head(m)>> \o Tail(m))
  BY <1>1, <1>2, ConcatAssociative
<1>6. Append(r, Head(m)) \o Tail(m) = r \o m
  BY <1>3, <1>4, <1>5
<1> QED BY <1>1, <1>6

(* Sending appends to the list and to the history alike. *)
LEMMA SendKeepsOrder ==
    ASSUME NEW r \in Seq(Nat), NEW m \in Seq(Nat), NEW n \in Nat
    PROVE  /\ Append(m, n) \in Seq(Nat) /\ Len(Append(m, n)) = Len(m) + 1
           /\ r \o Append(m, n) = Append(r \o m, n)
<1>1. Append(m, n) \in Seq(Nat) /\ Len(Append(m, n)) = Len(m) + 1
  BY AppendProperties
<1>2. <<n>> \in Seq(Nat) /\ r \o m \in Seq(Nat)
  BY ConcatProperties
<1>3. Append(m, n) = m \o <<n>> /\ Append(r \o m, n) = (r \o m) \o <<n>>
  BY <1>2, AppendIsConcat
<1> QED BY <1>1, <1>2, <1>3, ConcatAssociative

(* A counter below the number of values of its word does not wrap. *)
LEMMA NoWrap ==
    ASSUME NEW w \in Nat, NEW n \in 0 .. w - 1
    PROVE  n % w = n
  OBVIOUS

(* A counter stays a value of its word. *)
LEMMA Wraps ==
    ASSUME NEW w \in Nat, w > 0, NEW n \in Int
    PROVE  n % w \in 0 .. w - 1
  OBVIOUS

-----------------------------------------------------------------------------
(* Type correctness holds at the start. *)
LEMMA BoxTypeInit == BoxInit => BoxTypeOK
<1> SUFFICES ASSUME BoxInit PROVE BoxTypeOK
  OBVIOUS
<1>1. alive \subseteq Threads /\ unborn \subseteq Threads \ alive /\ sends \in 0 .. MaxSends
  BY MailboxAssumption DEF BoxInit
<1>2. <<>> \in Seq(Nat) /\ 0 \in 0 .. Word - 1
  BY EmptySeq, MailboxAssumption
<1> QED BY <1>1, <1>2 DEF BoxInit, BoxTypeOK

(* Every instruction keeps type correctness. *)
LEMMA BoxTypeStep == BoxTypeOK /\ [BoxNext]_boxVars => BoxTypeOK'
<1> SUFFICES ASSUME BoxTypeOK, [BoxNext]_boxVars PROVE BoxTypeOK'
  OBVIOUS
<1> USE DEF BoxTypeOK, threadVars, history
<1>1. CASE UNCHANGED boxVars
  BY <1>1 DEF boxVars
<1>2. ASSUME NEW t \in Threads, NEW u \in Threads, Fork(t, u) PROVE BoxTypeOK'
  BY <1>2 DEF Fork
<1>3. ASSUME NEW t \in Threads, BoxExit(t) PROVE BoxTypeOK'
  <2>1. <<>> \in Seq(Nat)
    BY EmptySeq
  <2> QED BY <1>3, <2>1 DEF BoxExit
<1>4. ASSUME NEW t \in Threads, NEW u \in Threads, Send(t, u) PROVE BoxTypeOK'
  <2>1. CASE u \notin alive
    BY <1>4, <2>1 DEF Send
  <2>2. CASE u \in alive
    <3>0. sends' = sends + 1 /\ sends < MaxSends
      BY <1>4, <2>2 DEF Send
    <3>1. sends \in Nat /\ sends' \in 0 .. MaxSends
      BY <3>0, MailboxAssumption
    <3>2. Append(messages[u], sends) \in Seq(Nat) /\ Append(sent[u], sends) \in Seq(Nat)
      BY <3>1, AppendProperties
    <3>3. messages' \in [Threads -> Seq(Nat)] /\ sent' \in [Threads -> Seq(Nat)]
      <4>1. /\ messages' = [messages EXCEPT ![u] = Append(@, sends)]
            /\ sent' = [sent EXCEPT ![u] = Append(@, sends)]
        BY <1>4, <2>2 DEF Send
      <4>2. messages \in [Threads -> Seq(Nat)] /\ sent \in [Threads -> Seq(Nat)]
        OBVIOUS
      <4> HIDE DEF BoxTypeOK
      <4>3. messages' \in [Threads -> Seq(Nat)]
        BY <3>2, <4>1, <4>2
      <4>4. sent' \in [Threads -> Seq(Nat)]
        BY <3>2, <4>1, <4>2
      <4> QED BY <4>3, <4>4
    <3>4. (size[u] + 1) % Word \in 0 .. Word - 1
      <4>1. size[u] \in 0 .. Word - 1
        BY <1>4
      <4>2. size[u] + 1 \in Int /\ Word \in Nat /\ Word > 0
        BY <4>1, MailboxAssumption
      <4> QED BY <4>2, Wraps
    <3>5. size' \in [Threads -> 0 .. Word - 1]
      BY <1>4, <2>2, <3>4 DEF Send
    <3> QED BY <1>4, <2>2, <3>1, <3>3, <3>5 DEF Send
  <2> QED BY <2>1, <2>2
<1>5. ASSUME NEW t \in Threads, Receive(t) PROVE BoxTypeOK'
  <2>1. (size[t] - 1) % Word \in 0 .. Word - 1
    <3>1. size[t] \in 0 .. Word - 1
      BY <1>5
    <3>2. size[t] - 1 \in Int /\ Word \in Nat /\ Word > 0
      BY <3>1, MailboxAssumption
    <3> QED BY <3>2, Wraps
  <2>2. size' \in [Threads -> 0 .. Word - 1]
    BY <1>5, <2>1 DEF Receive
  <2>3. messages' \in [Threads -> Seq(Nat)] /\ received' \in [Threads -> Seq(Nat)]
    <3>1. CASE messages[t] = <<>>
      BY <1>5, <3>1 DEF Receive
    <3>2. CASE messages[t] # <<>>
      <4>1. Head(messages[t]) \in Nat /\ Tail(messages[t]) \in Seq(Nat)
        BY <3>2, EmptySeq, ReceiveKeepsOrder
      <4>2. Append(received[t], Head(messages[t])) \in Seq(Nat)
        BY <4>1
      <4> QED BY <1>5, <3>2, <4>1, <4>2 DEF Receive
    <3> QED BY <3>1, <3>2
  <2> QED BY <1>5, <2>2, <2>3 DEF Receive
<1>6. ASSUME NEW t \in Threads, IsEmpty(t) PROVE BoxTypeOK'
  BY <1>6 DEF IsEmpty
<1> QED BY <1>1, <1>2, <1>3, <1>4, <1>5, <1>6 DEF BoxNext

(* The boxes of Mailbox.tla hold numbers, their counters are machine words. *)
THEOREM BoxTypeCorrect == BoxSpec => []BoxTypeOK
  BY BoxTypeInit, BoxTypeStep, PTL DEF BoxSpec

-----------------------------------------------------------------------------
(* The invariant: the box of a thread that is not yet forked is untouched, *)
(* so that the clone starts with an empty one.                             *)
UnbornUntouched ==
    \A t \in unborn : messages[t] = <<>> /\ sent[t] = <<>> /\ received[t] = <<>>

OrderInv == BoxTypeOK /\ UnbornUntouched /\ MessagesInOrder

(* The order of messages holds at the start. *)
LEMMA OrderInit == BoxInit => OrderInv
<1> SUFFICES ASSUME BoxInit PROVE OrderInv
  OBVIOUS
<1>1. BoxTypeOK
  BY BoxTypeInit
<1>2. UnbornUntouched
  BY <1>1 DEF BoxInit, UnbornUntouched, BoxTypeOK
<1>3. ASSUME NEW t \in alive PROVE received[t] \o messages[t] = sent[t]
  BY <1>3, <1>1, ConcatEmptySeq DEF BoxInit, BoxTypeOK
<1> QED BY <1>1, <1>2, <1>3 DEF OrderInv, MessagesInOrder

(* Every instruction keeps the order of messages. *)
LEMMA OrderStep == OrderInv /\ [BoxNext]_boxVars => OrderInv'
<1> SUFFICES ASSUME OrderInv, [BoxNext]_boxVars PROVE OrderInv'
  OBVIOUS
<1> USE DEF OrderInv
<1>0. BoxTypeOK'
  BY BoxTypeStep
<1> SUFFICES UnbornUntouched' /\ MessagesInOrder'
  BY <1>0
<1> USE DEF UnbornUntouched, MessagesInOrder, threadVars, history
<1>1. CASE UNCHANGED boxVars
  BY <1>1 DEF boxVars
<1>2. ASSUME NEW t \in Threads, NEW u \in Threads, Fork(t, u)
      PROVE  UnbornUntouched' /\ MessagesInOrder'
  <2>1. received[u] \o messages[u] = sent[u]
    BY <1>2, ConcatEmptySeq DEF Fork, BoxTypeOK
  <2> QED BY <1>2, <2>1 DEF Fork
<1>3. ASSUME NEW t \in Threads, BoxExit(t) PROVE UnbornUntouched' /\ MessagesInOrder'
  BY <1>3 DEF BoxExit, BoxTypeOK
<1>4. ASSUME NEW t \in Threads, NEW u \in Threads, Send(t, u)
      PROVE  UnbornUntouched' /\ MessagesInOrder'
  <2>1. CASE u \notin alive
    BY <1>4, <2>1 DEF Send
  <2>2. CASE u \in alive
    <3>1. sends \in Nat /\ received[u] \in Seq(Nat) /\ messages[u] \in Seq(Nat)
      BY <1>4, MailboxAssumption DEF BoxTypeOK
    <3>2. received[u] \o Append(messages[u], sends) = Append(received[u] \o messages[u], sends)
      BY <3>1, SendKeepsOrder
    <3>3. u \notin unborn
      BY <2>2 DEF BoxTypeOK
    <3> QED BY <1>4, <2>2, <3>2, <3>3 DEF Send, BoxTypeOK
  <2> QED BY <2>1, <2>2
<1>5. ASSUME NEW t \in Threads, Receive(t) PROVE UnbornUntouched' /\ MessagesInOrder'
  <2>1. CASE messages[t] = <<>>
    BY <1>5, <2>1 DEF Receive
  <2>2. CASE messages[t] # <<>>
    <3>1. Append(received[t], Head(messages[t])) \o Tail(messages[t])
            = received[t] \o messages[t]
      BY <2>2, ReceiveKeepsOrder DEF BoxTypeOK
    <3>2. t \notin unborn
      BY <1>5 DEF Receive, Executes, BoxTypeOK
    <3> QED BY <1>5, <2>2, <3>1, <3>2 DEF Receive, BoxTypeOK
  <2> QED BY <2>1, <2>2
<1>6. ASSUME NEW t \in Threads, IsEmpty(t) PROVE UnbornUntouched' /\ MessagesInOrder'
  BY <1>6 DEF IsEmpty
<1> QED BY <1>1, <1>2, <1>3, <1>4, <1>5, <1>6 DEF BoxNext

(* No message is lost, duplicated or reordered on its way from TSENDMSG to *)
(* TRECVMSG, for any number of threads and messages.                       *)
THEOREM MessagesArriveInOrder == BoxSpec => []MessagesInOrder
<1>1. OrderInv => MessagesInOrder
  BY DEF OrderInv
<1> QED BY <1>1, OrderInit, OrderStep, PTL DEF BoxSpec

-----------------------------------------------------------------------------
(* For a thread that asks before it receives: the counter is the length of *)
(* the list, which is at most the number of messages sent, and an answer   *)
(* "no" means that the list is not empty.                                  *)
BoxInv(t) ==
    /\ size[t] = Len(messages[t])
    /\ Len(messages[t]) <= sends
    /\ answer[t] = "no" => messages[t] # <<>>

CountInv ==
    /\ BoxTypeOK
    /\ \A t \in alive \intersect Askers : BoxInv(t)
    /\ \A t \in unborn : messages[t] = <<>> /\ size[t] = 0 /\ answer[t] = "unknown"

(* The invariant of the counters holds at the start. *)
LEMMA CountInit == BoxInit => CountInv
<1> SUFFICES ASSUME BoxInit PROVE CountInv
  OBVIOUS
<1>1. BoxTypeOK
  BY BoxTypeInit
<1>2. Len(<<>>) = 0
  OBVIOUS
<1> QED BY <1>1, <1>2, MailboxAssumption DEF BoxInit, CountInv, BoxInv, BoxTypeOK

(* Every instruction keeps the invariant of the counters: what a thread    *)
(* that does not ask does to its own box is of no concern to the others.   *)
LEMMA CountStep == CountInv /\ [BoxNext]_boxVars => CountInv'
<1> SUFFICES ASSUME CountInv, [BoxNext]_boxVars PROVE CountInv'
  OBVIOUS
<1>0. BoxTypeOK /\ BoxTypeOK'
  BY BoxTypeStep DEF CountInv
<1>z. sends \in Nat /\ sends <= MaxSends /\ \A x \in Threads : Len(messages[x]) \in Nat
  BY <1>0, MailboxAssumption, LenProperties DEF BoxTypeOK
<1> DEFINE Goal == /\ \A x \in alive' \intersect Askers : BoxInv(x)'
                   /\ \A x \in unborn' : /\ messages'[x] = <<>> /\ size'[x] = 0
                                         /\ answer'[x] = "unknown"
<1> SUFFICES Goal
  BY <1>0 DEF CountInv
<1>1. CASE UNCHANGED boxVars
  BY <1>1 DEF boxVars, threadVars, history, CountInv, BoxInv
<1>2. ASSUME NEW t \in Threads, NEW u \in Threads, Fork(t, u) PROVE Goal
  <2>1. Len(messages[u]) = 0 /\ size[u] = 0 /\ answer[u] # "no"
    BY <1>2 DEF Fork, CountInv
  <2> QED BY <1>2, <2>1, <1>z DEF Fork, CountInv, BoxInv, history, threadVars
<1>3. ASSUME NEW t \in Threads, BoxExit(t) PROVE Goal
  <2>1. \A x \in Threads : x # t => messages'[x] = messages[x]
    BY <1>3, <1>0 DEF BoxExit, BoxTypeOK
  <2>2. t \notin unborn
    BY <1>3, <1>0 DEF BoxExit, Executes, BoxTypeOK
  <2> QED BY <1>3, <1>0, <2>1, <2>2 DEF BoxExit, CountInv, BoxInv, history, BoxTypeOK
<1>4. ASSUME NEW t \in Threads, NEW u \in Threads, Send(t, u) PROVE Goal
  <2>1. CASE u \notin alive
    BY <1>4, <2>1 DEF Send, CountInv, BoxInv, history
  <2>2. CASE u \in alive
    <3>1. \A x \in Threads : x # u => messages'[x] = messages[x] /\ size'[x] = size[x]
      BY <1>4, <1>0, <2>2 DEF Send, BoxTypeOK
    <3>2. sends' = sends + 1 /\ answer' = answer /\ alive' = alive /\ unborn' = unborn
      BY <1>4, <2>2 DEF Send, threadVars
    <3>3. Len(messages'[u]) = Len(messages[u]) + 1 /\ messages'[u] # <<>>
      <4>1. messages'[u] = Append(messages[u], sends) /\ messages[u] \in Seq(Nat)
        BY <1>4, <1>0, <2>2 DEF Send, BoxTypeOK
      <4>2. Len(messages'[u]) = Len(messages[u]) + 1
        BY <4>1, <1>z, AppendProperties
      <4> QED BY <4>2, <1>z
    <3>4. u \in Askers => size[u] = Len(messages[u]) /\ Len(messages[u]) <= sends
      BY <2>2 DEF CountInv, BoxInv
    <3>5. size'[u] = (size[u] + 1) % Word
      BY <1>4, <1>0, <2>2 DEF Send, BoxTypeOK
    <3>6. sends < MaxSends
      BY <1>4 DEF Send
    <3>7. u \in Askers => size[u] + 1 \in 0 .. Word - 1
      BY <3>4, <3>6, <1>z, MailboxAssumption
    <3>8. u \in Askers => size'[u] = Len(messages'[u]) /\ Len(messages'[u]) <= sends'
      <4>0. SUFFICES ASSUME u \in Askers
                     PROVE  size'[u] = Len(messages'[u]) /\ Len(messages'[u]) <= sends'
        OBVIOUS
      <4>1. (size[u] + 1) % Word = size[u] + 1
        BY <4>0, <3>7, MailboxAssumption, NoWrap
      <4>2. Len(messages[u]) \in Nat
        BY <1>4, <1>z
      <4> QED BY <4>0, <3>2, <3>3, <3>4, <3>5, <4>1, <4>2, <1>z
    <3>9. ASSUME NEW x \in alive \intersect Askers, x # u PROVE BoxInv(x)'
      <4>1. x \in Threads /\ BoxInv(x)
        BY <1>0, <3>9 DEF CountInv, BoxTypeOK
      <4>2. messages'[x] = messages[x] /\ size'[x] = size[x]
        BY <3>1, <3>9, <4>1
      <4>3. Len(messages[x]) <= sends + 1
        BY <4>1, <1>z DEF BoxInv
      <4> QED BY <4>1, <4>2, <4>3, <3>2 DEF BoxInv
    <3>10. u \in Askers => BoxInv(u)'
      BY <3>3, <3>8 DEF BoxInv
    <3>11. u \notin unborn
      BY <2>2, <1>0 DEF BoxTypeOK
    <3>12. \A x \in unborn : messages'[x] = <<>> /\ size'[x] = 0 /\ answer'[x] = "unknown"
      BY <3>1, <3>2, <3>11, <1>0 DEF CountInv, BoxTypeOK
    <3> QED BY <3>2, <3>9, <3>10, <3>12
  <2> QED BY <2>1, <2>2
<1>5. ASSUME NEW t \in Threads, Receive(t) PROVE Goal
  <2>1. t \in alive /\ t \notin unborn
    BY <1>5, <1>0 DEF Receive, Executes, BoxTypeOK
  <2>2. sends' = sends /\ alive' = alive /\ unborn' = unborn
    BY <1>5 DEF Receive, threadVars
  <2>3. \A x \in Threads : x # t => /\ messages'[x] = messages[x]
                                    /\ size'[x] = size[x] /\ answer'[x] = answer[x]
    BY <1>5, <1>0 DEF Receive, BoxTypeOK
  <2>4. t \in Askers => BoxInv(t)'
    <3>0. SUFFICES ASSUME t \in Askers PROVE BoxInv(t)'
      OBVIOUS
    <3>1. messages[t] # <<>> /\ size[t] = Len(messages[t]) /\ Len(messages[t]) <= sends
      BY <3>0, <2>1, <1>5 DEF CountInv, BoxInv, Receive
    <3>2. Len(Tail(messages[t])) = Len(messages[t]) - 1 /\ Len(messages[t]) > 0
      BY <1>0, <3>1, EmptySeq, ReceiveKeepsOrder DEF BoxTypeOK
    <3>3. messages'[t] = Tail(messages[t]) /\ size'[t] = (size[t] - 1) % Word
          /\ answer'[t] = "unknown"
      BY <1>5, <1>0, <3>1 DEF Receive, BoxTypeOK
    <3>4. size[t] - 1 \in 0 .. Word - 1
      BY <3>1, <3>2, <1>z, MailboxAssumption
    <3>5. size'[t] = Len(messages'[t]) /\ Len(messages'[t]) <= sends
      <4>1. (size[t] - 1) % Word = size[t] - 1
        BY <3>4, MailboxAssumption, NoWrap
      <4> QED BY <3>1, <3>2, <3>3, <4>1, <1>z
    <3> QED BY <2>2, <3>3, <3>5 DEF BoxInv
  <2>5. \A x \in alive \intersect Askers : x # t => BoxInv(x)'
    BY <2>2, <2>3, <1>0 DEF CountInv, BoxInv, BoxTypeOK
  <2>6. \A x \in unborn : messages'[x] = <<>> /\ size'[x] = 0 /\ answer'[x] = "unknown"
    BY <2>1, <2>3, <1>0 DEF CountInv, BoxTypeOK
  <2> QED BY <2>2, <2>4, <2>5, <2>6
<1>6. ASSUME NEW t \in Threads, IsEmpty(t) PROVE Goal
  <2>1. t \in alive /\ t \notin unborn
    BY <1>6, <1>0 DEF IsEmpty, Executes, BoxTypeOK
  <2>2. t \in Askers /\ size[t] # 0 => messages[t] # <<>>
    <3>1. Len(<<>>) = 0
      OBVIOUS
    <3> QED BY <2>1, <3>1 DEF CountInv, BoxInv
  <2>3. answer' = [answer EXCEPT ![t] = IF size[t] = 0 THEN "yes" ELSE "no"]
    BY <1>6 DEF IsEmpty
  <2>4. UNCHANGED <<alive, unborn, messages, size, sends>>
    BY <1>6 DEF IsEmpty, threadVars, history
  <2> QED BY <2>1, <2>2, <2>3, <2>4, <1>0 DEF CountInv, BoxInv, BoxTypeOK
<1> QED BY <1>1, <1>2, <1>3, <1>4, <1>5, <1>6 DEF BoxNext

(* A thread that asks TISEMPTY before each TRECVMSG can rely on the answer *)
(* "no", whatever other threads do in between.                             *)
THEOREM AskingIsEnough == BoxSpec => []ToldMessageIsThere
<1>1. CountInv => ToldMessageIsThere
  BY DEF CountInv, BoxInv, ToldMessageIsThere
<1> QED BY <1>1, CountInit, CountStep, PTL DEF BoxSpec

(* The counter of such a thread never leaves the length of the list. *)
THEOREM CounterIsExact == BoxSpec => []SizeIsExact
<1>1. CountInv => SizeIsExact
  BY DEF CountInv, BoxInv, SizeIsExact
<1> QED BY <1>1, CountInit, CountStep, PTL DEF BoxSpec

(* The answer of TISEMPTY and the counter behind it, together.             *)
THEOREM CounterIsTrue == BoxSpec => []CounterTellsTruth
<1>1. ToldMessageIsThere /\ SizeIsExact => CounterTellsTruth
  BY DEF CounterTellsTruth
<1> QED BY <1>1, AskingIsEnough, CounterIsExact, PTL

(* Boxes of the declared types hand on what was sent, in order.            *)
THEOREM BoxesStayConsistent == BoxSpec => []BoxesConsistent
<1>1. BoxTypeOK /\ MessagesInOrder => BoxesConsistent
  BY DEF BoxesConsistent
<1> QED BY <1>1, BoxTypeCorrect, MessagesArriveInOrder, PTL
=============================================================================
