------------------------ MODULE MessageQueue_proofs ------------------------
(***************************************************************************)
(* Proofs about MessageQueue, for every set of messages and every capacity.*)
(* The inductive invariant adds to the checked invariants what the reader  *)
(* of the code keeps in mind: the hand is full exactly while the callback  *)
(* runs, the worker does not exist before the constructor makes it and is  *)
(* gone once the destructor has joined it, and a call counts as accepted   *)
(* exactly when its message is in the line.                                *)
(***************************************************************************)
EXTENDS MessageQueue, SequenceTheorems, TLAPS

HandInv == hand = <<>> \/ (worker = "executing" /\ \E m \in Messages : hand = <<m>>)

ExecutingInv == worker = "executing" => hand # <<>>

LifeInv == /\ ctor = "new" => worker = "none"
           /\ dtor # "no" => ctor = "done" /\ ~running
           /\ dtor = "done" => worker \in {"none", "exited"}
           /\ \A m \in Messages : call[m] # "idle" => ctor = "done"

CallInv == \A i \in 1 .. Len(accepted) : call[accepted[i]] = "accepted"

WokenInv == worker = "woken" => ctor = "done" /\ (queue # <<>> \/ ~running)

IInv == /\ TypeOK
        /\ HandInv
        /\ ExecutingInv
        /\ LifeInv
        /\ CallInv
        /\ FifoOrder
        /\ NoLostWakeup
        /\ CapacityRespected
        /\ WokenInv

-----------------------------------------------------------------------------
\* Appending to the second half of a line is appending to the line.
LEMMA AppendToLine ==
  \A s, t \in Seq(Messages), e \in Messages : Append(s \o t, e) = s \o Append(t, e)
<1> TAKE s, t \in Seq(Messages), e \in Messages
<1>1. s \o t \in Seq(Messages)
  BY ConcatProperties
<1>2. <<e>> \in Seq(Messages)
  OBVIOUS
<1>3. Append(s \o t, e) = (s \o t) \o <<e>>
  BY <1>1, AppendIsConcat
<1>4. (s \o t) \o <<e>> = s \o (t \o <<e>>)
  BY <1>2, ConcatAssociative
<1>5. t \o <<e>> = Append(t, e)
  BY AppendIsConcat
<1>6. QED
  BY <1>3, <1>4, <1>5

\* A line that is not empty is its head followed by its tail.
LEMMA HeadThenTail ==
  ASSUME NEW S, NEW s \in Seq(S), s # <<>>
  PROVE  <<Head(s)>> \o Tail(s) = s
<1>1. /\ Head(s) \in S
      /\ Tail(s) \in Seq(S)
      /\ Len(Tail(s)) = Len(s) - 1
      /\ \A i \in 1 .. Len(Tail(s)) : Tail(s)[i] = s[i + 1]
  BY HeadTailProperties
<1>2. Len(s) \in Nat \ {0}
  BY EmptySeq
<1>3. /\ <<Head(s)>> \in Seq(S)
      /\ Len(<<Head(s)>>) = 1
      /\ <<Head(s)>>[1] = s[1]
  BY <1>1, <1>2
<1> DEFINE r == <<Head(s)>> \o Tail(s)
<1>4. /\ r \in Seq(S)
      /\ Len(r) = 1 + Len(Tail(s))
      /\ \A i \in 1 .. 1 + Len(Tail(s)) :
           r[i] = IF i <= 1 THEN <<Head(s)>>[i] ELSE Tail(s)[i - 1]
  BY <1>1, <1>3, ConcatProperties
<1> HIDE DEF r
<1>5. Len(r) = Len(s)
  BY <1>1, <1>2, <1>4
<1>6. \A i \in 1 .. Len(r) : r[i] = s[i]
  <2> SUFFICES ASSUME NEW i \in 1 .. Len(r)
               PROVE  r[i] = s[i]
    OBVIOUS
  <2>1. CASE i = 1
    BY <2>1, <1>3, <1>4, <1>5
  <2>2. CASE i # 1
    <3>1. i - 1 \in 1 .. Len(Tail(s)) /\ i <= 1 + Len(Tail(s)) /\ ~(i <= 1)
      BY <2>2, <1>1, <1>2, <1>5
    <3>2. Tail(s)[i - 1] = s[(i - 1) + 1]
      BY <3>1, <1>1
    <3>3. QED
      BY <3>1, <3>2, <1>4
  <2>3. QED
    BY <2>1, <2>2
<1>7. r = s
  BY <1>4, <1>5, <1>6, SeqEqual
<1>8. QED
  BY <1>7 DEF r

-----------------------------------------------------------------------------
LEMMA InitIInv == Init => IInv
<1> SUFFICES ASSUME Init PROVE IInv
  OBVIOUS
<1> USE DEF Init
<1>1. <<>> \in Seq(Messages) /\ Len(<<>>) = 0
  BY EmptySeq
<1>2. TypeOK
  BY <1>1 DEF TypeOK
<1>3. FifoOrder
  BY <1>1, ConcatEmptySeq DEF FifoOrder
<1>4. CapacityRespected
  BY <1>1, CapacityAssumption DEF CapacityRespected
<1>5. HandInv /\ ExecutingInv /\ LifeInv /\ NoLostWakeup
  BY DEF HandInv, ExecutingInv, LifeInv, NoLostWakeup
<1>8. WokenInv
  BY DEF WokenInv
<1>6. CallInv
  BY <1>1 DEF CallInv
<1>7. QED
  BY <1>2, <1>3, <1>4, <1>5, <1>6, <1>8 DEF IInv

LEMMA AcceptIInv ==
  ASSUME IInv, NEW m \in Messages, Accept(m)
  PROVE  IInv'
<1> USE DEF Accept, Signalled
<1>0. TypeOK
  BY DEF IInv
<1>1. /\ queue' \in Seq(Messages)
      /\ Len(queue') = Len(queue) + 1
      /\ queue' # <<>>
  BY <1>0, AppendProperties DEF TypeOK
<1>2. /\ accepted' \in Seq(Messages)
      /\ Len(accepted') = Len(accepted) + 1
      /\ \A i \in 1 .. Len(accepted) : accepted'[i] = accepted[i]
      /\ accepted'[Len(accepted) + 1] = m
  BY <1>0, AppendProperties DEF TypeOK
<1>3. TypeOK'
  <2>1. call' \in [Messages -> {"idle", "tested", "accepted", "refused"}]
    BY <1>0 DEF TypeOK
  <2>2. worker' \in {"none", "starting", "exited", "undefined"} \cup LoopStates
    BY <1>0 DEF TypeOK, LoopStates, Awake
  <2>3. QED
    BY <1>0, <1>1, <1>2, <2>1, <2>2 DEF TypeOK
<1>4. FifoOrder'
  <2> SUFFICES ASSUME dtor # "done"
               PROVE  Append(accepted, m) = (executed \o hand) \o Append(queue, m)
    BY DEF FifoOrder
  <2>1. accepted = (executed \o hand) \o queue
    BY DEF IInv, FifoOrder
  <2> DEFINE done == executed \o hand
  <2>2. done \in Seq(Messages) /\ queue \in Seq(Messages)
    BY <1>0, ConcatProperties DEF TypeOK
  <2> HIDE DEF done
  <2>3. Append(done \o queue, m) = done \o Append(queue, m)
    BY <2>2, AppendToLine
  <2>4. QED
    BY <2>1, <2>3 DEF done
<1>5. CapacityRespected'
  BY <1>0, <1>1, CapacityAssumption, LenProperties DEF TypeOK, CapacityRespected
<1>6. CallInv'
  <2> SUFFICES ASSUME NEW i \in 1 .. Len(accepted')
               PROVE  call'[accepted'[i]] = "accepted"
    BY DEF CallInv
  <2>1. Len(accepted) \in Nat
    BY <1>0, LenProperties DEF TypeOK
  <2>2. CASE i = Len(accepted) + 1
    BY <1>0, <1>2, <2>2 DEF TypeOK
  <2>3. CASE i \in 1 .. Len(accepted)
    <3>1. accepted[i] \in Messages
      BY <1>0, <2>3, ElementOfSeq DEF TypeOK
    <3>2. call[accepted[i]] = "accepted"
      BY <2>3 DEF IInv, CallInv
    <3>3. QED
      BY <1>0, <1>2, <2>3, <3>1, <3>2 DEF TypeOK
  <2>4. QED
    BY <1>2, <2>1, <2>2, <2>3
<1>7. HandInv' /\ ExecutingInv' /\ LifeInv' /\ NoLostWakeup' /\ WokenInv'
  <2>1. worker' = "executing" <=> worker = "executing"
    OBVIOUS
  <2>2. worker' # "waiting"
    OBVIOUS
  <2>3. HandInv' /\ ExecutingInv'
    BY <2>1 DEF IInv, HandInv, ExecutingInv
  <2>4. LifeInv' /\ NoLostWakeup'
    BY <1>0, <2>2 DEF IInv, LifeInv, NoLostWakeup, TypeOK
  <2>5. ctor = "done"
    BY DEF IInv, LifeInv
  <2>6. WokenInv'
    BY <1>1, <2>5 DEF IInv, WokenInv
  <2>7. QED
    BY <2>3, <2>4, <2>6
<1>8. QED
  BY <1>3, <1>4, <1>5, <1>6, <1>7 DEF IInv

LEMMA PopIInv ==
  ASSUME IInv, Pop
  PROVE  IInv'
<1> USE DEF Pop, Awake
<1>0. TypeOK
  BY DEF IInv
<1>1. /\ Head(queue) \in Messages
      /\ Tail(queue) \in Seq(Messages)
      /\ Len(Tail(queue)) = Len(queue) - 1
  BY <1>0, HeadTailProperties DEF TypeOK
<1>2. hand = <<>> /\ hand' = <<Head(queue)>> /\ hand' \in Seq(Messages) /\ hand' # <<>>
  BY <1>1 DEF IInv, HandInv
<1>3. TypeOK'
  BY <1>0, <1>1, <1>2 DEF TypeOK, LoopStates, Awake
<1>4. FifoOrder'
  <2> SUFFICES ASSUME dtor # "done"
               PROVE  accepted = (executed \o <<Head(queue)>>) \o Tail(queue)
    BY DEF FifoOrder
  <2>1. accepted = (executed \o hand) \o queue
    BY DEF IInv, FifoOrder
  <2>2. executed \o hand = executed
    BY <1>0, <1>2, ConcatEmptySeq DEF TypeOK
  <2>3. (executed \o <<Head(queue)>>) \o Tail(queue) = executed \o (<<Head(queue)>> \o Tail(queue))
    BY <1>0, <1>1, <1>2, ConcatAssociative, SMTT(20) DEF TypeOK
  <2>4. <<Head(queue)>> \o Tail(queue) = queue
    BY <1>0, HeadThenTail DEF TypeOK
  <2>5. QED
    BY <2>1, <2>2, <2>3, <2>4
<1>5. CapacityRespected'
  BY <1>0, <1>1, CapacityAssumption, LenProperties DEF TypeOK, IInv, CapacityRespected
<1>6. CallInv'
  BY DEF IInv, CallInv
<1>7. HandInv' /\ ExecutingInv' /\ LifeInv' /\ NoLostWakeup' /\ WokenInv'
  BY <1>1, <1>2 DEF IInv, HandInv, ExecutingInv, LifeInv, NoLostWakeup, WokenInv
<1>8. QED
  BY <1>3, <1>4, <1>5, <1>6, <1>7 DEF IInv

LEMMA ExecuteIInv ==
  ASSUME IInv, Execute
  PROVE  IInv'
<1> USE DEF Execute
<1>0. TypeOK
  BY DEF IInv
<1>1. executed' \in Seq(Messages) /\ hand' = <<>> /\ <<>> \in Seq(Messages)
  BY <1>0, ConcatProperties, EmptySeq DEF TypeOK
<1>2. TypeOK'
  BY <1>0, <1>1 DEF TypeOK, LoopStates, Awake
<1>3. FifoOrder'
  <2>1. (executed \o hand) \o <<>> = executed \o hand
    BY <1>1, ConcatEmptySeq
  <2>2. QED
    BY <1>1, <2>1 DEF IInv, FifoOrder
<1>4. QED
  BY <1>1, <1>2, <1>3
     DEF IInv, CapacityRespected, CallInv, HandInv, ExecutingInv, LifeInv, NoLostWakeup, WokenInv

LEMMA CallStepIInv ==
  ASSUME IInv, NEW m \in Messages, TestRunning(m) \/ Refuse(m)
  PROVE  IInv'
<1>0. TypeOK
  BY DEF IInv
<1>1. /\ UNCHANGED <<ctor, running, queue, worker, hand, dtor, accepted, executed>>
      /\ call[m] # "accepted"
      /\ \E c \in {"tested", "refused"} : call' = [call EXCEPT ![m] = c]
  BY DEF TestRunning, Refuse
<1>2. CallInv'
  <2> SUFFICES ASSUME NEW i \in 1 .. Len(accepted)
               PROVE  call'[accepted[i]] = "accepted"
    BY <1>1 DEF CallInv
  <2>1. call[accepted[i]] = "accepted"
    BY DEF IInv, CallInv
  <2>2. accepted[i] \in Messages
    BY <1>0, ElementOfSeq DEF TypeOK
  <2>3. QED
    BY <1>0, <1>1, <2>1, <2>2 DEF TypeOK
<1>3. TypeOK'
  BY <1>0, <1>1 DEF TypeOK
<1>4. LifeInv'
  BY <1>0, <1>1 DEF IInv, LifeInv, TypeOK, TestRunning, Refuse
<1>5. QED
  BY <1>1, <1>2, <1>3, <1>4
     DEF IInv, FifoOrder, CapacityRespected, HandInv, ExecutingInv, NoLostWakeup, WokenInv

LEMMA QuitIInv ==
  ASSUME IInv, Quit
  PROVE  IInv'
<1> USE DEF Quit, Signalled
<1>1. TypeOK'
  BY DEF IInv, TypeOK, LoopStates, Awake
<1>2. worker = "waiting" => running
  BY DEF IInv, NoLostWakeup
<1>3. HandInv' /\ ExecutingInv'
  <2>1. worker' = "executing" <=> worker = "executing"
    OBVIOUS
  <2>2. QED
    BY <2>1 DEF IInv, HandInv, ExecutingInv
<1>4. QED
  BY <1>1, <1>2, <1>3
     DEF IInv, FifoOrder, CapacityRespected, CallInv, LifeInv, NoLostWakeup, WokenInv

LEMMA JoinIInv ==
  ASSUME IInv, JoinAndClear
  PROVE  IInv'
<1> USE DEF JoinAndClear
<1>0. TypeOK
  BY DEF IInv
<1>1. <<>> \in Seq(Messages) /\ Len(<<>>) = 0
  BY EmptySeq
<1>2. TypeOK' /\ CapacityRespected'
  BY <1>0, <1>1, CapacityAssumption DEF TypeOK, CapacityRespected
<1>3. QED
  BY <1>2 DEF IInv, FifoOrder, CallInv, HandInv, ExecutingInv, LifeInv, NoLostWakeup, WokenInv

\* The steps that leave the line, the calls and the destructor alone.
LEMMA ControlIInv ==
  ASSUME IInv,
         \/ Ctor \/ EnterLoop \/ Await \/ SpuriousWakeup \/ Exit \/ PopEmpty
         \/ UNCHANGED vars
  PROVE  IInv'
<1>1. UNCHANGED <<queue, hand, call, dtor, accepted, executed>>
  BY DEF Ctor, CreateWorker, CreateFails, PublishRunning, EnterLoop, Await,
         SpuriousWakeup, Exit, PopEmpty, Awake, vars
<1>2. TypeOK'
  BY <1>1 DEF IInv, TypeOK, LoopStates, Awake, Ctor, CreateWorker, CreateFails, PublishRunning,
              EnterLoop, Await, SpuriousWakeup, Exit, PopEmpty, Awake, vars
<1>3. HandInv' /\ ExecutingInv'
  <2>1. worker' = "executing" <=> worker = "executing"
    BY DEF IInv, LifeInv, Ctor, CreateWorker, CreateFails, PublishRunning, EnterLoop,
           Await, SpuriousWakeup, Exit, PopEmpty, Awake, vars
  <2>2. QED
    BY <1>1, <2>1 DEF IInv, HandInv, ExecutingInv
<1>4. LifeInv' /\ NoLostWakeup'
  BY <1>1 DEF IInv, LifeInv, NoLostWakeup, Ctor, CreateWorker, CreateFails, PublishRunning,
              EnterLoop, Await, SpuriousWakeup, Exit, PopEmpty, Awake, vars
<1>5. FifoOrder' /\ CapacityRespected' /\ CallInv'
  BY <1>1 DEF IInv, FifoOrder, CapacityRespected, CallInv
<1>6. WokenInv'
  BY <1>1 DEF IInv, LifeInv, NoLostWakeup, WokenInv, Ctor, CreateWorker, CreateFails,
              PublishRunning, EnterLoop, Await, SpuriousWakeup, Exit, PopEmpty, Awake, vars
<1>7. QED
  BY <1>2, <1>3, <1>4, <1>5, <1>6 DEF IInv

LEMMA NextIInv == IInv /\ [Next]_vars => IInv'
<1> SUFFICES ASSUME IInv, [Next]_vars PROVE IInv'
  OBVIOUS
<1>1. CASE Ctor
  BY <1>1, ControlIInv
<1>2. CASE Worker
  BY <1>2, ControlIInv, PopIInv, ExecuteIInv DEF Worker
<1>3. CASE SpuriousWakeup
  BY <1>3, ControlIInv
<1>4. CASE Quit
  BY <1>4, QuitIInv
<1>5. CASE JoinAndClear
  BY <1>5, JoinIInv
<1>6. CASE Terminated \/ UNCHANGED vars
  BY <1>6, ControlIInv DEF Terminated
<1>7. ASSUME NEW m \in Messages, Caller(m) PROVE IInv'
  BY <1>7, AcceptIInv, CallStepIInv DEF Caller
<1>8. QED
  BY <1>1, <1>2, <1>3, <1>4, <1>5, <1>6, <1>7 DEF Next

LEMMA Invariance == Spec => []IInv
  BY InitIInv, NextIInv, PTL DEF Spec

-----------------------------------------------------------------------------
\* The values of the variables, for any number of callers and any capacity.
THEOREM TypeCorrect == Spec => []TypeOK
<1>1. IInv => TypeOK
  BY DEF IInv
<1>2. QED
  BY <1>1, Invariance, PTL

\* An accepted message is never lost, repeated or overtaken before the destructor.
THEOREM QueueIsFifo == Spec => []FifoOrder
<1>1. IInv => FifoOrder
  BY DEF IInv
<1>2. QED
  BY <1>1, Invariance, PTL

\* The worker never sleeps through a message or through quit().
THEOREM WakeupsAreNotLost == Spec => []NoLostWakeup
<1>1. IInv => NoLostWakeup
  BY DEF IInv
<1>2. QED
  BY <1>1, Invariance, PTL

\* The queue stays within its capacity, however many callers race for the last place.
THEOREM QueueIsBounded == Spec => []CapacityRespected
<1>1. IInv => CapacityRespected
  BY DEF IInv
<1>2. QED
  BY <1>1, Invariance, PTL

\* A signal is enough for the "if" around await(): until the worker it woke has
\* run, there stays a message or a quit for it, whatever the other threads do.
THEOREM SignalsAreJustified == Spec => []SignalledFindsWork
<1>1. IInv => SignalledFindsWork
  BY DEF IInv, WokenInv, SignalledFindsWork
<1>2. QED
  BY <1>1, Invariance, PTL

-----------------------------------------------------------------------------
\* A step of the queue is a step of the serial executor, or none.
LEMMA StepRefines == IInv /\ IInv' /\ [Next]_vars => [Executor!Next]_Executor!vars
<1> SUFFICES ASSUME IInv, IInv', [Next]_vars
             PROVE  [Executor!Next]_Executor!vars
  OBVIOUS
<1> USE DEF Executor!Next, Executor!vars
<1>0. TypeOK
  BY DEF IInv
<1>1. /\ Len(executed) \in Nat /\ Len(queue) \in Nat /\ Len(accepted) \in Nat
      /\ Len(<<>>) = 0
      /\ \A m \in Messages : Len(<<m>>) = 1
  BY <1>0, LenProperties, EmptySeq DEF TypeOK
<1>2. ASSUME NEW m \in Messages, Accept(m)
      PROVE  Executor!Accept(m)
  <2>1. \A i \in 1 .. Len(accepted) : accepted[i] # m
    BY <1>2 DEF IInv, CallInv, Accept
  <2>2. QED
    BY <1>2, <2>1 DEF Executor!Accept, Accept
<1>3. CASE Pop
  <2>1. hand = <<>> /\ hand' = <<Head(queue)>> /\ Head(queue) \in Messages
    BY <1>0, <1>3, HeadTailProperties DEF IInv, HandInv, Pop, Awake, TypeOK
  <2>2. dtor # "done"
    BY <1>3 DEF IInv, LifeInv, Pop, Awake
  <2>3. /\ executed \o hand = executed
        /\ (executed \o hand)' = Append(executed, Head(queue))
        /\ accepted = executed \o queue
    <3>1. executed \o hand = executed
      BY <1>0, <2>1, ConcatEmptySeq DEF TypeOK
    <3>2. executed \o <<Head(queue)>> = Append(executed, Head(queue))
      BY <1>0, <2>1, AppendIsConcat DEF TypeOK
    <3>3. QED
      BY <1>3, <2>1, <2>2, <3>1, <3>2 DEF IInv, FifoOrder, Pop
  <2>4. Len(queue) > 0 /\ Head(queue) = queue[1]
    BY <1>0, <1>1, <1>3, EmptySeq DEF Pop, TypeOK
  <2>5. /\ Len(executed) < Len(accepted)
        /\ accepted[Len(executed) + 1] = Head(queue)
    <3>1. /\ Len(accepted) = Len(executed) + Len(queue)
          /\ \A i \in 1 .. Len(executed) + Len(queue) :
               accepted[i] = IF i <= Len(executed) THEN executed[i] ELSE queue[i - Len(executed)]
      BY <1>0, <2>3, ConcatProperties DEF TypeOK
    <3>2. /\ Len(executed) + 1 \in 1 .. Len(executed) + Len(queue)
          /\ ~(Len(executed) + 1 <= Len(executed))
          /\ (Len(executed) + 1) - Len(executed) = 1
      BY <1>1, <2>4
    <3>3. accepted[Len(executed) + 1] = queue[1]
      BY <3>1, <3>2
    <3>4. Len(executed) < Len(accepted)
      BY <1>1, <2>4, <3>1
    <3>5. QED
      BY <2>4, <3>3, <3>4
  <2>6. executed' = executed /\ accepted' = accepted
    BY <1>3 DEF Pop
  <2>7. Executor!Start
    BY <2>3, <2>5, <2>6 DEF Executor!Start
  <2>8. QED
    BY <2>7
<1>4. CASE Execute
  <2>1. PICK m \in Messages : hand = <<m>>
    BY <1>4 DEF IInv, HandInv, ExecutingInv, Execute
  <2>2. executed' = executed \o hand /\ hand' = <<>> /\ accepted' = accepted
    BY <1>4 DEF Execute
  <2>3. executed \o hand # executed
    <3>1. Len(executed \o hand) = Len(executed) + 1
      BY <1>0, <1>1, <2>1, ConcatProperties DEF TypeOK
    <3>2. QED
      BY <1>1, <3>1
  <2>4. (executed \o hand)' = executed \o hand
    <3>1. executed' \in Seq(Messages)
      BY <1>0, <2>2, ConcatProperties DEF TypeOK
    <3>2. QED
      BY <2>2, <3>1, ConcatEmptySeq
  <2>5. Executor!Finish
    BY <2>2, <2>3, <2>4 DEF Executor!Finish
  <2>6. QED
    BY <2>5
<1>5. CASE UNCHANGED <<accepted, executed, hand>>
  BY <1>5
<1>6. QED
  BY <1>2, <1>3, <1>4, <1>5
     DEF Next, Ctor, CreateWorker, CreateFails, PublishRunning, Worker, EnterLoop, Await,
         SpuriousWakeup, Exit, PopEmpty, Quit, JoinAndClear, Terminated, Caller,
         TestRunning, Refuse, vars

\* MessageQueue executes accepted messages one at a time and in order.
THEOREM ImplementsExecutor == Spec => ExecutorSpec
<1>1. Init => Executor!Init
  <2>1. <<>> \o <<>> = <<>>
    BY EmptySeq, ConcatEmptySeq
  <2>2. QED
    BY <2>1 DEF Init, Executor!Init
<1>2. QED
  BY <1>1, Invariance, StepRefines, PTL DEF Spec, ExecutorSpec, Executor!Spec
=============================================================================
