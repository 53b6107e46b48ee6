---------------------------- MODULE MessageQueue ----------------------------
(***************************************************************************)
(* glog::MessageQueue (Core/MessageQueue.cpp): the bounded FIFO and the    *)
(* worker thread behind Glog's asynchronous mode.                          *)
(*                                                                         *)
(* One message is one call of enqueue().  A region under m_queueLock is    *)
(* one step; what the code does outside the lock (the constructor's store  *)
(* of m_running after the thread exists, the first test of enqueue, the    *)
(* callback) is a step of its own.  m_running is an atomic that no one     *)
(* initialises before the constructor's store, so its first value is any.  *)
(***************************************************************************)
EXTENDS Naturals, Sequences

CONSTANTS Messages,         \* the calls of enqueue
          Capacity          \* m_capacity (Glog passes INT_MAX)

ASSUME CapacityAssumption == Capacity \in Nat \ {0}

VARIABLES ctor,      \* progress of the constructor
          running,   \* m_running
          queue,     \* m_queue
          worker,    \* where the worker thread is
          hand,      \* the message moved out of the queue, <<>> or <<m>>
          call,      \* call[m]: progress of the enqueue of m
          dtor,      \* progress of the destructor
          accepted,  \* history: messages whose enqueue returned true, in order
          executed   \* history: messages whose callback has returned, in order

vars == <<ctor, running, queue, worker, hand, call, dtor, accepted, executed>>

\* Where await() has returned: because of a signal, or without one.
Awake == {"woken", "roused"}
LoopStates == {"looping", "waiting", "executing"} \cup Awake

Init == /\ ctor = "new"
        /\ running \in BOOLEAN
        /\ queue = <<>>
        /\ worker = "none"
        /\ hand = <<>>
        /\ call = [m \in Messages |-> "idle"]
        /\ dtor = "no"
        /\ accepted = <<>>
        /\ executed = <<>>

-----------------------------------------------------------------------------
(* The constructor: pthread_create, and only then the store of m_running.  *)

CreateWorker == /\ ctor = "new"
                /\ ctor' = "created"
                /\ worker' = "starting"
                /\ UNCHANGED <<running, queue, hand, call, dtor, accepted, executed>>

CreateFails == /\ ctor = "new"
               /\ ctor' = "done"
               /\ running' = FALSE
               /\ UNCHANGED <<queue, worker, hand, call, dtor, accepted, executed>>

PublishRunning == /\ ctor = "created"
                  /\ ctor' = "done"
                  /\ running' = TRUE
                  /\ UNCHANGED <<queue, worker, hand, call, dtor, accepted, executed>>

-----------------------------------------------------------------------------
(* enqueue(): m_running is tested before the lock is taken.  A call that   *)
(* is inside when the destructor frees the queue is lost with it.          *)

TestRunning(m) == /\ ctor = "done"
                  /\ dtor # "done"
                  /\ call[m] = "idle"
                  /\ call' = [call EXCEPT ![m] = IF running THEN "tested" ELSE "refused"]
                  /\ UNCHANGED <<ctor, running, queue, worker, hand, dtor, accepted, executed>>

\* Mutant of Signalled: the signal is forgotten.
NoSignal == worker

\* m_queueNotEmptyCondition.signal(): only the worker ever waits on it.
Signalled == IF worker = "waiting" THEN "woken" ELSE worker

\* Mutant of Accept: the message is put in front of the queue.
AcceptInFront(m) == /\ call[m] = "tested" /\ dtor # "done" /\ Len(queue) < Capacity
                    /\ queue' = <<m>> \o queue
                    /\ worker' = Signalled
                    /\ call' = [call EXCEPT ![m] = "accepted"]
                    /\ accepted' = Append(accepted, m)
                    /\ UNCHANGED <<ctor, running, hand, dtor, executed>>

\* Mutant of Accept: > for >= in the test of the capacity.
AcceptOneMore(m) == /\ call[m] = "tested" /\ dtor # "done" /\ Len(queue) <= Capacity
                    /\ queue' = Append(queue, m)
                    /\ worker' = Signalled
                    /\ call' = [call EXCEPT ![m] = "accepted"]
                    /\ accepted' = Append(accepted, m)
                    /\ UNCHANGED <<ctor, running, hand, dtor, executed>>

Accept(m) == /\ call[m] = "tested"
             /\ dtor # "done"
             /\ Len(queue) < Capacity
             /\ queue' = Append(queue, m)
             /\ worker' = Signalled
             /\ call' = [call EXCEPT ![m] = "accepted"]
             /\ accepted' = Append(accepted, m)
             /\ UNCHANGED <<ctor, running, hand, dtor, executed>>

Refuse(m) == /\ call[m] = "tested"
             /\ dtor # "done"
             /\ Len(queue) >= Capacity
             /\ call' = [call EXCEPT ![m] = "refused"]
             /\ UNCHANGED <<ctor, running, queue, worker, hand, dtor, accepted, executed>>

-----------------------------------------------------------------------------
(* The worker: workerRunnable() tests m_running once; loop() waits with an *)
(* "if", so a wakeup of any kind goes on to the pop.                       *)

EnterLoop == /\ worker = "starting"
             /\ worker' = IF running THEN "looping" ELSE "exited"
             /\ UNCHANGED <<ctor, running, queue, hand, call, dtor, accepted, executed>>

Await == /\ worker = "looping"
         /\ running
         /\ queue = <<>>
         /\ worker' = "waiting"
         /\ UNCHANGED <<ctor, running, queue, hand, call, dtor, accepted, executed>>

\* pthread_cond_wait may return although nobody has signalled.
SpuriousWakeup == /\ worker = "waiting"
                  /\ worker' = "roused"
                  /\ UNCHANGED <<ctor, running, queue, hand, call, dtor, accepted, executed>>

\* Mutant of Exit: a state no other step knows.
ExitElsewhere == /\ worker \in {"looping"} \cup Awake /\ ~running /\ queue = <<>>
                 /\ worker' = "joined"
                 /\ UNCHANGED <<ctor, running, queue, hand, call, dtor, accepted, executed>>

Exit == /\ worker \in {"looping"} \cup Awake
        /\ ~running
        /\ queue = <<>>
        /\ worker' = "exited"
        /\ UNCHANGED <<ctor, running, queue, hand, call, dtor, accepted, executed>>

Pop == /\ worker \in {"looping"} \cup Awake
       /\ queue # <<>>
       /\ hand' = <<Head(queue)>>
       /\ queue' = Tail(queue)
       /\ worker' = "executing"
       /\ UNCHANGED <<ctor, running, call, dtor, accepted, executed>>

\* front() of an empty list: undefined behaviour, nothing is said of the worker after it.
PopEmpty == /\ worker \in Awake
            /\ running
            /\ queue = <<>>
            /\ worker' = "undefined"
            /\ UNCHANGED <<ctor, running, queue, hand, call, dtor, accepted, executed>>

Execute == /\ worker = "executing"
           /\ executed' = executed \o hand
           /\ hand' = <<>>
           /\ worker' = "looping"
           /\ UNCHANGED <<ctor, running, queue, call, dtor, accepted>>

-----------------------------------------------------------------------------
(* The destructor: quit(), join, then the queue is swapped with an empty   *)
(* one.  pthread_join of a thread that was never created returns at once.  *)

\* Mutant of Quit: wakes the worker and leaves m_running set.
QuitRunning == /\ ctor = "done" /\ dtor = "no"
               /\ worker' = IF running THEN Signalled ELSE worker
               /\ dtor' = "joining"
               /\ UNCHANGED <<ctor, running, queue, hand, call, accepted, executed>>

Quit == /\ ctor = "done"
        /\ dtor = "no"
        /\ running' = FALSE
        /\ worker' = IF running THEN Signalled ELSE worker
        /\ dtor' = "joining"
        /\ UNCHANGED <<ctor, queue, hand, call, accepted, executed>>

JoinAndClear == /\ dtor = "joining"
                /\ worker \in {"none", "exited"}
                /\ queue' = <<>>
                /\ dtor' = "done"
                /\ UNCHANGED <<ctor, running, worker, hand, call, accepted, executed>>

Terminated == /\ dtor = "done"
              /\ UNCHANGED vars

Ctor == CreateWorker \/ CreateFails \/ PublishRunning
Caller(m) == TestRunning(m) \/ Accept(m) \/ Refuse(m)
Worker == EnterLoop \/ Await \/ Exit \/ Pop \/ PopEmpty \/ Execute

Next == \/ Ctor
        \/ Worker
        \/ SpuriousWakeup
        \/ Quit
        \/ JoinAndClear
        \/ Terminated
        \/ \E m \in Messages : Caller(m)

\* Threads the operating system schedules keep taking the steps they can take;
\* nobody is obliged to call enqueue or to destroy the queue.
Fairness == WF_vars(Ctor) /\ WF_vars(Worker) /\ WF_vars(JoinAndClear)

Spec == Init /\ [][Next]_vars
FairSpec == Spec /\ Fairness

-----------------------------------------------------------------------------
\* The values the variables range over.
TypeOK == /\ ctor \in {"new", "created", "done"}
          /\ running \in BOOLEAN
          /\ queue \in Seq(Messages)
          /\ worker \in {"none", "starting", "exited", "undefined"} \cup LoopStates
          /\ hand \in Seq(Messages)
          /\ call \in [Messages -> {"idle", "tested", "accepted", "refused"}]
          /\ dtor \in {"no", "joining", "done"}
          /\ accepted \in Seq(Messages)
          /\ executed \in Seq(Messages)

\* Until the destructor clears the queue, the messages executed, the one in the
\* worker's hand and the ones queued are together exactly the accepted ones, in
\* the order of acceptance: none is dropped, repeated or overtaken (the promise
\* of enqueue's "return true").
FifoOrder == dtor # "done" => accepted = (executed \o hand) \o queue

\* The worker sleeps in await() only while there is nothing for it to do: the
\* queue is empty and nobody has asked it to quit.  A signal sent before the
\* worker waits is never needed, since every sender holds m_queueLock.
NoLostWakeup == worker = "waiting" => queue = <<>> /\ running

\* loop() tests emptiness with an "if" before await() and not after.  That is
\* enough for a signal: whoever is woken by one still finds, when it gets to run
\* and whatever the other threads have done meanwhile, a message or a quit.
SignalledFindsWork == worker = "woken" => queue # <<>> \/ ~running

\* The comment of loop(), "quit -> complete all task -> exit loop": the worker
\* ends by a quit, and never takes the front of an empty list.
NeverPopsEmpty == worker # "undefined"

\* m_queue never outgrows m_capacity, whatever the number of concurrent callers.
CapacityRespected == Len(queue) <= Capacity

\* The constructor's comment, "start looper immediately": once it has returned
\* with m_running set, the worker is on its way into the loop or inside it.
LooperStarted == ctor = "done" /\ running => worker \in {"starting"} \cup LoopStates

\* A message that is queued while the worker is in its loop is executed, whether
\* or not a quit arrives in the meantime, unless the pop of an empty list that a
\* spurious wakeup allows has ended what can be said of the worker.
AcceptedIsExecuted ==
  \A m \in Messages :
    (\E i \in 1 .. Len(queue) : queue[i] = m) /\ worker \in LoopStates
      ~> worker = "undefined" \/ (\E i \in 1 .. Len(executed) : executed[i] = m)

\* quit() always gets the worker out of the loop, so the destructor's join
\* returns and the destructor ends; the same exception applies.
DestructorEnds == dtor = "joining" ~> dtor = "done" \/ worker = "undefined"

\* The queue implements the serial executor: the worker runs one callback at a
\* time, and the n-th it runs is that of the n-th accepted message.
Executor == INSTANCE SerialExecutor
              WITH started <- executed \o hand, finished <- executed
ExecutorSpec == Executor!Spec
=============================================================================
