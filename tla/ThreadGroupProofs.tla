------------------------- MODULE ThreadGroupProofs -------------------------
(***************************************************************************)
(* The safety properties of ThreadGroup, proved for every number of        *)
(* threads, every queue capacity and every set of messages, and the        *)
(* refinement of MessageDelivery.                                          *)
(***************************************************************************)
EXTENDS ThreadGroup, FiniteSetTheorems, SequenceTheorems, TLAPS

(***************************************************************************)
(* The inductive invariant, in parts.                                      *)
(***************************************************************************)

\* A message thread at work holds a message.
HoldsMessage == \A w \in Worker : pc[w] = "work" => msg[w] \in Msg

\* How far main has come with creating and counting threads.
StartUpInv ==
  /\ mainPc \in {"create", "count", "start"} => nextThread \in Thread
  /\ mainPc \in {"create", "count"} => nRunThreadCount = nextThread
  /\ mainPc = "start" => nRunThreadCount = nextThread + 1
  /\ mainPc \in {"open", "serve", "flush", "done"} =>
       nRunThreadCount = LastThread + 1
  /\ mainPc = "create" =>
       \A t \in Thread : t >= nextThread => pc[t] = "unborn"
  /\ mainPc \in {"count", "start"} =>
       \A t \in Thread : t > nextThread => pc[t] = "unborn"

Exited == {t \in Thread : pc[t] = "exited"}

\* The exit counter counts the threads that have left, each of them once.
ExitInv == nExitThreadCount = Cardinality(Exited)

\* No thread is stopped before the signal, and none is started after it.
SignalInv ==
  /\ mainPc \in {"create", "count", "start", "open"} => sigPc = -1
  /\ sigPc = -1 => \A t \in Thread : ~Stopped(t)

\* A thread that took something after its stop is on its way out.
LateInv ==
  \A t \in Thread :
    \/ late[t] = 0
    \/ late[t] = 1 /\ Stopped(t) /\ pc[t] \in {"work", "loop", "exited"}

\* The reactor's copy of its run status is never ahead of the original.
CopyInv == nRunStatus = "enStopped" => Stopped(Reactor)

IInv == /\ TypeOK /\ HoldsMessage
        /\ StartUpInv /\ ExitInv /\ MainExitsLast
        /\ SignalInv /\ LateInv /\ CopyInv /\ LossOnlyOnStop

-----------------------------------------------------------------------------
(***************************************************************************)
(* Facts about the constants.                                              *)
(***************************************************************************)
\* The threads are an interval that holds the reactor, a natural bounds it.
LEMMA ThreadFacts ==
  /\ nThreadCount \in Nat /\ nThreadCount > 0
  /\ LastThread \in Nat
  /\ Thread = 0 .. LastThread
  /\ Worker = 1 .. LastThread
  /\ Reactor = 0 /\ Reactor \in Thread
  BY ConstantsAssumption DEF LastThread, Thread, Worker, Reactor

\* The reactor and the message threads share nothing but being threads.
LEMMA WorkersAreThreads ==
  /\ Worker \subseteq Thread /\ Reactor \in Thread /\ Reactor \notin Worker
  BY ThreadFacts DEF Worker

\* add_inner_message always finds one of the message threads, whatever the
\* descriptor (AppManager::add_inner_message).
LEMMA TargetIsWorker == ASSUME NEW m \in Msg PROVE TargetThread(m) \in Worker
<1>1. PICK k \in 0 .. nThreadCount - 1 : k = socketfd[m] % nThreadCount
  BY ConstantsAssumption
<1>2. TargetThread(m) \in {LastThread - 1, LastThread, 1 + k, 1 + nThreadCount + k}
  BY <1>1, ConstantsAssumption DEF TargetThread, MsgTypes
<1>. QED  BY <1>2, ThreadFacts DEF LastThread

-----------------------------------------------------------------------------
(***************************************************************************)
(* How a step affects each part of the invariant.                          *)
(***************************************************************************)
\* Every action keeps the types, and a message thread has a message to work on.
LEMMA TypeStep ==
  ASSUME TypeOK, HoldsMessage, StartUpInv, [Next]_vars
  PROVE  TypeOK' /\ HoldsMessage'
<1>. USE WorkersAreThreads DEF TypeOK, HoldsMessage, RunStatus, ThreadPc, MainPc
<1>1. CASE Main \/ FailStart
  <2>1. CASE CreateThread
    BY <2>1 DEF CreateThread, MainUnchanged, signalVars, eventVars
  <2>2. CASE CountThread
    BY <2>2 DEF CountThread, MainUnchanged, signalVars, eventVars
  <2>3. CASE StartThread
    <3>1. nextThread' \in 0 .. LastThread + 1
      BY <2>3, ThreadFacts DEF StartThread, StartUpInv
    <3>. QED  BY <2>3, <3>1 DEF StartThread, MainUnchanged, signalVars, eventVars
  <2>4. CASE OpenAcceptors \/ LeaveMainLoop \/ FlushAndReturn \/ FailStart
    BY <2>4 DEF OpenAcceptors, LeaveMainLoop, FlushAndReturn, FailStart,
                MainUnchanged, signalVars, eventVars
  <2>. QED  BY <1>1, <2>1, <2>2, <2>3, <2>4 DEF Main
<1>2. CASE SignalArrives \/ Handler
  <2>1. CASE SignalArrives
    BY <2>1, ThreadFacts DEF SignalArrives, mainVars, eventVars
  <2>2. CASE StopNextThread
    <3>1. sigPc' \in -1 .. LastThread + 1
      BY <2>2, ThreadFacts DEF StopNextThread
    <3>. QED  BY <2>2, <3>1 DEF StopNextThread, mainVars, eventVars
  <2>3. CASE LetMainExit
    BY <2>3 DEF LetMainExit, mainVars, eventVars
  <2>. QED  BY <1>2, <2>1, <2>2, <2>3 DEF Handler
<1>3. CASE \E m \in Msg : Raise(m)
  BY <1>3 DEF Raise, mainVars, signalVars
<1>4. CASE \E t \in Thread : EnterBody(t)
  BY <1>4 DEF EnterBody, mainVars, signalVars, eventVars
<1>5. CASE \E t \in Thread : ExitThread(t)
  BY <1>5 DEF ExitThread, mainVars, signalVars, eventVars
<1>6. CASE CallHandleEvent \/ EpollWait
  <2>1. CASE CallHandleEvent
    BY <2>1 DEF CallHandleEvent, ReactorUnchanged, mainVars, signalVars
  <2>2. CASE EpollWait
    BY <2>2 DEF EpollWait, ReactorUnchanged, mainVars, signalVars
  <2>. QED  BY <1>6, <2>1, <2>2
<1>7. CASE \E m \in Msg : HandleInput(m)
  BY <1>7 DEF HandleInput, ReactorUnchanged, mainVars, signalVars
<1>8. CASE \E m \in Msg : PushMessage(m)
  <2>1. PICK m \in Msg : PushMessage(m)
    BY <1>8
  <2>2. \A w \in Worker : Append(m_msgqueue[w], m) \in Seq(Msg)
    OBVIOUS
  <2>3. m_msgqueue' \in [Worker -> Seq(Msg)]
    BY <2>1, <2>2 DEF PushMessage
  <2>. QED  BY <2>1, <2>3 DEF PushMessage, ReactorUnchanged, mainVars, signalVars
<1>9. CASE EndBatch
  BY <1>9 DEF EndBatch, ReactorUnchanged, mainVars, signalVars
<1>10. CASE \E w \in Worker : PopMessage(w)
  <2>1. PICK w \in Worker : PopMessage(w)
    BY <1>10
  <2>2. /\ Head(m_msgqueue[w]) \in Msg
        /\ Tail(m_msgqueue[w]) \in Seq(Msg)
    BY <2>1 DEF PopMessage
  <2>. QED  BY <2>1, <2>2 DEF PopMessage, WorkerUnchanged, mainVars, signalVars,
                              eventVars
<1>11. CASE \E w \in Worker : FindEmpty(w)
  BY <1>11 DEF FindEmpty, WorkerUnchanged, mainVars, signalVars, eventVars
<1>12. CASE \E w \in Worker : ReturnNull(w)
  BY <1>12 DEF ReturnNull, WorkerUnchanged, mainVars, signalVars, eventVars
<1>13. CASE \E w \in Worker : ProcessInnerMsg(w)
  BY <1>13 DEF ProcessInnerMsg, WorkerUnchanged, mainVars, signalVars, eventVars
<1>14. CASE UNCHANGED vars
  BY <1>14 DEF vars, mainVars, signalVars, eventVars
<1>. QED
  BY <1>1, <1>2, <1>3, <1>4, <1>5, <1>6, <1>7, <1>8, <1>9, <1>10, <1>11,
     <1>12, <1>13, <1>14
  DEF Next, ReactorStep, WorkerStep, Terminated

\* There are LastThread + 1 threads.
LEMMA ThreadCardinality ==
  IsFiniteSet(Thread) /\ Cardinality(Thread) = LastThread + 1
  BY ThreadFacts, FS_Interval

\* The threads that have left are finitely many, and all of them when there
\* are as many as threads.
LEMMA ExitedCardinality ==
  /\ IsFiniteSet(Exited)
  /\ Cardinality(Exited) \in Nat
  /\ Cardinality(Exited) = LastThread + 1 => Exited = Thread
<1>1. Exited \in SUBSET Thread
  BY DEF Exited
<1>. QED  BY <1>1, ThreadCardinality, FS_Subset, FS_CardinalityType

\* What the steps of the threads do to the parts of the state main counts in:
\* nothing, or one thread goes round its loop, or one thread leaves it.
Running == {"loop", "wait", "poll", "empty", "work"}
StaysRunning ==
  /\ UNCHANGED <<mainPc, nextThread, nRunThreadCount, nExitThreadCount>>
  /\ \A t \in Thread : pc'[t] = pc[t] \/ (pc[t] \in Running /\ pc'[t] \in Running)

\* Only main, a failed start and a thread that exits touch the counters, main's
\* place or the set of threads that have left.
LEMMA OtherSteps ==
  ASSUME TypeOK, [Next]_vars
  PROVE  \/ Main \/ FailStart \/ StaysRunning
         \/ \E t \in Thread : ExitThread(t)
<1>. USE WorkersAreThreads DEF TypeOK, StaysRunning, Running, mainVars
<1>1. CASE SignalArrives \/ Handler \/ \E m \in Msg : Raise(m)
  BY <1>1 DEF SignalArrives, Handler, StopNextThread, LetMainExit, Raise
<1>2. CASE \E t \in Thread : EnterBody(t)
  BY <1>2 DEF EnterBody
<1>3. CASE CallHandleEvent \/ EpollWait \/ EndBatch
  BY <1>3 DEF CallHandleEvent, EpollWait, EndBatch, ReactorUnchanged
<1>4. CASE \E m \in Msg : HandleInput(m) \/ PushMessage(m)
  BY <1>4 DEF HandleInput, PushMessage,
              ReactorUnchanged
<1>5. CASE \E w \in Worker : PopMessage(w)
  BY <1>5 DEF PopMessage, WorkerUnchanged
<1>6. CASE \E w \in Worker : FindEmpty(w) \/ ReturnNull(w) \/ ProcessInnerMsg(w)
  BY <1>6 DEF FindEmpty, ReturnNull, ProcessInnerMsg, WorkerUnchanged
<1>7. CASE UNCHANGED vars
  BY <1>7 DEF vars
<1>. QED  BY <1>1, <1>2, <1>3, <1>4, <1>5, <1>6, <1>7
          DEF Next, ReactorStep, WorkerStep, Terminated

\* Every action keeps the counters exact, so main leaves its loop only after
\* the last thread.
LEMMA CountStep ==
  ASSUME TypeOK, StartUpInv, ExitInv, MainExitsLast, [Next]_vars
  PROVE  StartUpInv' /\ ExitInv' /\ MainExitsLast'
<1>1. CASE CreateThread
  <2>1. nextThread \in Thread /\ pc[nextThread] = "unborn"
    BY <1>1, ThreadFacts DEF CreateThread, StartUpInv
  <2>2. Exited' = Exited
    BY <1>1, <2>1 DEF CreateThread, Exited, TypeOK
  <2>3. ExitInv'
    BY <1>1, <2>2 DEF CreateThread, MainUnchanged, ExitInv
  <2>4. StartUpInv'
    BY <1>1, <2>1, ThreadFacts DEF CreateThread, StartUpInv, TypeOK
  <2>. QED  BY <1>1, <2>3, <2>4 DEF CreateThread, MainExitsLast
<1>2. CASE CountThread
  <2>1. ExitInv' /\ MainExitsLast'
    BY <1>2 DEF CountThread, MainUnchanged, ExitInv, Exited, MainExitsLast
  <2>2. StartUpInv'
    BY <1>2, ThreadFacts DEF CountThread, StartUpInv
  <2>. QED  BY <2>1, <2>2
<1>3. CASE StartThread
  <2>1. ExitInv' /\ MainExitsLast'
    BY <1>3 DEF StartThread, MainUnchanged, ExitInv, Exited, MainExitsLast
  <2>2. StartUpInv'
    BY <1>3, ThreadFacts DEF StartThread, StartUpInv
  <2>. QED  BY <2>1, <2>2
<1>4. CASE OpenAcceptors \/ FailStart
  BY <1>4 DEF OpenAcceptors, FailStart, MainUnchanged, ExitInv, Exited,
              StartUpInv, MainExitsLast
<1>5. CASE LeaveMainLoop
  <2>1. Exited = Thread
    BY <1>5, ExitedCardinality DEF LeaveMainLoop, ExitInv, StartUpInv
  <2>2. MainExitsLast'
    BY <1>5, <2>1 DEF LeaveMainLoop, Exited, MainExitsLast
  <2>. QED  BY <1>5, <2>2 DEF LeaveMainLoop, MainUnchanged, ExitInv, Exited,
                              StartUpInv
<1>6. CASE FlushAndReturn
  BY <1>6 DEF FlushAndReturn, MainUnchanged, ExitInv, Exited, StartUpInv,
              MainExitsLast
<1>7. CASE StaysRunning
  <2>1. Exited' = Exited
    BY <1>7 DEF StaysRunning, Running, Exited
  <2>. QED  BY <1>7, <2>1 DEF StaysRunning, Running, ExitInv, StartUpInv,
                              MainExitsLast
<1>8. CASE \E t \in Thread : ExitThread(t)
  <2>1. PICK t \in Thread : ExitThread(t)
    BY <1>8
  <2>2. t \notin Exited /\ Exited' = Exited \cup {t}
    BY <2>1 DEF ExitThread, Exited, TypeOK
  <2>3. Cardinality(Exited') = Cardinality(Exited) + 1
    BY <2>2, ExitedCardinality, FS_AddElement
  <2>4. ExitInv'
    BY <2>1, <2>3 DEF ExitThread, ExitInv
  <2>. QED  BY <2>1, <2>4 DEF ExitThread, mainVars, StartUpInv, MainExitsLast, TypeOK
<1>. QED  BY <1>1, <1>2, <1>3, <1>4, <1>5, <1>6, <1>7, <1>8, OtherSteps DEF Main

\* Every action leaves a stopped thread stopped; none is stopped before the
\* signal.
LEMMA SignalStep ==
  ASSUME TypeOK, SignalInv, [Next]_vars
  PROVE  SignalInv' /\ \A t \in Thread : Stopped(t) => Stopped(t)'
<1>. USE DEF SignalInv, Stopped
<1>1. CASE CreateThread \/ CountThread
  BY <1>1 DEF CreateThread, CountThread, MainUnchanged, signalVars
<1>2. CASE StartThread
  BY <1>2 DEF StartThread, MainUnchanged, signalVars, TypeOK
<1>3. CASE OpenAcceptors \/ FailStart \/ LeaveMainLoop \/ FlushAndReturn
  BY <1>3 DEF OpenAcceptors, FailStart, LeaveMainLoop, FlushAndReturn,
              MainUnchanged, signalVars
<1>4. CASE SignalArrives
  BY <1>4 DEF SignalArrives, mainVars
<1>5. CASE StopNextThread
  <2>1. sigPc >= 0 /\ sigPc' >= 0
    BY <1>5, ThreadFacts DEF StopNextThread
  <2>2. \A t \in Thread : Stopped(t) => Stopped(t)'
    BY <1>5 DEF StopNextThread, TypeOK
  <2>. QED  BY <1>5, <2>1, <2>2 DEF StopNextThread, mainVars
<1>6. CASE LetMainExit
  BY <1>6 DEF LetMainExit, mainVars
<1>7. CASE UNCHANGED <<mainPc, sigPc, m_nRunStatus>>
  BY <1>7
<1>8. \/ Main \/ FailStart \/ SignalArrives \/ Handler
      \/ UNCHANGED <<mainPc, sigPc, m_nRunStatus>>
  <2>1. CASE \E m \in Msg : Raise(m) \/ HandleInput(m) \/ PushMessage(m)
    BY <2>1 DEF Raise, HandleInput, PushMessage,
                ReactorUnchanged, mainVars, signalVars
  <2>2. CASE \E t \in Thread : EnterBody(t) \/ ExitThread(t)
    BY <2>2 DEF EnterBody, ExitThread, mainVars, signalVars
  <2>3. CASE CallHandleEvent \/ EpollWait \/ EndBatch
    BY <2>3 DEF CallHandleEvent, EpollWait, EndBatch, ReactorUnchanged, mainVars,
                signalVars
  <2>4. CASE \E w \in Worker : PopMessage(w) \/ FindEmpty(w) \/ ReturnNull(w)
                               \/ ProcessInnerMsg(w)
    BY <2>4 DEF PopMessage, FindEmpty, ReturnNull, ProcessInnerMsg,
                WorkerUnchanged, mainVars, signalVars
  <2>5. CASE UNCHANGED vars
    BY <2>5 DEF vars, mainVars, signalVars
  <2>. QED  BY <2>1, <2>2, <2>3, <2>4, <2>5, WorkersAreThreads
            DEF Next, ReactorStep, WorkerStep, Terminated
<1>. QED  BY <1>1, <1>2, <1>3, <1>4, <1>5, <1>6, <1>7, <1>8 DEF Main, Handler

\* A thread takes something late at most once: EnterBody lets no stopped
\* thread back into its body.
LEMMA LateStep ==
  ASSUME TypeOK, SignalInv, StartUpInv, LateInv, [Next]_vars PROVE LateInv'
<1>. USE WorkersAreThreads DEF LateInv
<1>1. \A t \in Thread : Stopped(t) => Stopped(t)'
  BY SignalStep
<1>2. CASE CreateThread
  <2>1. nextThread \in Thread /\ ~Stopped(nextThread)
    BY <1>2 DEF CreateThread, StartUpInv, SignalInv
  <2>. QED  BY <1>1, <1>2, <2>1 DEF CreateThread, MainUnchanged, TypeOK
<1>3. CASE CountThread \/ StartThread \/ OpenAcceptors \/ FailStart
           \/ LeaveMainLoop \/ FlushAndReturn
  BY <1>1, <1>3 DEF CountThread, StartThread, OpenAcceptors, FailStart,
                    LeaveMainLoop, FlushAndReturn, MainUnchanged
<1>4. CASE SignalArrives \/ Handler \/ \E m \in Msg : Raise(m)
  BY <1>1, <1>4 DEF SignalArrives, Handler, StopNextThread, LetMainExit, Raise
<1>5. CASE \E t \in Thread : EnterBody(t)
  BY <1>1, <1>5 DEF EnterBody, Stopped, TypeOK
<1>6. CASE \E t \in Thread : ExitThread(t)
  BY <1>1, <1>6 DEF ExitThread, TypeOK
<1>7. CASE CallHandleEvent \/ EpollWait
  <2>1. CASE CallHandleEvent
    <3>1. late[Reactor] = 0
      BY <2>1 DEF CallHandleEvent
    <3>. QED  BY <1>1, <2>1, <3>1 DEF CallHandleEvent, TypeOK
  <2>2. CASE EpollWait
    BY <1>1, <2>2 DEF EpollWait, TypeOK
  <2>. QED  BY <1>7, <2>1, <2>2
<1>8. CASE \E m \in Msg : HandleInput(m) \/ PushMessage(m)
  BY <1>1, <1>8 DEF HandleInput, PushMessage,
                    TypeOK
<1>9. CASE EndBatch
  BY <1>1, <1>9 DEF EndBatch, TypeOK
<1>10. CASE \E w \in Worker : PopMessage(w)
  BY <1>1, <1>10 DEF PopMessage, TypeOK
<1>11. CASE \E w \in Worker : FindEmpty(w) \/ ReturnNull(w) \/ ProcessInnerMsg(w)
  BY <1>1, <1>11 DEF FindEmpty, ReturnNull, ProcessInnerMsg, TypeOK
<1>12. CASE UNCHANGED vars
  BY <1>1, <1>12 DEF vars
<1>. QED  BY <1>2, <1>3, <1>4, <1>5, <1>6, <1>7, <1>8, <1>9, <1>10, <1>11, <1>12
          DEF Next, Main, ReactorStep, WorkerStep, Terminated

\* Only two actions lose anything: one looks at the copy of a run status first, the
\* other at the descriptor.
LEMMA LossStep ==
  ASSUME TypeOK, SignalInv, CopyInv, LossOnlyOnStop, [Next]_vars
  PROVE  CopyInv' /\ LossOnlyOnStop'
<1>. USE DEF LossOnlyOnStop
<1>1. \A t \in Thread : Stopped(t) => Stopped(t)'
  BY SignalStep
<1>2. \A m \in Msg : TargetThread(m) \in Thread
  BY TargetIsWorker, WorkersAreThreads
<1>3. lost \subseteq Msg /\ batch \subseteq Msg
  BY DEF TypeOK
<1>4. CASE UNCHANGED <<nRunStatus, lost>>
  BY <1>1, <1>2, <1>3, <1>4, WorkersAreThreads DEF CopyInv
<1>5. CASE CallHandleEvent
  <2>1. CopyInv'
    BY <1>5, <1>1, WorkersAreThreads DEF CallHandleEvent, CopyInv, Stopped
  <2>. QED  BY <1>1, <1>2, <1>3, <1>5, <2>1, WorkersAreThreads DEF CallHandleEvent
<1>6. CASE \E m \in Msg : HandleInput(m)
  BY <1>1, <1>2, <1>3, <1>6, WorkersAreThreads DEF HandleInput, CopyInv
<1>7. CASE EndBatch
  <2>1. batch = {} \/ Stopped(Reactor)'
    BY <1>1, <1>7, WorkersAreThreads DEF EndBatch, CopyInv
  <2>. QED  BY <1>1, <1>2, <1>3, <1>7, <2>1, WorkersAreThreads DEF EndBatch, CopyInv
<1>8. \/ UNCHANGED <<nRunStatus, lost>> \/ CallHandleEvent \/ EndBatch
      \/ \E m \in Msg : HandleInput(m)
  <2>1. CASE Main \/ FailStart
    BY <2>1 DEF Main, CreateThread, CountThread, StartThread, OpenAcceptors,
                FailStart, LeaveMainLoop, FlushAndReturn, MainUnchanged, eventVars
  <2>2. CASE SignalArrives \/ Handler
    BY <2>2 DEF SignalArrives, Handler, StopNextThread, LetMainExit, eventVars
  <2>3. CASE \/ EpollWait
           \/ \E m \in Msg : Raise(m) \/ PushMessage(m)
    BY <2>3 DEF EpollWait, Raise, PushMessage
  <2>4. CASE \E t \in Thread : EnterBody(t) \/ ExitThread(t)
    BY <2>4 DEF EnterBody, ExitThread, eventVars
  <2>5. CASE \E w \in Worker : PopMessage(w) \/ FindEmpty(w) \/ ReturnNull(w)
                               \/ ProcessInnerMsg(w)
    BY <2>5 DEF PopMessage, FindEmpty, ReturnNull, ProcessInnerMsg,
                WorkerUnchanged, eventVars
  <2>6. CASE UNCHANGED vars
    BY <2>6 DEF vars, eventVars
  <2>. QED  BY <2>1, <2>2, <2>3, <2>4, <2>5, <2>6, WorkersAreThreads
            DEF Next, ReactorStep, WorkerStep, Terminated
<1>. QED  BY <1>4, <1>5, <1>6, <1>7, <1>8

-----------------------------------------------------------------------------
(***************************************************************************)
(* The inductive invariant and what follows from it.                       *)
(***************************************************************************)
\* The invariant holds before main creates its first thread.
LEMMA InitIInv == ASSUME Init PROVE IInv
<1>1. TypeOK
  <2>1. nextThread \in 0 .. LastThread + 1 /\ sigPc \in -1 .. LastThread + 1
    BY ThreadFacts DEF Init
  <2>2. m_msgqueue \in [Worker -> Seq(Msg)]
    BY DEF Init
  <2>. QED  BY <2>1, <2>2 DEF Init, TypeOK, RunStatus, ThreadPc, MainPc
<1>2. HoldsMessage
  BY WorkersAreThreads DEF Init, HoldsMessage
<1>3. StartUpInv
  BY ThreadFacts DEF Init, StartUpInv
<1>4. ExitInv
  <2>1. Exited = {}
    BY DEF Init, Exited
  <2>. QED  BY <2>1, FS_EmptySet DEF Init, ExitInv
<1>5. MainExitsLast /\ SignalInv /\ LateInv /\ CopyInv /\ LossOnlyOnStop
  BY DEF Init, MainExitsLast, SignalInv, Stopped, LateInv, CopyInv, LossOnlyOnStop
<1>. QED  BY <1>1, <1>2, <1>3, <1>4, <1>5 DEF IInv

\* Every step of main, the handler, the reactor or a message thread keeps it.
LEMMA NextIInv == ASSUME IInv, [Next]_vars PROVE IInv'
  BY TypeStep, CountStep, SignalStep, LateStep, LossStep DEF IInv

\* The inductive invariant holds in every reachable state of the skeleton.
THEOREM Invariance == SafetySpec => []IInv
  BY InitIInv, NextIInv, PTL DEF SafetySpec

\* Every variable keeps its type.
THEOREM TypeCorrect == SafetySpec => []TypeOK
<1>1. IInv => TypeOK
  BY DEF IInv
<1>. QED  BY <1>1, Invariance, PTL

\* main returns, and deletes what the threads use, only after the last of
\* them has left its loop, for any number of threads (main.cpp, the wait loop).
THEOREM ExitIsLast == SafetySpec => []MainExitsLast
<1>1. IInv => MainExitsLast
  BY DEF IInv
<1>. QED  BY <1>1, Invariance, PTL

\* A stopped thread takes at most one more batch or message, however much is
\* waiting (ReactorThread::start, AcceptMsgThread::start and GetInnerMsg).
THEOREM Prompt == SafetySpec => []StopIsPrompt
<1>1. IInv => StopIsPrompt
  BY DEF IInv, LateInv, StopIsPrompt
<1>. QED  BY <1>1, Invariance, PTL

\* Before the signal nothing is lost but the messages of released
\* connections, whatever the queues' capacity (AcceptMsgThread::
\* add_inner_message, EpollReactor::handle_event).
THEOREM NoLossBeforeStop == SafetySpec => []LossOnlyOnStop
<1>1. IInv => LossOnlyOnStop
  BY DEF IInv
<1>. QED  BY <1>1, Invariance, PTL
-----------------------------------------------------------------------------
(***************************************************************************)
(* ThreadGroup implements MessageDelivery, for every number of threads,    *)
(* every queue capacity and every set of messages: each step of a thread   *)
(* is a step of MessageDelivery or changes nothing it speaks of.           *)
(***************************************************************************)

(***************************************************************************)
(* What the mapping needs to know of where a message is.                   *)
(***************************************************************************)

\* A message is in one place on its way through the reactor.
ApartInv ==
  /\ quiet \cap (ready \cup batch \cup Held(Reactor)) = {}
  /\ ready \cap (batch \cup Held(Reactor)) = {}
  /\ batch \cap Held(Reactor) = {}

\* A message thread holds a message only at work, and the reactor a batch or a
\* message only inside handle_event.
HandInv ==
  /\ \A w \in Worker : msg[w] # NoMsg => pc[w] = "work"
  /\ pc[Reactor] # "work" => batch = {} /\ msg[Reactor] = NoMsg

MapInv == IInv /\ ApartInv /\ HandInv

-----------------------------------------------------------------------------
(***************************************************************************)
(* The queue of MessageDelivery and the queues and hands of the threads.   *)
(***************************************************************************)
\* Taking the head in hand leaves the outstanding messages as they were
\* (AcceptMsgThread::GetInnerMsg).
LEMMA TakeHead ==
  ASSUME NEW S, NEW q \in Seq(S), q # <<>>
  PROVE  <<Head(q)>> \o Tail(q) = q
<1>1. /\ Head(q) \in S /\ Tail(q) \in Seq(S)
      /\ Len(Tail(q)) = Len(q) - 1 /\ Len(q) \in Nat \ {0}
      /\ Head(q) = q[1]
      /\ \A i \in 1 .. Len(q) - 1 : Tail(q)[i] = q[i + 1]
  BY HeadTailProperties, EmptySeq
<1>. DEFINE r == <<Head(q)>> \o Tail(q)
<1>2. r \in Seq(S) /\ Len(r) = Len(q)
  BY <1>1
<1>3. \A i \in 1 .. Len(q) : r[i] = q[i]
  BY <1>1
<1>. HIDE DEF r
<1>4. r = q
  BY <1>2, <1>3, SeqEqual
<1>. QED  BY <1>4 DEF r

\* Having processed the message in hand leaves those in the queue.
LEMMA DropHand ==
  ASSUME NEW S, NEW q \in Seq(S), NEW m \in S
  PROVE  /\ <<m>> \o q # <<>>
         /\ Head(<<m>> \o q) = m
         /\ Tail(<<m>> \o q) = q
<1>. DEFINE r == <<m>> \o q
<1>1. /\ r \in Seq(S) /\ Len(r) = Len(q) + 1 /\ Len(q) \in Nat
      /\ r[1] = m /\ \A i \in 1 .. Len(q) : r[i + 1] = q[i]
  OBVIOUS
<1>. HIDE DEF r
<1>2. r # <<>>
  BY <1>1
<1>3. Head(r) = m /\ Tail(r) \in Seq(S) /\ Len(Tail(r)) = Len(q)
  BY <1>1, <1>2
<1>4. \A i \in 1 .. Len(q) : Tail(r)[i] = q[i]
  BY <1>1, <1>2
<1>5. Tail(r) = q
  BY <1>3, <1>4, SeqEqual
<1>. QED  BY <1>2, <1>3, <1>5 DEF r

\* Pushing at the end of the queue is appending to what is outstanding, also
\* while the thread has a message in hand (AcceptMsgThread::add_inner_message).
LEMMA PushBehindHand ==
  ASSUME NEW S, NEW q \in Seq(S), NEW m \in S, NEW x \in S
  PROVE  <<m>> \o Append(q, x) = Append(<<m>> \o q, x)
<1>1. /\ <<m>> \o Append(q, x) \in Seq(S)
      /\ Append(<<m>> \o q, x) \in Seq(S)
  OBVIOUS
<1>2. /\ Len(<<m>> \o Append(q, x)) = Len(q) + 2
      /\ Len(Append(<<m>> \o q, x)) = Len(q) + 2
  OBVIOUS
<1>3. \A i \in 1 .. Len(q) + 2 :
        (<<m>> \o Append(q, x))[i] = Append(<<m>> \o q, x)[i]
  OBVIOUS
<1>. QED  BY <1>1, <1>2, <1>3, SeqEqual

-----------------------------------------------------------------------------
(***************************************************************************)
(* Which steps MessageDelivery does not see.                               *)
(***************************************************************************)
\* The steps that neither move a message nor stop a thread.
Unseen ==
  UNCHANGED <<m_nRunStatus, msg, m_msgqueue, quiet, ready, batch, lost, handled>>

\* Every other action is one of these.
LEMMA OtherStepsUnseen ==
  ASSUME [Next]_vars
  PROVE  \/ Unseen \/ StartThread \/ StopNextThread
         \/ EpollWait \/ EndBatch
         \/ \E m \in Msg : Raise(m) \/ HandleInput(m) \/ PushMessage(m)
         \/ \E w \in Worker : PopMessage(w) \/ ProcessInnerMsg(w)
<1>. USE DEF Unseen
<1>1. CASE CreateThread \/ CountThread \/ OpenAcceptors \/ LeaveMainLoop
           \/ FlushAndReturn \/ FailStart
  BY <1>1 DEF CreateThread, CountThread, OpenAcceptors, LeaveMainLoop,
              FlushAndReturn, FailStart, MainUnchanged, eventVars
<1>2. CASE SignalArrives \/ LetMainExit
  BY <1>2 DEF SignalArrives, LetMainExit, eventVars
<1>3. CASE \E t \in Thread : EnterBody(t) \/ ExitThread(t)
  BY <1>3 DEF EnterBody, ExitThread, eventVars
<1>4. CASE CallHandleEvent
  BY <1>4 DEF CallHandleEvent, ReactorUnchanged
<1>5. CASE \E w \in Worker : FindEmpty(w) \/ ReturnNull(w)
  BY <1>5 DEF FindEmpty, ReturnNull, WorkerUnchanged, eventVars
<1>6. CASE UNCHANGED vars
  BY <1>6 DEF vars, eventVars
<1>. QED  BY <1>1, <1>2, <1>3, <1>4, <1>5, <1>6, WorkersAreThreads
          DEF Next, Main, Handler, ReactorStep, WorkerStep, Terminated

-----------------------------------------------------------------------------
(***************************************************************************)
(* The invariant of the mapping.                                           *)
(***************************************************************************)
\* Nothing has happened and nobody holds anything before main starts.
LEMMA InitMapInv == ASSUME Init PROVE MapInv
  BY InitIInv, WorkersAreThreads DEF Init, MapInv, ApartInv, HandInv, Held

\* The reactor's events stay apart: each action takes a message from one place
\* to the next (EpollReactor::handle_event, AppManager::add_inner_message).
LEMMA ApartStep == ASSUME MapInv, [Next]_vars PROVE ApartInv'
<1>. USE WorkersAreThreads DEF ApartInv, Held
<1>1. TypeOK /\ ApartInv /\ HandInv
  BY DEF MapInv, IInv
<1>2. CASE Unseen \/ StartThread \/ StopNextThread
  BY <1>1, <1>2 DEF Unseen, StartThread, MainUnchanged, StopNextThread, eventVars
<1>3. CASE EpollWait
  BY <1>1, <1>3 DEF EpollWait, ReactorUnchanged, HandInv
<1>4. CASE EndBatch
  BY <1>1, <1>4 DEF EndBatch, ReactorUnchanged
<1>5. CASE \E m \in Msg : Raise(m)
  BY <1>1, <1>5 DEF Raise
<1>6. CASE \E m \in Msg : HandleInput(m)
  BY <1>1, <1>6 DEF HandleInput, ReactorUnchanged, TypeOK
<1>7. CASE \E m \in Msg : PushMessage(m)
  BY <1>1, <1>7 DEF PushMessage, ReactorUnchanged, TypeOK
<1>8. CASE \E w \in Worker : PopMessage(w) \/ ProcessInnerMsg(w)
  <2>1. UNCHANGED <<quiet, ready, batch, msg[Reactor]>>
    BY <1>1, <1>8 DEF PopMessage, ProcessInnerMsg, WorkerUnchanged, eventVars,
                      TypeOK
  <2>. QED  BY <1>1, <2>1
<1>. QED  BY <1>2, <1>3, <1>4, <1>5, <1>6, <1>7, <1>8, OtherStepsUnseen

\* A message thread comes to work with a message and leaves without, the
\* reactor leaves handle_event with an empty batch.
LEMMA HandStep == ASSUME MapInv, [Next]_vars PROVE HandInv'
<1>. USE WorkersAreThreads, ThreadFacts DEF HandInv
<1>1. TypeOK /\ HandInv /\ StartUpInv
  BY DEF MapInv, IInv
<1>2. CASE Main \/ FailStart
  <2>1. CASE CreateThread
    <3>1. nextThread \in Thread /\ pc[nextThread] = "unborn"
      BY <1>1, <2>1 DEF CreateThread, StartUpInv
    <3>. QED  BY <1>1, <2>1, <3>1 DEF CreateThread, MainUnchanged, eventVars, TypeOK
  <2>2. CASE CountThread \/ StartThread \/ OpenAcceptors \/ LeaveMainLoop
             \/ FlushAndReturn \/ FailStart
    BY <1>1, <2>2 DEF CountThread, StartThread, OpenAcceptors, LeaveMainLoop,
                FlushAndReturn, FailStart, MainUnchanged, eventVars
  <2>. QED  BY <1>2, <2>1, <2>2 DEF Main
<1>3. CASE SignalArrives \/ Handler \/ \E m \in Msg : Raise(m)
  BY <1>1, <1>3 DEF SignalArrives, Handler, StopNextThread, LetMainExit, Raise,
                    eventVars
<1>4. CASE \E t \in Thread : EnterBody(t) \/ ExitThread(t)
  BY <1>1, <1>4 DEF EnterBody, ExitThread, eventVars, TypeOK
<1>5. CASE CallHandleEvent \/ EpollWait \/ EndBatch
  BY <1>1, <1>5 DEF CallHandleEvent, EpollWait, EndBatch, ReactorUnchanged, TypeOK
<1>6. CASE \E m \in Msg : HandleInput(m) \/ PushMessage(m)
  BY <1>1, <1>6 DEF HandleInput, PushMessage,
                    ReactorUnchanged, TypeOK
<1>7. CASE \E w \in Worker : PopMessage(w) \/ FindEmpty(w) \/ ReturnNull(w)
                             \/ ProcessInnerMsg(w)
  <2>1. CASE \E w \in Worker : PopMessage(w)
    BY <1>1, <2>1 DEF PopMessage, WorkerUnchanged, eventVars, TypeOK
  <2>2. CASE \E w \in Worker : FindEmpty(w) \/ ReturnNull(w)
    BY <1>1, <2>2 DEF FindEmpty, ReturnNull, WorkerUnchanged, eventVars, TypeOK
  <2>3. CASE \E w \in Worker : ProcessInnerMsg(w)
    BY <1>1, <2>3 DEF ProcessInnerMsg, WorkerUnchanged, eventVars, TypeOK
  <2>. QED  BY <1>7, <2>1, <2>2, <2>3
<1>8. CASE UNCHANGED vars
  BY <1>1, <1>8 DEF vars, eventVars
<1>. QED  BY <1>2, <1>3, <1>4, <1>5, <1>6, <1>7, <1>8
          DEF Next, ReactorStep, WorkerStep, Terminated

\* Every step of the skeleton keeps the invariant of the mapping.
LEMMA NextMapInv == ASSUME MapInv, [Next]_vars PROVE MapInv'
  BY NextIInv, ApartStep, HandStep DEF MapInv

-----------------------------------------------------------------------------
(***************************************************************************)
(* The simulation.                                                         *)
(***************************************************************************)
StoppedThreads == {t \in Thread : Stopped(t)}
Pending        == ready \cup batch \cup Held(Reactor)
Queues         == [w \in Worker |-> Outstanding(w)]
Destination    == [m \in Msg |-> TargetThread(m)]
Released       == {m \in Msg : socketfd[m] < 0}

\* What MessageDelivery may lose, under the mapping.
LEMMA MayLoseMapped ==
  ASSUME NEW m \in Msg,
         m \in Released \/ Reactor \in StoppedThreads
  PROVE  Delivery!MayLose(m)
  BY DEF Delivery!MayLose, StoppedThreads, Released

\* A step that keeps all the mapping speaks of is a stutter of MessageDelivery.
LEMMA Stutter ==
  ASSUME UNCHANGED <<quiet, Pending, Queues, handled, lost, StoppedThreads>>
  PROVE  UNCHANGED Delivery!vars
  BY DEF Delivery!vars, Pending, Queues, StoppedThreads

\* Only a worker's hand and queue decide what is outstanding for it.
LEMMA OutstandingFrame ==
  ASSUME \A w \in Worker : msg'[w] = msg[w] /\ m_msgqueue'[w] = m_msgqueue[w]
  PROVE  Queues' = Queues
  BY DEF Queues, Outstanding

\* A push appends to what is outstanding for its thread and for no other.
LEMMA PushSimulates ==
  ASSUME MapInv, NEW m \in Msg, PushMessage(m)
  PROVE  Delivery!Accept(m)
<1>. USE WorkersAreThreads, TargetIsWorker
<1>1. TypeOK /\ ApartInv
  BY DEF MapInv, IInv
<1>. DEFINE d == TargetThread(m)
<1>2. d \in Worker /\ Destination[m] = d
  BY DEF Destination
<1>3. m \in Pending /\ Pending' = Pending \ {m}
  BY <1>1, ConstantsAssumption
     DEF PushMessage, ReactorUnchanged, Pending, Held, TypeOK, ApartInv
<1>4. /\ m_msgqueue' = [m_msgqueue EXCEPT ![d] = Append(@, m)]
      /\ \A w \in Worker : msg'[w] = msg[w]
  BY <1>1 DEF PushMessage, TypeOK
<1>. HIDE DEF d
<1>5. Outstanding(d)' = Append(Outstanding(d), m)
  <2>1. /\ m_msgqueue[d] \in Seq(Msg)
        /\ m_msgqueue'[d] = Append(m_msgqueue[d], m)
        /\ msg[d] = NoMsg \/ msg[d] \in Msg
    BY <1>1, <1>2, <1>4 DEF TypeOK
  <2>. QED  BY <2>1, <1>2, <1>4, PushBehindHand DEF Outstanding
<1>6. \A w \in Worker \ {d} : Outstanding(w)' = Outstanding(w)
  BY <1>1, <1>2, <1>4 DEF Outstanding, TypeOK
<1>7. Queues' = [Queues EXCEPT ![d] = Append(@, m)]
  BY <1>2, <1>5, <1>6 DEF Queues
<1>8. UNCHANGED <<quiet, handled, lost, StoppedThreads>>
  BY DEF PushMessage, ReactorUnchanged, StoppedThreads, Stopped
<1>. QED  BY <1>2, <1>3, <1>7, <1>8
          DEF Delivery!Accept, Pending, Queues, StoppedThreads, Destination

\* A pop takes nothing away from what is outstanding.
LEMMA PopSimulates ==
  ASSUME MapInv, NEW w \in Worker, PopMessage(w)
  PROVE  UNCHANGED Delivery!vars
<1>. USE WorkersAreThreads
<1>1. TypeOK /\ HandInv
  BY DEF MapInv, IInv
<1>2. /\ m_msgqueue[w] \in Seq(Msg) /\ m_msgqueue[w] # <<>>
      /\ msg[w] = NoMsg
      /\ msg'[w] = Head(m_msgqueue[w])
      /\ m_msgqueue'[w] = Tail(m_msgqueue[w])
  BY <1>1 DEF PopMessage, TypeOK, HandInv
<1>3. Head(m_msgqueue[w]) \in Msg /\ NoMsg \notin Msg
  BY <1>2, ConstantsAssumption
<1>4. Outstanding(w)' = Outstanding(w)
  BY <1>2, <1>3, TakeHead DEF Outstanding
<1>5. \A v \in Worker \ {w} : Outstanding(v)' = Outstanding(v)
  BY <1>1 DEF PopMessage, TypeOK, Outstanding
<1>6. Queues' = Queues
  BY <1>4, <1>5 DEF Queues
<1>7. UNCHANGED <<quiet, Pending, handled, lost, StoppedThreads>>
  BY <1>1 DEF PopMessage, WorkerUnchanged, eventVars, Pending, Held, TypeOK,
              StoppedThreads, Stopped
<1>. QED  BY <1>6, <1>7, Stutter

\* A message thread processes the first message outstanding for it.
LEMMA ProcessSimulates ==
  ASSUME MapInv, NEW w \in Worker, ProcessInnerMsg(w)
  PROVE  Delivery!Process(w)
<1>. USE WorkersAreThreads
<1>1. TypeOK /\ HoldsMessage
  BY DEF MapInv, IInv
<1>2. /\ m_msgqueue[w] \in Seq(Msg)
      /\ msg[w] \in Msg /\ msg[w] # NoMsg
      /\ msg'[w] = NoMsg
      /\ m_msgqueue' = m_msgqueue
      /\ handled' = handled \cup {msg[w]}
  BY <1>1, ConstantsAssumption DEF ProcessInnerMsg, TypeOK, HoldsMessage
<1>3. /\ Outstanding(w) = <<msg[w]>> \o m_msgqueue[w]
      /\ Outstanding(w)' = m_msgqueue[w]
  BY <1>2 DEF Outstanding
<1>4. /\ Outstanding(w) # <<>>
      /\ Head(Outstanding(w)) = msg[w]
      /\ Outstanding(w)' = Tail(Outstanding(w))
  BY <1>2, <1>3, DropHand
<1>5. \A v \in Worker \ {w} : Outstanding(v)' = Outstanding(v)
  BY <1>1, <1>2 DEF ProcessInnerMsg, TypeOK, Outstanding
<1>6. Queues' = [Queues EXCEPT ![w] = Tail(@)] /\ Queues[w] = Outstanding(w)
  BY <1>4, <1>5 DEF Queues
<1>7. UNCHANGED <<quiet, Pending, lost, StoppedThreads>>
  BY <1>1 DEF ProcessInnerMsg, WorkerUnchanged, eventVars, Pending, Held, TypeOK,
              StoppedThreads, Stopped
<1>. QED  BY <1>2, <1>4, <1>6, <1>7
          DEF Delivery!Process, Pending, Queues, StoppedThreads

\* The two actions that lose something lose what MessageDelivery may lose.
LEMMA LossSimulates ==
  ASSUME MapInv,
         EndBatch \/ \E m \in Msg : HandleInput(m) /\ socketfd[m] < 0
  PROVE  Delivery!Lose
<1>. USE WorkersAreThreads
<1>1. TypeOK /\ ApartInv /\ CopyInv
  BY DEF MapInv, IInv
<1>2. UNCHANGED <<quiet, Queues, handled, StoppedThreads>>
  BY <1>1, OutstandingFrame
     DEF EndBatch, HandleInput, ReactorUnchanged, TypeOK,
         StoppedThreads, Stopped
<1>3. SUFFICES /\ Pending' \subseteq Pending
               /\ lost' = lost \cup (Pending \ Pending')
               /\ \A m \in Pending \ Pending' : m \in Msg /\ Delivery!MayLose(m)
  BY <1>2, <1>3 DEF Delivery!Lose, Pending, Queues, StoppedThreads
<1>4. CASE EndBatch
  <2>1. Pending' = Pending \ batch /\ Pending \ Pending' = batch
    BY <1>1, <1>4 DEF EndBatch, Pending, Held, ApartInv
  <2>2. batch = {} \/ Reactor \in StoppedThreads
    BY <1>1, <1>4 DEF EndBatch, CopyInv, StoppedThreads
  <2>. QED  BY <1>1, <1>4, <2>1, <2>2, MayLoseMapped DEF EndBatch, TypeOK
<1>5. CASE \E m \in Msg : HandleInput(m) /\ socketfd[m] < 0
  <2>1. PICK m \in Msg : HandleInput(m) /\ socketfd[m] < 0
    BY <1>5
  <2>2. Pending' = Pending \ {m} /\ Pending \ Pending' = {m}
    BY <1>1, <2>1 DEF HandleInput, ReactorUnchanged, Pending, Held, ApartInv
  <2>3. Delivery!MayLose(m)
    BY <2>1, MayLoseMapped DEF Released
  <2>. QED  BY <2>1, <2>2, <2>3 DEF HandleInput
<1>. QED  BY <1>4, <1>5

\* Every step of the skeleton is a step of MessageDelivery or a stutter.
LEMMA StepSimulation ==
  ASSUME MapInv, [Next]_vars
  PROVE  [Delivery!Next]_(Delivery!vars)
<1>. USE WorkersAreThreads
<1>1. TypeOK /\ ApartInv /\ HandInv /\ SignalInv /\ StartUpInv
  BY DEF MapInv, IInv
<1>2. CASE Unseen
  <2>1. UNCHANGED <<quiet, Pending, Queues, handled, lost, StoppedThreads>>
    BY <1>2, OutstandingFrame DEF Unseen, Pending, Held, StoppedThreads, Stopped
  <2>. QED  BY <2>1, Stutter
<1>3. CASE StartThread
  <2>1. StoppedThreads = {} /\ StoppedThreads' = {}
    BY <1>1, <1>3 DEF StartThread, SignalInv, StoppedThreads, Stopped, TypeOK
  <2>2. UNCHANGED <<quiet, Pending, Queues, handled, lost>>
    BY <1>3, OutstandingFrame DEF StartThread, MainUnchanged, eventVars, Pending, Held
  <2>. QED  BY <2>1, <2>2, Stutter
<1>4. CASE StopNextThread
  <2>1. StopOrder(sigPc) \in Thread
    BY <1>4, ThreadFacts DEF StopNextThread, StopOrder, LastThread
  <2>2. StoppedThreads' = StoppedThreads \cup {StopOrder(sigPc)}
    BY <1>1, <1>4, <2>1 DEF StopNextThread, StoppedThreads, Stopped, TypeOK
  <2>3. UNCHANGED <<quiet, Pending, Queues, handled, lost>>
    BY <1>4, OutstandingFrame DEF StopNextThread, eventVars, Pending, Held
  <2>4. Delivery!Stop(StopOrder(sigPc))
    BY <2>2, <2>3 DEF Delivery!Stop, Pending, Queues, StoppedThreads
  <2>5. StopOrder(sigPc) \in Worker \cup {Reactor}
    BY <2>1 DEF Worker
  <2>. QED  BY <2>4, <2>5 DEF Delivery!Next
<1>5. CASE EpollWait
  <2>1. Pending' = Pending
    BY <1>1, <1>5 DEF EpollWait, Pending, Held, HandInv
  <2>2. UNCHANGED <<quiet, Queues, handled, lost, StoppedThreads>>
    BY <1>5, OutstandingFrame DEF EpollWait, ReactorUnchanged, StoppedThreads, Stopped
  <2>. QED  BY <2>1, <2>2, Stutter
<1>6. CASE EndBatch \/ \E m \in Msg : HandleInput(m) /\ socketfd[m] < 0
  BY <1>6, LossSimulates DEF Delivery!Next
<1>7. CASE \E m \in Msg : HandleInput(m) /\ ~(socketfd[m] < 0)
  <2>1. Pending' = Pending
    BY <1>1, <1>7, ConstantsAssumption DEF HandleInput, Pending, Held, TypeOK
  <2>2. UNCHANGED <<quiet, Queues, handled, lost, StoppedThreads>>
    BY <1>1, <1>7, OutstandingFrame
       DEF HandleInput, ReactorUnchanged, StoppedThreads, Stopped, TypeOK
  <2>. QED  BY <2>1, <2>2, Stutter
<1>8. CASE \E m \in Msg : Raise(m)
  <2>1. PICK m \in Msg : Raise(m)
    BY <1>8
  <2>2. Pending' = Pending \cup {m} /\ UNCHANGED <<Queues, StoppedThreads>>
    BY <2>1, OutstandingFrame DEF Raise, Pending, Held, StoppedThreads, Stopped
  <2>3. Delivery!Happen(m)
    BY <2>1, <2>2 DEF Raise, Delivery!Happen, Pending, Queues, StoppedThreads
  <2>. QED  BY <2>3 DEF Delivery!Next
<1>9. CASE \E m \in Msg : PushMessage(m)
  BY <1>9, PushSimulates DEF Delivery!Next
<1>10. CASE \E w \in Worker : PopMessage(w)
  BY <1>10, PopSimulates
<1>11. CASE \E w \in Worker : ProcessInnerMsg(w)
  BY <1>11, ProcessSimulates DEF Delivery!Next
<1>. QED  BY <1>2, <1>3, <1>4, <1>5, <1>6, <1>7, <1>8, <1>9, <1>10, <1>11,
             OtherStepsUnseen

\* The initial state of the skeleton maps to the initial state of MessageDelivery.
LEMMA InitSimulation == ASSUME Init PROVE Delivery!Init
<1>1. StoppedThreads = {} /\ Pending = {} /\ Queues = [w \in Worker |-> <<>>]
  BY WorkersAreThreads
     DEF Init, StoppedThreads, Stopped, Pending, Held, Queues, Outstanding
<1>. QED  BY <1>1 DEF Init, Delivery!Init, StoppedThreads, Pending, Queues

\* Threads, queues and status words deliver every message once, in the order
\* of its queue, and lose one only before it is queued and only for a stop or a
\* released connection, for any number of threads and messages.
THEOREM Refinement == SafetySpec => ImplementsDelivery
<1>1. Init => MapInv /\ Delivery!Init
  BY InitMapInv, InitSimulation
<1>2. MapInv /\ [Next]_vars => MapInv' /\ [Delivery!Next]_(Delivery!vars)
  BY NextMapInv, StepSimulation
<1>. QED  BY <1>1, <1>2, PTL DEF SafetySpec, ImplementsDelivery, Delivery!Spec
=============================================================================
