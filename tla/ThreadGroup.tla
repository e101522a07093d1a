---------------------------- MODULE ThreadGroup ----------------------------
(***************************************************************************)
(* The thread skeleton of the server: the main thread starts the reactor   *)
(* and the message threads, the reactor turns epoll events into messages   *)
(* and pushes each one on the queue of the thread that must process it,    *)
(* the message threads pop and process, and a signal stops them all while  *)
(* the main thread waits until every thread it counted has left its loop.  *)
(*                                                                         *)
(* What a message does is left to the other modules; here a message has    *)
(* only the type and the descriptor that choose its thread.                *)
(***************************************************************************)
EXTENDS Integers, Sequences, FiniteSets

CONSTANTS
  nThreadCount,   \* THREAD_COUNT: the size of each of the two worker groups
  Msg,            \* the messages the event sources can give rise to
  msgType,        \* [Msg -> MsgTypes], m_msgType
  socketfd,       \* [Msg -> Int], m_socketfd when the message is created
  NoMsg           \* the NULL message

MsgTypes == {"ACCEPT", "CLIENT_DATA_RECEIVE", "SERVER_DATA_RECEIVE",
             "TIMEOUT_DISCONNECT", "TIMEOUT_LOG_RECORD"}

ASSUME ConstantsAssumption ==
  /\ nThreadCount \in 1..256
  /\ msgType \in [Msg -> MsgTypes]
  /\ socketfd \in [Msg -> Int]
  /\ NoMsg \notin Msg

(***************************************************************************)
(* Threads are numbered in the order main creates them: the reactor, the   *)
(* accept threads, the client/server threads, the two timeout threads.     *)
(***************************************************************************)
Reactor    == 0
LastThread == 2 * nThreadCount + 2
Thread     == Reactor .. LastThread
Worker     == Thread \ {Reactor}

\* The thread a message is pushed to.
TargetThread(m) ==
  LET index == socketfd[m] % nThreadCount
  IN  CASE msgType[m] = "TIMEOUT_DISCONNECT" -> LastThread - 1
        [] msgType[m] = "TIMEOUT_LOG_RECORD" -> LastThread
        [] msgType[m] = "ACCEPT"             -> 1 + index
        [] OTHER                             -> 1 + nThreadCount + index

\* The k-th thread the signal handler stops: the reactor, the two timeout
\* threads, the accept threads, the client/server threads.
StopOrder(k) ==
  CASE k = 0      -> Reactor
    [] k \in 1..2 -> 2 * nThreadCount + k
    [] OTHER      -> k - 2

VARIABLES
  mainPc,           \* where the main thread is
  nextThread,       \* the thread main creates next
  nRunThreadCount,  \* g_appConfig.nRunThreadCount
  nExitThreadCount, \* g_appConfig.nExitThreadCount
  bMainThreadExit,  \* g_appConfig.bMainThreadExit
  sigPc,            \* -1, or how many threads the signal handler has stopped
  m_nRunStatus,     \* [Thread -> RunStatus]
  pc,               \* [Thread -> ThreadPc]
  nRunStatus,       \* the argument handle_event was called with
  msg,              \* [Thread -> Msg \cup {NoMsg}], the message a thread holds
  m_msgqueue,       \* [Worker -> Seq(Msg)]
  quiet,            \* events that have not happened yet
  ready,            \* events epoll has, not yet returned by epoll_wait
  batch,            \* events epoll_wait returned, not yet dispatched
  handled,          \* messages whose processing is complete
  lost,             \* events and messages that will never be processed
  late              \* [Thread -> Nat], batches or messages taken after a stop

mainVars   == <<mainPc, nextThread, nRunThreadCount>>
signalVars == <<bMainThreadExit, sigPc>>
eventVars  == <<quiet, ready, batch, lost, nRunStatus>>
vars == <<mainVars, nExitThreadCount, signalVars, m_nRunStatus, pc, msg,
          m_msgqueue, eventVars, handled, late>>

RunStatus == {"enNoRunning", "enRunning", "enStopped"}
ThreadPc  == {"unborn", "loop", "wait", "poll", "empty", "work",
              "exited"}
MainPc    == {"create", "count", "start", "open", "serve", "flush", "done",
              "failed"}

Stopped(t) == m_nRunStatus[t] = "enStopped"

Init ==
  /\ mainPc = "create"
  /\ nextThread = Reactor
  /\ nRunThreadCount = 0
  /\ nExitThreadCount = 0
  /\ bMainThreadExit = FALSE
  /\ sigPc = -1
  /\ m_nRunStatus = [t \in Thread |-> "enNoRunning"]
  /\ pc = [t \in Thread |-> "unborn"]
  /\ nRunStatus = "enNoRunning"
  /\ msg = [t \in Thread |-> NoMsg]
  /\ m_msgqueue = [w \in Worker |-> <<>>]
  /\ quiet = Msg
  /\ ready = {}
  /\ batch = {}
  /\ handled = {}
  /\ lost = {}
  /\ late = [t \in Thread |-> 0]

-----------------------------------------------------------------------------
(***************************************************************************)
(* The main thread.  pthread_create makes the thread run its loop before   *)
(* main counts it and long before main marks it running.                   *)
(***************************************************************************)
MainUnchanged ==
  UNCHANGED <<nExitThreadCount, signalVars, msg, m_msgqueue, eventVars,
              handled, late>>

CreateThread ==
  /\ mainPc = "create"
  /\ pc' = [pc EXCEPT ![nextThread] = "loop"]
  /\ mainPc' = "count"
  /\ UNCHANGED <<nextThread, nRunThreadCount, m_nRunStatus>>
  /\ MainUnchanged

\* Mutant: ReactorThread::init forgets nRunThreadCount++.
CountThread_NotReactor ==
  /\ mainPc = "count"
  /\ nRunThreadCount' = nRunThreadCount + (IF nextThread = Reactor THEN 0 ELSE 1)
  /\ mainPc' = "start"
  /\ UNCHANGED <<nextThread, m_nRunStatus, pc>>
  /\ MainUnchanged

CountThread ==
  /\ mainPc = "count"
  /\ nRunThreadCount' = nRunThreadCount + 1
  /\ mainPc' = "start"
  /\ UNCHANGED <<nextThread, m_nRunStatus, pc>>
  /\ MainUnchanged

\* Mutant: the loop that creates threads runs once too often.
StartThread_OneTooMany ==
  /\ mainPc = "start"
  /\ m_nRunStatus' = [m_nRunStatus EXCEPT ![nextThread] = "enRunning"]
  /\ nextThread' = nextThread + 1
  /\ mainPc' = IF nextThread > LastThread THEN "open" ELSE "create"
  /\ UNCHANGED <<nRunThreadCount, pc>>
  /\ MainUnchanged

StartThread ==
  /\ mainPc = "start"
  /\ m_nRunStatus' = [m_nRunStatus EXCEPT ![nextThread] = "enRunning"]
  /\ nextThread' = nextThread + 1
  /\ mainPc' = IF nextThread = LastThread THEN "open" ELSE "create"
  /\ UNCHANGED <<nRunThreadCount, pc>>
  /\ MainUnchanged

\* The timers and the listening sockets are registered, the signal handlers
\* installed.
OpenAcceptors ==
  /\ mainPc = "open"
  /\ mainPc' = "serve"
  /\ UNCHANGED <<nextThread, nRunThreadCount, m_nRunStatus, pc>>
  /\ MainUnchanged

\* pthread_create, a timer or a listening socket fails: main returns -1 and
\* the process is gone, whatever the other threads are doing.
FailStart ==
  /\ mainPc \in {"create", "open"}
  /\ mainPc' = "failed"
  /\ UNCHANGED <<nextThread, nRunThreadCount, m_nRunStatus, pc>>
  /\ MainUnchanged

LeaveMainLoop ==
  /\ mainPc = "serve"
  /\ bMainThreadExit
  /\ nExitThreadCount = nRunThreadCount
  /\ mainPc' = "flush"
  /\ UNCHANGED <<nextThread, nRunThreadCount, m_nRunStatus, pc>>
  /\ MainUnchanged

\* flush_logrecord, and the acceptors are deleted.
FlushAndReturn ==
  /\ mainPc = "flush"
  /\ mainPc' = "done"
  /\ UNCHANGED <<nextThread, nRunThreadCount, m_nRunStatus, pc>>
  /\ MainUnchanged

Main ==
  \/ CreateThread \/ CountThread \/ StartThread \/ OpenAcceptors
  \/ LeaveMainLoop \/ FlushAndReturn

-----------------------------------------------------------------------------
(***************************************************************************)
(* The signal handler, run on whatever thread the kernel picks.  A second  *)
(* signal repeats the same assignments and changes nothing.                *)
(***************************************************************************)
SignalArrives ==
  /\ mainPc = "serve"
  /\ sigPc = -1
  /\ sigPc' = 0
  /\ UNCHANGED <<mainVars, nExitThreadCount, bMainThreadExit, m_nRunStatus,
                 pc, msg, m_msgqueue, eventVars, handled, late>>

StopNextThread ==
  /\ sigPc \in Thread
  /\ m_nRunStatus' = [m_nRunStatus EXCEPT ![StopOrder(sigPc)] = "enStopped"]
  /\ sigPc' = sigPc + 1
  /\ UNCHANGED <<mainVars, nExitThreadCount, bMainThreadExit, pc, msg,
                 m_msgqueue, eventVars, handled, late>>

LetMainExit ==
  /\ sigPc = LastThread + 1
  /\ ~bMainThreadExit
  /\ bMainThreadExit' = TRUE
  /\ UNCHANGED <<mainVars, nExitThreadCount, sigPc, m_nRunStatus, pc, msg,
                 m_msgqueue, eventVars, handled, late>>

Handler == StopNextThread \/ LetMainExit

-----------------------------------------------------------------------------
(***************************************************************************)
(* Event sources exist once main has started every message thread.         *)
(***************************************************************************)
Raise(m) ==
  /\ mainPc \in {"open", "serve"}
  /\ m \in quiet
  /\ quiet' = quiet \ {m}
  /\ ready' = ready \cup {m}
  /\ UNCHANGED <<mainVars, nExitThreadCount, signalVars, m_nRunStatus, pc, msg,
                 m_msgqueue, batch, lost, nRunStatus, handled, late>>

-----------------------------------------------------------------------------
(***************************************************************************)
(* Both kinds of thread test their run status at the top of their loop.    *)
(***************************************************************************)
\* Mutant: the loop forgets to look for enStopped.
EnterBody_EvenStopped(t) ==
  /\ pc[t] = "loop"
  /\ m_nRunStatus[t] # "enNoRunning"
  /\ pc' = [pc EXCEPT ![t] = "wait"]
  /\ UNCHANGED <<mainVars, nExitThreadCount, signalVars, m_nRunStatus, msg,
                 m_msgqueue, eventVars, handled, late>>

EnterBody(t) ==
  /\ pc[t] = "loop"
  /\ m_nRunStatus[t] = "enRunning"
  /\ pc' = [pc EXCEPT ![t] = "wait"]
  /\ UNCHANGED <<mainVars, nExitThreadCount, signalVars, m_nRunStatus, msg,
                 m_msgqueue, eventVars, handled, late>>

ExitThread(t) ==
  /\ pc[t] = "loop"
  /\ Stopped(t)
  /\ pc' = [pc EXCEPT ![t] = "exited"]
  /\ nExitThreadCount' = nExitThreadCount + 1
  /\ UNCHANGED <<mainVars, signalVars, m_nRunStatus, msg, m_msgqueue,
                 eventVars, handled, late>>

-----------------------------------------------------------------------------
(***************************************************************************)
(* The reactor.  handle_event gets the run status by value and holds it    *)
(* for the whole batch: a stop that comes later is seen only at the next   *)
(* turn of the loop.                                                       *)
(***************************************************************************)
ReactorUnchanged ==
  UNCHANGED <<mainVars, nExitThreadCount, signalVars, m_nRunStatus, quiet,
              handled>>

\* ReactorThread::start passes m_nRunStatus by value.
CallHandleEvent ==
  /\ pc[Reactor] = "wait"
  /\ pc' = [pc EXCEPT ![Reactor] = "poll"]
  /\ nRunStatus' = m_nRunStatus[Reactor]
  /\ UNCHANGED <<ready, batch, msg, m_msgqueue, lost, late>>
  /\ ReactorUnchanged

EpollWait ==
  /\ pc[Reactor] = "poll"
  /\ pc' = [pc EXCEPT ![Reactor] = "work"]
  /\ batch' = ready
  /\ ready' = {}
  /\ late' = IF Stopped(Reactor) THEN [late EXCEPT ![Reactor] = @ + 1] ELSE late
  /\ UNCHANGED <<nRunStatus, msg, m_msgqueue, lost>>
  /\ ReactorUnchanged

\* The next event's handle_input creates its message.
HandleInput(m) ==
  /\ pc[Reactor] = "work"
  /\ msg[Reactor] = NoMsg
  /\ m \in batch
  /\ nRunStatus # "enStopped"
  /\ batch' = batch \ {m}
  /\ IF socketfd[m] < 0
     THEN lost' = lost \cup {m} /\ UNCHANGED msg
     ELSE msg' = [msg EXCEPT ![Reactor] = m] /\ UNCHANGED lost
  /\ UNCHANGED <<pc, nRunStatus, ready, m_msgqueue, late>>
  /\ ReactorUnchanged

\* m_msgqueue allocates a node for every push: its push() never fails.
PushMessage(m) ==
  /\ pc[Reactor] = "work"
  /\ msg[Reactor] = m
  /\ m_msgqueue' = [m_msgqueue EXCEPT ![TargetThread(m)] = Append(@, m)]
  /\ msg' = [msg EXCEPT ![Reactor] = NoMsg]
  /\ UNCHANGED <<pc, nRunStatus, ready, batch, lost, late>>
  /\ ReactorUnchanged

\* Mutant: handle_event returns after the first event it dispatched.
EndBatch_AfterOne ==
  /\ pc[Reactor] = "work"
  /\ msg[Reactor] = NoMsg
  /\ pc' = [pc EXCEPT ![Reactor] = "loop"]
  /\ lost' = lost \cup batch
  /\ batch' = {}
  /\ UNCHANGED <<nRunStatus, ready, msg, m_msgqueue, late>>
  /\ ReactorUnchanged

\* The batch is dispatched, or abandoned because the reactor was stopped
\* before handle_event was called.
EndBatch ==
  /\ pc[Reactor] = "work"
  /\ msg[Reactor] = NoMsg
  /\ batch = {} \/ nRunStatus = "enStopped"
  /\ pc' = [pc EXCEPT ![Reactor] = "loop"]
  /\ lost' = lost \cup batch
  /\ batch' = {}
  /\ UNCHANGED <<nRunStatus, ready, msg, m_msgqueue, late>>
  /\ ReactorUnchanged

ReactorStep ==
  \/ EnterBody(Reactor) \/ ExitThread(Reactor)
  \/ CallHandleEvent \/ EpollWait \/ EndBatch
  \/ \E m \in Msg : HandleInput(m) \/ PushMessage(m)

-----------------------------------------------------------------------------
(***************************************************************************)
(* A message thread.  GetInnerMsg pops first and looks at the run status   *)
(* only when the queue was empty: at "empty" its last pop has failed, and  *)
(* either it returns NULL or it sleeps and pops again.                     *)
(***************************************************************************)
WorkerUnchanged ==
  UNCHANGED <<mainVars, nExitThreadCount, signalVars, m_nRunStatus, eventVars>>

\* Mutant: GetInnerMsg sleeps but does not pop again.
PopMessage_OnlyOnce(w) ==
  /\ pc[w] = "wait"
  /\ m_msgqueue[w] # <<>>
  /\ msg' = [msg EXCEPT ![w] = Head(m_msgqueue[w])]
  /\ m_msgqueue' = [m_msgqueue EXCEPT ![w] = Tail(@)]
  /\ pc' = [pc EXCEPT ![w] = "work"]
  /\ late' = IF Stopped(w) THEN [late EXCEPT ![w] = @ + 1] ELSE late
  /\ UNCHANGED handled
  /\ WorkerUnchanged

\* Mutant: the message is read but stays in the queue.
PopMessage_Peeks(w) ==
  /\ pc[w] \in {"wait", "empty"}
  /\ m_msgqueue[w] # <<>>
  /\ msg' = [msg EXCEPT ![w] = Head(m_msgqueue[w])]
  /\ UNCHANGED m_msgqueue
  /\ pc' = [pc EXCEPT ![w] = "work"]
  /\ late' = IF Stopped(w) THEN [late EXCEPT ![w] = @ + 1] ELSE late
  /\ UNCHANGED handled
  /\ WorkerUnchanged

PopMessage(w) ==
  /\ pc[w] \in {"wait", "empty"}
  /\ m_msgqueue[w] # <<>>
  /\ msg' = [msg EXCEPT ![w] = Head(m_msgqueue[w])]
  /\ m_msgqueue' = [m_msgqueue EXCEPT ![w] = Tail(@)]
  /\ pc' = [pc EXCEPT ![w] = "work"]
  /\ late' = IF Stopped(w) THEN [late EXCEPT ![w] = @ + 1] ELSE late
  /\ UNCHANGED handled
  /\ WorkerUnchanged

FindEmpty(w) ==
  /\ pc[w] = "wait"
  /\ m_msgqueue[w] = <<>>
  /\ pc' = [pc EXCEPT ![w] = "empty"]
  /\ UNCHANGED <<msg, m_msgqueue, handled, late>>
  /\ WorkerUnchanged

\* Mutant: GetInnerMsg looks only for enStopping, which nobody ever sets.
ReturnNull_OnStopping(w) ==
  /\ pc[w] = "empty"
  /\ m_nRunStatus[w] = "enStopping"
  /\ pc' = [pc EXCEPT ![w] = "loop"]
  /\ UNCHANGED <<msg, m_msgqueue, handled, late>>
  /\ WorkerUnchanged

ReturnNull(w) ==
  /\ pc[w] = "empty"
  /\ Stopped(w)
  /\ pc' = [pc EXCEPT ![w] = "loop"]
  /\ UNCHANGED <<msg, m_msgqueue, handled, late>>
  /\ WorkerUnchanged

ProcessInnerMsg(w) ==
  /\ pc[w] = "work"
  /\ handled' = handled \cup {msg[w]}
  /\ msg' = [msg EXCEPT ![w] = NoMsg]
  /\ pc' = [pc EXCEPT ![w] = "loop"]
  /\ UNCHANGED <<m_msgqueue, late>>
  /\ WorkerUnchanged

WorkerStep(w) ==
  \/ EnterBody(w) \/ ExitThread(w)
  \/ PopMessage(w) \/ FindEmpty(w) \/ ReturnNull(w) \/ ProcessInnerMsg(w)

-----------------------------------------------------------------------------
Terminated == mainPc \in {"done", "failed"} /\ UNCHANGED vars

Next ==
  \/ /\ mainPc # "failed"
     /\ \/ Main
        \/ FailStart
        \/ SignalArrives
        \/ Handler
        \/ \E m \in Msg : Raise(m)
        \/ ReactorStep
        \/ \E w \in Worker : WorkerStep(w)
  \/ Terminated

\* The reactor is scheduled, and so are the others: while some of main, the
\* handler and the message threads can move, one of them does.  That is less
\* than fairness to each of them, and enough, because each has only finitely
\* many steps to take.  Nothing forces an event, a signal or a failed start.
Fairness ==
  /\ WF_vars(/\ mainPc # "failed"
             /\ Main \/ Handler \/ \E w \in Worker : WorkerStep(w))
  /\ WF_vars(mainPc # "failed" /\ ReactorStep)

SafetySpec == Init /\ [][Next]_vars
Spec == SafetySpec /\ Fairness

-----------------------------------------------------------------------------
(***************************************************************************)
(* Properties.                                                             *)
(***************************************************************************)

\* The type of every variable.
TypeOK ==
  /\ mainPc \in MainPc
  /\ nextThread \in 0 .. LastThread + 1
  /\ nRunThreadCount \in Nat
  /\ nExitThreadCount \in Nat
  /\ bMainThreadExit \in BOOLEAN
  /\ sigPc \in -1 .. LastThread + 1
  /\ m_nRunStatus \in [Thread -> RunStatus]
  /\ pc \in [Thread -> ThreadPc]
  /\ nRunStatus \in RunStatus
  /\ msg \in [Thread -> Msg \cup {NoMsg}]
  /\ m_msgqueue \in [Worker -> Seq(Msg)]
  /\ quiet \subseteq Msg
  /\ ready \subseteq Msg
  /\ batch \subseteq Msg
  /\ handled \subseteq Msg
  /\ lost \subseteq Msg
  /\ late \in [Thread -> Nat]

\* main flushes the log, deletes the acceptors and returns only when every
\* thread it created has left its loop: comparing two counters that are
\* written without a common lock is enough.
MainExitsLast ==
  mainPc \in {"flush", "done"} => \A t \in Thread : pc[t] = "exited"

\* Once stopped, the reactor fetches at most one more batch of events and a
\* message thread pops at most one more message, however full its queue is.
StopIsPrompt == \A t \in Thread : late[t] <= 1

\* An event is thrown away only because the reactor was told to stop before it
\* fetched the batch, or because the event's connection was already released.
LossOnlyOnStop == \A m \in lost : socketfd[m] < 0 \/ Stopped(Reactor)

\* The messages a message thread still has to process, the one it holds first.
Outstanding(w) ==
  IF msg[w] = NoMsg THEN m_msgqueue[w] ELSE <<msg[w]>> \o m_msgqueue[w]

Held(t) == {msg[t]} \ {NoMsg}

Delivery ==
  INSTANCE MessageDelivery WITH
    Dest     <- Worker,
    target   <- [m \in Msg |-> TargetThread(m)],
    released <- {m \in Msg : socketfd[m] < 0},
    Source   <- Reactor,
    pending  <- ready \cup batch \cup Held(Reactor),
    queue    <- [w \in Worker |-> Outstanding(w)],
    stopped  <- {t \in Thread : Stopped(t)}

\* The threads, their queues and their status words implement MessageDelivery:
\* no interleaving of pushes, pops and stops duplicates a message, takes it to
\* another thread, lets one overtake another, or loses one that was queued.
ImplementsDelivery == Delivery!Spec

\* Every event reported to epoll is processed, unless the process is stopped
\* first or the event's connection was already released: no message is left
\* behind in a queue, not even by a thread that looked before it was pushed.  An
\* event happens once, so again and again all that have happened are processed.
EventsAreHandled ==
  []<>(\/ \A m \in Msg : m \in quiet \cup handled \/ socketfd[m] < 0
       \/ sigPc >= 0 \/ mainPc = "failed")

\* A signal always ends the process: every thread comes to the end of what it is
\* doing and sees that it is stopped, and main sees that all have.  sigPc
\* never becomes -1 again, so this is (sigPc >= 0) ~> (mainPc = "done").
ShutdownCompletes == []<>(sigPc = -1 \/ mainPc = "done")
=============================================================================
