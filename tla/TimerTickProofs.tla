-------------------------- MODULE TimerTickProofs --------------------------
(***************************************************************************)
(* The safety properties of TimerTick, for any number of other threads     *)
(* that compete for the mutex.                                             *)
(***************************************************************************)
EXTENDS TimerTick, TLAPS

\* Where the expiration of timer t is on its way.
InEpoll(t) == t \in ready /\ t \notin batch /\ queue[t] = 0 /\ pc[t] = "idle"
InBatch(t) == t \notin ready /\ t \in batch /\ queue[t] = 0 /\ pc[t] = "idle"
InQueue(t) == t \notin ready /\ t \notin batch /\ queue[t] = 1 /\ pc[t] = "idle"
InCall(t)  == t \notin ready /\ t \notin batch /\ queue[t] = 0 /\ pc[t] # "idle"
Nowhere(t) == t \notin ready /\ t \notin batch /\ queue[t] = 0 /\ pc[t] = "idle"

\* An expiration is in exactly one place; without one, nothing is on its way.
OnePlace(t) ==
  \/ Nowhere(t) /\ (expired[t] => t = "TOLR" /\ rollFailed)
  \/ expired[t] /\ (InEpoll(t) \/ InBatch(t) \/ InQueue(t) \/ InCall(t))

\* Each thread runs its own function.
OwnPc ==
  /\ pc["TOD"] \in {"idle", "lock", "sweep", "read"}
  /\ pc["TOLR"] \in {"idle", "date", "write", "read"}

IInv == TypeOK /\ OwnPc /\ \A t \in Timer : OnePlace(t)

-----------------------------------------------------------------------------
\* Nothing has expired when the timers are registered (TODisconnectEvent::init,
\* TOLogRecordEvent::init).
LEMMA InitIInv == ASSUME Init PROVE IInv
<1>1. TypeOK /\ OwnPc
  BY DEF Init, TypeOK, OwnPc, Pc, Timer
<1>2. \A t \in Timer : OnePlace(t)
  BY DEF Init, OnePlace, Nowhere
<1>. QED  BY <1>1, <1>2 DEF IInv

\* Every action keeps the types.
LEMMA TypeStep == ASSUME TypeOK, OwnPc, [Next]_vars PROVE TypeOK' /\ OwnPc'
<1>. USE DEF TypeOK, OwnPc, Timer, Pc, KernelUnchanged
<1>1. CASE \E t \in Timer : Expire(t)
  BY <1>1 DEF Expire
<1>2. CASE \E t \in Timer : HandleInput(t)
  BY <1>2 DEF HandleInput
<1>3. CASE EpollWait
  BY <1>3 DEF EpollWait
<1>4. CASE \E t \in Timer : TakeMessage(t)
  BY <1>4 DEF TakeMessage
<1>5. CASE Lock \/ Sweep
  BY <1>5 DEF Lock, Sweep
<1>6. CASE DateIsFine \/ RollFails \/ WriteLines
  BY <1>6 DEF DateIsFine, RollFails, WriteLines
<1>7. CASE \E t \in Timer : Read(t)
  BY <1>7 DEF Read
<1>8. CASE \E o \in Other : OtherLocks(o) \/ OtherUnlocks(o)
  BY <1>8 DEF OtherLocks, OtherUnlocks
<1>9. CASE UNCHANGED vars
  BY <1>9 DEF vars
<1>. QED  BY <1>1, <1>2, <1>3, <1>4, <1>5, <1>6, <1>7, <1>8, <1>9
          DEF Next, Tod, Tolr

\* Every action takes an expiration from its place to the next.
LEMMA PlaceStep ==
  ASSUME IInv, [Next]_vars, NEW u \in Timer PROVE OnePlace(u)'
<1>. USE DEF IInv, TypeOK, OnePlace, InEpoll, InBatch, InQueue, InCall, Nowhere,
             KernelUnchanged
<1>1. CASE \E t \in Timer : Expire(t)
  BY <1>1 DEF Expire
<1>2. CASE \E t \in Timer : HandleInput(t)
  BY <1>2 DEF HandleInput
<1>3. CASE EpollWait
  BY <1>3 DEF EpollWait
<1>4. CASE \E t \in Timer : TakeMessage(t)
  BY <1>4 DEF TakeMessage
<1>5. CASE Lock \/ Sweep
  BY <1>5 DEF Lock, Sweep
<1>6. CASE DateIsFine \/ WriteLines
  BY <1>6 DEF DateIsFine, WriteLines
<1>7. CASE RollFails
  BY <1>7 DEF RollFails
<1>8. CASE \E t \in Timer : Read(t)
  BY <1>8 DEF Read
<1>9. CASE \E o \in Other : OtherLocks(o) \/ OtherUnlocks(o)
  BY <1>9 DEF OtherLocks, OtherUnlocks
<1>10. CASE UNCHANGED vars
  BY <1>10 DEF vars
<1>. HIDE DEF IInv, TypeOK, OnePlace, InEpoll, InBatch, InQueue, InCall, Nowhere,
              KernelUnchanged
<1>. QED  BY <1>1, <1>2, <1>3, <1>4, <1>5, <1>6, <1>7, <1>8, <1>9, <1>10
          DEF Next, Tod, Tolr, Timer

\* Every step of the kernel, the reactor and the threads keeps the invariant.
LEMMA NextIInv == ASSUME IInv, [Next]_vars PROVE IInv'
  BY TypeStep, PlaceStep DEF IInv

\* The inductive invariant holds in every reachable state.
THEOREM Invariance == Spec => []IInv
  BY InitIInv, NextIInv, PTL DEF Spec

\* Every variable keeps its type.
THEOREM TypeCorrect == Spec => []TypeOK
<1>1. IInv => TypeOK
  BY DEF IInv
<1>. QED  BY <1>1, Invariance, PTL

\* An expiration nobody has read is in epoll, in the reactor's hands, in a message
\* or in the running call, unless a roll of the log failed (EpollReactor::
\* handle_event, handle_input, process_timeout_logrecord_message).
THEOREM NoTickIsLost == Spec => []TickNotLost
<1>1. IInv => TickNotLost
  BY DEF IInv, TypeOK, OnePlace, InEpoll, InBatch, InQueue, InCall, TickNotLost,
         OnItsWay
<1>. QED  BY <1>1, Invariance, PTL

\* The read that process_timeout_disconnect_message does with the mutex held, and
\* the one of process_timeout_logrecord_message, always find an expiration.
THEOREM NeverBlocks == Spec => []ReadNeverBlocks
<1>1. IInv => ReadNeverBlocks
  BY DEF IInv, OnePlace, Nowhere, ReadNeverBlocks
<1>. QED  BY <1>1, Invariance, PTL
=============================================================================
