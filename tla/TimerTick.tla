----------------------------- MODULE TimerTick -----------------------------
(***************************************************************************)
(* The two timers: a periodic timerfd each, watched edge-triggered by the  *)
(* reactor, each of whose events becomes a message for a thread of its     *)
(* own.  TInnerTOD sweeps m_setProxyManager and only then reads the        *)
(* timerfd, a blocking read, with m_mutex_proxyManager held from before    *)
(* the sweep until after the read.  TInnerTOLR writes the log and then     *)
(* reads its timerfd, but returns before the read when the log file of the *)
(* day cannot be opened.                                                   *)
(*                                                                         *)
(* The kernel arms a periodic timerfd again only when it is read: an       *)
(* expiration that is not read is the last one.                            *)
(***************************************************************************)
EXTENDS Naturals

CONSTANT Other  \* the threads that set connections up and tear them down

ASSUME OtherAssumption == {"nobody", "TOD"} \cap Other = {}

VARIABLES
  expired,    \* [Timer -> BOOLEAN], is there an expiration to read?
  ready,      \* timers on epoll's ready list
  batch,      \* timers epoll_wait returned and not yet dispatched
  queue,      \* [Timer -> Nat], messages in the queue of the timer's thread
  pc,         \* [Timer -> where its process_timeout_... function is]
  mutex,      \* who holds m_mutex_proxyManager: "nobody", "TOD" or an Other
  rollFailed  \* has the log thread ever failed to open the file of the day?

vars == <<expired, ready, batch, queue, pc, mutex, rollFailed>>

Timer == {"TOD", "TOLR"}
Pc    == {"idle", "lock", "sweep", "date", "write", "read"}

Init ==
  /\ expired = [t \in Timer |-> FALSE]
  /\ ready = {} /\ batch = {}
  /\ queue = [t \in Timer |-> 0]
  /\ pc = [t \in Timer |-> "idle"]
  /\ mutex = "nobody"
  /\ rollFailed = FALSE

-----------------------------------------------------------------------------
(***************************************************************************)
(* The kernel and the reactor.                                             *)
(***************************************************************************)
\* The interval passes on a timerfd that has been read since the last time.
Expire(t) ==
  /\ ~expired[t]
  /\ expired' = [expired EXCEPT ![t] = TRUE]
  /\ ready' = ready \cup {t}
  /\ UNCHANGED <<batch, queue, pc, mutex, rollFailed>>

EpollWait ==
  /\ batch = {} /\ ready # {}
  /\ batch' = {t \in ready : expired[t]}
  /\ ready' = {}
  /\ UNCHANGED <<expired, queue, pc, mutex, rollFailed>>

\* Mutant: handle_input also reads the timerfd, as level-triggering needs.
HandleInput_Reads(t) ==
  /\ t \in batch
  /\ batch' = batch \ {t}
  /\ queue' = [queue EXCEPT ![t] = @ + 1]
  /\ expired' = [expired EXCEPT ![t] = FALSE]
  /\ UNCHANGED <<ready, pc, mutex, rollFailed>>

\* TODisconnectEvent::handle_input and TOLogRecordEvent::handle_input.
HandleInput(t) ==
  /\ t \in batch
  /\ batch' = batch \ {t}
  /\ queue' = [queue EXCEPT ![t] = @ + 1]
  /\ UNCHANGED <<expired, ready, pc, mutex, rollFailed>>

-----------------------------------------------------------------------------
(***************************************************************************)
(* The timers' threads.                                                    *)
(***************************************************************************)
KernelUnchanged == UNCHANGED <<expired, ready, batch>>

\* Mutant: the NULL of an empty queue is taken for a message.
TakeMessage_Null(t) ==
  /\ pc[t] = "idle"
  /\ queue' = [queue EXCEPT ![t] = @ - 1]
  /\ pc' = [pc EXCEPT ![t] = IF t = "TOD" THEN "lock" ELSE "date"]
  /\ UNCHANGED <<mutex, rollFailed>> /\ KernelUnchanged

TakeMessage(t) ==
  /\ pc[t] = "idle" /\ queue[t] > 0
  /\ queue' = [queue EXCEPT ![t] = @ - 1]
  /\ pc' = [pc EXCEPT ![t] = IF t = "TOD" THEN "lock" ELSE "date"]
  /\ UNCHANGED <<mutex, rollFailed>> /\ KernelUnchanged

Lock ==
  /\ pc["TOD"] = "lock" /\ mutex = "nobody"
  /\ mutex' = "TOD"
  /\ pc' = [pc EXCEPT !["TOD"] = "sweep"]
  /\ UNCHANGED <<queue, rollFailed>> /\ KernelUnchanged

\* Mutants: the sweep returns early, without the read; or it calls
\* delete_proxy_manager, which locks the mutex again.
Sweep_NoRead ==
  /\ pc["TOD"] = "sweep"
  /\ pc' = [pc EXCEPT !["TOD"] = "idle"]
  /\ mutex' = "nobody"
  /\ UNCHANGED <<queue, rollFailed>> /\ KernelUnchanged

Sweep_Relocks ==
  /\ pc["TOD"] = "sweep" /\ mutex = "nobody"
  /\ pc' = [pc EXCEPT !["TOD"] = "read"]
  /\ UNCHANGED <<queue, mutex, rollFailed>> /\ KernelUnchanged

Sweep ==
  /\ pc["TOD"] = "sweep"
  /\ pc' = [pc EXCEPT !["TOD"] = "read"]
  /\ UNCHANGED <<queue, mutex, rollFailed>> /\ KernelUnchanged

\* The date is the same, or the new file is opened.
DateIsFine ==
  /\ pc["TOLR"] = "date"
  /\ pc' = [pc EXCEPT !["TOLR"] = "write"]
  /\ UNCHANGED <<queue, mutex, rollFailed>> /\ KernelUnchanged

\* fopen fails: return -1, past the read.
RollFails ==
  /\ pc["TOLR"] = "date"
  /\ pc' = [pc EXCEPT !["TOLR"] = "idle"]
  /\ rollFailed' = TRUE
  /\ UNCHANGED <<queue, mutex>> /\ KernelUnchanged

\* Mutant: an empty queue of lines is a reason to return early.
WriteLines_MayReturn ==
  /\ pc["TOLR"] = "write"
  /\ pc' \in {[pc EXCEPT !["TOLR"] = p] : p \in {"read", "idle"}}
  /\ UNCHANGED <<queue, mutex, rollFailed>> /\ KernelUnchanged

WriteLines ==
  /\ pc["TOLR"] = "write"
  /\ pc' = [pc EXCEPT !["TOLR"] = "read"]
  /\ UNCHANGED <<queue, mutex, rollFailed>> /\ KernelUnchanged

\* read() waits for an expiration, takes it and arms the timer again; the
\* AutoMutexLock of TInnerTOD goes out of scope.
Read(t) ==
  /\ pc[t] = "read" /\ expired[t]
  /\ expired' = [expired EXCEPT ![t] = FALSE]
  /\ pc' = [pc EXCEPT ![t] = "idle"]
  /\ mutex' = IF t = "TOD" THEN "nobody" ELSE mutex
  /\ UNCHANGED <<ready, batch, queue, rollFailed>>

-----------------------------------------------------------------------------
\* add_proxy_manager and delete_proxy_manager of the other threads.
OtherLocks(o) ==
  /\ mutex = "nobody" /\ mutex' = o
  /\ UNCHANGED <<queue, pc, rollFailed>> /\ KernelUnchanged

OtherUnlocks(o) ==
  /\ mutex = o /\ mutex' = "nobody"
  /\ UNCHANGED <<queue, pc, rollFailed>> /\ KernelUnchanged

Tod  == TakeMessage("TOD") \/ Sweep \/ Read("TOD")
Tolr == TakeMessage("TOLR") \/ DateIsFine \/ RollFails \/ WriteLines \/ Read("TOLR")

Next ==
  \/ \E t \in Timer : Expire(t) \/ HandleInput(t)
  \/ EpollWait \/ Tod \/ Lock \/ Tolr
  \/ \E o \in Other : OtherLocks(o) \/ OtherUnlocks(o)

\* Time passes, the threads are scheduled, the reactor is not kept for ever in
\* AcceptorEvent::handle_input (Acceptor's Stuck) and is not stopped, the others
\* leave their critical sections, and the mutex is not withheld from a thread for
\* ever.
Fairness ==
  /\ \A t \in Timer : WF_vars(Expire(t)) /\ WF_vars(HandleInput(t))
  /\ WF_vars(EpollWait)
  /\ WF_vars(Tod) /\ SF_vars(Lock) /\ WF_vars(Tolr)
  /\ WF_vars(\E o \in Other : OtherUnlocks(o))

Spec == Init /\ [][Next]_vars /\ Fairness

-----------------------------------------------------------------------------
\* The type of every variable.
TypeOK ==
  /\ expired \in [Timer -> BOOLEAN]
  /\ ready \subseteq Timer /\ batch \subseteq Timer
  /\ queue \in [Timer -> Nat]
  /\ pc \in [Timer -> Pc]
  /\ mutex \in {"nobody", "TOD"} \cup Other
  /\ rollFailed \in BOOLEAN

OnItsWay(t) == t \in ready \/ t \in batch \/ queue[t] > 0 \/ pc[t] # "idle"

\* An expiration nobody has read is in epoll, in the reactor's hands, in a
\* message or in the running call.  Only the log's is ever given up, by a roll that
\* failed.
TickNotLost ==
  \A t \in Timer : expired[t] => OnItsWay(t) \/ (t = "TOLR" /\ rollFailed)

\* The reads are blocking, and the one of the idle sweep is done with the mutex
\* held that every set-up and tear-down needs: they always find an expiration,
\* because each one is reported once and read by the call it gave rise to.
ReadNeverBlocks == \A t \in Timer : pc[t] = "read" => expired[t]

\* Idle connections are looked for again and again, and the mutex is let go
\* again and again, whatever the log's timer does.
SweepsForever == []<>(pc["TOD"] = "sweep") /\ []<>(mutex # "TOD")

\* The log is written again and again, unless a roll fails.
LogIsWritten == []<>(pc["TOLR"] = "write") \/ <>rollFailed
=============================================================================
