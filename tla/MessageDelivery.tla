-------------------------- MODULE MessageDelivery --------------------------
(***************************************************************************)
(* What the thread skeleton promises, without threads, locks or status     *)
(* words: every event that happens becomes one message, each message is    *)
(* put once at the end of the queue of its thread and processed once, in   *)
(* the order of that queue.  A message is thrown away only before it is    *)
(* queued, and only if its connection had been released when it was        *)
(* created, or if the source was told to stop.                             *)
(***************************************************************************)
EXTENDS Sequences

CONSTANTS
  Msg,       \* the messages that may come into being
  Dest,      \* the threads that process them
  target,    \* [Msg -> Dest]
  released,  \* the messages of connections that are no longer there
  Source     \* the thread that creates the messages

VARIABLES
  quiet,    \* events that have not happened
  pending,  \* events that have happened and are in no queue yet
  queue,    \* [Dest -> Seq(Msg)], the message being processed first
  handled,  \* messages that have been processed
  lost,     \* messages that have been thrown away
  stopped   \* threads that have been told to stop

vars == <<quiet, pending, queue, handled, lost, stopped>>

Init ==
  /\ quiet = Msg
  /\ pending = {}
  /\ queue = [d \in Dest |-> <<>>]
  /\ handled = {}
  /\ lost = {}
  /\ stopped = {}

Happen(m) ==
  /\ m \in quiet
  /\ quiet' = quiet \ {m}
  /\ pending' = pending \cup {m}
  /\ UNCHANGED <<queue, handled, lost, stopped>>

Accept(m) ==
  /\ m \in pending
  /\ pending' = pending \ {m}
  /\ queue' = [queue EXCEPT ![target[m]] = Append(@, m)]
  /\ UNCHANGED <<quiet, handled, lost, stopped>>

Process(d) ==
  /\ queue[d] # <<>>
  /\ handled' = handled \cup {Head(queue[d])}
  /\ queue' = [queue EXCEPT ![d] = Tail(@)]
  /\ UNCHANGED <<quiet, pending, lost, stopped>>

MayLose(m) == m \in released \/ Source \in stopped

Lose ==
  /\ pending' \subseteq pending
  /\ \A m \in pending \ pending' : MayLose(m)
  /\ lost' = lost \cup (pending \ pending')
  /\ UNCHANGED <<quiet, queue, handled, stopped>>

Stop(t) ==
  /\ stopped' = stopped \cup {t}
  /\ UNCHANGED <<quiet, pending, queue, handled, lost>>

Next ==
  \/ Lose
  \/ \E m \in Msg : Happen(m) \/ Accept(m)
  \/ \E d \in Dest : Process(d)
  \/ \E t \in Dest \cup {Source} : Stop(t)

Spec == Init /\ [][Next]_vars
=============================================================================
