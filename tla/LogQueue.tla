------------------------------ MODULE LogQueue -----------------------------
(***************************************************************************)
(* The log: LOG_xxx pushes a line on g_logger's queue, the TInnerTOLR      *)
(* thread, once per tick of its timer, pops a batch of lines and writes    *)
(* them to the file of the day, and main, when every other thread has      *)
(* left, flushes what remains, and then logs one last line.                *)
(*                                                                         *)
(* A line is its producer and its number there.  The queue allocates a     *)
(* node for every push, so a push never fails.  Of the timer only this is  *)
(* kept: it ticks as long as every tick ends in the read of its timerfd    *)
(* (TimerTick models the rest).                                            *)
(***************************************************************************)
EXTENDS Integers, Sequences, FiniteSets

CONSTANTS
  Producer,   \* the threads that log, main excepted
  LineBound,  \* bound: lines each of them logs
  BatchSize,  \* 5000
  DayBound,   \* bound: the last day
  Main, Tolr  \* the two threads that log besides the producers

ASSUME LogAssumption ==
  /\ LineBound \in Nat /\ BatchSize \in Nat \ {0}
  /\ DayBound \in Nat
  /\ Main # Tolr /\ {Main, Tolr} \cap Producer = {}

Logger == Producer \cup {Main, Tolr}
Line   == Logger \X Nat

VARIABLES
  logged,       \* [Logger -> Nat], lines each thread has begun to log
  pushing,      \* [Logger -> Seq(Line)], the line a thread has formatted
  m_logQueue,   \* Seq(Line)
  written,      \* Seq(Line), what reached a file
  swallowed,    \* lines popped and never written
  item_count,   \* lines written in the current batch
  tolr,         \* where the TInnerTOLR thread is
  day,          \* today
  strLastDate,  \* the day of the last attempt to roll
  pLogFile,     \* the day whose file is open
  armed,        \* will the timerfd tick again?
  mainPc        \* "serve", "flush", "last" or "done"

logVars  == <<logged, pushing, m_logQueue>>
fileVars == <<strLastDate, pLogFile, armed>>
vars == <<logVars, written, swallowed, item_count, tolr, day, fileVars, mainPc>>

\* main sets strLastDate and then CConfig opens the file of its own today:
\* midnight may fall in between.
Init ==
  /\ logged = [p \in Logger |-> 0]
  /\ pushing = [p \in Logger |-> <<>>]
  /\ m_logQueue = <<>> /\ written = <<>>
  /\ swallowed = {}
  /\ item_count = 0 /\ tolr = "idle"
  /\ day \in {d \in 0 .. 1 : d <= DayBound}
  /\ strLastDate = 0 /\ pLogFile = day /\ armed = TRUE
  /\ mainPc = "serve"

-----------------------------------------------------------------------------
(***************************************************************************)
(* LogLockFreeQueue::push.                                                 *)
(***************************************************************************)
Begin(p) ==
  /\ pushing[p] = <<>>
  /\ logged' = [logged EXCEPT ![p] = @ + 1]
  /\ pushing' = [pushing EXCEPT ![p] = << <<p, logged[p]>> >>]

\* Mutant: a stack instead of a queue.
Push_OnTop(p) ==
  /\ pushing[p] # <<>>
  /\ m_logQueue' = pushing[p] \o m_logQueue
  /\ pushing' = [pushing EXCEPT ![p] = <<>>]
  /\ UNCHANGED <<logged, written, swallowed, item_count, tolr, day,
                 fileVars, mainPc>>

Push(p) ==
  /\ pushing[p] # <<>>
  /\ m_logQueue' = Append(m_logQueue, Head(pushing[p]))
  /\ pushing' = [pushing EXCEPT ![p] = <<>>]
  /\ UNCHANGED <<logged, written, swallowed, item_count, tolr, day,
                 fileVars, mainPc>>

\* A thread of the server logs something.
Log(p) ==
  /\ mainPc = "serve" /\ logged[p] < LineBound
  /\ Begin(p)
  /\ UNCHANGED <<m_logQueue, written, swallowed, item_count, tolr, day,
                 fileVars, mainPc>>

-----------------------------------------------------------------------------
(***************************************************************************)
(* process_timeout_logrecord_message.                                      *)
(***************************************************************************)
\* Midnight.
NextDay ==
  /\ day < DayBound
  /\ day' = day + 1
  /\ UNCHANGED <<logVars, written, swallowed, item_count, tolr, fileVars, mainPc>>

\* Mutant: item_count is a member and is not reset.
Tick_NoReset ==
  /\ tolr = "idle" /\ armed /\ mainPc = "serve"
  /\ tolr' = "roll"
  /\ UNCHANGED <<logVars, written, swallowed, item_count, day, fileVars, mainPc>>

\* The timer's message is taken.
Tick ==
  /\ tolr = "idle" /\ armed /\ mainPc = "serve"
  /\ tolr' = "roll"
  /\ item_count' = 0
  /\ UNCHANGED <<logVars, written, swallowed, day, fileVars, mainPc>>

\* The date is compared, and a new file opened, or not opened.
SameDay ==
  /\ tolr = "roll" /\ strLastDate = day
  /\ tolr' = "drain"
  /\ UNCHANGED <<logVars, written, swallowed, item_count, day, fileVars, mainPc>>

\* Mutant: the new file is opened and closed again instead of the old one.
Roll_KeepsOld ==
  /\ tolr = "roll" /\ strLastDate # day
  /\ strLastDate' = day
  /\ tolr' = "drain"
  /\ UNCHANGED <<logVars, written, swallowed, item_count, day, pLogFile,
                 armed, mainPc>>

Roll ==
  /\ tolr = "roll" /\ strLastDate # day
  /\ strLastDate' = day
  /\ pLogFile' = day
  /\ tolr' = "drain"
  /\ UNCHANGED <<logVars, written, swallowed, item_count, day, armed,
                 mainPc>>

\* fopen fails: the thread logs the error and returns, past the batch and past
\* the read that would arm the timer again.
RollFails ==
  /\ tolr = "roll" /\ strLastDate # day
  /\ strLastDate' = day
  /\ armed' = FALSE
  /\ tolr' = "complain"
  /\ Begin(Tolr)
  /\ UNCHANGED <<m_logQueue, written, swallowed, item_count, day,
                 pLogFile, mainPc>>

Complained ==
  /\ tolr = "complain" /\ pushing[Tolr] = <<>>
  /\ tolr' = "idle"
  /\ UNCHANGED <<logVars, written, swallowed, item_count, day, fileVars, mainPc>>

\* Mutant: item_count <= 5000.
PopAndWrite_OneMore ==
  /\ tolr = "drain" /\ m_logQueue # <<>> /\ item_count <= BatchSize
  /\ written' = Append(written, Head(m_logQueue))
  /\ m_logQueue' = Tail(m_logQueue)
  /\ item_count' = item_count + 1
  /\ UNCHANGED <<logged, pushing, swallowed, tolr, day, fileVars, mainPc>>

\* pop() succeeds and the batch is not full: the line is written.
PopAndWrite ==
  /\ tolr = "drain" /\ m_logQueue # <<>> /\ item_count < BatchSize
  /\ written' = Append(written, Head(m_logQueue))
  /\ m_logQueue' = Tail(m_logQueue)
  /\ item_count' = item_count + 1
  /\ UNCHANGED <<logged, pushing, swallowed, tolr, day, fileVars, mainPc>>

\* Mutant: a full batch ends the function past the read of the timerfd.
PopAndStop_Leaves ==
  /\ tolr = "drain" /\ m_logQueue # <<>> /\ item_count >= BatchSize
  /\ swallowed' = swallowed \cup {Head(m_logQueue)}
  /\ m_logQueue' = Tail(m_logQueue)
  /\ tolr' = "left"
  /\ UNCHANGED <<logged, pushing, written, item_count, day, fileVars,
                 mainPc>>

\* pop() succeeds before item_count is looked at: the line it took is gone.
PopAndStop ==
  /\ tolr = "drain" /\ m_logQueue # <<>> /\ item_count >= BatchSize
  /\ swallowed' = swallowed \cup {Head(m_logQueue)}
  /\ m_logQueue' = Tail(m_logQueue)
  /\ tolr' = "idle"
  /\ UNCHANGED <<logged, pushing, written, item_count, day, fileVars,
                 mainPc>>

FindEmpty ==
  /\ tolr = "drain" /\ m_logQueue = <<>>
  /\ tolr' = "idle"
  /\ UNCHANGED <<logVars, written, swallowed, item_count, day, fileVars, mainPc>>

-----------------------------------------------------------------------------
(***************************************************************************)
(* The end of main.  It gets there when every other thread has left.       *)
(***************************************************************************)
OthersLeft ==
  /\ tolr = "idle"
  /\ \A p \in Logger : pushing[p] = <<>>

BeginFlush ==
  /\ mainPc = "serve" /\ OthersLeft
  /\ mainPc' = "flush"
  /\ UNCHANGED <<logVars, written, swallowed, item_count, tolr, day, fileVars>>

\* Mutant: the queue is emptied and not written.
FlushLine_Discards ==
  /\ mainPc = "flush" /\ m_logQueue # <<>>
  /\ m_logQueue' = Tail(m_logQueue)
  /\ UNCHANGED <<logged, pushing, written, swallowed, item_count, tolr,
                 day, fileVars, mainPc>>

FlushLine ==
  /\ mainPc = "flush" /\ m_logQueue # <<>>
  /\ written' = Append(written, Head(m_logQueue))
  /\ m_logQueue' = Tail(m_logQueue)
  /\ UNCHANGED <<logged, pushing, swallowed, item_count, tolr, day,
                 fileVars, mainPc>>

\* Mutant: the flush has a limit, like the batches.
EndFlush_AnyTime ==
  /\ mainPc = "flush"
  /\ mainPc' = "last"
  /\ Begin(Main)
  /\ UNCHANGED <<m_logQueue, written, swallowed, item_count, tolr, day,
                 fileVars>>

\* "Main Thread Exit !" is logged after the flush.
EndFlush ==
  /\ mainPc = "flush" /\ m_logQueue = <<>>
  /\ mainPc' = "last"
  /\ Begin(Main)
  /\ UNCHANGED <<m_logQueue, written, swallowed, item_count, tolr, day,
                 fileVars>>

Return ==
  /\ mainPc = "last" /\ pushing[Main] = <<>>
  /\ mainPc' = "done"
  /\ UNCHANGED <<logVars, written, swallowed, item_count, tolr, day, fileVars>>

-----------------------------------------------------------------------------
TolrStep ==
  \/ SameDay \/ Roll \/ RollFails \/ Complained
  \/ PopAndWrite \/ PopAndStop \/ FindEmpty
MainStep == BeginFlush \/ FlushLine \/ EndFlush \/ Return
PushStep == \E p \in Logger : Push(p)

Next ==
  \/ \E p \in Producer \cup {Main} : Log(p)
  \/ PushStep \/ NextDay \/ Tick \/ TolrStep \/ MainStep
  \/ mainPc = "done" /\ UNCHANGED vars

\* The timer ticks, and every thread is scheduled.  Nothing makes main leave.
Fairness ==
  /\ WF_vars(PushStep) /\ WF_vars(Tick) /\ WF_vars(TolrStep)
  /\ WF_vars(FlushLine \/ EndFlush \/ Return)

Spec == Init /\ [][Next]_vars /\ Fairness

-----------------------------------------------------------------------------
InQueue(l) == \E k \in 1 .. Len(m_logQueue) : m_logQueue[k] = l
Times(l, s) == Cardinality({k \in 1 .. Len(s) : s[k] = l})

\* The type of every variable.
TypeOK ==
  /\ logged \in [Logger -> Nat]
  /\ pushing \in [Logger -> Seq(Line)]
  /\ m_logQueue \in Seq(Line) /\ written \in Seq(Line)
  /\ swallowed \subseteq Line
  /\ item_count \in 0 .. BatchSize
  /\ tolr \in {"idle", "roll", "complain", "drain"}
  /\ day \in Nat /\ strLastDate \in Nat /\ pLogFile \in Nat
  /\ armed \in BOOLEAN
  /\ mainPc \in {"serve", "flush", "last", "done"}

\* Every line a thread ever logged is in exactly one place: about to be
\* pushed, queued, written once, or the line that a full batch has popped.
LinesAccounted ==
  \A p \in Logger : \A n \in 0 .. logged[p] - 1 :
    LET l == <<p, n>>
    IN  Times(l, pushing[p]) + Times(l, m_logQueue) + Times(l, written)
          + Cardinality({l} \cap swallowed) = 1

\* The lines of one thread reach the file in the order it logged them.
OrderKept ==
  \A i, j \in 1 .. Len(written) :
    i < j /\ written[i][1] = written[j][1] => written[i][2] < written[j][2]

\* The consumer loses at most one line for every full batch it writes.
SwallowBound == BatchSize * Cardinality(swallowed) <= Len(written)

\* A batch is written to the file of the day its tick saw: the file that main
\* opened is replaced even when midnight fell between strLastDate and CConfig, and
\* a roll that failed is not followed by a batch into the old file.
RightFile == tolr = "drain" => pLogFile = strLastDate

\* When main returns, nothing is left unwritten but its own last line.
FlushedAtExit ==
  mainPc = "done" =>
    \A k \in 1 .. Len(m_logQueue) : m_logQueue[k] = <<Main, logged[Main] - 1>>

\* Every line of a thread leaves the queue again, unless a roll fails: a batch
\* limit, a midnight or the exit of main does not strand it there.
LinesLeaveQueue ==
  \A p \in Producer : \A n \in 0 .. LineBound - 1 :
    InQueue(<<p, n>>) ~> ~InQueue(<<p, n>>) \/ ~armed

\* The error that a failed roll logs comes out of the log while the server runs.
\* It does not: the thread that would write it has returned without reading the
\* timerfd, which is never heard of again.
RollFailureIsReported ==
  tolr = "complain" ~> \/ Times(<<Tolr, 0>>, written) = 1
                       \/ mainPc # "serve"
=============================================================================
