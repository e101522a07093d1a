# Specifications of epoll_thread_group

epoll_thread_group is a TCP proxy: one reactor thread waits in `epoll_wait` and
turns every event into a message, groups of message threads take the messages
from lock-free queues and act on them. Each accepted client is paired with one
connection to a fixed upstream, and whatever one side sends is sent on to the
other. This directory holds TLA+ specifications of it, translated from the code
in `src/src`, the TLC configurations that check them, and proofs for TLAPS.

`tlc -config X.cfg M` checks one run; `tlapm M.tla` checks the proofs of
ThreadGroupProofs, ProxyLifecycleProofs, RelayRefinement, AcceptorProofs, TimerTickProofs, LogQueueProofs and ConfigFileProofs.
`PROJECT.json` lists the runs, says which lines each definition stands for, and
gives for every property a mutated definition that makes TLC find it violated.

## 1. The system

| component | code | state it keeps | operations |
|---|---|---|---|
| main and the signal handler | `main.cpp` | `nRunThreadCount`, `nExitThreadCount`, `bMainThreadExit` | start everything, wait for the counters, flush the log, return; SIGINT and SIGQUIT stop every thread |
| reactor | `ReactorThread`, `EpollReactor`, `IThread` | run status, the epoll set (edge-triggered) | fetch a batch, call `handle_input` on each event; (un)register a descriptor |
| message threads | `InnerMsgThread`, `InnerMsg` | run status, `m_msgqueue` | push (from the reactor), pop and process; THREAD_COUNT accept threads, as many client/server threads, one idle-timer and one log thread |
| dispatch and connections table | `AppManager` | thread arrays, `m_setProxyManager` and its mutex | choose the thread `m_socketfd % THREAD_COUNT` of the message's group; add and delete managers; process each kind of message |
| acceptor | `AcceptorEvent`, `parse_listen_ports`, `main` | the ports, one listening socket each | parse LISTEN_PORT, open the ports in ascending order; accept until EAGAIN, one message per client |
| proxied connection | `ProxyManager`, `ProxyClient`, `ProxyServer` | two `m_socketfd`, `m_bRelease`, `m_nLastTime` | set-up in an accept thread, relay and tear-down in a client/server thread, tear-down by the idle sweep |
| idle timer | `TODisconnectEvent` | a timerfd of 5 s, edge-triggered | each tick a message; its processing sweeps the table, then reads the timerfd, the only thing that makes it tick again |
| log | `LogLockFreeQueue`, `TOLogRecordEvent`, `log.h` | queue of lines, a timerfd of 1 s, `pLogFile`, `strLastDate` | push; each second write up to 5000 lines and roll the file at midnight; flush at exit |
| configuration | `ConfigInit`, `FileReader` | `m_IniMap`, the values of `HostInfo.cfg` | read once by main before any thread exists |

How they interact. Event sources call nothing but `handle_input`, on the reactor
thread; `handle_input` reads the ProxyManager through the pointer registered in
epoll and pushes a message holding the same pointer. The message threads call
back into the ProxyManager, into epoll (register, unregister) and into the
table. The only lock is `m_mutex_proxyManager`, and it covers the table alone:
the managers, the descriptors in them and the run statuses are shared without
one. The log is pushed by everybody and popped by the log thread or, at the
very end, by main.

What is hard about it, and therefore modelled:

* pointers in epoll, in a batch already returned, in messages and in the
  table outlive the ProxyManager they point to, and addresses are reused;
* descriptor numbers are copied (`get_server_socket`) or closed a statement
  before they are set to -1, and the kernel reuses them at once;
* a manager is registered in epoll before it is in the table, so it can be torn
  down while it is still being set up;
* edge-triggered events come once, for sockets, listeners and timers;
* the reactor accepts while main still opens ports, and retries accept() for ever
  when there is no descriptor to give;
* reads and sends of unknown size through a buffer of 56K;
* shutdown: a handful of unsynchronised status words and two counters decide
  when main may return;
* the timer threads read their timerfds, blocking, one of them with the mutex
  held, and an expiration nobody reads is the last one;
* the log drops lines where a batch is full and rolls its file once a day.

What makes each component correct, before it is made formal: the skeleton starts
and stops exactly the threads it counts, delivers every event while it runs and
always comes to an end; a connection, once accepted, is relayed to its own
upstream only, and a close of either end, an idle time or a failed set-up frees
everything it holds, once; what it relays stays in order, and the bytes it may
lose can be named; nobody who connects is forgotten by the acceptor; both timers
keep ticking; the log accounts for every line and keeps the order of each
thread; a setting has the value its last entry gives it.

## 2. Modules

### ThreadGroup - threads, queues, start-up and shutdown

`mainPc` follows `main`: for each thread CreateThread (`pthread_create`),
CountThread (`nRunThreadCount++`), StartThread (`start_thread`), so that a
thread runs its loop before it is counted and before it is started.
SignalArrives, StopNextThread and LetMainExit are `signal_callback`, one store
at a time, in the order of `AppManager::stop_thread`. The reactor's
`pc` goes loop - wait - poll - work - loop: EnterBody reads the status,
CallHandleEvent copies it into `handle_event`'s argument, EpollWait takes a
batch, HandleInput makes an event's message, PushMessage pushes it, EndBatch returns.
The queues are boost::lockfree::queue without `fixed_sized`, whose push() allocates a
node and does not fail, so the loop around it (InnerMsgThread.cpp:52) turns once and has
no other exit in the model. A message thread goes loop -
wait - (empty) - work - loop: PopMessage, FindEmpty and ReturnNull are
`GetInnerMsg`, which pops before it looks at its status. TargetThread is the
switch of `add_inner_message`. What a message does when it is processed is left
out here. Calls of `sleep` and `usleep` take no step, and `epoll_wait` may
return an empty batch whenever nothing is ready, as its 100 ms timeout makes
it. A batch takes all that is ready; that `epoll_wait` leaves what exceeds
EPOLL_EVENT_COUNT for its next call is abstracted.

Ghosts: `quiet`, `handled`, `lost`, `late`.

### MessageDelivery - what the skeleton promises

The abstract specification of ThreadGroup: events happen, become messages, are put
at the end of the queue of their thread, are processed in that order, once each,
and may be thrown away only before they are queued and for a stated reason. Threads,
status words and batches are gone. `Delivery` in ThreadGroup is the
refinement mapping (the message a thread works on is still the first of its
queue), `ImplementsDelivery` the property.

### ProxyLifecycle - one connection after another

`mem` is the heap: an address is Free or a manager with its two sockets. `fdTable`,
`interest` and `epReady` are the kernel's descriptor table, epoll's interest list
and its ready list. An accept thread goes connect - connecting - initClient -
initServer - stamp - add, where `connecting` is the blocking connect() with the
upstream's socket already taken (GetSocket); a client/server thread recv - route - send; the sweep scans a
snapshot of the table with the mutex held. Every tear-down is a `job`: the
statements that remain, each one step (`unregister`, `close`, `clear` for
`m_socketfd = -1`, `erase` from the table, `free`), with those whose guard
`m_socketfd > 0` fails passed over. Peers may send once and close at any time,
data and closes from before the set-up included (EarlyData; the connections it
happened to are in `early`), connections may become idle (IdleTimeouts), and epoll may
have no room for another descriptor (EpollFull), so that a registration fails. The ends
in Bulky send RECV_BUFFER_SIZE bytes or more: the recv loop then ends with a recv of
length 0, whose 0 is taken for a close (SeesEnd), and the connection is taken down
although nobody closed it.

TearDownsApart says that no two threads tear down the same manager at once and that none
tears down what an accept thread is still setting up. The program means `m_bRelease`
to ensure something of the kind, and does not, because nothing sets it (finding 1).
ApartSpec is the specification with this as a hypothesis: a thread that would tear down
a manager out of turn waits for its own. It restricts nothing else - the number of
threads, sweeps, early peers, failed registrations, bursts and the reuse of
addresses and numbers are as in SafetySpec.

Undefined behaviour: a thread that looks behind a freed address either gets a
garbage value that makes it return (where one flag is read) or moves to `crashed`,
where anything may follow and the model stops. A freed address given to a new
manager is used as that manager, which is what the code then does. The memory of
a ProxyManager and of its two halves is one allocation in the model.

### Relay and Pipe - the bytes of one connection

Relay is the loop of `process_client_message` and `process_server_message`:
TakeMessage, then RecvData until RecvAgain, then Send. `rcv` is the receive side
of a socket, `buffer` what of `arrDataBuffer` is filled, `snd` what the other socket
has taken. RecvEof is the close of a peer, RecvFull the recv of length 0 that looks
like one; both TakeDown the connection, after which a peer may find any beginning
of what was written to it, as linger 0 allows. Send takes what fits and drops the
rest. The message that leads to TakeMessage is abstracted to `due`: delivering it
is ThreadGroup's matter, tearing down without touching others ProxyLifecycle's.

Pipe is the promise: bytes are written, delivered in order, and lost only by
Overflow, when more than the receiver's socket holds are under way, or by Cut, after
a close or when more than the buffer holds are under way. The mapping puts the
three places of a byte one behind the other (`Transit`).

### Acceptor - the listening ports and the descriptors

ParsePorts is `parse_listen_ports` on tokens of words (numbers of either sign, the tilde,
anything else); stoi takes the number a text begins with or throws, also when it is
no int (MinInt, MaxInt). INT_MAX itself is left out of the texts: the loop over a range
that ends there overflows its counter. htons keeps the port modulo PortSpace; for 0 the
kernel picks one that is free. main goes
parse - open - register - open ... - serve, or failed. Listen is `socket`, `bind` and
`listen`, Register the EPOLL_CTL_ADD, which reports who came in between. The
reactor runs beside it: StartAccepting takes a listener off the ready list, Accept
and AcceptAgain are the loop of `handle_input`; DispatchHup, DispatchTimer and Leave
are what the reactor does only outside of it. Connections are counts: `accepted`,
`connecting`, `conns`, `hups`, `closeMsgs` follow a connection from accept to tear-down,
and every worker action says which descriptors it takes and gives back. `free` is
what is left. accept() without a free descriptor fails with EMFILE whether or not
anybody waits.

### TimerTick - the two timers, their messages and the mutex

`expired` is the timerfd's counter (zero or not), `ready` epoll's ready list,
`batch` and `queue` the way to the timer's thread, `pc` where
`process_timeout_disconnect_message` (TOD: Lock, Sweep, Read) and
`process_timeout_logrecord_message` (TOLR: DateIsFine or RollFails, WriteLines, Read)
are. The kernel arms a periodic timerfd again only when it is read, so Expire
needs `~expired`. RollFails returns without the read, after which the log's timer
is dead. Other stands for the threads that add and delete managers; all they have
to do with the timer is the mutex.

### LogQueue - every line from LOG_xxx to the file

`pushing`, `m_logQueue`, `written` and `swallowed` are the places a line
can be. `armed` says whether the log's timer still ticks (TimerTick says why). Tick,
SameDay/Roll/RollFails, Complained, PopAndWrite/PopAndStop/FindEmpty are
`process_timeout_logrecord_message`; BeginFlush, FlushLine and EndFlush are
`flush_logrecord` and the last LOG_INFO of main. push() does not fail, for the same
reason as in ThreadGroup, so the thousand attempts and the deletion of the line after
them (LogLockFreeQueue.cpp:38) do not occur.

### ConfigFile - the settings

A line of the file is a record of what it says (a header, an entry with its value,
blanks and comment, or noise) and Render makes the text of it: a sequence of members
of Char. IsLine says what such a record may be - which texts are keys, which are
values, what a noise line looks like - so that the file says only one thing, and
FileAssumption that every file is made of such lines. AnalyzeLine is one
turn of `StAnalyzeIni` on the text alone, ReadConfig what `CConfig::init` gets from
the map through `Get_Profile_Str`. PlainValueIsRead and CommentIsNoValue compare the
result with what the records say: the reference definition knows nothing of
positions in a text. Two things that an editor may write are part of the model and
limit what the properties can say. An empty entry in a file with CRLF leaves `\r` as the
value in the map (FileReader.cpp:123-132), which Get_Profile_Str returns as the empty
text, not as the default, and which hides earlier entries: `Gives` says so in
PlainValueIsRead. The four marks of an inline comment are looked for one after the other
(FileReader.cpp:115-118), so that a comment that contains a mark preferred to its
own is cut there and its beginning becomes part of the value: `8000 # was<TAB># 80`.
Such comments are `Misleading`, occur in the run, and are what CommentIsNoValue excludes;
likewise an entry with a comment and no value, which has the comment for its value.

### How the modules meet

MCThreadGroup, MCProxyLifecycle, MCLogQueue, MCAcceptor and MCConfigFile give the
constants their values. Two modules are composed with an abstract one by a
refinement (ThreadGroup with MessageDelivery, Relay with Pipe). The others meet at
their borders: ThreadGroup's ProcessInnerMsg is what ProxyLifecycle, Relay,
TimerTick, Acceptor and LogQueue open up, each with its own kind of message, and may
do so because MessageDelivery says what they can expect of the way there. The close
that Relay calls TakeDown is ProxyLifecycle's `job`; the descriptors that Acceptor
counts are those that ProxyLifecycle names; `armed` in LogQueue is `expired` that is
never read in TimerTick.

## 3. Runs

| run (cfg) | bounds | what it shows |
|---|---|---|
| threads (ThreadGroup) | THREAD_COUNT 1, so 5 threads; 3 messages, one for a released connection | types; MainExitsLast; StopIsPrompt; LossOnlyOnStop; ImplementsDelivery |
| threads_live (ThreadGroupLive) | the same with 2 messages for one thread | EventsAreHandled; ShutdownCompletes |
| proxy_one (ProxyLifecycle) | 1 connection, THREAD_COUNT 2, an upstream that sends, perhaps a buffer full, and two peers that close at any time, sweeps, failed registrations | types; Tracked; NoLostWakeup; FdAccounted; SetLive; PeerCloseTearsDown |
| proxy_two (ProxyLifecycleTwo) | ApartSpec: 2 connections, 2 addresses, 3 descriptors, THREAD_COUNT 2, data from one client, perhaps a buffer full, failed registrations | NoCrossTalk; SetHoldsManagers; FdAccounted; OnlyClosedAreCut |
| proxy_freed (ProxyLifecycleFreed) | 1 connection, THREAD_COUNT 1 | violation of NoUseAfterFree, see below |
| relay (Relay) | buffer of 2, receive side 3, send side 2, 4 bytes each way | types; ImplementsPipe; NothingIsStuck; CloseEndsBoth |
| relay_close (RelayClose) | the same | violation of DownOnlyByClose, see below |
| acceptor (Acceptor) | 6 values of LISTEN_PORT in a space of 8 ports and ints of 5 bits, 7 descriptors, 3 clients | types; NoneForgotten; StartsAsConfigured; StuckForGood; ReactorMovesOn |
| timer (TimerTick) | 2 threads compete for the mutex; nothing is bounded | types; TickNotLost; ReadNeverBlocks; SweepsForever; LogIsWritten |
| log (LogQueue) | main, one producer and the log thread; 2 lines each, batches of 2, 2 days | types; LinesAccounted; OrderKept; SwallowBound; RightFile; FlushedAtExit; LinesLeaveQueue |
| log_roll (LogQueueRoll) | the same with 1 line each and 1 day | violation of RollFailureIsReported, see below |
| config (ConfigFile) | files of 4 lines: header, entry, header or noise, entry written in every way (blanks before and after the value, 4 comment marks, comments that mislead and others, with a value or empty, CR or not) | PlainValueIsRead; CommentIsNoValue |

Why the bounds are enough to be interesting. One thread per group gives all five
kinds of thread, and two messages for one of them a queue that is not empty when it is
stopped. With two client/server threads the two sockets of one connection go to
different threads, which is the only way both can tear it down at once. Two connections
with three descriptor numbers and two addresses inherit numbers from each other, and
addresses, while messages and batches with the old ones are under way: a third number is
the least with which one connection can be up while the next is accepted, and since both
need four, `socket()` can fail. Registration with epoll may fail
for either side. The upstream sends in proxy_one and a client in proxy_two, so the two
functions that relay are both exercised; that both peers of a connection send at once
is checked in Relay, byte by byte, and not in ProxyLifecycle, where it multiplies the
states by six. Sweeps and early peers are in proxy_one; with two connections they are
left to longer runs by hand (proxy_two with early peers has 5,575,916 states and
satisfies the same properties).
A batch of two with two lines from each of three threads overflows. Relay's receive side
is larger than its buffer, as with 56K and the default sockets, and two sends do not fit
the send side together. Seven descriptors are two or three listeners and then one or
two connections, with every way to run out: during an accept, during socket() of the
upstream, while main still opens ports. The six values of LISTEN_PORT overlap, contain
invalid, negative and out-of-range tokens, trailing text and open ranges, port 0, or
name the same 16-bit port twice. LineBound, DayBound, ByteBound and ClientBound cut off
counters. ClientBound also means that clients do not come for ever: ReactorMovesOn says
nothing of a reactor kept in one accept loop by an endless stream of arrivals, which the
code does not exclude.

Deadlock is checked in ThreadGroup, TimerTick and LogQueue. In ProxyLifecycle, Relay
and Acceptor the server may simply have nothing to do, or be in `crashed`, and
ConfigFile ends when the file is read.

What the runs of ProxyLifecycle deliberately leave to their hypotheses. A connection
that is alone (proxy_one; the theorems with `Alone` in ProxyLifecycleProofs) keeps its
properties under every schedule, with peers that are faster than the set-up, sweeps and
failed registrations; only SetLive needs that no peer was early, because an accept
thread can add the pointer of a manager that was already deleted. With several
connections tear-downs must be apart (ApartSpec). Without that, in the bounds of
proxy_two, TLC refutes three of its four properties:

| proxy_two with SafetySpec | result |
|---|---|
| NoCrossTalk | holds (2,012,578 states) |
| SetHoldsManagers | violated after 40 steps |
| FdAccounted | violated after 33 steps |
| OnlyClosedAreCut | violated after 27 steps |

The shortest example: both peers of a connection close, and two threads tear its manager
down. One has called `::close` and not yet set `m_socketfd` to -1, a new client is
accepted and gets the number, and the other thread, which finds the old number, closes
it. Nothing in the repository says that this cannot happen, so there is no run that
refutes a claim; what can be said is said under the hypothesis.

NoCrossTalk speaks of connections both of whose sockets are open, and not for want of a
hypothesis: even with tear-downs apart, a thread that has read a client's data copies
the upstream's number, another thread tears the connection down and closes it, a
new client is accepted and gets the number, and the data are sent to that client. A
thread that works for a connection that is being closed can read from, and send to, a
stranger's socket.

### Fairness

* ThreadGroup: weak fairness of the reactor, and weak fairness of "main, the
  handler or some message thread". The threads are scheduled by the kernel and
  wait only in timed sleeps, so fairness for each thread would be justified;
  the weaker form suffices and is cheaper to check. No event, signal or failure
  is fair.
* ProxyLifecycle: strong fairness of "some client/server or accept thread or the
  reactor moves", weak fairness of the sweep. Strong, because the sweep takes the
  mutex away from a thread that waits for it again and again; sweeps are five
  seconds apart. accept, peers and idle time are not fair.
* Relay: weak fairness of each thread, and of each peer's reading while it has not
  closed. No peer has to write or close.
* Acceptor: weak fairness of main, of the running handler and of the other threads
  together; strong fairness of StartAccepting and Leave, because epoll's ready list
  is a queue: what is on it is not overtaken for ever by other events, and
  the status is looked at after each batch. Clients and peers are not fair.
* TimerTick: weak fairness of time, of the reactor and of the timer threads. That of
  the reactor assumes that it is not kept for ever in `AcceptorEvent::handle_input`,
  which is what Acceptor's Stuck is: from there no timer is dispatched. And
  *strong* fairness of Lock, which is an assumption about the mutex that
  POSIX does not make: with a default mutex a thread may in principle lose every
  race. The critical sections of the others are a set operation each, per
  connection opened or closed, and the assumption is used by SweepsForever only.
* LogQueue: weak fairness of pushes, of the tick and of the log thread; main's own
  last steps are fair, but nothing makes main leave.

### Findings

1. `ProxyClient::process_client_message` marks the peer close with
   `m_proxyManager->m_bRelease == true;` (ProxyClient.cpp:137, ProxyServer.cpp:128), a
   comparison. `m_bRelease` therefore stays false for ever, and the guards that
   read it (AppManager.cpp:303 and 324, ProxyClient.cpp:91) never hold. Run
   proxy_freed: both sides of a connection have a message in the queue of one
   thread; the first reads a close and deletes the manager, the second is then
   processed through the deleted one. An assignment in its place would still not
   make the read of a deleted manager's flag legal; the flag lives in what is freed.
2. The recv loop asks for `RECV_BUFFER_SIZE - nTotalLength` bytes (ProxyClient.cpp:113,
   ProxyServer.cpp:104). With the buffer full and more waiting that is a recv of
   length 0, which returns 0, which is taken for "peer close". Run relay_close: a peer
   that sends more than 56K before it is served has its connection taken down, and
   what was read is discarded. The check `nTotalLength > RECV_BUFFER_SIZE` cannot hold
   (Relay's TypeOK, proved).
3. When the log file of a new day cannot be opened, the log thread logs an error
   and returns before it reads its timerfd (AppManager.cpp:399). Run log_roll: the
   timer never ticks again, and the error, like every later line, stays in
   the queue until main flushes it at exit.

Remarks, which contradict no comment or test and are stated by passing properties:

* Without a free descriptor the reactor calls accept() for ever (StuckForGood):
  it no longer dispatches the closes that would free one and does not see a stop.
  One way there is the upstream socket that a failed connect() leaks.
* An inline comment may cost a value its last characters, when more blanks precede
  the value than follow it, or leave a part of itself in the value, when it contains
  another mark (CommentIsNoValue states what is certain).
* Two entries of LISTEN_PORT that are equal modulo 2^16 make the start fail
  (StartsAsConfigured).
* "Ignore invalid numbers" (common.cpp:65 and 72) is true of tokens for which stoi throws.
  Of `5 x` or `1 2 ~ 3` it reads the number and ignores what follows, and `-5` is a number:
  the server then opens ports that nobody would say LISTEN_PORT names.
  StartsAsConfigured allows these (MayName) and no others.
* With several connections the tear-downs of one manager by two threads can close a
  socket of another connection, and data of a connection that is being closed can reach
  another one: see the end of the bounds above.

## 4. Proofs

ThreadGroupProofs. For every THREAD_COUNT from 1 to 256 and every set of messages (ConstantsAssumption), with `SafetySpec`:

| theorem | property |
|---|---|
| TypeCorrect | TypeOK |
| ExitIsLast | MainExitsLast |
| Prompt | StopIsPrompt |
| NoLossBeforeStop | LossOnlyOnStop |

The inductive invariant IInv is TypeOK with

* StartUpInv: nRunThreadCount is exactly the number of threads created, and
  those not yet created are unborn. Without it nothing ties the counter main
  compares to the threads there are;
* ExitInv: nExitThreadCount is the cardinality of the set of threads that have
  left. MainExitsLast follows: when the counters agree, the set of exited threads
  has as many elements as the set of threads, and is it;
* SignalInv: nobody is stopped before the signal and nobody started after it, so a
  stopped thread stays stopped;
* LateInv: a thread that took something after its stop is between that step and its
  exit, so it cannot take another;
* CopyInv: the reactor's copy of its status is never ahead of the original, which
  is what makes an abandoned batch a consequence of a stop;
* HoldsMessage: a thread at work holds a message.

TargetIsWorker says that `add_inner_message` finds an existing thread for every
descriptor. Each of TypeStep, CountStep, SignalStep, LateStep and LossStep treats
one part of the invariant, action by action. The proof of `Invariance`
combines them. In the same module, for the same constants:

| theorem | property |
|---|---|
| Refinement | ImplementsDelivery |

MapInv adds to IInv what the mapping needs: the events in epoll, in the batch and in
the reactor's hand are apart from each other and from those that are handled or
lost (ApartInv), and what is in the hand of whom (HandInv). Then one lemma per
kind of step shows the abstract step it takes: HandleInput of a released
connection and EndBatch throw away, PushMessage queues, PopMessage
changes nothing (the message is still the first of its queue), ProcessInnerMsg
processes, StopNextThread stops; the others leave the abstract state alone.

ProxyLifecycleProofs. For any connections, addresses, descriptors and THREAD_COUNT,
with early peers, idle connections and failed registrations or without
(LifecycleAssumption, ValueAssumption):

| theorem | property |
|---|---|
| TypeCorrect | TypeOK |
| NoManagerLeaks | Tracked |

IInv is the types, component by component, with JobInv: the last statement of every
tear-down is the delete. NextOpFact says that the statements passed over on the way to
the next one (those whose guard `m_socketfd > 0` fails) never include the delete,
because the delete has no guard. So a manager leaves a tear-down only by being freed,
leaves the set only in a tear-down that still has its delete to come, and leaves the
accept thread only for the set or for a tear-down: NoneLost, which is Tracked. One
lemma per action shows that the action keeps the types and loses no manager.

For a connection that is alone (`Alone`: Conn has at most one member), still for any
addresses, descriptors and THREAD_COUNT, with early peers, sweeps and failed
registrations or without, so for everything proxy_one lets happen:

| theorem | property |
|---|---|
| SetLiveAlone | SetLive |
| FdAccountedAlone | FdAccounted |
| NoLostWakeupAlone | NoLostWakeup |

Several client/server threads, the sweep and an accept thread may tear the one manager
down at the same time, and all but the first to delete it look behind a freed pointer
(Next may crash). What holds until then is AInv (AloneInvariance):

* OnePlaceInv, BeforeInv and SetUpInv: the connection is at one accept thread, in its
  queue or in its hands; before it has a manager nothing knows of one, and while that
  is set up it is not in the set.
* SocketsInv: which descriptors are open - none, the client's, those whose numbers the
  manager still has, or the leaked one.
* JobsInv: every tear-down under way has a close to come for each side that is still
  open, and a clear to come only for a side that is closed. A thread that overtakes
  another finds -1 or closes first, so when one of them deletes everything is closed:
  FdAccounted.
* EarlyInv: if no peer was early, a tear-down of a manager in the set has its erase
  still to come, so the delete cannot be its next statement: SetLive.
* ReportInv: a manager nobody tears down has both sockets, epoll watches those that are
  registered, and unread input of one is on its way to a thread: NoLostWakeup.
* HandInv: what a thread has read comes from one side, and the number it copied is the
  other side's or closed.

TearOps and DoesHeap say what one statement of a tear-down does to the statements that
are left, to the heap and to the descriptors; every other action has its own lemma.
`Alone` is needed for FdAccounted, and SetLive says less of a connection that is not
alone (section 3). What is claimed of several connections, under TearDownsApart, is
model-checked only.

TimerTickProofs. For any set of threads that compete for the mutex:

| theorem | property |
|---|---|
| TypeCorrect | TypeOK |
| NoTickIsLost | TickNotLost |
| NeverBlocks | ReadNeverBlocks |

IInv is TypeOK with OwnPc (each thread runs its own function) and OnePlace: an
unread expiration is in exactly one of epoll, the batch, the queue and the call, and
without one all four are empty, or the timer is the log's and a roll has failed.
TickNotLost and ReadNeverBlocks are not inductive: they do not say that there is
no second message for the same expiration.

AcceptorProofs. For every set of values of LISTEN_PORT, every port space, number of
descriptors and number of clients (AcceptorAssumption):

| theorem | property |
|---|---|
| TypeCorrect | TypeOK, with the account of the descriptors |
| NobodyIsForgotten | NoneForgotten |
| StaysStuck | StuckForGood |
| OpensWhatIsMeant | StartsAsConfigured |

IInv adds MainInv (the port main registers is the smallest that is left, and is
open) and ReactorInv (one handler at a time; nobody waits where nobody listens). The
first needs that a nonempty set of ports has a smallest element (SmallestExists, from
the well-foundedness of the naturals). StaysStuck needs no invariant.
OpensWhatIsMeant compares the parser with what a reader takes a token to mean. A token
that is a number, or two numbers with a tilde between them, names ports (Names), and each
is opened. Of any other token MayName says the most it can stand for, whatever else is
in it; nothing beyond that is opened. PortsInv: what is parsed is open or still to be
opened, and never both.

RelayRefinement. For buffers and sockets of any size and any number of bytes
(RelayAssumption):

| theorem | property |
|---|---|
| RelayTypes | TypeOK, with the bounds of the buffers |
| RelayIsPipe | ImplementsPipe |

Lemmas on sequences come first (Split, Beginning, Ending, HeadTailConcat: where a
byte is in the concatenation of the three places), then one lemma per action:
PeerWrites is Write, PeerReads Deliver, PeerCloses Close, RecvEof and RecvFull Cut,
Send Overflow or nothing, the rest nothing.

LogQueueProofs. For any number of producers, any batch size and any bounds:

| theorem | property |
|---|---|
| TypeCorrect | TypeOK |
| EveryLineAccounted | LinesAccounted |
| OrderIsKept | OrderKept |
| SwallowsAreBounded | SwallowBound |
| RightFileIsWritten | RightFile |
| FlushIsComplete | FlushedAtExit |

The lines of a producer are a stream: numbered by it, the last one perhaps still in its
hands (PushingInv), the others handed on. StreamInv says that what is written and,
behind it, what is queued is sorted for each producer, hence OrderKept; with
PlacesInv and CoverInv (what was handed on is written, queued or lost, and what is lost
is nowhere else) a sorted stream holds no line twice, and LinesAccounted counts one.
BatchInv carries the account of SwallowBound through a batch: a line is swallowed only
when the batch in progress has written BatchSize others. FileInv follows the three
dates of a roll, ExitInv the order of the flush, the last line and the return.

ConfigFileProofs. For files of any length, with any characters, keys, values and
numbers of blanks, whose lines are as FileAssumption has them:

| theorem | property |
|---|---|
| PlainIsRead | PlainValueIsRead |
| CommentIsOut | CommentIsNoValue |

The proof goes through the text as the parser does. The first part is what the searches
find (FindFacts, LastNotOfFacts, StripIs) and where the parts of a rendered entry stand
(EntryText, BehindShape: blanks, value, blanks, mark, CR behind the "="). The second is
what StAnalyzeIni makes of one line of each kind: SectionIsRead, NoiseIsSkipped,
EntryIsRead for the key, PlainEntry and CommentedEntry for the value. OnlyMark says that
the first of the four marks the search finds is the line's own, because a value contains
none and a comment that does not mislead has no preferred one (Misleading); StripCommented, that the part the code cuts off in front of it (`last - first`
characters, counted from two different places) is a beginning of the value, and all of
it if the gap is at least as long as the lead. The third is the invariant: strSect is
the section of the last header (SectionStep), and the map has for every setting the
value of the last *live* entry, one whose value is not empty or is a CR (MapInv). PlainIsRead then
compares the last live entry with the last given one, and they are the same line.
No induction over texts is needed: every search is the first or last member of a set of
positions.

Only model-checked: all liveness (fairness and ENABLED are out of the prover's reach),
PeerCloseTearsDown among it; and NoCrossTalk, SetHoldsManagers, FdAccounted and
OnlyClosedAreCut for several connections. The three properties that the code violates are refuted by
TLC.

## 5. Not modelled

* THREAD_COUNT outside 1..256, where the index of `add_inner_message` divides by
  zero or exceeds the threads created: ConstantsAssumption excludes it.
* `Get_Profile_Bool` and `Get_Profile_Int` beyond the text they convert (atoi), the lock
  functions of CFileReader, and reading the file itself.
* A connection whose activity begins between the sweep's look at `m_nLastTime` and
  its release: it is cut, and nothing says it should not be.
* Destructors at process exit, and with them what a failed start leaves running.
* `check_app_running` and the shell scripts: single calls to the system.
* `process_release_resource_message` and ReleaseResourceMsg: nothing ever sends one.
* Formatting of log lines, console output (the same loop without the roll; a
  failed start with LOG_OUTPUT=console logs to a FILE that was never opened), and
  real time: intervals and timeouts may pass at any moment.

## 6. Plan

Done: every module, model-checked; of the invariants and safety action properties of the
passing runs all but those of proxy_two, and both refinements, proved.

What could be added:

1. Proofs of the properties of proxy_two for any number of connections and threads. The
   invariant has to say which thread has what of which connection when addresses and
   numbers are inherited; TearDownsApart makes the statements of a tear-down its own.
2. The borders: that Acceptor's counts abstract ProxyLifecycle's descriptors.
