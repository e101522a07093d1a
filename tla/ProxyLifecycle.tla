-------------------------- MODULE ProxyLifecycle ---------------------------
(***************************************************************************)
(* The life of a proxied connection: accepted by the reactor, paired with  *)
(* an upstream socket by an accept thread, served by the client/server     *)
(* threads, and torn down by whichever of them sees a peer close, by the   *)
(* idle sweep, or by a failed set-up.                                      *)
(*                                                                         *)
(* Three things are shared without a lock and are modelled as they are:    *)
(*   - the heap: a ProxyManager is an address, and messages, the epoll     *)
(*     interest list and m_setProxyManager hold addresses, which may be    *)
(*     freed and given to another connection;                              *)
(*   - descriptors: small numbers the kernel hands out lowest first, so a  *)
(*     number a thread still holds may belong to another connection;       *)
(*   - m_socketfd of each side, set to -1 one statement after ::close.     *)
(*                                                                         *)
(* Using a freed ProxyManager is undefined.  The outcomes a build shows    *)
(* are a crash, or, where only m_bRelease or m_nLastTime is read, a        *)
(* garbage value that makes the thread go on.                              *)
(***************************************************************************)
EXTENDS Integers, Sequences, FiniteSets, FiniteSetsExt

CONSTANTS
  nThreadCount,  \* THREAD_COUNT
  Conn,          \* the clients that will connect
  Addr,          \* the addresses the allocator can give to a ProxyManager
  Fd,            \* the descriptor numbers available to sockets
  Chatty,        \* the ends whose peer sends data (every peer may close)
  Bulky,         \* those of them that send RECV_BUFFER_SIZE bytes or more
  EarlyData,     \* may a peer send or close before set-up is complete?
  IdleTimeouts,  \* may a connection stay idle for TIMEOUT_DISCONNECT?
  EpollFull,     \* may the kernel have no room for another descriptor in epoll?
  Free,          \* the content of an address that holds no ProxyManager
  Closed,        \* what a descriptor number that is not open refers to
  NoAddr

ASSUME LifecycleAssumption ==
  /\ nThreadCount \in 1..256
  /\ Fd \subseteq Nat \ {0}
  /\ Chatty \subseteq Conn \X {"client", "server"} /\ Bulky \subseteq Chatty
  /\ EarlyData \in BOOLEAN
  /\ IdleTimeouts \in BOOLEAN
  /\ EpollFull \in BOOLEAN

Side     == {"client", "server"}
Other(s) == IF s = "client" THEN "server" ELSE "client"
End      == Conn \X Side           \* the proxy's sockets, by what they talk to
Ptr      == Addr \X Side           \* a ProxyClient or a ProxyServer object
Index    == 0 .. nThreadCount - 1
Manager  == [conn : Conn, m_bRelease : BOOLEAN, sock : [Side -> Fd \cup {-1}]]

ASSUME ValueAssumption == Closed \notin End \cup Ptr /\ Free \notin Manager

\* The threads that can destroy a ProxyManager.
CsThread(i)     == <<"TInnerCS", i>>
AcceptThread(i) == <<"TInnerAccept", i>>
SweepThread     == <<"TInnerTOD", 0>>
Agent == {CsThread(i) : i \in Index} \cup {AcceptThread(i) : i \in Index}
           \cup {SweepThread}

VARIABLES
  arrived,    \* clients that have connected
  fdTable,    \* [Fd -> End \cup {Closed}], the kernel's table
  sent,       \* ends whose peer has sent its data
  unread,     \* ends with data in the proxy's receive buffer
  eof,        \* ends whose peer has closed
  early,      \* connections one of whose peers acted before the set-up was over
  interest,   \* [Fd -> Ptr \cup {Closed}], what epoll reports for each fd
  epReady,    \* epoll's ready list, edge-triggered
  batch,      \* pointers epoll_wait returned and not yet dispatched
  mem,        \* [Addr -> manager \cup {Free}], the heap
  idle,       \* addresses whose m_nLastTime is older than the timeout
  acceptq,    \* [Index -> Seq], the queues of the accept threads
  csq,        \* [Index -> Seq(Ptr)], those of the client/server threads
  acc,        \* [Index -> locals of process_accept_message]
  cs,         \* [Index -> locals of process_client/server_message]
  sweep,      \* locals of process_timeout_disconnect_message
  job,        \* [Agent -> what is left of a tear-down]
  m_setProxyManager,
  locked,     \* is m_mutex_proxyManager held by the sweep?
  delivered,  \* <<for, from, to>>: the end a thread worked for, the end it read
              \*   some data from and the end it sent them to
  leaked,     \* upstream ends whose connect() failed
  crashed     \* freed memory was used as a manager; the model stops there

netVars    == <<arrived, sent, eof, early>>
kernelVars == <<fdTable, unread, interest, epReady>>
queueVars  == <<acceptq, csq>>
setVars    == <<m_setProxyManager, locked>>
ghostVars  == <<delivered, leaked>>
vars == <<netVars, kernelVars, batch, mem, idle, queueVars, acc, cs, sweep,
          job, setVars, ghostVars, crashed>>

AccInInit == {"initClient", "initServer", "stamp", "add"}

NoJob   == [addr |-> NoAddr, ops |-> <<>>]
CsIdle  == [pc |-> "idle"]
AccIdle == [pc |-> "idle"]

Init ==
  /\ arrived = {} /\ sent = {} /\ unread = {} /\ eof = {} /\ early = {}
  /\ fdTable = [f \in Fd |-> Closed]
  /\ interest = [f \in Fd |-> Closed]
  /\ epReady = {} /\ batch = {}
  /\ mem = [a \in Addr |-> Free]
  /\ idle = {}
  /\ acceptq = [i \in Index |-> <<>>]
  /\ csq = [i \in Index |-> <<>>]
  /\ acc = [i \in Index |-> AccIdle]
  /\ cs = [i \in Index |-> CsIdle]
  /\ sweep = [pc |-> "idle", left |-> {}]
  /\ job = [t \in Agent |-> NoJob]
  /\ m_setProxyManager = {} /\ locked = FALSE
  /\ delivered = {} /\ leaked = {}
  /\ crashed = FALSE

-----------------------------------------------------------------------------
(***************************************************************************)
(* The kernel.                                                             *)
(***************************************************************************)
Live(a)    == mem[a] # Free
OpenFds    == {f \in Fd : fdTable[f] # Closed}
LowestFd   == Min(Fd \ OpenFds)
HasInput(f) == fdTable[f] \in unread \cup eof

\* epoll_ctl(EPOLL_CTL_ADD): fails on a bad or an already registered number.
CanRegister(f) == f # -1 /\ fdTable[f] # Closed /\ interest[f] = Closed
Register(f, p) ==
  /\ interest' = [interest EXCEPT ![f] = p]
  /\ epReady' = IF HasInput(f) THEN epReady \cup {f} ELSE epReady
  /\ UNCHANGED <<fdTable, unread>>

\* epoll_ctl(EPOLL_CTL_DEL) and ::close act on the number, whoever owns it.
Unregister(f) ==
  /\ interest' = [interest EXCEPT ![f] = Closed]
  /\ epReady' = epReady \ {f}
  /\ UNCHANGED <<fdTable, unread>>

CloseFd(f) ==
  /\ fdTable' = [fdTable EXCEPT ![f] = Closed]
  /\ interest' = [interest EXCEPT ![f] = Closed]
  /\ epReady' = epReady \ {f}
  /\ unread' = unread \ {fdTable[f]}

-----------------------------------------------------------------------------
(***************************************************************************)
(* The peers and the clock.                                                *)
(***************************************************************************)
Established(c) == \E a \in m_setProxyManager : Live(a) /\ mem[a].conn = c
Connecting(e)  == \E i \in Index : acc[i].pc = "connecting" /\ e = <<acc[i].msg.conn, "server">>
Connected(e)   == (\E f \in Fd : fdTable[f] = e) /\ e \notin leaked /\ ~Connecting(e)
Wake(e)        == {f \in Fd : fdTable[f] = e /\ interest[f] # Closed}

ActsInTime(c) ==
  IF Established(c) THEN UNCHANGED early
                    ELSE EarlyData /\ early' = early \cup {c}

PeerUnchanged ==
  UNCHANGED <<arrived, fdTable, interest, batch, mem, idle, queueVars, acc, cs,
              sweep, job, setVars, ghostVars, crashed>>

PeerSends(e) ==
  /\ e \in Chatty
  /\ Connected(e) /\ e \notin sent \cup eof
  /\ ActsInTime(e[1])
  /\ sent' = sent \cup {e}
  /\ unread' = unread \cup {e}
  /\ epReady' = epReady \cup Wake(e)
  /\ UNCHANGED eof
  /\ PeerUnchanged

PeerCloses(e) ==
  /\ Connected(e) /\ e \notin eof
  /\ ActsInTime(e[1])
  /\ eof' = eof \cup {e}
  /\ epReady' = epReady \cup Wake(e)
  /\ UNCHANGED <<sent, unread>>
  /\ PeerUnchanged

\* TIMEOUT_DISCONNECT seconds pass since m_nLastTime, or m_nLastTime was
\* never set and looks old.
TimePasses(a) ==
  /\ IdleTimeouts /\ Live(a) /\ a \notin idle
  /\ idle' = idle \cup {a}
  /\ UNCHANGED <<netVars, kernelVars, batch, mem, queueVars, acc, cs, sweep,
                 job, setVars, ghostVars, crashed>>

Crash ==
  /\ crashed' = TRUE
  /\ UNCHANGED <<netVars, kernelVars, batch, mem, idle, queueVars, acc, cs,
                 sweep, job, setVars, ghostVars>>

-----------------------------------------------------------------------------
(***************************************************************************)
(* The reactor.                                                            *)
(***************************************************************************)
ReactorUnchanged ==
  UNCHANGED <<sent, eof, early, unread, interest, mem, acc, cs, sweep, job,
              setVars, ghostVars, crashed>>

\* One turn of AcceptorEvent::handle_input.  With no free number accept()
\* fails and the loop turns again.
AcceptClient(c) ==
  /\ c \notin arrived
  /\ Fd \ OpenFds # {}
  /\ arrived' = arrived \cup {c}
  /\ fdTable' = [fdTable EXCEPT ![LowestFd] = <<c, "client">>]
  /\ acceptq' = [acceptq EXCEPT ![LowestFd % nThreadCount] =
                   Append(@, [fd |-> LowestFd, conn |-> c])]
  /\ UNCHANGED <<epReady, batch, idle, csq>>
  /\ ReactorUnchanged

\* Mutant: the whole interest table is dispatched, the unused entries too.
EpollWait_AllEntries ==
  /\ batch = {} /\ epReady # {}
  /\ batch' = {interest[f] : f \in Fd}
  /\ epReady' = {}
  /\ UNCHANGED <<arrived, fdTable, idle, queueVars>>
  /\ ReactorUnchanged

\* epoll_wait reports what is on the ready list and still readable.
EpollWait ==
  /\ batch = {} /\ epReady # {}
  /\ batch' = {interest[f] : f \in {g \in epReady : HasInput(g)}}
  /\ epReady' = {}
  /\ UNCHANGED <<arrived, fdTable, idle, queueVars>>
  /\ ReactorUnchanged

\* ProxyClient::handle_input and ProxyServer::handle_input.
HandleInput(p) ==
  LET a == p[1]
  IN  /\ p \in batch
      /\ batch' = batch \ {p}
      /\ IF Live(a) /\ ~mem[a].m_bRelease
         THEN LET f == mem[a].sock[p[2]]
              IN  /\ idle' = idle \ {a}
                  /\ csq' = IF f = -1 THEN csq
                            ELSE [csq EXCEPT ![f % nThreadCount] = Append(@, p)]
         ELSE UNCHANGED <<idle, csq>>
      /\ UNCHANGED <<arrived, fdTable, epReady, acceptq>>
      /\ ReactorUnchanged

HandleInputFreed(p) == p \in batch /\ ~Live(p[1]) /\ Crash

-----------------------------------------------------------------------------
(***************************************************************************)
(* Tearing a ProxyManager down.  A job is the statements still to execute: *)
(* unregister or close one side, erase the pointer from m_setProxyManager  *)
(* under the mutex, free the memory.  Statements guarded by m_socketfd > 0 *)
(* that find -1 are passed over.                                           *)
(***************************************************************************)
Shut(s)   == << <<"unregister", s>>, <<"close", s>> >>
Release   == Shut("client") \o Shut("server")
Delete    == << <<"close", "client">>, <<"close", "server">>, <<"free", "client">> >>
\* Mutants: process_client_message forgets the delete, the erase, to do anything
\* about the other side, or to close what the delete then forgets.
OnPeerClose_NoDelete(s) == Shut(s) \o Release \o << <<"erase", s>> >>
OnPeerClose_NoErase(s)  == Shut(s) \o Release \o Delete
OnPeerClose_OwnSide(s)  == Shut(s) \o << <<"erase", s>> >>
OnPeerClose_NoRelease(s) == Shut(s) \o << <<"erase", s>>, <<"free", s>> >>

OnPeerClose(s) == Shut(s) \o << <<"erase", s>> >> \o Release \o Delete
OnIdle         == Release \o Delete
OnFailedInit   == << <<"unregister", "client">> >> \o Delete

Passed(a, op) == /\ op[1] \in {"unregister", "close"}
                 /\ mem[a].sock[op[2]] = -1

\* Mutant: close_socket leaves m_socketfd as it is.
AfterClose_Nothing(s) == <<>>

\* close_socket goes on with m_socketfd = -1.
AfterClose(s) == << <<"clear", s>> >>

\* The statement thread t executes next.
NextOp(t) ==
  LET ops == job[t].ops
  IN  Min({k \in 1 .. Len(ops) : ~Passed(job[t].addr, ops[k])})

JobUnchanged ==
  UNCHANGED <<netVars, batch, queueVars, acc, cs, sweep, locked, ghostVars,
              crashed>>

TearStep(t) ==
  /\ job[t].ops # <<>>
  /\ Live(job[t].addr)
  /\ LET a    == job[t].addr
         k    == NextOp(t)
         op   == job[t].ops[k]
         s    == op[2]
         f    == mem[a].sock[s]
         rest == SubSeq(job[t].ops, k + 1, Len(job[t].ops))
         Continue(ops) == job' = [job EXCEPT ![t] = IF ops = <<>> THEN NoJob
                                                    ELSE [addr |-> a, ops |-> ops]]
     IN  \/ /\ op[1] = "unregister"
            /\ Unregister(f)
            /\ Continue(rest)
            /\ UNCHANGED <<mem, idle, m_setProxyManager>>
         \/ /\ op[1] = "close"
            /\ CloseFd(f)
            /\ Continue(AfterClose(s) \o rest)
            /\ UNCHANGED <<mem, idle, m_setProxyManager>>
         \/ /\ op[1] = "clear"
            /\ mem' = [mem EXCEPT ![a].sock[s] = -1]
            /\ Continue(rest)
            /\ UNCHANGED <<kernelVars, idle, m_setProxyManager>>
         \/ /\ op[1] = "erase"
            /\ ~locked
            /\ m_setProxyManager' = m_setProxyManager \ {a}
            /\ Continue(rest)
            /\ UNCHANGED <<kernelVars, mem, idle>>
         \/ /\ op[1] = "free"
            /\ mem' = [mem EXCEPT ![a] = Free]
            /\ idle' = idle \ {a}
            /\ Continue(rest)
            /\ UNCHANGED <<kernelVars, m_setProxyManager>>
  /\ JobUnchanged

\* Another thread has freed the manager this one is tearing down.
TearFreed(t) == job[t].ops # <<>> /\ ~Live(job[t].addr) /\ Crash

-----------------------------------------------------------------------------
(***************************************************************************)
(* An accept thread: process_accept_message.                               *)
(***************************************************************************)
AccUnchanged ==
  UNCHANGED <<netVars, batch, csq, cs, sweep, locked, delivered, crashed>>

AccPc(i, pc) == acc[i].pc = pc /\ job[AcceptThread(i)].ops = <<>>
AccGoto(i, pc) == acc' = [acc EXCEPT ![i].pc = pc]

TakeAccept(i) ==
  /\ AccPc(i, "idle") /\ acceptq[i] # <<>>
  /\ acc' = [acc EXCEPT ![i] = [pc |-> "connect", msg |-> Head(acceptq[i])]]
  /\ acceptq' = [acceptq EXCEPT ![i] = Tail(@)]
  /\ UNCHANGED <<kernelVars, mem, idle, job, m_setProxyManager, leaked>>
  /\ AccUnchanged

\* socket() fails, for want of a descriptor or of memory: the client's socket
\* is closed.
SocketFails(i) ==
  /\ AccPc(i, "connect")
  /\ CloseFd(acc[i].msg.fd)
  /\ acc' = [acc EXCEPT ![i] = AccIdle]
  /\ UNCHANGED <<acceptq, mem, idle, job, m_setProxyManager, leaked>>
  /\ AccUnchanged

\* socket() succeeds, and connect() may block.
GetSocket(i) ==
  /\ AccPc(i, "connect")
  /\ Fd \ OpenFds # {}
  /\ fdTable' = [fdTable EXCEPT ![LowestFd] = <<acc[i].msg.conn, "server">>]
  /\ acc' = [acc EXCEPT ![i] =
               [pc |-> "connecting", msg |-> acc[i].msg, upstreamsock |-> LowestFd]]
  /\ UNCHANGED <<unread, interest, epReady, acceptq, mem, idle, job,
                 m_setProxyManager, leaked>>
  /\ AccUnchanged

\* Mutant: the client's socket is not closed either.
ConnectFails_KeepsClient(i) ==
  /\ AccPc(i, "connecting")
  /\ leaked' = leaked \cup {<<acc[i].msg.conn, "server">>}
  /\ acc' = [acc EXCEPT ![i] = AccIdle]
  /\ UNCHANGED <<kernelVars, acceptq, mem, idle, job, m_setProxyManager>>
  /\ AccUnchanged

\* connect() fails: the client's socket is closed, the upstream one is not.
ConnectFails(i) ==
  /\ AccPc(i, "connecting")
  /\ CloseFd(acc[i].msg.fd)
  /\ leaked' = leaked \cup {<<acc[i].msg.conn, "server">>}
  /\ acc' = [acc EXCEPT ![i] = AccIdle]
  /\ UNCHANGED <<acceptq, mem, idle, job, m_setProxyManager>>
  /\ AccUnchanged

\* The upstream is connected and the ProxyManager constructed.
ConnectUpstream(i) ==
  /\ AccPc(i, "connecting")
  /\ \E a \in Addr :
       /\ ~Live(a)
       /\ mem' = [mem EXCEPT ![a] =
                    [conn |-> acc[i].msg.conn, m_bRelease |-> FALSE,
                     sock |-> [client |-> acc[i].msg.fd, server |-> acc[i].upstreamsock]]]
       /\ acc' = [acc EXCEPT ![i] = [pc |-> "initClient", addr |-> a]]
  /\ UNCHANGED <<kernelVars, acceptq, idle, job, m_setProxyManager, leaked>>
  /\ AccUnchanged

\* ProxyManager::init, up to the registration of one side, which also fails when
\* the kernel has no room for it; process_accept_message then deletes.
InitSide(i, s, here, next) ==
  /\ AccPc(i, here)
  /\ Live(acc[i].addr)
  /\ LET a == acc[i].addr
         f == mem[a].sock[s]
     IN  \/ /\ CanRegister(f)
            /\ Register(f, <<a, s>>)
            /\ AccGoto(i, next)
            /\ UNCHANGED job
         \/ /\ EpollFull \/ ~CanRegister(f)
            /\ job' = [job EXCEPT ![AcceptThread(i)] =
                          [addr |-> a,
                           ops |-> IF s = "client" THEN Delete ELSE OnFailedInit]]
            /\ acc' = [acc EXCEPT ![i] = AccIdle]
            /\ UNCHANGED kernelVars
  /\ UNCHANGED <<acceptq, mem, idle, m_setProxyManager, leaked>>
  /\ AccUnchanged

InitClient(i) == InitSide(i, "client", "initClient", "initServer")
InitServer(i) == InitSide(i, "server", "initServer", "stamp")

\* The rest of ProxyManager::init: m_nLastTime, m_strRouteInfo.
StampTime(i) ==
  /\ AccPc(i, "stamp")
  /\ Live(acc[i].addr)
  /\ idle' = idle \ {acc[i].addr}
  /\ AccGoto(i, "add")
  /\ UNCHANGED <<kernelVars, acceptq, mem, job, m_setProxyManager, leaked>>
  /\ AccUnchanged

InitFreed(i) ==
  /\ AccPc(i, "initClient") \/ AccPc(i, "initServer") \/ AccPc(i, "stamp")
  /\ ~Live(acc[i].addr)
  /\ Crash

\* add_proxy_manager stores the pointer and never looks behind it.
AddProxyManager(i) ==
  /\ AccPc(i, "add")
  /\ ~locked
  /\ m_setProxyManager' = m_setProxyManager \cup {acc[i].addr}
  /\ acc' = [acc EXCEPT ![i] = AccIdle]
  /\ UNCHANGED <<kernelVars, acceptq, mem, idle, job, leaked>>
  /\ AccUnchanged

AcceptStep(i) ==
  \/ TakeAccept(i) \/ SocketFails(i) \/ GetSocket(i)
  \/ ConnectFails(i) \/ ConnectUpstream(i)
  \/ InitClient(i) \/ InitServer(i) \/ StampTime(i) \/ InitFreed(i)
  \/ AddProxyManager(i)

-----------------------------------------------------------------------------
(***************************************************************************)
(* A client/server thread: process_client_message, process_server_message. *)
(***************************************************************************)
CsUnchanged ==
  UNCHANGED <<netVars, fdTable, interest, epReady, batch, mem, idle, acceptq,
              acc, sweep, setVars, leaked, crashed>>

CsPc(i, pc) == cs[i].pc = pc /\ job[CsThread(i)].ops = <<>>
CsAddr(i)   == cs[i].ptr[1]

\* m_bRelease is read through the pointer the message carries; the message
\* of a manager that is gone is dropped if the byte there happens to be set.
TakeMessage(i) ==
  /\ CsPc(i, "idle") /\ csq[i] # <<>>
  /\ LET p == Head(csq[i])
     IN  cs' = [cs EXCEPT ![i] = IF Live(p[1]) /\ ~mem[p[1]].m_bRelease
                                 THEN [pc |-> "recv", ptr |-> p]
                                 ELSE CsIdle]
  /\ csq' = [csq EXCEPT ![i] = Tail(@)]
  /\ UNCHANGED <<unread, job, delivered>>
  /\ CsUnchanged

\* Mutant: recv is called once, as a level-triggered epoll would allow: a close
\* behind the data is not seen.
ReadsAll_Once(e) ==
  e # Closed /\ (e \in eof => e \in unread) /\ unread' = unread \ {e}

\* What recv returns at an end: everything, so that the next call would block; or a
\* close or an error, EBADF included, which wins over the data read before it.  When
\* the data fills the buffer, the next recv is one of length 0, and its 0 is taken
\* for a close, whether or not more is waiting.
ReadsAll(e) == e # Closed /\ e \notin eof /\ unread' = unread \ {e}
SeesEnd(e)  ==
  \/ e \in eof \cup {Closed} /\ unread' = unread \ {e}
  \/ e \in unread \cap Bulky /\ unread' \in {unread, unread \ {e}}

\* The recv loop.
Recv(i) ==
  /\ CsPc(i, "recv") /\ Live(CsAddr(i))
  /\ LET p == cs[i].ptr
         f == mem[CsAddr(i)].sock[p[2]]
         e == IF f = -1 THEN Closed ELSE fdTable[f]
     IN  \/ /\ ReadsAll(e)
            /\ cs' = [cs EXCEPT ![i] =
                         [pc |-> "route", ptr |-> p, from |-> unread \cap {e},
                          for |-> <<mem[p[1]].conn, p[2]>>]]
            /\ UNCHANGED job
         \/ /\ SeesEnd(e)
            /\ job' = [job EXCEPT ![CsThread(i)] =
                         [addr |-> CsAddr(i), ops |-> OnPeerClose(p[2])]]
            /\ cs' = [cs EXCEPT ![i] = CsIdle]
  /\ UNCHANGED <<csq, delivered>>
  /\ CsUnchanged

\* Mutant: get_client_socket where get_server_socket is meant.
Route_SameSide(i) ==
  /\ CsPc(i, "route") /\ Live(CsAddr(i))
  /\ LET f == mem[CsAddr(i)].sock[cs[i].ptr[2]]
     IN  cs' = [cs EXCEPT ![i] = IF f = -1 THEN CsIdle
                                 ELSE [pc |-> "send", from |-> cs[i].from,
                                       for |-> cs[i].for, fd |-> f]]
  /\ UNCHANGED <<unread, csq, job, delivered>>
  /\ CsUnchanged

\* get_server_socket or get_client_socket copies the number ...
Route(i) ==
  /\ CsPc(i, "route") /\ Live(CsAddr(i))
  /\ LET f == mem[CsAddr(i)].sock[Other(cs[i].ptr[2])]
     IN  cs' = [cs EXCEPT ![i] = IF f = -1 THEN CsIdle
                                 ELSE [pc |-> "send", from |-> cs[i].from,
                                       for |-> cs[i].for, fd |-> f]]
  /\ UNCHANGED <<unread, csq, job, delivered>>
  /\ CsUnchanged

\* ... and ::send uses it, whatever it refers to by then.
Send(i) ==
  /\ CsPc(i, "send")
  /\ delivered' =
       delivered \cup ({cs[i].for} \X cs[i].from \X ({fdTable[cs[i].fd]} \ {Closed}))
  /\ cs' = [cs EXCEPT ![i] = CsIdle]
  /\ UNCHANGED <<unread, csq, job>>
  /\ CsUnchanged

CsFreed(i) ==
  \/ CsPc(i, "idle") /\ csq[i] # <<>> /\ ~Live(Head(csq[i])[1]) /\ Crash
  \/ (CsPc(i, "recv") \/ CsPc(i, "route")) /\ ~Live(CsAddr(i)) /\ Crash

CsStep(i) == TakeMessage(i) \/ Recv(i) \/ Route(i) \/ Send(i) \/ CsFreed(i)

-----------------------------------------------------------------------------
(***************************************************************************)
(* The idle sweep: process_timeout_disconnect_message.  It holds the mutex *)
(* from before its first look at the set until after its last statement.   *)
(***************************************************************************)
SweepUnchanged ==
  UNCHANGED <<netVars, kernelVars, batch, mem, idle, queueVars, acc, cs,
              ghostVars, crashed>>

SweepPc(pc) == sweep.pc = pc /\ job[SweepThread].ops = <<>>

BeginSweep ==
  /\ IdleTimeouts
  /\ SweepPc("idle") /\ ~locked
  /\ locked' = TRUE
  /\ sweep' = [pc |-> "scan", left |-> m_setProxyManager]
  /\ UNCHANGED <<job, m_setProxyManager>>
  /\ SweepUnchanged

\* Mutant: the pointer of a swept manager stays in the set.
Visit_KeepsPointer(a) ==
  /\ SweepPc("scan") /\ a \in sweep.left
  /\ sweep' = [sweep EXCEPT !.left = @ \ {a}]
  /\ IF Live(a) /\ a \in idle
     THEN job' = [job EXCEPT ![SweepThread] = [addr |-> a, ops |-> OnIdle]]
     ELSE UNCHANGED job
  /\ UNCHANGED <<m_setProxyManager, locked>>
  /\ SweepUnchanged

\* Freed memory may hold any m_nLastTime: the sweep passes over it or, if it
\* looks old, releases it, which is SweepFreed.
Visit(a) ==
  /\ SweepPc("scan") /\ a \in sweep.left
  /\ sweep' = [sweep EXCEPT !.left = @ \ {a}]
  /\ IF Live(a) /\ a \in idle
     THEN /\ m_setProxyManager' = m_setProxyManager \ {a}
          /\ job' = [job EXCEPT ![SweepThread] = [addr |-> a, ops |-> OnIdle]]
     ELSE UNCHANGED <<m_setProxyManager, job>>
  /\ UNCHANGED locked
  /\ SweepUnchanged

SweepFreed(a) == SweepPc("scan") /\ a \in sweep.left /\ ~Live(a) /\ Crash

EndSweep ==
  /\ SweepPc("scan") /\ sweep.left = {}
  /\ sweep' = [sweep EXCEPT !.pc = "idle"]
  /\ locked' = FALSE
  /\ UNCHANGED <<job, m_setProxyManager>>
  /\ SweepUnchanged

SweepStep == BeginSweep \/ EndSweep \/ \E a \in Addr : Visit(a) \/ SweepFreed(a)

-----------------------------------------------------------------------------
ReactorStep ==
  \/ EpollWait
  \/ \E p \in Ptr : HandleInput(p) \/ HandleInputFreed(p)

Next ==
  /\ ~crashed
  /\ \/ \E c \in Conn : AcceptClient(c)
     \/ \E e \in End : PeerSends(e) \/ PeerCloses(e)
     \/ \E a \in Addr : TimePasses(a)
     \/ ReactorStep
     \/ \E i \in Index : AcceptStep(i) \/ CsStep(i)
     \/ SweepStep
     \/ \E t \in Agent : TearStep(t) \/ TearFreed(t)

Tear(t) == TearStep(t) \/ TearFreed(t)

\* What the connections keep the threads busy with: a finite number of steps.
Serve ==
  \/ ReactorStep
  \/ \E i \in Index : AcceptStep(i) \/ CsStep(i)
  \/ \E t \in Agent \ {SweepThread} : Tear(t)

\* The sweep is scheduled, and while other threads can move, or could each time
\* the sweep has let go of the mutex, one of them does: that is less than
\* fairness to each of them, and enough.  Sweeps are five seconds apart, so a
\* thread that waits for the mutex gets it.  Peers and clock do as they like.
Fairness ==
  /\ SF_vars(~crashed /\ Serve)
  /\ WF_vars(~crashed /\ (SweepStep \/ Tear(SweepThread)))

SafetySpec == Init /\ [][Next]_vars
Spec == SafetySpec /\ Fairness

\* No two threads tear one manager down at once, nor does any touch one that an
\* accept thread is still setting up.  The program does not see to it: it tests
\* m_bRelease, which nothing sets.
TearDownsApart ==
  /\ \A t, u \in Agent : job[t].addr = job[u].addr => t = u \/ job[t] = NoJob
  /\ \A t \in Agent, i \in Index :
       acc[i].pc \in AccInInit => job[t].addr # acc[i].addr

\* Behaviours in which this is so, a thread that would tear down a manager out of
\* turn waiting for its own.
ApartSpec == Init /\ [][Next /\ TearDownsApart']_vars

-----------------------------------------------------------------------------
(***************************************************************************)
(* Properties.                                                             *)
(***************************************************************************)

AcceptMsg == [fd : Fd, conn : Conn]

\* The type of every variable.
TypeOK ==
  /\ arrived \subseteq Conn
  /\ fdTable \in [Fd -> End \cup {Closed}]
  /\ sent \subseteq End /\ unread \subseteq End /\ eof \subseteq End
  /\ early \subseteq Conn
  /\ interest \in [Fd -> Ptr \cup {Closed}]
  /\ epReady \subseteq Fd /\ batch \subseteq Ptr
  /\ mem \in [Addr -> Manager \cup {Free}]
  /\ idle \subseteq Addr
  /\ acceptq \in [Index -> Seq(AcceptMsg)]
  /\ csq \in [Index -> Seq(Ptr)]
  /\ acc \in [Index -> {AccIdle} \cup [pc : {"connect"}, msg : AcceptMsg]
                 \cup [pc : {"connecting"}, msg : AcceptMsg, upstreamsock : Fd]
                 \cup [pc : AccInInit, addr : Addr]]
  /\ cs \in [Index -> {CsIdle} \cup [pc : {"recv"}, ptr : Ptr]
                 \cup [pc : {"route"}, ptr : Ptr, from : SUBSET End, for : End]
                 \cup [pc : {"send"}, fd : Fd, from : SUBSET End, for : End]]
  /\ sweep \in [pc : {"idle", "scan"}, left : SUBSET Addr]
  /\ DOMAIN job = Agent
  /\ \A t \in Agent : job[t] = NoJob \/ (job[t].addr \in Addr /\ job[t].ops # <<>>)
  /\ m_setProxyManager \subseteq Addr
  /\ locked \in BOOLEAN /\ crashed \in BOOLEAN
  /\ delivered \subseteq End \X End \X End
  /\ leaked \subseteq End

UnderSetUp(a)  == \E i \in Index : acc[i].pc \in AccInInit /\ acc[i].addr = a
BeingTorn(a)   == \E t \in Agent : job[t].addr = a

\* A live ProxyManager is always within reach of somebody who will free it:
\* it is in m_setProxyManager, an accept thread is still setting it up, or a
\* thread is tearing it down.  No order of set-up, sweep and tear-down leaks
\* one.
Tracked ==
  \A a \in Addr :
    Live(a) => a \in m_setProxyManager \/ UnderSetUp(a) \/ BeingTorn(a)

\* m_setProxyManager holds only managers that have not been freed, so the sweep,
\* which reads m_nLastTime through every pointer in it, reads memory that is still
\* a manager.
SetHoldsManagers == \A a \in m_setProxyManager : Live(a)

\* With one connection this takes no more than peers that neither send nor close
\* before its set-up is over: otherwise add_proxy_manager may store a freed pointer.
SetLive == early = {} => SetHoldsManagers

\* Something will make a client/server thread read side s of manager a.
WakeupPending(a, s) ==
  \/ \E f \in epReady : interest[f] = <<a, s>>
  \/ <<a, s>> \in batch
  \/ \E i \in Index : \E k \in 1 .. Len(csq[i]) : csq[i][k] = <<a, s>>
  \/ \E i \in Index : cs[i].pc = "recv" /\ cs[i].ptr = <<a, s>>
  \/ BeingTorn(a)

\* epoll is edge-triggered and reports an input once: as long as a registered
\* socket has data or a close nobody has read, the report is in epoll, in the
\* reactor's batch, in a message, or the manager is being torn down.
NoLostWakeup ==
  \A a \in m_setProxyManager : Live(a) =>
    \A s \in Side :
      LET f == mem[a].sock[s]
      IN  (f # -1 /\ HasInput(f)) => WakeupPending(a, s)

InAcceptPath(f) ==
  \E i \in Index :
    \/ \E k \in 1 .. Len(acceptq[i]) : acceptq[i][k].fd = f
    \/ acc[i].pc \in {"connect", "connecting"} /\ acc[i].msg.fd = f
    \/ acc[i].pc = "connecting" /\ acc[i].upstreamsock = f

\* An open descriptor is waiting for its upstream, or a live manager knows
\* it and will close it, or it is the upstream socket of a failed connect():
\* that last one is the only descriptor the code leaks.
FdAccounted ==
  \A f \in OpenFds :
    \/ InAcceptPath(f)
    \/ \E a \in Addr : Live(a) /\ \E s \in Side : mem[a].sock[s] = f
    \/ fdTable[f] \in leaked

Open(e) == \E f \in Fd : fdTable[f] = e

\* A thread that works for a connection whose two sockets are open reads its data and
\* no other, and sends them to its other end and to nobody else, although recv and
\* send take a number that was copied before.  (Whoever works for a connection that is
\* being closed may read from, and send to, whichever socket has the number now.)
NoCrossTalk ==
  \A d \in delivered :
    LET c == d[1][1]
        s == d[1][2]
    IN  Open(<<c, "client">>) /\ Open(<<c, "server">>)
          => d[2] = <<c, s>> /\ d[3] = <<c, Other(s)>>

\* Why the sockets of connection c may be closed: one of its peers has closed or has
\* sent a buffer full; process_accept_message is giving it up; or the sweep has
\* found it idle.
MayBeCut(c) ==
  \/ \E s \in Side : <<c, s>> \in eof \cup (sent \cap Bulky)
  \/ \E i \in Index : acc[i].pc \in {"connect", "connecting"} /\ acc[i].msg.conn = c
  \/ \E t \in Agent \ {CsThread(i) : i \in Index} :
       LET a == job[t].addr IN a # NoAddr /\ Live(a) /\ mem[a].conn = c

\* A socket is closed for the sake of its own connection only: tearing one down does
\* not cut another, whichever numbers and addresses it inherits.
OnlyClosedAreCut ==
  [][\A f \in Fd :
       fdTable[f] # Closed /\ fdTable'[f] = Closed => MayBeCut(fdTable[f][1])]_vars

\* When one peer closes, even before the set-up of its connection is over,
\* the proxy closes the socket to the other one, unless connect() failed and
\* it was leaked, or freed memory is used.  Closes are for ever, so again and
\* again all that have happened have been answered.
PeerCloseTearsDown ==
  []<>(\/ crashed
       \/ \A e \in eof :
            LET other == <<e[1], Other(e[2])>>
            IN  other \in leaked \/ ~Open(other))

\* No thread ever looks behind the address of a freed ProxyManager.
NoUseAfterFree == ~crashed
=============================================================================
