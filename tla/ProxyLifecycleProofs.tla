------------------------ MODULE ProxyLifecycleProofs ------------------------
(***************************************************************************)
(* What holds of ProxyLifecycle whatever the peers, the sweep and epoll do *)
(* and however many threads there are.  For every number of connections:   *)
(* the types, and Tracked, that no ProxyManager is leaked.  For a          *)
(* connection that is alone: what Alone, in the second half, leads to.     *)
(*                                                                         *)
(* Tracked needs one fact about tear-downs: the last statement of each is  *)
(* the delete, and the statements passed over on the way never include it. *)
(* So a thread that has no statement left has freed the manager, and until *)
(* then it is the one that will.                                           *)
(***************************************************************************)
EXTENDS ProxyLifecycle, SequenceTheorems, WellFoundedInduction, TLAPS

Op   == {"unregister", "close", "clear", "erase", "free"} \X Side
Jobs == {NoJob} \cup [addr : Addr, ops : Seq(Op) \ {<<>>}]

EndsInFree(ops) == ops[Len(ops)][1] = "free"

\* Every tear-down ends with the delete.
JobInv ==
  /\ job \in [Agent -> Jobs]
  /\ \A t \in Agent : job[t] = NoJob \/ EndsInFree(job[t].ops)

\* What is on the ready list is in the interest list.
ReadyInv == \A f \in epReady : interest[f] \in Ptr

\* The types, by the component they belong to.
NetType ==
  /\ arrived \subseteq Conn /\ early \subseteq Conn
  /\ sent \subseteq End /\ eof \subseteq End
  /\ delivered \subseteq End \X End \X End /\ leaked \subseteq End
KernelType ==
  /\ fdTable \in [Fd -> End \cup {Closed}]
  /\ unread \subseteq End
  /\ interest \in [Fd -> Ptr \cup {Closed}]
  /\ epReady \subseteq Fd /\ ReadyInv
HeapType ==
  /\ mem \in [Addr -> Manager \cup {Free}]
  /\ idle \subseteq Addr /\ m_setProxyManager \subseteq Addr
QueueType ==
  /\ batch \subseteq Ptr
  /\ acceptq \in [Index -> Seq(AcceptMsg)]
  /\ csq \in [Index -> Seq(Ptr)]
AccType ==
  acc \in [Index -> {AccIdle} \cup [pc : {"connect"}, msg : AcceptMsg]
                      \cup [pc : {"connecting"}, msg : AcceptMsg, upstreamsock : Fd]
                      \cup [pc : AccInInit, addr : Addr]]
CsType ==
  cs \in [Index -> {CsIdle} \cup [pc : {"recv"}, ptr : Ptr]
                     \cup [pc : {"route"}, ptr : Ptr, from : SUBSET End, for : End]
                     \cup [pc : {"send"}, fd : Fd, from : SUBSET End, for : End]]
SweepType ==
  /\ sweep \in [pc : {"idle", "scan"}, left : SUBSET Addr]
  /\ locked \in BOOLEAN /\ crashed \in BOOLEAN

Types == /\ NetType /\ KernelType /\ HeapType /\ QueueType
         /\ AccType /\ CsType /\ SweepType /\ JobInv

\* The managers there are, and those an accept thread sets up or a thread
\* tears down.
LiveAddrs  == {a \in Addr : Live(a)}
SetUpAddrs == {acc[i].addr : i \in {j \in Index : acc[j].pc \in AccInInit}}
TornAddrs  == {job[t].addr : t \in {u \in Agent : job[u].ops # <<>>}}
NoneLost   == LiveAddrs \subseteq m_setProxyManager \cup SetUpAddrs \cup TornAddrs

IInv == Types /\ NoneLost

-----------------------------------------------------------------------------
\* A nonempty set of natural numbers contains its Min, and nothing smaller.
LEMMA MinIsIn ==
  ASSUME NEW S, S \subseteq Nat, S # {} PROVE Min(S) \in S /\ \A n \in S : Min(S) <= n
<1>. DEFINE Less == {ss \in Nat \X Nat : ss[1] < ss[2]}
<1>1. IsWellFoundedOn(Less, Nat)
  BY NatLessThanWellFounded DEF OpToRel
<1>2. PICK m \in S : \A n \in S : <<n, m>> \notin Less
  <2>. HIDE DEF Less
  <2>. QED  BY <1>1, WFMin
<1>3. ASSUME NEW n \in S PROVE m <= n
  <2>1. <<n, m>> \in Nat \X Nat /\ <<n, m>>[1] = n /\ <<n, m>>[2] = m
    OBVIOUS
  <2>. QED  BY <1>2, <2>1
<1>. QED  BY <1>3 DEF Min

\* The kernel hands out a number that is not in use.
LEMMA LowestIsFree ==
  ASSUME Fd \ OpenFds # {} PROVE LowestFd \in Fd /\ fdTable[LowestFd] = Closed
<1>1. Fd \ OpenFds \subseteq Nat
  BY LifecycleAssumption
<1>. QED  BY <1>1, MinIsIn DEF LowestFd, OpenFds

\* A descriptor chooses one of the threads of a group.
LEMMA ThreadOfFd == \A f \in Nat : f % nThreadCount \in Index
BY LifecycleAssumption DEF Index

\* The two sides.
LEMMA SideFacts ==
  /\ "client" \in Side /\ "server" \in Side
  /\ \A s \in Side : Other(s) \in Side /\ Other(s) # s /\ Other(Other(s)) = s
BY DEF Side, Other

\* A tear-down that is continued by another one ends as that one does.
LEMMA ConcatOps ==
  ASSUME NEW s \in Seq(Op), NEW t \in Seq(Op), t # <<>>
  PROVE  s \o t \in Seq(Op) /\ s \o t # <<>> /\ (EndsInFree(t) => EndsInFree(s \o t))
<1>1. /\ s \o t \in Seq(Op) /\ Len(s) \in Nat /\ Len(t) \in Nat /\ Len(t) # 0
      /\ Len(s \o t) = Len(s) + Len(t)
      /\ \A i \in 1 .. Len(s) + Len(t) :
           (s \o t)[i] = IF i <= Len(s) THEN s[i] ELSE t[i - Len(s)]
  BY ConcatProperties
<1>2. /\ Len(s) + Len(t) \in 1 .. Len(s) + Len(t) /\ ~(Len(s) + Len(t) <= Len(s))
      /\ (Len(s) + Len(t)) - Len(s) = Len(t)
  BY <1>1
<1>. QED  BY <1>1, <1>2 DEF EndsInFree

\* The four tear-downs of the code.
LEMMA TearDowns ==
  \A ops \in {OnIdle, OnFailedInit, Delete} \cup {OnPeerClose(s) : s \in Side} :
    ops \in Seq(Op) /\ ops # <<>> /\ EndsInFree(ops)
<1>. USE SideFacts
<1>1. Delete \in Seq(Op) /\ Delete # <<>> /\ EndsInFree(Delete)
  BY DEF Delete, Op, EndsInFree
<1>2. \A s \in Side : Shut(s) \in Seq(Op) /\ Shut(s) # <<>> /\ << <<"erase", s>> >> \in Seq(Op)
  BY DEF Shut, Op
<1>3. Release \in Seq(Op) /\ Release # <<>>
  BY <1>2, ConcatOps DEF Release
<1>4. << <<"unregister", "client">> >> \in Seq(Op)
  BY DEF Op
<1>5. OnIdle \in Seq(Op) /\ OnIdle # <<>> /\ EndsInFree(OnIdle)
  BY <1>1, <1>3, ConcatOps DEF OnIdle
<1>6. OnFailedInit \in Seq(Op) /\ OnFailedInit # <<>> /\ EndsInFree(OnFailedInit)
  BY <1>1, <1>4, ConcatOps DEF OnFailedInit
<1>7. ASSUME NEW s \in Side
      PROVE  OnPeerClose(s) \in Seq(Op) /\ OnPeerClose(s) # <<>> /\ EndsInFree(OnPeerClose(s))
  <2>1. << <<"erase", s>> >> # <<>>
    OBVIOUS
  <2>2. Shut(s) \o << <<"erase", s>> >> \in Seq(Op) /\ Shut(s) \o << <<"erase", s>> >> # <<>>
    BY <1>2, <2>1, ConcatOps
  <2>3. (Shut(s) \o << <<"erase", s>> >>) \o Release \in Seq(Op)
    BY <1>3, <2>2, ConcatOps
  <2>. QED  BY <1>1, <2>3, ConcatOps DEF OnPeerClose
<1>. QED  BY <1>1, <1>5, <1>6, <1>7

-----------------------------------------------------------------------------
(***************************************************************************)
(* What a thread that tears a manager down does in one step.               *)
(***************************************************************************)

\* Some statement is left that is not passed over: the delete, if no other.
LEMMA NextOpFact ==
  ASSUME JobInv, NEW t \in Agent, job[t].ops # <<>>
  PROVE  /\ job[t].addr \in Addr /\ job[t].ops \in Seq(Op) /\ EndsInFree(job[t].ops)
         /\ NextOp(t) \in 1 .. Len(job[t].ops)
         /\ job[t].ops[NextOp(t)] \in Op
         /\ ~Passed(job[t].addr, job[t].ops[NextOp(t)])
         /\ \A k \in 1 .. Len(job[t].ops) : k < NextOp(t) => Passed(job[t].addr, job[t].ops[k])
<1>. DEFINE ops  == job[t].ops
            Todo == {k \in 1 .. Len(ops) : ~Passed(job[t].addr, ops[k])}
<1>1. job[t] \in Jobs /\ job[t] # NoJob
  BY DEF JobInv, NoJob
<1>2. job[t].addr \in Addr /\ ops \in Seq(Op) /\ EndsInFree(ops)
  BY <1>1 DEF Jobs, JobInv
<1>3. Len(ops) \in Nat \ {0} /\ Len(ops) \in 1 .. Len(ops)
  BY <1>2, EmptySeq
<1>4. Len(ops) \in Todo
  BY <1>2, <1>3 DEF EndsInFree, Passed
<1>5. Todo \subseteq Nat
  BY <1>3
<1>6. NextOp(t) \in Todo /\ \A k \in Todo : NextOp(t) <= k
  BY <1>4, <1>5, MinIsIn DEF NextOp
<1>7. ops[NextOp(t)] \in Op
  BY <1>2, <1>6, ElementOfSeq
<1>8. \A k \in 1 .. Len(ops) : k < NextOp(t) => Passed(job[t].addr, ops[k])
  BY <1>5, <1>6
<1>. QED  BY <1>2, <1>6, <1>7, <1>8

\* What is left after a statement ends in the delete, unless the statement was
\* the delete.
LEMMA RestFact ==
  ASSUME NEW ops \in Seq(Op), EndsInFree(ops), NEW k \in 1 .. Len(ops)
  PROVE  LET rest == SubSeq(ops, k + 1, Len(ops))
         IN  /\ rest \in Seq(Op)
             /\ rest = <<>> => ops[k][1] = "free"
             /\ rest # <<>> => EndsInFree(rest)
<1>. DEFINE n    == Len(ops)
            rest == SubSeq(ops, k + 1, n)
<1>1. n \in Nat /\ k \in Nat /\ k + 1 \in Int /\ n \in Int
  OBVIOUS
<1>2. \A i \in k + 1 .. n : ops[i] \in Op
  <2>1. \A i \in 1 .. n : ops[i] \in Op
    BY ElementOfSeq
  <2>. QED  BY <1>1, <2>1
<1>. HIDE DEF n
<1>3. /\ rest \in Seq(Op)
      /\ Len(rest) = IF k + 1 <= n THEN n - (k + 1) + 1 ELSE 0
      /\ \A i \in 1 .. n - (k + 1) + 1 : rest[i] = ops[k + 1 + i - 1]
  BY <1>1, <1>2, SubSeqProperties
<1>4. CASE k = n
  BY <1>1, <1>3, <1>4, EmptySeq DEF EndsInFree, n
<1>5. CASE k # n
  <2>1. k + 1 <= n /\ n - k \in 1 .. n - (k + 1) + 1 /\ k + 1 + (n - k) - 1 = n
    BY <1>1, <1>5 DEF n
  <2>2. Len(rest) = n - k
    BY <1>1, <1>3, <2>1
  <2>3. rest[n - k] = ops[n]
    BY <1>3, <2>1
  <2>4. rest # <<>>
    BY <1>1, <1>5, <2>1, <2>2, EmptySeq
  <2>. QED  BY <1>3, <2>2, <2>3, <2>4 DEF EndsInFree, n
<1>. QED  BY <1>3, <1>4, <1>5 DEF n

\* A step takes a manager that is not freed and leaves either a job on the same
\* manager, which still ends in the delete, or, after the delete, none.
LEMMA TearFacts ==
  ASSUME Types, NEW t \in Agent, TearStep(t)
  PROVE  \E a \in Addr, s \in Side, j \in Jobs, f \in Fd \cup {-1} :
           /\ a = job[t].addr /\ job[t].ops # <<>> /\ Live(a) /\ mem[a] \in Manager
           /\ job' = [job EXCEPT ![t] = j]
           /\ j = NoJob \/ (j.addr = a /\ j.ops # <<>> /\ EndsInFree(j.ops))
           /\ \/ /\ j # NoJob /\ f \in Fd /\ (Unregister(f) \/ CloseFd(f))
                 /\ UNCHANGED <<mem, idle, m_setProxyManager>>
              \/ /\ j # NoJob /\ mem' = [mem EXCEPT ![a].sock[s] = -1]
                 /\ UNCHANGED <<kernelVars, idle, m_setProxyManager>>
              \/ /\ j # NoJob /\ m_setProxyManager' = m_setProxyManager \ {a}
                 /\ UNCHANGED <<kernelVars, mem, idle>>
              \/ /\ mem' = [mem EXCEPT ![a] = Free]
                 /\ idle' = idle \ {a}
                 /\ UNCHANGED <<kernelVars, m_setProxyManager>>
           /\ JobUnchanged
<1>. DEFINE ops  == job[t].ops
            a    == job[t].addr
            k    == NextOp(t)
            op   == ops[k]
            s    == op[2]
            f    == mem[a].sock[s]
            rest == SubSeq(ops, k + 1, Len(ops))
            JobOf(more) == IF more = <<>> THEN NoJob ELSE [addr |-> a, ops |-> more]
<1>1. ops # <<>> /\ Live(a) /\ JobUnchanged
  BY DEF TearStep
<1>2. /\ a \in Addr /\ ops \in Seq(Op) /\ EndsInFree(ops)
      /\ k \in 1 .. Len(ops) /\ op \in Op /\ ~Passed(a, op)
  BY <1>1, NextOpFact DEF Types
<1>3. mem[a] \in Manager
  BY <1>1, <1>2 DEF Live, Types, HeapType
<1>4. s \in Side /\ op[1] \in {"unregister", "close", "clear", "erase", "free"}
  BY <1>2 DEF Op
<1>5. f \in Fd \cup {-1}
  BY <1>3, <1>4 DEF Manager
<1>6. rest \in Seq(Op) /\ (rest = <<>> => op[1] = "free") /\ (rest # <<>> => EndsInFree(rest))
  BY <1>2, RestFact
<1>7. \/ /\ op[1] = "unregister" /\ Unregister(f)
         /\ job' = [job EXCEPT ![t] = JobOf(rest)]
         /\ UNCHANGED <<mem, idle, m_setProxyManager>>
      \/ /\ op[1] = "close" /\ CloseFd(f)
         /\ job' = [job EXCEPT ![t] = JobOf(AfterClose(s) \o rest)]
         /\ UNCHANGED <<mem, idle, m_setProxyManager>>
      \/ /\ op[1] = "clear" /\ mem' = [mem EXCEPT ![a].sock[s] = -1]
         /\ job' = [job EXCEPT ![t] = JobOf(rest)]
         /\ UNCHANGED <<kernelVars, idle, m_setProxyManager>>
      \/ /\ op[1] = "erase" /\ m_setProxyManager' = m_setProxyManager \ {a}
         /\ job' = [job EXCEPT ![t] = JobOf(rest)]
         /\ UNCHANGED <<kernelVars, mem, idle>>
      \/ /\ op[1] = "free" /\ mem' = [mem EXCEPT ![a] = Free] /\ idle' = idle \ {a}
         /\ job' = [job EXCEPT ![t] = JobOf(rest)]
         /\ UNCHANGED <<kernelVars, m_setProxyManager>>
  BY DEF TearStep
<1>8. ASSUME NEW more \in Seq(Op), more # <<>> => EndsInFree(more)
      PROVE  /\ JobOf(more) \in Jobs
             /\ \/ JobOf(more) = NoJob
                \/ /\ JobOf(more).addr = a /\ JobOf(more).ops # <<>>
                   /\ EndsInFree(JobOf(more).ops)
             /\ more # <<>> => JobOf(more) # NoJob
  BY <1>2, <1>8 DEF Jobs, NoJob
<1>9. op[1] = "close" =>
        /\ AfterClose(s) \o rest \in Seq(Op) /\ AfterClose(s) \o rest # <<>>
        /\ EndsInFree(AfterClose(s) \o rest)
  <2>1. AfterClose(s) \in Seq(Op)
    BY <1>4 DEF AfterClose, Op
  <2>. QED  BY <1>6, <2>1, ConcatOps
<1>10. op[1] \in {"unregister", "close"} => f \in Fd
  BY <1>2, <1>5 DEF Passed
<1>. HIDE DEF ops, a, k, op, s, f, rest, JobOf
<1>11. CASE op[1] = "unregister"
  <2>1. JobOf(rest) \in Jobs /\ JobOf(rest) # NoJob
    BY <1>6, <1>8, <1>11
  <2>2. Unregister(f) /\ job' = [job EXCEPT ![t] = JobOf(rest)]
        /\ UNCHANGED <<mem, idle, m_setProxyManager>>
    BY <1>7, <1>11
  <2>. QED  BY <1>1, <1>2, <1>3, <1>4, <1>5, <1>6, <1>8, <1>10, <1>11, <2>1, <2>2 DEF a, ops
<1>12. CASE op[1] = "close"
  <2>. DEFINE more == AfterClose(s) \o rest
  <2>1. more \in Seq(Op) /\ more # <<>> /\ EndsInFree(more)
    BY <1>9, <1>12
  <2>2. CloseFd(f) /\ job' = [job EXCEPT ![t] = JobOf(more)]
        /\ UNCHANGED <<mem, idle, m_setProxyManager>>
    BY <1>7, <1>12
  <2>. HIDE DEF more
  <2>3. JobOf(more) \in Jobs /\ JobOf(more) # NoJob
    BY <1>8, <2>1
  <2>. QED  BY <1>1, <1>2, <1>3, <1>4, <1>5, <1>8, <1>10, <1>12, <2>1, <2>2, <2>3 DEF a, ops
<1>13. CASE op[1] = "clear"
  <2>1. JobOf(rest) \in Jobs /\ JobOf(rest) # NoJob
    BY <1>6, <1>8, <1>13
  <2>2. mem' = [mem EXCEPT ![a].sock[s] = -1] /\ job' = [job EXCEPT ![t] = JobOf(rest)]
        /\ UNCHANGED <<kernelVars, idle, m_setProxyManager>>
    BY <1>7, <1>13
  <2>. QED  BY <1>1, <1>2, <1>3, <1>4, <1>5, <1>6, <1>8, <2>1, <2>2 DEF a, ops
<1>14. CASE op[1] = "erase"
  <2>1. JobOf(rest) \in Jobs /\ JobOf(rest) # NoJob
    BY <1>6, <1>8, <1>14
  <2>2. m_setProxyManager' = m_setProxyManager \ {a}
        /\ job' = [job EXCEPT ![t] = JobOf(rest)] /\ UNCHANGED <<kernelVars, mem, idle>>
    BY <1>7, <1>14
  <2>. QED  BY <1>1, <1>2, <1>3, <1>4, <1>5, <1>6, <1>8, <2>1, <2>2 DEF a, ops
<1>15. CASE op[1] = "free"
  <2>1. JobOf(rest) \in Jobs
    BY <1>6, <1>8
  <2>2. mem' = [mem EXCEPT ![a] = Free] /\ idle' = idle \ {a}
        /\ job' = [job EXCEPT ![t] = JobOf(rest)] /\ UNCHANGED <<kernelVars, m_setProxyManager>>
    BY <1>7, <1>15
  <2>. QED  BY <1>1, <1>2, <1>3, <1>4, <1>5, <1>6, <1>8, <2>1, <2>2 DEF a, ops
<1>. QED  BY <1>4, <1>11, <1>12, <1>13, <1>14, <1>15

-----------------------------------------------------------------------------
(***************************************************************************)
(* The steps.  What a step leaves alone keeps its type; these lemmas are   *)
(* for what it changes.                                                    *)
(***************************************************************************)

\* Taking a descriptor out of the epoll set, or closing it, takes it off the
\* ready list too.
LEMMA UnwatchKeepsKernel ==
  ASSUME KernelType, NEW f \in Fd, Unregister(f) \/ CloseFd(f)
  PROVE  KernelType'
<1>1. /\ interest' = [interest EXCEPT ![f] = Closed] /\ epReady' = epReady \ {f}
      /\ fdTable' \in [Fd -> End \cup {Closed}] /\ unread' \subseteq End
  BY DEF Unregister, CloseFd, KernelType
<1>2. interest' \in [Fd -> Ptr \cup {Closed}]
  BY <1>1 DEF KernelType
<1>3. \A g \in epReady' : interest'[g] = interest[g]
  BY <1>1 DEF KernelType
<1>. QED  BY <1>1, <1>2, <1>3 DEF KernelType, ReadyInv

\* Registering a descriptor makes its entry an object's address.
LEMMA RegisterKeepsKernel ==
  ASSUME KernelType, NEW f \in Fd, NEW p \in Ptr, Register(f, p)
  PROVE  KernelType'
<1>1. /\ interest' = [interest EXCEPT ![f] = p] /\ epReady' \subseteq epReady \cup {f}
      /\ UNCHANGED <<fdTable, unread>>
  BY DEF Register
<1>2. interest' \in [Fd -> Ptr \cup {Closed}]
  BY <1>1 DEF KernelType
<1>3. \A g \in epReady' : interest'[g] \in Ptr
  BY <1>1 DEF KernelType, ReadyInv
<1>. QED  BY <1>1, <1>2, <1>3 DEF KernelType, ReadyInv

\* Starting a tear-down puts its manager among those being torn down.
LEMMA StartJob ==
  ASSUME JobInv, NEW t \in Agent, job[t].ops = <<>>, NEW a \in Addr,
         NEW ops \in {OnIdle, OnFailedInit, Delete} \cup {OnPeerClose(s) : s \in Side},
         job' = [job EXCEPT ![t] = [addr |-> a, ops |-> ops]]
  PROVE  JobInv' /\ TornAddrs \cup {a} \subseteq TornAddrs'
<1>1. ops \in Seq(Op) /\ ops # <<>> /\ EndsInFree(ops)
  BY TearDowns
<1>2. [addr |-> a, ops |-> ops] \in Jobs
  BY <1>1 DEF Jobs
<1>3. job' \in [Agent -> Jobs] /\ job'[t] = [addr |-> a, ops |-> ops]
  BY <1>2 DEF JobInv
<1>4. \A u \in Agent \ {t} : job'[u] = job[u]
  BY DEF JobInv
<1>5. \A u \in Agent : job'[u] = NoJob \/ EndsInFree(job'[u].ops)
  BY <1>1, <1>3, <1>4 DEF JobInv
<1>6. a \in TornAddrs'
  BY <1>1, <1>3 DEF TornAddrs
<1>7. ASSUME NEW b \in TornAddrs PROVE b \in TornAddrs'
  <2>1. PICK u \in Agent : job[u].ops # <<>> /\ b = job[u].addr
    BY <1>7 DEF TornAddrs
  <2>. QED  BY <1>4, <2>1 DEF TornAddrs
<1>. QED  BY <1>3, <1>5, <1>6, <1>7 DEF JobInv

\* Tearing down: the manager stays with the thread until it is freed.
LEMMA TearKeeps ==
  ASSUME IInv, NEW t \in Agent, TearStep(t) PROVE IInv'
<1>1. PICK a \in Addr, s \in Side, j \in Jobs, f \in Fd \cup {-1} :
           /\ a = job[t].addr /\ job[t].ops # <<>> /\ Live(a) /\ mem[a] \in Manager
           /\ job' = [job EXCEPT ![t] = j]
           /\ j = NoJob \/ (j.addr = a /\ j.ops # <<>> /\ EndsInFree(j.ops))
           /\ \/ /\ j # NoJob /\ f \in Fd /\ (Unregister(f) \/ CloseFd(f))
                 /\ UNCHANGED <<mem, idle, m_setProxyManager>>
              \/ /\ j # NoJob /\ mem' = [mem EXCEPT ![a].sock[s] = -1]
                 /\ UNCHANGED <<kernelVars, idle, m_setProxyManager>>
              \/ /\ j # NoJob /\ m_setProxyManager' = m_setProxyManager \ {a}
                 /\ UNCHANGED <<kernelVars, mem, idle>>
              \/ /\ mem' = [mem EXCEPT ![a] = Free]
                 /\ idle' = idle \ {a}
                 /\ UNCHANGED <<kernelVars, m_setProxyManager>>
           /\ JobUnchanged
  BY TearFacts DEF IInv
<1>2. UNCHANGED <<netVars, batch, queueVars, acc, cs, sweep, locked, ghostVars, crashed>>
  BY <1>1 DEF JobUnchanged
<1>3. KernelType'
  <2>1. CASE UNCHANGED kernelVars
    BY <2>1 DEF IInv, Types, KernelType, ReadyInv, kernelVars
  <2>2. CASE f \in Fd /\ (Unregister(f) \/ CloseFd(f))
    BY <2>2, UnwatchKeepsKernel DEF IInv, Types
  <2>. QED  BY <1>1, <2>1, <2>2
<1>4. HeapType' /\ LiveAddrs' \subseteq LiveAddrs
      /\ (j = NoJob => a \notin LiveAddrs')
      /\ m_setProxyManager \ {a} \subseteq m_setProxyManager'
  <2>1. CASE UNCHANGED <<mem, idle>> /\ j # NoJob /\ (UNCHANGED m_setProxyManager \/ m_setProxyManager' = m_setProxyManager \ {a})
    BY <2>1 DEF IInv, Types, HeapType, LiveAddrs, Live
  <2>2. CASE j # NoJob /\ mem' = [mem EXCEPT ![a].sock[s] = -1] /\ UNCHANGED <<idle, m_setProxyManager>>
    <3>1. [mem[a] EXCEPT !.sock[s] = -1] \in Manager
      BY <1>1 DEF Manager
    <3>2. mem' \in [Addr -> Manager \cup {Free}] /\ \A b \in Addr \ {a} : mem'[b] = mem[b]
      BY <2>2, <3>1 DEF IInv, Types, HeapType
    <3>3. \A b \in Addr : mem'[b] # Free => mem[b] # Free
      BY <1>1, <3>2 DEF Live
    <3>. QED  BY <2>2, <3>2, <3>3 DEF IInv, Types, HeapType, LiveAddrs, Live
  <2>3. CASE mem' = [mem EXCEPT ![a] = Free] /\ idle' = idle \ {a} /\ UNCHANGED m_setProxyManager
    BY <2>3 DEF IInv, Types, HeapType, LiveAddrs, Live
  <2>. QED  BY <1>1, <2>1, <2>2, <2>3
<1>5. JobInv' /\ TornAddrs \ {a} \subseteq TornAddrs' /\ (j # NoJob => a \in TornAddrs')
  <2>1. job' \in [Agent -> Jobs] /\ job'[t] = j /\ \A u \in Agent \ {t} : job'[u] = job[u]
    BY <1>1 DEF IInv, Types, JobInv
  <2>2. \A u \in Agent : job'[u] = NoJob \/ EndsInFree(job'[u].ops)
    BY <1>1, <2>1 DEF IInv, Types, JobInv
  <2>3. ASSUME NEW b \in TornAddrs, b # a PROVE b \in TornAddrs'
    <3>1. PICK u \in Agent : job[u].ops # <<>> /\ b = job[u].addr
      BY <2>3 DEF TornAddrs
    <3>. QED  BY <1>1, <2>1, <2>3, <3>1 DEF TornAddrs
  <2>4. j # NoJob => a \in TornAddrs'
    BY <1>1, <2>1 DEF TornAddrs
  <2>. QED  BY <2>1, <2>2, <2>3, <2>4 DEF JobInv
<1>6. SetUpAddrs' = SetUpAddrs
  BY <1>2 DEF SetUpAddrs
<1>7. NoneLost'
  BY <1>4, <1>5, <1>6 DEF IInv, NoneLost
<1>. QED
  BY <1>2, <1>3, <1>4, <1>5, <1>7
     DEF IInv, Types, NetType, QueueType, AccType, CsType, SweepType, netVars, queueVars, ghostVars

\* What is left alone: managers, jobs and set-ups.
LEMMA NothingLost ==
  ASSUME NoneLost, UNCHANGED <<mem, job, acc, m_setProxyManager>> PROVE NoneLost'
BY DEF NoneLost, LiveAddrs, Live, SetUpAddrs, TornAddrs

\* A message appended to the queue of one thread.
LEMMA AppendKeepsQueues ==
  ASSUME NEW S, NEW q \in [Index -> Seq(S)], NEW i \in Index, NEW m \in S
  PROVE  [q EXCEPT ![i] = Append(@, m)] \in [Index -> Seq(S)]
<1>1. Append(q[i], m) \in Seq(S)
  OBVIOUS
<1>. QED  BY <1>1

\* The head of a nonempty queue is a message, and the tail a queue.
LEMMA TailKeepsQueues ==
  ASSUME NEW S, NEW q \in [Index -> Seq(S)], NEW i \in Index, q[i] # <<>>
  PROVE  Head(q[i]) \in S /\ [q EXCEPT ![i] = Tail(@)] \in [Index -> Seq(S)]
<1>1. Head(q[i]) \in S /\ Tail(q[i]) \in Seq(S)
  BY HeadTailProperties
<1>. QED  BY <1>1

\* The kernel completes a connection and the reactor accepts it.
LEMMA AcceptClientKeeps ==
  ASSUME IInv, NEW c \in Conn, AcceptClient(c) PROVE IInv'
<1>. DEFINE m == [fd |-> LowestFd, conn |-> c]
<1>1. LowestFd \in Fd
  BY LowestIsFree DEF AcceptClient
<1>2. m \in AcceptMsg /\ LowestFd % nThreadCount \in Index /\ <<c, "client">> \in End
  BY <1>1, ThreadOfFd, LifecycleAssumption, SideFacts DEF AcceptMsg, End
<1>3. acceptq' \in [Index -> Seq(AcceptMsg)]
  BY <1>2, AppendKeepsQueues DEF AcceptClient, IInv, Types, QueueType
<1>4. fdTable' \in [Fd -> End \cup {Closed}]
  BY <1>1, <1>2 DEF AcceptClient, IInv, Types, KernelType
<1>5. NoneLost'
  BY NothingLost DEF IInv, AcceptClient, ReactorUnchanged, setVars
<1>. QED
  BY <1>3, <1>4, <1>5 DEF AcceptClient, ReactorUnchanged, setVars, ghostVars, IInv, Types,
     NetType, KernelType, ReadyInv, HeapType, QueueType, AccType, CsType, SweepType, JobInv

\* The peers send, close, and let time pass.
LEMMA PeerKeeps ==
  ASSUME IInv, NEW e \in End, PeerSends(e) \/ PeerCloses(e) PROVE IInv'
<1>1. /\ PeerUnchanged /\ ActsInTime(e[1]) /\ epReady' = epReady \cup Wake(e)
      /\ sent' \subseteq End /\ eof' \subseteq End /\ unread' \subseteq End
  BY DEF PeerSends, PeerCloses, IInv, Types, NetType, KernelType
<1>2. e[1] \in Conn
  BY DEF End
<1>3. early' \subseteq Conn
  BY <1>1, <1>2 DEF ActsInTime, IInv, Types, NetType
<1>4. epReady' \subseteq Fd /\ \A f \in epReady' : interest'[f] \in Ptr
  BY <1>1 DEF Wake, PeerUnchanged, IInv, Types, KernelType, ReadyInv
<1>5. NoneLost'
  BY <1>1, NothingLost DEF IInv, PeerUnchanged, setVars
<1>. QED
  BY <1>1, <1>3, <1>4, <1>5 DEF PeerUnchanged, queueVars, setVars, ghostVars, IInv, Types,
     NetType, KernelType, ReadyInv, HeapType, QueueType, AccType, CsType, SweepType, JobInv

\* The clock makes a connection idle.
LEMMA TimePassesKeeps ==
  ASSUME IInv, NEW a \in Addr, TimePasses(a) PROVE IInv'
<1>1. NoneLost'
  BY NothingLost DEF IInv, TimePasses, setVars
<1>. QED
  BY <1>1 DEF TimePasses, netVars, kernelVars, queueVars, setVars, ghostVars, IInv, Types,
     NetType, KernelType, ReadyInv, HeapType, QueueType, AccType, CsType, SweepType, JobInv

\* The reactor takes a batch: what is ready is in the interest list.
LEMMA EpollWaitKeeps ==
  ASSUME IInv, EpollWait PROVE IInv'
<1>1. batch' \subseteq Ptr /\ epReady' = {}
  BY DEF EpollWait, IInv, Types, KernelType, ReadyInv
<1>2. NoneLost'
  BY NothingLost DEF IInv, EpollWait, ReactorUnchanged, setVars
<1>. QED
  BY <1>1, <1>2 DEF EpollWait, ReactorUnchanged, queueVars, setVars, ghostVars, IInv, Types,
     NetType, KernelType, ReadyInv, HeapType, QueueType, AccType, CsType, SweepType, JobInv

\* The reactor hands an object to the thread its descriptor chooses.
LEMMA HandleInputKeeps ==
  ASSUME IInv, NEW p \in Ptr, HandleInput(p) PROVE IInv'
<1>. DEFINE a == p[1]
            f == mem[a].sock[p[2]]
<1>1. a \in Addr /\ p[2] \in Side
  BY DEF Ptr
<1>2. batch' \subseteq Ptr /\ idle' \subseteq Addr
  BY DEF HandleInput, IInv, Types, QueueType, HeapType
<1>3. csq' \in [Index -> Seq(Ptr)]
  <2>1. CASE UNCHANGED csq
    BY <2>1 DEF IInv, Types, QueueType
  <2>2. CASE Live(a) /\ f # -1 /\ csq' = [csq EXCEPT ![f % nThreadCount] = Append(@, p)]
    <3>1. mem[a] \in Manager
      BY <1>1, <2>2 DEF Live, IInv, Types, HeapType
    <3>2. f % nThreadCount \in Index
      BY <1>1, <2>2, <3>1, ThreadOfFd, LifecycleAssumption DEF Manager
    <3>. QED  BY <2>2, <3>2, AppendKeepsQueues DEF IInv, Types, QueueType
  <2>. QED  BY <2>1, <2>2 DEF HandleInput
<1>4. NoneLost'
  BY NothingLost DEF IInv, HandleInput, ReactorUnchanged, setVars
<1>. QED
  BY <1>2, <1>3, <1>4 DEF HandleInput, ReactorUnchanged, setVars, ghostVars, IInv, Types,
     NetType, KernelType, ReadyInv, HeapType, QueueType, AccType, CsType, SweepType, JobInv

\* A crash stops the program where it is.
LEMMA CrashKeeps ==
  ASSUME IInv, Crash PROVE IInv'
<1>1. NoneLost'
  BY NothingLost DEF IInv, Crash, setVars
<1>. QED
  BY <1>1 DEF Crash, netVars, kernelVars, queueVars, setVars, ghostVars, IInv, Types,
     NetType, KernelType, ReadyInv, HeapType, QueueType, AccType, CsType, SweepType, JobInv

-----------------------------------------------------------------------------
(***************************************************************************)
(* The accept threads.                                                     *)
(***************************************************************************)

AccRecord == {AccIdle} \cup [pc : {"connect"}, msg : AcceptMsg]
               \cup [pc : {"connecting"}, msg : AcceptMsg, upstreamsock : Fd]
               \cup [pc : AccInInit, addr : Addr]

\* An accept thread holds a message or the manager it sets up.
LEMMA AccFacts ==
  ASSUME AccType, NEW i \in Index
  PROVE  /\ acc[i].pc \in {"connect", "connecting"} =>
              /\ acc[i].msg \in AcceptMsg
              /\ acc[i].msg.fd \in Fd /\ acc[i].msg.conn \in Conn
         /\ acc[i].pc = "connecting" => acc[i].upstreamsock \in Fd
         /\ acc[i].pc \in AccInInit => acc[i] \in [pc : AccInInit, addr : Addr]
<1>1. acc[i] \in AccRecord
  BY DEF AccType, AccRecord
<1>. QED  BY <1>1 DEF AccRecord, AccIdle, AccInInit, AcceptMsg

\* When one accept thread moves on, the managers the others set up stay theirs.
LEMMA AccMoves ==
  ASSUME AccType, NEW i \in Index, NEW new \in AccRecord, acc' = [acc EXCEPT ![i] = new]
  PROVE  /\ AccType'
         /\ new.pc \in AccInInit => new.addr \in SetUpAddrs'
         /\ \A b \in SetUpAddrs \ SetUpAddrs' : acc[i].pc \in AccInInit /\ b = acc[i].addr
<1>1. AccType' /\ acc'[i] = new /\ \A j \in Index \ {i} : acc'[j] = acc[j]
  BY DEF AccType, AccRecord
<1>2. new.pc \in AccInInit => new.addr \in SetUpAddrs'
  BY <1>1 DEF SetUpAddrs
<1>3. ASSUME NEW b \in SetUpAddrs, b \notin SetUpAddrs'
      PROVE  acc[i].pc \in AccInInit /\ b = acc[i].addr
  <2>1. PICK j \in Index : acc[j].pc \in AccInInit /\ b = acc[j].addr
    BY <1>3 DEF SetUpAddrs
  <2>. QED  BY <1>1, <1>3, <2>1 DEF SetUpAddrs
<1>. QED  BY <1>1, <1>2, <1>3

\* What every step of an accept thread leaves alone.
LEMMA AcceptFrame ==
  ASSUME IInv, AccUnchanged, leaked' \subseteq End, acceptq' \in [Index -> Seq(AcceptMsg)],
         KernelType', HeapType', AccType', JobInv', NoneLost'
  PROVE  IInv'
BY DEF AccUnchanged, netVars, IInv, Types, NetType, QueueType, CsType, SweepType

\* A message is taken, or the client's descriptor closed because there is no
\* upstream: no manager is involved.
LEMMA TakeAcceptKeeps ==
  ASSUME IInv, NEW i \in Index, TakeAccept(i) PROVE IInv'
<1>. DEFINE new == [pc |-> "connect", msg |-> Head(acceptq[i])]
<1>1. Head(acceptq[i]) \in AcceptMsg /\ acceptq' \in [Index -> Seq(AcceptMsg)]
  BY TailKeepsQueues DEF TakeAccept, IInv, Types, QueueType
<1>2. new \in AccRecord /\ acc' = [acc EXCEPT ![i] = new] /\ acc[i].pc = "idle"
  BY <1>1 DEF AccRecord, TakeAccept, AccPc
<1>. HIDE DEF new
<1>3. AccType' /\ SetUpAddrs \subseteq SetUpAddrs'
  BY <1>2, AccMoves DEF IInv, Types, AccInInit
<1>4. NoneLost'
  BY <1>3 DEF TakeAccept, IInv, NoneLost, LiveAddrs, Live, TornAddrs
<1>5. KernelType' /\ HeapType' /\ JobInv' /\ leaked' \subseteq End
  BY DEF TakeAccept, kernelVars, IInv, Types, NetType, KernelType, ReadyInv, HeapType, JobInv
<1>. QED  BY <1>1, <1>3, <1>4, <1>5, AcceptFrame DEF TakeAccept

\* The client's socket is closed.
LEMMA SocketFailsKeeps ==
  ASSUME IInv, NEW i \in Index, SocketFails(i) PROVE IInv'
<1>1. acc[i].pc = "connect" /\ acc' = [acc EXCEPT ![i] = AccIdle] /\ AccIdle \in AccRecord
  BY DEF SocketFails, AccPc, AccRecord
<1>2. AccType' /\ SetUpAddrs \subseteq SetUpAddrs'
  BY <1>1, AccMoves DEF IInv, Types, AccInInit
<1>3. KernelType'
  BY <1>1, AccFacts, UnwatchKeepsKernel DEF SocketFails, IInv, Types
<1>4. NoneLost'
  BY <1>2 DEF SocketFails, IInv, NoneLost, LiveAddrs, Live, TornAddrs
<1>5. HeapType' /\ JobInv' /\ leaked' \subseteq End /\ acceptq' \in [Index -> Seq(AcceptMsg)]
  BY DEF SocketFails, IInv, Types, NetType, QueueType, HeapType, JobInv
<1>. QED  BY <1>2, <1>3, <1>4, <1>5, AcceptFrame DEF SocketFails

\* The upstream socket is opened.
LEMMA GetSocketKeeps ==
  ASSUME IInv, NEW i \in Index, GetSocket(i) PROVE IInv'
<1>. DEFINE new == [pc |-> "connecting", msg |-> acc[i].msg, upstreamsock |-> LowestFd]
            e == <<acc[i].msg.conn, "server">>
<1>1. acc[i].pc = "connect" /\ acc' = [acc EXCEPT ![i] = new]
  BY DEF GetSocket, AccPc
<1>2. acc[i].msg \in AcceptMsg /\ e \in End /\ LowestFd \in Fd
  BY <1>1, AccFacts, LowestIsFree, SideFacts DEF GetSocket, IInv, Types, End
<1>3. new \in AccRecord
  BY <1>2 DEF AccRecord
<1>4. fdTable' = [fdTable EXCEPT ![LowestFd] = e]
  BY DEF GetSocket
<1>. HIDE DEF new, e
<1>5. AccType' /\ SetUpAddrs \subseteq SetUpAddrs'
  BY <1>1, <1>3, AccMoves DEF IInv, Types, AccInInit
<1>6. fdTable' \in [Fd -> End \cup {Closed}]
  BY <1>2, <1>4 DEF IInv, Types, KernelType
<1>7. KernelType'
  BY <1>6 DEF GetSocket, IInv, Types, KernelType, ReadyInv
<1>8. NoneLost'
  BY <1>5 DEF GetSocket, IInv, NoneLost, LiveAddrs, Live, TornAddrs
<1>9. HeapType' /\ JobInv' /\ leaked' \subseteq End /\ acceptq' \in [Index -> Seq(AcceptMsg)]
  BY DEF GetSocket, IInv, Types, NetType, QueueType, HeapType, JobInv
<1>. QED  BY <1>5, <1>7, <1>8, <1>9, AcceptFrame DEF GetSocket

\* The client's socket is closed, the upstream one stays open.
LEMMA ConnectFailsKeeps ==
  ASSUME IInv, NEW i \in Index, ConnectFails(i) PROVE IInv'
<1>. DEFINE e == <<acc[i].msg.conn, "server">>
<1>1. acc[i].pc = "connecting" /\ acc' = [acc EXCEPT ![i] = AccIdle] /\ AccIdle \in AccRecord
  BY DEF ConnectFails, AccPc, AccRecord
<1>2. AccType' /\ SetUpAddrs \subseteq SetUpAddrs'
  BY <1>1, AccMoves DEF IInv, Types, AccInInit
<1>3. acc[i].msg.fd \in Fd /\ e \in End
  BY <1>1, AccFacts, SideFacts DEF IInv, Types, End
<1>4. KernelType'
  BY <1>3, UnwatchKeepsKernel DEF ConnectFails, IInv, Types
<1>5. NoneLost'
  BY <1>2 DEF ConnectFails, IInv, NoneLost, LiveAddrs, Live, TornAddrs
<1>6. HeapType' /\ JobInv' /\ leaked' \subseteq End /\ acceptq' \in [Index -> Seq(AcceptMsg)]
  BY <1>3 DEF ConnectFails, IInv, Types, NetType, QueueType, HeapType, JobInv
<1>. QED  BY <1>2, <1>4, <1>5, <1>6, AcceptFrame DEF ConnectFails

\* A manager is made: the accept thread sets it up.
LEMMA ConnectUpstreamKeeps ==
  ASSUME IInv, NEW i \in Index, ConnectUpstream(i) PROVE IInv'
<1>. DEFINE m == [conn |-> acc[i].msg.conn, m_bRelease |-> FALSE,
                  sock |-> [client |-> acc[i].msg.fd, server |-> acc[i].upstreamsock]]
<1>1. PICK a \in Addr :
        /\ ~Live(a) /\ mem' = [mem EXCEPT ![a] = m]
        /\ acc' = [acc EXCEPT ![i] = [pc |-> "initClient", addr |-> a]]
  BY DEF ConnectUpstream
<1>2. /\ acc[i].pc = "connecting" /\ acc[i].msg.fd \in Fd /\ acc[i].msg.conn \in Conn
      /\ acc[i].upstreamsock \in Fd
  BY AccFacts DEF ConnectUpstream, AccPc, IInv, Types
<1>3. m \in Manager
  BY <1>2 DEF Manager, Side
<1>. HIDE DEF m
<1>4. HeapType' /\ LiveAddrs' \subseteq LiveAddrs \cup {a}
  BY <1>1, <1>3 DEF ConnectUpstream, IInv, Types, HeapType, LiveAddrs, Live
<1>5. AccType' /\ SetUpAddrs \cup {a} \subseteq SetUpAddrs'
  <2>. DEFINE new == [pc |-> "initClient", addr |-> a]
  <2>1. new \in AccRecord /\ new.pc \in AccInInit /\ new.addr = a
    BY DEF AccRecord, AccInInit
  <2>2. acc' = [acc EXCEPT ![i] = new]
    BY <1>1
  <2>. HIDE DEF new
  <2>. QED  BY <1>2, <2>1, <2>2, AccMoves DEF IInv, Types, AccInInit
<1>6. NoneLost'
  BY <1>4, <1>5 DEF ConnectUpstream, IInv, NoneLost, TornAddrs
<1>7. KernelType' /\ JobInv' /\ leaked' \subseteq End /\ acceptq' \in [Index -> Seq(AcceptMsg)]
  BY DEF ConnectUpstream, kernelVars, IInv, Types, NetType, QueueType, KernelType, ReadyInv, JobInv
<1>. QED  BY <1>4, <1>5, <1>6, <1>7, AcceptFrame DEF ConnectUpstream

\* One side is registered, or the manager passes from the set-up to a tear-down.
LEMMA InitSideKeeps ==
  ASSUME IInv, NEW i \in Index, NEW s \in Side, NEW here \in AccInInit, NEW next \in AccInInit,
         InitSide(i, s, here, next)
  PROVE  IInv'
<1>. DEFINE a == acc[i].addr
            f == mem[a].sock[s]
            t == AcceptThread(i)
<1>1. /\ acc[i].pc \in AccInInit /\ job[t].ops = <<>> /\ Live(a) /\ AccUnchanged
      /\ UNCHANGED <<acceptq, mem, idle, m_setProxyManager, leaked>>
  BY DEF InitSide, AccPc
<1>2. acc[i] \in [pc : AccInInit, addr : Addr] /\ a \in Addr /\ t \in Agent
  BY <1>1, AccFacts DEF IInv, Types, Agent
<1>3. mem[a] \in Manager
  BY <1>1, <1>2 DEF Live, IInv, Types, HeapType
<1>4. HeapType' /\ leaked' \subseteq End /\ acceptq' \in [Index -> Seq(AcceptMsg)]
      /\ LiveAddrs' = LiveAddrs
  BY <1>1 DEF IInv, Types, NetType, QueueType, HeapType, LiveAddrs, Live
<1>5. CASE CanRegister(f) /\ Register(f, <<a, s>>) /\ AccGoto(i, next) /\ UNCHANGED job
  <2>1. f \in Fd /\ <<a, s>> \in Ptr
    BY <1>2, <1>3, <1>5 DEF CanRegister, Manager, Ptr
  <2>2. KernelType'
    BY <1>5, <2>1, RegisterKeepsKernel DEF IInv, Types
  <2>. DEFINE new == [acc[i] EXCEPT !.pc = next]
  <2>3. new \in AccRecord /\ new.pc \in AccInInit /\ new.addr = a
    BY <1>2 DEF AccRecord
  <2>4. acc' = [acc EXCEPT ![i] = new]
    BY <1>5 DEF AccGoto
  <2>. HIDE DEF new
  <2>5. AccType' /\ SetUpAddrs \subseteq SetUpAddrs'
    BY <2>3, <2>4, AccMoves DEF IInv, Types
  <2>6. JobInv' /\ NoneLost'
    BY <1>1, <1>4, <1>5, <2>5 DEF IInv, Types, JobInv, NoneLost, TornAddrs
  <2>. QED  BY <1>1, <1>4, <2>2, <2>5, <2>6, AcceptFrame
<1>6. CASE /\ job' = [job EXCEPT ![t] = [addr |-> a,
                        ops |-> IF s = "client" THEN Delete ELSE OnFailedInit]]
           /\ acc' = [acc EXCEPT ![i] = AccIdle] /\ UNCHANGED kernelVars
  <2>1. JobInv' /\ TornAddrs \cup {a} \subseteq TornAddrs'
    <3>. DEFINE ops == IF s = "client" THEN Delete ELSE OnFailedInit
    <3>1. ops \in {OnIdle, OnFailedInit, Delete} \cup {OnPeerClose(r) : r \in Side}
      OBVIOUS
    <3>2. job' = [job EXCEPT ![t] = [addr |-> a, ops |-> ops]]
      BY <1>6
    <3>. HIDE DEF ops, a, t
    <3>. QED  BY <1>1, <1>2, <3>1, <3>2, StartJob DEF IInv, Types
  <2>2. AccIdle \in AccRecord
    BY DEF AccRecord
  <2>3. AccType' /\ SetUpAddrs \ {a} \subseteq SetUpAddrs'
    BY <1>6, <2>2, AccMoves DEF IInv, Types
  <2>4. NoneLost'
    BY <1>1, <1>4, <2>1, <2>3 DEF IInv, NoneLost
  <2>5. KernelType'
    BY <1>6 DEF kernelVars, IInv, Types, KernelType, ReadyInv
  <2>. QED  BY <1>1, <1>4, <2>1, <2>3, <2>4, <2>5, AcceptFrame
<1>. QED  BY <1>5, <1>6 DEF InitSide

\* The set-up goes on.
LEMMA StampTimeKeeps ==
  ASSUME IInv, NEW i \in Index, StampTime(i) PROVE IInv'
<1>. DEFINE new == [acc[i] EXCEPT !.pc = "add"]
<1>1. acc[i].pc \in AccInInit /\ acc[i] \in [pc : AccInInit, addr : Addr]
  BY AccFacts DEF StampTime, AccPc, AccInInit, IInv, Types
<1>2. new \in AccRecord /\ new.pc \in AccInInit /\ new.addr = acc[i].addr
  BY <1>1 DEF AccRecord, AccInInit
<1>3. acc' = [acc EXCEPT ![i] = new]
  BY DEF StampTime, AccGoto
<1>. HIDE DEF new
<1>4. AccType' /\ SetUpAddrs \subseteq SetUpAddrs'
  BY <1>2, <1>3, AccMoves DEF IInv, Types
<1>5. NoneLost'
  BY <1>4 DEF StampTime, IInv, NoneLost, LiveAddrs, Live, TornAddrs
<1>6. /\ KernelType' /\ HeapType' /\ JobInv' /\ leaked' \subseteq End
      /\ acceptq' \in [Index -> Seq(AcceptMsg)]
  BY DEF StampTime, kernelVars, IInv, Types, NetType, QueueType, KernelType, ReadyInv, HeapType, JobInv
<1>. QED  BY <1>4, <1>5, <1>6, AcceptFrame DEF StampTime

\* The manager passes from the set-up to the set.
LEMMA AddProxyManagerKeeps ==
  ASSUME IInv, NEW i \in Index, AddProxyManager(i) PROVE IInv'
<1>1. acc[i].pc \in AccInInit /\ acc[i] \in [pc : AccInInit, addr : Addr]
  BY AccFacts DEF AddProxyManager, AccPc, AccInInit, IInv, Types
<1>2. AccIdle \in AccRecord /\ acc' = [acc EXCEPT ![i] = AccIdle]
  BY DEF AccRecord, AddProxyManager
<1>3. AccType' /\ SetUpAddrs \ {acc[i].addr} \subseteq SetUpAddrs'
  BY <1>2, AccMoves DEF IInv, Types
<1>4. NoneLost' /\ HeapType'
  BY <1>1, <1>3 DEF AddProxyManager, IInv, Types, HeapType, NoneLost, LiveAddrs, Live, TornAddrs
<1>5. KernelType' /\ JobInv' /\ leaked' \subseteq End /\ acceptq' \in [Index -> Seq(AcceptMsg)]
  BY DEF AddProxyManager, kernelVars, IInv, Types, NetType, QueueType, KernelType, ReadyInv, JobInv
<1>. QED  BY <1>3, <1>4, <1>5, AcceptFrame DEF AddProxyManager

-----------------------------------------------------------------------------
(***************************************************************************)
(* The client/server threads.                                              *)
(***************************************************************************)

CsRecord == {CsIdle} \cup [pc : {"recv"}, ptr : Ptr]
              \cup [pc : {"route"}, ptr : Ptr, from : SUBSET End, for : End]
              \cup [pc : {"send"}, fd : Fd, from : SUBSET End, for : End]

\* What a client/server thread holds.
LEMMA CsFacts ==
  ASSUME CsType, NEW i \in Index
  PROVE  /\ cs[i].pc \in {"recv", "route"} =>
              cs[i].ptr \in Ptr /\ cs[i].ptr[1] \in Addr /\ cs[i].ptr[2] \in Side
         /\ cs[i].pc \in {"route", "send"} => cs[i].from \subseteq End /\ cs[i].for \in End
         /\ cs[i].pc = "send" => cs[i].fd \in Fd
<1>1. cs[i] \in CsRecord
  BY DEF CsType, CsRecord
<1>. QED  BY <1>1 DEF CsRecord, CsIdle, Ptr

\* A client/server thread that goes on to new locals keeps the types.
LEMMA CsFrame ==
  ASSUME IInv, CsUnchanged, NEW i \in Index, NEW new \in CsRecord,
         cs' = [cs EXCEPT ![i] = new], unread' \subseteq End, csq' \in [Index -> Seq(Ptr)],
         delivered' \subseteq End \X End \X End, JobInv', TornAddrs \subseteq TornAddrs'
  PROVE  IInv'
<1>1. CsType'
  BY DEF IInv, Types, CsType, CsRecord
<1>2. NoneLost'
  BY DEF CsUnchanged, setVars, IInv, NoneLost, LiveAddrs, Live, SetUpAddrs
<1>. QED
  BY <1>1, <1>2 DEF CsUnchanged, netVars, setVars, IInv, Types, NetType, KernelType, ReadyInv,
     HeapType, QueueType, AccType, SweepType

\* A message is taken from the queue.
LEMMA TakeMessageKeeps ==
  ASSUME IInv, NEW i \in Index, TakeMessage(i) PROVE IInv'
<1>1. Head(csq[i]) \in Ptr /\ csq' \in [Index -> Seq(Ptr)]
  BY TailKeepsQueues DEF TakeMessage, IInv, Types, QueueType
<1>2. PICK new : /\ new = CsIdle \/ new = [pc |-> "recv", ptr |-> Head(csq[i])]
                 /\ cs' = [cs EXCEPT ![i] = new]
  BY DEF TakeMessage
<1>3. new \in CsRecord
  BY <1>1, <1>2 DEF CsRecord
<1>4. unread' \subseteq End /\ delivered' \subseteq End \X End \X End /\ JobInv' /\ TornAddrs' = TornAddrs
  BY DEF TakeMessage, IInv, Types, NetType, KernelType, JobInv, TornAddrs
<1>. QED  BY <1>1, <1>2, <1>3, <1>4, CsFrame DEF TakeMessage

\* What recv does with a socket: a thread goes on to send what it has read, or it tears
\* its manager down.
LEMMA RecvDoes ==
  ASSUME NEW i \in Index, Recv(i)
  PROVE  LET p == cs[i].ptr
             f == mem[CsAddr(i)].sock[p[2]]
             e == IF f = -1 THEN Closed ELSE fdTable[f]
         IN  /\ cs[i].pc = "recv" /\ job[CsThread(i)].ops = <<>> /\ Live(CsAddr(i))
             /\ CsUnchanged /\ UNCHANGED <<csq, delivered>>
             /\ unread' \in {unread, unread \ {e}}
             /\ \/ /\ SeesEnd(e)
                   /\ job' = [job EXCEPT ![CsThread(i)] =
                                [addr |-> CsAddr(i), ops |-> OnPeerClose(p[2])]]
                   /\ cs' = [cs EXCEPT ![i] = CsIdle]
                \/ /\ e # Closed /\ e \notin eof /\ unread' = unread \ {e}
                   /\ cs' = [cs EXCEPT ![i] =
                                [pc |-> "route", ptr |-> p, from |-> unread \cap {e},
                                 for |-> <<mem[p[1]].conn, p[2]>>]]
                   /\ UNCHANGED job
<1>. DEFINE p == cs[i].ptr
            f == mem[CsAddr(i)].sock[p[2]]
            e == IF f = -1 THEN Closed ELSE fdTable[f]
<1>1. /\ cs[i].pc = "recv" /\ job[CsThread(i)].ops = <<>> /\ Live(CsAddr(i))
      /\ CsUnchanged /\ UNCHANGED <<csq, delivered>>
      /\ \/ /\ SeesEnd(e)
            /\ job' = [job EXCEPT ![CsThread(i)] =
                         [addr |-> CsAddr(i), ops |-> OnPeerClose(p[2])]]
            /\ cs' = [cs EXCEPT ![i] = CsIdle]
         \/ /\ ReadsAll(e)
            /\ cs' = [cs EXCEPT ![i] =
                         [pc |-> "route", ptr |-> p, from |-> unread \cap {e},
                          for |-> <<mem[p[1]].conn, p[2]>>]]
            /\ UNCHANGED job
  BY DEF Recv, CsPc
<1>. HIDE DEF p, f, e
<1>2. SeesEnd(e) => unread' \in {unread, unread \ {e}}
  BY DEF SeesEnd
<1>3. ReadsAll(e) => e # Closed /\ e \notin eof /\ unread' = unread \ {e}
  BY DEF ReadsAll
<1>4. /\ cs[i].pc = "recv" /\ job[CsThread(i)].ops = <<>> /\ Live(CsAddr(i))
      /\ CsUnchanged /\ UNCHANGED <<csq, delivered>>
      /\ unread' \in {unread, unread \ {e}}
      /\ \/ /\ SeesEnd(e)
            /\ job' = [job EXCEPT ![CsThread(i)] =
                         [addr |-> CsAddr(i), ops |-> OnPeerClose(p[2])]]
            /\ cs' = [cs EXCEPT ![i] = CsIdle]
         \/ /\ e # Closed /\ e \notin eof /\ unread' = unread \ {e}
            /\ cs' = [cs EXCEPT ![i] =
                         [pc |-> "route", ptr |-> p, from |-> unread \cap {e},
                          for |-> <<mem[p[1]].conn, p[2]>>]]
            /\ UNCHANGED job
  <2>1. CASE SeesEnd(e) /\ job' = [job EXCEPT ![CsThread(i)] =
                                     [addr |-> CsAddr(i), ops |-> OnPeerClose(p[2])]]
                        /\ cs' = [cs EXCEPT ![i] = CsIdle]
    BY <1>1, <1>2, <2>1
  <2>2. CASE ReadsAll(e) /\ cs' = [cs EXCEPT ![i] =
                             [pc |-> "route", ptr |-> p, from |-> unread \cap {e},
                              for |-> <<mem[p[1]].conn, p[2]>>]]
                         /\ UNCHANGED job
    BY <1>1, <1>3, <2>2
  <2>. QED  BY <1>1, <2>1, <2>2
<1>. QED  BY <1>4 DEF p, f, e

\* What was read goes on to be sent, or a close starts the tear-down.
LEMMA RecvKeeps ==
  ASSUME IInv, NEW i \in Index, Recv(i) PROVE IInv'
<1>. DEFINE p == cs[i].ptr
            t == CsThread(i)
            a == CsAddr(i)
            f == mem[a].sock[p[2]]
            e == IF f = -1 THEN Closed ELSE fdTable[f]
            new == [pc |-> "route", ptr |-> p, from |-> unread \cap {e},
                    for |-> <<mem[p[1]].conn, p[2]>>]
<1>1. /\ cs[i].pc = "recv" /\ job[t].ops = <<>> /\ Live(a) /\ CsUnchanged
      /\ UNCHANGED <<csq, delivered>> /\ unread' \in {unread, unread \ {e}}
      /\ \/ /\ job' = [job EXCEPT ![t] = [addr |-> a, ops |-> OnPeerClose(p[2])]]
            /\ cs' = [cs EXCEPT ![i] = CsIdle]
         \/ /\ cs' = [cs EXCEPT ![i] = new]
            /\ UNCHANGED job
  BY RecvDoes, Zenon
<1>2. p \in Ptr /\ p[2] \in Side /\ a \in Addr /\ t \in Agent
  BY <1>1, CsFacts DEF IInv, Types, CsAddr, Agent
<1>3. /\ unread' \subseteq End /\ unread \cap {e} \subseteq End
      /\ delivered' \subseteq End \X End \X End /\ csq' \in [Index -> Seq(Ptr)]
  BY <1>1 DEF IInv, Types, NetType, KernelType, QueueType
<1>4. <<mem[p[1]].conn, p[2]>> \in End
  BY <1>1, <1>2, SideFacts DEF CsAddr, Live, IInv, Types, HeapType, Manager, End
<1>5. new \in CsRecord
  BY <1>2, <1>3, <1>4 DEF CsRecord
<1>. HIDE DEF p, t, a, e, new
<1>6. CASE /\ job' = [job EXCEPT ![t] = [addr |-> a, ops |-> OnPeerClose(p[2])]]
           /\ cs' = [cs EXCEPT ![i] = CsIdle]
  <2>1. CsIdle \in CsRecord
    BY DEF CsRecord
  <2>2. JobInv' /\ TornAddrs \subseteq TornAddrs'
    <3>. DEFINE ops == OnPeerClose(p[2])
    <3>1. ops \in {OnIdle, OnFailedInit, Delete} \cup {OnPeerClose(r) : r \in Side}
      BY <1>2
    <3>2. job' = [job EXCEPT ![t] = [addr |-> a, ops |-> ops]]
      BY <1>6
    <3>. HIDE DEF ops
    <3>. QED  BY <1>1, <1>2, <3>1, <3>2, StartJob DEF IInv, Types
  <2>. QED  BY <1>1, <1>3, <1>6, <2>1, <2>2, CsFrame
<1>7. CASE cs' = [cs EXCEPT ![i] = new] /\ UNCHANGED job
  <2>1. JobInv' /\ TornAddrs' = TornAddrs
    BY <1>7 DEF IInv, Types, JobInv, TornAddrs
  <2>. QED  BY <1>1, <1>3, <1>5, <1>7, <2>1, CsFrame
<1>. QED  BY <1>1, <1>6, <1>7

\* The number of the other side is copied, if it has one.
LEMMA RouteKeeps ==
  ASSUME IInv, NEW i \in Index, Route(i) PROVE IInv'
<1>. DEFINE a == CsAddr(i)
            f == mem[a].sock[Other(cs[i].ptr[2])]
            new == IF f = -1 THEN CsIdle
                   ELSE [pc |-> "send", from |-> cs[i].from, for |-> cs[i].for, fd |-> f]
<1>1. /\ cs[i].pc = "route" /\ Live(a) /\ CsUnchanged
      /\ UNCHANGED <<unread, csq, job, delivered>>
      /\ cs' = [cs EXCEPT ![i] = new]
  BY DEF Route, CsPc
<1>2. /\ a \in Addr /\ Other(cs[i].ptr[2]) \in Side
      /\ cs[i].from \subseteq End /\ cs[i].for \in End
  BY <1>1, CsFacts, SideFacts DEF IInv, Types, CsAddr
<1>3. mem[a] \in Manager
  BY <1>1, <1>2 DEF Live, IInv, Types, HeapType
<1>4. f \in Fd \cup {-1}
  BY <1>2, <1>3 DEF Manager
<1>5. new \in CsRecord
  BY <1>2, <1>4 DEF CsRecord
<1>6. /\ unread' \subseteq End /\ delivered' \subseteq End \X End \X End /\ JobInv'
      /\ TornAddrs' = TornAddrs /\ csq' \in [Index -> Seq(Ptr)]
  BY <1>1 DEF IInv, Types, NetType, KernelType, QueueType, JobInv, TornAddrs
<1>. HIDE DEF new, f, a
<1>. QED  BY <1>1, <1>5, <1>6, CsFrame

\* Whatever the number refers to is what the data goes to.
LEMMA SendKeeps ==
  ASSUME IInv, NEW i \in Index, Send(i) PROVE IInv'
<1>1. cs[i].pc = "send" /\ cs' = [cs EXCEPT ![i] = CsIdle] /\ CsIdle \in CsRecord
  BY DEF Send, CsPc, CsRecord
<1>2. cs[i].from \subseteq End /\ cs[i].for \in End /\ fdTable[cs[i].fd] \in End \cup {Closed}
  BY <1>1, CsFacts DEF IInv, Types, KernelType
<1>3. delivered' \subseteq End \X End \X End
  BY <1>2 DEF Send, IInv, Types, NetType
<1>4. /\ unread' \subseteq End /\ JobInv' /\ TornAddrs' = TornAddrs
      /\ csq' \in [Index -> Seq(Ptr)]
  BY DEF Send, IInv, Types, KernelType, QueueType, JobInv, TornAddrs
<1>. QED  BY <1>1, <1>3, <1>4, CsFrame DEF Send

-----------------------------------------------------------------------------
(***************************************************************************)
(* The idle sweep.                                                         *)
(***************************************************************************)

\* The sweep takes and releases the mutex.
LEMMA SweepTurnKeeps ==
  ASSUME IInv, BeginSweep \/ EndSweep PROVE IInv'
<1>1. /\ SweepUnchanged /\ UNCHANGED <<job, m_setProxyManager>> /\ locked' \in BOOLEAN
      /\ sweep' \in [pc : {"idle", "scan"}, left : SUBSET Addr]
  <2>1. sweep \in [pc : {"idle", "scan"}, left : SUBSET Addr] /\ m_setProxyManager \subseteq Addr
    BY DEF IInv, Types, SweepType, HeapType
  <2>2. CASE BeginSweep
    BY <2>1, <2>2 DEF BeginSweep
  <2>3. CASE EndSweep
    BY <2>1, <2>3 DEF EndSweep
  <2>. QED  BY <2>2, <2>3
<1>2. NoneLost'
  BY <1>1, NothingLost DEF IInv, SweepUnchanged
<1>. QED
  BY <1>1, <1>2 DEF SweepUnchanged, netVars, kernelVars, queueVars, ghostVars, IInv, Types,
     NetType, KernelType, ReadyInv, HeapType, QueueType, AccType, CsType, SweepType, JobInv

\* An idle manager passes from the set to the sweep's tear-down.
LEMMA VisitKeeps ==
  ASSUME IInv, NEW a \in Addr, Visit(a) PROVE IInv'
<1>1. /\ SweepUnchanged /\ UNCHANGED locked /\ job[SweepThread].ops = <<>>
      /\ sweep' \in [pc : {"idle", "scan"}, left : SUBSET Addr]
  BY DEF Visit, SweepPc, IInv, Types, SweepType
<1>2. SweepThread \in Agent
  BY DEF Agent
<1>3. JobInv' /\ HeapType' /\ NoneLost'
  <2>1. CASE UNCHANGED <<m_setProxyManager, job>>
    BY <1>1, <2>1, NothingLost DEF SweepUnchanged, IInv, Types, HeapType, JobInv
  <2>2. CASE /\ m_setProxyManager' = m_setProxyManager \ {a}
             /\ job' = [job EXCEPT ![SweepThread] = [addr |-> a, ops |-> OnIdle]]
    <3>1. JobInv' /\ TornAddrs \cup {a} \subseteq TornAddrs'
      <4>. DEFINE ops == OnIdle
      <4>1. ops \in {OnIdle, OnFailedInit, Delete} \cup {OnPeerClose(r) : r \in Side}
        OBVIOUS
      <4>2. job' = [job EXCEPT ![SweepThread] = [addr |-> a, ops |-> ops]]
        BY <2>2
      <4>. HIDE DEF ops
      <4>. QED  BY <1>1, <1>2, <4>1, <4>2, StartJob DEF IInv, Types
    <3>. QED
      BY <1>1, <2>2, <3>1 DEF SweepUnchanged, IInv, Types, HeapType, NoneLost, LiveAddrs, Live,
         SetUpAddrs
  <2>. QED  BY <2>1, <2>2 DEF Visit
<1>. QED
  BY <1>1, <1>3 DEF SweepUnchanged, netVars, kernelVars, queueVars, ghostVars, IInv, Types,
     NetType, KernelType, ReadyInv, QueueType, AccType, CsType, SweepType

-----------------------------------------------------------------------------
(***************************************************************************)
(* The invariance, and the two properties.                                 *)
(***************************************************************************)

\* The inductive invariant holds at the start and is kept by every step.
THEOREM Invariance == SafetySpec => []IInv
<1>1. ASSUME Init PROVE IInv
  <2>1. NoJob \in Jobs
    BY DEF Jobs
  <2>2. Types
    <3>1. NetType /\ KernelType /\ HeapType /\ SweepType
      BY <1>1 DEF Init, NetType, KernelType, ReadyInv, HeapType, SweepType
    <3>2. QueueType
      BY <1>1, EmptySeq DEF Init, QueueType
    <3>3. AccType /\ CsType
      BY <1>1 DEF Init, AccType, CsType
    <3>4. JobInv
      BY <1>1, <2>1 DEF Init, JobInv
    <3>. QED  BY <3>1, <3>2, <3>3, <3>4 DEF Types
  <2>3. NoneLost
    BY <1>1 DEF Init, NoneLost, LiveAddrs, Live
  <2>. QED  BY <2>2, <2>3 DEF IInv
<1>2. ASSUME IInv, [Next]_vars PROVE IInv'
  <2>1. CASE UNCHANGED vars
    <3>1. NoneLost'
      BY <1>2, <2>1, NothingLost DEF IInv, vars, setVars
    <3>. QED
      BY <1>2, <2>1, <3>1 DEF vars, netVars, kernelVars, queueVars, setVars, ghostVars, IInv,
         Types, NetType, KernelType, ReadyInv, HeapType, QueueType, AccType, CsType, SweepType,
         JobInv
  <2>2. ASSUME NEW c \in Conn, AcceptClient(c) PROVE IInv'
    BY <1>2, <2>2, AcceptClientKeeps
  <2>3. ASSUME NEW e \in End, PeerSends(e) \/ PeerCloses(e) PROVE IInv'
    BY <1>2, <2>3, PeerKeeps
  <2>4. ASSUME NEW a \in Addr, TimePasses(a) PROVE IInv'
    BY <1>2, <2>4, TimePassesKeeps
  <2>5. CASE ReactorStep
    BY <1>2, <2>5, EpollWaitKeeps, HandleInputKeeps, CrashKeeps DEF ReactorStep, HandleInputFreed
  <2>6. ASSUME NEW i \in Index, AcceptStep(i) PROVE IInv'
    <3>1. CASE InitClient(i) \/ InitServer(i)
      <4>1. {"initClient", "initServer", "stamp"} \subseteq AccInInit
        BY DEF AccInInit
      <4>. QED  BY <1>2, <3>1, <4>1, InitSideKeeps, SideFacts DEF InitClient, InitServer
    <3>2. CASE InitFreed(i)
      BY <1>2, <3>2, CrashKeeps DEF InitFreed
    <3>. QED
      BY <1>2, <2>6, <3>1, <3>2, TakeAcceptKeeps, SocketFailsKeeps, GetSocketKeeps,
         ConnectFailsKeeps, ConnectUpstreamKeeps, StampTimeKeeps, AddProxyManagerKeeps DEF AcceptStep
  <2>7. ASSUME NEW i \in Index, CsStep(i) PROVE IInv'
    <3>1. CASE CsFreed(i)
      BY <1>2, <3>1, CrashKeeps DEF CsFreed
    <3>. QED
      BY <1>2, <2>7, <3>1, TakeMessageKeeps, RecvKeeps, RouteKeeps, SendKeeps DEF CsStep
  <2>8. CASE SweepStep
    BY <1>2, <2>8, SweepTurnKeeps, VisitKeeps, CrashKeeps DEF SweepStep, SweepFreed
  <2>9. ASSUME NEW t \in Agent, TearStep(t) \/ TearFreed(t) PROVE IInv'
    BY <1>2, <2>9, TearKeeps, CrashKeeps DEF TearFreed
  <2>. QED  BY <1>2, <2>1, <2>2, <2>3, <2>4, <2>5, <2>6, <2>7, <2>8, <2>9 DEF Next
<1>. QED  BY <1>1, <1>2, PTL DEF SafetySpec

\* Every variable keeps its type, whatever the peers do and however the threads
\* interleave, up to the first use of a freed ProxyManager.
THEOREM TypeCorrect == SafetySpec => []TypeOK
<1>1. ASSUME IInv PROVE TypeOK
  <2>1. \A t \in Agent : job[t] = NoJob \/ (job[t].addr \in Addr /\ job[t].ops # <<>>)
    BY <1>1 DEF IInv, Types, JobInv, Jobs
  <2>2. DOMAIN job = Agent
    BY <1>1 DEF IInv, Types, JobInv
  <2>. QED
    BY <1>1, <2>1, <2>2 DEF TypeOK, IInv, Types, NetType, KernelType, HeapType, QueueType,
       AccType, CsType, SweepType
<1>. QED  BY <1>1, Invariance, PTL

\* No order of set-up, sweep and tear-down leaks a ProxyManager: who lets go of
\* one has freed it or has given it to somebody who will.
THEOREM NoManagerLeaks == SafetySpec => []Tracked
<1>1. ASSUME IInv PROVE Tracked
  <2>. SUFFICES ASSUME NEW a \in Addr, Live(a)
                PROVE  a \in m_setProxyManager \/ UnderSetUp(a) \/ BeingTorn(a)
    BY DEF Tracked
  <2>1. a \in m_setProxyManager \cup SetUpAddrs \cup TornAddrs
    BY <1>1 DEF IInv, NoneLost, LiveAddrs
  <2>2. a \in SetUpAddrs => UnderSetUp(a)
    BY DEF SetUpAddrs, UnderSetUp
  <2>3. a \in TornAddrs => BeingTorn(a)
    BY DEF TornAddrs, BeingTorn
  <2>. QED  BY <2>1, <2>2, <2>3
<1>. QED  BY <1>1, Invariance, PTL

-----------------------------------------------------------------------------
(***************************************************************************)
(* A connection alone: no other inherits its address or its numbers.       *)
(* Several threads may tear it down at once, before its set-up is over     *)
(* too; each closes what is still open and clears only what is closed, so  *)
(* the first to delete finds nothing open.                                 *)
(***************************************************************************)

\* There is one connection.
Alone == \A c, d \in Conn : c = d

\* The elements of a queue or of a job.
Elems(q) == {q[k] : k \in 1 .. Len(q)}

\* Where the connection is before it has a manager, and while that is set up.
WaitsAt(i)   == acceptq[i] # <<>> \/ acc[i].pc \in {"connect", "connecting"}
AtThread(i)  == acceptq[i] # <<>> \/ acc[i].pc # "idle"
SetUpThreads == {i \in Index : acc[i].pc \in AccInInit}
MsgOf(i)     == IF acceptq[i] # <<>> THEN Head(acceptq[i]) ELSE acc[i].msg
NotYetMade   == arrived = {} \/ \E i \in Index : WaitsAt(i)

\* No object is known to the reactor or to a client/server thread, and nobody
\* tears anything down.
NothingUnderWay ==
  /\ epReady = {} /\ batch = {}
  /\ \A i \in Index : csq[i] = <<>> /\ cs[i].pc = "idle"
  /\ \A t \in Agent : job[t].ops = <<>>

\* The connection is at one accept thread at a time, in its queue or in its
\* hands, and there is one manager at a time.
OnePlaceInv ==
  /\ \A i, j \in Index : AtThread(i) /\ AtThread(j) => i = j
  /\ \A i \in Index : acceptq[i] # <<>> => Len(acceptq[i]) = 1 /\ acc[i].pc = "idle"
  /\ arrived = {} => \A i \in Index : ~AtThread(i)
  /\ \A a, b \in LiveAddrs : a = b

\* Before there is a manager nothing knows of one.
BeforeInv ==
  NotYetMade =>
    /\ LiveAddrs = {} /\ m_setProxyManager = {} /\ sweep.left = {}
    /\ NothingUnderWay
    /\ \A f \in Fd : interest[f] = Closed

\* While it is set up it is not yet in the set.
SetUpInv == SetUpThreads # {} => m_setProxyManager = {} /\ sweep.left = {}

\* The sockets of side s are closed.
NotOpen(s) == \A f \in Fd : fdTable[f] # Closed => fdTable[f][2] # s

\* Which descriptors are open: none, the client's, those the manager holds, or
\* the one that is leaked.
SocketsInv ==
  /\ arrived = {} => \A f \in Fd : fdTable[f] = Closed
  /\ \A i \in Index : WaitsAt(i) =>
       /\ fdTable[MsgOf(i).fd] = <<MsgOf(i).conn, "client">>
       /\ \A f \in Fd \ {MsgOf(i).fd} :
            \/ fdTable[f] = Closed
            \/ /\ acc[i].pc = "connecting" /\ f = acc[i].upstreamsock
               /\ fdTable[f] = <<MsgOf(i).conn, "server">>
       /\ acc[i].pc = "connecting" =>
            acc[i].upstreamsock \in Fd \ {MsgOf(i).fd} /\ fdTable[acc[i].upstreamsock] # Closed
  /\ \A a \in LiveAddrs :
       /\ mem[a].m_bRelease = FALSE
       /\ mem[a].sock["client"] # mem[a].sock["server"] \/ mem[a].sock["client"] = -1
       /\ \A f \in Fd : fdTable[f] # Closed => f = mem[a].sock[fdTable[f][2]]
       /\ \A s \in Side : mem[a].sock[s] = -1 => NotOpen(s)
  /\ LiveAddrs = {} /\ ~NotYetMade =>
       \A f \in Fd : fdTable[f] # Closed => fdTable[f] \in leaked

\* A tear-down closes what is open, clears only what is closed, and deletes last.
FreeIsLast(ops) == \A k \in 1 .. Len(ops) : ops[k][1] = "free" => k = Len(ops)

TearsAll(ops) ==
  /\ FreeIsLast(ops)
  /\ \A s \in Side : /\ NotOpen(s) \/ <<"close", s>> \in Elems(ops)
                     /\ <<"clear", s>> \in Elems(ops) => NotOpen(s)

JobsInv == \A t \in Agent : job[t].ops # <<>> => TearsAll(job[t].ops)

\* If no peer was early, nothing happens to a manager before it is in the set, and
\* no tear-down deletes it before it has been taken out.
EarlyInv ==
  early = {} =>
    /\ m_setProxyManager \subseteq LiveAddrs
    /\ \A t \in Agent : job[t].ops # <<>> /\ job[t].addr \in m_setProxyManager =>
         \E s \in Side : <<"erase", s>> \in Elems(job[t].ops)
    /\ \A i \in SetUpThreads : acc[i].addr \in LiveAddrs
    /\ NotYetMade \/ SetUpThreads # {} =>
         unread = {} /\ eof = {} /\ NothingUnderWay

\* The set-up has registered side s.
Registered(s) ==
  \A i \in SetUpThreads : acc[i].pc # "initClient" /\ (acc[i].pc = "initServer" => s = "client")

\* An input of side s is on its way to a client/server thread.
Reported(a, s) ==
  \/ mem[a].sock[s] \in epReady
  \/ <<a, s>> \in batch
  \/ \E i \in Index : <<a, s>> \in Elems(csq[i])
  \/ \E i \in Index : cs[i].pc = "recv" /\ cs[i].ptr = <<a, s>>

\* A manager nobody tears down has both sockets, and epoll watches them.
ReportInv ==
  \A a \in LiveAddrs \ TornAddrs, s \in Side :
    LET f == mem[a].sock[s]
    IN  /\ f # -1 /\ fdTable[f] = <<mem[a].conn, s>>
        /\ Registered(s) => /\ interest[f] = <<a, s>>
                            /\ HasInput(f) => Reported(a, s)

AInv == /\ OnePlaceInv /\ BeforeInv /\ SetUpInv /\ SocketsInv /\ JobsInv
        /\ EarlyInv /\ ReportInv

-----------------------------------------------------------------------------
\* What the places of the connection depend on.
LEMMA SamePlaces ==
  ASSUME UNCHANGED <<arrived, acceptq, acc>>
  PROVE  /\ NotYetMade' = NotYetMade /\ SetUpThreads' = SetUpThreads
         /\ \A i : /\ WaitsAt(i)' = WaitsAt(i) /\ AtThread(i)' = AtThread(i)
                   /\ MsgOf(i)' = MsgOf(i)
         /\ \A s : Registered(s)' = Registered(s)
<1>1. SetUpThreads' = SetUpThreads
  BY DEF SetUpThreads
<1>2. \A i : /\ WaitsAt(i)' = WaitsAt(i) /\ AtThread(i)' = AtThread(i)
             /\ MsgOf(i)' = MsgOf(i)
  BY DEF WaitsAt, AtThread, MsgOf
<1>3. NotYetMade' = NotYetMade
  BY <1>2 DEF NotYetMade
<1>4. \A s : Registered(s)' = Registered(s)
  BY <1>1 DEF Registered
<1>. QED  BY <1>1, <1>2, <1>3, <1>4

\* What the parts of the invariant depend on.
LEMMA SameHeap ==
  /\ UNCHANGED mem => LiveAddrs' = LiveAddrs
  /\ UNCHANGED job => TornAddrs' = TornAddrs
  /\ UNCHANGED fdTable => \A s : NotOpen(s)' = NotOpen(s)
BY DEF LiveAddrs, Live, TornAddrs, NotOpen

\* A part of the invariant holds as long as nothing it speaks of changes.
LEMMA AloneFrames ==
  ASSUME AInv
  PROVE  /\ UNCHANGED <<arrived, acceptq, acc, mem>> => OnePlaceInv'
         /\ UNCHANGED <<arrived, acceptq, acc>> /\ ~NotYetMade => BeforeInv'
         /\ UNCHANGED <<acc, m_setProxyManager, sweep>> => SetUpInv'
         /\ UNCHANGED <<arrived, acceptq, acc, mem, fdTable, leaked>> => SocketsInv'
         /\ UNCHANGED <<job, fdTable>> => JobsInv'
<1>1. ASSUME UNCHANGED <<arrived, acceptq, acc, mem>> PROVE OnePlaceInv'
  <2>1. /\ LiveAddrs' = LiveAddrs /\ \A i : AtThread(i)' = AtThread(i)
    BY <1>1, SamePlaces, SameHeap
  <2>. QED  BY <1>1, <2>1 DEF AInv, OnePlaceInv
<1>2. ASSUME UNCHANGED <<arrived, acceptq, acc>>, ~NotYetMade PROVE BeforeInv'
  BY <1>2, SamePlaces DEF BeforeInv
<1>3. ASSUME UNCHANGED <<acc, m_setProxyManager, sweep>> PROVE SetUpInv'
  BY <1>3 DEF AInv, SetUpInv, SetUpThreads
<1>4. ASSUME UNCHANGED <<arrived, acceptq, acc, mem, fdTable, leaked>> PROVE SocketsInv'
  <2>1. /\ LiveAddrs' = LiveAddrs /\ NotYetMade' = NotYetMade
        /\ \A i : WaitsAt(i)' = WaitsAt(i) /\ MsgOf(i)' = MsgOf(i)
        /\ \A s : NotOpen(s)' = NotOpen(s)
    BY <1>4, SamePlaces, SameHeap
  <2>. QED  BY <1>4, <2>1 DEF AInv, SocketsInv
<1>5. ASSUME UNCHANGED <<job, fdTable>> PROVE JobsInv'
  <2>1. \A s : NotOpen(s)' = NotOpen(s)
    BY <1>5, SameHeap
  <2>. QED  BY <1>5, <2>1 DEF AInv, JobsInv, TearsAll
<1>. QED  BY <1>1, <1>2, <1>3, <1>4, <1>5

\* The same of the parts that speak of more.
LEMMA MoreFrames ==
  ASSUME AInv
  PROVE  /\ UNCHANGED <<arrived, acceptq, acc, mem, m_setProxyManager, sweep, epReady, batch,
                        csq, cs, job, interest>> => BeforeInv'
         /\ UNCHANGED <<early, m_setProxyManager, mem, job, acc, arrived, acceptq, unread, eof,
                        epReady, batch, csq, cs>> => EarlyInv'
         /\ UNCHANGED <<mem, job, acc, fdTable, interest, epReady, batch, csq, cs, unread, eof>>
              => ReportInv'
<1>1. ASSUME UNCHANGED <<arrived, acceptq, acc, mem, m_setProxyManager, sweep, epReady, batch,
                         csq, cs, job, interest>>
      PROVE  BeforeInv'
  <2>1. LiveAddrs' = LiveAddrs /\ NotYetMade' = NotYetMade
    BY <1>1, SamePlaces, SameHeap
  <2>2. NothingUnderWay' = NothingUnderWay
    BY <1>1 DEF NothingUnderWay
  <2>. QED  BY <1>1, <2>1, <2>2 DEF AInv, BeforeInv
<1>2. ASSUME UNCHANGED <<early, m_setProxyManager, mem, job, acc, arrived, acceptq, unread, eof,
                         epReady, batch, csq, cs>>
      PROVE  EarlyInv'
  <2>1. LiveAddrs' = LiveAddrs /\ NotYetMade' = NotYetMade /\ SetUpThreads' = SetUpThreads
    BY <1>2, SamePlaces, SameHeap
  <2>2. NothingUnderWay' = NothingUnderWay
    BY <1>2 DEF NothingUnderWay
  <2>. QED  BY <1>2, <2>1, <2>2 DEF AInv, EarlyInv
<1>3. ASSUME UNCHANGED <<mem, job, acc, fdTable, interest, epReady, batch, csq, cs, unread, eof>>
      PROVE  ReportInv'
  <2>1. LiveAddrs' = LiveAddrs /\ TornAddrs' = TornAddrs
    BY <1>3, SameHeap
  <2>2. /\ \A s : Registered(s)' = Registered(s)
        /\ \A f : HasInput(f)' = HasInput(f)
        /\ \A a, s : Reported(a, s)' = Reported(a, s)
    BY <1>3 DEF Registered, SetUpThreads, HasInput, Reported
  <2>. QED  BY <1>3, <2>1, <2>2 DEF AInv, ReportInv
<1>. QED  BY <1>1, <1>2, <1>3

\* The clock and a crash change nothing of this.
LEMMA IdleAlone ==
  ASSUME AInv, UNCHANGED <<netVars, kernelVars, batch, mem, queueVars, acc, cs, sweep, job,
                           setVars, ghostVars>>
  PROVE  AInv'
BY AloneFrames, MoreFrames DEF AInv, netVars, kernelVars, queueVars, setVars, ghostVars

\* Who acts in time after a set-up finds a manager in the set.
LEMMA PeerAlone ==
  ASSUME IInv, AInv, NEW e \in End, PeerSends(e) \/ PeerCloses(e) PROVE AInv'
<1>1. /\ PeerUnchanged /\ ActsInTime(e[1]) /\ epReady' = epReady \cup Wake(e)
      /\ unread \subseteq unread' /\ eof \subseteq eof'
      /\ unread' \cup eof' = unread \cup eof \cup {e}
  BY DEF PeerSends, PeerCloses
<1>2. UNCHANGED <<arrived, fdTable, interest, batch, mem, queueVars, acc, cs, sweep, job,
                  setVars, ghostVars>>
  BY <1>1 DEF PeerUnchanged
<1>. USE <1>2 DEF queueVars, setVars, ghostVars
<1>3. OnePlaceInv' /\ SetUpInv' /\ SocketsInv' /\ JobsInv'
  BY AloneFrames
<1>4. LiveAddrs' = LiveAddrs /\ NotYetMade' = NotYetMade /\ SetUpThreads' = SetUpThreads
      /\ TornAddrs' = TornAddrs /\ \A s : Registered(s)' = Registered(s)
  BY SamePlaces, SameHeap
<1>5. BeforeInv'
  <2>. SUFFICES ASSUME NotYetMade PROVE BeforeInv'
    BY <1>4 DEF BeforeInv
  <2>1. BeforeInv /\ \A f \in Fd : interest[f] = Closed
    BY DEF AInv, BeforeInv
  <2>2. Wake(e) = {}
    BY <2>1 DEF Wake
  <2>3. UNCHANGED epReady
    BY <1>1, <2>2
  <2>. QED  BY <2>3, MoreFrames
<1>6. EarlyInv'
  <2>. SUFFICES ASSUME early' = {} PROVE EarlyInv'
    BY DEF EarlyInv
  <2>1. early = {} /\ Established(e[1])
    BY <1>1 DEF ActsInTime
  <2>2. m_setProxyManager # {}
    BY <2>1 DEF Established
  <2>3. ~NotYetMade /\ SetUpThreads = {}
    BY <2>2 DEF AInv, BeforeInv, SetUpInv
  <2>. QED  BY <1>4, <2>1, <2>3 DEF AInv, EarlyInv
<1>7. ReportInv'
  <2>. SUFFICES ASSUME NEW a \in LiveAddrs \ TornAddrs, NEW s \in Side,
                       Registered(s), HasInput(mem[a].sock[s])'
                PROVE  Reported(a, s)'
    BY <1>4 DEF AInv, ReportInv
  <2>. DEFINE f == mem[a].sock[s]
  <2>1. f # -1 /\ interest[f] = <<a, s>> /\ (HasInput(f) => Reported(a, s))
    BY DEF AInv, ReportInv
  <2>2. CASE HasInput(f)
    BY <1>1, <2>1, <2>2 DEF Reported
  <2>3. CASE ~HasInput(f)
    <3>1. fdTable[f] = e
      BY <1>1, <2>3 DEF HasInput
    <3>2. mem[a] \in Manager
      BY DEF LiveAddrs, Live, IInv, Types, HeapType
    <3>3. f \in Fd
      BY <2>1, <3>2 DEF Manager
    <3>4. <<a, s>> # Closed
      BY ValueAssumption DEF LiveAddrs, Ptr
    <3>5. f \in Wake(e)
      BY <2>1, <3>1, <3>3, <3>4 DEF Wake
    <3>. QED  BY <1>1, <3>5 DEF Reported
  <2>. QED  BY <2>2, <2>3
<1>. QED  BY <1>3, <1>5, <1>6, <1>7 DEF AInv

\* The reactor takes what is ready into its batch.
LEMMA EpollWaitAlone ==
  ASSUME IInv, AInv, EpollWait PROVE AInv'
<1>1. /\ batch = {} /\ epReady # {} /\ epReady' = {}
      /\ batch' = {interest[f] : f \in {g \in epReady : HasInput(g)}}
  BY DEF EpollWait
<1>2. UNCHANGED <<arrived, fdTable, queueVars, sent, eof, early, unread, interest, mem, acc, cs,
                  sweep, job, setVars, ghostVars>>
  BY DEF EpollWait, ReactorUnchanged
<1>. USE <1>2 DEF queueVars, setVars, ghostVars
<1>3. OnePlaceInv' /\ SetUpInv' /\ SocketsInv' /\ JobsInv'
  BY AloneFrames
<1>4. LiveAddrs' = LiveAddrs /\ NotYetMade' = NotYetMade /\ SetUpThreads' = SetUpThreads
      /\ TornAddrs' = TornAddrs /\ \A s : Registered(s)' = Registered(s)
  BY SamePlaces, SameHeap
<1>5. ~NotYetMade
  BY <1>1 DEF AInv, BeforeInv, NothingUnderWay
<1>6. BeforeInv'
  BY <1>5, AloneFrames
<1>7. EarlyInv'
  <2>. SUFFICES ASSUME early = {} PROVE EarlyInv'
    BY DEF EarlyInv
  <2>1. SetUpThreads = {}
    BY <1>1 DEF AInv, EarlyInv, NothingUnderWay
  <2>. QED  BY <1>4, <1>5, <2>1 DEF AInv, EarlyInv
<1>8. ReportInv'
  <2>. SUFFICES ASSUME NEW a \in LiveAddrs \ TornAddrs, NEW s \in Side,
                       Registered(s), HasInput(mem[a].sock[s])
                PROVE  Reported(a, s)'
    BY <1>4 DEF AInv, ReportInv, HasInput
  <2>1. interest[mem[a].sock[s]] = <<a, s>> /\ Reported(a, s)
    BY DEF AInv, ReportInv
  <2>. QED  BY <1>1, <2>1 DEF Reported
<1>. QED  BY <1>3, <1>6, <1>7, <1>8 DEF AInv

\* What appending to a queue does to its elements, and taking its head.
LEMMA ElemsAppend ==
  ASSUME NEW S, NEW q \in Seq(S), NEW m \in S
  PROVE  Elems(Append(q, m)) = Elems(q) \cup {m}
<1>1. /\ Len(q) \in Nat /\ Len(Append(q, m)) = Len(q) + 1
      /\ \A k \in 1 .. Len(q) : Append(q, m)[k] = q[k]
      /\ Append(q, m)[Len(q) + 1] = m
  BY AppendProperties
<1>2. \A k : k \in 1 .. Len(q) + 1 <=> k \in 1 .. Len(q) \/ k = Len(q) + 1
  BY <1>1
<1>. QED  BY <1>1, <1>2 DEF Elems

\* The head and the tail of a queue have its elements between them.
LEMMA ElemsHead ==
  ASSUME NEW S, NEW q \in Seq(S), q # <<>>
  PROVE  Elems(q) = {Head(q)} \cup Elems(Tail(q))
<1>1. /\ Len(q) \in Nat \ {0} /\ Len(Tail(q)) = Len(q) - 1 /\ Head(q) = q[1]
      /\ \A k \in 1 .. Len(Tail(q)) : Tail(q)[k] = q[k + 1]
  BY HeadTailProperties, EmptySeq
<1>2. ASSUME NEW x \in Elems(q) PROVE x = Head(q) \/ x \in Elems(Tail(q))
  <2>1. PICK k \in 1 .. Len(q) : x = q[k]
    BY DEF Elems
  <2>2. CASE k = 1
    BY <1>1, <2>1, <2>2
  <2>3. CASE k # 1
    <3>1. k - 1 \in 1 .. Len(Tail(q)) /\ (k - 1) + 1 = k
      BY <1>1, <2>3
    <3>2. x = Tail(q)[k - 1]
      BY <1>1, <2>1, <3>1
    <3>. QED  BY <3>1, <3>2 DEF Elems
  <2>. QED  BY <2>2, <2>3
<1>3. ASSUME NEW x \in Elems(Tail(q)) PROVE x \in Elems(q)
  <2>1. PICK k \in 1 .. Len(Tail(q)) : x = Tail(q)[k]
    BY DEF Elems
  <2>2. k + 1 \in 1 .. Len(q) /\ x = q[k + 1]
    BY <1>1, <2>1
  <2>. QED  BY <2>2 DEF Elems
<1>4. Head(q) \in Elems(q)
  BY <1>1 DEF Elems
<1>. QED  BY <1>2, <1>3, <1>4

\* The reactor turns an entry of its batch into a message.
LEMMA HandleInputAlone ==
  ASSUME IInv, AInv, NEW p \in Ptr, HandleInput(p) PROVE AInv'
<1>. DEFINE b == p[1]
            g == mem[b].sock[p[2]]
            j == g % nThreadCount
<1>1. /\ p \in batch /\ batch' = batch \ {p}
      /\ IF Live(b) /\ ~mem[b].m_bRelease
         THEN csq' = IF g = -1 THEN csq ELSE [csq EXCEPT ![j] = Append(@, p)]
         ELSE UNCHANGED csq
  BY DEF HandleInput
<1>2. UNCHANGED <<arrived, fdTable, epReady, acceptq, sent, eof, early, unread, interest, mem,
                  acc, cs, sweep, job, setVars, ghostVars>>
  BY DEF HandleInput, ReactorUnchanged
<1>. USE <1>2 DEF setVars, ghostVars
<1>3. OnePlaceInv' /\ SetUpInv' /\ SocketsInv' /\ JobsInv'
  BY AloneFrames
<1>4. LiveAddrs' = LiveAddrs /\ NotYetMade' = NotYetMade /\ SetUpThreads' = SetUpThreads
      /\ TornAddrs' = TornAddrs /\ \A s : Registered(s)' = Registered(s)
  BY SamePlaces, SameHeap
<1>5. ~NotYetMade
  BY <1>1 DEF AInv, BeforeInv, NothingUnderWay
<1>6. BeforeInv'
  BY <1>5, AloneFrames
<1>7. EarlyInv'
  <2>. SUFFICES ASSUME early = {} PROVE EarlyInv'
    BY DEF EarlyInv
  <2>1. SetUpThreads = {}
    BY <1>1 DEF AInv, EarlyInv, NothingUnderWay
  <2>. QED  BY <1>4, <1>5, <2>1 DEF AInv, EarlyInv
<1>8. ReportInv'
  <2>. SUFFICES ASSUME NEW a \in LiveAddrs \ TornAddrs, NEW s \in Side,
                       Registered(s), HasInput(mem[a].sock[s])
                PROVE  Reported(a, s)'
    BY <1>4 DEF AInv, ReportInv, HasInput
  <2>1. mem[a].sock[s] # -1 /\ Reported(a, s)
    BY DEF AInv, ReportInv
  <2>2. \A i \in Index : Elems(csq[i]) \subseteq Elems(csq'[i])
    <3>1. CASE csq' = [csq EXCEPT ![j] = Append(@, p)]
      <4>1. csq \in [Index -> Seq(Ptr)]
        BY DEF IInv, Types, QueueType
      <4>2. \A i \in Index : csq'[i] = csq[i] \/ csq'[i] = Append(csq[i], p)
        BY <3>1, <4>1
      <4>3. ASSUME NEW i \in Index PROVE Elems(Append(csq[i], p)) = Elems(csq[i]) \cup {p}
        <5>1. csq[i] \in Seq(Ptr)
          BY <4>1
        <5>. QED  BY <5>1, ElemsAppend
      <4>. QED  BY <4>2, <4>3
    <3>. QED  BY <1>1, <3>1
  <2>3. CASE p # <<a, s>>
    BY <1>1, <2>1, <2>2, <2>3 DEF Reported
  <2>4. CASE p = <<a, s>>
    <3>1. b = a /\ p[2] = s /\ Live(b)
      BY <2>4 DEF LiveAddrs
    <3>2. ~mem[b].m_bRelease
      BY <3>1 DEF AInv, SocketsInv
    <3>3. csq' = [csq EXCEPT ![j] = Append(@, p)]
      BY <1>1, <2>1, <3>1, <3>2
    <3>4. mem[a] \in Manager
      BY DEF LiveAddrs, Live, IInv, Types, HeapType
    <3>5. g \in Nat
      BY <2>1, <3>1, <3>4, LifecycleAssumption DEF Manager
    <3>6. j \in Index
      BY <3>5, ThreadOfFd
    <3>7. csq[j] \in Seq(Ptr) /\ csq'[j] = Append(csq[j], p)
      BY <3>3, <3>6 DEF IInv, Types, QueueType
    <3>8. p \in Elems(csq'[j])
      <4>. HIDE DEF j
      <4>1. Elems(Append(csq[j], p)) = Elems(csq[j]) \cup {p}
        BY <3>7, ElemsAppend
      <4>. QED  BY <3>7, <4>1
    <3>. QED  BY <2>4, <3>6, <3>8 DEF Reported
  <2>. QED  BY <2>3, <2>4
<1>. QED  BY <1>3, <1>6, <1>7, <1>8 DEF AInv

-----------------------------------------------------------------------------
(***************************************************************************)
(* Up to the manager.                                                      *)
(***************************************************************************)

\* As long as there is no manager nothing is under way that could be disturbed.
LEMMA StillUnmade ==
  ASSUME AInv, NotYetMade,
         UNCHANGED <<batch, mem, csq, cs, sweep, job, m_setProxyManager, early, eof, delivered>>,
         unread' \subseteq unread, epReady' \subseteq epReady,
         \A f \in Fd : interest'[f] = interest[f] \/ interest'[f] = Closed,
         SetUpThreads' = {}
  PROVE  /\ BeforeInv' /\ SetUpInv' /\ JobsInv' /\ EarlyInv' /\ ReportInv' /\ LiveAddrs' = {}
<1>1. /\ LiveAddrs = {} /\ m_setProxyManager = {} /\ sweep.left = {} /\ NothingUnderWay
      /\ \A f \in Fd : interest[f] = Closed
  BY DEF AInv, BeforeInv
<1>2. LiveAddrs' = {} /\ NothingUnderWay' /\ \A f \in Fd : interest'[f] = Closed
  BY <1>1, SameHeap DEF NothingUnderWay
<1>3. BeforeInv' /\ SetUpInv' /\ ReportInv'
  BY <1>1, <1>2 DEF BeforeInv, SetUpInv, ReportInv
<1>4. JobsInv'
  BY <1>2 DEF JobsInv, NothingUnderWay
<1>5. EarlyInv'
  <2>. SUFFICES ASSUME early = {} PROVE EarlyInv'
    BY DEF EarlyInv
  <2>1. unread' = {} /\ eof' = {}
    BY DEF AInv, EarlyInv
  <2>. QED  BY <1>1, <1>2, <2>1 DEF EarlyInv, NothingUnderWay
<1>. QED  BY <1>2, <1>3, <1>4, <1>5

\* The connection is accepted.
LEMMA AcceptClientAlone ==
  ASSUME Alone, IInv, AInv, NEW c \in Conn, AcceptClient(c) PROVE AInv'
<1>0. PICK f \in Fd, j \in Index : f = LowestFd /\ j = f % nThreadCount
  <2>1. LowestFd \in Fd
    BY LowestIsFree DEF AcceptClient
  <2>. QED  BY <2>1, ThreadOfFd, LifecycleAssumption
<1>. DEFINE m == [fd |-> f, conn |-> c]
<1>1. /\ c \notin arrived /\ Fd \ OpenFds # {} /\ arrived' = arrived \cup {c}
      /\ fdTable' = [fdTable EXCEPT ![f] = <<c, "client">>]
      /\ acceptq' = [acceptq EXCEPT ![j] = Append(@, m)]
      /\ UNCHANGED <<epReady, batch, csq, eof, early, unread, interest, mem, acc, cs, sweep, job,
                     m_setProxyManager, delivered, leaked>>
  BY <1>0 DEF AcceptClient, ReactorUnchanged, setVars, ghostVars
<1>2. f \in Fd /\ j \in Index /\ m \in AcceptMsg
  BY <1>0 DEF AcceptMsg
<1>3. arrived = {}
  BY <1>1 DEF Alone, IInv, Types, NetType
<1>4. NotYetMade /\ (\A i \in Index : ~AtThread(i)) /\ \A g \in Fd : fdTable[g] = Closed
  BY <1>3 DEF NotYetMade, AInv, OnePlaceInv, SocketsInv
<1>5. \A i \in Index : acceptq[i] = <<>> /\ acc[i].pc = "idle"
  BY <1>4 DEF AtThread
<1>6. acceptq'[j] = <<m>> /\ \A i \in Index \ {j} : acceptq'[i] = <<>>
  <2>1. acceptq \in [Index -> Seq(AcceptMsg)]
    BY DEF IInv, Types, QueueType
  <2>2. acceptq'[j] = Append(<<>>, m)
    BY <1>1, <1>2, <1>5, <2>1
  <2>. HIDE DEF m
  <2>3. acceptq'[j] = <<m>>
    BY <2>2
  <2>. QED  BY <1>1, <1>2, <1>5, <2>1, <2>3
<1>7. arrived' # {}
  BY <1>1
<1>8. SetUpThreads' = {}
  BY <1>1, <1>5 DEF SetUpThreads, AccInInit
<1>9. /\ BeforeInv' /\ SetUpInv' /\ JobsInv' /\ EarlyInv' /\ ReportInv' /\ LiveAddrs' = {}
  BY <1>1, <1>4, <1>8, StillUnmade
<1>. HIDE DEF m
<1>10. /\ \A i \in Index : (AtThread(i)' <=> i = j) /\ (WaitsAt(i)' <=> i = j)
       /\ Len(acceptq'[j]) = 1 /\ Head(acceptq'[j]) = m /\ acceptq'[j] # <<>>
  <2>1. Len(<<m>>) = 1 /\ Head(<<m>>) = m /\ <<m>> # <<>>
    OBVIOUS
  <2>2. Len(acceptq'[j]) = 1 /\ Head(acceptq'[j]) = m /\ acceptq'[j] # <<>>
    BY <1>6, <2>1
  <2>3. \A i \in Index : acc'[i].pc = "idle" /\ (acceptq'[i] # <<>> <=> i = j)
    BY <1>1, <1>5, <1>6, <2>2
  <2>. QED  BY <2>2, <2>3 DEF AtThread, WaitsAt
<1>11. OnePlaceInv'
  BY <1>1, <1>5, <1>6, <1>7, <1>9, <1>10 DEF OnePlaceInv
<1>12. SocketsInv'
  <2>1. MsgOf(j)' = m /\ m.fd = f /\ m.conn = c
    BY <1>10 DEF MsgOf, m
  <2>2. fdTable'[f] = <<c, "client">> /\ \A g \in Fd \ {f} : fdTable'[g] = Closed
    <3>1. DOMAIN fdTable = Fd
      BY DEF IInv, Types, KernelType
    <3>. QED  BY <1>1, <1>4, <3>1
  <2>3. NotYetMade'
    BY <1>2, <1>10 DEF NotYetMade
  <2>4. acc'[j].pc = "idle"
    BY <1>1, <1>2, <1>5
  <2>. QED  BY <1>7, <1>9, <1>10, <2>1, <2>2, <2>3, <2>4 DEF SocketsInv
<1>. QED  BY <1>9, <1>11, <1>12 DEF AInv

\* While the connection waits for its upstream nobody else has it.
LEMMA Waiting ==
  ASSUME AInv, NEW i \in Index, WaitsAt(i)
  PROVE  /\ arrived # {} /\ NotYetMade /\ SetUpThreads = {} /\ LiveAddrs = {}
         /\ \A j \in Index \ {i} : acceptq[j] = <<>> /\ acc[j].pc = "idle"
         /\ acceptq[i] # <<>> => Len(acceptq[i]) = 1 /\ acc[i].pc = "idle"
<1>1. AtThread(i)
  BY DEF WaitsAt, AtThread
<1>2. \A j \in Index \ {i} : acceptq[j] = <<>> /\ acc[j].pc = "idle"
  BY <1>1 DEF AInv, OnePlaceInv, AtThread
<1>3. acceptq[i] # <<>> => Len(acceptq[i]) = 1 /\ acc[i].pc = "idle"
  BY DEF AInv, OnePlaceInv
<1>4. SetUpThreads = {}
  BY <1>2, <1>3 DEF SetUpThreads, WaitsAt, AccInInit
<1>5. arrived # {} /\ NotYetMade
  BY <1>1 DEF AInv, OnePlaceInv, NotYetMade
<1>. QED  BY <1>2, <1>3, <1>4, <1>5 DEF AInv, BeforeInv

\* The accept thread takes it from its queue.
LEMMA TakeAcceptAlone ==
  ASSUME IInv, AInv, NEW i \in Index, TakeAccept(i) PROVE AInv'
<1>1. /\ acceptq[i] # <<>> /\ acc[i].pc = "idle"
      /\ acc' = [acc EXCEPT ![i] = [pc |-> "connect", msg |-> Head(acceptq[i])]]
      /\ acceptq' = [acceptq EXCEPT ![i] = Tail(@)]
      /\ UNCHANGED <<arrived, eof, early, fdTable, unread, interest, epReady, batch, mem, csq, cs,
                     sweep, job, m_setProxyManager, delivered, leaked>>
  BY DEF TakeAccept, AccPc, AccUnchanged, netVars, kernelVars
<1>2. WaitsAt(i)
  BY <1>1 DEF WaitsAt
<1>3. /\ acc \in [Index -> AccRecord] /\ acceptq \in [Index -> Seq(AcceptMsg)]
  BY DEF IInv, Types, AccType, AccRecord, QueueType
<1>4. /\ arrived # {} /\ NotYetMade /\ Len(acceptq[i]) = 1
      /\ \A j \in Index \ {i} : acceptq[j] = <<>> /\ acc[j].pc = "idle"
  BY <1>1, <1>2, Waiting
<1>5. Tail(acceptq[i]) = <<>>
  <2>1. Tail(acceptq[i]) \in Seq(AcceptMsg) /\ Len(Tail(acceptq[i])) = 0
    BY <1>1, <1>3, <1>4, HeadTailProperties
  <2>. QED  BY <2>1, EmptySeq
<1>6. /\ acc'[i] = [pc |-> "connect", msg |-> Head(acceptq[i])]
      /\ \A j \in Index \ {i} : acc'[j] = acc[j]
      /\ \A j \in Index : acceptq'[j] = <<>>
  BY <1>1, <1>3, <1>4, <1>5
<1>7. /\ acc'[i].pc = "connect" /\ acc'[i].msg = Head(acceptq[i])
      /\ \A j \in Index \ {i} : acc'[j].pc = "idle"
  BY <1>4, <1>6
<1>8. SetUpThreads' = {}
  BY <1>7 DEF SetUpThreads, AccInInit
<1>9. /\ BeforeInv' /\ SetUpInv' /\ JobsInv' /\ EarlyInv' /\ ReportInv' /\ LiveAddrs' = {}
  BY <1>1, <1>4, <1>8, StillUnmade
<1>10. \A j \in Index : (AtThread(j)' <=> i = j) /\ (WaitsAt(j)' <=> i = j)
  BY <1>6, <1>7 DEF AtThread, WaitsAt
<1>11. OnePlaceInv'
  BY <1>1, <1>4, <1>6, <1>9, <1>10 DEF OnePlaceInv
<1>12. SocketsInv'
  <2>1. MsgOf(i)' = MsgOf(i)
    BY <1>1, <1>6, <1>7 DEF MsgOf
  <2>2. NotYetMade'
    BY <1>10 DEF NotYetMade
  <2>3. /\ fdTable[MsgOf(i).fd] = <<MsgOf(i).conn, "client">>
        /\ \A f \in Fd \ {MsgOf(i).fd} : fdTable[f] = Closed
    BY <1>1, <1>2 DEF AInv, SocketsInv
  <2>. QED  BY <1>1, <1>4, <1>7, <1>9, <1>10, <2>1, <2>2, <2>3 DEF SocketsInv
<1>. QED  BY <1>9, <1>11, <1>12 DEF AInv

\* An accept thread before connect() holds the only open descriptor, or, once it
\* has a socket for the upstream, the only two.
LEMMA AtConnect ==
  ASSUME IInv, AInv, NEW i \in Index, acc[i].pc \in {"connect", "connecting"}
  PROVE  /\ acc[i].msg.fd \in Fd /\ acc[i].msg.conn \in Conn
         /\ fdTable[acc[i].msg.fd] = <<acc[i].msg.conn, "client">>
         /\ \A f \in Fd \ {acc[i].msg.fd} :
              \/ fdTable[f] = Closed
              \/ /\ acc[i].pc = "connecting" /\ f = acc[i].upstreamsock
                 /\ fdTable[f] = <<acc[i].msg.conn, "server">>
         /\ acc[i].pc = "connecting" =>
              /\ acc[i].upstreamsock \in Fd \ {acc[i].msg.fd}
              /\ fdTable[acc[i].upstreamsock] # Closed
         /\ WaitsAt(i) /\ arrived # {} /\ NotYetMade /\ SetUpThreads = {} /\ LiveAddrs = {}
         /\ \A j \in Index : acceptq[j] = <<>>
         /\ \A j \in Index \ {i} : acc[j].pc = "idle"
<1>1. WaitsAt(i)
  BY DEF WaitsAt
<1>2. /\ arrived # {} /\ NotYetMade /\ SetUpThreads = {} /\ LiveAddrs = {}
      /\ \A j \in Index : acceptq[j] = <<>>
      /\ \A j \in Index \ {i} : acc[j].pc = "idle"
  BY <1>1, Waiting
<1>3. MsgOf(i) = acc[i].msg
  BY <1>2 DEF MsgOf
<1>4. acc[i].msg.fd \in Fd /\ acc[i].msg.conn \in Conn
  BY AccFacts DEF IInv, Types
<1>. QED  BY <1>1, <1>2, <1>3, <1>4 DEF AInv, SocketsInv

\* The connection is given up: only a socket whose connect() failed stays open.
LEMMA GivenUp ==
  ASSUME IInv, AInv, NEW i \in Index, acc[i].pc \in {"connect", "connecting"},
         acc' = [acc EXCEPT ![i] = AccIdle],
         UNCHANGED <<arrived, acceptq, batch, mem, csq, cs, sweep, job, m_setProxyManager, early,
                     eof, delivered>>,
         unread' \subseteq unread, epReady' \subseteq epReady,
         \A f \in Fd : interest'[f] = interest[f] \/ interest'[f] = Closed,
         \A f \in Fd : fdTable'[f] = Closed \/ fdTable'[f] \in leaked'
  PROVE  AInv'
<1>1. /\ arrived # {} /\ NotYetMade /\ LiveAddrs = {}
      /\ \A j \in Index : acceptq[j] = <<>>
      /\ \A j \in Index \ {i} : acc[j].pc = "idle"
  BY AtConnect
<1>2. \A j \in Index : acc'[j].pc = "idle"
  <2>1. acc \in [Index -> AccRecord] /\ AccIdle.pc = "idle"
    BY DEF IInv, Types, AccType, AccRecord, AccIdle
  <2>. QED  BY <1>1, <2>1
<1>3. SetUpThreads' = {}
  BY <1>2 DEF SetUpThreads, AccInInit
<1>4. /\ BeforeInv' /\ SetUpInv' /\ JobsInv' /\ EarlyInv' /\ ReportInv' /\ LiveAddrs' = {}
  BY <1>1, <1>3, StillUnmade
<1>5. \A j \in Index : ~AtThread(j)' /\ ~WaitsAt(j)'
  BY <1>1, <1>2 DEF AtThread, WaitsAt
<1>6. OnePlaceInv'
  BY <1>1, <1>4, <1>5 DEF OnePlaceInv
<1>7. SocketsInv'
  BY <1>1, <1>4, <1>5 DEF SocketsInv
<1>. QED  BY <1>4, <1>6, <1>7 DEF AInv

\* socket() fails: the client's socket is closed, and nothing is open.
LEMMA SocketFailsAlone ==
  ASSUME IInv, AInv, NEW i \in Index, SocketFails(i) PROVE AInv'
<1>. DEFINE f == acc[i].msg.fd
<1>1. /\ acc[i].pc = "connect" /\ acc' = [acc EXCEPT ![i] = AccIdle]
      /\ fdTable' = [fdTable EXCEPT ![f] = Closed] /\ interest' = [interest EXCEPT ![f] = Closed]
      /\ epReady' = epReady \ {f} /\ unread' \subseteq unread
      /\ UNCHANGED <<arrived, acceptq, batch, mem, csq, cs, sweep, job, m_setProxyManager, early,
                     eof, delivered>>
  BY DEF SocketFails, AccPc, CloseFd, AccUnchanged, netVars
<1>2. f \in Fd /\ \A g \in Fd \ {f} : fdTable[g] = Closed
  BY <1>1, AtConnect
<1>3. fdTable \in [Fd -> End \cup {Closed}] /\ interest \in [Fd -> Ptr \cup {Closed}]
  BY DEF IInv, Types, KernelType
<1>. HIDE DEF f
<1>4. /\ \A g \in Fd : interest'[g] = interest[g] \/ interest'[g] = Closed
      /\ \A g \in Fd : fdTable'[g] = Closed
  BY <1>1, <1>2, <1>3
<1>. QED  BY <1>1, <1>4, GivenUp

\* socket() succeeds: the connection now has two descriptors.
LEMMA GetSocketAlone ==
  ASSUME IInv, AInv, NEW i \in Index, GetSocket(i) PROVE AInv'
<1>0. PICK l, m : l = LowestFd /\ m = acc[i].msg
  OBVIOUS
<1>1. /\ acc[i].pc = "connect" /\ Fd \ OpenFds # {}
      /\ fdTable' = [fdTable EXCEPT ![l] = <<m.conn, "server">>]
      /\ acc' = [acc EXCEPT ![i] = [pc |-> "connecting", msg |-> m, upstreamsock |-> l]]
      /\ UNCHANGED <<arrived, acceptq, unread, eof, early, interest, epReady, batch, mem, csq, cs,
                     sweep, job, m_setProxyManager, delivered, leaked>>
  BY <1>0 DEF GetSocket, AccPc, AccUnchanged, netVars
<1>2. /\ m.fd \in Fd /\ m.conn \in Conn /\ fdTable[m.fd] = <<m.conn, "client">>
      /\ \A g \in Fd \ {m.fd} : fdTable[g] = Closed
      /\ WaitsAt(i) /\ arrived # {} /\ NotYetMade /\ SetUpThreads = {} /\ LiveAddrs = {}
      /\ \A j \in Index : acceptq[j] = <<>>
      /\ \A j \in Index \ {i} : acc[j].pc = "idle"
  BY <1>0, <1>1, AtConnect
<1>3. /\ l \in Fd /\ fdTable[l] = Closed
      /\ <<m.conn, "client">> # Closed /\ <<m.conn, "server">> # Closed /\ l # m.fd
  <2>1. l \in Fd /\ fdTable[l] = Closed
    BY <1>0, <1>1, LowestIsFree
  <2>2. <<m.conn, "client">> # Closed /\ <<m.conn, "server">> # Closed
    BY <1>2, SideFacts, ValueAssumption DEF End
  <2>. QED  BY <1>2, <2>1, <2>2
<1>4. /\ acc'[i].pc = "connecting" /\ acc'[i].msg = m /\ acc'[i].upstreamsock = l
      /\ \A j \in Index \ {i} : acc'[j].pc = "idle"
  <2>1. acc \in [Index -> AccRecord]
    BY DEF IInv, Types, AccType, AccRecord
  <2>2. /\ acc'[i] = [pc |-> "connecting", msg |-> m, upstreamsock |-> l]
        /\ \A j \in Index \ {i} : acc'[j] = acc[j]
    BY <1>1, <2>1
  <2>. QED  BY <1>2, <2>2
<1>5. SetUpThreads' = {}
  BY <1>4 DEF SetUpThreads, AccInInit
<1>6. /\ BeforeInv' /\ SetUpInv' /\ JobsInv' /\ EarlyInv' /\ ReportInv' /\ LiveAddrs' = {}
  BY <1>1, <1>2, <1>5, StillUnmade
<1>7. /\ \A j \in Index : (AtThread(j)' <=> i = j) /\ (WaitsAt(j)' <=> i = j)
      /\ MsgOf(i)' = m /\ NotYetMade'
  <2>1. \A j \in Index : acceptq'[j] = <<>>
    BY <1>1, <1>2
  <2>2. \A j \in Index : (AtThread(j)' <=> i = j) /\ (WaitsAt(j)' <=> i = j)
    BY <1>4, <2>1 DEF AtThread, WaitsAt
  <2>. QED  BY <1>4, <2>1, <2>2 DEF MsgOf, NotYetMade
<1>8. OnePlaceInv'
  BY <1>1, <1>2, <1>6, <1>7 DEF OnePlaceInv
<1>9. SocketsInv'
  <2>1. /\ fdTable'[l] = <<m.conn, "server">> /\ fdTable'[m.fd] = <<m.conn, "client">>
        /\ \A g \in Fd \ {m.fd, l} : fdTable'[g] = Closed
    <3>1. DOMAIN fdTable = Fd
      BY DEF IInv, Types, KernelType
    <3>. QED  BY <1>1, <1>2, <1>3, <3>1
  <2>. QED  BY <1>1, <1>2, <1>3, <1>4, <1>6, <1>7, <2>1 DEF SocketsInv
<1>. QED  BY <1>6, <1>8, <1>9 DEF AInv

\* connect() fails: the one socket that stays open is leaked.
LEMMA ConnectFailsAlone ==
  ASSUME IInv, AInv, NEW i \in Index, ConnectFails(i) PROVE AInv'
<1>. DEFINE f == acc[i].msg.fd
            e == <<acc[i].msg.conn, "server">>
            l == acc[i].upstreamsock
<1>1. /\ acc[i].pc = "connecting" /\ acc' = [acc EXCEPT ![i] = AccIdle]
      /\ fdTable' = [fdTable EXCEPT ![f] = Closed]
      /\ interest' = [interest EXCEPT ![f] = Closed]
      /\ epReady' = epReady \ {f} /\ unread' \subseteq unread /\ leaked' = leaked \cup {e}
      /\ UNCHANGED <<arrived, acceptq, batch, mem, csq, cs, sweep, job, m_setProxyManager, early,
                     eof, delivered>>
  BY DEF ConnectFails, AccPc, CloseFd, AccUnchanged, netVars
<1>2. f \in Fd /\ \A g \in Fd \ {f} : fdTable[g] = Closed \/ fdTable[g] = e
  BY <1>1, AtConnect
<1>3. fdTable \in [Fd -> End \cup {Closed}] /\ interest \in [Fd -> Ptr \cup {Closed}]
  BY DEF IInv, Types, KernelType
<1>. HIDE DEF f, e, l
<1>4. /\ \A g \in Fd : interest'[g] = interest[g] \/ interest'[g] = Closed
      /\ \A g \in Fd : fdTable'[g] = Closed \/ fdTable'[g] = e
  BY <1>1, <1>2, <1>3
<1>5. \A g \in Fd : fdTable'[g] = Closed \/ fdTable'[g] \in leaked'
  <2>1. e \in leaked'
    BY <1>1
  <2>. QED  BY <1>4, <2>1
<1>. QED  BY <1>1, <1>4, <1>5, GivenUp

\* The manager is made, and its set-up begins.
LEMMA ConnectUpstreamAlone ==
  ASSUME IInv, AInv, NEW i \in Index, ConnectUpstream(i) PROVE AInv'
<1>0. PICK f, l, c : f = acc[i].msg.fd /\ l = acc[i].upstreamsock /\ c = acc[i].msg.conn
  OBVIOUS
<1>. DEFINE m == [conn |-> c, m_bRelease |-> FALSE, sock |-> [client |-> f, server |-> l]]
<1>1. PICK a \in Addr :
        /\ ~Live(a) /\ mem' = [mem EXCEPT ![a] = m]
        /\ acc' = [acc EXCEPT ![i] = [pc |-> "initClient", addr |-> a]]
  BY <1>0 DEF ConnectUpstream
<1>2. /\ acc[i].pc = "connecting"
      /\ UNCHANGED <<arrived, acceptq, fdTable, unread, eof, early, interest, epReady, batch, csq,
                     cs, sweep, job, m_setProxyManager, delivered, leaked>>
  BY DEF ConnectUpstream, AccPc, AccUnchanged, netVars, kernelVars
<1>3. /\ f \in Fd /\ c \in Conn /\ fdTable[f] = <<c, "client">>
      /\ l \in Fd \ {f} /\ fdTable[l] = <<c, "server">>
      /\ \A g \in Fd \ {f, l} : fdTable[g] = Closed
      /\ WaitsAt(i) /\ arrived # {} /\ NotYetMade /\ SetUpThreads = {} /\ LiveAddrs = {}
      /\ \A j \in Index : acceptq[j] = <<>>
      /\ \A j \in Index \ {i} : acc[j].pc = "idle"
  BY <1>0, <1>2, AtConnect
<1>5. f # l /\ f # -1 /\ l # -1 /\ l \in Fd
  <2>1. Fd \subseteq Nat /\ \A n \in Nat : n # -1
    BY LifecycleAssumption
  <2>. QED  BY <1>3, <2>1
<1>6. /\ m.conn = c /\ m.m_bRelease = FALSE
      /\ m.sock["client"] = f /\ m.sock["server"] = l
      /\ m # Free
  <2>1. m \in Manager
    BY <1>3, <1>5 DEF Manager, Side
  <2>. QED  BY <2>1, ValueAssumption
<1>. HIDE DEF m
<1>7. mem'[a] = m /\ \A b \in Addr \ {a} : mem'[b] = Free
  <2>1. mem \in [Addr -> Manager \cup {Free}]
    BY DEF IInv, Types, HeapType
  <2>2. \A b \in Addr : mem[b] = Free
    BY <1>3 DEF LiveAddrs, Live
  <2>. QED  BY <1>1, <2>1, <2>2
<1>8. LiveAddrs' = {a}
  BY <1>6, <1>7 DEF LiveAddrs, Live
<1>9. acc'[i].pc = "initClient" /\ acc'[i].addr = a /\ \A j \in Index \ {i} : acc'[j].pc = "idle"
  <2>1. acc \in [Index -> AccRecord]
    BY DEF IInv, Types, AccType, AccRecord
  <2>2. acc'[i] = [pc |-> "initClient", addr |-> a] /\ \A j \in Index \ {i} : acc'[j] = acc[j]
    BY <1>1, <2>1
  <2>. QED  BY <1>3, <2>2
<1>10. /\ \A j \in Index : (AtThread(j)' <=> i = j) /\ ~WaitsAt(j)'
       /\ SetUpThreads' = {i} /\ ~NotYetMade'
  <2>1. \A j \in Index : (AtThread(j)' <=> i = j) /\ ~WaitsAt(j)'
    BY <1>2, <1>3, <1>9 DEF AtThread, WaitsAt
  <2>. QED  BY <1>2, <1>3, <1>9, <2>1 DEF SetUpThreads, AccInInit, NotYetMade
<1>11. fdTable'[f] = <<c, "client">> /\ fdTable'[l] = <<c, "server">>
       /\ \A g \in Fd \ {f, l} : fdTable'[g] = Closed
  BY <1>2, <1>3
<1>12. /\ m_setProxyManager = {} /\ sweep.left = {} /\ NothingUnderWay
       /\ \A t \in Agent : job[t].ops = <<>>
       /\ \A j \in Index : cs[j].pc = "idle"
  BY <1>3 DEF AInv, BeforeInv, NothingUnderWay
<1>13. OnePlaceInv' /\ BeforeInv' /\ SetUpInv'
  BY <1>2, <1>3, <1>8, <1>10, <1>12 DEF OnePlaceInv, BeforeInv, SetUpInv
<1>14. SocketsInv'
  <2>1. /\ mem'[a].m_bRelease = FALSE /\ mem'[a].sock["client"] = f
        /\ mem'[a].sock["server"] = l /\ mem'[a].conn = c
    BY <1>6, <1>7
  <2>2. \A g \in Fd : fdTable'[g] # Closed => g = mem'[a].sock[fdTable'[g][2]]
    BY <1>11, <2>1
  <2>3. \A s \in Side : mem'[a].sock[s] # -1
    BY <1>5, <2>1 DEF Side
  <2>. QED  BY <1>2, <1>3, <1>5, <1>8, <1>10, <2>1, <2>2, <2>3 DEF SocketsInv
<1>15. JobsInv'
  BY <1>2, <1>12 DEF JobsInv
<1>16. EarlyInv'
  <2>. SUFFICES ASSUME early = {} PROVE EarlyInv'
    BY <1>2 DEF EarlyInv
  <2>1. unread' = {} /\ eof' = {}
    BY <1>2, <1>3 DEF AInv, EarlyInv
  <2>2. NothingUnderWay'
    BY <1>2, <1>12 DEF NothingUnderWay
  <2>. QED  BY <1>2, <1>8, <1>9, <1>10, <1>12, <2>1, <2>2 DEF EarlyInv
<1>17. ReportInv'
  <2>1. \A s \in Side : ~Registered(s)'
    BY <1>9, <1>10 DEF Registered
  <2>2. \A s \in Side : mem'[a].sock[s] # -1 /\ fdTable'[mem'[a].sock[s]] = <<mem'[a].conn, s>>
    BY <1>5, <1>6, <1>7, <1>11 DEF Side
  <2>. QED  BY <1>8, <2>1, <2>2 DEF ReportInv
<1>. QED  BY <1>13, <1>14, <1>15, <1>16, <1>17 DEF AInv

-----------------------------------------------------------------------------
(***************************************************************************)
(* The statements of a tear-down.                                          *)
(***************************************************************************)

\* One sequence of statements behind another.
LEMMA ElemsConcat ==
  ASSUME NEW q \in Seq(Op), NEW r \in Seq(Op)
  PROVE  /\ Elems(q \o r) = Elems(q) \cup Elems(r)
         /\ FreeIsLast(r) /\ r # <<>> /\ (\A x \in Elems(q) : x[1] # "free") => FreeIsLast(q \o r)
<1>1. /\ Len(q) \in Nat /\ Len(r) \in Nat /\ Len(q \o r) = Len(q) + Len(r)
      /\ \A k \in 1 .. Len(q) + Len(r) :
           (q \o r)[k] = IF k <= Len(q) THEN q[k] ELSE r[k - Len(q)]
  BY ConcatProperties
<1>2. \A k \in 1 .. Len(q) : k \in 1 .. Len(q) + Len(r) /\ k <= Len(q)
  BY <1>1
<1>3. \A k \in 1 .. Len(r) : /\ Len(q) + k \in 1 .. Len(q) + Len(r) /\ ~(Len(q) + k <= Len(q))
                             /\ (Len(q) + k) - Len(q) = k
  BY <1>1
<1>4. \A k \in 1 .. Len(q) + Len(r) :
        \/ k <= Len(q) /\ k \in 1 .. Len(q)
        \/ ~(k <= Len(q)) /\ k - Len(q) \in 1 .. Len(r)
  BY <1>1
<1>5. ASSUME NEW x \in Elems(q \o r) PROVE x \in Elems(q) \cup Elems(r)
  BY <1>1, <1>4 DEF Elems
<1>6. ASSUME NEW x \in Elems(q) PROVE x \in Elems(q \o r)
  <2>1. PICK k \in 1 .. Len(q) : x = q[k]
    BY DEF Elems
  <2>2. (q \o r)[k] = x /\ k \in 1 .. Len(q \o r)
    BY <1>1, <1>2, <2>1
  <2>. QED  BY <2>2 DEF Elems
<1>7. ASSUME NEW x \in Elems(r) PROVE x \in Elems(q \o r)
  <2>1. PICK k \in 1 .. Len(r) : x = r[k]
    BY DEF Elems
  <2>2. (q \o r)[Len(q) + k] = x /\ Len(q) + k \in 1 .. Len(q \o r)
    BY <1>1, <1>3, <2>1
  <2>. QED  BY <2>2 DEF Elems
<1>8. ASSUME FreeIsLast(r), r # <<>>, \A x \in Elems(q) : x[1] # "free",
             NEW k \in 1 .. Len(q \o r), (q \o r)[k][1] = "free"
      PROVE  k = Len(q \o r)
  <2>1. CASE k <= Len(q)
    <3>1. k \in 1 .. Len(q) /\ (q \o r)[k] = q[k]
      BY <1>1, <1>4, <2>1
    <3>. QED  BY <1>8, <3>1 DEF Elems
  <2>2. CASE ~(k <= Len(q))
    <3>1. k - Len(q) \in 1 .. Len(r) /\ (q \o r)[k] = r[k - Len(q)]
      BY <1>1, <1>4, <2>2
    <3>2. k - Len(q) = Len(r)
      BY <1>8, <3>1 DEF FreeIsLast
    <3>. QED  BY <1>1, <3>2
  <2>. QED  BY <2>1, <2>2
<1>9. FreeIsLast(r) /\ r # <<>> /\ (\A x \in Elems(q) : x[1] # "free") => FreeIsLast(q \o r)
  BY <1>8 DEF FreeIsLast
<1>. QED  BY <1>5, <1>6, <1>7, <1>9

\* A tear-down of the code: it closes both sides, clears none by itself, and
\* deletes last.
Whole(ops) == /\ FreeIsLast(ops)
              /\ \A s \in Side : <<"close", s>> \in Elems(ops)
              /\ \A x \in Elems(ops) : x[1] # "clear"

\* Every tear-down of the code is one, and that after a peer's close erases the pointer.
LEMMA AllAreWhole ==
  /\ Whole(OnIdle) /\ Whole(OnFailedInit) /\ Whole(Delete)
  /\ \A s \in Side : Whole(OnPeerClose(s)) /\ <<"erase", s>> \in Elems(OnPeerClose(s))
<1>. USE SideFacts
<1>1. /\ Delete \in Seq(Op) /\ Delete # <<>> /\ Whole(Delete)
  <2>1. Delete \in Seq(Op) /\ Delete # <<>> /\ Len(Delete) = 3
    BY DEF Delete, Op
  <2>2. /\ Delete[1] = <<"close", "client">> /\ Delete[2] = <<"close", "server">>
        /\ Delete[3] = <<"free", "client">>
    BY DEF Delete
  <2>3. Elems(Delete) = {<<"close", "client">>, <<"close", "server">>, <<"free", "client">>}
    <3>1. 1 .. 3 = {1, 2, 3}
      OBVIOUS
    <3>2. Elems(Delete) = {Delete[k] : k \in {1, 2, 3}}
      BY <2>1, <3>1 DEF Elems
    <3>. QED  BY <2>2, <3>2
  <2>4. FreeIsLast(Delete)
    BY <2>1, <2>2 DEF FreeIsLast
  <2>. QED  BY <2>1, <2>3, <2>4 DEF Whole, Side
<1>2. ASSUME NEW s \in Side
      PROVE  /\ Shut(s) \in Seq(Op) /\ Shut(s) # <<>>
             /\ Elems(Shut(s)) = {<<"unregister", s>>, <<"close", s>>}
  <2>1. Shut(s) \in Seq(Op) /\ Shut(s) # <<>> /\ Len(Shut(s)) = 2
    BY DEF Shut, Op
  <2>2. Shut(s)[1] = <<"unregister", s>> /\ Shut(s)[2] = <<"close", s>>
    BY DEF Shut
  <2>. QED  BY <2>1, <2>2 DEF Elems
<1>3. ASSUME NEW op \in Op
      PROVE  <<op>> \in Seq(Op) /\ <<op>> # <<>> /\ Elems(<<op>>) = {op}
  <2>1. <<op>> \in Seq(Op) /\ <<op>> # <<>> /\ Len(<<op>>) = 1 /\ <<op>>[1] = op
    OBVIOUS
  <2>. QED  BY <2>1 DEF Elems
\* What is put before a whole tear-down leaves it whole.
<1>4. ASSUME NEW q \in Seq(Op), NEW r \in Seq(Op), r # <<>>, Whole(r),
             \A x \in Elems(q) : x[1] \notin {"free", "clear"}
      PROVE  q \o r \in Seq(Op) /\ q \o r # <<>> /\ Whole(q \o r)
  <2>1. Elems(q \o r) = Elems(q) \cup Elems(r) /\ FreeIsLast(q \o r)
    BY <1>4, ElemsConcat DEF Whole
  <2>2. q \o r \in Seq(Op) /\ q \o r # <<>>
    BY <1>4, ConcatOps
  <2>. QED  BY <1>4, <2>1, <2>2 DEF Whole
<1>5. Release \in Seq(Op) /\ Release # <<>> /\ \A x \in Elems(Release) : x[1] \notin {"free", "clear"}
  <2>1. Elems(Release) = Elems(Shut("client")) \cup Elems(Shut("server"))
    BY <1>2, ElemsConcat DEF Release
  <2>2. Release \in Seq(Op) /\ Release # <<>>
    BY <1>2, ConcatOps DEF Release
  <2>. QED  BY <1>2, <2>1, <2>2
<1>6. Whole(OnIdle)
  BY <1>1, <1>4, <1>5 DEF OnIdle
<1>7. Whole(OnFailedInit)
  <2>. DEFINE u == <<"unregister", "client">>
  <2>1. u \in Op /\ u[1] = "unregister"
    BY DEF Op
  <2>2. <<u>> \in Seq(Op) /\ Elems(<<u>>) = {u}
    BY <1>3, <2>1
  <2>3. \A x \in Elems(<<u>>) : x[1] \notin {"free", "clear"}
    BY <2>1, <2>2
  <2>. HIDE DEF u
  <2>4. Whole(<<u>> \o Delete)
    BY <1>1, <1>4, <2>2, <2>3
  <2>. QED  BY <2>4 DEF OnFailedInit, u
<1>8. ASSUME NEW s \in Side
      PROVE  Whole(OnPeerClose(s)) /\ <<"erase", s>> \in Elems(OnPeerClose(s))
  <2>. DEFINE e == <<"erase", s>>
  <2>1. e \in Op /\ <<e>> \in Seq(Op) /\ <<e>> # <<>> /\ Elems(<<e>>) = {e}
    BY <1>3 DEF Op
  <2>2. /\ Shut(s) \o <<e>> \in Seq(Op) /\ Shut(s) \o <<e>> # <<>>
        /\ Elems(Shut(s) \o <<e>>) = {<<"unregister", s>>, <<"close", s>>, e}
    <3>. HIDE DEF e
    <3>1. Elems(Shut(s) \o <<e>>) = Elems(Shut(s)) \cup Elems(<<e>>)
      BY <1>2, <2>1, ElemsConcat
    <3>2. Shut(s) \o <<e>> \in Seq(Op) /\ Shut(s) \o <<e>> # <<>>
      BY <1>2, <2>1, ConcatOps
    <3>. QED  BY <1>2, <2>1, <3>1, <3>2
  <2>3. /\ (Shut(s) \o <<e>>) \o Release \in Seq(Op)
        /\ Elems((Shut(s) \o <<e>>) \o Release) = Elems(Shut(s) \o <<e>>) \cup Elems(Release)
    BY <1>5, <2>2, ConcatOps, ElemsConcat
  <2>4. OnPeerClose(s) = ((Shut(s) \o <<e>>) \o Release) \o Delete
    BY DEF OnPeerClose
  <2>5. Elems(OnPeerClose(s)) = Elems((Shut(s) \o <<e>>) \o Release) \cup Elems(Delete)
    BY <1>1, <2>3, <2>4, ElemsConcat
  <2>6. \A x \in Elems((Shut(s) \o <<e>>) \o Release) : x[1] \notin {"free", "clear"}
    <3>1. \A x \in Elems(Shut(s) \o <<e>>) : x[1] \notin {"free", "clear"}
      BY <2>2
    <3>. QED  BY <1>5, <2>3, <3>1
  <2>7. Whole(OnPeerClose(s))
    BY <1>1, <1>4, <2>3, <2>4, <2>6
  <2>. QED  BY <2>2, <2>3, <2>5, <2>7
<1>. QED  BY <1>1, <1>6, <1>7, <1>8

\* A thread that begins to tear down will close all that is open.
LEMMA StartAlone ==
  ASSUME JobsInv, JobInv, NEW t \in Agent, NEW a, NEW ops, Whole(ops), UNCHANGED fdTable,
         job' = [job EXCEPT ![t] = [addr |-> a, ops |-> ops]]
  PROVE  JobsInv'
<1>1. \A s : NotOpen(s)' = NotOpen(s)
  BY SameHeap
<1>2. job'[t].ops = ops /\ \A u \in Agent \ {t} : job'[u] = job[u]
  BY DEF JobInv
<1>3. TearsAll(ops)'
  <2>1. TearsAll(ops)' <=> TearsAll(ops)
    BY <1>1 DEF TearsAll
  <2>. QED  BY <2>1 DEF TearsAll, Whole
<1>. QED  BY <1>1, <1>2, <1>3 DEF JobsInv, TearsAll

-----------------------------------------------------------------------------
(***************************************************************************)
(* The set-up.                                                             *)
(***************************************************************************)

\* While a manager is set up nobody else has the connection.
LEMMA SettingUp ==
  ASSUME AInv, NEW i \in Index, acc[i].pc \in AccInInit
  PROVE  /\ SetUpThreads = {i} /\ ~NotYetMade /\ arrived # {}
         /\ \A j \in Index : acceptq[j] = <<>>
         /\ \A j \in Index \ {i} : acc[j].pc = "idle"
         /\ m_setProxyManager = {} /\ sweep.left = {}
<1>1. AtThread(i) /\ acceptq[i] = <<>> /\ acc[i].pc \notin {"idle", "connect", "connecting"}
  BY DEF AtThread, AInv, OnePlaceInv, AccInInit
<1>2. \A j \in Index \ {i} : acceptq[j] = <<>> /\ acc[j].pc = "idle"
  BY <1>1 DEF AInv, OnePlaceInv, AtThread
<1>3. arrived # {}
  BY <1>1 DEF AInv, OnePlaceInv
<1>4. \A j \in Index : ~WaitsAt(j)
  BY <1>1, <1>2 DEF WaitsAt
<1>5. SetUpThreads = {i}
  BY <1>2 DEF SetUpThreads, AccInInit
<1>. QED  BY <1>1, <1>2, <1>3, <1>4, <1>5 DEF NotYetMade, AInv, SetUpInv

\* It goes on, or ends.
LEMMA SetUpMoves ==
  ASSUME IInv, AInv, NEW i \in Index, acc[i].pc \in AccInInit, NEW new \in AccRecord,
         new.pc \in AccInInit \/ new.pc = "idle", acc' = [acc EXCEPT ![i] = new],
         UNCHANGED <<arrived, acceptq, mem, fdTable, leaked>>
  PROVE  /\ OnePlaceInv' /\ BeforeInv' /\ SocketsInv' /\ ~NotYetMade'
         /\ SetUpThreads' = IF new.pc = "idle" THEN {} ELSE {i}
         /\ acc'[i] = new /\ LiveAddrs' = LiveAddrs
<1>1. /\ SetUpThreads = {i} /\ ~NotYetMade /\ arrived # {}
      /\ \A j \in Index : acceptq[j] = <<>>
      /\ \A j \in Index \ {i} : acc[j].pc = "idle"
  BY SettingUp
<1>2. acc'[i] = new /\ \A j \in Index \ {i} : acc'[j] = acc[j]
  BY DEF IInv, Types, AccType
<1>3. LiveAddrs' = LiveAddrs
  BY SameHeap
<1>4. /\ \A j \in Index : ~WaitsAt(j)' /\ (AtThread(j)' => j = i)
  BY <1>1, <1>2 DEF WaitsAt, AtThread, AccInInit
<1>5. ~NotYetMade'
  BY <1>1, <1>4 DEF NotYetMade
<1>6. SetUpThreads' = IF new.pc = "idle" THEN {} ELSE {i}
  BY <1>1, <1>2 DEF SetUpThreads, AccInInit
<1>7. OnePlaceInv'
  BY <1>1, <1>3, <1>4 DEF AInv, OnePlaceInv
<1>8. BeforeInv'
  BY <1>5 DEF BeforeInv
<1>9. SocketsInv'
  <2>1. \A s : NotOpen(s)' = NotOpen(s)
    BY SameHeap
  <2>. QED  BY <1>1, <1>3, <1>4, <1>5, <2>1 DEF AInv, SocketsInv
<1>. QED  BY <1>2, <1>3, <1>5, <1>6, <1>7, <1>8, <1>9

\* One side is registered, or the manager is given up.
LEMMA InitSideAlone ==
  ASSUME IInv, AInv, NEW i \in Index, NEW s \in Side, NEW here, NEW next,
         \/ s = "client" /\ here = "initClient" /\ next = "initServer"
         \/ s = "server" /\ here = "initServer" /\ next = "stamp",
         InitSide(i, s, here, next)
  PROVE  AInv'
<1>0. PICK a, f : a = acc[i].addr /\ f = mem[a].sock[s]
  OBVIOUS
<1>1. /\ acc[i].pc = here /\ here \in AccInInit /\ next \in AccInInit /\ next # "idle"
      /\ Live(a) /\ job[AcceptThread(i)].ops = <<>>
      /\ UNCHANGED <<acceptq, mem, m_setProxyManager, leaked, arrived, eof, early, batch, csq, cs,
                     sweep, delivered>>
  BY <1>0 DEF InitSide, AccPc, AccUnchanged, netVars, AccInInit
<1>2. /\ \/ /\ CanRegister(f) /\ Register(f, <<a, s>>) /\ AccGoto(i, next) /\ UNCHANGED job
         \/ /\ job' = [job EXCEPT ![AcceptThread(i)] =
                          [addr |-> a, ops |-> IF s = "client" THEN Delete ELSE OnFailedInit]]
            /\ acc' = [acc EXCEPT ![i] = AccIdle]
            /\ UNCHANGED kernelVars
  BY <1>0 DEF InitSide
<1>3. acc[i] \in [pc : AccInInit, addr : Addr] /\ a \in Addr /\ AcceptThread(i) \in Agent
  BY <1>0, <1>1, AccFacts DEF IInv, Types, Agent
<1>4. a \in LiveAddrs /\ mem[a] \in Manager /\ \A b \in LiveAddrs : b = a
  BY <1>1, <1>3 DEF LiveAddrs, Live, IInv, Types, HeapType, AInv, OnePlaceInv
<1>5. /\ SetUpThreads = {i} /\ m_setProxyManager = {} /\ sweep.left = {}
  BY <1>1, SettingUp
<1>6. CASE /\ CanRegister(f) /\ Register(f, <<a, s>>) /\ AccGoto(i, next) /\ UNCHANGED job
  <2>1. /\ f # -1 /\ fdTable[f] # Closed
        /\ interest' = [interest EXCEPT ![f] = <<a, s>>]
        /\ epReady' = (IF HasInput(f) THEN epReady \cup {f} ELSE epReady)
        /\ UNCHANGED <<fdTable, unread, job>>
    BY <1>6 DEF CanRegister, Register
  <2>2. f \in Fd
    BY <1>0, <1>4, <2>1 DEF Manager
  <2>. DEFINE new == [acc[i] EXCEPT !.pc = next]
  <2>3. new \in AccRecord /\ new.pc = next /\ new.addr = a /\ acc' = [acc EXCEPT ![i] = new]
    BY <1>0, <1>1, <1>3, <1>6 DEF AccRecord, AccGoto
  <2>. HIDE DEF new
  <2>4. /\ OnePlaceInv' /\ BeforeInv' /\ SocketsInv' /\ ~NotYetMade'
        /\ SetUpThreads' = {i} /\ acc'[i] = new /\ LiveAddrs' = LiveAddrs
    BY <1>1, <2>1, <2>3, SetUpMoves
  <2>5. SetUpInv' /\ JobsInv'
    BY <1>1, <1>5, <2>1, AloneFrames DEF SetUpInv
  <2>6. EarlyInv'
    <3>. SUFFICES ASSUME early = {} PROVE EarlyInv'
      BY <1>1 DEF EarlyInv
    <3>1. unread = {} /\ eof = {} /\ NothingUnderWay
      BY <1>5 DEF AInv, EarlyInv
    <3>2. NothingUnderWay' /\ unread' = {} /\ eof' = {}
      BY <1>1, <2>1, <3>1 DEF NothingUnderWay, HasInput
    <3>. QED  BY <1>1, <1>4, <1>5, <2>3, <2>4, <3>2 DEF EarlyInv, NothingUnderWay
  <2>7. ReportInv'
    <3>1. TornAddrs' = TornAddrs
      BY <2>1, SameHeap
    <3>. SUFFICES ASSUME a \notin TornAddrs, NEW r \in Side
                  PROVE  LET g == mem[a].sock[r]
                         IN  /\ g # -1 /\ fdTable[g] = <<mem[a].conn, r>>
                             /\ Registered(r)' => /\ interest'[g] = <<a, r>>
                                                  /\ HasInput(g) => Reported(a, r)'
      BY <1>1, <1>4, <2>1, <2>4, <3>1 DEF ReportInv, HasInput
    <3>. DEFINE g == mem[a].sock[r]
    <3>2. /\ g # -1 /\ fdTable[g] = <<mem[a].conn, r>>
          /\ Registered(r) => interest[g] = <<a, r>> /\ (HasInput(g) => Reported(a, r))
      BY <1>4 DEF AInv, ReportInv
    <3>3. CASE r = s
      <4>1. g = f
        BY <1>0, <3>3
      <4>2. interest'[f] = <<a, s>> /\ (HasInput(f) => f \in epReady')
        BY <2>1, <2>2 DEF IInv, Types, KernelType
      <4>. QED  BY <1>1, <3>2, <3>3, <4>1, <4>2 DEF Reported
    <3>4. CASE r # s
      <4>1. Registered(r)' => s = "server" /\ r = "client"
        BY <2>3, <2>4, <3>4 DEF Registered, Side
      <4>2. Registered(r)' => Registered(r)
        BY <1>1, <1>5, <4>1 DEF Registered
      <4>3. g # f
        <5>1. fdTable[f] = <<mem[a].conn, s>>
          BY <1>0, <1>4 DEF AInv, ReportInv
        <5>. QED  BY <3>2, <3>4, <5>1
      <4>4. interest'[g] = interest[g]
        BY <2>1, <4>3 DEF IInv, Types, KernelType
      <4>5. Reported(a, r) => Reported(a, r)'
        BY <1>1, <2>1 DEF Reported
      <4>. QED  BY <3>2, <4>2, <4>4, <4>5
    <3>. QED  BY <3>3, <3>4
  <2>. QED  BY <2>4, <2>5, <2>6, <2>7 DEF AInv
<1>7. CASE /\ job' = [job EXCEPT ![AcceptThread(i)] =
                        [addr |-> a, ops |-> IF s = "client" THEN Delete ELSE OnFailedInit]]
           /\ acc' = [acc EXCEPT ![i] = AccIdle]
           /\ UNCHANGED kernelVars
  <2>. DEFINE ops == IF s = "client" THEN Delete ELSE OnFailedInit
  <2>1. Whole(ops) /\ ops \in {OnIdle, OnFailedInit, Delete} \cup {OnPeerClose(r) : r \in Side}
    BY AllAreWhole
  <2>2. job' = [job EXCEPT ![AcceptThread(i)] = [addr |-> a, ops |-> ops]]
    BY <1>7
  <2>. HIDE DEF ops
  <2>3. JobsInv' /\ a \in TornAddrs'
    <3>1. UNCHANGED fdTable /\ JobsInv /\ JobInv
      BY <1>7 DEF kernelVars, AInv, IInv, Types
    <3>2. JobsInv'
      BY <1>3, <2>1, <2>2, <3>1, StartAlone
    <3>3. a \in TornAddrs'
      BY <1>1, <1>3, <2>1, <2>2, <3>1, StartJob
    <3>. QED  BY <3>2, <3>3
  <2>4. AccIdle \in AccRecord /\ AccIdle.pc = "idle" /\ UNCHANGED fdTable
    BY <1>7 DEF AccRecord, AccIdle, kernelVars
  <2>5. /\ OnePlaceInv' /\ BeforeInv' /\ SocketsInv' /\ ~NotYetMade'
        /\ SetUpThreads' = {} /\ LiveAddrs' = LiveAddrs
    BY <1>1, <1>7, <2>4, SetUpMoves
  <2>6. SetUpInv'
    BY <1>1, <1>5, <2>4, AloneFrames DEF SetUpInv
  <2>7. EarlyInv'
    BY <1>1, <1>5, <2>5 DEF EarlyInv
  <2>8. ReportInv'
    BY <1>4, <2>3, <2>5 DEF ReportInv
  <2>. QED  BY <2>3, <2>5, <2>6, <2>7, <2>8 DEF AInv
<1>. QED  BY <1>2, <1>6, <1>7

\* The rest of the set-up: both sides are registered by then.
LEMMA RegisteredAlone ==
  ASSUME AInv, NEW i \in Index, acc[i].pc \in {"stamp", "add"}, SetUpThreads' \subseteq {i},
         acc'[i].pc \in {"add", "idle"},
         UNCHANGED <<fdTable, unread, interest, epReady, eof, batch, mem, csq, cs, job>>
  PROVE  ReportInv'
<1>1. acc[i].pc \in AccInInit
  BY DEF AccInInit
<1>2. \A s \in Side : Registered(s)
  BY <1>1, SettingUp DEF Registered
<1>3. LiveAddrs' = LiveAddrs /\ TornAddrs' = TornAddrs
  BY SameHeap
<1>4. /\ \A f : HasInput(f)' = HasInput(f)
      /\ \A a, s : Reported(a, s)' = Reported(a, s)
  BY DEF HasInput, Reported
<1>. QED  BY <1>2, <1>3, <1>4 DEF AInv, ReportInv

\* The set-up sets m_nLastTime: the manager is registered and idle no more.
LEMMA StampTimeAlone ==
  ASSUME IInv, AInv, NEW i \in Index, StampTime(i) PROVE AInv'
<1>1. /\ acc[i].pc = "stamp" /\ acc[i].pc \in AccInInit
      /\ acc' = [acc EXCEPT ![i].pc = "add"]
      /\ UNCHANGED <<arrived, fdTable, unread, interest, epReady, acceptq, mem, job,
                     m_setProxyManager, leaked, eof, early, batch, csq, cs, sweep, delivered>>
  BY DEF StampTime, AccPc, AccGoto, AccUnchanged, netVars, kernelVars, AccInInit
<1>2. acc[i] \in [pc : AccInInit, addr : Addr]
  BY <1>1, AccFacts DEF IInv, Types
<1>. DEFINE new == [acc[i] EXCEPT !.pc = "add"]
<1>3. /\ new \in AccRecord /\ new.pc = "add" /\ new.pc \in AccInInit /\ new.addr = acc[i].addr
      /\ acc' = [acc EXCEPT ![i] = new]
  BY <1>1, <1>2 DEF AccRecord, AccInInit
<1>. HIDE DEF new
<1>4. /\ OnePlaceInv' /\ BeforeInv' /\ SocketsInv' /\ ~NotYetMade'
      /\ SetUpThreads' = {i} /\ acc'[i] = new /\ LiveAddrs' = LiveAddrs
  BY <1>1, <1>3, SetUpMoves
<1>5. SetUpThreads = {i} /\ m_setProxyManager = {} /\ sweep.left = {}
  BY <1>1, SettingUp
<1>6. SetUpInv' /\ JobsInv'
  BY <1>1, <1>5, AloneFrames DEF SetUpInv
<1>7. ReportInv'
  BY <1>1, <1>3, <1>4, RegisteredAlone
<1>8. EarlyInv'
  <2>1. NothingUnderWay' = NothingUnderWay
    BY <1>1 DEF NothingUnderWay
  <2>. QED  BY <1>1, <1>3, <1>4, <1>5, <2>1 DEF AInv, EarlyInv
<1>. QED  BY <1>4, <1>6, <1>7, <1>8 DEF AInv

\* The manager passes from the set-up to the set.
LEMMA AddProxyManagerAlone ==
  ASSUME IInv, AInv, NEW i \in Index, AddProxyManager(i) PROVE AInv'
<1>1. /\ acc[i].pc = "add" /\ acc[i].pc \in AccInInit
      /\ acc' = [acc EXCEPT ![i] = AccIdle]
      /\ m_setProxyManager' = m_setProxyManager \cup {acc[i].addr}
      /\ UNCHANGED <<arrived, fdTable, unread, interest, epReady, acceptq, mem, job,
                     leaked, eof, early, batch, csq, cs, sweep, delivered>>
  BY DEF AddProxyManager, AccPc, AccUnchanged, netVars, kernelVars, AccInInit
<1>2. AccIdle \in AccRecord /\ AccIdle.pc = "idle"
  BY DEF AccRecord, AccIdle
<1>3. /\ OnePlaceInv' /\ BeforeInv' /\ SocketsInv' /\ ~NotYetMade'
      /\ SetUpThreads' = {} /\ acc'[i] = AccIdle /\ LiveAddrs' = LiveAddrs
  BY <1>1, <1>2, SetUpMoves
<1>4. SetUpThreads = {i} /\ m_setProxyManager = {} /\ sweep.left = {}
  BY <1>1, SettingUp
<1>5. SetUpInv' /\ JobsInv'
  BY <1>1, <1>3, AloneFrames DEF SetUpInv
<1>6. ReportInv'
  BY <1>1, <1>2, <1>3, RegisteredAlone
<1>7. EarlyInv'
  <2>. SUFFICES ASSUME early = {} PROVE EarlyInv'
    BY <1>1 DEF EarlyInv
  <2>1. acc[i].addr \in LiveAddrs /\ NothingUnderWay
    BY <1>4 DEF AInv, EarlyInv
  <2>. QED  BY <1>1, <1>3, <1>4, <2>1 DEF EarlyInv, NothingUnderWay
<1>. QED  BY <1>3, <1>5, <1>6, <1>7 DEF AInv

-----------------------------------------------------------------------------
(***************************************************************************)
(* The client/server threads and the sweep.                                *)
(***************************************************************************)

\* Who works on a message, or tears down, does so after the set-up, unless a peer
\* was early.
LEMMA UnderWay ==
  ASSUME AInv, ~NothingUnderWay
  PROVE  ~NotYetMade /\ (early = {} => SetUpThreads = {})
BY DEF AInv, BeforeInv, EarlyInv

\* What a step of a client/server thread leaves as it is.
LEMMA CsAlone ==
  ASSUME AInv, ~NothingUnderWay, CsUnchanged, UNCHANGED job
  PROVE  /\ OnePlaceInv' /\ BeforeInv' /\ SetUpInv' /\ SocketsInv' /\ JobsInv' /\ EarlyInv'
         /\ LiveAddrs' = LiveAddrs /\ TornAddrs' = TornAddrs
         /\ \A s : Registered(s)' = Registered(s)
<1>1. UNCHANGED <<arrived, eof, early, fdTable, interest, epReady, batch, mem, acceptq, acc, sweep,
                  m_setProxyManager, leaked, job>>
  BY DEF CsUnchanged, netVars, setVars
<1>2. ~NotYetMade /\ (early = {} => SetUpThreads = {})
  BY UnderWay
<1>3. /\ LiveAddrs' = LiveAddrs /\ TornAddrs' = TornAddrs /\ NotYetMade' = NotYetMade
      /\ SetUpThreads' = SetUpThreads /\ \A s : Registered(s)' = Registered(s)
  BY <1>1, SamePlaces, SameHeap
<1>4. OnePlaceInv' /\ BeforeInv' /\ SetUpInv' /\ SocketsInv' /\ JobsInv'
  BY <1>1, <1>2, AloneFrames
<1>5. EarlyInv'
  BY <1>1, <1>2, <1>3 DEF AInv, EarlyInv
<1>. QED  BY <1>3, <1>4, <1>5

\* A message of the manager is taken to be read from.
LEMMA TakeMessageAlone ==
  ASSUME IInv, AInv, NEW i \in Index, TakeMessage(i) PROVE AInv'
<1>0. PICK p : p = Head(csq[i])
  OBVIOUS
<1>1. /\ csq[i] # <<>> /\ CsUnchanged /\ UNCHANGED <<unread, job, delivered>>
      /\ csq' = [csq EXCEPT ![i] = Tail(@)]
      /\ cs[i].pc = "idle"
      /\ cs' = [cs EXCEPT ![i] = IF Live(p[1]) /\ ~mem[p[1]].m_bRelease
                                 THEN [pc |-> "recv", ptr |-> p] ELSE CsIdle]
  BY <1>0 DEF TakeMessage, CsPc
<1>2. /\ OnePlaceInv' /\ BeforeInv' /\ SetUpInv' /\ SocketsInv' /\ JobsInv' /\ EarlyInv'
      /\ LiveAddrs' = LiveAddrs /\ TornAddrs' = TornAddrs
      /\ \A s : Registered(s)' = Registered(s)
  <2>1. ~NothingUnderWay
    BY <1>1 DEF NothingUnderWay
  <2>. QED  BY <1>1, <2>1, CsAlone
<1>3. UNCHANGED <<mem, eof, fdTable, interest, epReady, batch>>
  BY <1>1 DEF CsUnchanged, netVars
<1>4. /\ csq[i] \in Seq(Ptr) /\ csq'[i] = Tail(csq[i]) /\ \A j \in Index \ {i} : csq'[j] = csq[j]
      /\ cs'[i].pc \in {"recv", "idle"} /\ \A j \in Index \ {i} : cs'[j] = cs[j]
      /\ Live(p[1]) /\ ~mem[p[1]].m_bRelease => cs'[i].pc = "recv" /\ cs'[i].ptr = p
  <2>1. csq \in [Index -> Seq(Ptr)]
    BY DEF IInv, Types, QueueType
  <2>2. DOMAIN cs = Index
    BY DEF IInv, Types, CsType
  <2>. QED  BY <1>1, <2>1, <2>2 DEF CsIdle
<1>5. ReportInv'
  <2>. SUFFICES ASSUME NEW a \in LiveAddrs \ TornAddrs, NEW s \in Side,
                       Registered(s), HasInput(mem[a].sock[s])
                PROVE  Reported(a, s)'
    BY <1>1, <1>2, <1>3 DEF AInv, ReportInv, HasInput
  <2>1. Reported(a, s)
    BY DEF AInv, ReportInv
  <2>2. Elems(csq[i]) = {p} \cup Elems(csq'[i])
    BY <1>0, <1>1, <1>4, ElemsHead
  <2>3. CASE p = <<a, s>>
    <3>1. Live(p[1]) /\ ~mem[p[1]].m_bRelease
      BY <2>3 DEF LiveAddrs, AInv, SocketsInv
    <3>. QED  BY <1>4, <2>3, <3>1 DEF Reported
  <2>4. CASE p # <<a, s>>
    <3>1. \A j \in Index : <<a, s>> \in Elems(csq[j]) => <<a, s>> \in Elems(csq'[j])
      BY <1>4, <2>2, <2>4
    <3>2. \A j \in Index : cs[j].pc = "recv" => j # i
      BY <1>1
    <3>3. CASE \E j \in Index : cs[j].pc = "recv" /\ cs[j].ptr = <<a, s>>
      BY <1>4, <3>2, <3>3 DEF Reported
    <3>. QED  BY <1>3, <2>1, <3>1, <3>3 DEF Reported
  <2>. QED  BY <2>3, <2>4
<1>. QED  BY <1>2, <1>5 DEF AInv

\* The peer's close, or a buffer that is full, begins the tear-down, or the data
\* goes on.
LEMMA RecvAlone ==
  ASSUME IInv, AInv, NEW i \in Index, Recv(i) PROVE AInv'
<1>0. PICK p, a, s, f, e, new :
        /\ p = cs[i].ptr /\ a = p[1] /\ s = p[2] /\ f = mem[a].sock[s]
        /\ e = IF f = -1 THEN Closed ELSE fdTable[f]
        /\ new = [pc |-> "route", ptr |-> p, from |-> unread \cap {e},
                  for |-> <<mem[p[1]].conn, p[2]>>]
  OBVIOUS
<1>1. /\ cs[i].pc = "recv" /\ Live(a) /\ job[CsThread(i)].ops = <<>> /\ CsUnchanged
      /\ UNCHANGED <<csq, delivered>> /\ unread' \subseteq unread
      /\ \/ /\ job' = [job EXCEPT ![CsThread(i)] = [addr |-> a, ops |-> OnPeerClose(s)]]
            /\ cs' = [cs EXCEPT ![i] = CsIdle]
         \/ /\ e # Closed /\ e \notin eof /\ unread' = unread \ {e}
            /\ cs' = [cs EXCEPT ![i] = new] /\ new.pc = "route"
            /\ UNCHANGED job
  <2>. DEFINE p0 == cs[i].ptr
              a0 == CsAddr(i)
              f0 == mem[a0].sock[p0[2]]
              e0 == IF f0 = -1 THEN Closed ELSE fdTable[f0]
              n0 == [pc |-> "route", ptr |-> p0, from |-> unread \cap {e0},
                     for |-> <<mem[p0[1]].conn, p0[2]>>]
  <2>1. /\ cs[i].pc = "recv" /\ Live(a0) /\ job[CsThread(i)].ops = <<>> /\ CsUnchanged
        /\ UNCHANGED <<csq, delivered>> /\ unread' \in {unread, unread \ {e0}}
        /\ \/ /\ job' = [job EXCEPT ![CsThread(i)] = [addr |-> a0, ops |-> OnPeerClose(p0[2])]]
              /\ cs' = [cs EXCEPT ![i] = CsIdle]
           \/ /\ e0 # Closed /\ e0 \notin eof /\ unread' = unread \ {e0}
              /\ cs' = [cs EXCEPT ![i] = n0] /\ UNCHANGED job
    BY RecvDoes, Zenon
  <2>2. p0 = p /\ a0 = a /\ p0[2] = s /\ e0 = e /\ n0 = new /\ n0.pc = "route"
    BY <1>0 DEF CsAddr
  <2>. HIDE DEF p0, a0, f0, e0, n0
  <2>. QED  BY <2>1, <2>2
<1>2. p \in Ptr /\ s \in Side /\ a \in Addr /\ CsThread(i) \in Agent /\ p = <<a, s>>
  <2>1. cs[i].ptr \in Ptr
    BY <1>1, CsFacts DEF IInv, Types
  <2>2. p \in Addr \X Side /\ p = <<p[1], p[2]>>
    BY <1>0, <2>1 DEF Ptr
  <2>. QED  BY <1>0, <2>2 DEF Agent, Ptr
<1>3. a \in LiveAddrs /\ \A b \in LiveAddrs : b = a
  BY <1>1, <1>2 DEF LiveAddrs, AInv, OnePlaceInv
<1>4. ~NothingUnderWay
  BY <1>1 DEF NothingUnderWay
<1>5. ~NotYetMade /\ (early = {} => SetUpThreads = {})
  BY <1>4, UnderWay
<1>6. UNCHANGED <<arrived, eof, early, fdTable, interest, epReady, batch, mem, acceptq, acc, sweep,
                  m_setProxyManager, leaked, csq, delivered>>
  BY <1>1 DEF CsUnchanged, netVars, setVars
<1>7. DOMAIN cs = Index
  BY DEF IInv, Types, CsType
<1>8. CASE /\ job' = [job EXCEPT ![CsThread(i)] = [addr |-> a, ops |-> OnPeerClose(s)]]
           /\ cs' = [cs EXCEPT ![i] = CsIdle]
  <2>. DEFINE ops == OnPeerClose(s)
  <2>1. /\ Whole(ops) /\ <<"erase", s>> \in Elems(ops)
        /\ ops \in {OnIdle, OnFailedInit, Delete} \cup {OnPeerClose(r) : r \in Side}
    BY <1>2, AllAreWhole
  <2>2. job' = [job EXCEPT ![CsThread(i)] = [addr |-> a, ops |-> ops]]
    BY <1>8
  <2>. HIDE DEF ops
  <2>3. JobsInv' /\ a \in TornAddrs'
    <3>1. UNCHANGED fdTable /\ JobsInv /\ JobInv
      BY <1>6 DEF AInv, IInv, Types
    <3>2. JobsInv'
      BY <1>2, <2>1, <2>2, <3>1, StartAlone
    <3>3. a \in TornAddrs'
      BY <1>1, <1>2, <2>1, <2>2, <3>1, StartJob
    <3>. QED  BY <3>2, <3>3
  <2>4. /\ LiveAddrs' = LiveAddrs /\ NotYetMade' = NotYetMade /\ SetUpThreads' = SetUpThreads
    BY <1>6, SamePlaces, SameHeap
  <2>5. OnePlaceInv' /\ BeforeInv' /\ SetUpInv' /\ SocketsInv'
    BY <1>5, <1>6, AloneFrames
  <2>6. EarlyInv'
    <3>1. /\ job'[CsThread(i)].ops = ops
          /\ \A t \in Agent \ {CsThread(i)} : job'[t] = job[t]
      BY <1>2, <2>2 DEF IInv, Types, JobInv
    <3>. QED  BY <1>2, <1>5, <1>6, <2>1, <2>4, <3>1 DEF AInv, EarlyInv
  <2>7. ReportInv'
    BY <1>3, <2>3, <2>4 DEF ReportInv
  <2>. QED  BY <2>3, <2>5, <2>6, <2>7 DEF AInv
<1>9. CASE /\ e # Closed /\ e \notin eof /\ unread' = unread \ {e}
           /\ cs' = [cs EXCEPT ![i] = new] /\ new.pc = "route"
           /\ UNCHANGED job
  <2>1. /\ OnePlaceInv' /\ BeforeInv' /\ SetUpInv' /\ SocketsInv' /\ JobsInv' /\ EarlyInv'
        /\ LiveAddrs' = LiveAddrs /\ TornAddrs' = TornAddrs
        /\ \A r : Registered(r)' = Registered(r)
    BY <1>1, <1>4, <1>9, CsAlone
  <2>2. f # -1 /\ e = fdTable[f]
    BY <1>0, <1>9
  <2>3. \A j \in Index \ {i} : cs'[j] = cs[j]
    BY <1>7, <1>9
  <2>4. ReportInv'
    <3>. SUFFICES ASSUME a \notin TornAddrs, NEW r \in Side, Registered(r),
                         HasInput(mem[a].sock[r])'
                  PROVE  Reported(a, r)'
      BY <1>3, <1>6, <2>1 DEF AInv, ReportInv
    <3>1. HasInput(mem[a].sock[r])
      BY <1>1, <1>6 DEF HasInput
    <3>2. Reported(a, r)
      BY <1>3, <3>1 DEF AInv, ReportInv
    <3>3. r # s
      BY <1>0, <1>6, <1>9, <2>2 DEF HasInput
    <3>4. \A j \in Index : cs[j].pc = "recv" /\ cs[j].ptr = <<a, r>> => j # i
      <4>1. cs[i].ptr = <<a, s>>
        BY <1>0, <1>2
      <4>2. <<a, r>> # <<a, s>>
        BY <3>3
      <4>. QED  BY <4>1, <4>2
    <3>5. CASE \E j \in Index : cs[j].pc = "recv" /\ cs[j].ptr = <<a, r>>
      BY <2>3, <3>4, <3>5 DEF Reported
    <3>. QED  BY <1>6, <3>2, <3>5 DEF Reported
  <2>. QED  BY <2>1, <2>4 DEF AInv
<1>. QED  BY <1>1, <1>8, <1>9

\* A thread past its recv holds no report.
LEMMA PastRecv ==
  ASSUME IInv, AInv, NEW i \in Index, cs[i].pc \in {"route", "send"}, CsUnchanged,
         UNCHANGED <<unread, csq, job>>, NEW new, cs' = [cs EXCEPT ![i] = new]
  PROVE  ReportInv'
<1>1. UNCHANGED <<mem, acc, fdTable, interest, epReady, batch, csq, job, unread, eof>>
  BY DEF CsUnchanged, netVars
<1>2. /\ LiveAddrs' = LiveAddrs /\ TornAddrs' = TornAddrs
      /\ \A s : Registered(s)' = Registered(s) /\ \A f : HasInput(f)' = HasInput(f)
  BY <1>1, SameHeap DEF Registered, SetUpThreads, HasInput
<1>3. ASSUME NEW a, NEW s, Reported(a, s) PROVE Reported(a, s)'
  <2>1. \A j \in Index : cs[j].pc = "recv" => cs'[j] = cs[j]
    BY DEF IInv, Types, CsType
  <2>. QED  BY <1>1, <1>3, <2>1 DEF Reported
<1>. QED  BY <1>1, <1>2, <1>3 DEF AInv, ReportInv

\* The number of the other side is copied, and used: neither is a report.
LEMMA PastRecvAlone ==
  ASSUME IInv, AInv, NEW i \in Index, Route(i) \/ Send(i) PROVE AInv'
<1>1. /\ cs[i].pc \in {"route", "send"} /\ CsUnchanged /\ UNCHANGED <<unread, csq, job>>
      /\ \E new : cs' = [cs EXCEPT ![i] = new]
  BY DEF Route, Send, CsPc
<1>2. /\ OnePlaceInv' /\ BeforeInv' /\ SetUpInv' /\ SocketsInv' /\ JobsInv' /\ EarlyInv'
  <2>1. ~NothingUnderWay
    BY <1>1 DEF NothingUnderWay
  <2>. QED  BY <1>1, <2>1, CsAlone
<1>3. ReportInv'
  BY <1>1, PastRecv
<1>. QED  BY <1>2, <1>3 DEF AInv

-----------------------------------------------------------------------------
\* The sweep takes the mutex and looks at the set, or lets go of it.
LEMMA SweepTurnAlone ==
  ASSUME IInv, AInv, BeginSweep \/ EndSweep PROVE AInv'
<1>1. /\ UNCHANGED <<netVars, kernelVars, batch, mem, idle, queueVars, acc, cs, ghostVars, job,
                     m_setProxyManager>>
      /\ sweep'.left \in {m_setProxyManager, sweep.left}
  <2>1. CASE BeginSweep
    BY <2>1 DEF BeginSweep, SweepUnchanged
  <2>2. CASE EndSweep
    <3>1. sweep \in [pc : {"idle", "scan"}, left : SUBSET Addr]
      BY DEF IInv, Types, SweepType
    <3>. QED  BY <2>2, <3>1 DEF EndSweep, SweepUnchanged
  <2>. QED  BY <2>1, <2>2
<1>. USE <1>1 DEF netVars, kernelVars, queueVars, ghostVars
<1>2. /\ OnePlaceInv' /\ SocketsInv' /\ JobsInv'
  BY AloneFrames
<1>3. EarlyInv' /\ ReportInv'
  BY MoreFrames
<1>4. LiveAddrs' = LiveAddrs /\ NotYetMade' = NotYetMade /\ SetUpThreads' = SetUpThreads
      /\ NothingUnderWay' = NothingUnderWay
  BY SamePlaces, SameHeap DEF NothingUnderWay
<1>5. BeforeInv' /\ SetUpInv'
  BY <1>4 DEF AInv, BeforeInv, SetUpInv
<1>. QED  BY <1>2, <1>3, <1>5 DEF AInv

\* An idle manager passes to the sweep, and leaves the set first.
LEMMA VisitAlone ==
  ASSUME IInv, AInv, NEW a \in Addr, Visit(a) PROVE AInv'
<1>1. /\ a \in sweep.left /\ sweep'.left = sweep.left \ {a} /\ job[SweepThread].ops = <<>>
      /\ UNCHANGED <<netVars, kernelVars, batch, mem, idle, queueVars, acc, cs, ghostVars>>
      /\ \/ /\ Live(a) /\ m_setProxyManager' = m_setProxyManager \ {a}
            /\ job' = [job EXCEPT ![SweepThread] = [addr |-> a, ops |-> OnIdle]]
         \/ UNCHANGED <<m_setProxyManager, job>>
  <2>1. sweep \in [pc : {"idle", "scan"}, left : SUBSET Addr]
    BY DEF IInv, Types, SweepType
  <2>2. sweep'.left = sweep.left \ {a}
    BY <2>1 DEF Visit
  <2>. QED  BY <2>2 DEF Visit, SweepPc, SweepUnchanged
<1>. USE <1>1 DEF netVars, kernelVars, queueVars, ghostVars
<1>2. ~NotYetMade /\ SetUpThreads = {}
  BY DEF AInv, BeforeInv, SetUpInv
<1>3. OnePlaceInv' /\ SocketsInv' /\ BeforeInv'
  BY <1>2, AloneFrames
<1>4. LiveAddrs' = LiveAddrs /\ NotYetMade' = NotYetMade /\ SetUpThreads' = SetUpThreads
  BY SamePlaces, SameHeap
<1>5. SetUpInv'
  BY <1>2, <1>4 DEF SetUpInv
<1>6. CASE UNCHANGED <<m_setProxyManager, job>>
  <2>1. JobsInv'
    BY <1>6, AloneFrames
  <2>2. EarlyInv' /\ ReportInv'
    BY <1>6, MoreFrames
  <2>. QED  BY <1>3, <1>5, <2>1, <2>2 DEF AInv
<1>7. CASE /\ Live(a) /\ m_setProxyManager' = m_setProxyManager \ {a}
           /\ job' = [job EXCEPT ![SweepThread] = [addr |-> a, ops |-> OnIdle]]
  <2>. DEFINE ops == OnIdle
  <2>1. Whole(ops) /\ ops \in {OnIdle, OnFailedInit, Delete} \cup {OnPeerClose(r) : r \in Side}
    BY AllAreWhole
  <2>2. job' = [job EXCEPT ![SweepThread] = [addr |-> a, ops |-> ops]]
    BY <1>7
  <2>3. SweepThread \in Agent /\ JobInv /\ JobsInv /\ UNCHANGED fdTable
    BY DEF Agent, IInv, Types, AInv
  <2>. HIDE DEF ops
  <2>4. JobsInv'
    BY <2>1, <2>2, <2>3, StartAlone
  <2>5. a \in TornAddrs'
    BY <1>1, <2>1, <2>2, <2>3, StartJob
  <2>6. ReportInv'
    <3>1. \A b \in LiveAddrs : b = a
      BY <1>7 DEF LiveAddrs, AInv, OnePlaceInv
    <3>. QED  BY <1>4, <2>5, <3>1 DEF ReportInv
  <2>7. EarlyInv'
    <3>1. job'[SweepThread].addr = a /\ \A t \in Agent \ {SweepThread} : job'[t] = job[t]
      BY <2>2, <2>3 DEF JobInv
    <3>. QED  BY <1>2, <1>4, <1>7, <3>1 DEF AInv, EarlyInv
  <2>. QED  BY <1>3, <1>5, <2>4, <2>6, <2>7 DEF AInv
<1>. QED  BY <1>1, <1>6, <1>7

-----------------------------------------------------------------------------
(***************************************************************************)
(* Tearing down.                                                           *)
(***************************************************************************)

\* What is left of a tear-down after its k-th statement.
LEMMA ElemsRest ==
  ASSUME NEW ops \in Seq(Op), NEW k \in 1 .. Len(ops), NEW rest,
         rest = SubSeq(ops, k + 1, Len(ops))
  PROVE  /\ Elems(rest) \subseteq Elems(ops)
         /\ \A m \in 1 .. Len(ops) : m > k => ops[m] \in Elems(rest)
         /\ FreeIsLast(ops) => /\ FreeIsLast(rest)
                               /\ ops[k][1] = "free" => rest = <<>>
         /\ (\A m \in 1 .. Len(ops) : ops[m][1] = "clear" => m = 1) =>
              \A x \in Elems(rest) : x[1] # "clear"
<1>. DEFINE n == Len(ops)
<1>1. n \in Nat /\ k \in Nat /\ k + 1 \in Int /\ n \in Int /\ k <= n /\ k >= 1
  OBVIOUS
<1>2. \A i \in k + 1 .. n : ops[i] \in Op
  <2>1. \A i \in 1 .. n : ops[i] \in Op
    BY ElementOfSeq
  <2>. QED  BY <1>1, <2>1
<1>. HIDE DEF n
<1>3. /\ rest \in Seq(Op)
      /\ Len(rest) = IF k + 1 <= n THEN n - (k + 1) + 1 ELSE 0
      /\ \A i \in 1 .. n - (k + 1) + 1 : rest[i] = ops[k + 1 + i - 1]
  BY <1>1, <1>2, SubSeqProperties DEF n
<1>4. Len(rest) = n - k /\ \A i \in 1 .. n - k : rest[i] = ops[k + i] /\ k + i \in 1 .. n
  BY <1>1, <1>3
<1>5. Elems(rest) \subseteq Elems(ops)
  BY <1>4 DEF Elems, n
<1>6. ASSUME NEW m \in 1 .. Len(ops), m > k PROVE ops[m] \in Elems(rest)
  <2>1. m - k \in 1 .. n - k /\ k + (m - k) = m
    BY <1>1, <1>6 DEF n
  <2>2. ops[m] = rest[m - k]
    BY <1>4, <2>1
  <2>. QED  BY <1>4, <2>1, <2>2 DEF Elems
<1>7. ASSUME FreeIsLast(ops)
      PROVE  FreeIsLast(rest) /\ (ops[k][1] = "free" => rest = <<>>)
  <2>1. ASSUME NEW i \in 1 .. Len(rest), rest[i][1] = "free" PROVE i = Len(rest)
    <3>1. i \in 1 .. n - k /\ ops[k + i][1] = "free" /\ k + i \in 1 .. n
      BY <1>4, <2>1
    <3>2. k + i = n
      BY <1>7, <3>1 DEF FreeIsLast, n
    <3>. QED  BY <1>1, <1>4, <3>1, <3>2
  <2>2. ASSUME ops[k][1] = "free" PROVE rest = <<>>
    <3>1. k = n
      BY <1>7, <2>2 DEF FreeIsLast, n
    <3>2. Len(rest) = 0
      BY <1>1, <1>4, <3>1
    <3>. QED  BY <1>3, <3>2, EmptySeq
  <2>. QED  BY <2>1, <2>2 DEF FreeIsLast
<1>8. ASSUME \A m \in 1 .. Len(ops) : ops[m][1] = "clear" => m = 1, NEW x \in Elems(rest)
      PROVE  x[1] # "clear"
  <2>1. PICK i \in 1 .. Len(rest) : x = rest[i]
    BY DEF Elems
  <2>2. x = ops[k + i] /\ k + i \in 1 .. n /\ k + i # 1
    BY <1>1, <1>4, <2>1
  <2>. QED  BY <1>8, <2>2 DEF n
<1>. QED  BY <1>5, <1>6, <1>7, <1>8

\* A clear is only ever the first statement that is left.
ClearIsFirst(ops) == \A k \in 1 .. Len(ops) : ops[k][1] = "clear" => k = 1

\* What statement op of a tear-down of manager a does.
Does(a, op) ==
  LET s == op[2]
      f == mem[a].sock[s]
  IN  \/ /\ op[1] = "unregister" /\ Unregister(f)
         /\ UNCHANGED <<mem, m_setProxyManager>>
      \/ /\ op[1] = "close" /\ CloseFd(f)
         /\ UNCHANGED <<mem, m_setProxyManager>>
      \/ /\ op[1] = "clear" /\ mem' = [mem EXCEPT ![a].sock[s] = -1]
         /\ UNCHANGED <<kernelVars, m_setProxyManager>>
      \/ /\ op[1] = "erase" /\ m_setProxyManager' = m_setProxyManager \ {a}
         /\ UNCHANGED <<kernelVars, mem>>
      \/ /\ op[1] = "free" /\ mem' = [mem EXCEPT ![a] = Free]
         /\ UNCHANGED <<kernelVars, m_setProxyManager>>

\* A step of a tear-down does one statement, passes some over, and leaves the others; a
\* close is followed by its clear.
LEMMA TearOps ==
  ASSUME IInv, NEW t \in Agent, TearStep(t)
  PROVE  \E a \in Addr, op \in Op, more \in Seq(Op) :
           /\ a = job[t].addr /\ job[t].ops # <<>> /\ Live(a) /\ mem[a] \in Manager
           /\ ~Passed(a, op) /\ op \in Elems(job[t].ops)
           /\ Elems(more) \subseteq
                Elems(job[t].ops) \cup {x \in Op : x = <<"clear", op[2]>> /\ op[1] = "close"}
           /\ \A x \in Elems(job[t].ops) : Passed(a, x) \/ x = op \/ x \in Elems(more)
           /\ FreeIsLast(job[t].ops) => /\ FreeIsLast(more)
                                        /\ op[1] = "free" => more = <<>>
           /\ op[1] # "free" => more # <<>>
           /\ op[1] = "close" => <<"clear", op[2]>> \in Elems(more)
           /\ ClearIsFirst(job[t].ops) =>
                /\ ClearIsFirst(more)
                /\ \A x \in Elems(job[t].ops) : x[1] = "clear" => op = x
                /\ \A x \in Elems(more) : x[1] = "clear" => op[1] = "close" /\ x[2] = op[2]
           /\ job'[t].ops = more /\ (more # <<>> => job'[t].addr = a)
           /\ \A u \in Agent \ {t} : job'[u] = job[u]
           /\ Does(a, op) /\ JobUnchanged
<1>. DEFINE ops  == job[t].ops
            a    == job[t].addr
            k    == NextOp(t)
            op   == ops[k]
            s    == op[2]
            f    == mem[a].sock[s]
            rest == SubSeq(ops, k + 1, Len(ops))
            more == IF op[1] = "close" THEN AfterClose(s) \o rest ELSE rest
            JobOf(q) == IF q = <<>> THEN NoJob ELSE [addr |-> a, ops |-> q]
<1>1. ops # <<>> /\ Live(a) /\ JobUnchanged
  BY DEF TearStep
<1>2. /\ a \in Addr /\ ops \in Seq(Op) /\ EndsInFree(ops)
      /\ k \in 1 .. Len(ops) /\ op \in Op /\ ~Passed(a, op)
      /\ \A j \in 1 .. Len(ops) : j < k => Passed(a, ops[j])
  BY <1>1, NextOpFact DEF IInv, Types
<1>3. mem[a] \in Manager /\ s \in Side
  BY <1>1, <1>2 DEF Live, IInv, Types, HeapType, Op
<1>4. rest \in Seq(Op) /\ (rest = <<>> => op[1] = "free")
  BY <1>2, RestFact
<1>5. /\ Elems(rest) \subseteq Elems(ops)
      /\ \A m \in 1 .. Len(ops) : m > k => ops[m] \in Elems(rest)
      /\ FreeIsLast(ops) => FreeIsLast(rest) /\ (op[1] = "free" => rest = <<>>)
      /\ ClearIsFirst(ops) => \A x \in Elems(rest) : x[1] # "clear"
  <2>. HIDE DEF ops, k
  <2>. QED  BY <1>2, ElemsRest DEF ClearIsFirst
<1>6. job' = [job EXCEPT ![t] = JobOf(more)] /\ Does(a, op)
  BY DEF TearStep, Does
<1>7. AfterClose(s) \in Seq(Op) /\ Elems(AfterClose(s)) = {<<"clear", s>>} /\ <<"clear", s>> \in Op
  <2>1. <<"clear", s>> \in Op
    BY <1>3 DEF Op
  <2>2. AfterClose(s) = << <<"clear", s>> >> /\ Len(AfterClose(s)) = 1
    BY DEF AfterClose
  <2>3. AfterClose(s)[1] = <<"clear", s>>
    BY <2>2
  <2>4. 1 .. 1 = {1}
    OBVIOUS
  <2>. QED  BY <2>1, <2>2, <2>3, <2>4 DEF Elems
<1>8. /\ op \in Elems(ops)
      /\ \A x \in Elems(ops) : Passed(a, x) \/ x = op \/ x \in Elems(rest)
  <2>1. op \in Elems(ops)
    <3>. HIDE DEF k
    <3>. QED  BY <1>2 DEF Elems
  <2>2. ASSUME NEW x \in Elems(ops) PROVE Passed(a, x) \/ x = op \/ x \in Elems(rest)
    <3>1. PICK m \in 1 .. Len(ops) : x = ops[m]
      BY DEF Elems
    <3>2. m < k \/ m = k \/ m > k
      BY <1>2
    <3>. HIDE DEF k, ops, rest
    <3>3. CASE m < k
      BY <1>2, <3>1, <3>3
    <3>4. CASE m = k
      BY <3>1, <3>4
    <3>5. CASE m > k
      BY <1>5, <3>1, <3>5
    <3>. QED  BY <3>2, <3>3, <3>4, <3>5
  <2>. QED  BY <2>1, <2>2
<1>9. JobInv /\ NoJob.ops = <<>>
  BY DEF IInv, Types, NoJob
<1>10. ASSUME ClearIsFirst(ops), NEW x \in Elems(ops), x[1] = "clear" PROVE op = x
  <2>. HIDE DEF ops, k, op
  <2>1. PICK m \in 1 .. Len(ops) : x = ops[m]
    BY DEF Elems
  <2>2. m = 1 /\ ~Passed(a, x)
    BY <1>10, <2>1 DEF ClearIsFirst, Passed
  <2>3. ~(m < k)
    BY <1>2, <2>1, <2>2
  <2>4. m = k
    BY <1>2, <2>1, <2>2, <2>3
  <2>. QED  BY <2>1, <2>4 DEF op
<1>. HIDE DEF ops, a, k, op, s, f, rest
<1>11. /\ more \in Seq(Op) /\ (op[1] # "free" => more # <<>>)
       /\ Elems(more) \subseteq Elems(ops) \cup {x \in Op : x = <<"clear", s>> /\ op[1] = "close"}
       /\ Elems(rest) \subseteq Elems(more)
       /\ FreeIsLast(ops) => FreeIsLast(more) /\ (op[1] = "free" => more = <<>>)
       /\ op[1] = "close" => <<"clear", s>> \in Elems(more)
       /\ ClearIsFirst(ops) =>
            /\ ClearIsFirst(more)
            /\ \A x \in Elems(more) : x[1] = "clear" => op[1] = "close" /\ x[2] = s
  <2>1. CASE op[1] # "close"
    <3>1. ASSUME ClearIsFirst(ops) PROVE ClearIsFirst(rest)
      BY <1>5, <3>1 DEF ClearIsFirst, Elems
    <3>. QED  BY <1>4, <1>5, <2>1, <3>1
  <2>2. CASE op[1] = "close"
    <3>1. more = AfterClose(s) \o rest /\ rest # <<>>
      BY <1>4, <2>2
    <3>2. more \in Seq(Op) /\ more # <<>>
      BY <1>4, <1>7, <3>1, ConcatOps
    <3>3. Elems(more) = Elems(AfterClose(s)) \cup Elems(rest)
      BY <1>4, <1>7, <3>1, ElemsConcat
    <3>4. \A x \in Elems(AfterClose(s)) : x[1] # "free"
      BY <1>7
    <3>5. FreeIsLast(rest) => FreeIsLast(more)
      BY <1>4, <1>7, <3>1, <3>4, ElemsConcat
    <3>6. \A x \in Elems(more) : x \in Elems(ops) \/ (x = <<"clear", s>> /\ x \in Op)
      BY <1>5, <1>7, <3>3
    <3>7. ASSUME ClearIsFirst(ops)
          PROVE  /\ ClearIsFirst(more)
                 /\ \A x \in Elems(more) : x[1] = "clear" => x[2] = s
      <4>1. \A x \in Elems(more) : x[1] = "clear" => x[2] = s
        BY <1>5, <1>7, <3>3, <3>7
      <4>2. Len(AfterClose(s)) = 1
        BY DEF AfterClose
      <4>3. \A m \in 1 .. Len(more) : m = 1 \/ (m - 1 \in 1 .. Len(rest) /\ more[m] = rest[m - 1])
        <5>1. /\ Len(rest) \in Nat /\ Len(more) = 1 + Len(rest)
              /\ \A m \in 1 .. 1 + Len(rest) :
                   more[m] = IF m <= 1 THEN AfterClose(s)[m] ELSE rest[m - 1]
          <6>1. PICK p \in Seq(Op), q \in Seq(Op) : p = AfterClose(s) /\ q = rest
            BY <1>4, <1>7
          <6>2. more = p \o q /\ Len(p) = 1
            BY <3>1, <4>2, <6>1
          <6>3. /\ Len(p \o q) = Len(p) + Len(q)
                /\ \A m \in 1 .. Len(p) + Len(q) :
                     (p \o q)[m] = IF m <= Len(p) THEN p[m] ELSE q[m - Len(p)]
            BY ConcatProperties
          <6>4. Len(q) \in Nat
            OBVIOUS
          <6>. HIDE DEF more
          <6>5. \A m \in 1 .. 1 + Len(q) : more[m] = IF m <= 1 THEN p[m] ELSE q[m - 1]
            BY <6>2, <6>3, <6>4
          <6>. QED  BY <6>1, <6>2, <6>3, <6>4, <6>5
        <5>. QED  BY <5>1
      <4>4. \A m \in 1 .. Len(rest) : rest[m][1] # "clear"
        BY <1>5, <3>7 DEF Elems
      <4>. HIDE DEF more
      <4>5. ClearIsFirst(more)
        BY <4>3, <4>4 DEF ClearIsFirst
      <4>. QED  BY <4>1, <4>5
    <3>8. <<"clear", s>> \in Elems(more)
      BY <1>7, <3>3
    <3>. HIDE DEF more
    <3>. QED  BY <1>5, <2>2, <3>2, <3>3, <3>5, <3>6, <3>7, <3>8
  <2>. QED  BY <2>1, <2>2
<1>. HIDE DEF more
<1>12. /\ job'[t] = JobOf(more) /\ \A u \in Agent \ {t} : job'[u] = job[u]
  BY <1>6, <1>9 DEF JobInv
<1>13. job'[t].ops = more /\ (more # <<>> => job'[t].addr = a)
  BY <1>9, <1>12
<1>14. \A x \in Elems(ops) : Passed(a, x) \/ x = op \/ x \in Elems(more)
  BY <1>8, <1>11
<1>. HIDE DEF JobOf
<1>15. a = job[t].addr /\ ops = job[t].ops /\ s = op[2]
  BY DEF a, ops, s
<1>. QED  BY <1>1, <1>2, <1>3, <1>6, <1>8, <1>11, <1>12, <1>13, <1>14, <1>15, <1>10

\* A statement of a tear-down: what it leaves of the manager and of the descriptors.
LEMMA DoesHeap ==
  ASSUME IInv, AInv, NEW a \in LiveAddrs, NEW op \in Op, Does(a, op), ~Passed(a, op),
         op[1] = "clear" => NotOpen(op[2])
  PROVE  /\ LiveAddrs' = IF op[1] = "free" THEN {} ELSE {a}
         /\ m_setProxyManager' = IF op[1] = "erase" THEN m_setProxyManager \ {a}
                                                    ELSE m_setProxyManager
         /\ \A f \in Fd : fdTable'[f] \in {fdTable[f], Closed}
         /\ \A s : NotOpen(s) => NotOpen(s)'
         /\ op[1] = "close" => NotOpen(op[2])'
         /\ op[1] # "free" =>
              /\ mem'[a].m_bRelease = FALSE
              /\ mem'[a].sock["client"] # mem'[a].sock["server"] \/ mem'[a].sock["client"] = -1
              /\ \A f \in Fd : fdTable'[f] # Closed => f = mem'[a].sock[fdTable'[f][2]]
              /\ \A s \in Side : mem'[a].sock[s] = -1 => NotOpen(s)'
<1>1. PICK s, f : s = op[2] /\ f = mem[a].sock[s]
  OBVIOUS
<1>2. s \in Side /\ op[1] \in {"unregister", "close", "clear", "erase", "free"}
  BY <1>1 DEF Op
<1>3. a \in Addr /\ mem[a] \in Manager /\ mem[a] # Free /\ \A b \in LiveAddrs : b = a
  BY DEF LiveAddrs, Live, IInv, Types, HeapType, AInv, OnePlaceInv
<1>4. f \in Fd \cup {-1} /\ (op[1] = "close" => f \in Fd)
  BY <1>1, <1>2, <1>3 DEF Manager, Passed
<1>5. /\ mem \in [Addr -> Manager \cup {Free}] /\ fdTable \in [Fd -> End \cup {Closed}]
  BY DEF IInv, Types, HeapType, KernelType
<1>6. /\ op[1] = "close" => fdTable' = [fdTable EXCEPT ![f] = Closed]
      /\ op[1] # "close" => UNCHANGED fdTable
      /\ op[1] = "clear" => mem' = [mem EXCEPT ![a].sock[s] = -1]
      /\ op[1] = "free" => mem' = [mem EXCEPT ![a] = Free]
      /\ op[1] \notin {"clear", "free"} => UNCHANGED mem
      /\ op[1] = "erase" => m_setProxyManager' = m_setProxyManager \ {a}
      /\ op[1] # "erase" => UNCHANGED m_setProxyManager
  BY <1>1, <1>2 DEF Does, Unregister, CloseFd, kernelVars
<1>7. /\ mem[a].m_bRelease = FALSE
      /\ mem[a].sock["client"] # mem[a].sock["server"] \/ mem[a].sock["client"] = -1
      /\ \A g \in Fd : fdTable[g] # Closed => g = mem[a].sock[fdTable[g][2]]
      /\ \A r \in Side : mem[a].sock[r] = -1 => NotOpen(r)
  BY DEF AInv, SocketsInv
<1>8. \A g \in Fd : fdTable'[g] \in {fdTable[g], Closed}
  BY <1>4, <1>5, <1>6
<1>9. \A r : NotOpen(r) => NotOpen(r)'
  BY <1>8 DEF NotOpen
<1>10. op[1] = "close" => NotOpen(s)'
  <2>. SUFFICES ASSUME op[1] = "close", NEW g \in Fd, fdTable'[g] # Closed PROVE fdTable'[g][2] # s
    BY DEF NotOpen
  <2>1. g # f /\ fdTable'[g] = fdTable[g]
    BY <1>4, <1>5, <1>6
  <2>. QED  BY <1>1, <1>7, <2>1
<1>11. LiveAddrs' = IF op[1] = "free" THEN {} ELSE {a}
  <2>1. \A b \in Addr \ {a} : mem'[b] = mem[b] /\ mem[b] = Free
    BY <1>3, <1>5, <1>6 DEF LiveAddrs, Live
  <2>2. op[1] = "free" => mem'[a] = Free
    BY <1>3, <1>5, <1>6
  <2>3. op[1] # "free" => mem'[a] # Free
    <3>1. CASE op[1] = "clear"
      <4>1. mem'[a] = [mem[a] EXCEPT !.sock = [mem[a].sock EXCEPT ![s] = -1]]
        BY <1>3, <1>5, <1>6, <3>1
      <4>2. mem'[a] \in Manager
        BY <1>2, <1>3, <4>1 DEF Manager
      <4>. QED  BY <4>2, ValueAssumption
    <3>. QED  BY <1>3, <1>6, <3>1
  <2>. QED  BY <1>3, <2>1, <2>2, <2>3 DEF LiveAddrs, Live
<1>12. ASSUME op[1] # "free"
       PROVE  /\ mem'[a].m_bRelease = FALSE
              /\ mem'[a].sock["client"] # mem'[a].sock["server"] \/ mem'[a].sock["client"] = -1
              /\ \A g \in Fd : fdTable'[g] # Closed => g = mem'[a].sock[fdTable'[g][2]]
              /\ \A r \in Side : mem'[a].sock[r] = -1 => NotOpen(r)'
  <2>1. CASE op[1] # "clear"
    <3>1. UNCHANGED mem
      BY <1>6, <1>12, <2>1
    <3>. QED  BY <1>7, <1>8, <1>9, <3>1
  <2>2. CASE op[1] = "clear"
    <3>1. mem'[a] = [mem[a] EXCEPT !.sock = [mem[a].sock EXCEPT ![s] = -1]] /\ UNCHANGED fdTable
      BY <1>3, <1>5, <1>6, <2>2
    <3>2. /\ mem'[a].m_bRelease = mem[a].m_bRelease /\ mem'[a].sock[s] = -1
          /\ \A r \in Side \ {s} : mem'[a].sock[r] = mem[a].sock[r]
      BY <1>2, <1>3, <3>1 DEF Manager
    <3>3. NotOpen(s) /\ NotOpen(s)'
      BY <1>1, <1>9, <2>2
    <3>4. ASSUME NEW g \in Fd, fdTable[g] # Closed PROVE g = mem'[a].sock[fdTable[g][2]]
      <4>1. fdTable[g][2] \in Side \ {s}
        BY <1>5, <3>3, <3>4 DEF NotOpen, End
      <4>. QED  BY <1>7, <3>2, <3>4, <4>1
    <3>5. \A r \in Side : mem'[a].sock[r] = -1 => NotOpen(r)'
      BY <1>7, <1>9, <3>2, <3>3
    <3>6. mem'[a].sock["client"] # mem'[a].sock["server"] \/ mem'[a].sock["client"] = -1
      BY <1>2, <1>7, <3>2 DEF Side
    <3>. QED  BY <1>7, <3>1, <3>2, <3>4, <3>5, <3>6
  <2>. QED  BY <2>1, <2>2
<1>. QED  BY <1>1, <1>6, <1>8, <1>9, <1>10, <1>11, <1>12

\* A tear-down closes what it clears and has closed everything when it deletes.
LEMMA TearAlone ==
  ASSUME IInv, AInv, NEW t \in Agent, TearStep(t) PROVE AInv'
<1>1. PICK a \in Addr, op \in Op, more \in Seq(Op) :
           /\ a = job[t].addr /\ job[t].ops # <<>> /\ Live(a) /\ mem[a] \in Manager
           /\ ~Passed(a, op) /\ op \in Elems(job[t].ops)
           /\ Elems(more) \subseteq
                Elems(job[t].ops) \cup {x \in Op : x = <<"clear", op[2]>> /\ op[1] = "close"}
           /\ \A x \in Elems(job[t].ops) : Passed(a, x) \/ x = op \/ x \in Elems(more)
           /\ FreeIsLast(job[t].ops) => /\ FreeIsLast(more)
                                        /\ op[1] = "free" => more = <<>>
           /\ op[1] # "free" => more # <<>>
           /\ op[1] = "close" => <<"clear", op[2]>> \in Elems(more)
           /\ ClearIsFirst(job[t].ops) =>
                /\ ClearIsFirst(more)
                /\ \A x \in Elems(job[t].ops) : x[1] = "clear" => op = x
                /\ \A x \in Elems(more) : x[1] = "clear" => op[1] = "close" /\ x[2] = op[2]
           /\ job'[t].ops = more /\ (more # <<>> => job'[t].addr = a)
           /\ \A u \in Agent \ {t} : job'[u] = job[u]
           /\ Does(a, op) /\ JobUnchanged
  BY TearOps
<1>2. PICK ops, s : ops = job[t].ops /\ s = op[2]
  OBVIOUS
<1>3. a \in LiveAddrs /\ (\A b \in LiveAddrs : b = a) /\ TearsAll(ops) /\ op = <<op[1], s>>
  BY <1>1, <1>2 DEF LiveAddrs, AInv, OnePlaceInv, JobsInv, Op
<1>4. ~NotYetMade /\ (early = {} => SetUpThreads = {})
  <2>1. ~NothingUnderWay
    BY <1>1 DEF NothingUnderWay
  <2>. QED  BY <2>1, UnderWay
<1>5. UNCHANGED <<arrived, early, eof, acceptq, acc, cs, sweep, delivered, leaked, batch, csq>>
  BY <1>1 DEF JobUnchanged, netVars, queueVars, ghostVars
<1>6. /\ NotYetMade' = NotYetMade /\ SetUpThreads' = SetUpThreads
      /\ \A i : WaitsAt(i)' = WaitsAt(i) /\ AtThread(i)' = AtThread(i)
  BY <1>5, SamePlaces
<1>7. op[1] = "clear" => NotOpen(s)
  <2>1. op \in Elems(ops)
    BY <1>1, <1>2
  <2>2. \A r \in Side : <<"clear", r>> \in Elems(ops) => NotOpen(r)
    BY <1>3 DEF TearsAll
  <2>3. s \in Side
    BY <1>2 DEF Op
  <2>. QED  BY <1>3, <2>1, <2>2, <2>3
<1>8. /\ LiveAddrs' = IF op[1] = "free" THEN {} ELSE {a}
      /\ m_setProxyManager' = IF op[1] = "erase" THEN m_setProxyManager \ {a}
                                                 ELSE m_setProxyManager
      /\ \A f \in Fd : fdTable'[f] \in {fdTable[f], Closed}
      /\ \A r : NotOpen(r) => NotOpen(r)'
      /\ op[1] = "close" => NotOpen(s)'
      /\ op[1] # "free" =>
           /\ mem'[a].m_bRelease = FALSE
           /\ mem'[a].sock["client"] # mem'[a].sock["server"] \/ mem'[a].sock["client"] = -1
           /\ \A f \in Fd : fdTable'[f] # Closed => f = mem'[a].sock[fdTable'[f][2]]
           /\ \A r \in Side : mem'[a].sock[r] = -1 => NotOpen(r)'
  BY <1>1, <1>2, <1>3, <1>7, DoesHeap
<1>9. BeforeInv'
  BY <1>4, <1>5, AloneFrames
<1>10. OnePlaceInv' /\ SetUpInv'
  BY <1>5, <1>6, <1>8 DEF AInv, OnePlaceInv, SetUpInv
<1>11. ASSUME NEW r \in Side, <<"close", r>> \in Elems(ops)
       PROVE  NotOpen(r)' \/ <<"close", r>> \in Elems(more)
  <2>1. CASE Passed(a, <<"close", r>>)
    <3>1. NotOpen(r)
      BY <1>3, <2>1 DEF Passed, AInv, SocketsInv
    <3>. QED  BY <1>8, <3>1
  <2>2. CASE <<"close", r>> = op
    BY <1>2, <1>8, <2>2
  <2>. QED  BY <1>1, <1>2, <1>11, <2>1, <2>2
<1>12. ASSUME NEW r \in Side PROVE NotOpen(r)' \/ <<"close", r>> \in Elems(more)
  <2>1. NotOpen(r) \/ <<"close", r>> \in Elems(ops)
    BY <1>3 DEF TearsAll
  <2>. QED  BY <1>8, <1>11, <2>1
<1>13. ASSUME op[1] = "free", NEW f \in Fd PROVE fdTable'[f] = Closed
  <2>1. more = <<>>
    BY <1>1, <1>2, <1>3, <1>13 DEF TearsAll
  <2>2. Elems(more) = {}
    BY <2>1 DEF Elems
  <2>3. \A r \in Side : NotOpen(r)'
    BY <1>12, <2>2
  <2>4. fdTable[f] = Closed \/ fdTable[f][2] \in Side
    BY DEF IInv, Types, KernelType, End
  <2>. QED  BY <1>8, <2>3, <2>4 DEF NotOpen
<1>14. SocketsInv'
  <2>1. ~(arrived' = {}) /\ \A i \in Index : ~WaitsAt(i)'
    BY <1>4, <1>5, <1>6 DEF NotYetMade
  <2>2. CASE op[1] = "free"
    BY <1>8, <1>13, <2>1, <2>2 DEF SocketsInv
  <2>3. CASE op[1] # "free"
    BY <1>8, <2>1, <2>3 DEF SocketsInv
  <2>. QED  BY <2>2, <2>3
<1>15. JobsInv'
  <2>. SUFFICES ASSUME NEW u \in Agent, job'[u].ops # <<>>
                PROVE  /\ FreeIsLast(job'[u].ops)
                       /\ \A r \in Side :
                            /\ NotOpen(r)' \/ <<"close", r>> \in Elems(job'[u].ops)
                            /\ <<"clear", r>> \in Elems(job'[u].ops) => NotOpen(r)'
    BY DEF JobsInv, TearsAll
  <2>1. CASE u # t
    <3>1. job'[u] = job[u] /\ TearsAll(job[u].ops)
      BY <1>1, <2>1 DEF AInv, JobsInv
    <3>. QED  BY <1>8, <3>1 DEF TearsAll
  <2>2. CASE u = t
    <3>1. FreeIsLast(more)
      BY <1>1, <1>2, <1>3 DEF TearsAll
    <3>2. ASSUME NEW r \in Side, <<"clear", r>> \in Elems(more) PROVE NotOpen(r)'
      <4>1. CASE <<"clear", r>> \in Elems(ops)
        BY <1>3, <1>8, <4>1 DEF TearsAll
      <4>2. CASE <<"clear", r>> = <<"clear", s>> /\ op[1] = "close"
        BY <1>8, <4>2
      <4>3. Elems(more) \subseteq
              Elems(ops) \cup {x \in Op : x = <<"clear", s>> /\ op[1] = "close"}
        BY <1>1, <1>2
      <4>. QED  BY <3>2, <4>1, <4>2, <4>3
    <3>. QED  BY <1>1, <1>12, <2>2, <3>1, <3>2 DEF TearsAll
  <2>. QED  BY <2>1, <2>2
<1>16. EarlyInv'
  <2>. SUFFICES ASSUME early = {} PROVE EarlyInv'
    BY <1>5 DEF EarlyInv
  <2>1. m_setProxyManager' \subseteq m_setProxyManager /\ m_setProxyManager \subseteq {a}
    BY <1>3, <1>8 DEF AInv, EarlyInv
  <2>2. ASSUME a \in m_setProxyManager'
        PROVE  more # <<>> /\ \E r \in Side : <<"erase", r>> \in Elems(more)
    <3>1. PICK r \in Side : <<"erase", r>> \in Elems(ops)
      BY <1>1, <1>2, <2>1, <2>2 DEF AInv, EarlyInv
    <3>2. op # <<"erase", r>> /\ ~Passed(a, <<"erase", r>>)
      BY <1>8, <2>2 DEF Passed
    <3>3. <<"erase", r>> \in Elems(more)
      BY <1>1, <1>2, <3>1, <3>2
    <3>4. more # <<>>
      BY <3>3 DEF Elems
    <3>. QED  BY <3>3, <3>4
  <2>3. m_setProxyManager' \subseteq LiveAddrs'
    <3>1. op[1] = "free" => more = <<>>
      BY <1>1, <1>2, <1>3 DEF TearsAll
    <3>. QED  BY <1>8, <2>1, <2>2, <3>1
  <2>4. ASSUME NEW u \in Agent, job'[u].ops # <<>>, job'[u].addr \in m_setProxyManager'
        PROVE  \E r \in Side : <<"erase", r>> \in Elems(job'[u].ops)
    <3>1. CASE u = t
      BY <1>1, <2>1, <2>2, <2>4, <3>1
    <3>2. CASE u # t
      BY <1>1, <2>1, <2>4, <3>2 DEF AInv, EarlyInv
    <3>. QED  BY <3>1, <3>2
  <2>. QED  BY <1>4, <1>6, <2>3, <2>4 DEF EarlyInv
<1>17. ReportInv'
  <2>1. op[1] # "free" => a \in TornAddrs'
    BY <1>1 DEF TornAddrs
  <2>. QED  BY <1>8, <2>1 DEF ReportInv
<1>. QED  BY <1>9, <1>10, <1>14, <1>15, <1>16, <1>17 DEF AInv

-----------------------------------------------------------------------------
(***************************************************************************)
(* A connection alone: the invariance, and the three properties.            *)
(***************************************************************************)

\* A crash leaves everything but the flag as it is.
LEMMA CrashAlone == ASSUME AInv, Crash PROVE AInv'
BY IdleAlone DEF Crash, setVars

\* Nothing is accepted yet.
LEMMA InitAlone == ASSUME Init PROVE AInv
<1>1. /\ arrived = {} /\ unread = {} /\ eof = {} /\ epReady = {} /\ batch = {}
      /\ m_setProxyManager = {} /\ sweep.left = {}
      /\ \A f \in Fd : fdTable[f] = Closed /\ interest[f] = Closed
      /\ \A i \in Index : acceptq[i] = <<>> /\ csq[i] = <<>>
      /\ \A i \in Index : acc[i].pc = "idle" /\ cs[i].pc = "idle"
      /\ \A t \in Agent : job[t].ops = <<>>
      /\ LiveAddrs = {}
  BY DEF Init, AccIdle, CsIdle, NoJob, LiveAddrs, Live
<1>2. SetUpThreads = {} /\ NotYetMade /\ NothingUnderWay /\ \A i \in Index : ~WaitsAt(i) /\ ~AtThread(i)
  BY <1>1 DEF SetUpThreads, AccInInit, NotYetMade, NothingUnderWay, WaitsAt, AtThread
<1>3. OnePlaceInv /\ BeforeInv /\ SetUpInv
  BY <1>1, <1>2 DEF OnePlaceInv, BeforeInv, SetUpInv
<1>4. SocketsInv
  BY <1>1, <1>2 DEF SocketsInv
<1>5. JobsInv /\ ReportInv
  BY <1>1 DEF JobsInv, ReportInv
<1>6. EarlyInv
  BY <1>1, <1>2 DEF EarlyInv
<1>. QED  BY <1>3, <1>4, <1>5, <1>6 DEF AInv

\* As long as there is one connection, its manager, its descriptors and the
\* statements that tear it down stay in step, whatever the number of threads: this
\* is the inductive invariant of the three theorems below.
THEOREM AloneInvariance == ASSUME Alone PROVE SafetySpec => []AInv
<1>1. ASSUME IInv, IInv', AInv, [Next]_vars PROVE AInv'
  <2>. USE <1>1
  <2>1. CASE UNCHANGED vars
    BY <2>1, IdleAlone DEF vars
  <2>2. ASSUME NEW c \in Conn, AcceptClient(c) PROVE AInv'
    BY <2>2, AcceptClientAlone
  <2>3. ASSUME NEW e \in End, PeerSends(e) \/ PeerCloses(e) PROVE AInv'
    BY <2>3, PeerAlone
  <2>4. ASSUME NEW a \in Addr, TimePasses(a) PROVE AInv'
    BY <2>4, IdleAlone DEF TimePasses
  <2>5. CASE ReactorStep
    BY <2>5, EpollWaitAlone, HandleInputAlone, CrashAlone DEF ReactorStep, HandleInputFreed
  <2>6. ASSUME NEW i \in Index, AcceptStep(i) PROVE AInv'
    <3>1. CASE InitClient(i)
      BY <3>1, InitSideAlone, SideFacts DEF InitClient
    <3>2. CASE InitServer(i)
      BY <3>2, InitSideAlone, SideFacts DEF InitServer
    <3>3. CASE InitFreed(i)
      BY <3>3, CrashAlone DEF InitFreed
    <3>. QED
      BY <2>6, <3>1, <3>2, <3>3, TakeAcceptAlone, SocketFailsAlone, GetSocketAlone,
         ConnectFailsAlone, ConnectUpstreamAlone, StampTimeAlone, AddProxyManagerAlone DEF AcceptStep
  <2>7. ASSUME NEW i \in Index, CsStep(i) PROVE AInv'
    <3>1. CASE CsFreed(i)
      BY <3>1, CrashAlone DEF CsFreed
    <3>. QED
      BY <2>7, <3>1, TakeMessageAlone, RecvAlone, PastRecvAlone DEF CsStep
  <2>8. CASE SweepStep
    BY <2>8, SweepTurnAlone, VisitAlone, CrashAlone DEF SweepStep, SweepFreed
  <2>9. ASSUME NEW t \in Agent, TearStep(t) \/ TearFreed(t) PROVE AInv'
    BY <2>9, TearAlone, CrashAlone DEF TearFreed
  <2>. QED  BY <2>1, <2>2, <2>3, <2>4, <2>5, <2>6, <2>7, <2>8, <2>9 DEF Next
<1>2. ASSUME Init PROVE AInv
  BY <1>2, InitAlone
<1>. QED  BY <1>1, <1>2, Invariance, PTL DEF SafetySpec

\* The set holds no freed pointer, unless a peer acted before the set-up was over:
\* whoever closes a connection that is alone takes its pointer out first.
THEOREM SetLiveAlone == ASSUME Alone PROVE SafetySpec => []SetLive
<1>1. ASSUME AInv PROVE SetLive
  BY <1>1 DEF AInv, EarlyInv, SetLive, SetHoldsManagers, LiveAddrs
<1>. QED  BY <1>1, AloneInvariance, PTL

\* Of a connection that is alone the upstream socket of a failed connect() is the
\* only descriptor that is ever leaked, also when peers act during its set-up or a
\* registration fails.
THEOREM FdAccountedAlone == ASSUME Alone PROVE SafetySpec => []FdAccounted
<1>1. ASSUME IInv, AInv PROVE FdAccounted
  <2>. SUFFICES ASSUME NEW f \in Fd, fdTable[f] # Closed
                PROVE  \/ InAcceptPath(f)
                       \/ \E a \in Addr : Live(a) /\ \E s \in Side : mem[a].sock[s] = f
                       \/ fdTable[f] \in leaked
    BY DEF FdAccounted, OpenFds
  <2>1. CASE NotYetMade
    <3>1. PICK i \in Index : WaitsAt(i)
      BY <1>1, <2>1 DEF NotYetMade, AInv, SocketsInv
    <3>2. f = MsgOf(i).fd \/ (acc[i].pc = "connecting" /\ f = acc[i].upstreamsock)
      <4>1. SocketsInv
        BY <1>1 DEF AInv
      <4>2. \A g \in Fd \ {MsgOf(i).fd} :
              \/ fdTable[g] = Closed
              \/ acc[i].pc = "connecting" /\ g = acc[i].upstreamsock
        BY <3>1, <4>1 DEF SocketsInv
      <4>. QED  BY <4>2
    <3>3. acceptq[i] # <<>> => acc[i].pc = "idle"
      BY <1>1 DEF AInv, OnePlaceInv
    <3>4. CASE acceptq[i] # <<>>
      <4>1. acceptq[i] \in Seq(AcceptMsg)
        BY <1>1 DEF IInv, Types, QueueType
      <4>2. Head(acceptq[i]) = acceptq[i][1] /\ 1 \in 1 .. Len(acceptq[i])
        BY <3>4, <4>1, EmptySeq, HeadTailProperties
      <4>3. acceptq[i][1].fd = f
        BY <3>2, <3>3, <3>4, <4>2 DEF MsgOf
      <4>. QED  BY <4>2, <4>3 DEF InAcceptPath
    <3>5. CASE acceptq[i] = <<>>
      BY <3>1, <3>2, <3>5 DEF WaitsAt, MsgOf, InAcceptPath
    <3>. QED  BY <3>4, <3>5
  <2>2. CASE ~NotYetMade /\ LiveAddrs = {}
    BY <1>1, <2>2 DEF AInv, SocketsInv
  <2>3. CASE LiveAddrs # {}
    <3>1. PICK a \in LiveAddrs : TRUE
      BY <2>3
    <3>2. f = mem[a].sock[fdTable[f][2]]
      BY <1>1 DEF AInv, SocketsInv
    <3>3. fdTable[f][2] \in Side
      BY <1>1 DEF IInv, Types, KernelType, End
    <3>. QED  BY <3>1, <3>2, <3>3 DEF LiveAddrs
  <2>. QED  BY <2>1, <2>2, <2>3
<1>. QED  BY <1>1, Invariance, AloneInvariance, PTL

\* An edge-triggered report is not lost between the reactor and the threads of a
\* connection that is alone, wherever the peers' data and closes fall.
THEOREM NoLostWakeupAlone == ASSUME Alone PROVE SafetySpec => []NoLostWakeup
<1>1. ASSUME IInv, AInv PROVE NoLostWakeup
  <2>. SUFFICES ASSUME NEW a \in m_setProxyManager, Live(a), NEW s \in Side,
                       HasInput(mem[a].sock[s]), ~BeingTorn(a)
                PROVE  WakeupPending(a, s)
    BY DEF NoLostWakeup, WakeupPending
  <2>1. a \in LiveAddrs \ TornAddrs
    <3>1. a \in Addr
      BY <1>1 DEF IInv, Types, HeapType
    <3>. QED  BY <3>1 DEF LiveAddrs, TornAddrs, BeingTorn
  <2>2. Registered(s)
    BY <1>1 DEF AInv, SetUpInv, Registered
  <2>3. interest[mem[a].sock[s]] = <<a, s>> /\ Reported(a, s)
    BY <1>1, <2>1, <2>2 DEF AInv, ReportInv
  <2>. QED  BY <2>3 DEF Reported, Elems, WakeupPending
<1>. QED  BY <1>1, Invariance, AloneInvariance, PTL

=============================================================================
