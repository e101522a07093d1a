--------------------------- MODULE AcceptorProofs ---------------------------
(***************************************************************************)
(* The safety of Acceptor, for every LISTEN_PORT, every number of          *)
(* descriptors and every number of clients.                                *)
(***************************************************************************)
EXTENDS Acceptor, FiniteSetTheorems, WellFoundedInduction, TLAPS

\* How far main is with the ports: the one it registers is open already.
MainInv ==
  /\ ports \subseteq MinInt .. MaxInt
  /\ mainPc = "parse" => opened = {}
  /\ mainPc = "register" => NextPort \in ports \cap opened

\* Only one handler runs, that of the reactor; nobody waits where nobody listens.
ReactorInv ==
  /\ \A p, q \in accepting : p = q
  /\ \A p \in Configured : backlog[p] > 0 => p \in opened

IInv == TypeOK /\ IsFiniteSet(opened) /\ MainInv /\ ReactorInv /\ NoneForgotten

-----------------------------------------------------------------------------
\* A nonempty set of ports has a smallest one.
LEMMA SmallestExists ==
  ASSUME NEW S, S \subseteq Nat, S # {}
  PROVE  \E m \in S : \A n \in S : m <= n
<1>. DEFINE Less == {ss \in Nat \X Nat : ss[1] < ss[2]}
<1>1. IsWellFoundedOn(Less, Nat)
  BY NatLessThanWellFounded DEF OpToRel
<1>2. PICK m \in S : \A n \in S : <<n, m>> \notin Less
  <2>. HIDE DEF Less
  <2>. QED  BY <1>1, WFMin
<1>3. ASSUME NEW n \in S PROVE m <= n
  <2>1. <<n, m>> \in Nat \X Nat /\ <<n, m>>[1] = n /\ <<n, m>>[2] = m
    OBVIOUS
  <2>. QED  BY <1>2, <2>1
<1>. QED  BY <1>3

\* A nonempty set of ints has a smallest one, too: shifted by -MinInt they are
\* natural numbers.
LEMMA SmallestInt ==
  ASSUME NEW S, S \subseteq MinInt .. MaxInt, S # {}
  PROVE  \E m \in S : \A n \in S : m <= n
<1>. DEFINE Shifted == {p - MinInt : p \in S}
<1>1. Shifted \subseteq Nat /\ Shifted # {}
  <2>1. ASSUME NEW p \in S PROVE p - MinInt \in Nat
    <3>1. p \in Int /\ MinInt \in Int /\ MinInt <= p
      BY AcceptorAssumption
    <3>. QED  BY <3>1
  <2>2. PICK p \in S : TRUE
    OBVIOUS
  <2>3. p - MinInt \in Shifted
    OBVIOUS
  <2>. QED  BY <2>1, <2>3
<1>2. PICK d \in Shifted : \A n \in Shifted : d <= n
  <2>. HIDE DEF Shifted
  <2>. QED  BY <1>1, SmallestExists
<1>3. PICK m \in S : d = m - MinInt
  OBVIOUS
<1>4. ASSUME NEW n \in S PROVE m <= n
  <2>1. m - MinInt <= n - MinInt
    BY <1>2, <1>3
  <2>2. m \in Int /\ n \in Int /\ MinInt \in Int
    BY AcceptorAssumption
  <2>. QED  BY <2>1, <2>2
<1>. QED  BY <1>4

\* NextPort is one of the ports that are left.
LEMMA NextPortIsLeft ==
  ASSUME ports \subseteq MinInt .. MaxInt, ports # {} PROVE NextPort \in ports
BY SmallestInt DEF NextPort

\* parse_listen_ports yields ints.
LEMMA PortsAreInts == Configured \subseteq MinInt .. MaxInt
<1>1. ASSUME NEW c \in Configs, NEW i \in 1 .. Len(c)
      PROVE  TokenPorts(c[i]) \subseteq MinInt .. MaxInt
  <2>1. ASSUME NEW t PROVE Stoi(t) \subseteq MinInt .. MaxInt
    BY DEF Stoi
  <2>2. ASSUME NEW t, NEW u
        PROVE  UNION {a .. b : a \in Stoi(t), b \in Stoi(u)} \subseteq MinInt .. MaxInt
    BY <2>1, AcceptorAssumption
  <2>. DEFINE tildes == {j \in 1 .. Len(c[i]) : c[i][j] = Tilde}
              pos == CHOOSE j \in tildes : \A k \in tildes : j <= k
              left == SubSeq(c[i], 1, pos - 1)
              right == SubSeq(c[i], pos + 1, Len(c[i]))
  <2>3. TokenPorts(c[i]) = IF tildes = {} THEN Stoi(c[i])
                           ELSE UNION {a .. b : a \in Stoi(left), b \in Stoi(right)}
    BY DEF TokenPorts
  <2>. HIDE DEF tildes, left, right
  <2>. QED  BY <2>1, <2>2, <2>3
<1>. QED  BY <1>1 DEF Configured, ParsePorts

\* What LISTEN_PORT holds is among the configured ports.
LEMMA ParsedAreConfigured == ASSUME NEW c \in Configs PROVE ParsePorts(c) \subseteq Configured
BY DEF Configured

-----------------------------------------------------------------------------
\* Before main parses anything, nobody listens and nobody waits.
LEMMA InitIInv == ASSUME Init PROVE IInv
<1>1. busy \subseteq 1 .. PortSpace - 1
  <2>1. ASSUME NEW p \in Configured, p % PortSpace # 0
        PROVE  p % PortSpace \in 1 .. PortSpace - 1
    <3>1. p \in Int /\ PortSpace \in Nat \ {0}
      BY PortsAreInts, AcceptorAssumption
    <3>2. p % PortSpace \in 0 .. PortSpace - 1
      BY <3>1
    <3>. QED  BY <2>1, <3>1, <3>2
  <2>. QED  BY <2>1 DEF Init
<1>2. opened = {} /\ IsFiniteSet(opened) /\ Cardinality(opened) = 0
  BY FS_EmptySet DEF Init
<1>3. TypeOK
  <2>1. free + Cardinality(opened) + accepted + 2 * connecting + 2 * conns <= Fds
    BY <1>2, AcceptorAssumption DEF Init
  <2>2. /\ portStr \in Configs /\ ports \subseteq Configured
        /\ opened \subseteq Configured
        /\ mainPc = "parse" /\ run = "running" /\ sweepMsg \in BOOLEAN
        /\ backlog \in [Configured -> Nat] /\ clients \in Nat
        /\ ready \subseteq opened /\ accepting \subseteq opened
    BY DEF Init
  <2>3. /\ {free, accepted, connecting, conns, hups, closeMsgs} \subseteq Nat
        /\ hups + closeMsgs <= conns
    BY AcceptorAssumption DEF Init
  <2>. QED  BY <1>1, <2>1, <2>2, <2>3 DEF TypeOK
<1>4. MainInv
  BY DEF Init, MainInv
<1>5. ReactorInv /\ NoneForgotten
  BY DEF Init, ReactorInv, NoneForgotten
<1>. QED  BY <1>2, <1>3, <1>4, <1>5 DEF IInv

\* main's steps; only Listen adds a listener, and takes a descriptor for it.
LEMMA MainStep == ASSUME IInv, Main PROVE IInv'
<1>. USE DEF IInv, ReactorUnchanged, listenVars, connVars
<1>1. CASE Parse
  <2>1. ports' \subseteq Configured /\ ports' \subseteq MinInt .. MaxInt
    BY <1>1, ParsedAreConfigured, PortsAreInts DEF Parse, TypeOK
  <2>2. TypeOK'
    BY <1>1, <2>1 DEF Parse, TypeOK
  <2>3. MainInv' /\ ReactorInv' /\ NoneForgotten' /\ IsFiniteSet(opened)'
    BY <1>1, <2>1 DEF Parse, MainInv, ReactorInv, NoneForgotten
  <2>. QED  BY <2>2, <2>3
<1>2. CASE Listen
  <2>1. NextPort \in ports
    BY <1>2, NextPortIsLeft DEF Listen, MainInv
  <2>2. /\ IsFiniteSet(opened') /\ Cardinality(opened') \in Nat
        /\ Cardinality(opened') <= Cardinality(opened) + 1
        /\ Cardinality(opened) \in Nat
    <3>1. opened' = opened \cup {NextPort}
      BY <1>2 DEF Listen
    <3>2. Cardinality(opened) \in Nat
      BY FS_CardinalityType
    <3>3. /\ IsFiniteSet(opened \cup {NextPort})
          /\ \/ Cardinality(opened \cup {NextPort}) = Cardinality(opened)
             \/ Cardinality(opened \cup {NextPort}) = Cardinality(opened) + 1
      BY FS_AddElement
    <3>. QED  BY <3>1, <3>2, <3>3
  <2>3. free' + 1 = free /\ free' \in Nat
    BY <1>2 DEF Listen, TypeOK
  <2>4. TypeOK'
    <3>1. free' + Cardinality(opened') + accepted' + 2 * connecting' + 2 * conns' <= Fds
      <4>1. /\ accepted \in Nat /\ connecting \in Nat /\ conns \in Nat /\ free \in Nat
            /\ free + Cardinality(opened) + accepted + 2 * connecting + 2 * conns <= Fds
        BY DEF TypeOK
      <4>2. accepted' = accepted /\ connecting' = connecting /\ conns' = conns
        BY <1>2 DEF Listen
      <4>3. Fds \in Nat
        BY AcceptorAssumption
      <4>4. \A f, g, c, d, a, e, n \in Nat :
              f + c + a + 2 * e + 2 * n <= Fds /\ g + 1 = f /\ d <= c + 1
                => g + d + a + 2 * e + 2 * n <= Fds
        BY <4>3
      <4>. QED  BY <2>2, <2>3, <4>1, <4>2, <4>4
    <3>. HIDE DEF Configured
    <3>. QED  BY <1>2, <2>1, <2>3, <3>1 DEF Listen, TypeOK
  <2>5. MainInv'
    BY <1>2, <2>1 DEF Listen, MainInv, NextPort
  <2>6. ReactorInv' /\ NoneForgotten'
    BY <1>2, <2>1 DEF Listen, ReactorInv, NoneForgotten
  <2>. QED  BY <2>2, <2>4, <2>5, <2>6
<1>3. CASE Register
  <2>1. NextPort \in ports \cap opened
    BY <1>3 DEF Register, MainInv
  <2>2. TypeOK'
    BY <1>3, <2>1 DEF Register, TypeOK
  <2>3. NoneForgotten'
    BY <1>3, <2>1 DEF Register, NoneForgotten
  <2>4. MainInv' /\ ReactorInv' /\ IsFiniteSet(opened)'
    BY <1>3 DEF Register, MainInv, ReactorInv
  <2>. QED  BY <2>2, <2>3, <2>4
<1>4. CASE ListenFails \/ AllOpen
  BY <1>4 DEF ListenFails, AllOpen, TypeOK, MainInv, ReactorInv, NoneForgotten
<1>. QED  BY <1>1, <1>2, <1>3, <1>4 DEF Main

\* The clients and the reactor. A client that waits is put on the ready list or
\* is found by the handler that runs, which stops only when nobody waits.
LEMMA ReactorStep ==
  ASSUME IInv,
         \/ Signal \/ PeerCloses \/ InHandler \/ DispatchHup \/ DispatchTimer \/ Leave
         \/ \E p \in Configured : ClientConnects(p) \/ StartAccepting(p)
  PROVE  IInv'
<1>. USE DEF mainVars, listenVars, connVars
<1>. HIDE DEF Configured
<1>1. ASSUME NEW p \in Configured, ClientConnects(p) PROVE IInv'
  <2>1. backlog' \in [Configured -> Nat] /\ clients' \in Nat
    BY <1>1 DEF ClientConnects, IInv, TypeOK
  <2>2. TypeOK'
    BY <1>1, <2>1 DEF ClientConnects, IInv, TypeOK
  <2>3. ReactorInv' /\ NoneForgotten'
    BY <1>1 DEF ClientConnects, IInv, TypeOK, ReactorInv, NoneForgotten
  <2>. QED  BY <1>1, <2>2, <2>3 DEF ClientConnects, IInv, MainInv, NextPort
<1>2. ASSUME NEW p \in Configured, StartAccepting(p) PROVE IInv'
  BY <1>2 DEF StartAccepting, Waits, IInv, TypeOK, MainInv, NextPort, ReactorInv,
              NoneForgotten
<1>3. ASSUME NEW p \in Configured, Accept(p) PROVE IInv'
  <2>1. /\ free' \in Nat /\ accepted' \in Nat
        /\ free' + accepted' = free + accepted
        /\ backlog' \in [Configured -> Nat]
    BY <1>3 DEF Accept, IInv, TypeOK
  <2>2. free' + Cardinality(opened) + accepted' + 2 * connecting + 2 * conns <= Fds
    <3>1. Cardinality(opened) \in Nat /\ Fds \in Nat
      BY FS_CardinalityType, AcceptorAssumption DEF IInv
    <3>. QED  BY <2>1, <3>1 DEF IInv, TypeOK
  <2>3. TypeOK'
    BY <1>3, <2>1, <2>2 DEF Accept, IInv, TypeOK
  <2>4. ReactorInv' /\ NoneForgotten'
    BY <1>3 DEF Accept, IInv, TypeOK, ReactorInv, NoneForgotten
  <2>. QED  BY <1>3, <2>3, <2>4 DEF Accept, IInv, MainInv, NextPort
<1>4. ASSUME NEW p \in Configured, AcceptAgain(p) PROVE IInv'
  BY <1>4 DEF AcceptAgain, IInv, TypeOK, MainInv, NextPort, ReactorInv, NoneForgotten
<1>5. CASE PeerCloses \/ DispatchHup
  <2>1. hups' \in Nat /\ closeMsgs' \in Nat /\ hups' + closeMsgs' <= conns
    BY <1>5 DEF PeerCloses, DispatchHup, IInv, TypeOK
  <2>2. UNCHANGED <<mainVars, listenVars, run, free, accepted, connecting, conns>>
        /\ sweepMsg' \in BOOLEAN
    BY <1>5 DEF PeerCloses, DispatchHup, IInv, TypeOK
  <2>. QED  BY <2>1, <2>2 DEF IInv, TypeOK, MainInv, NextPort, ReactorInv, NoneForgotten
<1>6. CASE Signal \/ DispatchTimer \/ Leave
  BY <1>6 DEF Signal, DispatchTimer, Leave, IInv, TypeOK, MainInv, NextPort,
              ReactorInv, NoneForgotten
<1>. QED  BY <1>1, <1>2, <1>3, <1>4, <1>5, <1>6 DEF InHandler

\* The other threads: whatever they free was taken.
LEMMA WorkerStep == ASSUME IInv, Worker PROVE IInv'
<1>. DEFINE card == Cardinality(opened)
<1>1. /\ UNCHANGED <<portStr, ports, opened, busy, mainPc, backlog, clients, ready,
                     accepting, run>>
  BY DEF Worker, SocketFails, GetSocket, Connect, ConnectFails, TearDown, Sweep,
         OthersUnchanged, mainVars, listenVars
<1>2. card \in Nat /\ Fds \in Nat
  BY FS_CardinalityType, AcceptorAssumption DEF IInv
<1>3. /\ free \in Nat /\ accepted \in Nat /\ connecting \in Nat /\ conns \in Nat
      /\ hups \in Nat /\ closeMsgs \in Nat /\ sweepMsg \in BOOLEAN
      /\ free + card + accepted + 2 * connecting + 2 * conns <= Fds
      /\ hups + closeMsgs <= conns
  BY DEF IInv, TypeOK
<1>4. /\ {free', accepted', connecting', conns', hups', closeMsgs'} \subseteq Nat
      /\ free' + card + accepted' + 2 * connecting' + 2 * conns' <= Fds
      /\ hups' + closeMsgs' <= conns' /\ sweepMsg' \in BOOLEAN
  <2>. HIDE DEF card
  <2>1. CASE SocketFails \/ GetSocket
    BY <1>2, <1>3, <2>1 DEF SocketFails, GetSocket
  <2>2. CASE Connect \/ ConnectFails
    BY <1>2, <1>3, <2>2 DEF Connect, ConnectFails
  <2>3. CASE TearDown
    BY <1>2, <1>3, <2>3 DEF TearDown
  <2>4. CASE Sweep
    <3>1. PICK idle \in 0 .. conns - hups - closeMsgs, hup \in 0 .. hups :
            /\ conns' = conns - idle - hup
            /\ hups' = hups - hup
            /\ free' = free + 2 * (idle + hup)
      BY <2>4 DEF Sweep
    <3>2. UNCHANGED <<accepted, connecting, closeMsgs>> /\ sweepMsg' \in BOOLEAN
      BY <2>4 DEF Sweep
    <3>3. idle \in Nat /\ hup \in Nat /\ idle + hup + closeMsgs <= conns /\ hup <= hups
          /\ idle + hups + closeMsgs <= conns
      BY <1>3
    <3>4. conns' \in Nat /\ hups' \in Nat /\ free' \in Nat /\ hups' + closeMsgs <= conns'
          /\ free' + 2 * conns' = free + 2 * conns
      BY <1>3, <3>1, <3>3
    <3>5. free' + card + accepted + 2 * connecting + 2 * conns' <= Fds
      <4>1. \A f, g, c, a, e, n, m \in Nat :
              f + c + a + 2 * e + 2 * n <= Fds /\ g + 2 * m = f + 2 * n
                => g + c + a + 2 * e + 2 * m <= Fds
        BY <1>2
      <4>. QED  BY <1>2, <1>3, <3>4, <4>1
    <3>. QED  BY <1>3, <3>2, <3>4, <3>5
  <2>. QED  BY <2>1, <2>2, <2>3, <2>4 DEF Worker
<1>5. TypeOK'
  BY <1>1, <1>4 DEF IInv, TypeOK
<1>6. MainInv' /\ ReactorInv' /\ NoneForgotten' /\ IsFiniteSet(opened)'
  BY <1>1 DEF IInv, MainInv, NextPort, ReactorInv, NoneForgotten
<1>. QED  BY <1>5, <1>6 DEF IInv

-----------------------------------------------------------------------------
\* A step of Acceptor keeps the invariant.
LEMMA NextIInv == ASSUME IInv, [Next]_vars PROVE IInv'
<1>1. CASE UNCHANGED vars
  BY <1>1 DEF vars, mainVars, listenVars, connVars, IInv, TypeOK, MainInv, NextPort,
              ReactorInv, NoneForgotten
<1>2. CASE Next
  BY <1>2, MainStep, ReactorStep, WorkerStep DEF Next
<1>. QED  BY <1>1, <1>2

\* The invariant of every behaviour, from which the theorems follow.
THEOREM Invariance == Spec => []IInv
<1>1. Init => IInv
  BY InitIInv
<1>2. IInv /\ [Next]_vars => IInv'
  BY NextIInv
<1>. QED  BY <1>1, <1>2, PTL DEF Spec

\* Every variable has its type, and no descriptor is given back that was not taken
\* (every close_socket in the code closes what its thread or manager owns).
THEOREM TypeCorrect == Spec => []TypeOK
<1>1. IInv => TypeOK
  BY DEF IInv
<1>. QED  BY <1>1, Invariance, PTL

\* Whoever waits on a registered listener is known to epoll or to handle_input of
\* AcceptorEvent, although the events of a listener are edge-triggered.
THEOREM NobodyIsForgotten == Spec => []NoneForgotten
<1>1. IInv => NoneForgotten
  BY DEF IInv
<1>. QED  BY <1>1, Invariance, PTL

-----------------------------------------------------------------------------
\* No step leads out of Stuck: the actions that would give a descriptor back have
\* nothing to do, and the reactor does not come to take an event or see a stop.
LEMMA StuckStep == ASSUME Stuck, [Next]_vars PROVE Stuck'
<1>. USE DEF Stuck, mainVars, listenVars, connVars, ReactorUnchanged, OthersUnchanged
<1>1. CASE Main
  BY <1>1 DEF Main, Parse, Listen, ListenFails, Register, AllOpen
<1>2. CASE \E p \in Configured : ClientConnects(p)
  BY <1>2 DEF ClientConnects
<1>3. CASE InHandler
  BY <1>3 DEF InHandler, Accept, AcceptAgain
<1>4. ~(\/ DispatchHup \/ DispatchTimer \/ Leave
        \/ \E p \in Configured : StartAccepting(p))
  BY DEF Waits, DispatchHup, DispatchTimer, Leave, StartAccepting
<1>5. ~Worker
  BY DEF Worker, SocketFails, GetSocket, Connect, ConnectFails, TearDown, Sweep
<1>6. CASE Signal \/ PeerCloses
  BY <1>6 DEF Signal, PeerCloses
<1>7. CASE UNCHANGED vars
  BY <1>7 DEF vars
<1>. QED  BY <1>1, <1>2, <1>3, <1>4, <1>5, <1>6, <1>7 DEF Next

\* handle_input of AcceptorEvent calls accept() again on every failure but EAGAIN:
\* once no thread has a descriptor to give back, it does so for ever.
THEOREM StaysStuck == Spec => StuckForGood
<1>1. [Next]_vars => [Stuck => Stuck']_vars
  BY StuckStep
<1>. QED  BY <1>1, PTL DEF Spec, StuckForGood

-----------------------------------------------------------------------------
(***************************************************************************)
(* Which ports are opened.                                                 *)
(***************************************************************************)

\* The ports that main has opened or has still to open are those it parsed.
PortsInv ==
  /\ mainPc = "parse" => ports = {} /\ opened = {}
  /\ mainPc # "parse" => ports \cup opened = ParsePorts(portStr)
  /\ mainPc \in {"open", "serve", "failed"} => ports \cap opened = {}
  /\ mainPc = "register" => ports \cap opened = {NextPort}
  /\ mainPc = "serve" => ports = {}
  /\ mainPc = "failed" => free = 0 \/ \E p \in ports : Taken(p)

\* The ports between numbers of two sets.
LEMMA InRanges ==
  ASSUME NEW A, NEW B, NEW p
  PROVE  p \in UNION {a .. b : a \in A, b \in B} <=> \E a \in A, b \in B : p \in a .. b
<1>. DEFINE Ranges == {a .. b : a \in A, b \in B}
<1>1. \A r : r \in Ranges <=> \E a \in A, b \in B : r = a .. b
  OBVIOUS
<1>. HIDE DEF Ranges
<1>2. p \in UNION Ranges <=> \E r \in Ranges : p \in r
  OBVIOUS
<1>3. p \in UNION Ranges <=> \E a \in A, b \in B : p \in a .. b
  BY <1>1, <1>2, Zenon
<1>. QED  BY <1>3 DEF Ranges

\* A token with a tilde: the number before the first one and that behind it.
LEMMA TokenIsRange ==
  ASSUME NEW t \in Seq(Word), NEW pos \in 1 .. Len(t), t[pos] = Tilde,
         \A i \in 1 .. pos - 1 : t[i] # Tilde
  PROVE  \A p : p \in TokenPorts(t) <=> \E a \in Stoi(SubSeq(t, 1, pos - 1)),
                                           b \in Stoi(SubSeq(t, pos + 1, Len(t))) : p \in a .. b
<1>. DEFINE tildes == {i \in 1 .. Len(t) : t[i] = Tilde}
            first  == CHOOSE i \in tildes : \A j \in tildes : i <= j
<1>1. Len(t) \in Nat /\ pos \in tildes /\ \A j \in tildes : pos <= j /\ j \in Nat
  OBVIOUS
<1>. HIDE DEF tildes
<1>2. first = pos
  <2>1. \E i \in tildes : \A j \in tildes : i <= j
    BY <1>1
  <2>2. first \in tildes /\ \A j \in tildes : first <= j
    BY <2>1
  <2>. HIDE DEF first
  <2>. QED  BY <1>1, <2>2
<1>3. TokenPorts(t) = IF tildes = {} THEN Stoi(t)
                      ELSE UNION {a .. b : a \in Stoi(SubSeq(t, 1, first - 1)),
                                           b \in Stoi(SubSeq(t, first + 1, Len(t)))}
  BY DEF TokenPorts, tildes
<1>. HIDE DEF first
<1>4. TokenPorts(t) = UNION {a .. b : a \in Stoi(SubSeq(t, 1, pos - 1)),
                                      b \in Stoi(SubSeq(t, pos + 1, Len(t)))}
  BY <1>1, <1>2, <1>3
<1>. QED  BY <1>4, InRanges

\* A token without one.
LEMMA TokenIsNumber ==
  ASSUME NEW t \in Seq(Word), \A i \in 1 .. Len(t) : t[i] # Tilde
  PROVE  TokenPorts(t) = Stoi(t)
<1>1. {i \in 1 .. Len(t) : t[i] = Tilde} = {}
  OBVIOUS
<1>. QED  BY <1>1 DEF TokenPorts

\* The first tilde of a token that has one.
LEMMA FirstTilde ==
  ASSUME NEW t \in Seq(Word), NEW k \in 1 .. Len(t), t[k] = Tilde
  PROVE  \E pos \in 1 .. Len(t) : t[pos] = Tilde /\ \A i \in 1 .. pos - 1 : t[i] # Tilde
<1>. DEFINE tildes == {i \in 1 .. Len(t) : t[i] = Tilde}
<1>1. tildes \subseteq Nat /\ tildes # {}
  OBVIOUS
<1>2. PICK pos \in tildes : \A j \in tildes : pos <= j
  <2>. HIDE DEF tildes
  <2>. QED  BY <1>1, SmallestExists
<1>3. ASSUME NEW i \in 1 .. pos - 1, t[i] = Tilde PROVE FALSE
  <2>1. i \in tildes
    BY <1>3
  <2>. QED  BY <1>2, <2>1
<1>. QED  BY <1>2, <1>3

\* TokenPorts reads what a well-formed token names.
LEMMA TokenHasNamed ==
  ASSUME NEW t \in Seq(Word), NEW p, Names(t, p)
  PROVE  p \in TokenPorts(t)
<1>1. p \in MinInt .. MaxInt /\ p \in Int /\ Tilde \notin Int
  BY AcceptorAssumption DEF Names
<1>2. CASE t = <<p>>
  <2>1. Len(t) = 1 /\ t[1] = p /\ t # <<>>
    BY <1>2
  <2>2. \A i \in 1 .. Len(t) : t[i] # Tilde
    BY <1>1, <2>1
  <2>. QED  BY <1>1, <2>1, <2>2, TokenIsNumber DEF Stoi
<1>3. CASE /\ Len(t) = 3 /\ t[2] = Tilde /\ {t[1], t[3]} \subseteq MinInt .. MaxInt
           /\ p \in t[1] .. t[3]
  <2>. DEFINE left == SubSeq(t, 1, 2 - 1)
              right == SubSeq(t, 2 + 1, Len(t))
  <2>1. t[1] # Tilde
    <3>1. t[1] \in MinInt .. MaxInt /\ MinInt .. MaxInt \subseteq Int
      BY <1>3, AcceptorAssumption
    <3>. QED  BY <1>1, <3>1
  <2>2. p \in TokenPorts(t) <=> \E a \in Stoi(left), b \in Stoi(right) : p \in a .. b
    <3>1. 2 \in 1 .. Len(t) /\ t[2] = Tilde
      BY <1>3
    <3>2. \A i \in 1 .. 2 - 1 : t[i] # Tilde
      BY <2>1
    <3>. QED  BY <3>1, <3>2, TokenIsRange
  <2>3. /\ left # <<>> /\ left[1] = t[1] /\ t[1] \in MinInt .. MaxInt
        /\ right # <<>> /\ right[1] = t[3] /\ t[3] \in MinInt .. MaxInt
    BY <1>3
  <2>. HIDE DEF left, right
  <2>4. t[1] \in Stoi(left) /\ t[3] \in Stoi(right)
    BY <2>3 DEF Stoi
  <2>5. p \in t[1] .. t[3]
    BY <1>3
  <2>. QED  BY <2>2, <2>4, <2>5, Zenon
<1>. QED  BY <1>2, <1>3 DEF Names

\* It reads nothing that the token may not stand for.
LEMMA TokenHasPossible ==
  ASSUME NEW t \in Seq(Word), NEW p \in TokenPorts(t)
  PROVE  MayName(t, p)
<1>1. CASE \A i \in 1 .. Len(t) : t[i] # Tilde
  <2>1. p \in Stoi(t)
    BY <1>1, TokenIsNumber
  <2>. QED  BY <1>1, <2>1 DEF Stoi, MayName
<1>2. CASE \E k \in 1 .. Len(t) : t[k] = Tilde
  <2>1. PICK pos \in 1 .. Len(t) : t[pos] = Tilde /\ \A i \in 1 .. pos - 1 : t[i] # Tilde
    BY <1>2, FirstTilde
  <2>. DEFINE left == SubSeq(t, 1, pos - 1)
              right == SubSeq(t, pos + 1, Len(t))
  <2>2. p \in TokenPorts(t) <=> \E a \in Stoi(left), b \in Stoi(right) : p \in a .. b
    BY <2>1, TokenIsRange
  <2>3. pos - 1 \in Nat /\ pos - 1 <= Len(t) /\ Len(t) \in Nat
    OBVIOUS
  <2>4. left # <<>> => 1 \in 1 .. Len(t) /\ left[1] = t[1]
    BY <2>3
  <2>5. right # <<>> => pos + 1 \in 1 .. Len(t) /\ right[1] = t[pos + 1]
    BY <2>3
  <2>. HIDE DEF left, right
  <2>6. PICK a \in Stoi(left), b \in Stoi(right) : p \in a .. b
    BY <2>2, Zenon
  <2>7. /\ t # <<>> /\ a = t[1] /\ t[1] \in MinInt .. MaxInt
        /\ pos + 1 \in 1 .. Len(t) /\ b = t[pos + 1] /\ t[pos + 1] \in MinInt .. MaxInt
    BY <2>4, <2>5, <2>6 DEF Stoi
  <2>8. pos < pos + 1 /\ t[pos] = Tilde /\ p \in t[1] .. t[pos + 1]
    BY <2>1, <2>6, <2>7
  <2>. QED  BY <2>7, <2>8 DEF MayName
<1>. QED  BY <1>1, <1>2

\* Token by token, LISTEN_PORT is read as it is meant, and more only where it may be.
LEMMA ParsedIsMeant ==
  ASSUME NEW c \in Configs
  PROVE  Meant(c) \subseteq ParsePorts(c) /\ ParsePorts(c) \subseteq Possible(c)
<1>. HIDE DEF Configured
<1>1. \A i \in 1 .. Len(c) : c[i] \in Seq(Word)
  BY AcceptorAssumption
<1>2. ASSUME NEW p \in Meant(c) PROVE p \in ParsePorts(c)
  <2>1. PICK i \in 1 .. Len(c) : Names(c[i], p)
    BY DEF Meant
  <2>. QED  BY <1>1, <2>1, TokenHasNamed DEF ParsePorts
<1>3. ASSUME NEW p \in ParsePorts(c) PROVE p \in Possible(c)
  <2>1. PICK i \in 1 .. Len(c) : p \in TokenPorts(c[i])
    BY DEF ParsePorts
  <2>2. MayName(c[i], p)
    BY <1>1, <2>1, TokenHasPossible
  <2>3. p \in Configured
    BY ParsedAreConfigured
  <2>. QED  BY <2>2, <2>3 DEF Possible
<1>. QED  BY <1>2, <1>3

\* main opens the parsed ports one by one, and those it has left are not open.
LEMMA MainKeepsPorts == ASSUME IInv, PortsInv, Main PROVE PortsInv'
<1>. HIDE DEF Configured
<1>1. CASE Parse
  <2>1. opened' = {} /\ ports' = ParsePorts(portStr) /\ portStr' = portStr /\ mainPc' = "open"
    BY <1>1 DEF Parse, PortsInv
  <2>. QED  BY <2>1 DEF PortsInv
<1>2. CASE Listen
  <2>1. NextPort \in ports
    BY <1>2, NextPortIsLeft DEF Listen, IInv, MainInv
  <2>2. /\ opened' = opened \cup {NextPort} /\ ports' = ports /\ portStr' = portStr
        /\ NextPort' = NextPort /\ mainPc' = "register" /\ mainPc = "open"
    BY <1>2 DEF Listen, NextPort
  <2>3. ports \cup opened = ParsePorts(portStr) /\ ports \cap opened = {}
    BY <2>2 DEF PortsInv
  <2>4. ports' \cup opened' = ParsePorts(portStr) /\ ports' \cap opened' = {NextPort}
    BY <2>1, <2>2, <2>3
  <2>. HIDE DEF NextPort
  <2>. QED  BY <2>2, <2>4 DEF PortsInv
<1>3. CASE ListenFails
  <2>1. NextPort \in ports
    BY <1>3, NextPortIsLeft DEF ListenFails, IInv, MainInv
  <2>2. /\ opened' = opened /\ ports' = ports /\ portStr' = portStr /\ free' = free
        /\ busy' = busy /\ mainPc' = "failed" /\ mainPc = "open"
        /\ free = 0 \/ Taken(NextPort)
    BY <1>3 DEF ListenFails
  <2>3. free' = 0 \/ \E p \in ports' : Taken(p)'
    BY <2>1, <2>2 DEF Taken
  <2>. QED  BY <2>2, <2>3 DEF PortsInv
<1>4. CASE Register
  <2>1. /\ opened' = opened /\ ports' = ports \ {NextPort} /\ portStr' = portStr
        /\ mainPc' = "open" /\ mainPc = "register"
    BY <1>4 DEF Register
  <2>2. NextPort \in ports \cap opened /\ ports \cap opened = {NextPort}
        /\ ports \cup opened = ParsePorts(portStr)
    BY <2>1 DEF IInv, MainInv, PortsInv
  <2>3. ports' \cup opened' = ParsePorts(portStr) /\ ports' \cap opened' = {}
    BY <2>1, <2>2
  <2>. QED  BY <2>1, <2>3 DEF PortsInv
<1>5. CASE AllOpen
  <2>1. /\ opened' = opened /\ ports' = ports /\ portStr' = portStr
        /\ mainPc' = "serve" /\ mainPc = "open" /\ ports = {}
    BY <1>5 DEF AllOpen
  <2>. QED  BY <2>1 DEF PortsInv
<1>. QED  BY <1>1, <1>2, <1>3, <1>4, <1>5 DEF Main

\* Nobody but main touches the ports, and when main has failed nobody moves at all.
LEMMA PortsKept == ASSUME IInv, PortsInv, [Next]_vars PROVE PortsInv'
<1>. USE DEF mainVars, listenVars, connVars
<1>1. CASE UNCHANGED mainVars /\ (Up \/ UNCHANGED free)
  <2>1. NextPort' = NextPort /\ \A p : Taken(p)' = Taken(p)
    BY <1>1 DEF NextPort, Taken
  <2>2. /\ portStr' = portStr /\ ports' = ports /\ opened' = opened /\ mainPc' = mainPc
        /\ mainPc = "failed" => free' = free
    BY <1>1 DEF Up
  <2>. HIDE DEF NextPort, Taken
  <2>. QED  BY <2>1, <2>2 DEF PortsInv
<1>2. CASE Signal \/ PeerCloses \/ DispatchHup \/ DispatchTimer \/ Leave
  BY <1>1, <1>2 DEF Signal, PeerCloses, DispatchHup, DispatchTimer, Leave
<1>3. CASE InHandler \/ \E p \in Configured : ClientConnects(p) \/ StartAccepting(p)
  BY <1>1, <1>3 DEF InHandler, Accept, AcceptAgain, ClientConnects, StartAccepting
<1>4. CASE Worker
  BY <1>1, <1>4 DEF Worker, SocketFails, GetSocket, Connect, ConnectFails, TearDown,
                    Sweep, OthersUnchanged
<1>5. CASE UNCHANGED vars
  BY <1>1, <1>5 DEF vars
<1>. QED  BY <1>2, <1>3, <1>4, <1>5, MainKeepsPorts DEF Next

\* Whatever LISTEN_PORT holds, the server starts on every port that a well-formed entry
\* names, and on no other but those an entry with more text in it may stand for; and
\* if main returns instead, a port was taken by another process or by another port of
\* LISTEN_PORT, or the process was out of descriptors.
THEOREM OpensWhatIsMeant == Spec => []StartsAsConfigured
<1>1. Init => PortsInv
  BY DEF Init, PortsInv
<1>2. IInv /\ PortsInv /\ [Next]_vars => PortsInv'
  BY PortsKept
<1>3. IInv /\ PortsInv => StartsAsConfigured
  <2>1. ASSUME IInv, PortsInv PROVE StartsAsConfigured
    <3>1. /\ Meant(portStr) \subseteq ParsePorts(portStr)
          /\ ParsePorts(portStr) \subseteq Possible(portStr)
      BY <2>1, ParsedIsMeant DEF IInv, TypeOK
    <3>2. mainPc = "serve" => opened = ParsePorts(portStr)
      BY <2>1 DEF PortsInv
    <3>3. ASSUME mainPc = "failed", free # 0
          PROVE  \/ \E p \in Possible(portStr) : p % PortSpace \in busy
                 \/ \E p, q \in Possible(portStr) :
                      p # q /\ p % PortSpace = q % PortSpace /\ p % PortSpace # 0
      <4>1. PICK p \in ports : Taken(p)
        BY <2>1, <3>3 DEF PortsInv
      <4>2. /\ ports \subseteq Possible(portStr) /\ opened \subseteq Possible(portStr)
            /\ ports \cap opened = {}
        BY <2>1, <3>1, <3>3 DEF PortsInv
      <4>. QED  BY <4>1, <4>2 DEF Taken
    <3>. QED  BY <3>1, <3>2, <3>3 DEF StartsAsConfigured
  <2>. QED  BY <2>1
<1>. QED  BY <1>1, <1>2, <1>3, Invariance, PTL DEF Spec
=============================================================================
