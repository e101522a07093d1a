------------------------------ MODULE Acceptor ------------------------------
(***************************************************************************)
(* The listening ports and the descriptors.  main parses LISTEN_PORT and   *)
(* opens the ports one by one, while the reactor already accepts on those  *)
(* that are open.  The listeners are watched edge-triggered, so the        *)
(* reactor accepts until accept() says EAGAIN, and any other failure makes *)
(* it try again at once: without a free descriptor it does nothing else.   *)
(* Descriptors come back from the accept, client/server and idle threads,  *)
(* whose work is all handed to them by the reactor.                        *)
(*                                                                         *)
(* Connections are counted, not named.  An event is dispatched as it is    *)
(* taken from epoll (ThreadGroup has the batches and the message queues).  *)
(***************************************************************************)
EXTENDS Integers, Sequences, FiniteSets

CONSTANTS
  Configs,     \* values of LISTEN_PORT, each a sequence of tokens
  PortSpace,   \* 2^16
  MinInt,      \* the range of an int
  MaxInt,
  Tilde,       \* the words of a token that are no numbers: "~"
  Garbage,     \*   and any text stoi finds no number in
  Fds,         \* descriptors the process may use for sockets
  ClientBound  \* bound: clients that ever connect

\* A token between commas is a sequence of words.  INT_MAX is left out: the loop
\* over a range that ends there overflows its counter.
Word == (Int \ {MaxInt}) \cup {Tilde, Garbage}

ASSUME AcceptorAssumption ==
  /\ MinInt \in Int /\ MaxInt \in Int
  /\ {Tilde, Garbage} \cap Int = {} /\ Tilde # Garbage
  /\ Configs \subseteq Seq(Seq(Word))
  /\ PortSpace \in Nat \ {0} /\ Fds \in Nat /\ ClientBound \in Nat

VARIABLES
  portStr,    \* LISTEN_PORT
  ports,      \* the ports parsed from it that main has still to open
  opened,     \* those that have a listening socket
  busy,       \* kernel ports that other processes listen on
  mainPc,     \* "parse", "open", "register", "serve" or "failed"
  backlog,    \* [configured port -> Nat], connections waiting to be accepted
  clients,    \* clients that have ever connected
  ready,      \* listeners on epoll's ready list
  accepting,  \* the listener whose handle_input runs, if any
  run,        \* the reactor is "running", "stopped" by a signal, or has "left"
  free,       \* free descriptors
  accepted,   \* accept messages on their way
  connecting, \* connections an accept thread is setting up
  conns,      \* connections that are set up
  hups,       \* those whose peer has closed, the event still in epoll
  closeMsgs,  \* those whose close is in a message
  sweepMsg    \* is a message of the idle timer on its way?

mainVars   == <<portStr, ports, opened, busy, mainPc>>
listenVars == <<backlog, clients, ready, accepting>>
connVars   == <<accepted, connecting, conns, hups, closeMsgs, sweepMsg>>
vars == <<mainVars, listenVars, run, free, connVars>>

-----------------------------------------------------------------------------
(***************************************************************************)
(* parse_listen_ports.                                                     *)
(***************************************************************************)
\* stoi reads the number a text begins with, of either sign, and ignores the rest;
\* it throws if there is none or if it is no int.
Stoi(text) == IF text # <<>> /\ text[1] \in MinInt .. MaxInt THEN {text[1]} ELSE {}

\* Up to the first tilde, and behind it.
TokenPorts(token) ==
  LET tildes == {i \in 1 .. Len(token) : token[i] = Tilde}
      pos    == CHOOSE i \in tildes : \A j \in tildes : i <= j
  IN  IF tildes = {} THEN Stoi(token)
      ELSE UNION {a .. b : a \in Stoi(SubSeq(token, 1, pos - 1)),
                           b \in Stoi(SubSeq(token, pos + 1, Len(token)))}

\* Mutant: an invalid token ends the loop, not just its iteration.
ParsePorts_Stops(tokens) ==
  UNION {TokenPorts(tokens[i]) : i \in
           {j \in 1 .. Len(tokens) : \A k \in 1 .. j : TokenPorts(tokens[k]) # {}}}

ParsePorts(tokens) == UNION {TokenPorts(tokens[i]) : i \in 1 .. Len(tokens)}

Configured == UNION {ParsePorts(c) : c \in Configs}

Init ==
  /\ portStr \in Configs /\ ports = {} /\ opened = {} /\ mainPc = "parse"
  /\ busy \in {{}} \cup {{k} : k \in {p % PortSpace : p \in Configured} \ {0}}
  /\ backlog = [p \in Configured |-> 0] /\ clients = 0
  /\ ready = {} /\ accepting = {} /\ run = "running" /\ free = Fds
  /\ accepted = 0 /\ connecting = 0 /\ conns = 0 /\ hups = 0 /\ closeMsgs = 0
  /\ sweepMsg = FALSE

-----------------------------------------------------------------------------
(***************************************************************************)
(* main: the ports are opened in ascending order.                          *)
(***************************************************************************)
ReactorUnchanged == UNCHANGED <<backlog, clients, accepting, run, connVars>>

Parse ==
  /\ mainPc = "parse"
  /\ ports' = ParsePorts(portStr)
  /\ mainPc' = "open"
  /\ UNCHANGED <<portStr, opened, busy, ready, free>> /\ ReactorUnchanged

NextPort == CHOOSE p \in ports : \A q \in ports : p <= q

\* htons keeps 16 bits.  For port 0 the kernel picks a free one (and none, it is
\* assumed, that LISTEN_PORT names).
Taken(p) ==
  p % PortSpace # 0 /\ p % PortSpace \in busy \cup {q % PortSpace : q \in opened}

\* socket, bind and listen.
Listen ==
  /\ mainPc = "open" /\ ports # {}
  /\ free > 0 /\ ~Taken(NextPort)
  /\ free' = free - 1
  /\ opened' = opened \cup {NextPort}
  /\ mainPc' = "register"
  /\ UNCHANGED <<portStr, ports, busy, ready>> /\ ReactorUnchanged

\* socket() fails unnoticed, and bind() with it, or bind() does on its own:
\* main returns.
ListenFails ==
  /\ mainPc = "open" /\ ports # {}
  /\ free = 0 \/ Taken(NextPort)
  /\ mainPc' = "failed"
  /\ UNCHANGED <<portStr, ports, opened, busy, ready, free>> /\ ReactorUnchanged

\* Mutant: epoll is told of edges only.
Register_EdgesOnly ==
  /\ mainPc = "register"
  /\ ports' = ports \ {NextPort}
  /\ mainPc' = "open"
  /\ UNCHANGED <<portStr, opened, busy, ready, free>> /\ ReactorUnchanged

\* Who connected after listen() is reported by EPOLL_CTL_ADD.
Register ==
  /\ mainPc = "register"
  /\ ports' = ports \ {NextPort}
  /\ ready' = IF backlog[NextPort] > 0 THEN ready \cup {NextPort} ELSE ready
  /\ mainPc' = "open"
  /\ UNCHANGED <<portStr, opened, busy, free>> /\ ReactorUnchanged

AllOpen ==
  /\ mainPc = "open" /\ ports = {}
  /\ mainPc' = "serve"
  /\ UNCHANGED <<portStr, ports, opened, busy, ready, free>> /\ ReactorUnchanged

\* The signal handlers are installed when the ports are open.
Signal ==
  /\ mainPc = "serve" /\ run = "running"
  /\ run' = "stopped"
  /\ UNCHANGED <<mainVars, listenVars, free, connVars>>

Main == Parse \/ Listen \/ ListenFails \/ Register \/ AllOpen

-----------------------------------------------------------------------------
(***************************************************************************)
(* The clients, and the reactor until main has failed.                     *)
(***************************************************************************)
Up == mainPc # "failed"

ClientConnects(p) ==
  /\ Up /\ p \in opened /\ clients < ClientBound
  /\ clients' = clients + 1
  /\ backlog' = [backlog EXCEPT ![p] = @ + 1]
  /\ ready' = IF p \in ports THEN ready ELSE ready \cup {p}
  /\ UNCHANGED <<mainVars, accepting, run, free, connVars>>

PeerCloses ==
  /\ Up /\ hups + closeMsgs < conns
  /\ hups' = hups + 1
  /\ UNCHANGED <<mainVars, listenVars, run, free, accepted, connecting, conns,
                 closeMsgs, sweepMsg>>

Waits == Up /\ run # "left" /\ accepting = {}

StartAccepting(p) ==
  /\ Waits /\ p \in ready
  /\ ready' = ready \ {p}
  /\ accepting' = {p}
  /\ UNCHANGED <<mainVars, backlog, clients, run, free, connVars>>

\* Mutants: one connection is accepted for each event; or every failure of
\* accept() ends handle_input.
Accept_Once(p) ==
  /\ Up /\ p \in accepting
  /\ free > 0 /\ backlog[p] > 0
  /\ free' = free - 1
  /\ backlog' = [backlog EXCEPT ![p] = @ - 1]
  /\ accepted' = accepted + 1
  /\ accepting' = {}
  /\ UNCHANGED <<mainVars, clients, ready, run, connecting, conns, hups,
                 closeMsgs, sweepMsg>>

AcceptAgain_AnyFailure(p) ==
  /\ Up /\ p \in accepting
  /\ free = 0 \/ backlog[p] = 0
  /\ accepting' = {}
  /\ UNCHANGED <<mainVars, backlog, clients, ready, run, free, connVars>>

Accept(p) ==
  /\ Up /\ p \in accepting
  /\ free > 0 /\ backlog[p] > 0
  /\ free' = free - 1
  /\ backlog' = [backlog EXCEPT ![p] = @ - 1]
  /\ accepted' = accepted + 1
  /\ UNCHANGED <<mainVars, clients, ready, accepting, run, connecting, conns,
                 hups, closeMsgs, sweepMsg>>

\* EAGAIN, which the kernel returns only if it has a descriptor to give: without
\* one accept() fails with EMFILE, even if nobody waits, and is called again.
AcceptAgain(p) ==
  /\ Up /\ p \in accepting
  /\ free > 0 /\ backlog[p] = 0
  /\ accepting' = {}
  /\ UNCHANGED <<mainVars, backlog, clients, ready, run, free, connVars>>

\* Events of connections and of the idle timer.
DispatchHup ==
  /\ Waits /\ hups > 0
  /\ hups' = hups - 1 /\ closeMsgs' = closeMsgs + 1
  /\ UNCHANGED <<mainVars, listenVars, run, free, accepted, connecting, conns,
                 sweepMsg>>

DispatchTimer ==
  /\ Waits /\ ~sweepMsg
  /\ sweepMsg' = TRUE
  /\ UNCHANGED <<mainVars, listenVars, run, free, accepted, connecting, conns,
                 hups, closeMsgs>>

Leave ==
  /\ Waits /\ run = "stopped"
  /\ run' = "left"
  /\ UNCHANGED <<mainVars, listenVars, free, connVars>>

InHandler == \E p \in Configured : Accept(p) \/ AcceptAgain(p)

-----------------------------------------------------------------------------
(***************************************************************************)
(* The threads that take and give back descriptors.                        *)
(***************************************************************************)
OthersUnchanged == Up /\ UNCHANGED <<mainVars, listenVars, run>>

SocketFails ==
  /\ accepted > 0 /\ free = 0
  /\ accepted' = accepted - 1
  /\ free' = free + 1
  /\ UNCHANGED <<connecting, conns, hups, closeMsgs, sweepMsg>> /\ OthersUnchanged

GetSocket ==
  /\ accepted > 0 /\ free > 0
  /\ accepted' = accepted - 1 /\ connecting' = connecting + 1
  /\ free' = free - 1
  /\ UNCHANGED <<conns, hups, closeMsgs, sweepMsg>> /\ OthersUnchanged

Connect ==
  /\ connecting > 0
  /\ connecting' = connecting - 1 /\ conns' = conns + 1
  /\ UNCHANGED <<free, accepted, hups, closeMsgs, sweepMsg>> /\ OthersUnchanged

\* connect() fails: the client's socket is closed, the other one is not.
ConnectFails ==
  /\ connecting > 0
  /\ connecting' = connecting - 1
  /\ free' = free + 1
  /\ UNCHANGED <<accepted, conns, hups, closeMsgs, sweepMsg>> /\ OthersUnchanged

\* Mutant: the destructor closes the peer's socket once more.
TearDown_ClosesTwice ==
  /\ closeMsgs > 0
  /\ closeMsgs' = closeMsgs - 1 /\ conns' = conns - 1
  /\ free' = free + 3
  /\ UNCHANGED <<accepted, connecting, hups, sweepMsg>> /\ OthersUnchanged

TearDown ==
  /\ closeMsgs > 0
  /\ closeMsgs' = closeMsgs - 1 /\ conns' = conns - 1
  /\ free' = free + 2
  /\ UNCHANGED <<accepted, connecting, hups, sweepMsg>> /\ OthersUnchanged

\* The idle sweep takes down any number of connections, of which some may have
\* been closed by a peer since.
Sweep ==
  /\ sweepMsg
  /\ \E idle \in 0 .. conns - hups - closeMsgs, hup \in 0 .. hups :
       /\ conns' = conns - idle - hup
       /\ hups' = hups - hup
       /\ free' = free + 2 * (idle + hup)
  /\ sweepMsg' = FALSE
  /\ UNCHANGED <<accepted, connecting, closeMsgs>> /\ OthersUnchanged

Worker == SocketFails \/ GetSocket \/ Connect \/ ConnectFails \/ TearDown \/ Sweep

-----------------------------------------------------------------------------
Next ==
  \/ Main \/ Signal \/ PeerCloses
  \/ \E p \in Configured : ClientConnects(p) \/ StartAccepting(p)
  \/ InHandler \/ DispatchHup \/ DispatchTimer \/ Leave \/ Worker

\* main, the handler and the other threads make progress; epoll's ready list is a
\* queue, so that what is on it is dispatched in its turn, and a stop is seen.
Fairness ==
  /\ WF_vars(Main) /\ WF_vars(InHandler) /\ WF_vars(Worker)
  /\ SF_vars(\E p \in Configured : StartAccepting(p)) /\ SF_vars(Leave)

Spec == Init /\ [][Next]_vars /\ Fairness

-----------------------------------------------------------------------------
\* The type of every variable.  No more descriptors are free than nobody holds:
\* what is missing was leaked by ConnectFails.
TypeOK ==
  /\ portStr \in Configs /\ ports \subseteq Configured /\ opened \subseteq Configured
  /\ busy \subseteq 1 .. PortSpace - 1
  /\ mainPc \in {"parse", "open", "register", "serve", "failed"}
  /\ backlog \in [Configured -> Nat] /\ clients \in Nat
  /\ ready \subseteq opened /\ accepting \subseteq opened
  /\ run \in {"running", "stopped", "left"}
  /\ {free, accepted, connecting, conns, hups, closeMsgs} \subseteq Nat
  /\ free + Cardinality(opened) + accepted + 2 * connecting + 2 * conns <= Fds
  /\ hups + closeMsgs <= conns
  /\ sweepMsg \in BOOLEAN

\* A client that waits on a watched listener is known to epoll or to the handler
\* that runs: edge-triggering would not report it again.
NoneForgotten ==
  \A p \in opened \ ports : backlog[p] > 0 => p \in ready \cup accepting

\* What an entry names that is a number, or two with a tilde between them.
Names(t, p) ==
  /\ p \in MinInt .. MaxInt
  /\ \/ t = <<p>>
     \/ /\ Len(t) = 3 /\ t[2] = Tilde /\ {t[1], t[3]} \subseteq MinInt .. MaxInt
        /\ p \in t[1] .. t[3]

\* The most that any other entry can stand for: the number it begins with, or the
\* ports from there to a number behind a tilde.
MayName(t, p) ==
  /\ t # <<>> /\ t[1] \in MinInt .. MaxInt
  /\ \/ p = t[1] /\ \A i \in 1 .. Len(t) : t[i] # Tilde
     \/ \E i, j \in 1 .. Len(t) :
          i < j /\ t[i] = Tilde /\ t[j] \in MinInt .. MaxInt /\ p \in t[1] .. t[j]

Meant(tokens)    == {p \in Configured : \E i \in 1 .. Len(tokens) : Names(tokens[i], p)}
Possible(tokens) == {p \in Configured : \E i \in 1 .. Len(tokens) : MayName(tokens[i], p)}

\* The server starts on every port that a well-formed entry of LISTEN_PORT names,
\* however the entries overlap and whatever stands between the other commas; on a
\* port more only if another entry begins with it, or with a smaller one that a
\* range starts from.  (For an entry Names accepts, MayName is the same.)  If it
\* does not start, a port belongs to someone else, is the same as another one
\* modulo 2^16, or a descriptor was missing.
StartsAsConfigured ==
  /\ mainPc = "serve" => Meant(portStr) \subseteq opened /\ opened \subseteq Possible(portStr)
  /\ mainPc = "failed" =>
       \/ \E p \in Possible(portStr) : p % PortSpace \in busy
       \/ \E p, q \in Possible(portStr) :
            p # q /\ p % PortSpace = q % PortSpace /\ p % PortSpace # 0
       \/ free = 0

\* The reactor calls accept() for ever: no descriptor is free, and no other thread
\* has anything to do that would free one.
Stuck ==
  /\ accepting # {} /\ free = 0
  /\ accepted = 0 /\ connecting = 0 /\ closeMsgs = 0 /\ ~sweepMsg

\* From there nothing leads back: neither peers that close, whose events are not
\* dispatched, nor a signal, whose stop is not seen.
StuckForGood == [][Stuck => Stuck']_vars

\* Everyone who connects is accepted, and a stop ends the reactor, unless it is
\* stuck: nothing else keeps it from what it has to do.
ReactorMovesOn ==
  []<>(\/ ~Up \/ Stuck
       \/ run # "stopped" /\ (run = "left" \/ \A p \in Configured : backlog[p] = 0))
=============================================================================
