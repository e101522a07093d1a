------------------------------- MODULE Relay --------------------------------
(***************************************************************************)
(* The data path of one established connection.  The bytes a peer writes   *)
(* arrive in the socket the server has for it; the message the reactor     *)
(* makes of the event reaches the client/server thread of that socket,     *)
(* which reads until the socket is empty, into a buffer of                 *)
(* RECV_BUFFER_SIZE bytes, and writes the buffer to the other socket.      *)
(*                                                                         *)
(* A byte is its number among those its peer wrote.  Reactor and queues    *)
(* are abstracted to "an event is due": ThreadGroup and ProxyLifecycle     *)
(* model them, and what happens to the threads after the connection has    *)
(* been taken down.                                                        *)
(***************************************************************************)
EXTENDS Naturals, Sequences

CONSTANTS
  BufferSize,  \* RECV_BUFFER_SIZE
  RcvBuf,      \* bytes the receive side of a socket holds
  SndBuf,      \* bytes the send side of a socket holds
  ByteBound    \* bound: bytes each peer writes

ASSUME RelayAssumption ==
  /\ BufferSize \in Nat \ {0} /\ RcvBuf \in Nat \ {0} /\ SndBuf \in Nat \ {0}
  /\ ByteBound \in Nat

Side     == {"client", "server"}
Other(s) == CHOOSE o \in Side : o # s

VARIABLES
  written,  \* [Side -> Nat], bytes each peer has written
  closed,   \* the peers that have closed
  rcv,      \* [Side -> Seq(Nat)], what the socket of the side has received
  due,      \* the sides with an event or a message on its way to their thread
  pc,       \* [Side -> "idle", "recv" or "send"], where that thread is
  buffer,   \* [Side -> Seq(Nat)], the first nTotalLength bytes of arrDataBuffer
  snd,      \* [Side -> Seq(Nat)], bytes of the side that the OTHER socket has
            \* accepted and the other peer has not read
  got,      \* [Side -> Seq(Nat)], bytes of the side that the other peer has read
  down      \* has the connection been taken down?

peerVars   == <<written, closed, got>>
threadVars == <<pc, buffer, down>>
vars == <<peerVars, rcv, due, threadVars, snd>>

Init ==
  /\ written = [s \in Side |-> 0] /\ closed = {}
  /\ rcv = [s \in Side |-> <<>>] /\ due = {}
  /\ pc = [s \in Side |-> "idle"] /\ buffer = [s \in Side |-> <<>>]
  /\ snd = [s \in Side |-> <<>>] /\ got = [s \in Side |-> <<>>]
  /\ down = FALSE

-----------------------------------------------------------------------------
(***************************************************************************)
(* The peers and the network.                                              *)
(***************************************************************************)
PeerWrites(s) ==
  /\ s \notin closed /\ ~down
  /\ written[s] < ByteBound /\ Len(rcv[s]) < RcvBuf
  /\ written' = [written EXCEPT ![s] = @ + 1]
  /\ rcv' = [rcv EXCEPT ![s] = Append(@, written'[s])]
  /\ due' = due \cup {s}
  /\ UNCHANGED <<closed, got, threadVars, snd>>

PeerReads(s) ==
  /\ s \notin closed /\ snd[Other(s)] # <<>>
  /\ got' = [got EXCEPT ![Other(s)] = Append(@, Head(snd[Other(s)]))]
  /\ snd' = [snd EXCEPT ![Other(s)] = Tail(@)]
  /\ UNCHANGED <<written, closed, rcv, due, threadVars>>

PeerCloses(s) ==
  /\ s \notin closed
  /\ closed' = closed \cup {s}
  /\ due' = IF down THEN due ELSE due \cup {s}
  /\ UNCHANGED <<written, got, rcv, threadVars, snd>>

-----------------------------------------------------------------------------
(***************************************************************************)
(* process_client_message and process_server_message.                      *)
(***************************************************************************)
At(s, p) == ~down /\ pc[s] = p

TakeMessage(s) ==
  /\ At(s, "idle") /\ s \in due
  /\ due' = due \ {s}
  /\ pc' = [pc EXCEPT ![s] = "recv"]
  /\ UNCHANGED <<peerVars, rcv, buffer, down, snd>>

\* recv() reads n bytes behind those it has read before.
Reads(s, n) ==
  /\ buffer' = [buffer EXCEPT ![s] = @ \o SubSeq(rcv[s], 1, n)]
  /\ rcv' = [rcv EXCEPT ![s] = SubSeq(@, n + 1, Len(@))]

\* Mutants: the length passed to recv() is that of the whole buffer; or there is
\* no loop around recv().
RecvData_WholeLength(s) ==
  /\ At(s, "recv") /\ rcv[s] # <<>> /\ Len(buffer[s]) < BufferSize
  /\ Reads(s, IF Len(rcv[s]) < BufferSize THEN Len(rcv[s]) ELSE BufferSize)
  /\ UNCHANGED <<peerVars, due, pc, down, snd>>

RecvData_Once(s) ==
  /\ At(s, "recv") /\ rcv[s] # <<>> /\ Len(buffer[s]) < BufferSize
  /\ Reads(s, 1)
  /\ pc' = [pc EXCEPT ![s] = "send"]
  /\ UNCHANGED <<peerVars, due, down, snd>>

\* recv() returns what there is, as far as it fits: nTotalLength never exceeds
\* RECV_BUFFER_SIZE, and the branch that returns enError is never taken.
RecvData(s) ==
  /\ At(s, "recv") /\ rcv[s] # <<>> /\ Len(buffer[s]) < BufferSize
  /\ LET room == BufferSize - Len(buffer[s])
     IN  Reads(s, IF Len(rcv[s]) < room THEN Len(rcv[s]) ELSE room)
  /\ UNCHANGED <<peerVars, due, pc, down, snd>>

\* EAGAIN.
RecvAgain(s) ==
  /\ At(s, "recv") /\ rcv[s] = <<>> /\ s \notin closed
  /\ pc' = [pc EXCEPT ![s] = "send"]
  /\ UNCHANGED <<peerVars, rcv, due, buffer, down, snd>>

\* unregister_tcp_event, close_socket, release_resource and delete: what was read
\* is discarded, and what was written to a socket may be, as SO_LINGER says.
TakeDown ==
  /\ down' = TRUE
  /\ \E n \in [Side -> 0 .. SndBuf] :
       snd' = [s \in Side |-> SubSeq(snd[s], 1,
                                     IF n[s] < Len(snd[s]) THEN n[s] ELSE Len(snd[s]))]
  /\ rcv' = [s \in Side |-> <<>>]
  /\ buffer' = [s \in Side |-> <<>>]
  /\ pc' = [s \in Side |-> "idle"]
  /\ due' = {}
  /\ UNCHANGED peerVars

\* Mutant: recv() returning 0 ends the loop like EAGAIN.
RecvEof_AsAgain(s) ==
  /\ At(s, "recv") /\ rcv[s] = <<>> /\ s \in closed
  /\ pc' = [pc EXCEPT ![s] = "send"]
  /\ UNCHANGED <<peerVars, rcv, due, buffer, down, snd>>

\* recv() returns 0, or an error of a connection that was reset.
RecvEof(s) ==
  /\ At(s, "recv") /\ rcv[s] = <<>> /\ s \in closed
  /\ TakeDown

\* The buffer is full and there is more: recv() is called with length 0, and its
\* return value, 0, is taken for the close of the peer.
RecvFull(s) ==
  /\ At(s, "recv") /\ rcv[s] # <<>> /\ Len(buffer[s]) = BufferSize
  /\ TakeDown

\* Mutant: a send that does not fit fails as a whole.
Send_AllOrNothing(s) ==
  /\ At(s, "send")
  /\ snd' = [snd EXCEPT ![s] = IF Len(@) + Len(buffer[s]) <= SndBuf
                               THEN @ \o buffer[s] ELSE @]
  /\ buffer' = [buffer EXCEPT ![s] = <<>>]
  /\ pc' = [pc EXCEPT ![s] = "idle"]
  /\ UNCHANGED <<peerVars, rcv, due, down>>

\* send() takes what fits; nobody looks at how much that was.
Send(s) ==
  /\ At(s, "send")
  /\ snd' = [snd EXCEPT ![s] = LET all == @ \o buffer[s]
                               IN  SubSeq(all, 1, IF Len(all) < SndBuf
                                                  THEN Len(all) ELSE SndBuf)]
  /\ buffer' = [buffer EXCEPT ![s] = <<>>]
  /\ pc' = [pc EXCEPT ![s] = "idle"]
  /\ UNCHANGED <<peerVars, rcv, due, down>>

-----------------------------------------------------------------------------
Peer(s)   == PeerWrites(s) \/ PeerReads(s) \/ PeerCloses(s)
Thread(s) ==
  \/ TakeMessage(s) \/ RecvData(s) \/ RecvAgain(s) \/ RecvEof(s) \/ RecvFull(s)
  \/ Send(s)

Next == \E s \in Side : Peer(s) \/ Thread(s)

\* Events are dispatched and the threads scheduled; a peer that has not closed
\* reads what reaches it.  No peer has to write or to close.
Fairness == \A s \in Side : WF_vars(Thread(s)) /\ WF_vars(PeerReads(s))

SafetySpec == Init /\ [][Next]_vars
Spec == SafetySpec /\ Fairness

-----------------------------------------------------------------------------
\* The type of every variable.  nTotalLength stays within arrDataBuffer.
TypeOK ==
  /\ written \in [Side -> Nat] /\ closed \subseteq Side
  /\ rcv \in [Side -> Seq(Nat)] /\ due \subseteq Side
  /\ pc \in [Side -> {"idle", "recv", "send"}]
  /\ buffer \in [Side -> Seq(Nat)]
  /\ \A s \in Side : Len(buffer[s]) <= BufferSize
  /\ snd \in [Side -> Seq(Nat)] /\ got \in [Side -> Seq(Nat)]
  /\ \A s \in Side : Len(snd[s]) <= SndBuf
  /\ down \in BOOLEAN

\* The bytes of s that were written and neither read by the other peer nor lost.
Transit(s) == snd[s] \o buffer[s] \o rcv[s]

\* Bytes are relayed in order, and lost only where Pipe allows it: when more were
\* under way than the receiver's socket holds, or when the connection was cut,
\* after a close or because of more than RECV_BUFFER_SIZE bytes.
Connection == INSTANCE Pipe WITH
                Room <- SndBuf, Buffer <- BufferSize,
                transit <- [s \in Side |-> Transit(s)], cut <- down

ImplementsPipe == Connection!Spec

\* The relay holds nothing for ever: whatever is written is read by the other
\* peer or lost, while neither has closed.
NothingIsStuck == []<>(closed # {} \/ \A s \in Side : Transit(s) = <<>>)

\* The close of one peer ends the connection, whatever the other does.
CloseEndsBoth == []<>(closed = {} \/ down)

\* recv() == 0 means "peer close".
DownOnlyByClose == down => closed # {}
=============================================================================
