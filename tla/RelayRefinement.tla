-------------------------- MODULE RelayRefinement --------------------------
(***************************************************************************)
(* Relay implements Pipe, for buffers of any size and any number of bytes. *)
(* The bytes in transit are those in the other socket, in arrDataBuffer    *)
(* and in the socket of their peer, in this order.                         *)
(***************************************************************************)
EXTENDS Relay, Integers, SequenceTheorems, TLAPS

Bytes == Seq(Nat)

-----------------------------------------------------------------------------
\* The part of a sequence from its beginning, and the rest of it, are sequences, and
\* together they are the sequence.
LEMMA Split ==
  ASSUME NEW q \in Bytes, NEW n \in Nat, n <= Len(q)
  PROVE  /\ SubSeq(q, 1, n) \in Bytes /\ Len(SubSeq(q, 1, n)) = n
         /\ SubSeq(q, n + 1, Len(q)) \in Bytes
         /\ SubSeq(q, 1, n) \o SubSeq(q, n + 1, Len(q)) = q
<1>. USE DEF Bytes
<1>1. Len(q) \in Nat /\ \A i \in 1 .. Len(q) : q[i] \in Nat
  BY LenProperties, ElementOfSeq
<1>2. SubSeq(q, 1, n) \in Bytes /\ Len(SubSeq(q, 1, n)) = n
  <2>1. \A i \in 1 .. n : q[i] \in Nat
    BY <1>1
  <2>. QED  BY <2>1, SubSeqProperties
<1>3. SubSeq(q, n + 1, Len(q)) \in Bytes
  <2>1. \A i \in n + 1 .. Len(q) : q[i] \in Nat
    BY <1>1
  <2>2. n + 1 \in Int /\ Len(q) \in Int
    BY <1>1
  <2>. QED  BY <2>1, <2>2, SubSeqProperties
<1>4. SubSeq(q, 1, n) \o SubSeq(q, n + 1, Len(q)) = SubSeq(q, 1, Len(q))
  <2>1. 1 \in 1 .. Len(q) + 1 /\ n \in 1 - 1 .. Len(q) /\ Len(q) \in n .. Len(q)
    BY <1>1
  <2>. QED  BY <2>1, ConcatAdjacentSubSeq
<1>. QED  BY <1>2, <1>3, <1>4, SubSeqFull

\* A beginning of p \o q that lies in p is a beginning of p.
LEMMA Beginning ==
  ASSUME NEW p \in Bytes, NEW q \in Bytes, NEW n \in Nat, n <= Len(p)
  PROVE  SubSeq(p \o q, 1, n) = SubSeq(p, 1, n)
<1>. USE DEF Bytes
<1>1. Len(p) \in Nat
  BY LenProperties
<1>2. CASE n = 0
  BY <1>2, SubSeqEmpty
<1>3. CASE n # 0
  <2>1. 1 \in 1 .. Len(p) /\ n \in 1 .. Len(p)
    BY <1>1, <1>3
  <2>. QED  BY <2>1, SubSeqOfConcat1
<1>. QED  BY <1>2, <1>3

\* What follows p in p \o q is q.
LEMMA Ending ==
  ASSUME NEW p \in Bytes, NEW q \in Bytes
  PROVE  SubSeq(p \o q, Len(p) + 1, Len(p \o q)) = q
<1>. USE DEF Bytes
<1>1. Len(p) \in Nat /\ Len(q) \in Nat /\ Len(p \o q) = Len(p) + Len(q)
  BY LenProperties, ConcatProperties
<1>2. CASE Len(q) = 0
  BY <1>1, <1>2, SubSeqEmpty, EmptySeq
<1>3. CASE Len(q) # 0
  <2>1. /\ Len(p) + 1 \in Len(p) + 1 .. Len(p) + Len(q)
        /\ Len(p) + Len(q) \in Len(p) + 1 .. Len(p) + Len(q)
    BY <1>1, <1>3
  <2>2. SubSeq(p \o q, Len(p) + 1, Len(p) + Len(q))
          = SubSeq(q, Len(p) + 1 - Len(p), Len(p) + Len(q) - Len(p))
    BY <2>1, SubSeqOfConcat2
  <2>3. Len(p) + 1 - Len(p) = 1 /\ Len(p) + Len(q) - Len(p) = Len(q)
    BY <1>1
  <2>. QED  BY <1>1, <2>2, <2>3, SubSeqFull
<1>. QED  BY <1>2, <1>3

\* How sequences are put together does not matter.
LEMMA Associative == \A p, q, r \in Bytes : (p \o q) \o r = p \o (q \o r)
BY ConcatAssociative, SMTT(60) DEF Bytes

-----------------------------------------------------------------------------
\* The other side of a connection.
LEMMA OtherSide ==
  /\ Other("client") = "server" /\ Other("server") = "client"
  /\ \A s \in Side : Other(s) \in Side /\ Other(s) # s /\ Other(Other(s)) = s
<1>1. Other("client") = "server"
  BY DEF Other, Side
<1>2. Other("server") = "client"
  BY DEF Other, Side
<1>. QED  BY <1>1, <1>2 DEF Side

\* What TakeDown leaves in the sockets.
LEMMA CutShort ==
  ASSUME TypeOK, NEW n \in [Side -> 0 .. SndBuf], NEW s \in Side
  PROVE  LET m == IF n[s] < Len(snd[s]) THEN n[s] ELSE Len(snd[s])
         IN  m \in Nat /\ m <= Len(snd[s])
<1>1. Len(snd[s]) \in Nat
  BY LenProperties DEF TypeOK
<1>2. n[s] \in Nat
  BY RelayAssumption
<1>. QED  BY <1>1, <1>2

\* The three places of the bytes in transit.
LEMMA Parts ==
  ASSUME TypeOK, NEW s \in Side
  PROVE  /\ snd[s] \in Bytes /\ buffer[s] \in Bytes /\ rcv[s] \in Bytes
         /\ got[s] \in Bytes /\ written[s] \in Nat
         /\ Len(snd[s]) \in Nat /\ Len(buffer[s]) \in Nat /\ Len(rcv[s]) \in Nat
         /\ snd[s] \o buffer[s] \in Bytes /\ Transit(s) \in Bytes
         /\ Len(Transit(s)) = Len(snd[s]) + Len(buffer[s]) + Len(rcv[s])
<1>. USE DEF Bytes
<1>1. /\ snd[s] \in Bytes /\ buffer[s] \in Bytes /\ rcv[s] \in Bytes
      /\ got[s] \in Bytes /\ written[s] \in Nat
  BY DEF TypeOK
<1>2. /\ snd[s] \o buffer[s] \in Bytes
      /\ Len(snd[s] \o buffer[s]) = Len(snd[s]) + Len(buffer[s])
  BY <1>1, ConcatProperties
<1>3. /\ Transit(s) \in Bytes
      /\ Len(Transit(s)) = Len(snd[s] \o buffer[s]) + Len(rcv[s])
  BY <1>1, <1>2, ConcatProperties DEF Transit
<1>. QED  BY <1>1, <1>2, <1>3, LenProperties

-----------------------------------------------------------------------------
\* The steps of a peer keep the types.
LEMMA PeerTypes == ASSUME TypeOK, NEW s \in Side, Peer(s) PROVE TypeOK'
<1>. USE DEF peerVars, threadVars, Bytes
<1>1. CASE PeerWrites(s)
  <2>1. written' \in [Side -> Nat]
    BY <1>1 DEF PeerWrites, TypeOK
  <2>2. Append(rcv[s], written'[s]) \in Bytes
    BY <2>1, Parts, AppendProperties
  <2>. QED  BY <1>1, <2>1, <2>2 DEF PeerWrites, TypeOK
<1>2. CASE PeerReads(s)
  <2>. DEFINE o == Other(s)
  <2>1. o \in Side
    BY OtherSide
  <2>2. snd[o] # <<>>
    BY <1>2 DEF PeerReads
  <2>. HIDE DEF o
  <2>3. /\ Tail(snd[o]) \in Bytes /\ Len(Tail(snd[o])) = Len(snd[o]) - 1
        /\ Head(snd[o]) \in Nat
    BY <2>1, <2>2, Parts, HeadTailProperties
  <2>4. Append(got[o], Head(snd[o])) \in Bytes
    BY <2>1, <2>3, Parts, AppendProperties
  <2>5. Len(Tail(snd[o])) <= SndBuf
    BY <2>1, <2>3, Parts, RelayAssumption DEF TypeOK
  <2>6. /\ got' = [got EXCEPT ![o] = Append(got[o], Head(snd[o]))]
        /\ snd' = [snd EXCEPT ![o] = Tail(snd[o])]
        /\ UNCHANGED <<written, closed, rcv, due, threadVars>>
    BY <1>2 DEF PeerReads, o
  <2>. QED  BY <2>1, <2>3, <2>4, <2>5, <2>6 DEF TypeOK
<1>3. CASE PeerCloses(s)
  BY <1>3 DEF PeerCloses, TypeOK
<1>. QED  BY <1>1, <1>2, <1>3 DEF Peer

\* What recv() is asked for fits into arrDataBuffer, and what it returns is there.
LEMMA RecvDataFacts ==
  ASSUME TypeOK, NEW s \in Side, RecvData(s)
  PROVE  \E n \in Nat : /\ n <= Len(rcv[s]) /\ Len(buffer[s]) + n <= BufferSize
                        /\ Reads(s, n)
<1>. DEFINE room == BufferSize - Len(buffer[s])
            n == IF Len(rcv[s]) < room THEN Len(rcv[s]) ELSE room
<1>1. Reads(s, n) /\ Len(buffer[s]) < BufferSize
  BY DEF RecvData
<1>2. Len(rcv[s]) \in Nat /\ Len(buffer[s]) \in Nat /\ BufferSize \in Nat
  BY Parts, RelayAssumption
<1>3. n \in Nat /\ n <= Len(rcv[s]) /\ Len(buffer[s]) + n <= BufferSize
  <2>1. Len(buffer[s]) < BufferSize
    BY <1>1
  <2>2. \A l, b, z \in Nat :
          b < z => LET f == IF l < z - b THEN l ELSE z - b
                   IN  f \in Nat /\ f <= l /\ b + f <= z
    OBVIOUS
  <2>. QED  BY <1>2, <2>1, <2>2
<1>. QED  BY <1>1, <1>3

\* A tear-down keeps the types.
LEMMA TakeDownTypes == ASSUME TypeOK, TakeDown PROVE TypeOK'
<1>1. PICK n \in [Side -> 0 .. SndBuf] :
        snd' = [s \in Side |-> SubSeq(snd[s], 1,
                                     IF n[s] < Len(snd[s]) THEN n[s] ELSE Len(snd[s]))]
  BY DEF TakeDown
<1>2. ASSUME NEW s \in Side
      PROVE  snd'[s] \in Bytes /\ Len(snd'[s]) <= Len(snd[s]) /\ Len(snd'[s]) \in Nat
  <2>. DEFINE m == IF n[s] < Len(snd[s]) THEN n[s] ELSE Len(snd[s])
  <2>1. m \in Nat /\ m <= Len(snd[s])
    BY CutShort
  <2>2. snd'[s] = SubSeq(snd[s], 1, m)
    BY <1>1
  <2>. HIDE DEF m
  <2>3. snd[s] \in Bytes
    BY Parts
  <2>4. SubSeq(snd[s], 1, m) \in Bytes /\ Len(SubSeq(snd[s], 1, m)) = m
    BY <2>1, <2>3, Split
  <2>. QED  BY <2>1, <2>2, <2>4
<1>3. snd' \in [Side -> Bytes] /\ \A s \in Side : Len(snd'[s]) <= SndBuf
  <2>1. ASSUME NEW s \in Side PROVE Len(snd'[s]) <= SndBuf
    BY <1>2, Parts, RelayAssumption DEF TypeOK
  <2>. QED  BY <1>1, <1>2, <2>1
<1>4. <<>> \in Bytes /\ Len(<<>>) <= BufferSize
  BY EmptySeq, RelayAssumption DEF Bytes
<1>. QED  BY <1>3, <1>4 DEF TakeDown, TypeOK, Bytes, peerVars

\* What Send puts into the other socket, and what is left of a sequence.
LEMMA SendFacts ==
  ASSUME TypeOK, NEW s \in Side, Send(s)
  PROVE  LET all == snd[s] \o buffer[s]
         IN  /\ all \in Bytes /\ Len(all) \in Nat
             /\ snd'[s] \in Bytes /\ Len(snd'[s]) <= SndBuf
             /\ \/ snd'[s] = all
                \/ Len(all) > SndBuf /\ snd'[s] = SubSeq(all, 1, SndBuf)
             /\ snd' = [snd EXCEPT ![s] = snd'[s]]
<1>. DEFINE all == snd[s] \o buffer[s]
<1>1. all \in Bytes /\ Len(all) \in Nat
  BY Parts, LenProperties DEF Bytes
<1>2. snd' = [snd EXCEPT ![s] = SubSeq(all, 1, IF Len(all) < SndBuf THEN Len(all) ELSE SndBuf)]
  BY DEF Send
<1>. HIDE DEF all
<1>3. snd'[s] = SubSeq(all, 1, IF Len(all) < SndBuf THEN Len(all) ELSE SndBuf)
  BY <1>2 DEF TypeOK
<1>4. CASE Len(all) <= SndBuf
  <2>1. snd'[s] = SubSeq(all, 1, Len(all))
    BY <1>1, <1>3, <1>4, RelayAssumption
  <2>2. snd'[s] = all
    BY <1>1, <2>1, SubSeqFull DEF Bytes
  <2>. QED  BY <1>1, <1>2, <1>3, <1>4, <2>2 DEF all
<1>5. CASE Len(all) > SndBuf
  <2>1. snd'[s] = SubSeq(all, 1, SndBuf)
    BY <1>1, <1>3, <1>5, RelayAssumption
  <2>2. snd'[s] \in Bytes /\ Len(snd'[s]) = SndBuf
    <3>1. SndBuf \in Nat /\ SndBuf <= Len(all)
      BY <1>1, <1>5, RelayAssumption
    <3>. QED  BY <1>1, <2>1, <3>1, Split
  <2>3. SndBuf <= SndBuf
    BY RelayAssumption
  <2>4. snd' = [snd EXCEPT ![s] = snd'[s]]
    BY <1>2, <1>3
  <2>. QED  BY <1>1, <1>5, <2>1, <2>2, <2>3, <2>4 DEF all
<1>6. Len(all) <= SndBuf \/ Len(all) > SndBuf
  BY <1>1, RelayAssumption
<1>. QED  BY <1>4, <1>5, <1>6

\* The steps of a client/server thread keep the types.
LEMMA ThreadTypes == ASSUME TypeOK, NEW s \in Side, Thread(s) PROVE TypeOK'
<1>. USE DEF peerVars
<1>1. CASE TakeMessage(s) \/ RecvAgain(s)
  BY <1>1 DEF TakeMessage, RecvAgain, TypeOK
<1>2. CASE RecvData(s)
  <2>1. PICK n \in Nat : /\ n <= Len(rcv[s]) /\ Len(buffer[s]) + n <= BufferSize
                         /\ Reads(s, n)
    BY <1>2, RecvDataFacts
  <2>2. /\ SubSeq(rcv[s], 1, n) \in Bytes /\ Len(SubSeq(rcv[s], 1, n)) = n
        /\ SubSeq(rcv[s], n + 1, Len(rcv[s])) \in Bytes
    BY <2>1, Parts, Split
  <2>3. /\ buffer[s] \o SubSeq(rcv[s], 1, n) \in Bytes
        /\ Len(buffer[s] \o SubSeq(rcv[s], 1, n)) = Len(buffer[s]) + n
    <3>1. buffer[s] \in Bytes
      BY Parts
    <3>2. \A t \in Bytes : /\ buffer[s] \o t \in Bytes
                            /\ Len(buffer[s] \o t) = Len(buffer[s]) + Len(t)
      BY <3>1, ConcatProperties DEF Bytes
    <3>. QED  BY <2>2, <3>2
  <2>4. /\ buffer' = [buffer EXCEPT ![s] = buffer[s] \o SubSeq(rcv[s], 1, n)]
        /\ rcv' = [rcv EXCEPT ![s] = SubSeq(rcv[s], n + 1, Len(rcv[s]))]
        /\ UNCHANGED <<peerVars, due, pc, down, snd>>
    BY <1>2, <2>1 DEF RecvData, Reads
  <2>. QED  BY <2>1, <2>2, <2>3, <2>4 DEF TypeOK, Bytes
<1>3. CASE RecvEof(s) \/ RecvFull(s)
  BY <1>3, TakeDownTypes DEF RecvEof, RecvFull
<1>4. CASE Send(s)
  <2>1. <<>> \in Bytes /\ Len(<<>>) <= BufferSize
    BY EmptySeq, RelayAssumption DEF Bytes
  <2>2. snd' \in [Side -> Bytes] /\ \A r \in Side : Len(snd'[r]) <= SndBuf
    BY <1>4, SendFacts DEF TypeOK, Bytes
  <2>. QED  BY <1>4, <2>1, <2>2 DEF Send, TypeOK, Bytes
<1>. QED  BY <1>1, <1>2, <1>3, <1>4 DEF Thread

\* The initial state has the types.
LEMMA InitTypes == ASSUME Init PROVE TypeOK
<1>1. <<>> \in Bytes /\ Len(<<>>) = 0
  BY EmptySeq DEF Bytes
<1>2. 0 \in Nat /\ 0 <= BufferSize /\ 0 <= SndBuf
  BY RelayAssumption
<1>. QED  BY <1>1, <1>2 DEF Init, TypeOK, Bytes

\* Every step keeps the types.
LEMMA NextTypes == ASSUME TypeOK, [Next]_vars PROVE TypeOK'
<1>1. CASE Next
  BY <1>1, PeerTypes, ThreadTypes DEF Next
<1>2. CASE UNCHANGED vars
  BY <1>2 DEF vars, peerVars, threadVars, TypeOK
<1>. QED  BY <1>1, <1>2

\* process_client_message and process_server_message never have more than
\* RECV_BUFFER_SIZE bytes in arrDataBuffer: the branch for that is dead code.
THEOREM RelayTypes == SafetySpec => []TypeOK
<1>1. Init => TypeOK
  BY InitTypes
<1>2. TypeOK /\ [Next]_vars => TypeOK'
  BY NextTypes
<1>. QED  BY <1>1, <1>2, PTL DEF SafetySpec

-----------------------------------------------------------------------------
\* Who reads the first byte of p \o q reads that of p, if there is one.
LEMMA HeadTailConcat ==
  ASSUME NEW p \in Bytes, NEW q \in Bytes, p # <<>>
  PROVE  /\ p \o q # <<>> /\ Head(p \o q) = Head(p)
         /\ Tail(p \o q) = Tail(p) \o q
<1>. USE DEF Bytes
<1>1. /\ Len(p) \in Nat \ {0} /\ Len(q) \in Nat
      /\ p \o q \in Bytes /\ Len(p \o q) = Len(p) + Len(q)
  BY EmptySeq, LenProperties, ConcatProperties
<1>2. p \o q # <<>>
  BY <1>1, EmptySeq
<1>3. /\ Tail(p) \in Bytes /\ Len(Tail(p)) = Len(p) - 1
      /\ \A i \in 1 .. Len(Tail(p)) : Tail(p)[i] = p[i + 1]
  BY HeadTailProperties
<1>4. /\ Tail(p \o q) \in Bytes /\ Len(Tail(p \o q)) = Len(p) + Len(q) - 1
      /\ \A i \in 1 .. Len(Tail(p \o q)) : Tail(p \o q)[i] = (p \o q)[i + 1]
  BY <1>1, <1>2, HeadTailProperties
<1>5. /\ Tail(p) \o q \in Bytes /\ Len(Tail(p) \o q) = Len(p) + Len(q) - 1
      /\ \A i \in 1 .. Len(Tail(p)) + Len(q) :
           (Tail(p) \o q)[i] = IF i <= Len(Tail(p)) THEN Tail(p)[i]
                                                     ELSE q[i - Len(Tail(p))]
  BY <1>1, <1>3, ConcatProperties
<1>6. \A i \in 1 .. Len(p) + Len(q) : (p \o q)[i] = IF i <= Len(p) THEN p[i]
                                                                  ELSE q[i - Len(p)]
  BY ConcatProperties
<1>7. ASSUME NEW i \in 1 .. Len(Tail(p \o q)) PROVE Tail(p \o q)[i] = (Tail(p) \o q)[i]
  <2>1. /\ i \in Nat /\ i + 1 \in 1 .. Len(p) + Len(q)
        /\ i \in 1 .. Len(Tail(p)) + Len(q)
        /\ (i + 1 <= Len(p) <=> i <= Len(Tail(p)))
        /\ i + 1 - Len(p) = i - Len(Tail(p))
        /\ (i <= Len(Tail(p)) => i \in 1 .. Len(Tail(p)))
    BY <1>1, <1>3, <1>4
  <2>2. (p \o q)[i + 1] = IF i + 1 <= Len(p) THEN p[i + 1] ELSE q[i + 1 - Len(p)]
    BY <1>6, <2>1
  <2>3. (Tail(p) \o q)[i] = IF i <= Len(Tail(p)) THEN Tail(p)[i] ELSE q[i - Len(Tail(p))]
    BY <1>5, <2>1
  <2>4. i <= Len(Tail(p)) => Tail(p)[i] = p[i + 1]
    BY <1>3, <2>1
  <2>5. Tail(p \o q)[i] = (p \o q)[i + 1]
    BY <1>4
  <2>. QED  BY <2>1, <2>2, <2>3, <2>4, <2>5
<1>8. Tail(p \o q) = Tail(p) \o q
  BY <1>4, <1>5, <1>7, SeqEqual
<1>9. Head(p \o q) = Head(p)
  <2>1. Head(p \o q) = (p \o q)[1] /\ Head(p) = p[1]
    OBVIOUS
  <2>2. 1 \in 1 .. Len(p) + Len(q) /\ 1 <= Len(p)
    BY <1>1
  <2>. QED  BY <1>6, <2>1, <2>2
<1>. QED  BY <1>2, <1>8, <1>9

-----------------------------------------------------------------------------
\* The value of Pipe's variable transit.
Under == [s \in Side |-> Transit(s)]

\* If only the bytes of side s have moved.
LEMMA OneMoves ==
  ASSUME NEW s \in Side,
         \A r \in Side \ {s} :
           snd'[r] = snd[r] /\ buffer'[r] = buffer[r] /\ rcv'[r] = rcv[r]
  PROVE  Under' = [Under EXCEPT ![s] = snd'[s] \o buffer'[s] \o rcv'[s]]
BY DEF Under, Transit

\* A peer writes: its byte is the last in transit.
LEMMA WritesSimulates ==
  ASSUME TypeOK, NEW s \in Side, PeerWrites(s) PROVE Connection!Write(s)
<1>. DEFINE w == written'[s]
            front == snd[s] \o buffer[s]
<1>1. /\ rcv' = [rcv EXCEPT ![s] = Append(rcv[s], w)]
      /\ UNCHANGED <<snd, buffer, got, closed, down>>
  BY DEF PeerWrites, threadVars
<1>2. rcv'[s] = Append(rcv[s], w)
  BY <1>1 DEF TypeOK
<1>3. w \in Nat
  BY DEF PeerWrites, TypeOK
<1>. HIDE DEF w
<1>4. front \o Append(rcv[s], w) = Append(Transit(s), w)
  <2>1. front \in Bytes /\ rcv[s] \in Bytes /\ Transit(s) \in Bytes
    BY Parts
  <2>2. <<w>> \in Bytes
    BY <1>3 DEF Bytes
  <2>3. Append(rcv[s], w) = rcv[s] \o <<w>> /\ Append(Transit(s), w) = Transit(s) \o <<w>>
    BY <1>3, <2>1, AppendIsConcat DEF Bytes
  <2>4. (front \o rcv[s]) \o <<w>> = front \o (rcv[s] \o <<w>>)
    <3>. HIDE DEF front
    <3>. QED  BY <2>1, <2>2, Associative
  <2>. QED  BY <2>3, <2>4 DEF Transit
<1>5. Under' = [Under EXCEPT ![s] = snd'[s] \o buffer'[s] \o rcv'[s]]
  BY <1>1, OneMoves DEF TypeOK
<1>6. Under' = [Under EXCEPT ![s] = Append(Under[s], w)]
  BY <1>1, <1>2, <1>4, <1>5 DEF Under
<1>. QED  BY <1>1, <1>6 DEF PeerWrites, Connection!Write, Under, w

\* A peer reads the first byte in transit to it.
LEMMA ReadsSimulates ==
  ASSUME TypeOK, NEW s \in Side, PeerReads(s) PROVE Connection!Deliver(Other(s))
<1>. DEFINE o == Other(s)
<1>1. o \in Side /\ s \in Side \ {o}
  BY OtherSide
<1>2. /\ s \notin closed /\ snd[o] # <<>>
      /\ got' = [got EXCEPT ![o] = Append(got[o], Head(snd[o]))]
      /\ snd' = [snd EXCEPT ![o] = Tail(snd[o])]
      /\ UNCHANGED <<written, closed, rcv, buffer, down>>
  BY DEF PeerReads, threadVars
<1>. HIDE DEF o
<1>3. snd[o] \in Bytes /\ buffer[o] \in Bytes /\ rcv[o] \in Bytes
      /\ snd[o] \o buffer[o] \in Bytes
  BY <1>1, Parts
<1>4. /\ snd[o] \o buffer[o] # <<>> /\ Head(snd[o] \o buffer[o]) = Head(snd[o])
      /\ Tail(snd[o] \o buffer[o]) = Tail(snd[o]) \o buffer[o]
  BY <1>2, <1>3, HeadTailConcat
<1>5. /\ Transit(o) # <<>> /\ Head(Transit(o)) = Head(snd[o])
      /\ Tail(Transit(o)) = Tail(snd[o]) \o buffer[o] \o rcv[o]
  <2>1. \A a, b \in Bytes :
          a # <<>> => /\ a \o b # <<>> /\ Head(a \o b) = Head(a)
                      /\ Tail(a \o b) = Tail(a) \o b
    BY HeadTailConcat
  <2>. DEFINE front == snd[o] \o buffer[o]
  <2>2. front \in Bytes /\ front # <<>> /\ Head(front) = Head(snd[o])
        /\ Tail(front) = Tail(snd[o]) \o buffer[o]
    BY <1>3, <1>4
  <2>3. Transit(o) = front \o rcv[o]
    BY DEF Transit
  <2>. HIDE DEF front
  <2>4. /\ front \o rcv[o] # <<>> /\ Head(front \o rcv[o]) = Head(front)
        /\ Tail(front \o rcv[o]) = Tail(front) \o rcv[o]
    <3>1. rcv[o] \in Bytes
      BY <1>3
    <3>. QED  BY <2>1, <2>2, <3>1, Zenon
  <2>. QED  BY <2>2, <2>3, <2>4, Zenon
<1>6. snd'[o] = Tail(snd[o])
  BY <1>1, <1>2 DEF TypeOK
<1>7. Under' = [Under EXCEPT ![o] = snd'[o] \o buffer'[o] \o rcv'[o]]
  BY <1>1, <1>2, OneMoves DEF TypeOK
<1>8. Under' = [Under EXCEPT ![o] = Tail(Under[o])]
  BY <1>1, <1>2, <1>5, <1>6, <1>7 DEF Under
<1>9. Under[o] # <<>> /\ got' = [got EXCEPT ![o] = Append(got[o], Head(Under[o]))]
  BY <1>1, <1>2, <1>5 DEF Under
<1>10. ~(Side \ {o} \subseteq closed)
  BY <1>1, <1>2
<1>. QED  BY <1>2, <1>8, <1>9, <1>10 DEF Connection!Deliver, Under, o

\* A peer closes; the relay has not noticed yet.
LEMMA ClosesSimulates ==
  ASSUME TypeOK, NEW s \in Side, PeerCloses(s) PROVE Connection!Close(s)
<1>1. UNCHANGED <<written, got, snd, buffer, rcv, down>>
  BY DEF PeerCloses, threadVars
<1>2. Under' = Under
  BY <1>1 DEF Under, Transit
<1>. QED  BY <1>1, <1>2 DEF PeerCloses, Connection!Close, Under

\* recv() moves bytes from one place in transit to the next.
LEMMA RecvStutters ==
  ASSUME TypeOK, NEW s \in Side, RecvData(s)
  PROVE  Under' = Under /\ UNCHANGED <<written, got, closed, down>>
<1>1. PICK n \in Nat : n <= Len(rcv[s]) /\ Reads(s, n)
  BY RecvDataFacts
<1>. DEFINE a == SubSeq(rcv[s], 1, n)
            b == SubSeq(rcv[s], n + 1, Len(rcv[s]))
<1>2. snd[s] \in Bytes /\ buffer[s] \in Bytes /\ rcv[s] \in Bytes
  BY Parts
<1>3. a \in Bytes /\ b \in Bytes /\ a \o b = rcv[s]
  BY <1>1, <1>2, Split
<1>4. /\ buffer' = [buffer EXCEPT ![s] = buffer[s] \o a]
      /\ rcv' = [rcv EXCEPT ![s] = b]
      /\ UNCHANGED <<written, got, closed, down, snd>>
  BY <1>1 DEF Reads, RecvData, peerVars
<1>. HIDE DEF a, b
<1>5. snd[s] \o (buffer[s] \o a) \o b = snd[s] \o buffer[s] \o rcv[s]
  <2>1. \A p, q, r \in Bytes : (p \o q) \o r = p \o (q \o r)
    BY Associative
  <2>2. (snd[s] \o buffer[s]) \o a = snd[s] \o (buffer[s] \o a)
    BY <1>2, <1>3, <2>1
  <2>3. snd[s] \o buffer[s] \in Bytes
    BY Parts
  <2>4. ((snd[s] \o buffer[s]) \o a) \o b = (snd[s] \o buffer[s]) \o (a \o b)
    BY <1>3, <2>1, <2>3
  <2>. QED  BY <1>3, <2>2, <2>4
<1>6. Under' = [Under EXCEPT ![s] = snd'[s] \o buffer'[s] \o rcv'[s]]
  BY <1>4, OneMoves DEF TypeOK
<1>7. buffer'[s] = buffer[s] \o a /\ rcv'[s] = b /\ snd'[s] = snd[s]
  BY <1>4 DEF TypeOK
<1>8. snd'[s] \o buffer'[s] \o rcv'[s] = Under[s]
  BY <1>5, <1>7 DEF Under, Transit
<1>. QED  BY <1>4, <1>6, <1>8 DEF Under

\* A tear-down leaves what the peers may still read; it comes after a close, or
\* when there are more bytes in transit than arrDataBuffer holds.
LEMMA TakeDownCuts ==
  ASSUME TypeOK, NEW s \in Side, RecvEof(s) \/ RecvFull(s) PROVE Connection!Cut
<1>1. TakeDown /\ ~down
  BY DEF RecvEof, RecvFull, At
<1>2. closed # {} \/ Len(Under[s]) > BufferSize
  <2>1. CASE RecvEof(s)
    BY <2>1 DEF RecvEof
  <2>2. CASE RecvFull(s)
    <3>1. rcv[s] # <<>> /\ Len(buffer[s]) = BufferSize
      BY <2>2 DEF RecvFull
    <3>2. Len(rcv[s]) > 0
      BY <3>1, Parts, EmptySeq DEF Bytes
    <3>3. Len(Transit(s)) > BufferSize
      <4>1. Len(Transit(s)) = Len(snd[s]) + Len(buffer[s]) + Len(rcv[s])
            /\ Len(snd[s]) \in Nat /\ Len(rcv[s]) \in Nat /\ BufferSize \in Nat
        BY Parts, RelayAssumption
      <4>2. \A x, y, z \in Nat : z > 0 => x + y + z > y
        OBVIOUS
      <4>. QED  BY <3>1, <3>2, <4>1, <4>2
    <3>. QED  BY <3>3 DEF Under
  <2>. QED  BY <2>1, <2>2
<1>3. PICK n \in [Side -> 0 .. SndBuf] :
        snd' = [r \in Side |-> SubSeq(snd[r], 1,
                                     IF n[r] < Len(snd[r]) THEN n[r] ELSE Len(snd[r]))]
  BY <1>1 DEF TakeDown
<1>4. ASSUME NEW r \in Side
      PROVE  \E i \in 0 .. Len(Under[r]) : Under'[r] = SubSeq(Under[r], 1, i)
  <2>. DEFINE m == IF n[r] < Len(snd[r]) THEN n[r] ELSE Len(snd[r])
  <2>1. m \in Nat /\ m <= Len(snd[r])
    BY CutShort
  <2>2. snd'[r] = SubSeq(snd[r], 1, m)
    BY <1>3
  <2>. HIDE DEF m
  <2>3. snd[r] \in Bytes /\ buffer[r] \in Bytes /\ rcv[r] \in Bytes
        /\ snd[r] \o buffer[r] \in Bytes
    BY Parts
  <2>4. snd'[r] \in Bytes
    BY <2>1, <2>2, <2>3, Split
  <2>5. Under'[r] = snd'[r]
    <3>1. Under'[r] = snd'[r] \o <<>> \o <<>>
      BY <1>1 DEF TakeDown, Under, Transit
    <3>. QED  BY <2>4, <3>1, ConcatEmptySeq DEF Bytes
  <2>6. SubSeq(snd[r] \o buffer[r], 1, m) = SubSeq(snd[r], 1, m)
    BY <2>1, <2>3, Beginning
  <2>7. m <= Len(snd[r] \o buffer[r]) /\ m <= Len(Transit(r))
    <3>1. Len(snd[r] \o buffer[r]) = Len(snd[r]) + Len(buffer[r])
      BY <2>3, ConcatProperties DEF Bytes
    <3>2. Len(Transit(r)) = Len(snd[r]) + Len(buffer[r]) + Len(rcv[r])
          /\ Len(snd[r]) \in Nat /\ Len(buffer[r]) \in Nat /\ Len(rcv[r]) \in Nat
      BY Parts
    <3>3. \A i, x, y, z \in Nat : i <= x => i <= x + y /\ i <= x + y + z
      OBVIOUS
    <3>. QED  BY <2>1, <3>1, <3>2, <3>3
  <2>8. SubSeq(Transit(r), 1, m) = SubSeq(snd[r] \o buffer[r], 1, m)
    BY <2>1, <2>3, <2>7, Beginning DEF Transit
  <2>9. m \in 0 .. Len(Transit(r))
    BY <2>1, <2>7, Parts
  <2>. QED  BY <2>2, <2>5, <2>6, <2>8, <2>9 DEF Under
<1>5. Under' = [r \in Side |-> Under'[r]]
  BY DEF Under
<1>6. down' = TRUE /\ UNCHANGED <<written, got, closed>>
  BY <1>1 DEF TakeDown, peerVars
<1>. QED  BY <1>1, <1>2, <1>4, <1>5, <1>6 DEF Connection!Cut, Under

\* A send that does not fit loses the end of what was in the buffer.
LEMMA SendSimulates ==
  ASSUME TypeOK, NEW s \in Side, Send(s)
  PROVE  \/ Connection!Overflow(s)
         \/ Under' = Under /\ UNCHANGED <<written, got, closed, down>>
<1>. DEFINE all == snd[s] \o buffer[s]
<1>1. /\ all \in Bytes /\ Len(all) \in Nat /\ snd'[s] \in Bytes
      /\ snd'[s] = all \/ (Len(all) > SndBuf /\ snd'[s] = SubSeq(all, 1, SndBuf))
      /\ snd' = [snd EXCEPT ![s] = snd'[s]]
  BY SendFacts
<1>2. /\ buffer' = [buffer EXCEPT ![s] = <<>>]
      /\ UNCHANGED <<written, got, closed, down, rcv>>
  BY DEF Send, peerVars
<1>3. Under' = [Under EXCEPT ![s] = snd'[s] \o buffer'[s] \o rcv'[s]]
  BY <1>1, <1>2, OneMoves DEF TypeOK
<1>4. snd'[s] \o buffer'[s] \o rcv'[s] = snd'[s] \o rcv[s]
  <2>1. snd'[s] \o <<>> = snd'[s]
    BY <1>1, ConcatEmptySeq DEF Bytes
  <2>2. buffer'[s] = <<>> /\ rcv'[s] = rcv[s]
    BY <1>2 DEF TypeOK
  <2>. QED  BY <2>1, <2>2
<1>5. Transit(s) = all \o rcv[s]
  BY DEF Transit
<1>. HIDE DEF all
<1>6. CASE snd'[s] = all
  BY <1>2, <1>3, <1>4, <1>5, <1>6 DEF Under
<1>7. CASE Len(all) > SndBuf /\ snd'[s] = SubSeq(all, 1, SndBuf)
  <2>1. rcv[s] \in Bytes /\ Len(rcv[s]) \in Nat
    BY Parts
  <2>2. SndBuf \in Nat /\ SndBuf <= Len(all)
    BY <1>1, <1>7, RelayAssumption
  <2>3. SubSeq(Transit(s), 1, SndBuf) = snd'[s]
    BY <1>1, <1>5, <1>7, <2>1, <2>2, Beginning
  <2>4. SubSeq(Transit(s), Len(all) + 1, Len(Transit(s))) = rcv[s]
    BY <1>1, <1>5, <2>1, Ending
  <2>5. Len(Transit(s)) = Len(all) + Len(rcv[s])
    BY <1>1, <1>5, <2>1, ConcatProperties DEF Bytes
  <2>6. /\ SndBuf \in 0 .. Len(Transit(s)) /\ Len(all) \in 0 .. Len(Transit(s))
        /\ SndBuf <= SndBuf /\ SndBuf < Len(all) /\ Len(Transit(s)) > SndBuf
    BY <1>1, <1>7, <2>1, <2>2, <2>5
  <2>7. Under' = [Under EXCEPT ![s] =
                    SubSeq(@, 1, SndBuf) \o SubSeq(@, Len(all) + 1, Len(@))]
    BY <1>3, <1>4, <2>3, <2>4 DEF Under
  <2>8. Len(Under[s]) = Len(Transit(s))
    BY DEF Under
  <2>9. /\ Len(Under[s]) > SndBuf
        /\ \E i, j \in 0 .. Len(Under[s]) :
             /\ SndBuf <= i /\ i < j
             /\ Under' = [Under EXCEPT ![s] = SubSeq(@, 1, i) \o SubSeq(@, j + 1, Len(@))]
    BY <2>6, <2>7, <2>8
  <2>. QED  BY <1>2, <2>9 DEF Connection!Overflow, Under
<1>. QED  BY <1>1, <1>6, <1>7

-----------------------------------------------------------------------------
\* Nothing has been written yet.
LEMMA InitSimulation == ASSUME Init PROVE Connection!Init
<1>1. <<>> \o <<>> \o <<>> = <<>>
  BY EmptySeq, ConcatEmptySeq
<1>2. \A s \in Side : Transit(s) = <<>>
  BY <1>1 DEF Init, Transit
<1>. QED  BY <1>2 DEF Init, Connection!Init

\* Every step of the relay is one of the pipe, or changes nothing there.
LEMMA StepSimulation ==
  ASSUME TypeOK, [Next]_vars PROVE [Connection!Next]_(Connection!vars)
<1>. DEFINE Same == Under' = Under /\ UNCHANGED <<written, got, closed, down>>
<1>1. Same => UNCHANGED Connection!vars
  BY DEF Connection!vars, Under
<1>. HIDE DEF Same
<1>2. ASSUME NEW s \in Side, Peer(s) PROVE Connection!Next
  BY <1>2, WritesSimulates, ReadsSimulates, ClosesSimulates, OtherSide
     DEF Peer, Connection!Next
<1>3. ASSUME NEW s \in Side, Thread(s) PROVE Connection!Next \/ Same
  <2>1. CASE TakeMessage(s) \/ RecvAgain(s)
    BY <2>1 DEF TakeMessage, RecvAgain, peerVars, Same, Under, Transit
  <2>2. CASE RecvData(s)
    BY <2>2, RecvStutters DEF Same
  <2>3. CASE RecvEof(s) \/ RecvFull(s)
    BY <2>3, TakeDownCuts DEF Connection!Next
  <2>4. CASE Send(s)
    BY <2>4, SendSimulates DEF Connection!Next, Same
  <2>. QED  BY <1>3, <2>1, <2>2, <2>3, <2>4 DEF Thread
<1>4. UNCHANGED vars => Same
  BY DEF vars, peerVars, threadVars, Same, Under, Transit
<1>. QED  BY <1>1, <1>2, <1>3, <1>4 DEF Next

\* process_client_message and process_server_message relay the bytes in order, and
\* lose or cut only where Pipe says so.
THEOREM RelayIsPipe == SafetySpec => ImplementsPipe
<1>1. Init => TypeOK /\ Connection!Init
  BY InitTypes, InitSimulation
<1>2. TypeOK /\ [Next]_vars => TypeOK' /\ [Connection!Next]_(Connection!vars)
  BY NextTypes, StepSimulation
<1>. QED  BY <1>1, <1>2, PTL DEF SafetySpec, ImplementsPipe, Connection!Spec
=============================================================================
