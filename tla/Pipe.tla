-------------------------------- MODULE Pipe --------------------------------
(***************************************************************************)
(* What a relayed connection promises its two peers: each reads bytes of   *)
(* the other, in the order they were written, none twice and none that     *)
(* were not written.  Bytes are only lost when more than Room of them are  *)
(* under way in one direction, or when the connection is cut; and it is    *)
(* cut only after a peer has closed, or when more than Buffer bytes are    *)
(* under way in one direction.                                             *)
(***************************************************************************)
EXTENDS Naturals, Sequences

CONSTANTS Side, Room, Buffer

VARIABLES
  written,  \* [Side -> Nat], bytes each side has written
  transit,  \* [Side -> Seq(Nat)], those of them that are under way, by number
  got,      \* [Side -> Seq(Nat)], those the other side has read
  closed,   \* the sides that have closed
  cut       \* has the connection been taken down?

vars == <<written, transit, got, closed, cut>>

Init ==
  /\ written = [s \in Side |-> 0]
  /\ transit = [s \in Side |-> <<>>] /\ got = [s \in Side |-> <<>>]
  /\ closed = {} /\ cut = FALSE

Write(s) ==
  /\ s \notin closed /\ ~cut
  /\ written' = [written EXCEPT ![s] = @ + 1]
  /\ transit' = [transit EXCEPT ![s] = Append(@, written'[s])]
  /\ UNCHANGED <<got, closed, cut>>

\* The other side reads the byte of s that is first.
Deliver(s) ==
  /\ ~(Side \ {s} \subseteq closed) /\ transit[s] # <<>>
  /\ got' = [got EXCEPT ![s] = Append(@, Head(transit[s]))]
  /\ transit' = [transit EXCEPT ![s] = Tail(@)]
  /\ UNCHANGED <<written, closed, cut>>

Overflow(s) ==
  /\ Len(transit[s]) > Room
  /\ \E i, j \in 0 .. Len(transit[s]) :
       /\ Room <= i /\ i < j
       /\ transit' = [transit EXCEPT ![s] = SubSeq(@, 1, i) \o
                                              SubSeq(@, j + 1, Len(@))]
  /\ UNCHANGED <<written, got, closed, cut>>

Close(s) ==
  /\ s \notin closed
  /\ closed' = closed \cup {s}
  /\ UNCHANGED <<written, transit, got, cut>>

\* What is at the front may still be read.
Cut ==
  /\ ~cut
  /\ closed # {} \/ \E s \in Side : Len(transit[s]) > Buffer
  /\ cut' = TRUE
  /\ \A s \in Side : \E n \in 0 .. Len(transit[s]) :
       transit'[s] = SubSeq(transit[s], 1, n)
  /\ transit' = [s \in Side |-> transit'[s]]
  /\ UNCHANGED <<written, got, closed>>

Next ==
  \/ \E s \in Side : Write(s) \/ Deliver(s) \/ Overflow(s) \/ Close(s)
  \/ Cut

Spec == Init /\ [][Next]_vars
=============================================================================
