----------------------------- MODULE MCAcceptor -----------------------------
(***************************************************************************)
(* Acceptor with some values of LISTEN_PORT, in a space of 8 ports and     *)
(* with ints of 5 bits.                                                    *)
(***************************************************************************)
EXTENDS Acceptor

LeastInt == -16

\* "1 ~ 2, 2", "x, 2 ~ 1, 3, 20", "1, 9", "1 ~, x ~ 4, ~ , 2 ~ 3",
\* "-3, 5 x", "1 x ~ 2 ~ 4, 0, 8": -3 and 5 are one port, 0 and 8 any free one.
SomeConfigs == {
  << <<1, Tilde, 2>>, <<2>> >>,
  << <<Garbage>>, <<2, Tilde, 1>>, <<3>>, <<20>> >>,
  << <<1>>, <<9>> >>,
  << <<1, Tilde>>, <<Garbage, Tilde, 4>>, <<Tilde>>, <<2, Tilde, 3>> >>,
  << <<-3>>, <<5, Garbage>> >>,
  << <<1, Garbage, Tilde, 2, Tilde, 4>>, <<0>>, <<8>> >> }
=============================================================================
