------------------------- MODULE MCProxyLifecycle -------------------------
(***************************************************************************)
(* ProxyLifecycle with one or two connections.  Alone, the upstream sends  *)
(* data.  With two, one client does: whichever of them is served first,    *)
(* and whichever numbers and addresses the other one leaves or finds.      *)
(* Three descriptors keep the second one waiting for numbers of the first. *)
(***************************************************************************)
EXTENDS ProxyLifecycle

CONSTANTS c1, c2

OneClient   == {<<c1, "client">>}
OneUpstream == {<<c1, "server">>}
=============================================================================
