---------------------------- MODULE MCSecureNic ----------------------------
(***************************************************************************)
(* Two secure NICs, with security and without it.  The host of the first   *)
(* posts a write that asks for an answer, that of the second two requests  *)
(* of any kind.  The first has a send queue of one, so that an answer      *)
(* fails to be posted and another follows it; the second one of two, so    *)
(* that circular_buf wraps with a header still in use.                     *)
(***************************************************************************)
EXTENDS SecureNic

Op(kind, signaled) == [kind |-> kind, signaled |-> signaled]

MCOffers ==
  [n \in Nics |->
     IF n = 1 THEN {Op("WRITE", TRUE)}
     ELSE {Op("READ", TRUE), Op("WRITE", TRUE), Op("WRITE", FALSE), Op("SEND", FALSE)}]

MCMaxPosts == [n \in Nics |-> n]

MCSendDepth == [n \in Nics |-> n]
=============================================================================
