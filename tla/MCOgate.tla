------------------------------- MODULE MCOgate -------------------------------
(***************************************************************************)
(* Two requests of OGATE, so that a request may be taken by the            *)
(* registration and the next one by the client thread; the end of one      *)
(* plan; ticks enough for two to be sent.                                  *)
(***************************************************************************)
EXTENDS Ogate

MCMaxRequests == 2
MCMaxPlans == 1
MCMaxTick == 2
=============================================================================
