------------------------- MODULE MCServerLifecycle -------------------------
(* Instances of ServerLifecycle for TLC. *)
EXTENDS ServerLifecycle, TLC

CONSTANTS live, policy, p1, s1, j1, w1

(* main starts the live hub first; the stream is one of its. *)
StartOrder == <<live, policy>>
StreamHub  == s1 :> live
=============================================================================
