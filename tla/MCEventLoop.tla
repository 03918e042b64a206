---------------------------- MODULE MCEventLoop ----------------------------
(* Small instances of EventLoop.                                            *)
(*                                                                          *)
(* The environment acts where main() can tell: what arrives is seen by      *)
(* select and by the recv of a peer, and the flag SIGINT sets by the test   *)
(* of the loop and by a select that blocks.  Anywhere else Arrive and       *)
(* Signal commute with the steps of main(), and are left out of the runs.   *)
EXTENDS EventLoop

MCArrive == pc \in {"select", "peer"} /\ Arrive
MCSignal == pc \in {"test", "collect", "select"} /\ Signal
MCNext == Step \/ Finished \/ MCArrive \/ MCSignal

MCSpec == Init /\ [][MCNext]_vars
MCLiveSpec == MCSpec /\ Fairness
=============================================================================
