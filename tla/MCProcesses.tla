---------------------------- MODULE MCProcesses -----------------------------
(* Instances of CoverageWatch and Server for TLC.  They share no variable,  *)
(* so a behaviour of both is one of each: either the servers are stopped,  *)
(* or the pages are gone, from the start.                                  *)
EXTENDS CoverageWatch, Server

MCAccounts == <<"admin", "engineer">>

MCInit ==
  \/ Init /\ ServersAt("stopped")
  \/ PagesIn("gone") /\ ServerInit

MCNext ==
  \/ Next /\ UNCHANGED serverVars
  \/ ServerNext /\ UNCHANGED vars

MCSpec == MCInit /\ [][MCNext]_<<vars, serverVars>> /\ Fairness /\ ServerFairness
=============================================================================
