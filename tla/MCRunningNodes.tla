--------------------------- MODULE MCRunningNodes ---------------------------
(* Two nodes whose clocks differ from the collector's in both directions, an *)
(* operator who may do everything and one confined to a node.                *)
EXTENDS RunningNodes

CONSTANTS n1, n2, k1

MCOffset == [n \in Nodes |-> IF n = n1 THEN -1 ELSE 1]

MCPolicy == [operator |-> [permissions |-> Actions, nodes |-> {"*", "collector"}],
             guest |-> [permissions |-> {"pause"}, nodes |-> {n1}]]

Request(actor, key, action, targets) ==
  [actor |-> actor, key |-> key, action |-> action, targets |-> targets]

MCRequests ==
  {Request("operator", k1, "pause", Nodes), Request("operator", NoKey, "resume", {n1}),
   Request("operator", k1, "reset", {}), Request("guest", k1, "resume", {n1})}

\* A radio that retunes between packets, one that lags half a sample, and one
\* whose packets are far apart.
MCArrivals ==
  [time : {0, 4}, center : {1, 2}, length : {2}, count : {0}]
    \cup [time : {2, 3, 12}, center : {1}, length : {1, 2}, count : {1}]
=============================================================================
