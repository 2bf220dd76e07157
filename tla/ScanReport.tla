----------------------------- MODULE ScanReport -----------------------------
(***************************************************************************)
(* What ScanNetwork promises its caller: every host of the range is probed *)
(* once, in any order and concurrency, and the report, published when the  *)
(* last one is in, lists the hosts in address order.                       *)
(***************************************************************************)
EXTENDS Naturals, Sequences

CONSTANT NumHosts   \* hosts in the range; host i is the i-th address

VARIABLES
  reported,   \* hosts whose probe has delivered a result
  report      \* the hosts of the published report, <<>> before

vars == <<reported, report>>

Hosts == 1..NumHosts

Init == reported = {} /\ report = <<>>

Deliver(h) ==
  /\ h \notin reported
  /\ reported' = reported \cup {h}
  /\ UNCHANGED report

Publish ==
  /\ reported = Hosts
  /\ report' = [i \in Hosts |-> i]
  /\ UNCHANGED reported

Next == Publish \/ \E h \in Hosts : Deliver(h)

Spec == Init /\ [][Next]_vars /\ WF_vars(Next)
=============================================================================
