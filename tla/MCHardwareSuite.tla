--------------------------- MODULE MCHardwareSuite ---------------------------
(* Model-checking instances of HardwareSuite.                              *)
EXTENDS HardwareSuite, TLC

Mut(kind, old, next, first, last) ==
  [kind |-> kind, old |-> old, next |-> next, first |-> first, last |-> last]

\* A password is followed by a space in the plan, never on the switch.
MCTrimmed ==
  "initial" :> "initial" @@ "factory" :> "factory" @@ "factory " :> "factory" @@
  "p1" :> "p1" @@ "p2" :> "p2" @@ "p2 " :> "p2"

\* The sample plan's changes, one with the old password spelled out and one without,
\* a script that leaves the password alone, one that changes it on the way and says so
\* before a change that does not name the old one, and one that writes nothing.
MCPlan ==
  <<Mut("change-password", "factory ", None, 1, 1),
    Mut("script", None, None, 2, 3),
    Mut("script", None, "p2 ", 4, 6),
    Mut("change-password", None, None, 7, 7),
    Mut("script", None, None, 8, 7)>>

MCSets == <<"p1", None, None, None, "p2", None, "p1">>

\* This plan meets the condition of NeverLockedOut.
ASSUME PlanIsTruthful == PlanTruthful
=============================================================================
