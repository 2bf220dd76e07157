----------------------------- MODULE CliContext -----------------------------
(***************************************************************************)
(* What the modes of a Cisco-style CLI promise: contexts nest, from the    *)
(* privileged prompt into global configuration and from there into the     *)
(* configuration of some interfaces or of one VLAN.  Each line enters one  *)
(* context, leaves one or leaves all, and a request is made in the         *)
(* innermost context or, by do, in none.                                   *)
(***************************************************************************)
EXTENDS Naturals, Sequences, SequencesExt

CONSTANTS Ports, VLANs   \* what interface and vlan can name

VARIABLES
  stack,   \* the contexts entered, innermost last
  made     \* the context of the latest line's request, <<>> for none

Global == [in |-> "config", ports |-> {}, vid |-> 0]

Selections ==
  {c \in [in : {"config-if"}, ports : SUBSET Ports, vid : {0}] : c.ports # {}} \cup
  [in : {"config-vlan"}, ports : {{}}, vid : VLANs]

vars == <<stack, made>>

Init == stack = <<>> /\ made = <<>>

Enter ==
  /\ \/ stack = <<>> /\ stack' = <<Global>>
     \/ /\ stack = <<Global>>
        /\ Len(stack') = 2 /\ Head(stack') = Global /\ Last(stack') \in Selections
  /\ made' = <<>>

Leave == stack # <<>> /\ stack' = Front(stack) /\ made' = <<>>

LeaveAll == stack' = <<>> /\ made' = <<>>

Stay ==
  /\ UNCHANGED stack
  /\ made' \in {<<>>} \cup IF stack = <<>> THEN {} ELSE {<<Last(stack)>>}

Next == Enter \/ Leave \/ LeaveAll \/ Stay

Spec == Init /\ [][Next]_vars
=============================================================================
