----------------------------- MODULE MCDot1QVlan -----------------------------
(* Model-checking instances of Dot1QVlan.                                  *)
EXTENDS Dot1QVlan, TLC

Cmd(k, ps, vs) == [kind |-> k, ports |-> ps, vids |-> vs]

\* Access commands after "interface range".
RangeAccess == {Cmd("access", ps, <<2>>) : ps \in {<<1, 2>>, <<2, 3>>}}

\* A command of each kind, on one interface and on a range, and every VLAN list.
Mixed ==
  {Cmd("access", <<1>>, <<2>>), Cmd("access", <<1>>, <<3>>), Cmd("access", <<2>>, <<2>>),
   Cmd("trunk_add", <<1, 2>>, <<1, 2>>), Cmd("trunk_remove", <<2, 3>>, <<1, 2>>),
   Cmd("trunk_add", <<1>>, <<3>>), Cmd("pvid", <<1>>, <<2>>), Cmd("name", <<>>, <<2>>),
   Cmd("no_vlan", <<>>, <<2>>)}

\* These commands meet the condition of NoBridge.
ASSUME MixedAccess == \A r \in Mixed : r.kind = "access" => Len(r.ports) = 1

Either == Permutations(CLIs)
=============================================================================
