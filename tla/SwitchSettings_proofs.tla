------------------------ MODULE SwitchSettings_proofs ------------------------
(***************************************************************************)
(* Machine-checked proofs about SwitchSettings, for any number of CLIs,    *)
(* ports, rates, addresses, names and VLANs, and any commands:             *)
(*                                                                         *)
(*   - what a request does: Perform keeps a configuration one, and changes *)
(*     the parts its page is about and no other (PerformOnly);             *)
(*   - what a plan asks: every request of every plan of a command is one   *)
(*     the command asks for (PlanAsked), whatever it read;                 *)
(*   - validation: an accepted plan names ports the Client knows           *)
(*     (ValidNames);                                                       *)
(*   - Inv: all CLIs interfering, what a CLI has ahead is what its command *)
(*     asks for, and validated as far as it has got;                       *)
(*   - what a command promises is cut into parts (Goals) that one request  *)
(*     each serves and none of the others breaks, and what it must keep    *)
(*     stays kept by every request (Spares, Agree);                        *)
(*   - SoloInv: a CLI that works alone still has its reading in force, so  *)
(*     each part is kept or has its request ahead.                         *)
(***************************************************************************)
EXTENDS SwitchSettings, TLAPS, FiniteSetTheorems, NaturalsInduction, WellFoundedInduction

-----------------------------------------------------------------------------
(* Lists                                                                   *)

LEMMA ListOfLength ==
  ASSUME NEW X, NEW n \in Nat, NEW f, f \in [1..n -> X]
  PROVE  f \in Seq(X) /\ Len(f) = n
OBVIOUS

\* An order of a finite set is a list of its elements, each of them once.
LEMMA OrderCovers ==
  ASSUME NEW S, IsFiniteSet(S), NEW o \in SetToSeqs(S)
  PROVE  /\ Cardinality(S) \in Nat /\ o \in [1..Cardinality(S) -> S]
         /\ \A x \in S : \E i \in 1..Cardinality(S) : o[i] = x
         /\ \A i, j \in 1..Cardinality(S) : i # j => o[i] # o[j]
<1> DEFINE n == Cardinality(S)
<1>1. n \in Nat
  BY FS_CardinalityType
<1>2. o \in [1..n -> S] /\ \A i, j \in 1..n : i # j => o[i] # o[j]
  BY DEF SetToSeqs
<1>3. o \in Injection(1..n, S)
  BY <1>2 DEF Injection, IsInjective
<1>4. IsFiniteSet(1..n) /\ Cardinality(1..n) = n
  BY <1>1, FS_Interval
<1>5. o \in Surjection(1..n, S)
  BY <1>3, <1>4, FS_Injection
<1>6. \A x \in S : \E i \in 1..n : o[i] = x
  BY <1>5 DEF Surjection
<1>7. QED
  BY <1>1, <1>2, <1>6

\* One element per member of S, in one of the orders of S.
LEMMA ListPerMember ==
  ASSUME NEW X, NEW S, NEW n \in Nat, NEW order \in [1..n -> S],
         \A x \in S : \E i \in 1..n : order[i] = x,
         NEW e, NEW plan \in [1..n -> X], \A i \in 1..n : plan[i] = e[order[i]]
  PROVE  /\ plan \in Seq(X) /\ Len(plan) = n
         /\ S # {} => plan # <<>>
         /\ \A i \in 1..Len(plan) : order[i] \in S /\ plan[i] = e[order[i]]
         /\ \A x \in S : \E i \in 1..Len(plan) : plan[i] = e[x]
<1>1. plan \in Seq(X) /\ Len(plan) = n
  BY ListOfLength
<1>2. S # {} => plan # <<>>
  BY <1>1
<1>3. QED
  BY <1>1, <1>2

LEMMA Singletons ==
  ASSUME NEW X, NEW x \in X
  PROVE  <<x>> \in Seq(X) /\ <<x>> # <<>> /\ Len(<<x>>) = 1 /\ <<x>>[1] = x
OBVIOUS

LEMMA Concat ==
  ASSUME NEW X, NEW p \in Seq(X), NEW q \in Seq(X)
  PROVE  /\ p \o q \in Seq(X) /\ Len(p \o q) = Len(p) + Len(q)
         /\ \A i \in 1..Len(p) : (p \o q)[i] = p[i]
         /\ \A i \in 1..Len(q) : (p \o q)[Len(p) + i] = q[i]
         /\ \A i \in 1..Len(p \o q) : i \in 1..Len(p) \/ (i - Len(p) \in 1..Len(q) /\ (p \o q)[i] = q[i - Len(p)])
OBVIOUS

LEMMA HeadAndTail ==
  ASSUME NEW X, NEW q \in Seq(X), q # <<>>
  PROVE  /\ Head(q) \in X /\ Head(q) = q[1] /\ Tail(q) \in Seq(X)
         /\ Len(q) \in Nat \ {0} /\ 1 \in 1..Len(q) /\ Len(Tail(q)) = Len(q) - 1
         /\ \A i \in 1..Len(Tail(q)) : i + 1 \in 1..Len(q) /\ Tail(q)[i] = q[i + 1]
         /\ \A i \in 1..Len(q) : i = 1 \/ (i - 1 \in 1..Len(Tail(q)) /\ q[i] = Tail(q)[i - 1])
<1>1. /\ Head(q) \in X /\ Head(q) = q[1] /\ Tail(q) \in Seq(X)
      /\ Len(q) \in Nat \ {0} /\ Len(Tail(q)) = Len(q) - 1
  OBVIOUS
<1>2. \A i \in 1..Len(Tail(q)) : Tail(q)[i] = q[i + 1]
  OBVIOUS
<1>3. \A i \in 1..Len(Tail(q)) : i + 1 \in 1..Len(q)
  BY <1>1
<1>4. ASSUME NEW i \in 1..Len(q), i # 1
      PROVE  i - 1 \in 1..Len(Tail(q)) /\ q[i] = Tail(q)[i - 1]
  <2>1. i - 1 \in 1..Len(Tail(q)) /\ (i - 1) + 1 = i
    BY <1>1, <1>4
  <2>2. QED
    BY <1>2, <2>1
<1>5. 1 \in 1..Len(q)
  BY <1>1
<1>6. QED
  BY <1>1, <1>2, <1>3, <1>4, <1>5

LEMMA TailEmpty ==
  ASSUME NEW X, NEW q \in Seq(X), q # <<>>
  PROVE  Tail(q) = <<>> <=> Len(q) = 1
<1> DEFINE T == Tail(q)
<1>1. T \in Seq(X) /\ Len(T) = Len(q) - 1 /\ Len(q) \in Nat
  BY HeadAndTail
<1> HIDE DEF T
<1>2. \A x \in Seq(X) : x = <<>> <=> Len(x) = 0
  OBVIOUS
<1>3. T = <<>> <=> Len(T) = 0
  BY ONLY <1>1, <1>2
<1>4. Len(T) = 0 <=> Len(q) = 1
  BY ONLY <1>1
<1>5. QED
  BY <1>3, <1>4 DEF T
-----------------------------------------------------------------------------
(* What a request does to the switch.                                      *)

Requests ==
  [cgi : {"mirror_enabled_set"}, on : {TRUE}, dest : Nat] \cup
  [cgi : {"mirror_enabled_set"}, on : {FALSE}] \cup
  [cgi : {"mirrored_port_set"}, port : Nat, rx : BOOLEAN, tx : BOOLEAN] \cup
  [cgi : {"port_trunk_set"}, group : Groups, ports : SUBSET Nat] \cup
  [cgi : {"port_trunk_display"}, group : Groups] \cup
  [cgi : {"qos_bandwidth_set"}, port : Nat, ingress : Rates, egress : Rates] \cup
  [cgi : {"mtuVlanSet"}, on : BOOLEAN, port : Ports \cup DefaultPorts] \cup
  [cgi : {"ip_setting"}, dhcp : BOOLEAN, ip : Addresses, gateway : Addresses] \cup
  [cgi : {"port_setting"}, ports : SUBSET Nat, state : {0, 1, NoChange},
   speed : 1..6 \cup {NoChange}, flowcontrol : {0, 1, NoChange}] \cup
  [cgi : {"qos_port_priority_set"}, ports : SUBSET Nat, port_queue : 0..3] \cup
  [cgi : {"qos_storm_set"}, ports : SUBSET Nat, rate : 0..12, types : SUBSET StormTypes] \cup
  [cgi : {"port_statistics_set"}, ports : SUBSET Nat] \cup
  [cgi : {"pvlanSet", "loop_prevention_set", "led_on_set"}, on : BOOLEAN] \cup
  [cgi : {"pvlan_add"}, vid : Vids, ports : SUBSET Nat] \cup
  [cgi : {"igmpSnooping"}, on : BOOLEAN, suppression : BOOLEAN] \cup
  [cgi : {"qos_mode_set"}, mode : 0..2] \cup
  [cgi : {"system_name_set"}, name : HostNames] \cup
  [cgi : {"cable_diag_get"}, port : Nat]

\* The parts of the configuration that requests of a kind are about.
Parts(cgi) ==
  CASE cgi \in {"mirror_enabled_set", "mirrored_port_set"} -> {"mirror"}
    [] cgi \in {"port_trunk_set", "port_trunk_display"} -> {"group"}
    [] cgi = "qos_bandwidth_set" -> {"ingress", "egress"}
    [] cgi = "mtuVlanSet" -> {"uplink"}
    [] cgi = "ip_setting" -> {"ip"}
    [] cgi = "port_setting" -> {"port"}
    [] cgi = "qos_port_priority_set" -> {"priority"}
    [] cgi = "qos_storm_set" -> {"storm"}
    [] cgi = "port_statistics_set" -> {"cleared"}
    [] cgi \in {"pvlanSet", "pvlan_add"} -> {"pvlan"}
    [] cgi \in {"igmpSnooping", "loop_prevention_set", "led_on_set", "qos_mode_set",
                "system_name_set"} -> {"switch"}
    [] OTHER -> {}

Fields == {"mirror", "group", "uplink", "ip", "ingress", "egress", "port", "priority",
           "storm", "cleared", "pvlan", "switch"}

\* t is a configuration, and equal to s but for the fields F.
OnlyIn(F, s, t) == t \in Configs /\ \A f \in Fields \ F : t[f] = s[f]

LEMMA ThoseTyped ==
  ASSUME NEW X, NEW ports, NEW old \in [Ports -> X], NEW new(_), \A p \in Ports : new(p) \in X
  PROVE  /\ Those(ports, old, new) \in [Ports -> X]
         /\ \A p \in Ports : Those(ports, old, new)[p] = IF p \in ports THEN new(p) ELSE old[p]
BY DEF Those

LEMMA PerformMirror ==
  ASSUME NEW s \in Configs, NEW q \in Requests, q.cgi \in {"mirror_enabled_set", "mirrored_port_set"}
  PROVE  OnlyIn({"mirror"}, s, Perform(q, s))
<1>1. CASE q.cgi = "mirror_enabled_set" /\ q.on
  <2>1. CASE q.dest \in Ports
    BY <1>1, <2>1 DEF Perform, OnlyIn, Fields, Configs, Mirror
  <2>2. CASE q.dest \notin Ports
    BY <1>1, <2>2 DEF Perform, OnlyIn, Fields
  <2>3. QED
    BY <2>1, <2>2
<1>2. CASE q.cgi = "mirror_enabled_set" /\ ~q.on
  BY <1>2 DEF Perform, OnlyIn, Fields, Configs, Mirror
<1>3. CASE q.cgi = "mirrored_port_set"
  BY <1>3, ZenonT(60) DEF Perform, OnlyIn, Fields, Configs, Mirror
<1>4. QED
  BY <1>1, <1>2, <1>3

\* Every request leaves a configuration, and the parts it is not about as they were.
LEMMA PerformOnly ==
  ASSUME NEW s \in Configs, NEW q \in Requests
  PROVE  OnlyIn(Parts(q.cgi), s, Perform(q, s))
<1>1. CASE q.cgi \in {"mirror_enabled_set", "mirrored_port_set"}
  <2>1. Parts(q.cgi) = {"mirror"}
    BY <1>1 DEF Parts
  <2>2. QED
    BY <1>1, <2>1, PerformMirror
<1>2. CASE q.cgi \in {"port_trunk_set", "port_trunk_display"}
  <2>1. q.group \in Groups
    BY <1>2 DEF Requests
  <2>2. QED
    BY <1>2, <2>1 DEF Perform, OnlyIn, Fields, Configs, Parts
<1>3. CASE q.cgi = "qos_bandwidth_set"
  <2>1. q.ingress \in Rates /\ q.egress \in Rates
    BY <1>3 DEF Requests
  <2>2. /\ Those({q.port}, s.ingress, LAMBDA p : q.ingress) \in [Ports -> Rates]
        /\ Those({q.port}, s.egress, LAMBDA p : q.egress) \in [Ports -> Rates]
    BY <2>1 DEF Those, Configs
  <2>3. QED
    BY <1>3, <2>2 DEF Perform, OnlyIn, Fields, Configs, Parts
<1>4. CASE q.cgi = "mtuVlanSet"
  <2>1. q.port \in Ports \cup DefaultPorts /\ q.on \in BOOLEAN
    BY <1>4 DEF Requests
  <2>2. QED
    BY <1>4, <2>1 DEF Perform, OnlyIn, Fields, Configs, Parts, Uplink
<1>5. CASE q.cgi = "ip_setting"
  <2>1. q.dhcp \in BOOLEAN /\ q.ip \in Addresses /\ q.gateway \in Addresses
    BY <1>5 DEF Requests
  <2>2. QED
    BY <1>5, <2>1 DEF Perform, OnlyIn, Fields, Configs, Parts, IP
<1>6. CASE q.cgi = "port_setting"
  <2>1. /\ q.state \in {0, 1, NoChange} /\ q.speed \in 1..6 \cup {NoChange}
        /\ q.flowcontrol \in {0, 1, NoChange}
    BY <1>6 DEF Requests
  <2> DEFINE new(p) == [state |-> Taken(q.state, s.port[p].state), speed |-> Taken(q.speed, s.port[p].speed),
                        flowcontrol |-> Taken(q.flowcontrol, s.port[p].flowcontrol)]
  <2>2. \A p \in Ports : new(p) \in PortSettings
    BY <2>1 DEF Taken, PortSettings, Configs
  <2>3. Those(q.ports, s.port, new) \in [Ports -> PortSettings]
    BY <2>2 DEF Those, Configs
  <2>4. QED
    BY <1>6, <2>3 DEF Perform, OnlyIn, Fields, Configs, Parts, Those
<1>7. CASE q.cgi = "qos_port_priority_set"
  <2>1. q.port_queue + 1 \in 1..4
    <3>1. q.port_queue \in 0..3
      BY <1>7 DEF Requests
    <3>2. QED
      BY <3>1
  <2>2. Those(q.ports, s.priority, LAMBDA p : q.port_queue + 1) \in [Ports -> 1..4]
    BY <2>1 DEF Those, Configs
  <2>3. QED
    BY <1>7, <2>2 DEF Perform, OnlyIn, Fields, Configs, Parts
<1>8. CASE q.cgi = "qos_storm_set"
  <2>1. [rate |-> q.rate, types |-> q.types] \in Storm
    BY <1>8 DEF Requests, Storm
  <2>2. Those(q.ports, s.storm, LAMBDA p : [rate |-> q.rate, types |-> q.types]) \in [Ports -> Storm]
    BY <2>1 DEF Those, Configs
  <2>3. QED
    BY <1>8, <2>2 DEF Perform, OnlyIn, Fields, Configs, Parts
<1>9. CASE q.cgi = "port_statistics_set"
  BY <1>9 DEF Perform, OnlyIn, Fields, Configs, Parts
<1>10. CASE q.cgi \in {"pvlanSet", "pvlan_add"}
  <2>1. q.cgi = "pvlanSet" => q.on \in BOOLEAN
    BY DEF Requests
  <2>2. QED
    BY <1>10, <2>1 DEF Perform, OnlyIn, Fields, Configs, Parts, PortVlans
<1>11. CASE q.cgi \in {"igmpSnooping", "loop_prevention_set", "led_on_set", "qos_mode_set", "system_name_set"}
  <2>1. /\ q.cgi \in {"igmpSnooping", "loop_prevention_set", "led_on_set"} => q.on \in BOOLEAN
        /\ q.cgi = "igmpSnooping" => q.suppression \in BOOLEAN
        /\ q.cgi = "qos_mode_set" => q.mode \in 0..2
        /\ q.cgi = "system_name_set" => q.name \in HostNames
    BY DEF Requests
  <2>2. Parts(q.cgi) = {"switch"}
    BY <1>11 DEF Parts
  <2>3. CASE q.cgi = "igmpSnooping"
    BY <2>1, <2>2, <2>3 DEF Perform, OnlyIn, Fields, Configs, Switches
  <2>4. CASE q.cgi = "loop_prevention_set"
    BY <2>1, <2>2, <2>4 DEF Perform, OnlyIn, Fields, Configs, Switches
  <2>5. CASE q.cgi = "led_on_set"
    BY <2>1, <2>2, <2>5 DEF Perform, OnlyIn, Fields, Configs, Switches
  <2>6. CASE q.cgi = "qos_mode_set"
    BY <2>1, <2>2, <2>6 DEF Perform, OnlyIn, Fields, Configs, Switches
  <2>7. CASE q.cgi = "system_name_set"
    BY <2>1, <2>2, <2>7 DEF Perform, OnlyIn, Fields, Configs, Switches
  <2>8. QED
    BY <1>11, <2>3, <2>4, <2>5, <2>6, <2>7
<1>12. CASE q.cgi = "cable_diag_get"
  BY <1>12 DEF Perform, OnlyIn, Fields, Parts
<1>13. QED
  BY <1>1, <1>2, <1>3, <1>4, <1>5, <1>6, <1>7, <1>8, <1>9, <1>10, <1>11, <1>12 DEF Requests
-----------------------------------------------------------------------------
(* What the plan of a command asks for, whatever the command has read.     *)

\* The commands with a plan of one request that owes nothing to a reading.
Plain == {"shutdown", "no-shutdown", "speed", "flowcontrol", "qos-port-priority", "storm-control",
          "no-storm-control", "clear-counters", "port-vlan", "no-port-vlan", "port-vlan-mode",
          "no-monitor", "spanning-tree", "led", "qos-mode", "hostname", "igmp-snooping"}

Asks(m, q) ==
  CASE m.kind \in Plain -> <<q>> \in Setter(m)
    [] m.kind = "bandwidth" ->
         /\ q.cgi = "qos_bandwidth_set" /\ q.port \in m.ports
         /\ m.rate = IF m.dir = "ingress" THEN q.ingress ELSE q.egress
    [] m.kind = "no-bandwidth" ->
         q.cgi = "qos_bandwidth_set" /\ q.port \in m.ports /\ q.ingress = 0 /\ q.egress = 0
    [] m.kind = "monitor-source" ->
         \/ q.cgi = "mirror_enabled_set" /\ q.on /\ q.dest \in Ports
         \/ /\ q.cgi = "mirrored_port_set"
            /\ q.port \in m.ports /\ "rx" \in m.dirs => q.rx
            /\ q.port \in m.ports /\ "tx" \in m.dirs => q.tx
    [] m.kind = "monitor-destination" ->
         \/ q.cgi = "mirror_enabled_set" /\ q.on /\ q.dest = m.port
         \/ q.cgi = "mirrored_port_set"
    [] m.kind = "channel-group" -> q.cgi = "port_trunk_set" /\ q.group = m.group /\ m.ports \subseteq q.ports
    [] m.kind = "no-channel-group" ->
         /\ q.group = m.group
         /\ \/ q.cgi = "port_trunk_set" /\ q.ports \cap m.ports = {}
            \/ q.cgi = "port_trunk_display"
    [] m.kind = "mtu-vlan" ->
         /\ q.cgi = "mtuVlanSet" /\ q.on = m.on
         /\ IF "port" \in DOMAIN m THEN q.port = m.port ELSE q.port \in Ports
    [] m.kind = "ip-address" -> q.cgi = "ip_setting" /\ ~q.dhcp /\ q.ip = m.ip
    [] m.kind = "ip-address-dhcp" -> q.cgi = "ip_setting" /\ q.dhcp
    [] m.kind = "ip-default-gateway" -> q.cgi = "ip_setting" /\ ~q.dhcp /\ q.gateway = m.gateway
    [] m.kind = "no-ip-address-dhcp" -> q.cgi = "ip_setting" /\ ~q.dhcp
    [] m.kind = "test-cable-diagnostics" -> q.cgi = "cable_diag_get"

Asked(m) == {q \in Requests : Asks(m, q)}

\* The commands that may send several requests.
Several == {"monitor-source", "monitor-destination", "bandwidth", "no-bandwidth", "test-cable-diagnostics"}

\* A command of this kind is in the model's set of its kind.
LEMMA PlainAsked ==
  ASSUME NEW m \in Commands, m.kind \in Plain, NEW plan \in Setter(m)
  PROVE  plan \in Seq(Asked(m)) /\ plan # <<>> /\ Len(plan) = 1
<1>1. \E q \in Requests : plan = <<q>>
  <2>1. CASE m.kind = "shutdown"
    <3>1. m.ports \in SUBSET Nat
      BY <2>1 DEF Commands, Interfaces, PortLists
    <3>2. QED
      BY <2>1, <3>1 DEF Setter, SetPorts, Requests
  <2>2. CASE m.kind = "no-shutdown"
    <3>1. m.ports \in SUBSET Nat
      BY <2>2 DEF Commands, Interfaces, PortLists
    <3>2. QED
      BY <2>2, <3>1 DEF Setter, SetPorts, Requests
  <2>3. CASE m.kind = "speed"
    <3>1. m.ports \in SUBSET Nat /\ m.speed \in 1..6
      BY <2>3 DEF Commands, Interfaces, PortLists
    <3>2. QED
      BY <2>3, <3>1 DEF Setter, SetPorts, Requests
  <2>4. CASE m.kind = "flowcontrol"
    <3>1. m.ports \in SUBSET Nat /\ m.on \in 0..1
      BY <2>4 DEF Commands, Interfaces, PortLists
    <3>2. m.on \in {0, 1, NoChange}
      BY <3>1
    <3>3. QED
      BY <2>4, <3>1, <3>2 DEF Setter, SetPorts, Requests
  <2>5. CASE m.kind = "qos-port-priority"
    <3>1. m.ports \in SUBSET Nat /\ m.priority \in 1..4
      BY <2>5 DEF Commands, Interfaces, PortLists
    <3>2. m.priority - 1 \in 0..3
      BY <3>1
    <3>3. QED
      BY <2>5, <3>1, <3>2 DEF Setter, SetPortPriority, Requests
  <2>6. CASE m.kind = "storm-control"
    <3>1. m.ports \in SUBSET Nat /\ m.rate \in 0..12 /\ m.types \in SUBSET StormTypes
      <4>1. m.ports \in SUBSET Nat /\ m.rate \in 1..12 /\ m.types \in SUBSET StormTypes
        BY <2>6 DEF Commands, Interfaces, PortLists
      <4>2. QED
        BY <4>1
    <3>2. (IF m.rate # 0 /\ m.types = {} THEN StormTypes ELSE m.types) \in SUBSET StormTypes
      BY <3>1
    <3>3. QED
      BY <2>6, <3>1, <3>2 DEF Setter, SetStormControl, Requests
  <2>7. CASE m.kind = "no-storm-control"
    <3>1. m.ports \in SUBSET Nat
      BY <2>7 DEF Commands, Interfaces, PortLists
    <3>2. [cgi |-> "qos_storm_set", ports |-> m.ports, rate |-> 0, types |-> {}] \in Requests
      <4>1. 0 \in 0..12 /\ {} \in SUBSET StormTypes
        OBVIOUS
      <4>2. QED
        BY <3>1, <4>1 DEF Requests
    <3>3. QED
      BY <2>7, <3>2 DEF Setter, SetStormControl
  <2>8. CASE m.kind = "clear-counters"
    <3>1. First(m.ports) \in SUBSET Nat
      BY <2>8 DEF Commands, Interfaces, PortLists, First
    <3>2. QED
      BY <2>8, <3>1 DEF Setter, ClearCounters, ResetPortStatistics, Requests
  <2>9. CASE m.kind = "port-vlan"
    <3>1. m.ports \in SUBSET Nat /\ m.vid \in Vids
      BY <2>9 DEF Commands, Interfaces, PortLists
    <3>2. QED
      BY <2>9, <3>1 DEF Setter, AddPortVLAN, Requests
  <2>10. CASE m.kind = "no-port-vlan"
    <3>1. m.vid \in Vids
      BY <2>10 DEF Commands
    <3>2. QED
      BY <2>10, <3>1 DEF Setter, DeletePortVLAN, Requests
  <2>11. CASE m.kind \in {"port-vlan-mode", "spanning-tree", "led"}
    <3>1. m.on \in BOOLEAN
      BY <2>11 DEF Commands
    <3>2. QED
      BY <2>11, <3>1 DEF Setter, Switch, Requests
  <2>12. CASE m.kind = "no-monitor"
    BY <2>12 DEF Setter, NoMonitor, Switch, Requests
  <2>13. CASE m.kind = "qos-mode"
    <3>1. m.mode \in 0..2
      BY <2>13 DEF Commands
    <3>2. QED
      BY <2>13, <3>1 DEF Setter, Requests
  <2>14. CASE m.kind = "hostname"
    <3>1. m.name \in HostNames
      BY <2>14 DEF Commands
    <3>2. QED
      BY <2>14, <3>1 DEF Setter, Requests
  <2>15. CASE m.kind = "igmp-snooping"
    <3>1. m.on \in BOOLEAN /\ m.suppression \in BOOLEAN
      BY <2>15 DEF Commands
    <3>2. QED
      BY <2>15, <3>1 DEF Setter, Requests
  <2>16. QED
    BY <2>1, <2>2, <2>3, <2>4, <2>5, <2>6, <2>7, <2>8, <2>9, <2>10, <2>11, <2>12, <2>13,
       <2>14, <2>15 DEF Plain
<1>2. PICK q \in Requests : plan = <<q>>
  BY <1>1
<1>3. Asks(m, q)
  BY <1>2 DEF Asks, Plain
<1>4. q \in Asked(m)
  BY <1>3 DEF Asked
<1>5. QED
  BY <1>2, <1>4, Singletons

Mirrored(p, rx, tx) == [cgi |-> "mirrored_port_set", port |-> p, rx |-> p \in rx, tx |-> p \in tx]

\* A mirroring plan switches the session on, then sets each port the lists name.
LEMMA MirrorPlan ==
  ASSUME NEW dest \in Nat, NEW rx \in PortLists, NEW tx \in PortLists,
         NEW plan \in SetPortMirror(dest, rx, tx)
  PROVE  /\ plan \in Seq(Requests) /\ plan # <<>>
         /\ plan[1] = [cgi |-> "mirror_enabled_set", on |-> TRUE, dest |-> dest]
         /\ \A i \in 1..Len(plan) : i = 1 \/ \E p \in rx \cup tx : plan[i] = Mirrored(p, rx, tx)
         /\ \A p \in rx \cup tx : \E i \in 1..Len(plan) : plan[i] = Mirrored(p, rx, tx)
<1> DEFINE first == [cgi |-> "mirror_enabled_set", on |-> TRUE, dest |-> dest]
           S == rx \cup tx
           e == [p \in S |-> Mirrored(p, rx, tx)]
<1>1. PICK order \in SetToSeqs(S) :
        plan = <<first>> \o [i \in DOMAIN order |->
          [cgi |-> "mirrored_port_set", port |-> order[i], rx |-> order[i] \in rx, tx |-> order[i] \in tx]]
  BY DEF SetPortMirror
<1>2. IsFiniteSet(S) /\ \A p \in S : p \in Nat
  BY FS_Union DEF PortLists
<1> HIDE DEF S
<1> DEFINE n == Cardinality(S)
<1>3. n \in Nat /\ order \in [1..n -> S] /\ \A x \in S : \E i \in 1..n : order[i] = x
  BY <1>2, OrderCovers
<1> HIDE DEF n
<1> DEFINE rest == [i \in DOMAIN order |-> e[order[i]]]
<1>4. plan = <<first>> \o rest
  BY <1>1, <1>3 DEF Mirrored
<1>5. e \in [S -> Requests]
  <2>1. ASSUME NEW p \in S PROVE Mirrored(p, rx, tx) \in Requests
    <3>1. p \in Nat /\ (p \in rx) \in BOOLEAN /\ (p \in tx) \in BOOLEAN
      BY <1>2
    <3>2. QED
      BY <3>1 DEF Mirrored, Requests
  <2>2. QED
    BY <2>1
<1>6. first \in Requests
  BY DEF Requests
<1>7. /\ \A p \in S : e[p] = Mirrored(p, rx, tx)
      /\ rest \in [1..n -> Requests]
      /\ \A i \in 1..n : rest[i] = e[order[i]]
  BY <1>3, <1>5
<1> HIDE DEF e, rest
<1>8. /\ rest \in Seq(Requests) /\ Len(rest) = n
      /\ S # {} => rest # <<>>
      /\ \A i \in 1..Len(rest) : order[i] \in S /\ rest[i] = e[order[i]]
      /\ \A x \in S : \E i \in 1..Len(rest) : rest[i] = e[x]
  BY <1>3, <1>7, ListPerMember
<1> DEFINE one == <<first>>
<1>9. one \in Seq(Requests) /\ Len(one) = 1 /\ one[1] = first
  BY <1>6, Singletons
<1> HIDE DEF rest, S, first, one
<1>10. plan = one \o rest
  BY <1>4 DEF one
<1>11. /\ plan \in Seq(Requests) /\ Len(plan) = 1 + Len(rest) /\ plan[1] = first
       /\ \A i \in 1..Len(rest) : plan[1 + i] = rest[i]
       /\ \A i \in 1..Len(plan) : i = 1 \/ (i - 1 \in 1..Len(rest) /\ plan[i] = rest[i - 1])
  <2>1. /\ one \o rest \in Seq(Requests) /\ Len(one \o rest) = Len(one) + Len(rest)
        /\ \A i \in 1..Len(one) : (one \o rest)[i] = one[i]
        /\ \A i \in 1..Len(rest) : (one \o rest)[Len(one) + i] = rest[i]
        /\ \A i \in 1..Len(one \o rest) :
             i \in 1..Len(one) \/ (i - Len(one) \in 1..Len(rest) /\ (one \o rest)[i] = rest[i - Len(one)])
    <3>1. rest \in Seq(Requests) /\ one \in Seq(Requests)
      BY <1>8, <1>9
    <3>2. QED
      BY ONLY <3>1, Concat
  <2>2. \A i \in 1..1 : i = 1
    OBVIOUS
  <2>3. QED
    BY ONLY <1>8, <1>9, <1>10, <2>1, <2>2
<1>12. plan # <<>>
  BY <1>8, <1>11
<1>13. ASSUME NEW i \in 1..Len(plan), i # 1 PROVE \E p \in S : plan[i] = Mirrored(p, rx, tx)
  <2>1. i - 1 \in 1..Len(rest) /\ plan[i] = rest[i - 1]
    BY <1>11, <1>13
  <2>2. order[i - 1] \in S /\ plan[i] = e[order[i - 1]]
    BY <1>8, <2>1
  <2>3. QED
    BY <1>7, <2>2
<1>14. ASSUME NEW p \in S PROVE \E i \in 1..Len(plan) : plan[i] = Mirrored(p, rx, tx)
  <2>1. PICK j \in 1..Len(rest) : rest[j] = e[p]
    BY <1>8
  <2>2. 1 + j \in 1..Len(plan) /\ plan[1 + j] = Mirrored(p, rx, tx)
    BY <1>7, <1>8, <1>11, <2>1
  <2>3. QED
    BY <2>2
<1>15. QED
  BY <1>11, <1>12, <1>13, <1>14 DEF S, first

Limit(p, ingress, egress) ==
  [cgi |-> "qos_bandwidth_set", port |-> p, ingress |-> ingress[p], egress |-> egress[p]]

\* A bandwidth plan sets each of its ports, and no other.
LEMMA BandwidthPlan ==
  ASSUME NEW ports \in Interfaces, NEW ingress \in [ports -> Rates], NEW egress \in [ports -> Rates],
         NEW plan \in SetBandwidth(ports, ingress, egress)
  PROVE  /\ plan \in Seq(Requests) /\ plan # <<>>
         /\ \A i \in 1..Len(plan) : \E p \in ports : plan[i] = Limit(p, ingress, egress)
         /\ \A p \in ports : \E i \in 1..Len(plan) : plan[i] = Limit(p, ingress, egress)
<1> DEFINE e == [p \in ports |-> Limit(p, ingress, egress)]
<1>1. PICK order \in SetToSeqs(ports) :
        plan = [i \in DOMAIN order |->
                  [cgi |-> "qos_bandwidth_set", port |-> order[i],
                   ingress |-> ingress[order[i]], egress |-> egress[order[i]]]]
  BY DEF SetBandwidth, Ascending
<1>2. IsFiniteSet(ports) /\ ports # {} /\ \A p \in ports : p \in Nat
  BY DEF Interfaces, PortLists
<1> DEFINE n == Cardinality(ports)
<1>3. n \in Nat /\ order \in [1..n -> ports] /\ \A x \in ports : \E i \in 1..n : order[i] = x
  BY <1>2, OrderCovers
<1> HIDE DEF n
<1>5. e \in [ports -> Requests]
  <2>1. ASSUME NEW p \in ports PROVE Limit(p, ingress, egress) \in Requests
    <3>1. p \in Nat /\ ingress[p] \in Rates /\ egress[p] \in Rates
      BY <1>2
    <3>2. QED
      BY <3>1 DEF Limit, Requests
  <2>2. QED
    BY <2>1
<1>6. \A p \in ports : e[p] = Limit(p, ingress, egress)
  OBVIOUS
<1> HIDE DEF e
<1>4. /\ plan \in [1..n -> Requests]
      /\ \A i \in 1..n : plan[i] = e[order[i]]
  <2>1. DOMAIN order = 1..n /\ \A i \in DOMAIN order : order[i] \in ports
    BY <1>3
  <2>2. \A i \in DOMAIN order : plan[i] = e[order[i]] /\ e[order[i]] \in Requests
    BY <1>1, <1>5, <1>6, <2>1 DEF Limit
  <2>3. DOMAIN plan = DOMAIN order /\ plan = [i \in DOMAIN plan |-> plan[i]]
    BY <1>1
  <2>4. QED
    BY <2>1, <2>2, <2>3
<1>7. /\ plan \in Seq(Requests) /\ Len(plan) = n
      /\ ports # {} => plan # <<>>
      /\ \A i \in 1..Len(plan) : order[i] \in ports /\ plan[i] = e[order[i]]
      /\ \A x \in ports : \E i \in 1..Len(plan) : plan[i] = e[x]
  BY <1>3, <1>4, ListPerMember
<1>8. ASSUME NEW i \in 1..Len(plan) PROVE \E p \in ports : plan[i] = Limit(p, ingress, egress)
  <2>1. order[i] \in ports /\ plan[i] = Limit(order[i], ingress, egress)
    BY <1>6, <1>7
  <2>2. QED
    BY <2>1
<1>9. ASSUME NEW p \in ports PROVE \E i \in 1..Len(plan) : plan[i] = Limit(p, ingress, egress)
  BY <1>6, <1>7
<1>10. QED
  BY <1>2, <1>7, <1>8, <1>9

Diagnose(p) == [cgi |-> "cable_diag_get", port |-> p]

LEMMA DiagnosticPlan ==
  ASSUME ConstantsAssumption, NEW ports \in PortLists, NEW plan \in RunCableDiagnostic(ports)
  PROVE  /\ plan \in Seq(Requests) /\ plan # <<>>
         /\ \A i \in 1..Len(plan) : \E p \in Nat : plan[i] = Diagnose(p)
         /\ \A p \in ports : \E i \in 1..Len(plan) : plan[i] = Diagnose(p)
<1> DEFINE all == IF ports = {} THEN Ports ELSE ports
           e == [p \in all |-> Diagnose(p)]
<1>1. PICK order \in SetToSeqs(all) :
        plan = [i \in DOMAIN order |-> [cgi |-> "cable_diag_get", port |-> order[i]]]
  BY DEF RunCableDiagnostic, Ascending
<1>2. IsFiniteSet(all) /\ all # {} /\ ports \subseteq all /\ \A p \in all : p \in Nat
  BY ConstantsAssumption DEF PortLists
<1> HIDE DEF all
<1> DEFINE n == Cardinality(all)
<1>3. n \in Nat /\ order \in [1..n -> all] /\ \A x \in all : \E i \in 1..n : order[i] = x
  BY <1>2, OrderCovers
<1> HIDE DEF n
<1>5. e \in [all -> Requests]
  BY <1>2 DEF Diagnose, Requests
<1>6. \A p \in all : e[p] = Diagnose(p)
  OBVIOUS
<1> HIDE DEF e
<1>4. /\ plan \in [1..n -> Requests]
      /\ \A i \in 1..n : plan[i] = e[order[i]]
  <2>1. DOMAIN order = 1..n /\ \A i \in DOMAIN order : order[i] \in all
    BY <1>3
  <2>2. \A i \in DOMAIN order : plan[i] = e[order[i]] /\ e[order[i]] \in Requests
    BY <1>1, <1>5, <1>6, <2>1 DEF Diagnose
  <2>3. DOMAIN plan = DOMAIN order /\ plan = [i \in DOMAIN plan |-> plan[i]]
    BY <1>1
  <2>4. QED
    BY <2>1, <2>2, <2>3
<1>7. /\ plan \in Seq(Requests) /\ Len(plan) = n
      /\ all # {} => plan # <<>>
      /\ \A i \in 1..Len(plan) : order[i] \in all /\ plan[i] = e[order[i]]
      /\ \A x \in all : \E i \in 1..Len(plan) : plan[i] = e[x]
  BY <1>3, <1>4, ListPerMember
<1>8. QED
  BY <1>2, <1>6, <1>7

LEMMA Within ==
  ASSUME NEW X, NEW Y, NEW q \in Seq(X), \A i \in 1..Len(q) : q[i] \in Y
  PROVE  q \in Seq(Y)
OBVIOUS

\* The mirroring lists of a plan for m, given the configuration it has read.
PlannedRx(s, m) ==
  s.mirror.rx \cup IF m.kind = "monitor-source" /\ "rx" \in m.dirs THEN m.ports ELSE {}
PlannedTx(s, m) ==
  s.mirror.tx \cup IF m.kind = "monitor-source" /\ "tx" \in m.dirs THEN m.ports ELSE {}
PlannedDest(s, m) ==
  IF m.kind = "monitor-destination" THEN m.port ELSE IF s.mirror.dest = 0 THEN 1 ELSE s.mirror.dest

LEMMA MonitorPlan ==
  ASSUME ConstantsAssumption, NEW m \in Commands, m.kind \in {"monitor-source", "monitor-destination"},
         NEW s \in Configs, NEW r, NEW plan \in Plans(r, s, m)
  PROVE  /\ PlannedRx(s, m) \in PortLists /\ PlannedTx(s, m) \in PortLists /\ PlannedDest(s, m) \in Nat
         /\ plan \in SetPortMirror(PlannedDest(s, m), PlannedRx(s, m), PlannedTx(s, m))
<1>1. Ports \in PortLists /\ s.mirror.rx \in SUBSET Ports /\ s.mirror.tx \in SUBSET Ports
      /\ s.mirror.dest \in Ports \cup {0}
  BY ConstantsAssumption DEF Configs, Mirror
<1>2. s.mirror.rx \in PortLists /\ s.mirror.tx \in PortLists /\ s.mirror.dest \in Nat
  <2>1. IsFiniteSet(Ports) /\ Ports \subseteq Nat
    BY <1>1 DEF PortLists
  <2>2. IsFiniteSet(s.mirror.rx) /\ IsFiniteSet(s.mirror.tx)
    BY <1>1, <2>1, FS_Subset
  <2>3. s.mirror.rx \in SUBSET Nat /\ s.mirror.tx \in SUBSET Nat
    BY <1>1, <2>1
  <2>5. s.mirror.dest \in Nat
    <3>1. s.mirror.dest \in Ports \/ s.mirror.dest = 0
      BY <1>1
    <3>2. CASE s.mirror.dest \in Ports
      BY <2>1, <3>2
    <3>3. CASE s.mirror.dest = 0
      <4>1. 0 \in Nat
        OBVIOUS
      <4>2. QED
        BY <3>3, <4>1, Zenon
    <3>4. QED
      BY <3>1, <3>2, <3>3
  <2>4. \A x \in SUBSET Nat : IsFiniteSet(x) => x \in PortLists
    BY DEF PortLists
  <2>6. QED
    BY <2>2, <2>3, <2>4, <2>5
<1>3. CASE m.kind = "monitor-source"
  <2>1. m.ports \in PortLists /\ {} \in PortLists
    BY <1>3, FS_EmptySet DEF Commands, Interfaces, PortLists
  <2>2. PlannedRx(s, m) \in PortLists /\ PlannedTx(s, m) \in PortLists
    BY <1>2, <2>1, FS_Union DEF PlannedRx, PlannedTx, PortLists
  <2>3. plan \in MonitorSource(s, m)
    BY <1>3 DEF Plans, ReadsTwice
  <2>4. /\ PlannedRx(s, m) = s.mirror.rx \cup IF "rx" \in m.dirs THEN m.ports ELSE {}
        /\ PlannedTx(s, m) = s.mirror.tx \cup IF "tx" \in m.dirs THEN m.ports ELSE {}
        /\ PlannedDest(s, m) = IF s.mirror.dest = 0 THEN 1 ELSE s.mirror.dest
    BY <1>3 DEF PlannedRx, PlannedTx, PlannedDest
  <2>5. PlannedDest(s, m) \in Nat
    <3>1. 1 \in Nat /\ s.mirror.dest \in Nat
      BY <1>2
    <3>2. QED
      BY ONLY <2>4, <3>1
  <2>6. plan \in SetPortMirror(PlannedDest(s, m), PlannedRx(s, m), PlannedTx(s, m))
    BY <2>3, <2>4, Zenon DEF MonitorSource
  <2>7. QED
    BY <2>2, <2>5, <2>6
<1>4. CASE m.kind = "monitor-destination"
  <2>1. m.port \in Nat
    BY <1>4 DEF Commands
  <2>2. PlannedRx(s, m) = s.mirror.rx /\ PlannedTx(s, m) = s.mirror.tx /\ PlannedDest(s, m) = m.port
    BY <1>4 DEF PlannedRx, PlannedTx, PlannedDest
  <2>3. plan \in MonitorDestination(s, m)
    BY <1>4 DEF Plans, ReadsTwice
  <2>4. QED
    BY <1>2, <2>1, <2>2, <2>3 DEF MonitorDestination
<1>5. QED
  BY <1>3, <1>4

LEMMA LimitPlan ==
  ASSUME ConstantsAssumption, NEW m \in Commands, m.kind \in {"bandwidth", "no-bandwidth"},
         NEW r, NEW s \in Configs, NEW plan \in Plans(r, s, m)
  PROVE  \E ingress, egress \in [m.ports -> Rates] :
           /\ m.ports \in Interfaces /\ plan \in SetBandwidth(m.ports, ingress, egress)
           /\ m.kind = "no-bandwidth" => \A p \in m.ports : ingress[p] = 0 /\ egress[p] = 0
           /\ m.kind = "bandwidth" => \A p \in m.ports :
                IF m.dir = "ingress" THEN ingress[p] = m.rate /\ egress[p] = Entry(s.egress, p)
                ELSE egress[p] = m.rate /\ ingress[p] = Entry(s.ingress, p)
<1>1. CASE m.kind = "bandwidth"
  <2> DEFINE ingress == [p \in m.ports |-> IF m.dir = "ingress" THEN m.rate ELSE Entry(s.ingress, p)]
             egress == [p \in m.ports |-> IF m.dir = "egress" THEN m.rate ELSE Entry(s.egress, p)]
  <2>1. m.ports \in Interfaces /\ m.rate \in Rates /\ m.dir \in {"ingress", "egress"}
    BY <1>1 DEF Commands
  <2>2. ingress \in [m.ports -> Rates] /\ egress \in [m.ports -> Rates]
    BY <2>1, ConstantsAssumption DEF Entry, Configs
  <2>3. plan \in SetBandwidth(m.ports, ingress, egress)
    BY <1>1 DEF Plans, ReadsTwice, Bandwidth
  <2>4. \A p \in m.ports :
          IF m.dir = "ingress" THEN ingress[p] = m.rate /\ egress[p] = Entry(s.egress, p)
          ELSE egress[p] = m.rate /\ ingress[p] = Entry(s.ingress, p)
    BY <2>1
  <2> HIDE DEF ingress, egress
  <2>5. QED
    BY <1>1, <2>1, <2>2, <2>3, <2>4
<1>2. CASE m.kind = "no-bandwidth"
  <2> DEFINE zero == [p \in m.ports |-> 0]
  <2>1. m.ports \in Interfaces
    BY <1>2 DEF Commands
  <2>2. zero \in [m.ports -> Rates] /\ \A p \in m.ports : zero[p] = 0
    BY ConstantsAssumption
  <2>3. plan \in SetBandwidth(m.ports, zero, zero)
    BY <1>2 DEF Plans, ReadsTwice, NoBandwidth
  <2> HIDE DEF zero
  <2>4. QED
    BY <1>2, <2>1, <2>2, <2>3
<1>3. QED
  BY <1>1, <1>2

\* Any plan consists of requests the command asks for.  An uplink has been checked
\* before the page was read.
LEMMA PlanAsked ==
  ASSUME ConstantsAssumption, NEW m \in Commands, NEW r \in Configs, NEW s \in Configs,
         m.kind = "mtu-vlan" => PortsOf(m) \subseteq Ports \cup DefaultPorts,
         NEW plan \in Plans(r, s, m)
  PROVE  /\ plan \in Seq(Asked(m)) /\ plan # <<>>
         /\ m.kind \notin Several => Len(plan) = 1
<1>1. CASE m.kind \in Plain
  <2>1. plan \in Setter(m)
    BY <1>1 DEF Plans, ReadsTwice, Plain
  <2>2. QED
    BY <1>1, <2>1, PlainAsked
<1>2. CASE m.kind \in {"monitor-source", "monitor-destination"}
  <2> DEFINE rx == PlannedRx(s, m)
             tx == PlannedTx(s, m)
             dest == PlannedDest(s, m)
  <2>1. rx \in PortLists /\ tx \in PortLists /\ dest \in Nat /\ plan \in SetPortMirror(dest, rx, tx)
    BY <1>2, MonitorPlan
  <2>2. Asks(m, [cgi |-> "mirror_enabled_set", on |-> TRUE, dest |-> dest])
    <3>1. s.mirror.dest \in Ports \cup {0} /\ 1 \in Ports
      BY ConstantsAssumption DEF Configs, Mirror
    <3>2. m.kind = "monitor-source" => dest \in Ports
      BY <3>1 DEF PlannedDest
    <3>3. m.kind = "monitor-destination" => dest = m.port
      BY DEF PlannedDest
    <3> HIDE DEF dest
    <3>4. QED
      BY <1>2, <3>2, <3>3 DEF Asks, Plain
  <2>3. ASSUME NEW p \in rx \cup tx PROVE Asks(m, Mirrored(p, rx, tx))
    <3>1. CASE m.kind = "monitor-source"
      BY <3>1 DEF Asks, Plain, Mirrored, PlannedRx, PlannedTx
    <3>2. CASE m.kind = "monitor-destination"
      BY <3>2 DEF Asks, Plain, Mirrored
    <3>3. QED
      BY <1>2, <3>1, <3>2
  <2> HIDE DEF rx, tx, dest
  <2>4. /\ plan \in Seq(Requests) /\ plan # <<>>
        /\ plan[1] = [cgi |-> "mirror_enabled_set", on |-> TRUE, dest |-> dest]
        /\ \A i \in 1..Len(plan) : i = 1 \/ \E p \in rx \cup tx : plan[i] = Mirrored(p, rx, tx)
    BY ONLY <2>1, MirrorPlan
  <2>5. \A i \in 1..Len(plan) : plan[i] \in Asked(m)
    BY <2>2, <2>3, <2>4 DEF Asked
  <2>6. QED
    BY <1>2, <2>4, <2>5, Within DEF Several
<1>3. CASE m.kind \in {"bandwidth", "no-bandwidth"}
  <2>1. PICK ingress \in [m.ports -> Rates], egress \in [m.ports -> Rates] :
          /\ m.ports \in Interfaces /\ plan \in SetBandwidth(m.ports, ingress, egress)
          /\ m.kind = "no-bandwidth" => \A p \in m.ports : ingress[p] = 0 /\ egress[p] = 0
          /\ m.kind = "bandwidth" => \A p \in m.ports :
               IF m.dir = "ingress" THEN ingress[p] = m.rate /\ egress[p] = Entry(s.egress, p)
               ELSE egress[p] = m.rate /\ ingress[p] = Entry(s.ingress, p)
    BY <1>3, LimitPlan
  <2>2. \A p \in m.ports : Asks(m, Limit(p, ingress, egress))
    <3> SUFFICES ASSUME NEW p \in m.ports PROVE Asks(m, Limit(p, ingress, egress))
      OBVIOUS
    <3>1. CASE m.kind = "bandwidth"
      BY <2>1, <3>1 DEF Asks, Plain, Limit
    <3>2. CASE m.kind = "no-bandwidth"
      BY <2>1, <3>2 DEF Asks, Plain, Limit
    <3>3. QED
      BY <1>3, <3>1, <3>2
  <2>3. /\ plan \in Seq(Requests) /\ plan # <<>>
        /\ \A i \in 1..Len(plan) : \E p \in m.ports : plan[i] = Limit(p, ingress, egress)
    <3>1. /\ m.ports \in Interfaces /\ ingress \in [m.ports -> Rates] /\ egress \in [m.ports -> Rates]
          /\ plan \in SetBandwidth(m.ports, ingress, egress)
      BY <2>1
    <3>2. QED
      BY ONLY <3>1, BandwidthPlan
  <2>4. \A i \in 1..Len(plan) : plan[i] \in Asked(m)
    BY <2>2, <2>3 DEF Asked
  <2>5. QED
    BY <1>3, <2>3, <2>4, Within DEF Several
<1>5. CASE m.kind = "test-cable-diagnostics"
  <2>1. m.ports \in PortLists /\ plan \in RunCableDiagnostic(m.ports)
    BY <1>5 DEF Plans, ReadsTwice, Commands
  <2>2. \A p \in Nat : Asks(m, Diagnose(p))
    BY <1>5 DEF Asks, Plain, Diagnose
  <2>3. /\ plan \in Seq(Requests) /\ plan # <<>>
        /\ \A i \in 1..Len(plan) : \E p \in Nat : plan[i] = Diagnose(p)
    BY <2>1, DiagnosticPlan
  <2>4. \A i \in 1..Len(plan) : plan[i] \in Asked(m)
    BY <2>2, <2>3 DEF Asked
  <2>5. QED
    BY <1>5, <2>3, <2>4, Within DEF Several
<1>6. CASE m.kind \in {"channel-group", "no-channel-group", "mtu-vlan", "ip-address", "ip-address-dhcp",
                      "ip-default-gateway", "no-ip-address-dhcp"}
  <2>1. \E q \in Asked(m) : plan = <<q>>
    <3>1. CASE m.kind = "channel-group"
      <4> DEFINE q == [cgi |-> "port_trunk_set", group |-> m.group, ports |-> s.group[m.group] \cup m.ports]
      <4>1. m.group \in Groups /\ m.ports \in SUBSET Nat /\ m.ports # {}
        BY <3>1 DEF Commands, Interfaces, PortLists
      <4>2. s.group[m.group] \in SUBSET Nat
        BY <4>1, ConstantsAssumption DEF Configs, PortLists
      <4>3. plan = <<q>>
        BY <3>1, <4>1 DEF Plans, ReadsTwice, ChannelGroup, SetPortTrunk
      <4>4. q \in Requests
        BY <4>1, <4>2 DEF Requests
      <4>5. Asks(m, q)
        BY <3>1 DEF Asks, Plain
      <4>6. QED
        BY <4>3, <4>4, <4>5 DEF Asked
    <3>2. CASE m.kind = "no-channel-group"
      <4>1. m.group \in Groups /\ m.ports \in SUBSET Nat
        BY <3>2 DEF Commands, Interfaces, PortLists
      <4>2. s.group[m.group] \ m.ports \in SUBSET Nat
        BY <4>1, ConstantsAssumption DEF Configs, PortLists
      <4>3. plan \in SetPortTrunk(m.group, s.group[m.group] \ m.ports)
        BY <3>2 DEF Plans, ReadsTwice, NoChannelGroup
      <4>4. CASE s.group[m.group] \ m.ports # {}
        <5> DEFINE q == [cgi |-> "port_trunk_set", group |-> m.group, ports |-> s.group[m.group] \ m.ports]
        <5>1. plan = <<q>>
          BY <4>3, <4>4 DEF SetPortTrunk
        <5>2. q \in Requests
          BY <4>1, <4>2 DEF Requests
        <5>3. Asks(m, q)
          BY <3>2 DEF Asks, Plain
        <5>4. QED
          BY <5>1, <5>2, <5>3 DEF Asked
      <4>5. CASE s.group[m.group] \ m.ports = {}
        <5> DEFINE q == [cgi |-> "port_trunk_display", group |-> m.group]
        <5>1. plan = <<q>>
          BY <4>3, <4>5 DEF SetPortTrunk
        <5>2. q \in Requests
          BY <4>1 DEF Requests
        <5>3. Asks(m, q)
          BY <3>2 DEF Asks, Plain
        <5>4. QED
          BY <5>1, <5>2, <5>3 DEF Asked
      <4>6. QED
        BY <4>4, <4>5
    <3>3. CASE m.kind = "mtu-vlan"
      <4> DEFINE q == [cgi |-> "mtuVlanSet", on |-> m.on,
                       port |-> IF "port" \in DOMAIN m THEN m.port ELSE s.uplink.port]
      <4>1. plan = <<q>>
        BY <3>3 DEF Plans, ReadsTwice, SetMTUVlan
      <4>2. "port" \in DOMAIN m => m.port \in PortsOf(m)
        BY DEF PortsOf
      <4>3. q.port \in Ports \cup DefaultPorts
        BY <3>3, <4>2 DEF Configs, Uplink
      <4>4. m.on \in BOOLEAN
        BY <3>3 DEF Commands
      <4>5. q \in Requests
        BY <4>3, <4>4 DEF Requests
      <4>6. Asks(m, q)
        BY <3>3 DEF Asks, Plain, Configs, Uplink
      <4>7. QED
        BY <4>1, <4>5, <4>6 DEF Asked
    <3>4. CASE m.kind \in {"ip-address", "ip-address-dhcp", "ip-default-gateway", "no-ip-address-dhcp"}
      <4>1. plan \in IPCommand(r, s, m)
        BY <3>4 DEF Plans, ReadsTwice
      <4>2. /\ r.ip.ip \in Addresses /\ r.ip.gateway \in Addresses
            /\ s.ip.ip \in Addresses /\ s.ip.gateway \in Addresses /\ 0 \notin Addresses
        BY ConstantsAssumption DEF Configs, IP
      <4>3. /\ m.kind = "ip-address" => m.ip \in Addresses
            /\ m.kind = "ip-default-gateway" => m.gateway \in Addresses
        BY DEF Commands
      <4>4. PICK dhcp \in BOOLEAN, ip \in Addresses, gateway \in Addresses :
              /\ plan = <<[cgi |-> "ip_setting", dhcp |-> dhcp, ip |-> ip, gateway |-> gateway]>>
              /\ dhcp <=> m.kind = "ip-address-dhcp"
              /\ m.kind = "ip-address" => ip = m.ip
              /\ m.kind = "ip-default-gateway" => gateway = m.gateway
        <5>1. CASE m.kind = "ip-address"
          BY <4>1, <4>2, <4>3, <5>1 DEF IPCommand, SetIPSettings
        <5>2. CASE m.kind = "ip-address-dhcp"
          BY <4>1, <4>2, <5>2 DEF IPCommand, SetIPSettings
        <5>3. CASE m.kind = "ip-default-gateway"
          BY <4>1, <4>2, <4>3, <5>3 DEF IPCommand, SetIPSettings
        <5>4. CASE m.kind = "no-ip-address-dhcp"
          BY <4>1, <4>2, <5>4 DEF IPCommand, SetIPSettings
        <5>5. QED
          BY <3>4, <5>1, <5>2, <5>3, <5>4
      <4> DEFINE q == [cgi |-> "ip_setting", dhcp |-> dhcp, ip |-> ip, gateway |-> gateway]
      <4>5. q \in Requests
        BY DEF Requests
      <4>6. Asks(m, q)
        BY <3>4, <4>4 DEF Asks, Plain
      <4>7. QED
        BY <4>4, <4>5, <4>6 DEF Asked
    <3>5. QED
      BY <1>6, <3>1, <3>2, <3>3, <3>4
  <2>2. PICK q \in Asked(m) : plan = <<q>>
    BY <2>1
  <2>3. QED
    BY <2>2, Singletons
<1>7. QED
  BY <1>1, <1>2, <1>3, <1>5, <1>6 DEF Commands, Plain
-----------------------------------------------------------------------------
(* Validation.                                                             *)

OnPorts == {"shutdown", "no-shutdown", "no-storm-control", "no-bandwidth", "speed", "flowcontrol",
            "qos-port-priority", "storm-control", "bandwidth", "channel-group", "no-channel-group",
            "clear-counters", "test-cable-diagnostics", "monitor-source", "port-vlan"}

LEMMA CommandFields ==
  ASSUME NEW m \in Commands
  PROVE  /\ "ports" \in DOMAIN m <=> m.kind \in OnPorts
         /\ "port" \in DOMAIN m => m.kind \in {"monitor-destination", "mtu-vlan"}
         /\ m.kind = "monitor-destination" => "port" \in DOMAIN m
         /\ "dest" \notin DOMAIN m
BY DEF Commands, OnPorts

LEMMA PortsOfMember ==
  ASSUME NEW x, NEW p
  PROVE  p \in PortsOf(x) <=>
           \/ "ports" \in DOMAIN x /\ p \in x.ports
           \/ "port" \in DOMAIN x /\ p = x.port
           \/ "dest" \in DOMAIN x /\ p = x.dest
<1>1. p \in PortsOf(x) <=> \/ "ports" \in DOMAIN x /\ p \in x.ports
                          \/ \E f \in {"port", "dest"} \cap DOMAIN x : p = x[f]
  BY DEF PortsOf
<1>2. QED
  BY <1>1

LEMMA SeqDomain == ASSUME NEW X, NEW q \in Seq(X) PROVE DOMAIN q = 1..Len(q)
OBVIOUS

LEMMA RequestNames ==
  ASSUME NEW p, NEW x, NEW y
  PROVE  /\ p \in PortsOf(Mirrored(p, x, y)) /\ p \in PortsOf(Diagnose(p))
         /\ p \in PortsOf([cgi |-> "mirror_enabled_set", on |-> TRUE, dest |-> p])
<1>1. "port" \in DOMAIN Mirrored(p, x, y) /\ Mirrored(p, x, y).port = p
  BY DEF Mirrored
<1>2. "port" \in DOMAIN Diagnose(p) /\ Diagnose(p).port = p
  BY DEF Diagnose
<1> DEFINE q == [cgi |-> "mirror_enabled_set", on |-> TRUE, dest |-> p]
<1>3. "dest" \in DOMAIN q /\ q.dest = p
  OBVIOUS
<1> HIDE DEF q
<1>4. p \in PortsOf(q)
  BY <1>3, PortsOfMember
<1>5. QED
  BY <1>1, <1>2, <1>4, PortsOfMember DEF q

LEMMA OneElement == \A x : Len(<<x>>) = 1 /\ <<x>>[1] = x /\ 1 \in 1..Len(<<x>>)
OBVIOUS

\* A plan names every port of its command, but for bandwidth, leaving a group, the uplink
\* and the counters.
LEMMA PlanNames ==
  ASSUME ConstantsAssumption, NEW m \in Commands, NEW r, NEW s \in Configs,
         m.kind \notin {"bandwidth", "no-bandwidth", "no-channel-group", "mtu-vlan", "clear-counters"},
         NEW plan \in Plans(r, s, m), NEW p, p \in PortsOf(m)
  PROVE  \E i \in 1..Len(plan) : p \in PortsOf(plan[i])
<1>3. /\ m.kind \in OnPorts => p \in m.ports
      /\ m.kind \notin OnPorts => m.kind = "monitor-destination" /\ p = m.port
  <2>1. \/ "ports" \in DOMAIN m /\ p \in m.ports
        \/ "port" \in DOMAIN m /\ p = m.port
        \/ "dest" \in DOMAIN m /\ p = m.dest
    BY PortsOfMember
  <2>2. /\ "ports" \in DOMAIN m <=> m.kind \in OnPorts
        /\ "port" \in DOMAIN m => m.kind \in {"monitor-destination", "mtu-vlan"}
        /\ m.kind = "monitor-destination" => "port" \in DOMAIN m
        /\ "dest" \notin DOMAIN m
    BY CommandFields
  <2>3. QED
    BY <2>1, <2>2 DEF OnPorts
<1>5. CASE m.kind \in {"monitor-source", "monitor-destination"}
  <2> DEFINE rx == PlannedRx(s, m)
             tx == PlannedTx(s, m)
             dest == PlannedDest(s, m)
  <2>1. rx \in PortLists /\ tx \in PortLists /\ dest \in Nat /\ plan \in SetPortMirror(dest, rx, tx)
    BY <1>5, MonitorPlan
  <2>2. /\ m.kind = "monitor-source" => p \in rx \cup tx
        /\ m.kind = "monitor-destination" => p = dest
    <3>1. CASE m.kind = "monitor-source"
      <4>1. m.dirs \in {{"rx"}, {"tx"}, {"rx", "tx"}}
        BY <3>1 DEF Commands
      <4>2. QED
        BY <1>3, <3>1, <4>1 DEF PlannedRx, PlannedTx, OnPorts
    <3>2. CASE m.kind = "monitor-destination"
      BY <1>3, <3>2 DEF PlannedDest, OnPorts
    <3>3. QED
      BY <1>5, <3>1, <3>2
  <2> HIDE DEF rx, tx, dest
  <2>3. /\ plan \in Seq(Requests) /\ plan # <<>>
        /\ plan[1] = [cgi |-> "mirror_enabled_set", on |-> TRUE, dest |-> dest]
        /\ \A x \in rx \cup tx : \E i \in 1..Len(plan) : plan[i] = Mirrored(x, rx, tx)
    BY ONLY <2>1, MirrorPlan
  <2>4. CASE m.kind = "monitor-source"
    <3>1. PICK i \in 1..Len(plan) : plan[i] = Mirrored(p, rx, tx)
      BY <2>2, <2>3, <2>4
    <3>2. QED
      BY <3>1, RequestNames
  <2>5. CASE m.kind = "monitor-destination"
    <3>1. 1 \in 1..Len(plan)
      BY ONLY <2>3, HeadAndTail
    <3>2. p \in PortsOf(plan[1])
      BY <2>2, <2>3, <2>5, RequestNames
    <3>3. QED
      BY <3>1, <3>2
  <2>6. QED
    BY <1>5, <2>4, <2>5
<1>6. CASE m.kind = "test-cable-diagnostics"
  <2>1. m.ports \in PortLists /\ plan \in RunCableDiagnostic(m.ports) /\ p \in m.ports
    BY <1>3, <1>6 DEF Plans, ReadsTwice, Commands, OnPorts
  <2>2. PICK i \in 1..Len(plan) : plan[i] = Diagnose(p)
    BY ONLY ConstantsAssumption, <2>1, DiagnosticPlan
  <2>3. QED
    BY <2>2, RequestNames
<1>7. CASE m.kind = "channel-group"
  <2>1. p \in m.ports
    BY <1>3, <1>7 DEF OnPorts
  <2> DEFINE q == [cgi |-> "port_trunk_set", group |-> m.group, ports |-> s.group[m.group] \cup m.ports]
  <2>2. plan = <<q>>
    BY <1>7, <2>1 DEF Plans, ReadsTwice, ChannelGroup, SetPortTrunk
  <2>3. "ports" \in DOMAIN q /\ p \in q.ports
    BY <2>1
  <2>4. p \in PortsOf(q)
    BY <2>3, PortsOfMember
  <2>5. QED
    BY <2>2, <2>4, OneElement
<1>8. CASE m.kind \in Plain
  <2>1. plan \in Setter(m)
    BY <1>8 DEF Plans, ReadsTwice, Plain
  <2>2. /\ m.kind \in {"shutdown", "no-shutdown", "speed", "flowcontrol", "qos-port-priority",
                        "storm-control", "no-storm-control", "port-vlan"}
        /\ p \in m.ports
    BY <1>3, <1>8 DEF Plain, OnPorts
  <2>3. \E q : plan = <<q>> /\ "ports" \in DOMAIN q /\ q.ports = m.ports
    <3>1. CASE m.kind = "shutdown"
      <4> DEFINE q == [cgi |-> "port_setting", ports |-> m.ports, state |-> 0, speed |-> NoChange,
                       flowcontrol |-> NoChange]
      <4>1. plan = <<q>>
        BY <2>1, <3>1 DEF Setter, SetPorts
      <4>2. "ports" \in DOMAIN q /\ q.ports = m.ports
        OBVIOUS
      <4> HIDE DEF q
      <4>3. QED
        BY <4>1, <4>2
    <3>2. CASE m.kind = "no-shutdown"
      <4> DEFINE q == [cgi |-> "port_setting", ports |-> m.ports, state |-> 1, speed |-> NoChange,
                       flowcontrol |-> NoChange]
      <4>1. plan = <<q>>
        BY <2>1, <3>2 DEF Setter, SetPorts
      <4>2. "ports" \in DOMAIN q /\ q.ports = m.ports
        OBVIOUS
      <4> HIDE DEF q
      <4>3. QED
        BY <4>1, <4>2
    <3>3. CASE m.kind = "speed"
      <4> DEFINE q == [cgi |-> "port_setting", ports |-> m.ports, state |-> NoChange, speed |-> m.speed,
                       flowcontrol |-> NoChange]
      <4>1. plan = <<q>>
        BY <2>1, <3>3 DEF Setter, SetPorts
      <4>2. "ports" \in DOMAIN q /\ q.ports = m.ports
        OBVIOUS
      <4> HIDE DEF q
      <4>3. QED
        BY <4>1, <4>2
    <3>4. CASE m.kind = "flowcontrol"
      <4> DEFINE q == [cgi |-> "port_setting", ports |-> m.ports, state |-> NoChange, speed |-> NoChange,
                       flowcontrol |-> m.on]
      <4>1. plan = <<q>>
        BY <2>1, <3>4 DEF Setter, SetPorts
      <4>2. "ports" \in DOMAIN q /\ q.ports = m.ports
        OBVIOUS
      <4> HIDE DEF q
      <4>3. QED
        BY <4>1, <4>2
    <3>5. CASE m.kind = "qos-port-priority"
      <4> DEFINE q == [cgi |-> "qos_port_priority_set", ports |-> m.ports, port_queue |-> m.priority - 1]
      <4>1. plan = <<q>>
        BY <2>1, <3>5 DEF Setter, SetPortPriority
      <4>2. "ports" \in DOMAIN q /\ q.ports = m.ports
        OBVIOUS
      <4> HIDE DEF q
      <4>3. QED
        BY <4>1, <4>2
    <3>6. CASE m.kind = "storm-control"
      <4> DEFINE q == [cgi |-> "qos_storm_set", ports |-> m.ports, rate |-> m.rate,
                       types |-> IF m.rate # 0 /\ m.types = {} THEN StormTypes ELSE m.types]
      <4>1. plan = <<q>>
        BY <2>1, <3>6 DEF Setter, SetStormControl
      <4>2. "ports" \in DOMAIN q /\ q.ports = m.ports
        OBVIOUS
      <4> HIDE DEF q
      <4>3. QED
        BY <4>1, <4>2
    <3>7. CASE m.kind = "no-storm-control"
      <4> DEFINE q == [cgi |-> "qos_storm_set", ports |-> m.ports, rate |-> 0,
                       types |-> IF 0 # 0 /\ {} = {} THEN StormTypes ELSE {}]
      <4>1. plan = <<q>>
        BY <2>1, <3>7 DEF Setter, SetStormControl
      <4>2. "ports" \in DOMAIN q /\ q.ports = m.ports
        OBVIOUS
      <4> HIDE DEF q
      <4>3. QED
        BY <4>1, <4>2
    <3>8. CASE m.kind = "port-vlan"
      <4> DEFINE q == [cgi |-> "pvlan_add", vid |-> m.vid, ports |-> m.ports]
      <4>1. plan = <<q>>
        BY <2>1, <3>8 DEF Setter, AddPortVLAN
      <4>2. "ports" \in DOMAIN q /\ q.ports = m.ports
        OBVIOUS
      <4> HIDE DEF q
      <4>3. QED
        BY <4>1, <4>2
    <3>9. QED
      BY <2>2, <3>1, <3>2, <3>3, <3>4, <3>5, <3>6, <3>7, <3>8
  <2>4. PICK q : plan = <<q>> /\ "ports" \in DOMAIN q /\ q.ports = m.ports
    BY <2>3
  <2>5. p \in PortsOf(q)
    BY <2>2, <2>4, PortsOfMember
  <2>6. QED
    BY <2>4, <2>5, OneElement
<1>9. QED
  BY <1>3, <1>5, <1>6, <1>7, <1>8 DEF Plain, OnPorts

\* Clearing counters names the port it hands on.
LEMMA ClearNames ==
  ASSUME NEW m, m.kind = "clear-counters", NEW r, NEW s, NEW plan \in Plans(r, s, m),
         NEW p \in First(m.ports)
  PROVE  \E i \in 1..Len(plan) : p \in PortsOf(plan[i])
<1> DEFINE q == [cgi |-> "port_statistics_set", ports |-> First(m.ports)]
<1>1. plan = <<q>>
  BY DEF Plans, ReadsTwice, Setter, ClearCounters, ResetPortStatistics
<1>2. "ports" \in DOMAIN q /\ p \in q.ports
  OBVIOUS
<1> HIDE DEF q
<1>3. p \in PortsOf(q)
  BY <1>2, PortsOfMember
<1>4. QED
  BY <1>1, <1>3, OneElement

LEMMA Handed == \A m : m.kind # "clear-counters" => HandedOn(m) = PortsOf(m)
BY DEF HandedOn

Accepted(c, m) == IF m.kind = "test-cable-diagnostics" THEN Ports ELSE KnownPorts(c)

\* A plan that passes names no other port than those accepted.
LEMMA ValidNames ==
  ASSUME ConstantsAssumption, NEW c \in CLIs, NEW m \in Commands, NEW r \in Configs, NEW s \in Configs,
         m.kind \notin {"bandwidth", "no-bandwidth", "no-channel-group"},
         m.kind = "mtu-vlan" => PortsOf(m) \subseteq KnownPorts(c),
         NEW plan \in Plans(r, s, m), Valid(c, m, plan)
  PROVE  HandedOn(m) \subseteq Accepted(c, m)
<1> SUFFICES ASSUME m.kind # "mtu-vlan", NEW p \in HandedOn(m)
             PROVE  p \in Accepted(c, m)
  BY Handed DEF Accepted
<1>1. \A i \in DOMAIN plan : PortsOf(plan[i]) \subseteq Accepted(c, m)
  BY DEF Valid, ValidatesEach, Accepted
<1>2. PICK i \in 1..Len(plan) : p \in PortsOf(plan[i])
  BY PlanNames, ClearNames DEF HandedOn
<1>3. plan \in Seq(Asked(m))
  BY PlanAsked
<1>4. DOMAIN plan = 1..Len(plan)
  BY <1>3, SeqDomain
<1>5. QED
  BY <1>1, <1>2, <1>4
-----------------------------------------------------------------------------
(* What holds whatever the CLIs do to each other.                          *)

Statuses == {"idle", "read", "reread", "write", "ok", "failed"}

Typed ==
  /\ config \in Configs /\ menu \in Menus
  /\ cmd \in [CLIs -> Commands \cup {[kind |-> "none"]}]
  /\ reading \in [CLIs -> Configs]
  /\ todo \in [CLIs -> Seq(Requests)]
  /\ at \in [CLIs -> Statuses]
  /\ lossy \in [CLIs -> BOOLEAN] /\ counted \in [CLIs -> BOOLEAN] /\ sure \in [CLIs -> BOOLEAN]
  /\ hostname \in [CLIs -> HostNames] /\ given \in 0..MaxCommands

Working == {"read", "reread", "write"}

\* The ports of m are on the switch, or c still has requests for the others ahead.
Reaches(m, q) ==
  \A p \in m.ports : p \in Ports \/ \E i \in 1..Len(q) : q[i].port = p

\* What c has ahead is what its command asks for, and what it was given for has been
\* validated as far as it has got.
Ahead(c) ==
  /\ at[c] # "idle" => cmd[c] \in Commands
  /\ todo[c] # <<>> <=> at[c] = "write"
  /\ at[c] = "write" => todo[c] \in Seq(Asked(cmd[c]))
  /\ at[c] \in {"read", "reread"} => ~lossy[c]
  /\ sure[c] => counted[c]
  /\ at[c] \in Working \cup {"ok"} /\ cmd[c].kind = "mtu-vlan" =>
       PortsOf(cmd[c]) \subseteq IF sure[c] THEN Ports ELSE Ports \cup DefaultPorts
  /\ at[c] \in {"write", "ok"} /\ sure[c]
       /\ cmd[c].kind \notin {"bandwidth", "no-bandwidth", "no-channel-group"} =>
       HandedOn(cmd[c]) \subseteq Ports
  /\ at[c] \in {"write", "ok"} /\ cmd[c].kind = "test-cable-diagnostics" =>
       HandedOn(cmd[c]) \subseteq Ports /\ ~lossy[c]
  /\ at[c] \in {"write", "ok"} /\ sure[c] /\ cmd[c].kind \in {"bandwidth", "no-bandwidth"} =>
       Reaches(cmd[c], todo[c])

Inv == Typed /\ \A c \in CLIs : Ahead(c)

\* What belongs to other CLIs than c stays as it is.
Others(c) ==
  \A d \in CLIs \ {c} :
    /\ cmd'[d] = cmd[d] /\ reading'[d] = reading[d] /\ todo'[d] = todo[d] /\ at'[d] = at[d]
    /\ lossy'[d] = lossy[d] /\ counted'[d] = counted[d] /\ sure'[d] = sure[d]
    /\ hostname'[d] = hostname[d]

LEMMA OthersAhead ==
  ASSUME NEW c \in CLIs, Others(c), NEW d \in CLIs \ {c}, Ahead(d)
  PROVE  Ahead(d)'
BY DEF Others, Ahead

LEMMA FactoryTyped == ASSUME ConstantsAssumption PROVE Factory \in Configs
<1>1. AnyOf(Addresses) \in Addresses /\ AnyOf(HostNames) \in HostNames
  BY ConstantsAssumption DEF AnyOf
<1> DEFINE a == AnyOf(Addresses)
           h == AnyOf(HostNames)
<1>2. a \in Addresses /\ h \in HostNames /\ 1 \in Ports /\ 0 \in Rates
  BY <1>1, ConstantsAssumption
<1> HIDE DEF a, h
<1>3. /\ [on |-> FALSE, dest |-> 0, rx |-> {}, tx |-> {}] \in Mirror
      /\ [g \in Groups |-> {}] \in [Groups -> SUBSET Ports]
      /\ [on |-> FALSE, port |-> 1] \in Uplink
      /\ [dhcp |-> TRUE, ip |-> a, gateway |-> a] \in IP
      /\ [p \in Ports |-> 0] \in [Ports -> Rates]
      /\ [p \in Ports |-> [state |-> 1, speed |-> 1, flowcontrol |-> 0]] \in [Ports -> PortSettings]
  BY <1>2 DEF Mirror, Uplink, IP, PortSettings
<1>4. /\ [p \in Ports |-> 1] \in [Ports -> 1..4]
      /\ [p \in Ports |-> [rate |-> 0, types |-> {}]] \in [Ports -> Storm]
      /\ [on |-> FALSE, members |-> [v \in Vids |-> {}]] \in PortVlans
      /\ [igmp |-> FALSE, suppression |-> FALSE, loop |-> FALSE, led |-> TRUE, qos |-> 2, name |-> h]
           \in Switches
  BY <1>2 DEF Storm, PortVlans, Switches
<1>5. QED
  BY <1>3, <1>4 DEF Factory, Configs, a, h

LEMMA InitInv == ConstantsAssumption /\ Init => Inv
<1> SUFFICES ASSUME ConstantsAssumption, Init PROVE Inv
  OBVIOUS
<1>1. Factory \in Configs
  BY FactoryTyped
<1>2. Factory.switch.name \in HostNames
  BY <1>1 DEF Configs, Switches
<1>3. Typed
  <2>1. <<>> \in Seq(Requests) /\ 0 \in 0..MaxCommands
    BY ConstantsAssumption
  <2>2. QED
    BY <1>1, <1>2, <2>1 DEF Init, Typed, Statuses
<1>4. ASSUME NEW c \in CLIs PROVE Ahead(c)
  BY DEF Init, Ahead, Working
<1>5. QED
  BY <1>3, <1>4 DEF Inv

\* The queue a command starts with.
LEMMA Reached ==
  ASSUME ConstantsAssumption, NEW m \in Commands, m.kind \in {"bandwidth", "no-bandwidth"},
         NEW r, NEW s \in Configs, NEW plan \in Plans(r, s, m)
  PROVE  Reaches(m, plan)
<1>1. PICK ingress \in [m.ports -> Rates], egress \in [m.ports -> Rates] :
        m.ports \in Interfaces /\ plan \in SetBandwidth(m.ports, ingress, egress)
  BY LimitPlan
<1>2. \A p \in m.ports : \E i \in 1..Len(plan) : plan[i] = Limit(p, ingress, egress)
  BY ONLY <1>1, BandwidthPlan
<1>3. \A p \in m.ports : Limit(p, ingress, egress).port = p
  BY DEF Limit
<1>4. QED
  BY <1>2, <1>3 DEF Reaches

LEMMA ProceedPlan ==
  ASSUME ConstantsAssumption, Typed, NEW c \in CLIs, NEW m \in Commands,
         NEW r \in Configs, NEW s \in Configs, Proceed(c, m, r, s), todo[c] = <<>>,
         m.kind = "mtu-vlan" => PortsOf(m) \subseteq Ports \cup DefaultPorts
  PROVE  /\ at' \in [CLIs -> Statuses] /\ todo' \in [CLIs -> Seq(Requests)]
         /\ \A d \in CLIs \ {c} : at'[d] = at[d] /\ todo'[d] = todo[d]
         /\ \/ at'[c] = "failed" /\ todo'[c] = <<>>
            \/ /\ at'[c] = "write" /\ todo'[c] # <<>> /\ todo'[c] \in Seq(Asked(m))
               /\ \E plan \in Plans(r, s, m) : Valid(c, m, plan) /\ todo'[c] = plan
<1>1. PICK plan \in Plans(r, s, m) :
        IF Valid(c, m, plan)
        THEN at' = [at EXCEPT ![c] = "write"] /\ todo' = [todo EXCEPT ![c] = plan]
        ELSE at' = [at EXCEPT ![c] = "failed"] /\ UNCHANGED todo
  BY DEF Proceed
<1>2. plan \in Seq(Asked(m)) /\ plan # <<>>
  BY PlanAsked
<1>3. plan \in Seq(Requests)
  <2>1. \A i \in 1..Len(plan) : plan[i] \in Requests
    BY <1>2 DEF Asked
  <2>2. QED
    BY <1>2, <2>1, Within
<1>4. CASE Valid(c, m, plan)
  BY <1>1, <1>2, <1>3, <1>4, ZenonT(60) DEF Typed, Statuses
<1>5. CASE ~Valid(c, m, plan)
  BY <1>1, <1>5 DEF Typed, Statuses
<1>6. QED
  BY <1>4, <1>5

LEMMA ProceedAhead ==
  ASSUME ConstantsAssumption, Typed, NEW c \in CLIs, NEW m \in Commands,
         NEW r \in Configs, NEW s \in Configs, Proceed(c, m, r, s), todo[c] = <<>>,
         cmd'[c] = m, ~lossy'[c], counted'[c] = counted[c], sure'[c] => counted[c],
         m.kind = "mtu-vlan" => PortsOf(m) \subseteq IF sure'[c] THEN Ports ELSE Ports \cup DefaultPorts
  PROVE  Ahead(c)'
<1>1. \/ at'[c] = "failed" /\ todo'[c] = <<>>
      \/ /\ at'[c] = "write" /\ todo'[c] # <<>> /\ todo'[c] \in Seq(Asked(m))
         /\ \E plan \in Plans(r, s, m) : Valid(c, m, plan) /\ todo'[c] = plan
  BY ProceedPlan
<1>2. CASE at'[c] = "failed" /\ todo'[c] = <<>>
  BY <1>2 DEF Ahead, Working
<1>3. CASE /\ at'[c] = "write" /\ todo'[c] # <<>> /\ todo'[c] \in Seq(Asked(m))
           /\ \E plan \in Plans(r, s, m) : Valid(c, m, plan) /\ todo'[c] = plan
  <2>1. PICK plan \in Plans(r, s, m) : Valid(c, m, plan) /\ todo'[c] = plan
    BY <1>3
  <2>2. m.kind \in {"bandwidth", "no-bandwidth"} => Reaches(m, plan)
    BY Reached
  <2>3. m.kind \notin {"bandwidth", "no-bandwidth", "no-channel-group", "mtu-vlan"} =>
          HandedOn(m) \subseteq Accepted(c, m)
    BY <2>1, ValidNames
  <2>4. counted[c] => KnownPorts(c) = Ports
    BY DEF KnownPorts
  <2>5. sure'[c] /\ m.kind \notin {"bandwidth", "no-bandwidth", "no-channel-group"} =>
          HandedOn(m) \subseteq Ports
    BY <2>3, <2>4, Handed DEF Accepted
  <2>6. m.kind = "test-cable-diagnostics" => HandedOn(m) \subseteq Ports
    BY <2>3 DEF Accepted
  <2>7. QED
    BY <1>3, <2>1, <2>2, <2>5, <2>6 DEF Ahead, Working
<1>4. QED
  BY <1>1, <1>2, <1>3

LEMMA GiveLocal ==
  ASSUME ConstantsAssumption, Typed, NEW c \in CLIs, NEW m \in menu, Give(c, m), Ahead(c)
  PROVE  Others(c) /\ m \in Commands
BY DEF Give, Proceed, Typed, Others

LEMMA GiveKeeps ==
  ASSUME ConstantsAssumption, Typed, NEW c \in CLIs, NEW m \in menu, Give(c, m), Ahead(c)
  PROVE  Typed' /\ Ahead(c)'
<1>1. m \in Commands /\ todo[c] = <<>> /\ Factory \in Configs
  BY GiveLocal, FactoryTyped DEF Give, Ahead
<1>2. /\ cmd' = [cmd EXCEPT ![c] = m] /\ lossy' = [lossy EXCEPT ![c] = FALSE]
      /\ sure' = [sure EXCEPT ![c] = counted[c]] /\ given' = given + 1 /\ given < MaxCommands
      /\ config' = config /\ menu' = menu /\ reading' = reading /\ counted' = counted
      /\ hostname' = hostname
  BY DEF Give
<1>3. cmd'[c] = m /\ ~lossy'[c] /\ sure'[c] = counted[c] /\ counted'[c] = counted[c]
  BY <1>2 DEF Typed
<1>4. /\ config' \in Configs /\ menu' \in Menus /\ cmd' \in [CLIs -> Commands \cup {[kind |-> "none"]}]
      /\ reading' \in [CLIs -> Configs] /\ lossy' \in [CLIs -> BOOLEAN]
      /\ counted' \in [CLIs -> BOOLEAN] /\ sure' \in [CLIs -> BOOLEAN] /\ hostname' \in [CLIs -> HostNames]
      /\ given' \in 0..MaxCommands
  <2>1. given' \in 0..MaxCommands
    BY <1>2, ConstantsAssumption DEF Typed
  <2>2. QED
    BY <1>1, <1>2, <2>1 DEF Typed
<1>5. CASE ReadsOnce(m) \/ ReadsTwice(m)
  <2>1. /\ at' = [at EXCEPT ![c] = IF m.kind = "mtu-vlan" /\ ~(PortsOf(m) \subseteq KnownPorts(c))
                                  THEN "failed" ELSE "read"]
        /\ todo' = todo
    BY <1>5 DEF Give
  <2>2. at' \in [CLIs -> Statuses] /\ todo' \in [CLIs -> Seq(Requests)]
    BY <2>1 DEF Typed, Statuses
  <2>3. /\ at'[c] \in {"failed", "read"} /\ todo'[c] = <<>>
        /\ at'[c] = "read" /\ m.kind = "mtu-vlan" => PortsOf(m) \subseteq KnownPorts(c)
    BY <1>1, <2>1 DEF Typed
  <2>4. KnownPorts(c) \subseteq IF counted[c] THEN Ports ELSE Ports \cup DefaultPorts
    BY DEF KnownPorts
  <2>5. Ahead(c)'
    BY <1>1, <1>3, <2>3, <2>4 DEF Ahead, Working
  <2>6. QED
    BY <1>4, <2>2, <2>5 DEF Typed
<1>6. CASE ~(ReadsOnce(m) \/ ReadsTwice(m))
  <2>1. Proceed(c, m, Factory, Factory) /\ m.kind # "mtu-vlan"
    BY <1>6 DEF Give, ReadsOnce
  <2>2. Ahead(c)'
    BY <1>1, <1>3, <2>1, ProceedAhead
  <2>3. at' \in [CLIs -> Statuses] /\ todo' \in [CLIs -> Seq(Requests)]
    BY <1>1, <2>1, ProceedPlan
  <2>4. QED
    BY <1>4, <2>2, <2>3 DEF Typed
<1>7. QED
  BY <1>5, <1>6

\* The steps that leave the switch and what was given alone.
LEMMA LocalTyped ==
  ASSUME Typed, NEW c \in CLIs, UNCHANGED <<config, menu, cmd, lossy, sure, hostname, given>>,
         reading' \in [CLIs -> Configs], todo' \in [CLIs -> Seq(Requests)], at' \in [CLIs -> Statuses],
         counted' \in [CLIs -> BOOLEAN]
  PROVE  Typed'
BY DEF Typed

LEMMA ReadKeeps ==
  ASSUME ConstantsAssumption, Typed, NEW c \in CLIs, Read(c) \/ Reread(c), Ahead(c)
  PROVE  Typed' /\ Ahead(c)' /\ Others(c)
<1>1. /\ cmd[c] \in Commands /\ todo[c] = <<>> /\ ~lossy[c] /\ (sure[c] => counted[c])
      /\ cmd[c].kind = "mtu-vlan" =>
           PortsOf(cmd[c]) \subseteq IF sure[c] THEN Ports ELSE Ports \cup DefaultPorts
      /\ config \in Configs /\ reading[c] \in Configs
  BY DEF Ahead, Read, Reread, Working, Typed
<1>2. UNCHANGED <<config, menu, cmd, lossy, counted, sure, hostname, given>>
  BY DEF Read, Reread
<1>3. CASE Read(c) /\ ReadsTwice(cmd[c])
  <2>1. /\ at' = [at EXCEPT ![c] = "reread"] /\ reading' = [reading EXCEPT ![c] = config] /\ todo' = todo
    BY <1>3 DEF Read
  <2>2. /\ at' \in [CLIs -> Statuses] /\ reading' \in [CLIs -> Configs] /\ todo' \in [CLIs -> Seq(Requests)]
        /\ counted' \in [CLIs -> BOOLEAN]
    BY <1>2, <2>1 DEF Typed, Statuses
  <2>3. at'[c] = "reread"
    BY <2>1 DEF Typed
  <2>4. Ahead(c)'
    BY <1>1, <1>2, <2>1, <2>3 DEF Ahead, Working
  <2>5. Others(c)
    BY <1>2, <2>1 DEF Others, Typed
  <2>6. QED
    BY <1>2, <2>2, <2>4, <2>5, LocalTyped
<1>4. ASSUME NEW r \in Configs, NEW s \in Configs, Proceed(c, cmd[c], r, s), reading' = reading
      PROVE  Typed' /\ Ahead(c)' /\ Others(c)
  <2> DEFINE m == cmd[c]
  <2>1. /\ m \in Commands /\ cmd'[c] = m /\ ~lossy'[c] /\ counted'[c] = counted[c]
        /\ sure'[c] = sure[c] /\ (sure'[c] => counted[c])
        /\ m.kind = "mtu-vlan" => PortsOf(m) \subseteq IF sure'[c] THEN Ports ELSE Ports \cup DefaultPorts
    BY <1>1, <1>2
  <2>2. m.kind = "mtu-vlan" => PortsOf(m) \subseteq Ports \cup DefaultPorts
    BY <2>1
  <2>3. Proceed(c, m, r, s)
    BY <1>4
  <2> HIDE DEF m
  <2>4. Ahead(c)'
    BY <1>1, <2>1, <2>3, ProceedAhead
  <2>5. /\ at' \in [CLIs -> Statuses] /\ todo' \in [CLIs -> Seq(Requests)]
        /\ \A d \in CLIs \ {c} : at'[d] = at[d] /\ todo'[d] = todo[d]
    BY <1>1, <2>1, <2>2, <2>3, ProceedPlan
  <2>6. reading' \in [CLIs -> Configs] /\ counted' \in [CLIs -> BOOLEAN]
    BY <1>2, <1>4 DEF Typed
  <2>7. Others(c)
    BY <1>2, <1>4, <2>5 DEF Others
  <2>8. QED
    BY <1>2, <2>4, <2>5, <2>6, <2>7, LocalTyped
<1>5. CASE Read(c) /\ ~ReadsTwice(cmd[c])
  BY <1>1, <1>4, <1>5 DEF Read
<1>6. CASE Reread(c)
  BY <1>1, <1>4, <1>6 DEF Reread
<1>7. QED
  BY <1>3, <1>5, <1>6

LEMMA ReloginKeeps ==
  ASSUME Typed, NEW c \in CLIs, Relogin(c), Ahead(c)
  PROVE  Typed' /\ Ahead(c)' /\ Others(c)
<1>1. /\ counted' = [counted EXCEPT ![c] = TRUE]
      /\ UNCHANGED <<config, menu, cmd, reading, todo, at, lossy, sure, hostname, given>>
  BY DEF Relogin
<1>2. counted'[c] = TRUE /\ counted' \in [CLIs -> BOOLEAN]
  BY <1>1 DEF Typed
<1>3. Ahead(c)'
  BY <1>1, <1>2 DEF Ahead
<1>4. QED
  BY <1>1, <1>2, <1>3 DEF Typed, Others

LEMMA FailKeeps ==
  ASSUME Typed, NEW c \in CLIs, Fail(c), Ahead(c)
  PROVE  Typed' /\ Ahead(c)' /\ Others(c)
<1>1. /\ at' = [at EXCEPT ![c] = "failed"] /\ todo' = [todo EXCEPT ![c] = <<>>] /\ at[c] # "idle"
      /\ UNCHANGED <<menu, cmd, reading, lossy, counted, sure, hostname, given>>
      /\ (Goes(c) /\ config' = Perform(Head(todo[c]), config)) \/ config' = config
  BY DEF Fail
<1>2. /\ at'[c] = "failed" /\ todo'[c] = <<>>
      /\ at' \in [CLIs -> Statuses] /\ todo' \in [CLIs -> Seq(Requests)]
  BY <1>1 DEF Typed, Statuses
<1>3. Ahead(c)'
  BY <1>1, <1>2 DEF Ahead, Working
<1>4. config' \in Configs
  <2>1. CASE Goes(c) /\ config' = Perform(Head(todo[c]), config)
    <3>1. todo[c] \in Seq(Requests) /\ todo[c] # <<>>
      BY <2>1 DEF Goes, Ahead, Typed
    <3>2. Head(todo[c]) \in Requests
      BY <3>1, HeadAndTail
    <3>3. QED
      BY <2>1, <3>2, PerformOnly DEF OnlyIn, Typed
  <2>2. CASE config' = config
    BY <2>2 DEF Typed
  <2>3. QED
    BY <1>1, <2>1, <2>2
<1>5. QED
  BY <1>1, <1>2, <1>3, <1>4 DEF Typed, Others

\* A request leaves the queue, performed or lost.
Sent(c) ==
  /\ at' = [at EXCEPT ![c] = IF Len(todo[c]) = 1 THEN "ok" ELSE @]
  /\ todo' = [todo EXCEPT ![c] = Tail(@)]

LEMMA WriteKeeps ==
  ASSUME Typed, NEW c \in CLIs, Write(c), Ahead(c)
  PROVE  Typed' /\ Ahead(c)' /\ Others(c)
<1> DEFINE q == todo[c]
           m == cmd[c]
<1>1. /\ at[c] = "write" /\ m \in Commands /\ q \in Seq(Asked(m)) /\ q # <<>> /\ q \in Seq(Requests)
  BY DEF Write, Goes, Ahead, Typed
<1>2. /\ at' = [at EXCEPT ![c] = IF Len(q) = 1 THEN "ok" ELSE @] /\ todo' = [todo EXCEPT ![c] = Tail(q)]
      /\ UNCHANGED <<menu, cmd, reading, counted, sure, given>>
      /\ hostname' = IF m.kind = "hostname" THEN [hostname EXCEPT ![c] = m.name] ELSE hostname
      /\ \/ config' = Perform(Head(q), config) /\ lossy' = lossy
         \/ /\ Head(q).cgi # "cable_diag_get" /\ config' = config
            /\ lossy' = [lossy EXCEPT ![c] = TRUE]
  BY DEF Write
<1>3. Head(q) \in Asked(m) /\ Head(q) \in Requests /\ Tail(q) \in Seq(Asked(m)) /\ Tail(q) \in Seq(Requests)
  BY <1>1, HeadAndTail
<1>4. Tail(q) = <<>> <=> Len(q) = 1
  BY <1>1, TailEmpty
<1> HIDE DEF q
<1>5. /\ todo'[c] = Tail(q) /\ todo' \in [CLIs -> Seq(Requests)]
      /\ at'[c] = (IF Len(q) = 1 THEN "ok" ELSE "write") /\ at' \in [CLIs -> Statuses]
  BY <1>1, <1>2, <1>3 DEF Typed, Statuses
<1>6. config' \in Configs
  <2>1. Perform(Head(q), config) \in Configs
    BY <1>3, PerformOnly DEF OnlyIn, Typed
  <2>2. QED
    BY <1>2, <2>1 DEF Typed
<1>7. lossy' \in [CLIs -> BOOLEAN] /\ hostname' \in [CLIs -> HostNames]
  <2>1. m.kind = "hostname" => m.name \in HostNames
    BY <1>1 DEF Commands
  <2>2. QED
    BY <1>2, <2>1 DEF Typed
<1>8. Typed'
  BY <1>2, <1>5, <1>6, <1>7 DEF Typed
<1>9. m.kind = "test-cable-diagnostics" => Head(q).cgi = "cable_diag_get"
  BY <1>3 DEF Asked, Asks, Plain
<1>10. m.kind = "test-cable-diagnostics" => HandedOn(m) \subseteq Ports /\ ~lossy'[c]
  BY <1>1, <1>2, <1>9 DEF Ahead
<1>11. sure[c] /\ m.kind \in {"bandwidth", "no-bandwidth"} => Reaches(m, Tail(q))
  <2> SUFFICES ASSUME sure[c], m.kind \in {"bandwidth", "no-bandwidth"}, NEW p \in m.ports, p \notin Ports
               PROVE  \E i \in 1..Len(Tail(q)) : Tail(q)[i].port = p
    BY DEF Reaches
  <2>1. PICK i \in 1..Len(q) : q[i].port = p
    BY <1>1 DEF Ahead, Reaches, q
  <2>2. PortsOf(Head(q)) \subseteq Ports
    BY DEF Write, Goes, ValidatesEach, KnownPorts, Ahead, q
  <2>3. "port" \in DOMAIN Head(q)
    <3>1. Head(q).cgi = "qos_bandwidth_set"
      BY <1>3 DEF Asked, Asks, Plain
    <3>2. QED
      BY <1>3, <3>1 DEF Requests
  <2>4. Head(q).port \in Ports
    BY <2>2, <2>3, PortsOfMember
  <2>5. i # 1
    <3>1. Head(q) = q[1]
      BY <1>1, HeadAndTail
    <3>2. QED
      BY <2>1, <2>4, <3>1
  <2>6. i - 1 \in 1..Len(Tail(q)) /\ q[i] = Tail(q)[i - 1]
    BY <1>1, <2>5, HeadAndTail
  <2>7. QED
    BY <2>1, <2>6
<1>12. Ahead(c)'
  BY <1>1, <1>2, <1>3, <1>4, <1>5, <1>10, <1>11 DEF Ahead, Working
<1>13. Others(c)
  BY <1>2 DEF Others, Typed
<1>14. QED
  BY <1>8, <1>12, <1>13

LEMMA NextInv == ConstantsAssumption /\ Inv /\ [Next]_vars => Inv'
<1> SUFFICES ASSUME ConstantsAssumption, Inv, [Next]_vars PROVE Inv'
  OBVIOUS
<1>1. ASSUME NEW c \in CLIs, Typed', Ahead(c)', Others(c) PROVE Inv'
  <2>1. ASSUME NEW d \in CLIs PROVE Ahead(d)'
    BY <1>1, OthersAhead DEF Inv
  <2>2. QED
    BY <1>1, <2>1 DEF Inv
<1>2. CASE UNCHANGED vars
  BY <1>2 DEF Inv, Typed, Ahead, vars
<1>3. ASSUME NEW c \in CLIs, Read(c) \/ Reread(c) PROVE Inv'
  BY <1>1, <1>3, ReadKeeps DEF Inv
<1>4. ASSUME NEW c \in CLIs, Relogin(c) PROVE Inv'
  BY <1>1, <1>4, ReloginKeeps DEF Inv
<1>5. ASSUME NEW c \in CLIs, Write(c) PROVE Inv'
  BY <1>1, <1>5, WriteKeeps DEF Inv
<1>6. ASSUME NEW c \in CLIs, Fail(c) PROVE Inv'
  BY <1>1, <1>6, FailKeeps DEF Inv
<1>7. ASSUME NEW c \in CLIs, NEW m \in menu, Give(c, m) PROVE Inv'
  <2>1. Typed /\ Ahead(c)
    BY DEF Inv
  <2>2. QED
    BY <1>1, <1>7, <2>1, GiveLocal, GiveKeeps
<1>8. QED
  BY <1>2, <1>3, <1>4, <1>5, <1>6, <1>7 DEF Next

\* Whatever the CLIs do to each other's readings, each has ahead only requests its
\* command asks for, as planned by its setter, and validated as far as it has got.
THEOREM Invariant == Spec => []Inv
BY InitInv, NextInv, ConstantsAssumption, PTL DEF Spec

\* The switch's settings and what the Clients cache of them stay what they are meant
\* to be, and a command is writing exactly while it has requests ahead.
THEOREM TypeCorrect == Spec => []TypeOK
<1>1. Inv => TypeOK
  BY DEF Inv, Typed, Ahead, TypeOK, Statuses
<1>2. QED
  BY <1>1, Invariant, PTL
-----------------------------------------------------------------------------
(* A command on ports the switch lacks is refused as a whole.              *)

\* A queue that is not empty is changed by its own CLI alone, which takes a request off
\* it or gives up.
LEMMA QueueStep ==
  ASSUME ConstantsAssumption, Inv, [Next]_vars, NEW c \in CLIs, todo'[c] # todo[c], todo[c] # <<>>
  PROVE  Write(c) \/ Fail(c)
<1>1. Typed /\ \A d \in CLIs : Ahead(d)
  BY DEF Inv
<1>2. at[c] = "write"
  BY <1>1 DEF Ahead
<1>3. todo' # todo
  OBVIOUS
<1>4. PICK d \in CLIs : \/ Read(d) \/ Reread(d) \/ Relogin(d) \/ Write(d) \/ Fail(d)
                       \/ \E m \in menu : Give(d, m)
  BY <1>3 DEF Next, vars
<1>5. Others(d)
  BY <1>1, <1>4, ReadKeeps, ReloginKeeps, WriteKeeps, FailKeeps, GiveLocal
<1>6. d = c
  BY <1>5 DEF Others
<1>7. QED
  BY <1>2, <1>3, <1>4, <1>6 DEF Read, Reread, Relogin, Give

\* A setter validates its ports before its first request: a command on a port the
\* switch lacks changes nothing, whatever the other CLIs do meanwhile.
THEOREM CommandsRefusedWhole == Spec => RefusedWhole
<1>1. ConstantsAssumption /\ Inv /\ [Next]_vars =>
        [\A c \in CLIs :
           todo'[c] # todo[c] /\ todo[c] # <<>> /\ ~(HandedOn(cmd[c]) \subseteq Ports) =>
             \/ ~sure[c] \/ ValidatesEach(cmd[c]) \/ cmd[c].kind = "no-channel-group"
             \/ config' = config]_vars
  <2> SUFFICES ASSUME ConstantsAssumption, Inv, [Next]_vars, NEW c \in CLIs,
                      todo'[c] # todo[c], todo[c] # <<>>, ~(HandedOn(cmd[c]) \subseteq Ports),
                      sure[c], ~ValidatesEach(cmd[c]), cmd[c].kind # "no-channel-group"
               PROVE  config' = config
    OBVIOUS
  <2>1. Ahead(c)
    BY DEF Inv
  <2>2. at[c] # "write"
    BY <2>1 DEF Ahead, ValidatesEach
  <2>3. Write(c) \/ Fail(c)
    BY QueueStep
  <2>4. QED
    BY <2>2, <2>3 DEF Write, Goes, Fail
<1>2. QED
  BY <1>1, Invariant, ConstantsAssumption, PTL DEF Spec, RefusedWhole
-----------------------------------------------------------------------------
(* A command's requests stay with its interfaces and its group.            *)

\* The one request of a plain command.
PlainRequest(m) ==
  CASE m.kind = "shutdown" ->
         [cgi |-> "port_setting", ports |-> m.ports, state |-> 0, speed |-> NoChange,
          flowcontrol |-> NoChange]
    [] m.kind = "no-shutdown" ->
         [cgi |-> "port_setting", ports |-> m.ports, state |-> 1, speed |-> NoChange,
          flowcontrol |-> NoChange]
    [] m.kind = "speed" ->
         [cgi |-> "port_setting", ports |-> m.ports, state |-> NoChange, speed |-> m.speed,
          flowcontrol |-> NoChange]
    [] m.kind = "flowcontrol" ->
         [cgi |-> "port_setting", ports |-> m.ports, state |-> NoChange,
          speed |-> NoChange, flowcontrol |-> m.on]
    [] m.kind = "qos-port-priority" ->
         [cgi |-> "qos_port_priority_set", ports |-> m.ports,
          port_queue |-> m.priority - 1]
    [] m.kind = "storm-control" ->
         [cgi |-> "qos_storm_set", ports |-> m.ports, rate |-> m.rate,
           types |-> IF m.rate # 0 /\ m.types = {} THEN StormTypes ELSE m.types]
    [] m.kind = "no-storm-control" ->
         [cgi |-> "qos_storm_set", ports |-> m.ports, rate |-> 0, types |-> {}]
    [] m.kind = "clear-counters" ->
         [cgi |-> "port_statistics_set", ports |-> First(m.ports)]
    [] m.kind = "port-vlan" ->
         [cgi |-> "pvlan_add", vid |-> m.vid, ports |-> m.ports]
    [] m.kind = "no-port-vlan" ->
         [cgi |-> "pvlan_add", vid |-> m.vid, ports |-> {}]
    [] m.kind = "port-vlan-mode" ->
         [cgi |-> "pvlanSet", on |-> m.on]
    [] m.kind = "no-monitor" ->
         [cgi |-> "mirror_enabled_set", on |-> FALSE]
    [] m.kind = "spanning-tree" ->
         [cgi |-> "loop_prevention_set", on |-> m.on]
    [] m.kind = "led" ->
         [cgi |-> "led_on_set", on |-> m.on]
    [] m.kind = "qos-mode" ->
         [cgi |-> "qos_mode_set", mode |-> m.mode]
    [] m.kind = "hostname" ->
         [cgi |-> "system_name_set", name |-> m.name]
    [] m.kind = "igmp-snooping" ->
         [cgi |-> "igmpSnooping", on |-> m.on, suppression |-> m.suppression]

LEMMA SameElement == \A a, b : <<a>> = <<b>> => a = b
<1> SUFFICES ASSUME NEW a, NEW b, <<a>> = <<b>> PROVE a = b
  OBVIOUS
<1>1. <<a>>[1] = <<b>>[1]
  OBVIOUS
<1>2. QED
  BY <1>1

LEMMA PlainAsks ==
  ASSUME NEW m \in Commands, m.kind \in Plain, NEW q \in Asked(m)
  PROVE  q = PlainRequest(m)
<1>1. <<q>> \in Setter(m)
  BY DEF Asked, Asks, Plain
<1>2. CASE m.kind = "shutdown"
  <2> DEFINE rec == [cgi |-> "port_setting", ports |-> m.ports, state |-> 0,
                     speed |-> NoChange, flowcontrol |-> NoChange]
  <2>1. <<q>> = <<rec>>
    BY <1>1, <1>2 DEF Setter, SetPorts
  <2>2. PlainRequest(m) = rec
    BY <1>2 DEF PlainRequest
  <2> HIDE DEF rec
  <2>3. QED
    BY ONLY <2>1, <2>2, SameElement
<1>3. CASE m.kind = "no-shutdown"
  <2> DEFINE rec == [cgi |-> "port_setting", ports |-> m.ports, state |-> 1,
                     speed |-> NoChange, flowcontrol |-> NoChange]
  <2>1. <<q>> = <<rec>>
    BY <1>1, <1>3 DEF Setter, SetPorts
  <2>2. PlainRequest(m) = rec
    BY <1>3 DEF PlainRequest
  <2> HIDE DEF rec
  <2>3. QED
    BY ONLY <2>1, <2>2, SameElement
<1>4. CASE m.kind = "speed"
  <2> DEFINE rec == [cgi |-> "port_setting", ports |-> m.ports, state |-> NoChange,
                     speed |-> m.speed, flowcontrol |-> NoChange]
  <2>1. <<q>> = <<rec>>
    BY <1>1, <1>4 DEF Setter, SetPorts
  <2>2. PlainRequest(m) = rec
    BY <1>4 DEF PlainRequest
  <2> HIDE DEF rec
  <2>3. QED
    BY ONLY <2>1, <2>2, SameElement
<1>5. CASE m.kind = "flowcontrol"
  <2> DEFINE rec == [cgi |-> "port_setting", ports |-> m.ports, state |-> NoChange,
                     speed |-> NoChange, flowcontrol |-> m.on]
  <2>1. <<q>> = <<rec>>
    BY <1>1, <1>5 DEF Setter, SetPorts
  <2>2. PlainRequest(m) = rec
    BY <1>5 DEF PlainRequest
  <2> HIDE DEF rec
  <2>3. QED
    BY ONLY <2>1, <2>2, SameElement
<1>6. CASE m.kind = "qos-port-priority"
  <2> DEFINE rec == [cgi |-> "qos_port_priority_set", ports |-> m.ports,
                     port_queue |-> m.priority - 1]
  <2>1. <<q>> = <<rec>>
    BY <1>1, <1>6 DEF Setter, SetPortPriority
  <2>2. PlainRequest(m) = rec
    BY <1>6 DEF PlainRequest
  <2> HIDE DEF rec
  <2>3. QED
    BY ONLY <2>1, <2>2, SameElement
<1>7. CASE m.kind = "storm-control"
  <2> DEFINE rec == [cgi |-> "qos_storm_set", ports |-> m.ports, rate |-> m.rate,
                      types |-> IF m.rate # 0 /\ m.types = {} THEN StormTypes ELSE m.types]
  <2>1. <<q>> = <<rec>>
    BY <1>1, <1>7 DEF Setter, SetStormControl
  <2>2. PlainRequest(m) = rec
    BY <1>7 DEF PlainRequest
  <2> HIDE DEF rec
  <2>3. QED
    BY ONLY <2>1, <2>2, SameElement
<1>8. CASE m.kind = "no-storm-control"
  <2> DEFINE rec == [cgi |-> "qos_storm_set", ports |-> m.ports, rate |-> 0, types |-> {}]
  <2>1. <<q>> = <<rec>>
    BY <1>1, <1>8 DEF Setter, SetStormControl
  <2>2. PlainRequest(m) = rec
    BY <1>8 DEF PlainRequest
  <2> HIDE DEF rec
  <2>3. QED
    BY ONLY <2>1, <2>2, SameElement
<1>9. CASE m.kind = "clear-counters"
  <2> DEFINE rec == [cgi |-> "port_statistics_set", ports |-> First(m.ports)]
  <2>1. <<q>> = <<rec>>
    BY <1>1, <1>9 DEF Setter, ClearCounters, ResetPortStatistics
  <2>2. PlainRequest(m) = rec
    BY <1>9 DEF PlainRequest
  <2> HIDE DEF rec
  <2>3. QED
    BY ONLY <2>1, <2>2, SameElement
<1>10. CASE m.kind = "port-vlan"
  <2> DEFINE rec == [cgi |-> "pvlan_add", vid |-> m.vid, ports |-> m.ports]
  <2>1. <<q>> = <<rec>>
    BY <1>1, <1>10 DEF Setter, AddPortVLAN
  <2>2. PlainRequest(m) = rec
    BY <1>10 DEF PlainRequest
  <2> HIDE DEF rec
  <2>3. QED
    BY ONLY <2>1, <2>2, SameElement
<1>11. CASE m.kind = "no-port-vlan"
  <2> DEFINE rec == [cgi |-> "pvlan_add", vid |-> m.vid, ports |-> {}]
  <2>1. <<q>> = <<rec>>
    BY <1>1, <1>11 DEF Setter, DeletePortVLAN
  <2>2. PlainRequest(m) = rec
    BY <1>11 DEF PlainRequest
  <2> HIDE DEF rec
  <2>3. QED
    BY ONLY <2>1, <2>2, SameElement
<1>12. CASE m.kind = "port-vlan-mode"
  <2> DEFINE rec == [cgi |-> "pvlanSet", on |-> m.on]
  <2>1. <<q>> = <<rec>>
    BY <1>1, <1>12 DEF Setter, Switch
  <2>2. PlainRequest(m) = rec
    BY <1>12 DEF PlainRequest
  <2> HIDE DEF rec
  <2>3. QED
    BY ONLY <2>1, <2>2, SameElement
<1>13. CASE m.kind = "no-monitor"
  <2> DEFINE rec == [cgi |-> "mirror_enabled_set", on |-> FALSE]
  <2>1. <<q>> = <<rec>>
    BY <1>1, <1>13 DEF Setter, NoMonitor, Switch
  <2>2. PlainRequest(m) = rec
    BY <1>13 DEF PlainRequest
  <2> HIDE DEF rec
  <2>3. QED
    BY ONLY <2>1, <2>2, SameElement
<1>14. CASE m.kind = "spanning-tree"
  <2> DEFINE rec == [cgi |-> "loop_prevention_set", on |-> m.on]
  <2>1. <<q>> = <<rec>>
    BY <1>1, <1>14 DEF Setter, Switch
  <2>2. PlainRequest(m) = rec
    BY <1>14 DEF PlainRequest
  <2> HIDE DEF rec
  <2>3. QED
    BY ONLY <2>1, <2>2, SameElement
<1>15. CASE m.kind = "led"
  <2> DEFINE rec == [cgi |-> "led_on_set", on |-> m.on]
  <2>1. <<q>> = <<rec>>
    BY <1>1, <1>15 DEF Setter, Switch
  <2>2. PlainRequest(m) = rec
    BY <1>15 DEF PlainRequest
  <2> HIDE DEF rec
  <2>3. QED
    BY ONLY <2>1, <2>2, SameElement
<1>16. CASE m.kind = "qos-mode"
  <2> DEFINE rec == [cgi |-> "qos_mode_set", mode |-> m.mode]
  <2>1. <<q>> = <<rec>>
    BY <1>1, <1>16 DEF Setter
  <2>2. PlainRequest(m) = rec
    BY <1>16 DEF PlainRequest
  <2> HIDE DEF rec
  <2>3. QED
    BY ONLY <2>1, <2>2, SameElement
<1>17. CASE m.kind = "hostname"
  <2> DEFINE rec == [cgi |-> "system_name_set", name |-> m.name]
  <2>1. <<q>> = <<rec>>
    BY <1>1, <1>17 DEF Setter
  <2>2. PlainRequest(m) = rec
    BY <1>17 DEF PlainRequest
  <2> HIDE DEF rec
  <2>3. QED
    BY ONLY <2>1, <2>2, SameElement
<1>18. CASE m.kind = "igmp-snooping"
  <2> DEFINE rec == [cgi |-> "igmpSnooping", on |-> m.on, suppression |-> m.suppression]
  <2>1. <<q>> = <<rec>>
    BY <1>1, <1>18 DEF Setter
  <2>2. PlainRequest(m) = rec
    BY <1>18 DEF PlainRequest
  <2> HIDE DEF rec
  <2>3. QED
    BY ONLY <2>1, <2>2, SameElement
<1>19. QED
  BY <1>2, <1>3, <1>4, <1>5, <1>6, <1>7, <1>8, <1>9, <1>10, <1>11, <1>12, <1>13, <1>14, <1>15, <1>16, <1>17, <1>18 DEF Plain

\* The commands whose requests are about ports.
LEMMA PortRequests ==
  ASSUME NEW m \in Commands, NEW q \in Asked(m)
  PROVE  /\ q.cgi \in {"port_setting", "qos_port_priority_set", "qos_storm_set"} =>
              q.ports = m.ports /\ Selection(m) = m.ports
         /\ q.cgi = "port_statistics_set" =>
              q.ports = First(m.ports) /\ m.kind = "clear-counters"
         /\ q.cgi = "qos_bandwidth_set" => q.port \in m.ports /\ Selection(m) = m.ports
         /\ q.cgi \in {"port_trunk_set", "port_trunk_display"} =>
              m.kind \in {"channel-group", "no-channel-group"} /\ q.group = m.group
<1>1. Asks(m, q)
  BY DEF Asked
<1>2. CASE m.kind \in Plain
  <2>1. q = PlainRequest(m)
    BY <1>2, PlainAsks
  <2>2. CASE m.kind \in {"shutdown", "no-shutdown", "speed", "flowcontrol"}
    BY <2>1, <2>2 DEF PlainRequest, Selection
  <2>3. CASE m.kind = "qos-port-priority"
    BY <2>1, <2>3 DEF PlainRequest, Selection
  <2>4. CASE m.kind \in {"storm-control", "no-storm-control"}
    BY <2>1, <2>4 DEF PlainRequest, Selection
  <2>5. CASE m.kind = "clear-counters"
    BY <2>1, <2>5 DEF PlainRequest, Selection
  <2>6. CASE m.kind \in {"port-vlan", "no-port-vlan"}
    BY <2>1, <2>6 DEF PlainRequest
  <2>7. CASE m.kind \in {"port-vlan-mode", "no-monitor", "spanning-tree", "led"}
    BY <2>1, <2>7 DEF PlainRequest
  <2>8. CASE m.kind \in {"qos-mode", "hostname", "igmp-snooping"}
    BY <2>1, <2>8 DEF PlainRequest
  <2>9. QED
    BY <1>2, <2>2, <2>3, <2>4, <2>5, <2>6, <2>7, <2>8 DEF Plain
<1>3. CASE m.kind \notin Plain
  BY <1>1, <1>3 DEF Asks, Plain, Commands, Selection
<1>4. QED
  BY <1>2, <1>3

\* A set of naturals that is not empty has a least element.
LEMMA FirstOfSome ==
  ASSUME NEW S \in SUBSET Nat, S # {}
  PROVE  First(S) # {}
<1> DEFINE Less == {ss \in Nat \X Nat : ss[1] < ss[2]}
<1>1. OpToRel(<, Nat) = Less
  BY DEF OpToRel
<1>2. IsWellFoundedOn(Less, Nat)
  BY <1>1, NatLessThanWellFounded
<1>3. PICK n \in S : TRUE
  OBVIOUS
<1>4. PICK m \in S : \A k \in S : ~(<<k, m>> \in Less)
  BY <1>2, <1>3, WFMin
<1>5. \A k \in S : ~(k < m)
  BY <1>4
<1>6. QED
  BY <1>5 DEF First

LEMMA Within1 ==
  ASSUME NEW m \in Commands, NEW q \in Asked(m), NEW s \in Configs, NEW p \in Ports, p \notin Selection(m)
  PROVE  OfPort(Perform(q, s), p) = OfPort(s, p)
<1> DEFINE t == Perform(q, s)
<1>1. q \in Requests
  BY DEF Asked
<1>2. t \in Configs /\ \A f \in Fields \ Parts(q.cgi) : t[f] = s[f]
  BY <1>1, PerformOnly DEF OnlyIn
<1>3. CASE q.cgi \in {"port_setting", "qos_port_priority_set", "qos_storm_set"}
  <2>1. p \notin q.ports
    BY <1>3, PortRequests
  <2>2. t.port[p] = s.port[p] /\ t.priority[p] = s.priority[p] /\ t.storm[p] = s.storm[p]
    BY <1>3, <2>1 DEF Perform, Those, Configs
  <2>3. t.ingress = s.ingress /\ t.egress = s.egress /\ t.cleared = s.cleared
    BY <1>2, <1>3 DEF Fields, Parts
  <2>4. QED
    BY <2>2, <2>3 DEF OfPort
<1>4. CASE q.cgi = "port_statistics_set"
  <2>1. q.ports = First(m.ports) /\ m.kind = "clear-counters"
    BY <1>4, PortRequests
  <2>2. m.ports # {} /\ p \notin q.ports
    BY <2>1 DEF Selection
  <2>3. m.ports \in SUBSET Nat
    BY <2>1 DEF Commands, PortLists
  <2>4. q.ports # {}
    BY <2>1, <2>2, <2>3, FirstOfSome
  <2>5. p \in t.cleared <=> p \in s.cleared
    BY <1>4, <2>2, <2>4 DEF Perform, Configs
  <2>6. /\ t.ingress = s.ingress /\ t.egress = s.egress /\ t.port = s.port
        /\ t.priority = s.priority /\ t.storm = s.storm
    BY <1>2, <1>4 DEF Fields, Parts
  <2>7. QED
    BY <2>5, <2>6 DEF OfPort
<1>5. CASE q.cgi = "qos_bandwidth_set"
  <2>1. p # q.port
    BY <1>5, PortRequests
  <2>2. t.ingress[p] = s.ingress[p] /\ t.egress[p] = s.egress[p]
    BY <1>5, <2>1 DEF Perform, Those, Configs
  <2>3. /\ t.port = s.port /\ t.priority = s.priority /\ t.storm = s.storm /\ t.cleared = s.cleared
    BY <1>2, <1>5 DEF Fields, Parts
  <2>4. QED
    BY <2>2, <2>3 DEF OfPort
<1>6. CASE q.cgi \notin {"port_setting", "qos_port_priority_set", "qos_storm_set",
                        "port_statistics_set", "qos_bandwidth_set"}
  <2>1. {"port", "priority", "storm", "ingress", "egress", "cleared"} \cap Parts(q.cgi) = {}
    BY <1>1, <1>6 DEF Parts
  <2>2. /\ t.port = s.port /\ t.priority = s.priority /\ t.storm = s.storm
        /\ t.ingress = s.ingress /\ t.egress = s.egress /\ t.cleared = s.cleared
    BY <1>2, <2>1 DEF Fields
  <2>3. QED
    BY <2>2 DEF OfPort
<1>7. QED
  BY <1>3, <1>4, <1>5, <1>6

LEMMA WithinGroup ==
  ASSUME NEW m \in Commands, NEW q \in Asked(m), NEW s \in Configs, NEW g \in Groups,
         Perform(q, s).group[g] # s.group[g]
  PROVE  m.kind \in {"channel-group", "no-channel-group"} /\ m.group = g
<1>1. q \in Requests
  BY DEF Asked
<1>2. q.cgi \in {"port_trunk_set", "port_trunk_display"}
  <2> SUFFICES ASSUME q.cgi \notin {"port_trunk_set", "port_trunk_display"} PROVE FALSE
    OBVIOUS
  <2>1. "group" \notin Parts(q.cgi)
    BY <1>1 DEF Parts
  <2>2. Perform(q, s).group = s.group
    BY <1>1, <2>1, PerformOnly DEF OnlyIn, Fields
  <2>3. QED
    BY <2>2
<1>3. q.group = g
  BY <1>2 DEF Perform, Configs
<1>4. QED
  BY <1>2, <1>3, PortRequests

\* Requests planned on readings that others have made stale reach no interface and no
\* group the command does not name.
THEOREM RequestsStayWithin == Spec => WithinSelection
<1>1. ConstantsAssumption /\ Inv /\ [Next]_vars =>
        [\A c \in CLIs : todo'[c] # todo[c] /\ todo[c] # <<>> =>
           /\ \A p \in Ports : OfPort(config', p) # OfPort(config, p) => p \in Selection(cmd[c])
           /\ \A g \in Groups :
                config'.group[g] # config.group[g] =>
                  cmd[c].kind \in {"channel-group", "no-channel-group"} /\ cmd[c].group = g]_vars
  <2> SUFFICES ASSUME ConstantsAssumption, Inv, [Next]_vars, NEW c \in CLIs,
                      todo'[c] # todo[c], todo[c] # <<>>
               PROVE  /\ \A p \in Ports : OfPort(config', p) # OfPort(config, p) => p \in Selection(cmd[c])
                      /\ \A g \in Groups :
                           config'.group[g] # config.group[g] =>
                             cmd[c].kind \in {"channel-group", "no-channel-group"} /\ cmd[c].group = g
    OBVIOUS
  <2>1. Typed /\ Ahead(c)
    BY DEF Inv
  <2>2. Write(c) \/ Fail(c)
    BY QueueStep
  <2>3. CASE config' = config
    BY <2>3
  <2>4. CASE config' # config
    <3> DEFINE q == Head(todo[c])
               m == cmd[c]
    <3>1. config' = Perform(q, config) /\ at[c] = "write"
      BY <2>2, <2>4 DEF Write, Goes, Fail
    <3>2. config \in Configs /\ m \in Commands /\ todo[c] \in Seq(Asked(m))
      BY <2>1, <3>1 DEF Typed, Ahead
    <3>3. q \in Asked(m)
      BY <3>2, HeadAndTail
    <3> HIDE DEF q, m
    <3>4. ASSUME NEW p \in Ports, OfPort(config', p) # OfPort(config, p) PROVE p \in Selection(m)
      BY <3>1, <3>2, <3>3, <3>4, Within1
    <3>5. ASSUME NEW g \in Groups, config'.group[g] # config.group[g]
          PROVE  m.kind \in {"channel-group", "no-channel-group"} /\ m.group = g
      BY <3>1, <3>2, <3>3, <3>5, WithinGroup
    <3>6. QED
      BY <3>4, <3>5 DEF m
  <2>5. QED
    BY <2>3, <2>4
<1>2. QED
  BY <1>1, Invariant, ConstantsAssumption, PTL DEF Spec, WithinSelection
-----------------------------------------------------------------------------
(* A command that ends well has done what it says.                         *)

Promise(m, s) == PromisePorts(m, s) /\ PromiseSwitch(m, s)

\* The ports a command hands on are those it has, or the first of them.
LEMMA OnSwitch ==
  ASSUME NEW m \in Commands, HandedOn(m) \subseteq Ports
  PROVE  /\ m.kind \in OnPorts /\ m.kind # "clear-counters" => m.ports \subseteq Ports
         /\ m.kind = "clear-counters" => First(m.ports) \subseteq Ports
         /\ "port" \in DOMAIN m => m.port \in Ports
<1>1. /\ m.kind \in OnPorts => "ports" \in DOMAIN m
      /\ "port" \in DOMAIN m => m.kind # "clear-counters"
  BY CommandFields
<1>2. CASE m.kind = "clear-counters"
  BY <1>1, <1>2 DEF HandedOn
<1>3. CASE m.kind # "clear-counters"
  <2>1. HandedOn(m) = PortsOf(m)
    BY <1>3, Handed
  <2>2. QED
    BY <1>1, <1>3, <2>1, PortsOfMember
<1>4. QED
  BY <1>2, <1>3

LEMMA PortPromise ==
  ASSUME NEW m \in Commands, NEW q \in Asked(m), NEW s \in Configs, HandedOn(m) \subseteq Ports,
         m.kind \in {"shutdown", "no-shutdown", "speed", "flowcontrol", "qos-port-priority",
                     "storm-control", "no-storm-control", "clear-counters"}
  PROVE  Promise(m, Perform(q, s))
<1> SUFFICES ASSUME NEW t, t = Perform(q, s) PROVE Promise(m, t)
  OBVIOUS
<1>1. /\ q = PlainRequest(m)
      /\ IF m.kind = "clear-counters" THEN First(m.ports) \subseteq Ports ELSE m.ports \subseteq Ports
  BY PlainAsks, OnSwitch DEF Plain, OnPorts
<1>2. PromiseSwitch(m, t)
  BY DEF PromiseSwitch
<1> SUFFICES PromisePorts(m, t)
  BY <1>2 DEF Promise
<1>3. CASE m.kind \in {"shutdown", "no-shutdown", "speed", "flowcontrol"}
  <2>1. /\ q.cgi = "port_setting" /\ q.ports = m.ports
        /\ q.state = (IF m.kind = "shutdown" THEN 0 ELSE IF m.kind = "no-shutdown" THEN 1 ELSE NoChange)
        /\ q.speed = (IF m.kind = "speed" THEN m.speed ELSE NoChange)
        /\ q.flowcontrol = (IF m.kind = "flowcontrol" THEN m.on ELSE NoChange)
    BY <1>1, <1>3 DEF PlainRequest
  <2>2. \A p \in m.ports :
          /\ t.port[p].state = Taken(q.state, s.port[p].state)
          /\ t.port[p].speed = Taken(q.speed, s.port[p].speed)
          /\ t.port[p].flowcontrol = Taken(q.flowcontrol, s.port[p].flowcontrol)
    <3>1. m.ports \subseteq Ports
      BY <1>1, <1>3
    <3>2. QED
      BY <2>1, <3>1 DEF Perform, Those, Configs
  <2>3. /\ m.kind = "speed" => m.speed # NoChange
        /\ m.kind = "flowcontrol" => m.on # NoChange
    <3>1. /\ m.kind = "speed" => m.speed \in 1..6
          /\ m.kind = "flowcontrol" => m.on \in 0..1
      BY DEF Commands
    <3>2. \A x \in 1..6 \cup 0..1 : x # NoChange
      BY DEF NoChange
    <3>3. QED
      BY <3>1, <3>2
  <2>4. CASE m.kind = "shutdown"
    <3>1. q.state = 0 /\ 0 # NoChange
      BY <2>1, <2>4 DEF NoChange
    <3>2. \A p \in m.ports : t.port[p].state = 0
      BY <2>2, <3>1 DEF Taken
    <3>3. QED
      BY <2>4, <3>2 DEF PromisePorts
  <2>5. CASE m.kind = "no-shutdown"
    <3>1. q.state = 1 /\ 1 # NoChange
      BY <2>1, <2>5 DEF NoChange
    <3>2. \A p \in m.ports : t.port[p].state = 1
      BY <2>2, <3>1 DEF Taken
    <3>3. QED
      BY <2>5, <3>2 DEF PromisePorts
  <2>6. CASE m.kind = "speed"
    <3>1. \A p \in m.ports : t.port[p].speed = m.speed
      BY <2>1, <2>2, <2>3, <2>6 DEF Taken
    <3>2. QED
      BY <2>6, <3>1 DEF PromisePorts
  <2>7. CASE m.kind = "flowcontrol"
    <3>1. \A p \in m.ports : t.port[p].flowcontrol = m.on
      BY <2>1, <2>2, <2>3, <2>7 DEF Taken
    <3>2. QED
      BY <2>7, <3>1 DEF PromisePorts
  <2>8. QED
    BY <1>3, <2>4, <2>5, <2>6, <2>7, SMTT(40)
<1>4. CASE m.kind = "qos-port-priority"
  <2>1. q.cgi = "qos_port_priority_set" /\ q.ports = m.ports /\ q.port_queue = m.priority - 1
    BY <1>1, <1>4 DEF PlainRequest
  <2>2. \A p \in m.ports : t.priority[p] = q.port_queue + 1
    <3>1. m.ports \subseteq Ports
      BY <1>1, <1>4
    <3>2. QED
      BY <2>1, <3>1 DEF Perform, Those, Configs
  <2>3. q.port_queue + 1 = m.priority
    <3>1. m.priority \in 1..4
      BY <1>4 DEF Commands
    <3>2. \A x \in 1..4 : (x - 1) + 1 = x
      OBVIOUS
    <3>3. QED
      BY <2>1, <3>1, <3>2
  <2>4. QED
    BY <1>4, <2>2, <2>3 DEF PromisePorts
<1>5. CASE m.kind \in {"storm-control", "no-storm-control"}
  <2>1. /\ q.cgi = "qos_storm_set" /\ q.ports = m.ports
        /\ m.kind = "storm-control" => q.rate = m.rate /\ m.types \subseteq q.types
        /\ m.kind = "no-storm-control" => q.rate = 0
    BY <1>1, <1>5 DEF PlainRequest
  <2>2. \A p \in m.ports : t.storm[p] = [rate |-> q.rate, types |-> q.types]
    <3>1. m.ports \subseteq Ports
      BY <1>1, <1>5
    <3>2. QED
      BY <2>1, <3>1 DEF Perform, Those, Configs
  <2>3. \A p \in m.ports : t.storm[p].rate = q.rate /\ t.storm[p].types = q.types
    BY <2>2
  <2>4. CASE m.kind = "storm-control"
    BY <2>1, <2>3, <2>4 DEF PromisePorts
  <2>5. CASE m.kind = "no-storm-control"
    BY <2>1, <2>3, <2>5 DEF PromisePorts
  <2>6. QED
    BY <1>5, <2>4, <2>5, SMTT(40)
<1>6. CASE m.kind = "clear-counters"
  <2>1. q.cgi = "port_statistics_set" /\ q.ports = First(m.ports)
    BY <1>1, <1>6 DEF PlainRequest
  <2>2. t.cleared = s.cleared \cup IF q.ports = {} THEN Ports ELSE q.ports \cap Ports
    BY <2>1 DEF Perform, Configs
  <2>3. s.cleared \subseteq Ports
    BY DEF Configs
  <2>4. m.ports = {} => First(m.ports) = {}
    BY DEF First
  <2>5. QED
    BY <1>1, <1>6, <2>1, <2>2, <2>3, <2>4 DEF PromisePorts
<1>7. QED
  BY <1>3, <1>4, <1>5, <1>6

LEMMA SwitchPromise ==
  ASSUME NEW m \in Commands, NEW q \in Asked(m), NEW s \in Configs, HandedOn(m) \subseteq Ports,
         m.kind \in {"port-vlan", "no-port-vlan", "port-vlan-mode", "no-monitor", "spanning-tree", "led",
                     "qos-mode", "hostname", "igmp-snooping"}
  PROVE  Promise(m, Perform(q, s))
<1> SUFFICES ASSUME NEW t, t = Perform(q, s) PROVE Promise(m, t)
  OBVIOUS
<1>1. q = PlainRequest(m)
  BY PlainAsks DEF Plain
<1>2. PromisePorts(m, t)
  BY DEF PromisePorts
<1>3. CASE m.kind = "port-vlan"
  <2>1. m.ports \subseteq Ports /\ m.vid \in Vids
    BY <1>3, OnSwitch DEF OnPorts, Commands
  <2>2. q.cgi = "pvlan_add" /\ q.vid = m.vid /\ q.ports = m.ports
    BY <1>1, <1>3 DEF PlainRequest
  <2>3. t.pvlan.members[m.vid] = q.ports \cap Ports
    BY <2>1, <2>2 DEF Perform, Configs, PortVlans
  <2>4. QED
    BY <1>2, <1>3, <2>1, <2>2, <2>3 DEF PromiseSwitch, Promise
<1>4. CASE m.kind = "no-port-vlan"
  <2>1. m.vid \in Vids
    BY <1>4 DEF Commands
  <2>2. q.cgi = "pvlan_add" /\ q.vid = m.vid /\ q.ports = {}
    BY <1>1, <1>4 DEF PlainRequest
  <2>3. t.pvlan.members[m.vid] = q.ports \cap Ports
    BY <2>1, <2>2 DEF Perform, Configs, PortVlans
  <2>4. QED
    BY <1>2, <1>4, <2>2, <2>3 DEF PromiseSwitch, Promise
<1>5. CASE m.kind = "port-vlan-mode"
  BY <1>1, <1>2, <1>5 DEF PlainRequest, Perform, Configs, PortVlans, PromiseSwitch, Promise
<1>6. CASE m.kind = "no-monitor"
  BY <1>1, <1>2, <1>6 DEF PlainRequest, Perform, Configs, Mirror, PromiseSwitch, Promise
<1>7. CASE m.kind = "spanning-tree"
  BY <1>1, <1>2, <1>7 DEF PlainRequest, Perform, Configs, Switches, PromiseSwitch, Promise
<1>8. CASE m.kind = "led"
  BY <1>1, <1>2, <1>8 DEF PlainRequest, Perform, Configs, Switches, PromiseSwitch, Promise
<1>9. CASE m.kind = "qos-mode"
  BY <1>1, <1>2, <1>9 DEF PlainRequest, Perform, Configs, Switches, PromiseSwitch, Promise
<1>10. CASE m.kind = "hostname"
  BY <1>1, <1>2, <1>10 DEF PlainRequest, Perform, Configs, Switches, PromiseSwitch, Promise
<1>11. CASE m.kind = "igmp-snooping"
  BY <1>1, <1>2, <1>11 DEF PlainRequest, Perform, Configs, Switches, PromiseSwitch, Promise
<1>12. QED
  BY <1>3, <1>4, <1>5, <1>6, <1>7, <1>8, <1>9, <1>10, <1>11

\* The commands with one request derived from a reading.
LEMMA DerivedPromise ==
  ASSUME NEW m \in Commands, NEW q \in Asked(m), NEW s \in Configs, HandedOn(m) \subseteq Ports,
         m.kind \in {"channel-group", "no-channel-group", "mtu-vlan", "ip-address", "ip-address-dhcp",
                     "ip-default-gateway", "no-ip-address-dhcp"}
  PROVE  Promise(m, Perform(q, s))
<1> SUFFICES ASSUME NEW t, t = Perform(q, s) PROVE Promise(m, t)
  OBVIOUS
<1>1. Asks(m, q) /\ q \in Requests
  BY DEF Asked
<1>2. CASE m.kind \in {"channel-group", "no-channel-group"}
  <2>1. /\ m.ports \subseteq Ports /\ m.group \in Groups
        /\ q.cgi \in {"port_trunk_set", "port_trunk_display"} /\ q.group = m.group
        /\ m.kind = "channel-group" => q.cgi = "port_trunk_set" /\ m.ports \subseteq q.ports
        /\ q.cgi = "port_trunk_set" /\ m.kind = "no-channel-group" => q.ports \cap m.ports = {}
    BY <1>1, <1>2, OnSwitch DEF Asks, Plain, OnPorts, Commands
  <2>2. t.group[m.group] = IF q.cgi = "port_trunk_set" THEN q.ports \cap Ports ELSE {}
    BY <2>1 DEF Perform, Configs
  <2>3. QED
    BY <1>2, <2>1, <2>2 DEF PromisePorts, PromiseSwitch, Promise
<1>3. CASE m.kind = "mtu-vlan"
  <2>1. /\ q.cgi = "mtuVlanSet" /\ q.on = m.on /\ q.port \in Ports
        /\ "port" \in DOMAIN m => q.port = m.port
    BY <1>1, <1>3, OnSwitch DEF Asks, Plain
  <2>2. t.uplink = [on |-> q.on, port |-> q.port]
    BY <2>1 DEF Perform, Configs
  <2>3. QED
    BY <1>3, <2>1, <2>2 DEF PromisePorts, PromiseSwitch, Promise
<1>4. CASE m.kind \in {"ip-address", "ip-address-dhcp", "ip-default-gateway", "no-ip-address-dhcp"}
  <2>1. /\ q.cgi = "ip_setting"
        /\ m.kind = "ip-address" => ~q.dhcp /\ q.ip = m.ip
        /\ m.kind = "ip-address-dhcp" => q.dhcp
        /\ m.kind = "ip-default-gateway" => ~q.dhcp /\ q.gateway = m.gateway
        /\ m.kind = "no-ip-address-dhcp" => ~q.dhcp
    BY <1>1, <1>4 DEF Asks, Plain
  <2>2. t.ip = [dhcp |-> q.dhcp, ip |-> q.ip, gateway |-> q.gateway]
    BY <2>1 DEF Perform, Configs
  <2>3. t.ip.dhcp = q.dhcp /\ t.ip.ip = q.ip /\ t.ip.gateway = q.gateway
    BY <2>2
  <2>4. PromisePorts(m, t)
    BY <1>4 DEF PromisePorts
  <2>5. PromiseSwitch(m, t)
    BY <1>4, <2>1, <2>3 DEF PromiseSwitch
  <2>6. QED
    BY <2>4, <2>5 DEF Promise
<1>5. QED
  BY <1>2, <1>3, <1>4

LEMMA SinglePromise ==
  ASSUME NEW m \in Commands, NEW q \in Asked(m), NEW s \in Configs, HandedOn(m) \subseteq Ports,
         m.kind \notin Several
  PROVE  Promise(m, Perform(q, s))
BY PortPromise, SwitchPromise, DerivedPromise DEF Commands, Several

\* A promise in parts that are kept one by one: a part per port, and 0 for the rest.
Goals(m) ==
  IF m.kind \in {"bandwidth", "no-bandwidth"} THEN m.ports
  ELSE IF m.kind = "monitor-source" THEN m.ports \cup {0} ELSE {0}

Met(m, g, s) ==
  /\ m.kind = "bandwidth" => m.rate = IF m.dir = "ingress" THEN s.ingress[g] ELSE s.egress[g]
  /\ m.kind = "no-bandwidth" => s.ingress[g] = 0 /\ s.egress[g] = 0
  /\ m.kind = "monitor-source" /\ g = 0 => s.mirror.on /\ s.mirror.dest # 0
  /\ m.kind = "monitor-source" /\ g # 0 =>
       ("rx" \in m.dirs => g \in s.mirror.rx) /\ ("tx" \in m.dirs => g \in s.mirror.tx)
  /\ m.kind \notin {"bandwidth", "no-bandwidth", "monitor-source"} => Promise(m, s)

\* Request q of command m is the one that keeps part g.
Serves(m, q, g) ==
  /\ m.kind \in {"bandwidth", "no-bandwidth"} => q.port = g
  /\ m.kind = "monitor-source" /\ g = 0 => q.cgi = "mirror_enabled_set"
  /\ m.kind = "monitor-source" /\ g # 0 => q.cgi = "mirrored_port_set" /\ q.port = g
  /\ m.kind = "monitor-destination" => q.cgi = "mirror_enabled_set"

\* Every part has been kept or has its request ahead.
Coming(m, queue, s) ==
  \A g \in Goals(m) : Met(m, g, s) \/ \E i \in 1..Len(queue) : Serves(m, queue[i], g)

LEMMA SessionEffect ==
  ASSUME NEW s \in Configs, NEW q, NEW t, t = Perform(q, s), q.cgi = "mirror_enabled_set", q.on
  PROVE  /\ t.mirror.rx = s.mirror.rx /\ t.mirror.tx = s.mirror.tx
         /\ q.dest \in Ports => t.mirror.on /\ t.mirror.dest = q.dest
         /\ q.dest \notin Ports => t = s
<1>1. CASE q.dest \in Ports
  BY <1>1 DEF Perform, Configs, Mirror
<1>2. CASE q.dest \notin Ports
  BY <1>2 DEF Perform
<1>3. QED
  BY <1>1, <1>2

LEMMA MirroredEffect ==
  ASSUME NEW s \in Configs, NEW q, NEW t, t = Perform(q, s), q.cgi = "mirrored_port_set"
  PROVE  /\ t.mirror.on = s.mirror.on /\ t.mirror.dest = s.mirror.dest
         /\ \A p : p \in t.mirror.rx <=>
              IF p = q.port THEN q.rx /\ (p \in Ports \/ p \in s.mirror.rx)
              ELSE p \in s.mirror.rx
         /\ \A p : p \in t.mirror.tx <=>
              IF p = q.port THEN q.tx /\ (p \in Ports \/ p \in s.mirror.tx)
              ELSE p \in s.mirror.tx
<1>1. /\ t.mirror.on = s.mirror.on /\ t.mirror.dest = s.mirror.dest
      /\ t.mirror.rx = IF q.rx THEN s.mirror.rx \cup ({q.port} \cap Ports) ELSE s.mirror.rx \ {q.port}
      /\ t.mirror.tx = IF q.tx THEN s.mirror.tx \cup ({q.port} \cap Ports) ELSE s.mirror.tx \ {q.port}
  BY DEF Perform, Configs, Mirror
<1>2. QED
  BY <1>1

LEMMA LimitEffect ==
  ASSUME NEW s \in Configs, NEW q, NEW t, t = Perform(q, s), q.cgi = "qos_bandwidth_set"
  PROVE  \A p \in Ports :
           /\ t.ingress[p] = IF p = q.port THEN q.ingress ELSE s.ingress[p]
           /\ t.egress[p] = IF p = q.port THEN q.egress ELSE s.egress[p]
BY DEF Perform, Those, Configs

\* A request keeps its part of the promise, and undoes no other.
LEMMA PartKept ==
  ASSUME ConstantsAssumption, NEW m \in Commands, NEW q \in Asked(m), NEW s \in Configs,
         HandedOn(m) \subseteq Ports, NEW g \in Goals(m), Met(m, g, s) \/ Serves(m, q, g)
  PROVE  Met(m, g, Perform(q, s))
<1> SUFFICES ASSUME NEW t, t = Perform(q, s) PROVE Met(m, g, t)
  OBVIOUS
<1>1. Asks(m, q) /\ q \in Requests
  BY DEF Asked
<1>2. CASE m.kind = "bandwidth"
  <2>1. g \in Ports /\ g \in m.ports
    BY <1>2, OnSwitch DEF Goals, OnPorts
  <2>2. q.cgi = "qos_bandwidth_set" /\ m.rate = IF m.dir = "ingress" THEN q.ingress ELSE q.egress
    BY <1>1, <1>2 DEF Asks, Plain
  <2>3. /\ t.ingress[g] = IF g = q.port THEN q.ingress ELSE s.ingress[g]
        /\ t.egress[g] = IF g = q.port THEN q.egress ELSE s.egress[g]
    BY <2>1, <2>2, LimitEffect
  <2>4. QED
    BY <1>2, <2>2, <2>3 DEF Met, Serves
<1>3. CASE m.kind = "no-bandwidth"
  <2>1. g \in Ports /\ g \in m.ports
    BY <1>3, OnSwitch DEF Goals, OnPorts
  <2>2. q.cgi = "qos_bandwidth_set" /\ q.ingress = 0 /\ q.egress = 0
    BY <1>1, <1>3 DEF Asks, Plain
  <2>3. /\ t.ingress[g] = IF g = q.port THEN q.ingress ELSE s.ingress[g]
        /\ t.egress[g] = IF g = q.port THEN q.egress ELSE s.egress[g]
    BY <2>1, <2>2, LimitEffect
  <2>4. QED
    BY <1>3, <2>2, <2>3 DEF Met, Serves
<1>4. CASE m.kind = "monitor-source"
  <2>1. \/ q.cgi = "mirror_enabled_set" /\ q.on /\ q.dest \in Ports
        \/ /\ q.cgi = "mirrored_port_set"
           /\ q.port \in m.ports /\ "rx" \in m.dirs => q.rx
           /\ q.port \in m.ports /\ "tx" \in m.dirs => q.tx
    BY <1>1, <1>4 DEF Asks, Plain
  <2>2. 0 \notin Ports /\ m.ports \subseteq Ports
    BY <1>4, OnSwitch, ConstantsAssumption DEF OnPorts
  <2>3. CASE q.cgi = "mirror_enabled_set" /\ q.on /\ q.dest \in Ports
    <3>1. t.mirror.on /\ t.mirror.dest # 0 /\ t.mirror.rx = s.mirror.rx /\ t.mirror.tx = s.mirror.tx
      BY <2>2, <2>3, SessionEffect
    <3>2. QED
      BY <1>4, <2>3, <3>1 DEF Met, Serves
  <2>4. CASE /\ q.cgi = "mirrored_port_set"
             /\ q.port \in m.ports /\ "rx" \in m.dirs => q.rx
             /\ q.port \in m.ports /\ "tx" \in m.dirs => q.tx
    <3>1. /\ t.mirror.on = s.mirror.on /\ t.mirror.dest = s.mirror.dest
          /\ \A p : p \in t.mirror.rx <=>
               IF p = q.port THEN q.rx /\ (p \in Ports \/ p \in s.mirror.rx)
               ELSE p \in s.mirror.rx
          /\ \A p : p \in t.mirror.tx <=>
               IF p = q.port THEN q.tx /\ (p \in Ports \/ p \in s.mirror.tx)
               ELSE p \in s.mirror.tx
      BY ONLY <2>4, s \in Configs, t = Perform(q, s), MirroredEffect
    <3>2. CASE g = 0
      BY <1>4, <2>4, <3>1, <3>2 DEF Met, Serves
    <3>3. CASE g # 0
      <4>1. g \in m.ports /\ g \in Ports
        BY <1>4, <2>2, <3>3 DEF Goals
      <4>2. CASE q.port = g
        <5>1. ("rx" \in m.dirs => g \in t.mirror.rx) /\ ("tx" \in m.dirs => g \in t.mirror.tx)
          BY <2>4, <3>1, <4>1, <4>2
        <5>2. QED
          BY <1>4, <3>3, <5>1 DEF Met
      <4>3. CASE q.port # g
        <5>1. ("rx" \in m.dirs => g \in s.mirror.rx) /\ ("tx" \in m.dirs => g \in s.mirror.tx)
          BY <1>4, <3>3, <4>3 DEF Met, Serves
        <5>2. ("rx" \in m.dirs => g \in t.mirror.rx) /\ ("tx" \in m.dirs => g \in t.mirror.tx)
          BY <3>1, <4>3, <5>1
        <5>3. QED
          BY <1>4, <3>3, <5>2 DEF Met
      <4>4. QED
        BY <4>2, <4>3
    <3>4. QED
      BY <3>2, <3>3
  <2>5. QED
    BY <2>1, <2>3, <2>4
<1>5. CASE m.kind = "monitor-destination"
  <2>1. \/ q.cgi = "mirror_enabled_set" /\ q.on /\ q.dest = m.port
        \/ q.cgi = "mirrored_port_set"
    BY <1>1, <1>5 DEF Asks, Plain
  <2>2. m.port \in Ports
    BY <1>5, OnSwitch, CommandFields
  <2>3. Promise(m, s) => s.mirror.on /\ s.mirror.dest = m.port
    BY <1>5 DEF Promise, PromiseSwitch
  <2>4. t.mirror.on /\ t.mirror.dest = m.port => Promise(m, t)
    BY <1>5 DEF Promise, PromisePorts, PromiseSwitch
  <2>5. t.mirror.on /\ t.mirror.dest = m.port
    <3>1. CASE q.cgi = "mirror_enabled_set" /\ q.on /\ q.dest = m.port
      BY <2>2, <3>1, SessionEffect
    <3>2. CASE q.cgi = "mirrored_port_set"
      <4>1. s.mirror.on /\ s.mirror.dest = m.port
        BY <1>5, <2>3, <3>2 DEF Met, Serves
      <4>2. QED
        BY <3>2, <4>1, MirroredEffect
    <3>3. QED
      BY <2>1, <3>1, <3>2
  <2>6. QED
    BY <1>5, <2>4, <2>5 DEF Met
<1>6. CASE m.kind = "test-cable-diagnostics"
  BY <1>6 DEF Met, Promise, PromisePorts, PromiseSwitch
<1>7. CASE m.kind \notin Several
  <2>1. Promise(m, t)
    BY <1>7, SinglePromise
  <2>2. QED
    BY <1>7, <2>1 DEF Met, Several
<1>8. QED
  BY <1>2, <1>3, <1>4, <1>5, <1>6, <1>7 DEF Several

LEMMA PlanComing ==
  ASSUME ConstantsAssumption, NEW m \in Commands, NEW r \in Configs, NEW s \in Configs,
         m.kind = "mtu-vlan" => PortsOf(m) \subseteq Ports \cup DefaultPorts,
         NEW plan \in Plans(r, s, m), NEW t
  PROVE  Coming(m, plan, t)
<1> SUFFICES ASSUME NEW g \in Goals(m) PROVE \E i \in 1..Len(plan) : Serves(m, plan[i], g)
  BY DEF Coming
<1>1. 1 \in 1..Len(plan)
  BY PlanAsked, HeadAndTail
<1>2. CASE m.kind \in {"bandwidth", "no-bandwidth"}
  <2>1. PICK ingress \in [m.ports -> Rates], egress \in [m.ports -> Rates] :
          m.ports \in Interfaces /\ plan \in SetBandwidth(m.ports, ingress, egress)
    BY <1>2, LimitPlan
  <2>2. \A p \in m.ports : \E i \in 1..Len(plan) : plan[i] = Limit(p, ingress, egress)
    BY ONLY <2>1, BandwidthPlan
  <2>3. g \in m.ports
    BY <1>2 DEF Goals
  <2>4. PICK i \in 1..Len(plan) : plan[i] = Limit(g, ingress, egress)
    BY <2>2, <2>3
  <2>5. plan[i].port = g
    BY <2>4 DEF Limit
  <2>6. QED
    BY <1>2, <2>5 DEF Serves
<1>3. CASE m.kind \in {"monitor-source", "monitor-destination"}
  <2> DEFINE rx == PlannedRx(s, m)
             tx == PlannedTx(s, m)
             dest == PlannedDest(s, m)
  <2>1. rx \in PortLists /\ tx \in PortLists /\ dest \in Nat /\ plan \in SetPortMirror(dest, rx, tx)
    BY <1>3, MonitorPlan
  <2>2. m.kind = "monitor-source" /\ g # 0 => g \in rx \cup tx
    <3>1. m.kind = "monitor-source" => m.dirs \in {{"rx"}, {"tx"}, {"rx", "tx"}}
      BY DEF Commands
    <3>2. QED
      BY <3>1 DEF Goals, PlannedRx, PlannedTx
  <2> HIDE DEF rx, tx, dest
  <2>3. /\ plan[1] = [cgi |-> "mirror_enabled_set", on |-> TRUE, dest |-> dest]
        /\ \A x \in rx \cup tx : \E i \in 1..Len(plan) : plan[i] = Mirrored(x, rx, tx)
    BY ONLY <2>1, MirrorPlan
  <2>4. CASE m.kind = "monitor-source" /\ g # 0
    <3>1. PICK i \in 1..Len(plan) : plan[i] = Mirrored(g, rx, tx)
      BY <2>2, <2>3, <2>4
    <3>2. Serves(m, plan[i], g)
      BY <2>4, <3>1 DEF Serves, Mirrored
    <3>3. QED
      BY <3>2
  <2>5. CASE ~(m.kind = "monitor-source" /\ g # 0)
    <3>1. plan[1].cgi = "mirror_enabled_set"
      BY <2>3
    <3>2. Serves(m, plan[1], g)
      BY <1>3, <2>5, <3>1 DEF Serves
    <3>3. QED
      BY <1>1, <3>2
  <2>6. QED
    BY <2>4, <2>5
<1>4. CASE m.kind \notin {"bandwidth", "no-bandwidth", "monitor-source", "monitor-destination"}
  BY <1>1, <1>4 DEF Serves
<1>5. QED
  BY <1>2, <1>3, <1>4

LEMMA ComingStep ==
  ASSUME ConstantsAssumption, NEW m \in Commands, NEW queue \in Seq(Asked(m)), queue # <<>>,
         NEW s \in Configs, HandedOn(m) \subseteq Ports, Coming(m, queue, s)
  PROVE  Coming(m, Tail(queue), Perform(Head(queue), s))
<1>1. /\ Head(queue) \in Asked(m) /\ Head(queue) = queue[1]
      /\ \A i \in 1..Len(queue) : i = 1 \/ (i - 1 \in 1..Len(Tail(queue)) /\ queue[i] = Tail(queue)[i - 1])
  BY HeadAndTail
<1> SUFFICES ASSUME NEW g \in Goals(m)
             PROVE  \/ Met(m, g, Perform(Head(queue), s))
                    \/ \E i \in 1..Len(Tail(queue)) : Serves(m, Tail(queue)[i], g)
  BY DEF Coming
<1>2. CASE Met(m, g, s)
  BY <1>1, <1>2, PartKept
<1>3. CASE \E i \in 1..Len(queue) : Serves(m, queue[i], g)
  <2>1. PICK i \in 1..Len(queue) : Serves(m, queue[i], g)
    BY <1>3
  <2>2. CASE i = 1
    BY <1>1, <2>1, <2>2, PartKept
  <2>3. CASE i # 1
    BY <1>1, <2>1, <2>3
  <2>4. QED
    BY <2>2, <2>3
<1>4. QED
  BY <1>2, <1>3 DEF Coming

LEMMA ComingDone ==
  ASSUME ConstantsAssumption, NEW m \in Commands, NEW s, Coming(m, <<>>, s), HandedOn(m) \subseteq Ports
  PROVE  Promise(m, s)
<1>1. \A g \in Goals(m) : Met(m, g, s)
  BY DEF Coming
<1>2. CASE m.kind = "bandwidth"
  <2>1. \A p \in m.ports : m.rate = IF m.dir = "ingress" THEN s.ingress[p] ELSE s.egress[p]
    BY <1>1, <1>2 DEF Goals, Met
  <2>2. QED
    BY <1>2, <2>1 DEF Promise, PromisePorts, PromiseSwitch
<1>3. CASE m.kind = "no-bandwidth"
  <2>1. \A p \in m.ports : s.ingress[p] = 0 /\ s.egress[p] = 0
    BY <1>1, <1>3 DEF Goals, Met
  <2>2. QED
    BY <1>3, <2>1 DEF Promise, PromisePorts, PromiseSwitch
<1>4. CASE m.kind = "monitor-source"
  <2>1. s.mirror.on /\ s.mirror.dest # 0
    BY <1>1, <1>4 DEF Goals, Met
  <2>2. \A p \in m.ports : p # 0
    BY <1>4, OnSwitch, ConstantsAssumption DEF OnPorts
  <2>3. /\ "rx" \in m.dirs => m.ports \subseteq s.mirror.rx
        /\ "tx" \in m.dirs => m.ports \subseteq s.mirror.tx
    BY <1>1, <1>4, <2>2 DEF Goals, Met
  <2>4. QED
    BY <1>4, <2>1, <2>3 DEF Promise, PromisePorts, PromiseSwitch
<1>5. CASE m.kind \notin {"bandwidth", "no-bandwidth", "monitor-source"}
  BY <1>1, <1>5 DEF Goals, Met
<1>6. QED
  BY <1>2, <1>3, <1>4, <1>5
-----------------------------------------------------------------------------
(* A command changes nothing it was not told to change.                    *)

\* The parts of the configuration that a command's requests leave alone.
LEMMA Untouched ==
  ASSUME NEW m \in Commands, NEW q \in Asked(m)
  PROVE  /\ m.kind \notin {"monitor-source", "monitor-destination", "no-monitor"} => "mirror" \notin Parts(q.cgi)
         /\ m.kind \notin {"channel-group", "no-channel-group"} => "group" \notin Parts(q.cgi)
         /\ m.kind \notin {"bandwidth", "no-bandwidth"} => {"ingress", "egress"} \cap Parts(q.cgi) = {}
         /\ m.kind # "mtu-vlan" => "uplink" \notin Parts(q.cgi)
         /\ m.kind \notin {"ip-address", "ip-address-dhcp", "ip-default-gateway", "no-ip-address-dhcp"} =>
              "ip" \notin Parts(q.cgi)
         /\ m.kind \notin {"shutdown", "no-shutdown", "speed", "flowcontrol"} => "port" \notin Parts(q.cgi)
         /\ m.kind \notin {"port-vlan", "no-port-vlan", "port-vlan-mode"} => "pvlan" \notin Parts(q.cgi)
         /\ m.kind \notin {"igmp-snooping", "spanning-tree", "led", "qos-mode", "hostname"} =>
              "switch" \notin Parts(q.cgi)
<1>1. CASE m.kind \in {"shutdown", "no-shutdown", "speed", "flowcontrol"}
  <2>1. q.cgi = "port_setting"
    BY <1>1, PlainAsks DEF PlainRequest, Plain
  <2>2. QED
    BY <1>1, <2>1 DEF Parts
<1>2. CASE m.kind \in {"qos-port-priority", "storm-control", "no-storm-control", "clear-counters"}
  <2>1. q.cgi \in {"qos_port_priority_set", "qos_storm_set", "port_statistics_set"}
    BY <1>2, PlainAsks DEF PlainRequest, Plain
  <2>2. QED
    BY <2>1 DEF Parts
<1>3. CASE m.kind \in {"port-vlan", "no-port-vlan", "port-vlan-mode"}
  <2>1. q.cgi \in {"pvlan_add", "pvlanSet"}
    BY <1>3, PlainAsks DEF PlainRequest, Plain
  <2>2. QED
    BY <1>3, <2>1 DEF Parts
<1>4. CASE m.kind \in {"igmp-snooping", "spanning-tree", "led", "qos-mode", "hostname"}
  <2>1. q.cgi \in {"igmpSnooping", "loop_prevention_set", "led_on_set", "qos_mode_set", "system_name_set"}
    BY <1>4, PlainAsks DEF PlainRequest, Plain
  <2>2. QED
    BY <1>4, <2>1 DEF Parts
<1>5. CASE m.kind = "no-monitor"
  <2>1. q.cgi = "mirror_enabled_set"
    BY <1>5, PlainAsks DEF PlainRequest, Plain
  <2>2. QED
    BY <1>5, <2>1 DEF Parts
<1>6. CASE m.kind \notin Plain
  <2>1. Asks(m, q)
    BY DEF Asked
  <2>2. CASE m.kind \in {"monitor-source", "monitor-destination"}
    <3>1. q.cgi \in {"mirror_enabled_set", "mirrored_port_set"}
      BY <2>1, <2>2 DEF Asks, Plain
    <3>2. QED
      BY <2>2, <3>1 DEF Parts
  <2>3. CASE m.kind \in {"bandwidth", "no-bandwidth"}
    <3>1. q.cgi = "qos_bandwidth_set"
      BY <2>1, <2>3 DEF Asks, Plain
    <3>2. QED
      BY <2>3, <3>1 DEF Parts
  <2>4. CASE m.kind \in {"channel-group", "no-channel-group"}
    <3>1. q.cgi \in {"port_trunk_set", "port_trunk_display"}
      BY <2>1, <2>4 DEF Asks, Plain
    <3>2. QED
      BY <2>4, <3>1 DEF Parts
  <2>5. CASE m.kind = "mtu-vlan"
    <3>1. q.cgi = "mtuVlanSet"
      BY <2>1, <2>5 DEF Asks, Plain
    <3>2. QED
      BY <2>5, <3>1 DEF Parts
  <2>6. CASE m.kind \in {"ip-address", "ip-address-dhcp", "ip-default-gateway", "no-ip-address-dhcp"}
    <3>1. q.cgi = "ip_setting"
      BY <2>1, <2>6 DEF Asks, Plain
    <3>2. QED
      BY <2>6, <3>1 DEF Parts
  <2>7. CASE m.kind = "test-cable-diagnostics"
    <3>1. q.cgi = "cable_diag_get"
      BY <2>1, <2>7 DEF Asks, Plain
    <3>2. QED
      BY <3>1 DEF Parts
  <2>8. QED
    BY <1>6, <2>2, <2>3, <2>4, <2>5, <2>6, <2>7 DEF Commands, Plain
<1>7. QED
  BY <1>1, <1>2, <1>3, <1>4, <1>5, <1>6 DEF Plain

\* Request q of command m would keep what s has and m does not speak of.
Spares(m, q, s) ==
  /\ m.kind \in {"monitor-source", "monitor-destination"} /\ q.cgi = "mirrored_port_set" =>
       (q.port \in s.mirror.rx => q.rx) /\ (q.port \in s.mirror.tx => q.tx)
  /\ m.kind = "monitor-source" /\ q.cgi = "mirror_enabled_set" /\ s.mirror.dest # 0 =>
       q.dest = s.mirror.dest
  /\ m.kind = "channel-group" => s.group[m.group] \subseteq q.ports
  /\ m.kind = "no-channel-group" =>
       s.group[m.group] \ (IF q.cgi = "port_trunk_set" THEN q.ports ELSE {}) \subseteq m.ports
  /\ m.kind = "bandwidth" /\ q.port \in Ports =>
       IF m.dir = "ingress" THEN q.egress = s.egress[q.port] ELSE q.ingress = s.ingress[q.port]
  /\ m.kind = "mtu-vlan" /\ "port" \notin DOMAIN m => q.port = s.uplink.port
  /\ m.kind = "ip-address" => q.gateway = s.ip.gateway
  /\ m.kind = "ip-default-gateway" => q.ip = s.ip.ip

\* Two requests of one plan do not contradict each other.
Agree(q1, q2) ==
  /\ q1.cgi = "mirror_enabled_set" /\ q2.cgi = "mirror_enabled_set" => q1.dest = q2.dest
  /\ q1.cgi = "mirrored_port_set" /\ q2.cgi = "mirrored_port_set" /\ q1.port = q2.port =>
       (q1.rx <=> q2.rx) /\ (q1.tx <=> q2.tx)

Harmless(m, queue, s) ==
  /\ m.kind \notin Several => \A i \in 1..Len(queue) : i = 1
  /\ \A i \in 1..Len(queue) : Spares(m, queue[i], s)
  /\ \A i, j \in 1..Len(queue) : Agree(queue[i], queue[j])

LEMMA SparesKept ==
  ASSUME NEW m \in Commands, m.kind \in Several, NEW s \in Configs, NEW q1 \in Asked(m), NEW q2 \in Asked(m),
         Spares(m, q1, s), Spares(m, q2, s), Agree(q1, q2)
  PROVE  Spares(m, q2, Perform(q1, s))
<1> SUFFICES ASSUME NEW t, t = Perform(q1, s) PROVE Spares(m, q2, t)
  OBVIOUS
<1>1. Asks(m, q1)
  BY DEF Asked
<1>2. CASE m.kind \in {"monitor-source", "monitor-destination"}
  <2>1. (q1.cgi = "mirror_enabled_set" /\ q1.on) \/ q1.cgi = "mirrored_port_set"
    BY <1>1, <1>2 DEF Asks, Plain
  <2>2. CASE q1.cgi = "mirror_enabled_set" /\ q1.on
    <3>1. /\ t.mirror.rx = s.mirror.rx /\ t.mirror.tx = s.mirror.tx
          /\ q1.dest \in Ports => t.mirror.dest = q1.dest
          /\ q1.dest \notin Ports => t = s
      BY <2>2, SessionEffect
    <3>2. QED
      BY <1>2, <2>2, <3>1 DEF Spares, Agree
  <2>3. CASE q1.cgi = "mirrored_port_set"
    <3>1. /\ t.mirror.on = s.mirror.on /\ t.mirror.dest = s.mirror.dest
          /\ \A p : p \in t.mirror.rx <=>
               IF p = q1.port THEN q1.rx /\ (p \in Ports \/ p \in s.mirror.rx)
               ELSE p \in s.mirror.rx
          /\ \A p : p \in t.mirror.tx <=>
               IF p = q1.port THEN q1.tx /\ (p \in Ports \/ p \in s.mirror.tx)
               ELSE p \in s.mirror.tx
      BY ONLY <2>3, s \in Configs, t = Perform(q1, s), MirroredEffect
    <3>2. ASSUME q2.cgi = "mirrored_port_set"
          PROVE  (q2.port \in t.mirror.rx => q2.rx) /\ (q2.port \in t.mirror.tx => q2.tx)
      <4>1. (q2.port \in s.mirror.rx => q2.rx) /\ (q2.port \in s.mirror.tx => q2.tx)
        BY <1>2, <3>2 DEF Spares
      <4>2. q1.port = q2.port => (q1.rx <=> q2.rx) /\ (q1.tx <=> q2.tx)
        BY <2>3, <3>2 DEF Agree
      <4>3. QED
        BY <3>1, <4>1, <4>2
    <3>3. QED
      BY <1>2, <3>1, <3>2 DEF Spares
  <2>4. QED
    BY <2>1, <2>2, <2>3
<1>3. CASE m.kind = "bandwidth"
  <2>1. q1.cgi = "qos_bandwidth_set"
    BY <1>1, <1>3 DEF Asks, Plain
  <2>2. \A p \in Ports :
           /\ t.ingress[p] = IF p = q1.port THEN q1.ingress ELSE s.ingress[p]
           /\ t.egress[p] = IF p = q1.port THEN q1.egress ELSE s.egress[p]
    BY <2>1, LimitEffect
  <2>3. QED
    BY <1>3, <2>2 DEF Spares
<1>4. CASE m.kind \in {"no-bandwidth", "test-cable-diagnostics"}
  BY <1>4 DEF Spares
<1>5. QED
  BY <1>2, <1>3, <1>4 DEF Several

LEMMA HarmlessStep ==
  ASSUME NEW m \in Commands, NEW queue \in Seq(Asked(m)), queue # <<>>, NEW s \in Configs,
         Harmless(m, queue, s)
  PROVE  Spares(m, Head(queue), s) /\ Harmless(m, Tail(queue), Perform(Head(queue), s))
                                  /\ Harmless(m, Tail(queue), s)
<1> DEFINE tail == Tail(queue)
<1>1. /\ Head(queue) \in Asked(m) /\ Head(queue) = queue[1] /\ 1 \in 1..Len(queue)
      /\ tail \in Seq(Asked(m))
      /\ \A i \in 1..Len(tail) : i + 1 \in 1..Len(queue) /\ tail[i] = queue[i + 1]
  BY HeadAndTail
<1>2. \A i \in 1..Len(tail) : tail[i] \in Asked(m)
  BY <1>1
<1> HIDE DEF tail
<1>3. m.kind \notin Several => \A i \in 1..Len(tail) : FALSE
  <2> SUFFICES ASSUME m.kind \notin Several, NEW i \in 1..Len(tail) PROVE FALSE
    OBVIOUS
  <2>1. i + 1 = 1
    BY <1>1 DEF Harmless
  <2>2. Len(tail) \in Nat
    BY <1>1
  <2>3. QED
    BY <2>1, <2>2
<1>4. \A i \in 1..Len(tail) : Spares(m, tail[i], s)
  BY <1>1 DEF Harmless
<1>5. \A i, j \in 1..Len(tail) : Agree(tail[i], tail[j])
  BY <1>1 DEF Harmless
<1>6. \A i \in 1..Len(tail) : Agree(Head(queue), tail[i])
  BY <1>1 DEF Harmless
<1>7. Spares(m, Head(queue), s)
  BY <1>1 DEF Harmless
<1>8. ASSUME NEW i \in 1..Len(tail) PROVE Spares(m, tail[i], Perform(Head(queue), s))
  <2>1. m.kind \in Several
    BY <1>3
  <2>2. QED
    BY <1>1, <1>2, <1>4, <1>6, <1>7, <2>1, SparesKept
<1>9. m.kind \notin Several => \A i \in 1..Len(tail) : i = 1
  BY <1>3
<1>10. QED
  BY <1>4, <1>5, <1>7, <1>8, <1>9 DEF Harmless, tail

LEMMA MonitorHarmless ==
  ASSUME ConstantsAssumption, NEW m \in Commands, m.kind \in {"monitor-source", "monitor-destination"},
         NEW r \in Configs, NEW s \in Configs, NEW plan \in Plans(r, s, m)
  PROVE  Harmless(m, plan, s)
<1> DEFINE rx == PlannedRx(s, m)
           tx == PlannedTx(s, m)
           dest == PlannedDest(s, m)
<1>1. rx \in PortLists /\ tx \in PortLists /\ dest \in Nat /\ plan \in SetPortMirror(dest, rx, tx)
  BY MonitorPlan
<1>2. /\ s.mirror.rx \subseteq rx /\ s.mirror.tx \subseteq tx
      /\ m.kind = "monitor-source" /\ s.mirror.dest # 0 => dest = s.mirror.dest
  BY DEF PlannedRx, PlannedTx, PlannedDest
<1> HIDE DEF rx, tx, dest
<1>3. /\ plan \in Seq(Requests) /\ plan # <<>>
      /\ plan[1] = [cgi |-> "mirror_enabled_set", on |-> TRUE, dest |-> dest]
      /\ \A i \in 1..Len(plan) : i = 1 \/ \E p \in rx \cup tx : plan[i] = Mirrored(p, rx, tx)
  BY ONLY <1>1, MirrorPlan
<1>4. plan[1].cgi = "mirror_enabled_set" /\ plan[1].dest = dest
  BY <1>3
<1>5. ASSUME NEW i \in 1..Len(plan), i # 1
      PROVE  /\ plan[i].cgi = "mirrored_port_set"
             /\ plan[i].rx <=> plan[i].port \in rx
             /\ plan[i].tx <=> plan[i].port \in tx
  <2>1. PICK p \in rx \cup tx : plan[i] = Mirrored(p, rx, tx)
    BY <1>3, <1>5
  <2> DEFINE one == plan[i]
  <2>2. one = [cgi |-> "mirrored_port_set", port |-> p, rx |-> p \in rx, tx |-> p \in tx]
    BY <2>1 DEF Mirrored
  <2> HIDE DEF one
  <2>3. one.cgi = "mirrored_port_set" /\ one.port = p /\ one.rx = (p \in rx) /\ one.tx = (p \in tx)
    BY <2>2
  <2>4. QED
    BY <2>3 DEF one
<1>6. ASSUME NEW i \in 1..Len(plan) PROVE Spares(m, plan[i], s)
  <2>1. CASE i = 1
    BY <1>2, <1>4, <2>1 DEF Spares
  <2>2. CASE i # 1
    <3>1. /\ plan[i].cgi = "mirrored_port_set"
          /\ plan[i].rx <=> plan[i].port \in rx
          /\ plan[i].tx <=> plan[i].port \in tx
      BY <1>5, <2>2
    <3>2. QED
      BY <1>2, <3>1 DEF Spares
  <2>3. QED
    BY <2>1, <2>2
<1>7. ASSUME NEW i \in 1..Len(plan), NEW j \in 1..Len(plan) PROVE Agree(plan[i], plan[j])
  <2>1. CASE i = 1 /\ j = 1
    BY <2>1 DEF Agree
  <2>2. CASE i = 1 /\ j # 1
    BY <1>4, <1>5, <2>2 DEF Agree
  <2>3. CASE i # 1 /\ j = 1
    BY <1>4, <1>5, <2>3 DEF Agree
  <2>4. CASE i # 1 /\ j # 1
    <3>1. /\ plan[i].cgi = "mirrored_port_set" /\ plan[j].cgi = "mirrored_port_set"
          /\ plan[i].rx <=> plan[i].port \in rx
          /\ plan[i].tx <=> plan[i].port \in tx
          /\ plan[j].rx <=> plan[j].port \in rx
          /\ plan[j].tx <=> plan[j].port \in tx
      BY <1>5, <2>4
    <3>2. QED
      BY <3>1 DEF Agree
  <2>5. QED
    BY <2>1, <2>2, <2>3, <2>4
<1>8. m.kind \in Several
  BY DEF Several
<1>9. QED
  BY <1>6, <1>7, <1>8 DEF Harmless

LEMMA OneHarmless ==
  ASSUME ConstantsAssumption, NEW m \in Commands, m.kind \notin Several, NEW r \in Configs, NEW s \in Configs,
         m.kind = "mtu-vlan" => PortsOf(m) \subseteq Ports \cup DefaultPorts,
         NEW plan \in Plans(r, s, m), NEW t, Spares(m, plan[1], t)
  PROVE  Harmless(m, plan, t)
<1>1. Len(plan) = 1
  BY PlanAsked
<1>2. \A i \in 1..Len(plan) : i = 1
  BY <1>1
<1>3. Agree(plan[1], plan[1])
  BY DEF Agree
<1>4. QED
  BY <1>2, <1>3 DEF Harmless

\* What a command derives from the configuration as it is, is harmless to it.
LEMMA PlanHarmless ==
  ASSUME ConstantsAssumption, NEW m \in Commands, NEW r \in Configs, NEW s \in Configs, NEW t \in Configs,
         ReadsOnce(m) => s = t, ReadsTwice(m) => r = t /\ s = t,
         m.kind = "mtu-vlan" => PortsOf(m) \subseteq Ports \cup DefaultPorts,
         NEW plan \in Plans(r, s, m)
  PROVE  Harmless(m, plan, t)
<1>1. CASE m.kind \in {"monitor-source", "monitor-destination"}
  BY <1>1, MonitorHarmless DEF ReadsOnce
<1>2. CASE m.kind \in {"bandwidth", "no-bandwidth", "test-cable-diagnostics"}
  <2>1. plan \in Seq(Asked(m)) /\ \A i \in 1..Len(plan) : plan[i] \in Asked(m)
    BY PlanAsked
  <2>2. ASSUME NEW i \in 1..Len(plan) PROVE plan[i].cgi \in {"qos_bandwidth_set", "cable_diag_get"}
    <3>1. Asks(m, plan[i])
      BY <2>1 DEF Asked
    <3>2. QED
      BY <1>2, <3>1 DEF Asks, Plain
  <2>3. \A i, j \in 1..Len(plan) : Agree(plan[i], plan[j])
    BY <2>2 DEF Agree
  <2>4. CASE m.kind = "bandwidth"
    <3>1. PICK ingress \in [m.ports -> Rates], egress \in [m.ports -> Rates] :
            /\ m.ports \in Interfaces /\ plan \in SetBandwidth(m.ports, ingress, egress)
            /\ \A p \in m.ports :
                 IF m.dir = "ingress" THEN ingress[p] = m.rate /\ egress[p] = Entry(s.egress, p)
                 ELSE egress[p] = m.rate /\ ingress[p] = Entry(s.ingress, p)
      BY <2>4, LimitPlan
    <3>2. \A i \in 1..Len(plan) : \E p \in m.ports : plan[i] = Limit(p, ingress, egress)
      <4>1. /\ m.ports \in Interfaces /\ ingress \in [m.ports -> Rates] /\ egress \in [m.ports -> Rates]
            /\ plan \in SetBandwidth(m.ports, ingress, egress)
        BY <3>1
      <4>2. QED
        BY ONLY <4>1, BandwidthPlan
    <3>3. ASSUME NEW i \in 1..Len(plan) PROVE Spares(m, plan[i], t)
      <4>1. PICK p \in m.ports : plan[i] = Limit(p, ingress, egress)
        BY <3>2
      <4>2. plan[i].port = p /\ plan[i].ingress = ingress[p] /\ plan[i].egress = egress[p]
        BY <4>1 DEF Limit
      <4>3. s = t
        BY <2>4 DEF ReadsOnce
      <4>4. QED
        BY <2>4, <3>1, <4>2, <4>3 DEF Spares, Entry
    <3>4. QED
      BY <2>3, <2>4, <3>3 DEF Harmless, Several
  <2>5. CASE m.kind # "bandwidth"
    <3>1. \A i \in 1..Len(plan) : Spares(m, plan[i], t)
      BY <1>2, <2>5 DEF Spares
    <3>2. QED
      BY <1>2, <2>3, <3>1 DEF Harmless, Several
  <2>6. QED
    BY <2>4, <2>5
<1>3. CASE m.kind \notin Several
  <2> SUFFICES Spares(m, plan[1], t)
    BY <1>3, OneHarmless
  <2>1. CASE m.kind = "channel-group"
    <3> DEFINE q == [cgi |-> "port_trunk_set", group |-> m.group, ports |-> s.group[m.group] \cup m.ports]
    <3>1. m.ports # {}
      BY <2>1 DEF Commands, Interfaces
    <3>2. plan = <<q>>
      BY <2>1, <3>1 DEF Plans, ReadsTwice, ChannelGroup, SetPortTrunk
    <3>3. q.ports = s.group[m.group] \cup m.ports
      OBVIOUS
    <3> HIDE DEF q
    <3>4. plan[1] = q /\ s = t
      BY <2>1, <3>2, OneElement DEF ReadsOnce
    <3>5. QED
      BY <2>1, <3>3, <3>4 DEF Spares
  <2>2. CASE m.kind = "no-channel-group"
    <3>1. plan \in SetPortTrunk(m.group, s.group[m.group] \ m.ports) /\ s = t
      BY <2>2 DEF Plans, ReadsTwice, NoChannelGroup, ReadsOnce
    <3>2. CASE s.group[m.group] \ m.ports # {}
      <4> DEFINE q == [cgi |-> "port_trunk_set", group |-> m.group, ports |-> s.group[m.group] \ m.ports]
      <4>1. plan = <<q>>
        BY <3>1, <3>2 DEF SetPortTrunk
      <4>2. q.cgi = "port_trunk_set" /\ q.ports = s.group[m.group] \ m.ports
        OBVIOUS
      <4> HIDE DEF q
      <4>3. plan[1] = q
        BY <4>1, OneElement
      <4>4. QED
        BY <2>2, <3>1, <4>2, <4>3 DEF Spares
    <3>3. CASE s.group[m.group] \ m.ports = {}
      <4> DEFINE q == [cgi |-> "port_trunk_display", group |-> m.group]
      <4>1. plan = <<q>>
        BY <3>1, <3>3 DEF SetPortTrunk
      <4>2. q.cgi = "port_trunk_display"
        OBVIOUS
      <4> HIDE DEF q
      <4>3. plan[1] = q
        BY <4>1, OneElement
      <4>4. QED
        BY <2>2, <3>1, <3>3, <4>2, <4>3 DEF Spares
    <3>4. QED
      BY <3>2, <3>3
  <2>3. CASE m.kind = "mtu-vlan"
    <3> DEFINE q == [cgi |-> "mtuVlanSet", on |-> m.on,
                     port |-> IF "port" \in DOMAIN m THEN m.port ELSE s.uplink.port]
    <3>1. plan = <<q>>
      BY <2>3 DEF Plans, ReadsTwice, SetMTUVlan
    <3>2. q.port = IF "port" \in DOMAIN m THEN m.port ELSE s.uplink.port
      OBVIOUS
    <3> HIDE DEF q
    <3>3. plan[1] = q /\ s = t
      BY <2>3, <3>1, OneElement DEF ReadsOnce
    <3>4. QED
      BY <2>3, <3>2, <3>3 DEF Spares
  <2>4. CASE m.kind \in {"ip-address", "ip-default-gateway"}
    <3>1. plan \in IPCommand(r, s, m) /\ s = t /\ (m.kind = "ip-default-gateway" => r = t)
      BY <2>4 DEF Plans, ReadsTwice, ReadsOnce
    <3>2. 0 \notin Addresses /\ t.ip.ip \in Addresses
      BY ConstantsAssumption DEF Configs, IP
    <3>3. CASE m.kind = "ip-address"
      <4>1. \E dhcp, ip : plan = <<[cgi |-> "ip_setting", dhcp |-> dhcp, ip |-> ip, gateway |-> s.ip.gateway]>>
        BY <3>1, <3>3 DEF IPCommand, SetIPSettings
      <4>2. PICK dhcp, ip : plan = <<[cgi |-> "ip_setting", dhcp |-> dhcp, ip |-> ip, gateway |-> s.ip.gateway]>>
        BY <4>1
      <4> DEFINE q == [cgi |-> "ip_setting", dhcp |-> dhcp, ip |-> ip, gateway |-> s.ip.gateway]
      <4>3. plan = <<q>> /\ q.gateway = s.ip.gateway
        BY <4>2
      <4> HIDE DEF q
      <4>4. plan[1] = q
        BY <4>3, OneElement
      <4>5. QED
        BY <3>1, <3>3, <4>3, <4>4 DEF Spares
    <3>4. CASE m.kind = "ip-default-gateway"
      <4> DEFINE q == [cgi |-> "ip_setting", dhcp |-> FALSE, ip |-> IF r.ip.ip = 0 THEN s.ip.ip ELSE r.ip.ip,
                       gateway |-> IF m.gateway = 0 THEN s.ip.gateway ELSE m.gateway]
      <4>1. plan = <<q>>
        BY <3>1, <3>4 DEF IPCommand, SetIPSettings
      <4>2. q.ip = IF r.ip.ip = 0 THEN s.ip.ip ELSE r.ip.ip
        OBVIOUS
      <4> HIDE DEF q
      <4>3. plan[1] = q
        BY <4>1, OneElement
      <4>4. QED
        BY <3>1, <3>2, <3>4, <4>2, <4>3 DEF Spares
    <3>5. QED
      BY <2>4, <3>3, <3>4
  <2>5. CASE m.kind \notin {"channel-group", "no-channel-group", "mtu-vlan", "ip-address", "ip-default-gateway"}
    BY <1>3, <2>5 DEF Spares, Several
  <2>6. QED
    BY <2>1, <2>2, <2>3, <2>4, <2>5
<1>4. QED
  BY <1>1, <1>2, <1>3 DEF Several

LEMMA KeptSame == ASSUME NEW m, NEW s PROVE Kept(m, s, s)
BY DEF Kept

\* Settings of the switch as a whole.
LEMMA SwitchKept ==
  ASSUME NEW m \in Commands, NEW q \in Asked(m), NEW s \in Configs, NEW x \in DOMAIN s.switch,
         Perform(q, s).switch[x] # s.switch[x]
  PROVE  m.kind = Owner(x)
<1> SUFFICES ASSUME NEW t, t = Perform(q, s), t.switch[x] # s.switch[x] PROVE m.kind = Owner(x)
  OBVIOUS
<1>1. x \in {"igmp", "suppression", "loop", "led", "qos", "name"} /\ q \in Requests
  BY DEF Configs, Switches, Asked
<1>2. m.kind \in {"igmp-snooping", "spanning-tree", "led", "qos-mode", "hostname"}
  <2> SUFFICES ASSUME m.kind \notin {"igmp-snooping", "spanning-tree", "led", "qos-mode", "hostname"}
               PROVE  FALSE
    OBVIOUS
  <2>1. "switch" \notin Parts(q.cgi)
    BY Untouched
  <2>2. t.switch = s.switch
    BY <1>1, <2>1, PerformOnly DEF OnlyIn, Fields
  <2>3. QED
    BY <2>2
<1>3. q = PlainRequest(m)
  BY <1>2, PlainAsks DEF Plain
<1>4. CASE m.kind = "igmp-snooping"
  <2>1. q.cgi = "igmpSnooping"
    BY <1>3, <1>4 DEF PlainRequest
  <2>2. x \in {"igmp", "suppression"}
    BY <1>1, <2>1 DEF Perform, Configs, Switches
  <2>3. QED
    BY <1>4, <2>2 DEF Owner
<1>5. CASE m.kind = "spanning-tree"
  <2>1. q.cgi = "loop_prevention_set"
    BY <1>3, <1>5 DEF PlainRequest
  <2>2. x = "loop"
    BY <1>1, <2>1 DEF Perform, Configs, Switches
  <2>3. QED
    BY <1>5, <2>2 DEF Owner
<1>6. CASE m.kind = "led"
  <2>1. q.cgi = "led_on_set"
    BY <1>3, <1>6 DEF PlainRequest
  <2>2. x = "led"
    BY <1>1, <2>1 DEF Perform, Configs, Switches
  <2>3. QED
    BY <1>6, <2>2 DEF Owner
<1>7. CASE m.kind = "qos-mode"
  <2>1. q.cgi = "qos_mode_set"
    BY <1>3, <1>7 DEF PlainRequest
  <2>2. x = "qos"
    BY <1>1, <2>1 DEF Perform, Configs, Switches
  <2>3. QED
    BY <1>7, <2>2 DEF Owner
<1>8. CASE m.kind = "hostname"
  <2>1. q.cgi = "system_name_set"
    BY <1>3, <1>8 DEF PlainRequest
  <2>2. x = "name"
    BY <1>1, <2>1 DEF Perform, Configs, Switches
  <2>3. QED
    BY <1>8, <2>2 DEF Owner
<1>9. QED
  BY <1>2, <1>4, <1>5, <1>6, <1>7, <1>8

\* Port settings and port VLANs.
LEMMA PortKept ==
  ASSUME NEW m \in Commands, NEW q \in Asked(m), NEW s \in Configs, NEW t, t = Perform(q, s), NEW p \in Ports
  PROVE  /\ m.kind \notin {"shutdown", "no-shutdown"} => t.port[p].state = s.port[p].state
         /\ m.kind # "speed" => t.port[p].speed = s.port[p].speed
         /\ m.kind # "flowcontrol" => t.port[p].flowcontrol = s.port[p].flowcontrol
<1>1. CASE m.kind \in {"shutdown", "no-shutdown", "speed", "flowcontrol"}
  <2>1. q = PlainRequest(m)
    BY <1>1, PlainAsks, SMTT(40) DEF Plain
  <2>2. /\ q.cgi = "port_setting"
        /\ m.kind \notin {"shutdown", "no-shutdown"} => q.state = NoChange
        /\ m.kind # "speed" => q.speed = NoChange
        /\ m.kind # "flowcontrol" => q.flowcontrol = NoChange
    BY <1>1, <2>1 DEF PlainRequest
  <2>3. \/ t.port[p] = s.port[p]
        \/ t.port[p] = [state |-> Taken(q.state, s.port[p].state), speed |-> Taken(q.speed, s.port[p].speed),
                        flowcontrol |-> Taken(q.flowcontrol, s.port[p].flowcontrol)]
    BY <2>2 DEF Perform, Those, Configs
  <2>4. \A old : Taken(NoChange, old) = old
    BY DEF Taken
  <2>5. QED
    BY <2>2, <2>3, <2>4
<1>2. CASE m.kind \notin {"shutdown", "no-shutdown", "speed", "flowcontrol"}
  <2>1. "port" \notin Parts(q.cgi) /\ q \in Requests
    BY <1>2, Untouched DEF Asked
  <2>2. t.port = s.port
    BY <2>1, PerformOnly DEF OnlyIn, Fields
  <2>3. QED
    BY <2>2
<1>3. QED
  BY <1>1, <1>2

LEMMA VlanKept ==
  ASSUME NEW m \in Commands, NEW q \in Asked(m), NEW s \in Configs, NEW t, t = Perform(q, s)
  PROVE  /\ m.kind # "port-vlan-mode" => t.pvlan.on = s.pvlan.on
         /\ \A v \in Vids : t.pvlan.members[v] # s.pvlan.members[v] =>
              m.kind \in {"port-vlan", "no-port-vlan"} /\ m.vid = v
<1>1. CASE m.kind \in {"port-vlan", "no-port-vlan"}
  <2>1. q = PlainRequest(m)
    BY <1>1, PlainAsks DEF Plain
  <2>2. q.cgi = "pvlan_add" /\ q.vid = m.vid
    BY <1>1, <2>1 DEF PlainRequest
  <2>3. t.pvlan.on = s.pvlan.on /\ \A v \in Vids : v # q.vid => t.pvlan.members[v] = s.pvlan.members[v]
    BY <2>2 DEF Perform, Configs, PortVlans
  <2>4. QED
    BY <1>1, <2>2, <2>3
<1>2. CASE m.kind = "port-vlan-mode"
  <2>1. q = PlainRequest(m)
    BY <1>2, PlainAsks DEF Plain
  <2>2. q.cgi = "pvlanSet"
    BY <1>2, <2>1 DEF PlainRequest
  <2>3. t.pvlan.members = s.pvlan.members
    BY <2>2 DEF Perform, Configs, PortVlans
  <2>4. QED
    BY <1>2, <2>3
<1>3. CASE m.kind \notin {"port-vlan", "no-port-vlan", "port-vlan-mode"}
  <2>1. "pvlan" \notin Parts(q.cgi) /\ q \in Requests
    BY <1>3, Untouched DEF Asked
  <2>2. t.pvlan = s.pvlan
    BY <2>1, PerformOnly DEF OnlyIn, Fields
  <2>3. QED
    BY <2>2
<1>4. QED
  BY <1>1, <1>2, <1>3

LEMMA MirrorKept ==
  ASSUME NEW m \in Commands, NEW q \in Asked(m), NEW s \in Configs, NEW t, t = Perform(q, s), Spares(m, q, s)
  PROVE  /\ m.kind \notin {"monitor-source", "monitor-destination", "no-monitor"} => t.mirror = s.mirror
         /\ m.kind \in {"monitor-source", "monitor-destination"} =>
              s.mirror.rx \subseteq t.mirror.rx /\ s.mirror.tx \subseteq t.mirror.tx
         /\ m.kind = "monitor-source" /\ s.mirror.dest # 0 => t.mirror.dest = s.mirror.dest
<1>1. CASE m.kind \in {"monitor-source", "monitor-destination"}
  <2>1. Asks(m, q)
    BY DEF Asked
  <2>2. (q.cgi = "mirror_enabled_set" /\ q.on) \/ q.cgi = "mirrored_port_set"
    BY <1>1, <2>1 DEF Asks, Plain
  <2>3. CASE q.cgi = "mirror_enabled_set" /\ q.on
    <3>1. /\ t.mirror.rx = s.mirror.rx /\ t.mirror.tx = s.mirror.tx
          /\ q.dest \in Ports => t.mirror.on /\ t.mirror.dest = q.dest
          /\ q.dest \notin Ports => t = s
      BY ONLY <2>3, s \in Configs, t = Perform(q, s), SessionEffect
    <3>2. QED
      BY <1>1, <2>3, <3>1 DEF Spares
  <2>4. CASE q.cgi = "mirrored_port_set"
    <3>1. /\ t.mirror.on = s.mirror.on /\ t.mirror.dest = s.mirror.dest
          /\ \A p : p \in t.mirror.rx <=>
               IF p = q.port THEN q.rx /\ (p \in Ports \/ p \in s.mirror.rx)
               ELSE p \in s.mirror.rx
          /\ \A p : p \in t.mirror.tx <=>
               IF p = q.port THEN q.tx /\ (p \in Ports \/ p \in s.mirror.tx)
               ELSE p \in s.mirror.tx
      BY ONLY <2>4, s \in Configs, t = Perform(q, s), MirroredEffect
    <3>2. (q.port \in s.mirror.rx => q.rx) /\ (q.port \in s.mirror.tx => q.tx)
      BY <1>1, <2>4 DEF Spares
    <3>3. s.mirror.rx \subseteq t.mirror.rx /\ s.mirror.tx \subseteq t.mirror.tx
      BY <3>1, <3>2
    <3>4. QED
      BY <1>1, <3>1, <3>3
  <2>5. QED
    BY <2>2, <2>3, <2>4
<1>2. CASE m.kind \notin {"monitor-source", "monitor-destination", "no-monitor"}
  <2>1. "mirror" \notin Parts(q.cgi) /\ q \in Requests
    BY <1>2, Untouched DEF Asked
  <2>2. t.mirror = s.mirror
    BY <2>1, PerformOnly DEF OnlyIn, Fields
  <2>3. QED
    BY <1>2, <2>2
<1>3. CASE m.kind = "no-monitor"
  BY <1>3
<1>4. QED
  BY <1>1, <1>2, <1>3

LEMMA GroupKept ==
  ASSUME NEW m \in Commands, NEW q \in Asked(m), NEW s \in Configs, NEW t, t = Perform(q, s), Spares(m, q, s)
  PROVE  /\ m.kind = "channel-group" => \A g \in Groups : s.group[g] \subseteq t.group[g]
         /\ m.kind = "no-channel-group" => s.group[m.group] \ t.group[m.group] \subseteq m.ports
<1> SUFFICES ASSUME m.kind \in {"channel-group", "no-channel-group"}
             PROVE  /\ m.kind = "channel-group" => \A g \in Groups : s.group[g] \subseteq t.group[g]
                    /\ m.kind = "no-channel-group" => s.group[m.group] \ t.group[m.group] \subseteq m.ports
  OBVIOUS
<1>1. /\ Asks(m, q) /\ m.group \in Groups
      /\ \A g \in Groups : s.group[g] \subseteq Ports
  BY DEF Asked, Commands, Configs
<1>2. /\ q.cgi \in {"port_trunk_set", "port_trunk_display"} /\ q.group = m.group
      /\ m.kind = "channel-group" => q.cgi = "port_trunk_set"
  BY <1>1 DEF Asks, Plain
<1>3. \A g \in Groups :
        t.group[g] = IF g # m.group THEN s.group[g]
                     ELSE IF q.cgi = "port_trunk_set" THEN q.ports \cap Ports ELSE {}
  BY <1>1, <1>2 DEF Perform, Configs
<1>4. /\ m.kind = "channel-group" => s.group[m.group] \subseteq q.ports
      /\ m.kind = "no-channel-group" =>
           s.group[m.group] \ (IF q.cgi = "port_trunk_set" THEN q.ports ELSE {}) \subseteq m.ports
  BY DEF Spares
<1>5. CASE m.kind = "channel-group"
  BY <1>1, <1>2, <1>3, <1>4, <1>5
<1>6. CASE m.kind = "no-channel-group"
  <2>1. t.group[m.group] = IF q.cgi = "port_trunk_set" THEN q.ports \cap Ports ELSE {}
    BY <1>1, <1>3
  <2>2. QED
    BY <1>1, <1>4, <1>6, <2>1
<1>7. QED
  BY <1>5, <1>6

LEMMA LimitKept ==
  ASSUME NEW m \in Commands, NEW q \in Asked(m), NEW s \in Configs, NEW t, t = Perform(q, s), Spares(m, q, s),
         m.kind = "bandwidth"
  PROVE  IF m.dir = "ingress" THEN t.egress = s.egress ELSE t.ingress = s.ingress
<1>1. Asks(m, q) /\ q \in Requests
  BY DEF Asked
<1>2. q.cgi = "qos_bandwidth_set"
  BY <1>1 DEF Asks, Plain
<1>3. \A p \in Ports :
        /\ t.ingress[p] = IF p = q.port THEN q.ingress ELSE s.ingress[p]
        /\ t.egress[p] = IF p = q.port THEN q.egress ELSE s.egress[p]
  BY <1>2, LimitEffect
<1>4. t \in Configs
  BY <1>1, PerformOnly DEF OnlyIn
<1>5. CASE m.dir = "ingress"
  <2>1. \A p \in Ports : t.egress[p] = s.egress[p]
    BY <1>3, <1>5 DEF Spares
  <2>2. t.egress \in [Ports -> Rates] /\ s.egress \in [Ports -> Rates]
    BY <1>4 DEF Configs
  <2>3. t.egress = s.egress
    BY <2>1, <2>2
  <2>4. QED
    BY <1>5, <2>3
<1>6. CASE m.dir # "ingress"
  <2>1. \A p \in Ports : t.ingress[p] = s.ingress[p]
    BY <1>3, <1>6 DEF Spares
  <2>2. t.ingress \in [Ports -> Rates] /\ s.ingress \in [Ports -> Rates]
    BY <1>4 DEF Configs
  <2>3. t.ingress = s.ingress
    BY <2>1, <2>2
  <2>4. QED
    BY <1>6, <2>3
<1>7. QED
  BY <1>5, <1>6

LEMMA AddressKept ==
  ASSUME NEW m \in Commands, NEW q \in Asked(m), NEW s \in Configs, NEW t, t = Perform(q, s), Spares(m, q, s)
  PROVE  /\ m.kind # "mtu-vlan" => t.uplink = s.uplink
         /\ m.kind = "mtu-vlan" /\ "port" \notin DOMAIN m => t.uplink.port = s.uplink.port
         /\ m.kind = "ip-address" => t.ip.gateway = s.ip.gateway
         /\ m.kind = "ip-default-gateway" => t.ip.ip = s.ip.ip
         /\ m.kind \notin {"ip-address", "ip-address-dhcp", "ip-default-gateway", "no-ip-address-dhcp"} =>
              t.ip = s.ip
<1>1. Asks(m, q) /\ q \in Requests
  BY DEF Asked
<1>2. m.kind # "mtu-vlan" => t.uplink = s.uplink
  <2> SUFFICES ASSUME m.kind # "mtu-vlan" PROVE t.uplink = s.uplink
    OBVIOUS
  <2>1. "uplink" \notin Parts(q.cgi)
    BY Untouched
  <2>2. QED
    BY <1>1, <2>1, PerformOnly DEF OnlyIn, Fields
<1>3. m.kind \notin {"ip-address", "ip-address-dhcp", "ip-default-gateway", "no-ip-address-dhcp"} =>
        t.ip = s.ip
  <2> SUFFICES ASSUME m.kind \notin {"ip-address", "ip-address-dhcp", "ip-default-gateway", "no-ip-address-dhcp"}
               PROVE  t.ip = s.ip
    OBVIOUS
  <2>1. "ip" \notin Parts(q.cgi)
    BY Untouched
  <2>2. QED
    BY <1>1, <2>1, PerformOnly DEF OnlyIn, Fields
<1>4. ASSUME m.kind = "mtu-vlan", "port" \notin DOMAIN m PROVE t.uplink.port = s.uplink.port
  <2>1. q.cgi = "mtuVlanSet" /\ q.port = s.uplink.port
    BY <1>1, <1>4 DEF Asks, Plain, Spares
  <2>2. \/ t = s
        \/ t.uplink = [on |-> q.on, port |-> q.port]
    BY <2>1 DEF Perform, Configs
  <2>3. QED
    BY <2>1, <2>2
<1>5. ASSUME m.kind \in {"ip-address", "ip-default-gateway"}
      PROVE  /\ m.kind = "ip-address" => t.ip.gateway = s.ip.gateway
             /\ m.kind = "ip-default-gateway" => t.ip.ip = s.ip.ip
  <2>1. q.cgi = "ip_setting"
    BY <1>1, <1>5 DEF Asks, Plain
  <2>2. t.ip = [dhcp |-> q.dhcp, ip |-> q.ip, gateway |-> q.gateway]
    BY <2>1 DEF Perform, Configs
  <2>3. t.ip.ip = q.ip /\ t.ip.gateway = q.gateway
    BY <2>2
  <2>4. QED
    BY <2>3 DEF Spares
<1>6. QED
  BY <1>2, <1>3, <1>4, <1>5

LEMMA KeptByRequest ==
  ASSUME NEW m \in Commands, NEW q \in Asked(m), NEW s \in Configs, Spares(m, q, s)
  PROVE  Kept(m, s, Perform(q, s))
<1> SUFFICES ASSUME NEW t, t = Perform(q, s) PROVE Kept(m, s, t)
  OBVIOUS
<1>1. /\ m.kind \notin {"monitor-source", "monitor-destination", "no-monitor"} => t.mirror = s.mirror
      /\ m.kind \in {"monitor-source", "monitor-destination"} =>
           s.mirror.rx \subseteq t.mirror.rx /\ s.mirror.tx \subseteq t.mirror.tx
      /\ m.kind = "monitor-source" /\ s.mirror.dest # 0 => t.mirror.dest = s.mirror.dest
  BY MirrorKept
<1>2. /\ m.kind = "channel-group" => \A g \in Groups : s.group[g] \subseteq t.group[g]
      /\ m.kind = "no-channel-group" => s.group[m.group] \ t.group[m.group] \subseteq m.ports
  BY GroupKept
<1>3. m.kind = "bandwidth" => IF m.dir = "ingress" THEN t.egress = s.egress ELSE t.ingress = s.ingress
  BY LimitKept
<1>4. /\ m.kind # "mtu-vlan" => t.uplink = s.uplink
      /\ m.kind = "mtu-vlan" /\ "port" \notin DOMAIN m => t.uplink.port = s.uplink.port
      /\ m.kind = "ip-address" => t.ip.gateway = s.ip.gateway
      /\ m.kind = "ip-default-gateway" => t.ip.ip = s.ip.ip
      /\ m.kind \notin {"ip-address", "ip-address-dhcp", "ip-default-gateway", "no-ip-address-dhcp"} =>
           t.ip = s.ip
  BY AddressKept
<1>5. \A p \in Ports :
        /\ m.kind \notin {"shutdown", "no-shutdown"} => t.port[p].state = s.port[p].state
        /\ m.kind # "speed" => t.port[p].speed = s.port[p].speed
        /\ m.kind # "flowcontrol" => t.port[p].flowcontrol = s.port[p].flowcontrol
  BY PortKept
<1>6. /\ m.kind # "port-vlan-mode" => t.pvlan.on = s.pvlan.on
      /\ \A v \in Vids : t.pvlan.members[v] # s.pvlan.members[v] =>
           m.kind \in {"port-vlan", "no-port-vlan"} /\ m.vid = v
  BY VlanKept
<1>7. \A x \in DOMAIN s.switch : t.switch[x] # s.switch[x] => m.kind = Owner(x)
  BY SwitchKept
<1>8. QED
  BY <1>1, <1>2, <1>3, <1>4, <1>5, <1>6, <1>7 DEF Kept
-----------------------------------------------------------------------------
(* What a CLI that works alone can rely on.                                *)

Solo(c) ==
  /\ at[c] = "ok" /\ cmd[c].kind = "hostname" => hostname[c] = cmd[c].name
  /\ Alone(c) =>
       /\ at[c] = "reread" => reading[c] = config
       /\ at[c] = "write" => Harmless(cmd[c], todo[c], config)
       /\ at[c] \in {"write", "ok"} /\ ~lossy[c] /\ HandedOn(cmd[c]) \subseteq Ports =>
            Coming(cmd[c], todo[c], config)

SoloInv == Inv /\ \A c \in CLIs : Solo(c)

\* A CLI that has taken a step is not idle.
LEMMA ActorBusy ==
  ASSUME ConstantsAssumption, Typed, NEW c \in CLIs, Ahead(c),
         Read(c) \/ Reread(c) \/ Relogin(c) \/ Write(c) \/ Fail(c) \/ \E m \in menu : Give(c, m)
  PROVE  at'[c] # "idle" /\ Others(c)
<1>1. Others(c)
  BY ReadKeeps, ReloginKeeps, WriteKeeps, FailKeeps, GiveLocal
<1>2. CASE Read(c)
  <2>1. at' \in {[at EXCEPT ![c] = "reread"], [at EXCEPT ![c] = "write"], [at EXCEPT ![c] = "failed"]}
    BY <1>2 DEF Read, Proceed
  <2>2. at'[c] # "idle"
    BY <2>1 DEF Typed
  <2>3. QED
    BY <1>1, <2>2
<1>3. CASE Reread(c)
  BY <1>1, <1>3 DEF Reread, Proceed, Typed
<1>4. CASE Relogin(c)
  BY <1>1, <1>4 DEF Relogin
<1>5. CASE Write(c)
  BY <1>1, <1>5 DEF Write, Goes, Typed
<1>6. CASE Fail(c)
  BY <1>1, <1>6 DEF Fail, Typed
<1>7. ASSUME NEW m \in menu, Give(c, m) PROVE at'[c] # "idle"
  <2>1. CASE ReadsOnce(m) \/ ReadsTwice(m)
    BY <1>7, <2>1 DEF Give, Typed
  <2>2. CASE ~(ReadsOnce(m) \/ ReadsTwice(m))
    BY <1>7, <2>2 DEF Give, Proceed, Typed
  <2>3. QED
    BY <2>1, <2>2
<1>8. QED
  BY <1>1, <1>2, <1>3, <1>4, <1>5, <1>6, <1>7

\* A step of another CLI ends the solitude of d.
LEMMA OthersSolo ==
  ASSUME NEW c \in CLIs, Others(c), at'[c] # "idle", NEW d \in CLIs \ {c}, Solo(d)
  PROVE  Solo(d)'
<1>1. ~Alone(d)'
  BY DEF Alone
<1>2. cmd'[d] = cmd[d] /\ at'[d] = at[d] /\ hostname'[d] = hostname[d]
  BY DEF Others
<1>3. QED
  BY <1>1, <1>2 DEF Solo

LEMMA StillAlone ==
  ASSUME NEW c \in CLIs, Others(c), Alone(c)'
  PROVE  Alone(c)
BY DEF Others, Alone

LEMMA ProceedSolo ==
  ASSUME ConstantsAssumption, Typed, NEW c \in CLIs, NEW m \in Commands,
         NEW r \in Configs, NEW s \in Configs, Proceed(c, m, r, s), todo[c] = <<>>,
         cmd'[c] = m, config' = config, Others(c),
         m.kind = "mtu-vlan" => PortsOf(m) \subseteq Ports \cup DefaultPorts,
         Alone(c) /\ ReadsOnce(m) => s = config, Alone(c) /\ ReadsTwice(m) => r = config /\ s = config
  PROVE  Solo(c)'
<1>1. \/ at'[c] = "failed"
      \/ at'[c] = "write" /\ \E plan \in Plans(r, s, m) : todo'[c] = plan
  BY ProceedPlan
<1>2. CASE at'[c] = "failed"
  BY <1>2 DEF Solo
<1>3. CASE at'[c] = "write" /\ \E plan \in Plans(r, s, m) : todo'[c] = plan
  <2>1. PICK plan \in Plans(r, s, m) : todo'[c] = plan
    BY <1>3
  <2>2. Coming(m, plan, config)
    BY PlanComing
  <2>3. ASSUME Alone(c)' PROVE Harmless(m, plan, config)
    <3>1. Alone(c)
      BY <2>3, StillAlone
    <3>2. config \in Configs
      BY DEF Typed
    <3>3. QED
      BY <3>1, <3>2, PlanHarmless
  <2>4. QED
    BY <1>3, <2>1, <2>2, <2>3 DEF Solo
<1>4. QED
  BY <1>1, <1>2, <1>3

LEMMA GiveSolo ==
  ASSUME ConstantsAssumption, Typed, NEW c \in CLIs, Ahead(c), NEW m \in menu, Give(c, m)
  PROVE  Solo(c)'
<1>1. m \in Commands /\ Others(c) /\ todo[c] = <<>> /\ Factory \in Configs
  BY GiveLocal, FactoryTyped DEF Give, Ahead
<1>2. cmd'[c] = m /\ config' = config
  BY DEF Give, Typed
<1>3. CASE ReadsOnce(m) \/ ReadsTwice(m)
  <2>1. at'[c] \in {"failed", "read"}
    BY <1>3 DEF Give, Typed
  <2>2. QED
    BY <2>1 DEF Solo
<1>4. CASE ~(ReadsOnce(m) \/ ReadsTwice(m))
  <2>1. Proceed(c, m, Factory, Factory) /\ m.kind # "mtu-vlan"
    BY <1>4 DEF Give, ReadsOnce
  <2>2. QED
    BY <1>1, <1>2, <1>4, <2>1, ProceedSolo
<1>5. QED
  BY <1>3, <1>4

LEMMA ReadSolo ==
  ASSUME ConstantsAssumption, Typed, NEW c \in CLIs, Ahead(c), Read(c) \/ Reread(c), Solo(c)
  PROVE  Solo(c)'
<1>1. /\ cmd[c] \in Commands /\ todo[c] = <<>> /\ config \in Configs /\ reading[c] \in Configs
      /\ cmd[c].kind = "mtu-vlan" => PortsOf(cmd[c]) \subseteq Ports \cup DefaultPorts
  <2>1. /\ cmd[c] \in Commands /\ todo[c] = <<>>
        /\ cmd[c].kind = "mtu-vlan" => PortsOf(cmd[c]) \subseteq IF sure[c] THEN Ports ELSE Ports \cup DefaultPorts
    BY DEF Ahead, Read, Reread, Working
  <2>2. QED
    BY <2>1 DEF Typed
<1>2. cmd' = cmd /\ config' = config
  BY DEF Read, Reread
<1>3. Others(c)
  BY ReadKeeps
<1>4. CASE Read(c) /\ ReadsTwice(cmd[c])
  <2>1. at'[c] = "reread" /\ reading'[c] = config
    BY <1>4 DEF Read, Typed
  <2>2. QED
    BY <1>2, <2>1 DEF Solo
<1>5. CASE Read(c) /\ ~ReadsTwice(cmd[c])
  <2>1. Proceed(c, cmd[c], config, config)
    BY <1>5 DEF Read
  <2>2. cmd'[c] = cmd[c]
    BY <1>2
  <2>3. QED
    BY <1>1, <1>2, <1>3, <2>1, <2>2, ProceedSolo
<1>6. CASE Reread(c)
  <2>1. Proceed(c, cmd[c], reading[c], config) /\ at[c] = "reread"
    BY <1>6 DEF Reread
  <2>2. cmd'[c] = cmd[c]
    BY <1>2
  <2>3. Alone(c) => reading[c] = config
    BY <2>1 DEF Solo
  <2>4. QED
    BY <1>1, <1>2, <1>3, <2>1, <2>2, <2>3, ProceedSolo
<1>7. QED
  BY <1>4, <1>5, <1>6

LEMMA WriteSolo ==
  ASSUME ConstantsAssumption, Typed, NEW c \in CLIs, Ahead(c), Write(c), Solo(c)
  PROVE  Solo(c)'
<1> DEFINE q == todo[c]
           m == cmd[c]
<1>1. /\ at[c] = "write" /\ m \in Commands /\ q \in Seq(Asked(m)) /\ q # <<>> /\ config \in Configs
  BY DEF Write, Goes, Ahead, Typed
<1>2. /\ at'[c] \in {"write", "ok"} /\ todo'[c] = Tail(q) /\ cmd'[c] = m
      /\ m.kind = "hostname" => hostname'[c] = m.name
      /\ \/ config' = Perform(Head(q), config) /\ lossy'[c] = lossy[c]
         \/ config' = config /\ lossy'[c] = TRUE
  BY <1>1 DEF Write, Typed
<1>3. Others(c)
  BY WriteKeeps
<1>4. ASSUME Alone(c)' PROVE Harmless(m, q, config)
  BY <1>1, <1>4, <1>3, StillAlone DEF Solo
<1>5. ASSUME Alone(c)', ~lossy[c], HandedOn(m) \subseteq Ports PROVE Coming(m, q, config)
  BY <1>1, <1>5, <1>3, StillAlone DEF Solo
<1> HIDE DEF q, m
<1>6. ASSUME Alone(c)' PROVE Harmless(m, Tail(q), config')
  <2>1. Harmless(m, Tail(q), Perform(Head(q), config)) /\ Harmless(m, Tail(q), config)
    BY <1>1, <1>4, <1>6, HarmlessStep
  <2>2. QED
    BY <1>2, <2>1
<1>7. ASSUME Alone(c)', ~lossy'[c], HandedOn(m) \subseteq Ports PROVE Coming(m, Tail(q), config')
  <2>1. config' = Perform(Head(q), config) /\ ~lossy[c]
    BY <1>2, <1>7
  <2>2. Coming(m, Tail(q), Perform(Head(q), config))
    BY <1>1, <1>5, <1>7, <2>1, ComingStep
  <2>3. QED
    BY <2>1, <2>2
<1>8. QED
  BY <1>2, <1>6, <1>7 DEF Solo

LEMMA NextSolo == ConstantsAssumption /\ SoloInv /\ [Next]_vars => SoloInv'
<1> SUFFICES ASSUME ConstantsAssumption, SoloInv, [Next]_vars PROVE SoloInv'
  OBVIOUS
<1>1. Typed /\ \A c \in CLIs : Ahead(c) /\ Solo(c)
  BY DEF SoloInv, Inv
<1>2. Inv'
  BY NextInv DEF SoloInv
<1>3. CASE UNCHANGED vars
  <2>1. ASSUME NEW c \in CLIs PROVE Solo(c)'
    BY <1>1, <1>3 DEF Solo, Alone, vars
  <2>2. QED
    BY <1>2, <2>1 DEF SoloInv
<1>4. ASSUME NEW c \in CLIs,
             Read(c) \/ Reread(c) \/ Relogin(c) \/ Write(c) \/ Fail(c) \/ \E m \in menu : Give(c, m)
      PROVE  SoloInv'
  <2>1. at'[c] # "idle" /\ Others(c)
    BY <1>1, <1>4, ActorBusy
  <2>2. ASSUME NEW d \in CLIs \ {c} PROVE Solo(d)'
    BY <1>1, <2>1, OthersSolo
  <2>3. Solo(c)'
    <3>1. CASE Read(c) \/ Reread(c)
      BY <1>1, <3>1, ReadSolo
    <3>2. CASE Relogin(c)
      <4>1. UNCHANGED <<config, cmd, reading, todo, at, lossy, hostname>> /\ Solo(c)
        BY <1>1, <3>2 DEF Relogin
      <4>2. QED
        BY <4>1 DEF Solo, Alone
    <3>3. CASE Write(c)
      BY <1>1, <3>3, WriteSolo
    <3>4. CASE Fail(c)
      <4>1. at'[c] = "failed"
        BY <1>1, <3>4 DEF Fail, Typed
      <4>2. QED
        BY <4>1 DEF Solo
    <3>5. CASE \E m \in menu : Give(c, m)
      BY <1>1, <3>5, GiveSolo
    <3>6. QED
      BY <1>4, <3>1, <3>2, <3>3, <3>4, <3>5
  <2>4. QED
    BY <1>2, <2>2, <2>3 DEF SoloInv
<1>5. QED
  BY <1>3, <1>4 DEF Next

\* While no other CLI has worked, a command's plan is that of the settings in force:
\* each part of its promise is kept or has its request ahead, and what it was not told
\* to change is spared by all its requests.
THEOREM SoloInvariant == Spec => []SoloInv
<1>1. ConstantsAssumption /\ Init => SoloInv
  BY InitInv DEF Init, SoloInv, Solo
<1>2. QED
  BY <1>1, NextSolo, ConstantsAssumption, PTL DEF Spec

\* Read-modify-write commands (mirroring, groups, bandwidth, the MTU VLAN, IP) that run
\* alone change nothing they were not told to change, also when they end halfway.
THEOREM SettingsKept == Spec => OthersKept
<1>1. ConstantsAssumption /\ SoloInv /\ [Next]_vars =>
        [\A c \in CLIs :
           todo'[c] # todo[c] /\ todo[c] # <<>> /\ Alone(c) => Kept(cmd[c], config, config')]_vars
  <2> SUFFICES ASSUME ConstantsAssumption, SoloInv, [Next]_vars, NEW c \in CLIs,
                      todo'[c] # todo[c], todo[c] # <<>>, Alone(c)
               PROVE  Kept(cmd[c], config, config')
    OBVIOUS
  <2>1. Inv /\ Typed /\ Ahead(c) /\ Solo(c)
    BY DEF SoloInv, Inv
  <2>2. Write(c) \/ Fail(c)
    BY <2>1, QueueStep
  <2>3. CASE config' = config
    BY <2>3, KeptSame
  <2>4. CASE config' # config
    <3> DEFINE q == todo[c]
               m == cmd[c]
    <3>1. config' = Perform(Head(q), config) /\ at[c] = "write"
      BY <2>2, <2>4 DEF Write, Goes, Fail
    <3>2. config \in Configs /\ m \in Commands /\ q \in Seq(Asked(m)) /\ q # <<>> /\ Harmless(m, q, config)
      BY <2>1, <3>1 DEF Typed, Ahead, Solo
    <3> HIDE DEF q, m
    <3>3. Head(q) \in Asked(m) /\ Spares(m, Head(q), config)
      BY <3>2, HeadAndTail, HarmlessStep
    <3>4. Kept(m, config, Perform(Head(q), config))
      BY <3>2, <3>3, KeptByRequest
    <3>5. QED
      BY <3>1, <3>4 DEF m
  <2>5. QED
    BY <2>3, <2>4
<1>2. QED
  BY <1>1, SoloInvariant, ConstantsAssumption, PTL DEF Spec, OthersKept

LEMMA SoloDone == ConstantsAssumption /\ SoloInv => DoneAsPromised
<1> SUFFICES ASSUME ConstantsAssumption, SoloInv, NEW c \in CLIs, at[c] = "ok"
             PROVE  /\ HandedOn(cmd[c]) \subseteq Ports \/ ~sure[c] \/ cmd[c].kind = "no-channel-group"
                    /\ cmd[c].kind = "test-cable-diagnostics" => ~lossy[c] /\ HandedOn(cmd[c]) \subseteq Ports
                    /\ ~lossy[c] /\ Alone(c) /\ HandedOn(cmd[c]) \subseteq Ports =>
                         PromisePorts(cmd[c], config) /\ PromiseSwitch(cmd[c], config)
                    /\ ~lossy[c] /\ Alone(c) /\ cmd[c].kind = "hostname" => hostname[c] = config.switch.name
  BY DEF DoneAsPromised
<1> DEFINE m == cmd[c]
<1>1. Ahead(c) /\ Solo(c)
  BY DEF SoloInv, Inv
<1>2. m \in Commands /\ todo[c] = <<>>
  BY <1>1 DEF Ahead
<1>3. /\ sure[c] /\ m.kind \notin {"bandwidth", "no-bandwidth", "no-channel-group"} => HandedOn(m) \subseteq Ports
      /\ m.kind = "test-cable-diagnostics" => HandedOn(m) \subseteq Ports /\ ~lossy[c]
      /\ sure[c] /\ m.kind \in {"bandwidth", "no-bandwidth"} => Reaches(m, <<>>)
  BY <1>1, <1>2 DEF Ahead
<1>4. m.kind = "hostname" => hostname[c] = m.name
  BY <1>1 DEF Solo
<1>5. ~lossy[c] /\ Alone(c) /\ HandedOn(m) \subseteq Ports => Coming(m, <<>>, config)
  BY <1>1, <1>2 DEF Solo
<1> HIDE DEF m
<1>6. m.kind \in {"bandwidth", "no-bandwidth"} /\ Reaches(m, <<>>) => HandedOn(m) \subseteq Ports
  <2> SUFFICES ASSUME m.kind \in {"bandwidth", "no-bandwidth"}, Reaches(m, <<>>), NEW p \in PortsOf(m)
               PROVE  p \in Ports
    BY Handed
  <2>1. p \in m.ports
    BY <1>2, CommandFields, PortsOfMember
  <2>2. \A i \in 1..Len(<<>>) : FALSE
    OBVIOUS
  <2>3. QED
    BY <2>1, <2>2 DEF Reaches
<1>7. ~lossy[c] /\ Alone(c) /\ HandedOn(m) \subseteq Ports => Promise(m, config)
  BY <1>2, <1>5, ComingDone
<1>8. m.kind = "hostname" => HandedOn(m) = {}
  <2> SUFFICES ASSUME m.kind = "hostname", NEW p \in PortsOf(m) PROVE FALSE
    BY Handed
  <2>1. "ports" \notin DOMAIN m /\ "port" \notin DOMAIN m /\ "dest" \notin DOMAIN m
    BY <1>2, CommandFields DEF OnPorts
  <2>2. QED
    BY <2>1, PortsOfMember
<1>9. ~lossy[c] /\ Alone(c) /\ m.kind = "hostname" => hostname[c] = config.switch.name
  <2> SUFFICES ASSUME ~lossy[c], Alone(c), m.kind = "hostname" PROVE hostname[c] = config.switch.name
    OBVIOUS
  <2>1. PromiseSwitch(m, config)
    BY <1>7, <1>8 DEF Promise
  <2>2. config.switch.name = m.name
    BY <2>1 DEF PromiseSwitch
  <2>3. QED
    BY <1>4, <2>2
<1>10. QED
  BY <1>3, <1>6, <1>7, <1>9 DEF m, Promise

\* A command that ends well and lost no request has done what it says, whatever earlier
\* commands left half done.
THEOREM CommandsDoAsTheySay == Spec => []DoneAsPromised
BY SoloInvariant, SoloDone, ConstantsAssumption, PTL
=============================================================================
