-------------------------- MODULE MCSwitchSettings --------------------------
(* Model-checking instances of SwitchSettings.                             *)
EXTENDS SwitchSettings, TLC

PortCommands ==
  [kind : {"bandwidth"}, ports : {{2}, {1, 4}}, dir : {"ingress", "egress"}, rate : {512}] \cup
  [kind : {"no-bandwidth"}, ports : {{1, 4}}] \cup
  [kind : {"channel-group", "no-channel-group"}, ports : {{1, 2}}, group : {1}] \cup
  [kind : {"no-channel-group"}, ports : {{2, 4}}, group : {1}] \cup
  [kind : {"channel-group"}, ports : {{2}, {1, 4}}, group : {2}]

\* Port 4 is one a Client refuses only once it knows the port count.
InterfaceCommands ==
  [kind : {"shutdown"}, ports : {{1, 2}, {2, 4}}] \cup [kind : {"no-shutdown"}, ports : {{1}}] \cup
  [kind : {"speed"}, ports : {{2}}, speed : {6}] \cup
  [kind : {"flowcontrol"}, ports : {{1, 2}}, on : {1}] \cup
  [kind : {"qos-port-priority"}, ports : {{1}}, priority : {4}] \cup
  [kind : {"storm-control"}, ports : {{1, 2}}, rate : {5}, types : {{1}, StormTypes}] \cup
  [kind : {"no-storm-control"}, ports : {{2}}] \cup
  [kind : {"clear-counters"}, ports : {{}, {1, 2}, {2, 4}}]

MirrorCommands ==
  {[kind |-> "monitor-source", ports |-> {1}, dirs |-> {"rx"}],
   [kind |-> "monitor-source", ports |-> {1, 2}, dirs |-> {"tx"}],
   [kind |-> "monitor-source", ports |-> {2, 4}, dirs |-> {"rx", "tx"}],
   [kind |-> "monitor-destination", port |-> 2], [kind |-> "monitor-destination", port |-> 4],
   [kind |-> "no-monitor"]}

AddressCommands ==
  [kind : {"mtu-vlan"}, on : {TRUE}, port : {2, 4}] \cup
  [kind : {"mtu-vlan"}, on : {TRUE, FALSE}] \cup
  [kind : {"ip-address"}, ip : {20}] \cup [kind : {"ip-default-gateway"}, gateway : {20}] \cup
  [kind : {"ip-address-dhcp", "no-ip-address-dhcp"}]

SwitchCommands ==
  [kind : {"hostname"}, name : HostNames] \cup [kind : {"led"}, on : {FALSE}] \cup
  [kind : {"qos-mode"}, mode : {0}] \cup [kind : {"spanning-tree"}, on : {TRUE}] \cup
  [kind : {"igmp-snooping"}, on : {TRUE}, suppression : {TRUE, FALSE}]

OtherCommands ==
  [kind : {"port-vlan"}, vid : {1, 2}, ports : {{1, 2}, {2, 4}}] \cup
  [kind : {"no-port-vlan"}, vid : {1}] \cup [kind : {"port-vlan-mode"}, on : {TRUE}] \cup
  [kind : {"test-cable-diagnostics"}, ports : {{}, {2, 4}}]

AllMenus ==
  {PortCommands, InterfaceCommands, MirrorCommands, AddressCommands, SwitchCommands,
   OtherCommands}

Either == Permutations(CLIs)
=============================================================================
