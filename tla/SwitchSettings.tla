--------------------------- MODULE SwitchSettings ---------------------------
(***************************************************************************)
(* The setters behind the CLI's configuration commands (src/tplink/cli.go, *)
(* ports.go, vlan_qos.go, system.go), 802.1Q aside.  Some send one request *)
(* straight away; some read a page and write back what they derive from    *)
(* it: port mirroring, link aggregation groups, bandwidth limits, the MTU  *)
(* VLAN and the IP settings.  Several CLIs may administer the switch, a    *)
(* request may fail or be lost on a dropped connection, and a command that *)
(* failed leaves its earlier requests done.                                *)
(*                                                                         *)
(* Ports are validated against the port count the Client cached at its     *)
(* login, or a default if it could not read it.  A request takes effect    *)
(* before the outcome it is reported with, or not at all, and may do so    *)
(* although that is an error; requests that outlive their client are       *)
(* ClientSession's subject.                                                *)
(***************************************************************************)
EXTENDS Naturals, Sequences, SequencesExt, FiniteSets

CONSTANTS CLIs,          \* the CLIs at work
          Ports,         \* the switch's ports
          DefaultPorts,  \* the ports a Client assumes before it has read their count
          Rates,         \* bandwidth limits, 0 for none
          Addresses,     \* values of an IP setting
          HostNames,     \* host names
          Vids,          \* port-based VLANs
          Menus,         \* sets of commands; a behaviour draws from one of them
          MaxCommands    \* bound: how many are given

Groups     == 1..2
StormTypes == {1, 2, 4}
NoChange   == 7   \* "leave as it is", in a request on port settings

\* The port lists a command can name, and those it can be given on.
PortLists  == {ports \in SUBSET Nat : IsFiniteSet(ports)}
Interfaces == PortLists \ {{}}

\* The commands as their handlers have them once their arguments are parsed; fields
\* that are out of range end a command before or in its setter (see Fail).
Commands ==
  [kind : {"shutdown", "no-shutdown", "no-storm-control", "no-bandwidth"}, ports : Interfaces] \cup
  [kind : {"speed"}, ports : Interfaces, speed : 1..6] \cup
  [kind : {"flowcontrol"}, ports : Interfaces, on : 0..1] \cup
  [kind : {"qos-port-priority"}, ports : Interfaces, priority : 1..4] \cup
  [kind : {"storm-control"}, ports : Interfaces, rate : 1..12, types : SUBSET StormTypes] \cup
  [kind : {"bandwidth"}, ports : Interfaces, dir : {"ingress", "egress"}, rate : Rates] \cup
  [kind : {"channel-group", "no-channel-group"}, ports : Interfaces, group : Groups] \cup
  [kind : {"clear-counters", "test-cable-diagnostics"}, ports : PortLists] \cup
  [kind : {"monitor-source"}, ports : Interfaces, dirs : {{"rx"}, {"tx"}, {"rx", "tx"}}] \cup
  [kind : {"monitor-destination"}, port : Nat] \cup
  [kind : {"mtu-vlan"}, on : BOOLEAN, port : Nat] \cup
  [kind : {"mtu-vlan", "port-vlan-mode", "spanning-tree", "led"}, on : BOOLEAN] \cup
  [kind : {"ip-address"}, ip : Addresses] \cup [kind : {"ip-default-gateway"}, gateway : Addresses] \cup
  [kind : {"ip-address-dhcp", "no-ip-address-dhcp", "no-monitor"}] \cup
  [kind : {"port-vlan"}, vid : Vids, ports : Interfaces] \cup [kind : {"no-port-vlan"}, vid : Vids] \cup
  [kind : {"qos-mode"}, mode : 0..2] \cup [kind : {"hostname"}, name : HostNames] \cup
  [kind : {"igmp-snooping"}, on : BOOLEAN, suppression : BOOLEAN]

ASSUME ConstantsAssumption ==
  /\ Ports \in PortLists /\ DefaultPorts \in PortLists /\ 1 \in Ports /\ 0 \notin Ports \cup DefaultPorts
  /\ 0 \in Rates /\ Addresses # {} /\ 0 \notin Addresses /\ HostNames # {} /\ MaxCommands \in Nat
  /\ \A commands \in Menus : commands \subseteq Commands

VARIABLES
  config,    \* what the switch is set to
  menu,      \* the commands of this behaviour
  cmd,       \* per CLI: the command it runs
  reading,   \* per CLI: the first of two readings
  todo,      \* per CLI: the requests ahead, in order
  at,        \* per CLI: "idle", "read", "reread", "write" or how the command ended
  lossy,     \* per CLI: a request of the command was lost and taken for done
  counted,   \* per CLI: its Client knows the port count
  sure,      \* per CLI: so it did when the command was given
  hostname,  \* per CLI: the name in its prompt
  given      \* commands given

vars == <<config, menu, cmd, reading, todo, at, lossy, counted, sure, hostname, given>>

Mirror == [on : BOOLEAN, dest : Ports \cup {0}, rx : SUBSET Ports, tx : SUBSET Ports]

Uplink == [on : BOOLEAN, port : Ports]

IP == [dhcp : BOOLEAN, ip : Addresses, gateway : Addresses]

PortSettings == [state : 0..1, speed : 1..6, flowcontrol : 0..1]

Storm == [rate : 0..12, types : SUBSET StormTypes]   \* rate 0: off

PortVlans == [on : BOOLEAN, members : [Vids -> SUBSET Ports]]

Switches == [igmp : BOOLEAN, suppression : BOOLEAN, loop : BOOLEAN, led : BOOLEAN,
             qos : 0..2, name : HostNames]

Configs ==
  [mirror : Mirror, group : [Groups -> SUBSET Ports], uplink : Uplink, ip : IP,
   ingress : [Ports -> Rates], egress : [Ports -> Rates],
   port : [Ports -> PortSettings], priority : [Ports -> 1..4], storm : [Ports -> Storm],
   cleared : SUBSET Ports, pvlan : PortVlans, switch : Switches]

TypeOK ==
  /\ config \in Configs
  /\ \A c \in CLIs : reading[c] \in Configs
  /\ menu \in Menus
  /\ at \in [CLIs -> {"idle", "read", "reread", "write", "ok", "failed"}]
  /\ \A c \in CLIs : (todo[c] # <<>>) <=> at[c] = "write"
  /\ {lossy, counted, sure} \subseteq [CLIs -> BOOLEAN]
  /\ hostname \in [CLIs -> HostNames] /\ given \in 0..MaxCommands

AnyOf(S) == CHOOSE x \in S : TRUE

Factory ==
  [mirror |-> [on |-> FALSE, dest |-> 0, rx |-> {}, tx |-> {}],
   group |-> [g \in Groups |-> {}],
   uplink |-> [on |-> FALSE, port |-> 1],
   ip |-> [dhcp |-> TRUE, ip |-> AnyOf(Addresses), gateway |-> AnyOf(Addresses)],
   ingress |-> [p \in Ports |-> 0], egress |-> [p \in Ports |-> 0],
   port |-> [p \in Ports |-> [state |-> 1, speed |-> 1, flowcontrol |-> 0]],
   priority |-> [p \in Ports |-> 1],
   storm |-> [p \in Ports |-> [rate |-> 0, types |-> {}]],
   cleared |-> {},
   pvlan |-> [on |-> FALSE, members |-> [v \in Vids |-> {}]],
   switch |-> [igmp |-> FALSE, suppression |-> FALSE, loop |-> FALSE, led |-> TRUE,
               qos |-> 2, name |-> AnyOf(HostNames)]]

Init ==
  /\ config = Factory
  /\ menu \in Menus
  /\ cmd = [c \in CLIs |-> [kind |-> "none"]]
  /\ reading = [c \in CLIs |-> Factory]
  /\ todo = [c \in CLIs |-> <<>>]
  /\ at = [c \in CLIs |-> "idle"]
  /\ lossy = [c \in CLIs |-> FALSE]
  /\ counted \in [CLIs -> BOOLEAN]
  /\ sure = counted
  /\ hostname = [c \in CLIs |-> Factory.switch.name]
  /\ given = 0
-----------------------------------------------------------------------------
(* Requests: a request holds the fields it sends; the switch takes them,   *)
(* as far as they concern ports it has.                                    *)

Taken(new, old) == IF new = NoChange THEN old ELSE new

Those(ports, old, new(_)) == [p \in Ports |-> IF p \in ports THEN new(p) ELSE old[p]]

Perform(r, s) ==
  CASE r.cgi = "mirror_enabled_set" /\ r.on ->
         IF r.dest \in Ports THEN [s EXCEPT !.mirror.on = TRUE, !.mirror.dest = r.dest] ELSE s
    [] r.cgi = "mirror_enabled_set" /\ ~r.on -> [s EXCEPT !.mirror.on = FALSE]
    [] r.cgi = "mirrored_port_set" ->
         [s EXCEPT !.mirror.rx = IF r.rx THEN @ \cup ({r.port} \cap Ports) ELSE @ \ {r.port},
                   !.mirror.tx = IF r.tx THEN @ \cup ({r.port} \cap Ports) ELSE @ \ {r.port}]
    [] r.cgi = "port_trunk_set" -> [s EXCEPT !.group[r.group] = r.ports \cap Ports]
    [] r.cgi = "port_trunk_display" -> [s EXCEPT !.group[r.group] = {}]
    [] r.cgi = "qos_bandwidth_set" ->
         [s EXCEPT !.ingress = Those({r.port}, @, LAMBDA p : r.ingress),
                   !.egress = Those({r.port}, @, LAMBDA p : r.egress)]
    [] r.cgi = "mtuVlanSet" ->
         IF r.port \in DefaultPorts \ Ports THEN s
         ELSE [s EXCEPT !.uplink = [on |-> r.on, port |-> r.port]]
    [] r.cgi = "ip_setting" ->
         [s EXCEPT !.ip = [dhcp |-> r.dhcp, ip |-> r.ip, gateway |-> r.gateway]]
    [] r.cgi = "port_setting" ->
         [s EXCEPT !.port = Those(r.ports, @, LAMBDA p :
            [state |-> Taken(r.state, @[p].state), speed |-> Taken(r.speed, @[p].speed),
             flowcontrol |-> Taken(r.flowcontrol, @[p].flowcontrol)])]
    [] r.cgi = "qos_port_priority_set" ->
         [s EXCEPT !.priority = Those(r.ports, @, LAMBDA p : r.port_queue + 1)]
    [] r.cgi = "qos_storm_set" ->
         [s EXCEPT !.storm = Those(r.ports, @, LAMBDA p : [rate |-> r.rate, types |-> r.types])]
    [] r.cgi = "port_statistics_set" ->
         [s EXCEPT !.cleared = @ \cup IF r.ports = {} THEN Ports ELSE r.ports \cap Ports]
    [] r.cgi = "pvlanSet" -> [s EXCEPT !.pvlan.on = r.on]
    [] r.cgi = "pvlan_add" -> [s EXCEPT !.pvlan.members[r.vid] = r.ports \cap Ports]
    [] r.cgi = "igmpSnooping" ->
         [s EXCEPT !.switch.igmp = r.on, !.switch.suppression = r.suppression]
    [] r.cgi = "loop_prevention_set" -> [s EXCEPT !.switch.loop = r.on]
    [] r.cgi = "led_on_set" -> [s EXCEPT !.switch.led = r.on]
    [] r.cgi = "qos_mode_set" -> [s EXCEPT !.switch.qos = r.mode]
    [] r.cgi = "system_name_set" -> [s EXCEPT !.switch.name = r.name]
    [] r.cgi = "cable_diag_get" -> s
-----------------------------------------------------------------------------
(* The requests of each command, derived from its reading s, as the set of *)
(* the orders they may be sent in.                                         *)

SetPorts(ports, state, speed, flowcontrol) ==
  {<<[cgi |-> "port_setting", ports |-> ports, state |-> state, speed |-> speed,
      flowcontrol |-> flowcontrol]>>}

SetPortPriority(ports, priority) ==
  {<<[cgi |-> "qos_port_priority_set", ports |-> ports, port_queue |-> priority - 1]>>}

SetStormControl(ports, rate, types) ==
  {<<[cgi |-> "qos_storm_set", ports |-> ports, rate |-> rate,
      types |-> IF rate # 0 /\ types = {} THEN StormTypes ELSE types]>>}

\* Clears one port, or all if none is given.
ResetPortStatistics(port) == {<<[cgi |-> "port_statistics_set", ports |-> port]>>}

\* The first port of a list, which is in ascending order.
First(ports) == {p \in ports : \A q \in ports : p <= q}

\* clear counters takes a list of ports and hands on the first.
ClearCounters(m) == ResetPortStatistics(First(m.ports))

AddPortVLAN(v, ports) == {<<[cgi |-> "pvlan_add", vid |-> v, ports |-> ports]>>}

DeletePortVLAN(v) == {<<[cgi |-> "pvlan_add", vid |-> v, ports |-> {}]>>}

Switch(cgi, on) == {<<[cgi |-> cgi, on |-> on]>>}

Ascending(ports) ==
  {order \in SetToSeqs(ports) : \A i, j \in DOMAIN order : i < j => order[i] < order[j]}

\* One request per port, those of the switch if none is named.
RunCableDiagnostic(ports) ==
  {[i \in DOMAIN order |-> [cgi |-> "cable_diag_get", port |-> order[i]]] :
     order \in Ascending(IF ports = {} THEN Ports ELSE ports)}

\* SetPortMirror: one request for the session, then one per port in map order.
SetPortMirror(dest, rx, tx) ==
  {<<[cgi |-> "mirror_enabled_set", on |-> TRUE, dest |-> dest]>> \o
     [i \in DOMAIN order |->
        [cgi |-> "mirrored_port_set", port |-> order[i],
         rx |-> order[i] \in rx, tx |-> order[i] \in tx]] :
   order \in SetToSeqs(rx \cup tx)}

MonitorSource(s, m) ==
  SetPortMirror(IF s.mirror.dest = 0 THEN 1 ELSE s.mirror.dest,
                s.mirror.rx \cup IF "rx" \in m.dirs THEN m.ports ELSE {},
                s.mirror.tx \cup IF "tx" \in m.dirs THEN m.ports ELSE {})

MonitorDestination(s, m) == SetPortMirror(m.port, s.mirror.rx, s.mirror.tx)

NoMonitor == Switch("mirror_enabled_set", FALSE)

SetPortTrunk(g, ports) ==
  IF ports # {} THEN {<<[cgi |-> "port_trunk_set", group |-> g, ports |-> ports]>>}
  ELSE {<<[cgi |-> "port_trunk_display", group |-> g]>>}

ChannelGroup(s, m) == SetPortTrunk(m.group, s.group[m.group] \cup m.ports)

NoChannelGroup(s, m) == SetPortTrunk(m.group, s.group[m.group] \ m.ports)

\* The entry read for port p; one the page does not list is zero.
Entry(rates, p) == IF p \in Ports THEN rates[p] ELSE 0

\* One request per interface; ifPorts is in ascending order.
SetBandwidth(ports, ingress, egress) ==
  {[i \in DOMAIN order |->
      [cgi |-> "qos_bandwidth_set", port |-> order[i],
       ingress |-> ingress[order[i]], egress |-> egress[order[i]]]] : order \in Ascending(ports)}

\* Bug shape for Bandwidth: the other direction goes out as zero.
BandwidthOneWay(s, m) ==
  SetBandwidth(m.ports, [p \in m.ports |-> IF m.dir = "ingress" THEN m.rate ELSE 0],
               [p \in m.ports |-> IF m.dir = "egress" THEN m.rate ELSE 0])

\* Bug shape for Bandwidth: every port goes out as it was read.
BandwidthAllPorts(s, m) ==
  LET Rate(dir, rates, p) == IF m.dir = dir /\ p \in m.ports THEN m.rate ELSE Entry(rates, p)
  IN  SetBandwidth(Ports \cup m.ports,
                   [p \in Ports \cup m.ports |-> Rate("ingress", s.ingress, p)],
                   [p \in Ports \cup m.ports |-> Rate("egress", s.egress, p)])

Bandwidth(s, m) ==
  SetBandwidth(m.ports, [p \in m.ports |-> IF m.dir = "ingress" THEN m.rate ELSE Entry(s.ingress, p)],
               [p \in m.ports |-> IF m.dir = "egress" THEN m.rate ELSE Entry(s.egress, p)])

NoBandwidth(m) == SetBandwidth(m.ports, [p \in m.ports |-> 0], [p \in m.ports |-> 0])

\* Bug shape for SetMTUVlan: the uplink is not filled in from the page.
SetMTUVlanBlank(s, m) ==
  {<<[cgi |-> "mtuVlanSet", on |-> m.on, port |-> IF "port" \in DOMAIN m THEN m.port ELSE 0]>>}

SetMTUVlan(s, m) ==
  {<<[cgi |-> "mtuVlanSet", on |-> m.on,
      port |-> IF "port" \in DOMAIN m THEN m.port ELSE s.uplink.port]>>}

\* SetIPSettings sends back what it read for the fields not given, here 0.
SetIPSettings(s, dhcp, ip, gateway) ==
  {<<[cgi |-> "ip_setting", dhcp |-> dhcp, ip |-> IF ip = 0 THEN s.ip.ip ELSE ip,
      gateway |-> IF gateway = 0 THEN s.ip.gateway ELSE gateway]>>}

\* ip default-gateway and no ip address dhcp read the page a first time themselves
\* and pass on what they read; r is that first reading, s the one of SetIPSettings.
IPCommand(r, s, m) ==
  CASE m.kind = "ip-address" -> SetIPSettings(s, FALSE, m.ip, 0)
    [] m.kind = "ip-address-dhcp" -> SetIPSettings(s, TRUE, 0, 0)
    [] m.kind = "ip-default-gateway" -> SetIPSettings(s, FALSE, r.ip.ip, m.gateway)
    [] m.kind = "no-ip-address-dhcp" -> SetIPSettings(s, FALSE, r.ip.ip, r.ip.gateway)

\* The commands that send one request and read nothing.
Setter(m) ==
  CASE m.kind = "shutdown"          -> SetPorts(m.ports, 0, NoChange, NoChange)
    [] m.kind = "no-shutdown"       -> SetPorts(m.ports, 1, NoChange, NoChange)
    [] m.kind = "speed"             -> SetPorts(m.ports, NoChange, m.speed, NoChange)
    [] m.kind = "flowcontrol"       -> SetPorts(m.ports, NoChange, NoChange, m.on)
    [] m.kind = "qos-port-priority" -> SetPortPriority(m.ports, m.priority)
    [] m.kind = "storm-control"     -> SetStormControl(m.ports, m.rate, m.types)
    [] m.kind = "no-storm-control"  -> SetStormControl(m.ports, 0, {})
    [] m.kind = "clear-counters"    -> ClearCounters(m)
    [] m.kind = "port-vlan"         -> AddPortVLAN(m.vid, m.ports)
    [] m.kind = "no-port-vlan"      -> DeletePortVLAN(m.vid)
    [] m.kind = "port-vlan-mode"    -> Switch("pvlanSet", m.on)
    [] m.kind = "no-monitor"        -> NoMonitor
    [] m.kind = "spanning-tree"     -> Switch("loop_prevention_set", m.on)
    [] m.kind = "led"               -> Switch("led_on_set", m.on)
    [] m.kind = "qos-mode"          -> {<<[cgi |-> "qos_mode_set", mode |-> m.mode]>>}
    [] m.kind = "hostname"          -> {<<[cgi |-> "system_name_set", name |-> m.name]>>}
    [] m.kind = "igmp-snooping"     ->
         {<<[cgi |-> "igmpSnooping", on |-> m.on, suppression |-> m.suppression]>>}

ReadsTwice(m) == m.kind \in {"ip-default-gateway", "no-ip-address-dhcp"}

ReadsOnce(m) ==
  m.kind \in {"monitor-source", "monitor-destination", "channel-group", "no-channel-group",
              "bandwidth", "mtu-vlan", "ip-address", "ip-address-dhcp", "test-cable-diagnostics"}

\* The possible plans of command m, given its readings r and then s.
Plans(r, s, m) ==
  CASE m.kind = "monitor-source" -> MonitorSource(s, m)
    [] m.kind = "monitor-destination" -> MonitorDestination(s, m)
    [] m.kind = "channel-group" -> ChannelGroup(s, m)
    [] m.kind = "no-channel-group" -> NoChannelGroup(s, m)
    [] m.kind = "bandwidth" -> Bandwidth(s, m)
    [] m.kind = "no-bandwidth" -> NoBandwidth(m)
    [] m.kind = "mtu-vlan" -> SetMTUVlan(s, m)
    [] m.kind = "test-cable-diagnostics" -> RunCableDiagnostic(m.ports)
    [] ReadsTwice(m) \/ m.kind \in {"ip-address", "ip-address-dhcp"} -> IPCommand(r, s, m)
    [] OTHER -> Setter(m)
-----------------------------------------------------------------------------
(* Validation, by validatePorts against the count the Client knows.        *)

KnownPorts(c) == IF counted[c] THEN Ports ELSE DefaultPorts

\* The ports that appear in a command or a request.
PortsOf(x) ==
  (IF "ports" \in DOMAIN x THEN x.ports ELSE {}) \cup
    {x[f] : f \in {"port", "dest"} \cap DOMAIN x}

\* The ports a command hands to its setter: those it names, of clear counters the first.
HandedOn(m) == IF m.kind = "clear-counters" THEN First(m.ports) ELSE PortsOf(m)

\* Every SetBandwidthControl of the loop validates its own port.
ValidatesEach(m) == m.kind \in {"bandwidth", "no-bandwidth"}

\* Bug shape for Valid: a setter validates each port as it comes to it.
ValidFirst(c, m, plan) == PortsOf(plan[1]) \subseteq KnownPorts(c)

\* A setter validates all its ports before its first request: SetMTUVlan its argument
\* before it reads (see Give), RunCableDiagnostic with the count its page gives.
Valid(c, m, plan) ==
  ValidatesEach(m) \/ m.kind = "mtu-vlan" \/ \A i \in DOMAIN plan :
    PortsOf(plan[i]) \subseteq IF m.kind = "test-cable-diagnostics" THEN Ports ELSE KnownPorts(c)

\* The command goes on to its requests, or is refused.
Proceed(c, m, r, s) ==
  \E plan \in Plans(r, s, m) :
    IF Valid(c, m, plan)
    THEN at' = [at EXCEPT ![c] = "write"] /\ todo' = [todo EXCEPT ![c] = plan]
    ELSE at' = [at EXCEPT ![c] = "failed"] /\ UNCHANGED todo
-----------------------------------------------------------------------------
\* SetMTUVlan validates its port before it reads the page.
Give(c, m) ==
  /\ at[c] \in {"idle", "ok", "failed"} /\ given < MaxCommands
  /\ given' = given + 1
  /\ cmd' = [cmd EXCEPT ![c] = m]
  /\ lossy' = [lossy EXCEPT ![c] = FALSE]
  /\ sure' = [sure EXCEPT ![c] = counted[c]]
  /\ IF ReadsOnce(m) \/ ReadsTwice(m)
     THEN /\ at' = [at EXCEPT ![c] = IF m.kind = "mtu-vlan" /\ ~(PortsOf(m) \subseteq KnownPorts(c))
                                     THEN "failed" ELSE "read"]
          /\ UNCHANGED todo
     ELSE Proceed(c, m, Factory, Factory)
  /\ UNCHANGED <<config, menu, reading, counted, hostname>>

\* The page is fetched, once or a first time.
Read(c) ==
  /\ at[c] = "read"
  /\ IF ReadsTwice(cmd[c])
     THEN /\ at' = [at EXCEPT ![c] = "reread"]
          /\ reading' = [reading EXCEPT ![c] = config]
          /\ UNCHANGED todo
     ELSE Proceed(c, cmd[c], config, config) /\ UNCHANGED reading
  /\ UNCHANGED <<config, menu, cmd, lossy, counted, sure, hostname, given>>

Reread(c) ==
  /\ at[c] = "reread"
  /\ Proceed(c, cmd[c], reading[c], config)
  /\ UNCHANGED <<config, menu, cmd, reading, lossy, counted, sure, hostname, given>>

\* The session is lost, and the request under way logs in again and reads the count.
Relogin(c) ==
  /\ at[c] \in {"read", "reread", "write"} /\ ~counted[c]
  /\ counted' = [counted EXCEPT ![c] = TRUE]
  /\ UNCHANGED <<config, menu, cmd, reading, todo, at, lossy, sure, hostname, given>>

\* The next request gets past its validation, if it has one of its own.
Goes(c) ==
  /\ at[c] = "write"
  /\ ValidatesEach(cmd[c]) => PortsOf(Head(todo[c])) \subseteq KnownPorts(c)

\* It is performed, or its connection drops before and cfgGet says nothing; only the
\* cable diagnostic takes a missing body for an error.  A hostname command that
\* succeeded names the prompt.
Write(c) ==
  /\ Goes(c)
  /\ \/ config' = Perform(Head(todo[c]), config) /\ UNCHANGED lossy
     \/ /\ Head(todo[c]).cgi # "cable_diag_get"
        /\ lossy' = [lossy EXCEPT ![c] = TRUE] /\ UNCHANGED config
  /\ todo' = [todo EXCEPT ![c] = Tail(@)]
  /\ at' = [at EXCEPT ![c] = IF Len(todo[c]) = 1 THEN "ok" ELSE @]
  /\ hostname' = IF cmd[c].kind = "hostname" THEN [hostname EXCEPT ![c] = cmd[c].name] ELSE hostname
  /\ UNCHANGED <<menu, cmd, reading, counted, sure, given>>

\* Bug shape for Fail: the error is dropped.
FailIgnored(c) ==
  /\ at[c] \in {"read", "reread", "write"}
  /\ (Goes(c) /\ config' = Perform(Head(todo[c]), config)) \/ UNCHANGED config
  /\ at' = [at EXCEPT ![c] = "ok"]
  /\ todo' = [todo EXCEPT ![c] = <<>>]
  /\ UNCHANGED <<menu, cmd, reading, lossy, counted, sure, hostname, given>>

\* A page cannot be read, an argument is refused, or a request returns an error, be it
\* performed or not: the command ends there.
Fail(c) ==
  /\ at[c] \in {"read", "reread", "write"}
  /\ (Goes(c) /\ config' = Perform(Head(todo[c]), config)) \/ UNCHANGED config
  /\ at' = [at EXCEPT ![c] = "failed"]
  /\ todo' = [todo EXCEPT ![c] = <<>>]
  /\ UNCHANGED <<menu, cmd, reading, lossy, counted, sure, hostname, given>>

Next ==
  \E c \in CLIs :
    Read(c) \/ Reread(c) \/ Relogin(c) \/ Write(c) \/ Fail(c) \/ \E m \in menu : Give(c, m)

Spec == Init /\ [][Next]_vars
-----------------------------------------------------------------------------
(* Properties.                                                             *)

\* No other CLI has given a command yet.
Alone(c) == \A d \in CLIs \ {c} : at[d] = "idle"

PromisePorts(m, s) ==
  CASE m.kind = "shutdown" -> \A p \in m.ports : s.port[p].state = 0
    [] m.kind = "no-shutdown" -> \A p \in m.ports : s.port[p].state = 1
    [] m.kind = "speed" -> \A p \in m.ports : s.port[p].speed = m.speed
    [] m.kind = "flowcontrol" -> \A p \in m.ports : s.port[p].flowcontrol = m.on
    [] m.kind = "qos-port-priority" -> \A p \in m.ports : s.priority[p] = m.priority
    [] m.kind = "storm-control" ->
         \A p \in m.ports : s.storm[p].rate = m.rate /\ m.types \subseteq s.storm[p].types
    [] m.kind = "no-storm-control" -> \A p \in m.ports : s.storm[p].rate = 0
    [] m.kind = "clear-counters" ->
         First(m.ports) \subseteq s.cleared /\ (m.ports = {} => s.cleared = Ports)
    [] m.kind = "bandwidth" ->
         \A p \in m.ports : m.rate = IF m.dir = "ingress" THEN s.ingress[p] ELSE s.egress[p]
    [] m.kind = "no-bandwidth" -> \A p \in m.ports : s.ingress[p] = 0 /\ s.egress[p] = 0
    [] m.kind = "channel-group" -> m.ports \subseteq s.group[m.group]
    [] m.kind = "no-channel-group" -> m.ports \cap s.group[m.group] = {}
    [] OTHER -> TRUE

PromiseSwitch(m, s) ==
  CASE m.kind = "monitor-source" ->
         /\ s.mirror.on /\ s.mirror.dest # 0
         /\ "rx" \in m.dirs => m.ports \subseteq s.mirror.rx
         /\ "tx" \in m.dirs => m.ports \subseteq s.mirror.tx
    [] m.kind = "monitor-destination" -> s.mirror.on /\ s.mirror.dest = m.port
    [] m.kind = "no-monitor" -> ~s.mirror.on
    [] m.kind = "mtu-vlan" -> s.uplink.on = m.on /\ ("port" \in DOMAIN m => s.uplink.port = m.port)
    [] m.kind = "ip-address" -> ~s.ip.dhcp /\ s.ip.ip = m.ip
    [] m.kind = "ip-address-dhcp" -> s.ip.dhcp
    [] m.kind = "ip-default-gateway" -> ~s.ip.dhcp /\ s.ip.gateway = m.gateway
    [] m.kind = "no-ip-address-dhcp" -> ~s.ip.dhcp
    [] m.kind = "port-vlan" -> s.pvlan.members[m.vid] = m.ports
    [] m.kind = "no-port-vlan" -> s.pvlan.members[m.vid] = {}
    [] m.kind = "port-vlan-mode" -> s.pvlan.on = m.on
    [] m.kind = "spanning-tree" -> s.switch.loop = m.on
    [] m.kind = "led" -> s.switch.led = m.on
    [] m.kind = "qos-mode" -> s.switch.qos = m.mode
    [] m.kind = "igmp-snooping" -> s.switch.igmp = m.on /\ s.switch.suppression = m.suppression
    [] m.kind = "hostname" -> s.switch.name = m.name
    [] OTHER -> TRUE

\* A command that ended well and lost nothing has done what it says, whatever the
\* ones before it left half done, as long as its CLI works alone; the prompt then has
\* the switch's name.  No command that hands on ports the switch lacks ends well, unless
\* its Client did not know the port count, and no cable diagnostic that was interrupted.
\* Of a list of ports, clear counters promises the first only.
DoneAsPromised ==
  \A c \in CLIs : at[c] = "ok" =>
    /\ HandedOn(cmd[c]) \subseteq Ports \/ ~sure[c] \/ cmd[c].kind = "no-channel-group"
    /\ cmd[c].kind = "test-cable-diagnostics" => ~lossy[c] /\ HandedOn(cmd[c]) \subseteq Ports
    /\ ~lossy[c] /\ Alone(c) /\ HandedOn(cmd[c]) \subseteq Ports =>
         PromisePorts(cmd[c], config) /\ PromiseSwitch(cmd[c], config)
    /\ ~lossy[c] /\ Alone(c) /\ cmd[c].kind = "hostname" => hostname[c] = config.switch.name

\* What a command may touch: while its CLI works alone, at no moment, failing or not,
\* does it change what it was not told to change.
Owner(x) ==
  CASE x \in {"igmp", "suppression"} -> "igmp-snooping" [] x = "loop" -> "spanning-tree"
    [] x = "led" -> "led" [] x = "qos" -> "qos-mode" [] x = "name" -> "hostname"

Kept(m, s, t) ==
  /\ m.kind \notin {"monitor-source", "monitor-destination", "no-monitor"} => t.mirror = s.mirror
  /\ m.kind \in {"monitor-source", "monitor-destination"} =>
       s.mirror.rx \subseteq t.mirror.rx /\ s.mirror.tx \subseteq t.mirror.tx
  /\ m.kind = "monitor-source" /\ s.mirror.dest # 0 => t.mirror.dest = s.mirror.dest
  /\ m.kind = "channel-group" => \A g \in Groups : s.group[g] \subseteq t.group[g]
  /\ m.kind = "no-channel-group" => s.group[m.group] \ t.group[m.group] \subseteq m.ports
  /\ m.kind = "bandwidth" =>
       IF m.dir = "ingress" THEN t.egress = s.egress ELSE t.ingress = s.ingress
  /\ m.kind # "mtu-vlan" => t.uplink = s.uplink
  /\ m.kind = "mtu-vlan" /\ "port" \notin DOMAIN m => t.uplink.port = s.uplink.port
  /\ m.kind = "ip-address" => t.ip.gateway = s.ip.gateway
  /\ m.kind = "ip-default-gateway" => t.ip.ip = s.ip.ip
  /\ m.kind \notin {"ip-address", "ip-address-dhcp", "ip-default-gateway", "no-ip-address-dhcp"} =>
       t.ip = s.ip
  /\ \A p \in Ports :
       /\ m.kind \notin {"shutdown", "no-shutdown"} => t.port[p].state = s.port[p].state
       /\ m.kind # "speed" => t.port[p].speed = s.port[p].speed
       /\ m.kind # "flowcontrol" => t.port[p].flowcontrol = s.port[p].flowcontrol
  /\ m.kind # "port-vlan-mode" => t.pvlan.on = s.pvlan.on
  /\ \A v \in Vids : t.pvlan.members[v] # s.pvlan.members[v] =>
       m.kind \in {"port-vlan", "no-port-vlan"} /\ m.vid = v
  /\ \A x \in DOMAIN s.switch : t.switch[x] # s.switch[x] => m.kind = Owner(x)

OthersKept ==
  [][\A c \in CLIs :
       todo'[c] # todo[c] /\ todo[c] # <<>> /\ Alone(c) => Kept(cmd[c], config, config')]_vars

\* However many CLIs are at work on stale readings, a command's requests stay with
\* its interfaces and its group, those of clear counters with the first port of its list.
OfPort(s, p) ==
  <<s.port[p], s.priority[p], s.storm[p], s.ingress[p], s.egress[p], p \in s.cleared>>

Selection(m) ==
  CASE m.kind \in {"shutdown", "no-shutdown", "speed", "flowcontrol", "qos-port-priority",
                   "storm-control", "no-storm-control", "bandwidth", "no-bandwidth"} -> m.ports
    [] m.kind = "clear-counters" -> IF m.ports = {} THEN Ports ELSE First(m.ports)
    [] OTHER -> {}

WithinSelection ==
  [][\A c \in CLIs : todo'[c] # todo[c] /\ todo[c] # <<>> =>
       /\ \A p \in Ports : OfPort(config', p) # OfPort(config, p) => p \in Selection(cmd[c])
       /\ \A g \in Groups :
            config'.group[g] # config.group[g] =>
              cmd[c].kind \in {"channel-group", "no-channel-group"} /\ cmd[c].group = g]_vars

\* A command that hands on a port the switch lacks is refused before it changes anything,
\* also where its setter sends several requests, provided its Client knew the port count;
\* bandwidth changes the interfaces up to that port, and leaving a group has no need
\* of the port.
RefusedWhole ==
  [][\A c \in CLIs :
       todo'[c] # todo[c] /\ todo[c] # <<>> /\ ~(HandedOn(cmd[c]) \subseteq Ports) =>
         \/ ~sure[c] \/ ValidatesEach(cmd[c]) \/ cmd[c].kind = "no-channel-group"
         \/ config' = config]_vars
=============================================================================
