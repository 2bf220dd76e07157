------------------------------ MODULE Dot1QVlan ------------------------------
(***************************************************************************)
(* The 802.1Q commands of the CLI (src/tplink/cli.go) over the SDK's       *)
(* read-all, write-one-VLAN interface (src/tplink/vlan_qos.go).            *)
(*                                                                         *)
(* A command reads the VLAN table once, switching 802.1Q on first if need  *)
(* be, and derives a list of writes from that reading alone; each write    *)
(* replaces the membership of one VLAN, or sets PVIDs.  Several CLIs may   *)
(* be at work on the switch, and a write may fail or vanish unnoticed      *)
(* (ClientSession says how).  VLAN names and output are left out.          *)
(***************************************************************************)
EXTENDS Naturals, FiniteSets, Sequences, SequencesExt

CONSTANTS CLIs,         \* CLI processes, each with its own Client
          Ports,        \* ports of the switch
          Vids,         \* VLAN IDs in use, the default VLAN 1 among them
          Requests,     \* commands a behaviour may issue
          MaxCommands   \* bound: commands issued in one behaviour

VARIABLES
  enabled,   \* 802.1Q is on
  table,     \* the switch's VLAN table: [vids, tagged, untagged]
  pvid,      \* the switch's PVID of each port
  pc,        \* per CLI: "idle", "read", "enable", "reread", "write"
  request,   \* per CLI: the command in progress, or the last one
  seen,      \* per CLI: the VLAN table it read for that command
  todo,      \* per CLI: writes still to send
  outcome,   \* per CLI: "none", "ok" or "error" for that command
  lossy,     \* some write was lost and taken for success
  issued     \* commands issued so far

switch == <<enabled, table, pvid>>
cli    == <<pc, request, seen, todo, outcome>>
vars   == <<switch, cli, lossy, issued>>

\* A command: ports is c.ifPorts and vids the parsed VLAN list, both ascending.
\* "access" and "trunk" are switchport sub-commands, "name" is config-vlan's.
Kinds == {"access", "trunk_add", "trunk_remove", "pvid", "no_vlan", "name"}
RequestType == [kind : Kinds, ports : Seq(Ports \cap 1..8), vids : Seq(Vids)]

\* No command is accepted without a VLAN, no switchport command without interfaces.
ASSUME ConstantsAssumption ==
  /\ Ports \subseteq 1..32 /\ Vids \subseteq 1..4094 /\ 1 \in Vids
  /\ MaxCommands \in Nat
  /\ Requests \subseteq RequestType
  /\ \A r \in Requests : r.vids # <<>> /\ (r.kind \notin {"no_vlan", "name"} => r.ports # <<>>)

NoRequest == [kind |-> "pvid", ports |-> <<>>, vids |-> <<>>]

Tables == [vids : SUBSET Vids, tagged : [Vids -> SUBSET Ports],
           untagged : [Vids -> SUBSET Ports]]

EmptyTable == [vids     |-> {}, tagged |-> [v \in Vids |-> {}],
               untagged |-> [v \in Vids |-> {}]]

FactoryTable == [EmptyTable EXCEPT !.vids = {1}, !.untagged[1] = Ports]
-----------------------------------------------------------------------------
(* Writes, and the lists of them each command derives from its reading     *)

SetVlan(v, t, u) == [kind |-> "vlan", vid |-> v, tagged |-> t, untagged |-> u]
SetPvid(P, v)    == [kind |-> "pvid", vid |-> v, tagged |-> {}, untagged |-> P]
DeleteVlan(v)    == [kind |-> "delete", vid |-> v, tagged |-> {}, untagged |-> {}]

WriteType == [kind : {"vlan", "pvid", "delete"}, vid : Vids,
              tagged : SUBSET Ports, untagged : SUBSET Ports]

Ascending(S) == [i \in 1..Cardinality(S) |-> CHOOSE v \in S : Cardinality({w \in S : w < v}) = i - 1]

\* BitsToPorts is asked for eight ports, however many the switch has: members above
\* them are not in the lists a command starts from.
BitsToPorts(s) ==
  [s EXCEPT !.tagged   = [v \in Vids |-> @[v] \cap 1..8],
            !.untagged = [v \in Vids |-> @[v] \cap 1..8]]

\* AddDot1QVLAN refuses a port that is to be both tagged and untagged.
Overlaps(w) == w.tagged \cap w.untagged # {}

\* Bug shape for JoinAsAccess: the VLAN's other members are forgotten.
JoinAsAccessAlone(s, p, v) == SetVlan(v, s.tagged[v] \ {p}, {p})

JoinAsAccess(s, p, v) ==
  SetVlan(v, s.tagged[v] \ {p}, s.untagged[v] \cup {p})

LeaveOthers(s, p, v) ==
  LET others == {w \in s.vids \ {v} : p \in s.untagged[w]}
  IN  [i \in DOMAIN Ascending(others) |->
         LET w == Ascending(others)[i]
         IN  SetVlan(w, s.tagged[w], s.untagged[w] \ {p})]

\* Bug shape for AccessPort: the port joins the new VLAN before it leaves.
AccessPortJoinFirst(s, p, v) == <<JoinAsAccess(s, p, v)>> \o LeaveOthers(s, p, v)

AccessPort(s, p, v) == Append(LeaveOthers(s, p, v), JoinAsAccess(s, p, v))

AccessWrites(s, ps, v) ==
  FlattenSeq([i \in DOMAIN ps |-> AccessPort(s, ps[i], v)])
    \o <<SetPvid(ToSet(ps), v)>>

\* Bug shape for TrunkAdd: the ports stay untagged members too.
TrunkAddKeepUntagged(s, P, v) == SetVlan(v, s.tagged[v] \cup P, s.untagged[v])

\* Bug shape for TrunkRemove: the ports stay untagged members.
TrunkRemoveTagOnly(s, P, v) == SetVlan(v, s.tagged[v] \ P, s.untagged[v])

TrunkAdd(s, P, v)    == SetVlan(v, s.tagged[v] \cup P, s.untagged[v] \ P)
TrunkRemove(s, P, v) == SetVlan(v, s.tagged[v] \ P, s.untagged[v] \ P)

\* The VLANs of r.vids the reading lacks have empty members in it.
Writes(r, reading) ==
  LET P == ToSet(r.ports)
      s == BitsToPorts(reading)
  IN
  CASE r.kind = "access"       -> AccessWrites(s, r.ports, r.vids[1])
    [] r.kind = "trunk_add"    -> [i \in DOMAIN r.vids |-> TrunkAdd(s, P, r.vids[i])]
    [] r.kind = "trunk_remove" -> [i \in DOMAIN r.vids |-> TrunkRemove(s, P, r.vids[i])]
    [] r.kind = "pvid"         -> <<SetPvid(P, r.vids[1])>>
    [] r.kind = "no_vlan"      -> <<DeleteVlan(r.vids[1])>>
    [] r.kind = "name"         ->
         <<SetVlan(r.vids[1], s.tagged[r.vids[1]], s.untagged[r.vids[1]])>>

ReadsTable(r) == r.kind \notin {"pvid", "no_vlan"}
-----------------------------------------------------------------------------
(* The switch                                                              *)

\* The page lists VLANs only while 802.1Q is on.
Listed == IF enabled THEN table ELSE EmptyTable

\* qvlanSet.cgi replaces one VLAN's members, or deletes it unless it is the
\* default VLAN; vlanPvidSet.cgi sets the PVID of a port mask.
Perform(w) ==
  /\ table' =
       IF ~enabled THEN table ELSE
       CASE w.kind = "vlan" ->
              [table EXCEPT !.vids = @ \cup {w.vid}, !.tagged[w.vid] = w.tagged,
                            !.untagged[w.vid] = w.untagged]
         [] w.kind = "delete" /\ w.vid # 1 ->
              [table EXCEPT !.vids = @ \ {w.vid}, !.tagged[w.vid] = {},
                            !.untagged[w.vid] = {}]
         [] OTHER -> table
  /\ pvid' = IF enabled /\ w.kind = "pvid"
               THEN [p \in Ports |-> IF p \in w.untagged THEN w.vid ELSE pvid[p]]
               ELSE pvid
  /\ UNCHANGED enabled
-----------------------------------------------------------------------------
Init ==
  /\ enabled \in BOOLEAN
  /\ table = FactoryTable
  /\ pvid = [p \in Ports |-> 1]
  /\ pc = [a \in CLIs |-> "idle"]
  /\ request = [a \in CLIs |-> NoRequest]
  /\ seen = [a \in CLIs |-> EmptyTable]
  /\ todo = [a \in CLIs |-> <<>>]
  /\ outcome = [a \in CLIs |-> "none"]
  /\ lossy = FALSE
  /\ issued = 0

Issue(a, r) ==
  /\ pc[a] = "idle" /\ issued < MaxCommands
  /\ issued' = issued + 1
  /\ request' = [request EXCEPT ![a] = r]
  /\ outcome' = [outcome EXCEPT ![a] = "none"]
  /\ IF ReadsTable(r)
       THEN pc' = [pc EXCEPT ![a] = "read"] /\ UNCHANGED <<seen, todo>>
       ELSE /\ pc' = [pc EXCEPT ![a] = "write"]
            /\ todo' = [todo EXCEPT ![a] = Writes(r, EmptyTable)]
            /\ UNCHANGED seen
  /\ UNCHANGED <<switch, lossy>>

\* GetDot1QVLANS: the command goes on to write, or first switches 802.1Q on.
Read(a) ==
  /\ pc[a] \in {"read", "reread"}
  /\ IF enabled \/ pc[a] = "reread"
       THEN /\ pc' = [pc EXCEPT ![a] = "write"]
            /\ seen' = [seen EXCEPT ![a] = Listed]
            /\ todo' = [todo EXCEPT ![a] = Writes(request[a], Listed)]
       ELSE pc' = [pc EXCEPT ![a] = "enable"] /\ UNCHANGED <<seen, todo>>
  /\ UNCHANGED <<switch, request, outcome, lossy, issued>>

\* SetDot1QEnabled(true), performed or lost behind a dropped connection.
Enable(a) ==
  /\ pc[a] = "enable"
  /\ pc' = [pc EXCEPT ![a] = "reread"]
  /\ \/ enabled' = TRUE /\ UNCHANGED lossy
     \/ lossy' = TRUE /\ UNCHANGED enabled
  /\ UNCHANGED <<table, pvid, request, seen, todo, outcome, issued>>

\* Bug shape for LastWrite: the command goes on after its last write.
NoLastWrite(a) == todo[a] = <<>>

LastWrite(a) == Len(todo[a]) = 1

\* The next write has been answered, or its dropped connection passed over.
Advance(a) ==
  /\ todo' = [todo EXCEPT ![a] = Tail(@)]
  /\ IF LastWrite(a)
       THEN pc' = [pc EXCEPT ![a] = "idle"] /\ outcome' = [outcome EXCEPT ![a] = "ok"]
       ELSE UNCHANGED <<pc, outcome>>
  /\ UNCHANGED <<request, seen, issued>>

Write(a) ==
  /\ pc[a] = "write" /\ ~Overlaps(Head(todo[a]))
  /\ Perform(Head(todo[a]))
  /\ Advance(a)
  /\ UNCHANGED lossy

WriteLost(a) ==
  /\ pc[a] = "write" /\ ~Overlaps(Head(todo[a]))
  /\ Advance(a)
  /\ lossy' = TRUE
  /\ UNCHANGED switch

\* An error ends the command where it stands; a write that timed out may have
\* been performed all the same.
Fail(a) ==
  /\ pc[a] # "idle"
  /\ pc' = [pc EXCEPT ![a] = "idle"]
  /\ todo' = [todo EXCEPT ![a] = <<>>]
  /\ outcome' = [outcome EXCEPT ![a] = "error"]
  /\ \/ UNCHANGED switch
     \/ pc[a] = "enable" /\ enabled' = TRUE /\ UNCHANGED <<table, pvid>>
     \/ pc[a] = "write" /\ ~Overlaps(Head(todo[a])) /\ Perform(Head(todo[a]))
  /\ UNCHANGED <<request, seen, lossy, issued>>

Next ==
  \E a \in CLIs :
    \/ \E r \in Requests : Issue(a, r)
    \/ Read(a) \/ Enable(a) \/ Write(a) \/ WriteLost(a) \/ Fail(a)

Spec == Init /\ [][Next]_vars
-----------------------------------------------------------------------------
(* Properties                                                              *)

TypeOK ==
  /\ enabled \in BOOLEAN /\ table \in Tables /\ pvid \in [Ports -> Vids]
  /\ pc \in [CLIs -> {"idle", "read", "enable", "reread", "write"}]
  /\ \A a \in CLIs :
       /\ request[a].kind \in Kinds
       /\ seen[a] \in Tables
       /\ \A i \in DOMAIN todo[a] : todo[a][i] \in WriteType
       /\ pc[a] = "write" <=> todo[a] # <<>>
  /\ outcome \in [CLIs -> {"none", "ok", "error"}]
  /\ lossy \in BOOLEAN /\ issued \in 0..MaxCommands

\* No port is ever a tagged and an untagged member of one VLAN, and no write a
\* command derives from its reading, however stale by the time it is sent, is
\* turned down by AddDot1QVLAN's overlap check halfway through the command.
MembersDisjoint ==
  /\ \A v \in Vids : table.tagged[v] \cap table.untagged[v] = {}
  /\ \A a \in CLIs : \A i \in DOMAIN todo[a] : ~Overlaps(todo[a][i])

\* No other CLI has issued a command yet.
Alone(a) == \A b \in CLIs \ {a} : pc[b] = "idle" /\ outcome[b] = "none"

\* A switchport command changes its own interfaces only: no write of a command, be it the
\* last, or one that was performed although the command ends with an error, changes the
\* PVID or the VLANs of another port the CLI has a name for, as long as its CLI works
\* alone.  Ports above 8 of a larger switch only ever lose VLANs.
OtherPortsKept ==
  [][\A a \in CLIs : todo'[a] # todo[a] /\ todo[a] # <<>> /\ Alone(a) /\ ReadsTable(request[a]) =>
       \A p \in Ports \ ToSet(request[a].ports), v \in Vids :
         /\ pvid'[p] = pvid[p]
         /\ p \in table'.tagged[v] => p \in table.tagged[v]
         /\ p \in table'.untagged[v] => p \in table.untagged[v]
         /\ p \in table.tagged[v] /\ p <= 8 => p \in table'.tagged[v]
         /\ p \in table.untagged[v] /\ p <= 8 => p \in table'.untagged[v]]_vars

\* Moving ports one interface at a time never bridges two VLANs, not even while
\* the command runs or after it stopped on an error: a port is an untagged member
\* of at most one VLAN, unless a write was lost and taken for success,
\* or several CLIs have been at work.
NeverBridged ==
  \/ lossy \/ \A a \in CLIs : ~Alone(a)
  \/ \A p \in Ports : Cardinality({v \in Vids : p \in table.untagged[v]}) <= 1

\* The latest command of a CLI that works alone, done without a lost write.
Completed(a, kind) ==
  /\ pc[a] = "idle" /\ outcome[a] = "ok" /\ request[a].kind = kind
  /\ enabled /\ ~lossy /\ Alone(a)

InAccessVlan(p, v) ==
  /\ pvid[p] = v /\ p \notin table.tagged[v]
  /\ \A w \in Vids : p \in table.untagged[w] <=> w = v

\* What a switchport command of a CLI that works alone leaves behind.  "access vlan":
\* for the last of its interfaces the PVID, untagged membership of that VLAN and of no
\* other.  "trunk allowed vlan": every interface of the range is tagged in, or removed
\* from, every VLAN of the list, although one reading serves all the writes.
SwitchportDone ==
  \A a \in CLIs :
    /\ Completed(a, "access") => InAccessVlan(Last(request[a].ports), request[a].vids[1])
    /\ \A p \in ToSet(request[a].ports), v \in ToSet(request[a].vids) :
         /\ Completed(a, "trunk_add") => p \in table.tagged[v] /\ p \notin table.untagged[v]
         /\ Completed(a, "trunk_remove") => p \notin table.tagged[v] \cup table.untagged[v]

\* What "access vlan" leaves for its last interface, for every interface that
\* "interface range" selected.
AccessVlanSet ==
  \A a \in CLIs : Completed(a, "access") =>
    \A p \in ToSet(request[a].ports) : InAccessVlan(p, request[a].vids[1])

=============================================================================
