----------------------------- MODULE BackupDiff -----------------------------
(***************************************************************************)
(* Decoding a backup and comparing two (src/tplink/backup_decode.go), with *)
(* the offsets of the code, and the ranges backup_structure.go documents.  *)
(* A decoded field is taken for what the report prints of it; what is said *)
(* about the credential block beside its changed bytes is left out.        *)
(***************************************************************************)
EXTENDS BackupRuns

Magic       == <<35, 137, 35, 137>>   \* 0x23892389
SwitchPorts == 1..8
StormSlots  == 0..3     \* broadcast, multicast, unknown unicast, all
NameLength  == 32       \* of the host name and of the VLAN name

(* Where the fields are. *)

CredentialBlob     == Run(44, 32)
PasswordSlot       == Run(73, 8)
StormAt(p, slot)   == 93 + 16 * (p - 1) + 4 * slot
MirrorDestination  == 222
MatrixAt(p)        == 412 + 4 * (p - 1)
PortVLANModeA      == 1012
PortVLANModeB      == 1013
PortIDAt(p)        == 1048 + p - 1
VLANNameAt         == 1190
PriorityAt(p)      == 2020 + 7 * (p - 1)
LoopPreventionFlag == 2097
LoopPreventionMode == 2107
IGMPFlag           == 2110
IGMPReportSuppFlag == 2111
QoSModeSigA        == 2119
QoSModeSigB        == 2123
QoSModeSigC        == 2131
LEDFlag            == 2248

Bytes(data, S) == [i \in S |-> ByteAt(data, i)]

\* readCString: up to the first NUL, without the blanks around it.
Blanks == {32} \cup 9..13

CString(data, offset) ==
  LET raw  == [k \in 1..NameLength |-> ByteAt(data, offset + k - 1)]
      ends == {k \in 1..NameLength : raw[k] = 0}
      first == CHOOSE k \in ends : \A j \in ends : k <= j
      text == IF ends = {} THEN raw ELSE SubSeq(raw, 1, first - 1)
      ink  == {k \in DOMAIN text : text[k] \notin Blanks}
  IN  IF ink = {} THEN <<>>
      ELSE SubSeq(text, CHOOSE k \in ink : \A j \in ink : k <= j, Longest(ink))
-----------------------------------------------------------------------------
(* The fields, each a tuple or a function of offsets.  A field that the file is too *)
(* short for, or whose value means nothing, is "unknown".                          *)

Unknown == <<>>

Decoded(data, last, state) == IF InRange(data, last) THEN state ELSE Unknown

Enabled(data, at) == Decoded(data, at, <<ByteAt(data, at) # 0>>)

\* decodeMirrorDestinationValue and mirrorDestinationState: which value it is that
\* is not recognised is not said.
Mirror(data) ==
  LET raw == ByteAt(data, MirrorDestination) IN IF raw <= 8 THEN <<raw>> ELSE <<"unknown", "raw">>

\* decodeQoSPortPriorityValue
Recognised(raw) == raw \in {0, 2, 4, 6}

Priority(data) ==
  Decoded(data, PriorityAt(1), IF Recognised(ByteAt(data, PriorityAt(1)))
                                 THEN <<ByteAt(data, PriorityAt(1)) \div 2 + 1>> ELSE Unknown)

Priorities(data) ==
  Decoded(data, PriorityAt(8), IF \A p \in SwitchPorts : Recognised(ByteAt(data, PriorityAt(p)))
                                 THEN Bytes(data, {PriorityAt(p) : p \in SwitchPorts}) ELSE Unknown)

\* The signatures stand for a mode, or are printed as they are.
PortVLANMode(data) == Bytes(data, {PortVLANModeA, PortVLANModeB})
QoSMode(data) ==
  Decoded(data, QoSModeSigC, Bytes(data, {QoSModeSigA, QoSModeSigB, QoSModeSigC}))

Fields ==
  ({"Hostname", "IP", "Netmask", "Gateway", "DHCP", "Mirror-destination",
    "Port-VLAN-mode", "Port-VLAN-members", "Port-VLAN-IDs", "QoS-mode", "QoS-priorities",
    "QoS-gi1-priority", "Spanning-tree", "IGMP", "IGMP-report-suppression", "LED",
    "VLAN-name"} \X {0} \X {0})
  \cup ({"Storm"} \X SwitchPorts \X StormSlots)

FlagAt(name) ==
  CASE name = "Spanning-tree" -> LoopPreventionFlag [] name = "IGMP" -> IGMPFlag
    [] name = "IGMP-report-suppression" -> IGMPReportSuppFlag [] name = "LED" -> LEDFlag

State(data, field) ==
  LET name == field[1] IN
  CASE name = "Hostname"           -> CString(data, 23)
    [] name = "IP"                 -> Bytes(data, 5..8)
    [] name = "Netmask"            -> Bytes(data, 9..12)
    [] name = "Gateway"            -> Bytes(data, 13..16)
    [] name = "DHCP"               -> <<ByteAt(data, 16) # 0>>
    [] name = "Mirror-destination" -> Mirror(data)
    [] name = "Port-VLAN-mode"     -> PortVLANMode(data)
    [] name = "Port-VLAN-members"  -> Bytes(data, {MatrixAt(1)})
    [] name = "Port-VLAN-IDs"      -> Bytes(data, {PortIDAt(p) : p \in SwitchPorts})
    [] name = "QoS-mode"           -> QoSMode(data)
    [] name = "QoS-priorities"     -> Priorities(data)
    [] name = "QoS-gi1-priority"   -> Priority(data)
    [] name = "VLAN-name"          -> CString(data, VLANNameAt)
    [] name = "Storm"              -> Bytes(data, {StormAt(field[2], field[3])})
    [] OTHER                       -> Enabled(data, FlagAt(name))

DecodeFails(data) ==
  data.size < VLANNameAt + NameLength \/ [k \in 1..4 |-> ByteAt(data, k - 1)] # Magic

DecodeBackupConfig(data) == [f \in Fields |-> State(data, f)]
-----------------------------------------------------------------------------
(* The password slot                                                       *)

Key == <<92, 116, 106, 4, 125, 190, 176, 178>>

Bit(n, weight) == (n \div weight) % 2

Xor(a, b) ==
  LET At(weight) == weight * ((Bit(a, weight) + Bit(b, weight)) % 2)
  IN  At(1) + At(2) + At(4) + At(8) + At(16) + At(32) + At(64) + At(128)

\* [A-Za-z0-9_]
PasswordCharacters == (48..57) \cup (65..90) \cup {95} \cup (97..122)

\* recoverObfuscatedPassword: <<>> for a slot that decodes to no password.
RecoveredPassword(data) ==
  LET decoded == [k \in 1..8 |-> Xor(ByteAt(data, PasswordSlot.offset + k - 1), Key[k])]
      length  == Longest({0} \cup {k \in 1..8 : decoded[k] # 0})
      trimmed == SubSeq(decoded, 1, length)
  IN  IF length >= 6 /\ ToSet(trimmed) \subseteq PasswordCharacters THEN trimmed ELSE <<>>

RegionDiffBytes(base, candidate, run) ==
  Cardinality({i \in Offset(run) : Differs(base, candidate, i)})

\* Bug shape for PasswordChange: the bytes are compared only when neither slot
\* holds a password.
PasswordChangeIfNone(base, candidate) ==
  LET old == RecoveredPassword(base)
      new == RecoveredPassword(candidate)
  IN  IF old # <<>> \/ new # <<>> THEN old # new /\ old # <<>> /\ new # <<>>
                                  ELSE RegionDiffBytes(base, candidate, PasswordSlot) > 0

PasswordChange(base, candidate) ==
  LET old == RecoveredPassword(base)
      new == RecoveredPassword(candidate)
  IN  IF old # <<>> /\ new # <<>> THEN old # new
                                  ELSE RegionDiffBytes(base, candidate, PasswordSlot) > 0
-----------------------------------------------------------------------------
(* CompareBackupConfigs                                                    *)

CompareBackupConfigs(base, candidate) ==
  LET compared == IF base.size < candidate.size THEN base.size ELSE candidate.size
      changed  == {i \in 0..(compared - 1) : ByteAt(base, i) # ByteAt(candidate, i)}
      extra    == base.size + candidate.size - 2 * compared
  IN  [runs       |-> RunsOf(changed) \o IF extra = 0 THEN <<>> ELSE <<Run(compared, extra)>>,
       changed    |-> Cardinality(changed) + extra,
       fields     |-> {f \in Fields : State(base, f) # State(candidate, f)},
       password   |-> PasswordChange(base, candidate),
       credential |-> RegionDiffBytes(base, candidate, CredentialBlob)]
-----------------------------------------------------------------------------
(* knownBackupStructureRanges: where each field is documented to be.        *)

One(at) == {Run(at, 1)}

KnownRanges(field) ==
  LET name == field[1] IN
  CASE name = "Hostname"           -> {Run(23, NameLength)}
    [] name = "IP"                 -> {Run(5, 4)}
    [] name = "Netmask"            -> {Run(9, 4)}
    [] name = "Gateway"            -> {Run(13, 4)}
    [] name = "DHCP"               -> One(16)
    [] name = "Mirror-destination" -> One(MirrorDestination)
    [] name = "Port-VLAN-mode"     -> One(PortVLANModeA) \cup One(PortVLANModeB)
    [] name = "Port-VLAN-members"  -> {Run(MatrixAt(p), 1) : p \in SwitchPorts}
    [] name = "Port-VLAN-IDs"      -> {Run(PortIDAt(p), 1) : p \in SwitchPorts}
    [] name = "QoS-mode"           -> One(QoSModeSigA) \cup One(QoSModeSigB) \cup One(QoSModeSigC)
    [] name = "QoS-priorities"     -> {Run(PriorityAt(p), 1) : p \in SwitchPorts}
    [] name = "QoS-gi1-priority"   -> One(PriorityAt(1))
    [] name = "Spanning-tree"      -> One(LoopPreventionFlag) \cup One(LoopPreventionMode)
    [] name = "IGMP"               -> One(IGMPFlag)
    [] name = "IGMP-report-suppression" -> One(IGMPReportSuppFlag)
    [] name = "LED"                -> One(LEDFlag)
    [] name = "VLAN-name"          -> {Run(VLANNameAt, NameLength)}
    [] name = "Storm"              -> One(StormAt(field[2], field[3]))

KnownOffsets(field) == UNION {Offset(run) : run \in KnownRanges(field)}

KnownBackupStructureRanges ==
  {Run(0, 4), CredentialBlob, PasswordSlot} \cup UNION {KnownRanges(f) : f \in Fields}
=============================================================================
