--------------------------- MODULE CliModes_proofs ---------------------------
(***************************************************************************)
(* Machine-checked proofs about CliModes: for all lines, abbreviations and *)
(* selections, modes nest as CliContext promises, a refused line and do    *)
(* leave no trace, and the requests of a script concern what it named last *)
(* as long as no word for interface or vlan is one for another command.    *)
(*                                                                         *)
(* The argument: whatever a line is, its outcome is one of a few kinds,    *)
(* and each kind has the properties.                                       *)
(***************************************************************************)
EXTENDS CliModes, SequenceTheorems, TLAPS

CliStates ==
  [mode : Modes, ifPorts : SUBSET SwitchPorts, vlanID : VIDs \cup {0}, renamed : BOOLEAN]

\* The fields a line may change.
InMode(s, m) == [s EXCEPT !.mode = m]

Renamed(s) == [s EXCEPT !.renamed = TRUE]

OnPorts(s, P) == [s EXCEPT !.ifPorts = P, !.mode = "config-if"]

OnVlan(s, v) == [s EXCEPT !.vlanID = v, !.mode = "config-vlan"]

\* The CLI stays where it is, and may have made a request of its mode.
Stays(s, o) == o.cli = s /\ o.request \in {NoRequest, RequestOf(s, s.mode)}

\* A hostname command took effect.
Renames(s, o) ==
  /\ s.mode = "config" /\ o.result = "ok" /\ o.request = RequestOf(s, "config")
  /\ o.cli = Renamed(s)

\* The CLI leaves one mode or all, or enters one.
Leaves(s, o) ==
  \/ o.cli = InMode(s, "exec")
  \/ s.mode \in {"config-if", "config-vlan"} /\ o.cli = InMode(s, "config")

EntersConfig(s, o) == s.mode = "exec" /\ o.cli = InMode(s, "config")

Selects(s, o, args) ==
  /\ s.mode = "config" /\ PortsIn(args) # {} /\ PortsIn(args) \subseteq SwitchPorts
  /\ o.cli = OnPorts(s, PortsIn(args))

SelectsVlan(s, o, args) ==
  /\ s.mode = "config" /\ NumberIn(args) \in VIDs
  /\ o.cli = OnVlan(s, NumberIn(args))

Moves(s, o) == o.result = "ok" /\ o.request = NoRequest

\* The kinds of outcomes of a command word cmd with arguments args.
Kind(s, o, cmd, args) ==
  \/ Stays(s, o)
  \/ Renames(s, o)
  \/ Moves(s, o) /\ (Leaves(s, o) \/ EntersConfig(s, o))
  \/ Moves(s, o) /\ cmd = "interface" /\ Selects(s, o, args)
  \/ Moves(s, o) /\ cmd = "vlan" /\ SelectsVlan(s, o, args)
-----------------------------------------------------------------------------
\* Refusals, acceptances without effect and requests stay.
LEMMA SimpleKinds ==
  ASSUME NEW s \in CliStates
  PROVE  /\ \A o \in Refused(s) \cup Unknown(s) \cup Done(s) : Stays(s, o)
         /\ \A mode \in Modes : \A o \in Requesting(s, mode) : Stays(s, o)
<1>1. \A o \in Refused(s) \cup Unknown(s) \cup Done(s) : Stays(s, o)
  BY DEF Refused, Unknown, Done, Outcome, Stays
<1>2. ASSUME NEW mode \in Modes, NEW o \in Requesting(s, mode) PROVE Stays(s, o)
  <2>1. CASE o \in Refused(s)
    BY <1>1, <2>1
  <2>2. CASE o \notin Refused(s)
    <3>1. s.mode = mode /\ \E r \in {"ok", "failed"} : o = Outcome(s, FALSE, r, RequestOf(s, mode))
      BY <1>2, <2>2 DEF Requesting
    <3>2. QED
      BY <3>1 DEF Outcome, Stays
  <2>3. QED
    BY <2>1, <2>2
<1>3. QED
  BY <1>1, <1>2

\* What becomes of a state is one.
LEMMA MovedTyped ==
  ASSUME NEW s \in CliStates
  PROVE  /\ \A m \in Modes : InMode(s, m) \in CliStates /\ InMode(s, m).mode = m
         /\ Renamed(s) \in CliStates /\ Renamed(s).mode = s.mode
         /\ \A P \in SUBSET SwitchPorts :
              /\ OnPorts(s, P) \in CliStates
              /\ OnPorts(s, P).mode = "config-if" /\ OnPorts(s, P).ifPorts = P
         /\ \A v \in VIDs :
              /\ OnVlan(s, v) \in CliStates
              /\ OnVlan(s, v).mode = "config-vlan" /\ OnVlan(s, v).vlanID = v
  BY DEF CliStates, Modes, InMode, Renamed, OnPorts, OnVlan

LEMMA HostnameKind ==
  ASSUME NEW s \in CliStates, NEW o \in Hostname(s)
  PROVE  Stays(s, o) \/ Renames(s, o)
<1>1. PICK q \in Requesting(s, "config") :
        o = IF q.result = "ok" THEN [q EXCEPT !.cli.renamed = TRUE] ELSE q
  BY DEF Hostname
<1>2. Stays(s, q)
  BY SimpleKinds DEF Modes
<1>3. CASE q.result = "ok"
  <2>1. s.mode = "config" /\ q = Outcome(s, FALSE, "ok", RequestOf(s, "config"))
    BY <1>3 DEF Requesting, Refused, Outcome
  <2>2. QED
    BY <1>1, <1>3, <2>1 DEF Outcome, Renames, Renamed
<1>4. CASE q.result # "ok"
  BY <1>1, <1>2, <1>4
<1>5. QED
  BY <1>3, <1>4

LEMMA ExitKind ==
  ASSUME NEW s \in CliStates, NEW o \in Exit(s)
  PROVE  Stays(s, o) \/ (Moves(s, o) /\ Leaves(s, o))
  BY DEF Exit, Done, Outcome, Stays, Moves, Leaves, InMode

LEMMA EnterKinds ==
  ASSUME NEW s \in CliStates, NEW args
  PROVE  /\ \A o \in Configure(s, args) : Stays(s, o) \/ (Moves(s, o) /\ EntersConfig(s, o))
         /\ \A o \in Interface(s, args) : Stays(s, o) \/ (Moves(s, o) /\ Selects(s, o, args))
         /\ \A o \in VLAN(s, args) : Stays(s, o) \/ (Moves(s, o) /\ SelectsVlan(s, o, args))
<1>1. \A o \in Configure(s, args) : Stays(s, o) \/ (Moves(s, o) /\ EntersConfig(s, o))
  BY SimpleKinds DEF Configure, Done, Outcome, Moves, EntersConfig, InMode
<1>2. \A o \in Interface(s, args) : Stays(s, o) \/ (Moves(s, o) /\ Selects(s, o, args))
  BY SimpleKinds DEF Interface, Done, Outcome, Moves, Selects, OnPorts
<1>3. \A o \in VLAN(s, args) : Stays(s, o) \/ (Moves(s, o) /\ SelectsVlan(s, o, args))
  BY SimpleKinds DEF VLAN, Done, Outcome, Moves, SelectsVlan, OnVlan
<1>4. QED
  BY <1>1, <1>2, <1>3

LEMMA RebootingKind ==
  ASSUME NEW s \in CliStates, NEW cmd, NEW o \in Rebooting(s, cmd)
  PROVE  Stays(s, o)
<1>1. CASE s.mode # "exec"
  BY <1>1, SimpleKinds DEF Rebooting
<1>2. CASE s.mode = "exec"
  <2>1. \/ o \in Done(s) \cup Refused(s)
        \/ \E quit \in BOOLEAN, r \in {"ok", "failed"} : o = Outcome(s, quit, r, RequestOf(s, "exec"))
    BY <1>2 DEF Rebooting
  <2>2. QED
    BY <1>2, <2>1, SimpleKinds DEF Outcome, Stays
<1>3. QED
  BY <1>1, <1>2

\* Every command has an outcome of one of the kinds.
LEMMA CommandKind ==
  ASSUME NEW s \in CliStates, NEW cmd, NEW args, NEW o \in Command(s, cmd, args)
  PROVE  Kind(s, o, cmd, args)
<1>1. CASE cmd \in {"exit", "quit", "end", "help", "show"}
  <2>1. CASE cmd = "exit"
    BY <2>1, ExitKind DEF Command, InterfaceCommands, Kind
  <2>2. CASE cmd = "quit"
    BY <2>2 DEF Command, InterfaceCommands, Outcome, Stays, Kind
  <2>3. CASE cmd = "end"
    BY <2>3 DEF Command, InterfaceCommands, Done, Outcome, Moves, Leaves, InMode, Kind
  <2>4. CASE cmd \in {"help", "show"}
    BY <2>4, SimpleKinds DEF Command, InterfaceCommands, Kind
  <2>5. QED
    BY <1>1, <2>1, <2>2, <2>3, <2>4
<1>2. CASE cmd \in {"configure", "interface", "vlan"}
  <2>1. CASE cmd = "configure"
    BY <2>1, EnterKinds DEF Command, InterfaceCommands, Kind
  <2>2. CASE cmd = "interface"
    BY <2>2, EnterKinds DEF Command, InterfaceCommands, Kind
  <2>3. CASE cmd = "vlan"
    BY <2>3, EnterKinds DEF Command, InterfaceCommands, Kind
  <2>4. QED
    BY <1>2, <2>1, <2>2, <2>3
<1>3. CASE cmd = "hostname"
  BY <1>3, HostnameKind DEF Command, InterfaceCommands, Kind
<1>4. CASE cmd = "qos"
  <2>1. o \in QoS(s, args)
    BY <1>4 DEF Command, InterfaceCommands
  <2>2. Stays(s, o)
    BY <2>1, SimpleKinds DEF QoS, Modes
  <2>3. QED
    BY <2>2 DEF Kind
<1>5. CASE cmd \in {"reload", "copy", "write", "erase"}
  <2>1. o \in Rebooting(s, cmd)
    BY <1>5 DEF Command, InterfaceCommands
  <2>2. QED
    BY <2>1, RebootingKind DEF Kind
<1>6. CASE cmd \notin {"exit", "quit", "end", "help", "show", "configure", "interface", "vlan",
                       "hostname", "qos", "reload", "copy", "write", "erase"}
  <2>1. \E mode \in Modes : o \in Requesting(s, mode)
    BY <1>6 DEF Command, InterfaceCommands, Modes
  <2>2. QED
    BY <2>1, SimpleKinds DEF Kind
<1>7. QED
  BY <1>1, <1>2, <1>3, <1>4, <1>5, <1>6
-----------------------------------------------------------------------------
\* A line is refused, or is a negated command, or a command that its first word means.
LEMMA PlainKind ==
  ASSUME NEW s \in CliStates, NEW words, NEW o \in Plain(s, words)
  PROVE  \/ Stays(s, o) /\ o.request = NoRequest /\ o.result # "ok"
         \/ Stays(s, o) /\ words[1] = "no"
         \/ /\ Resolves(words[1], Keywords(s.mode))
            /\ Kind(s, o, Resolve(words[1], Keywords(s.mode)), Tail(words))
<1>1. ASSUME o \in Unknown(s) PROVE Stays(s, o) /\ o.request = NoRequest /\ o.result # "ok"
  BY <1>1 DEF Unknown, Outcome, Stays
<1>2. CASE words[1] = "no" /\ Len(words) > 1
  <2>1. o \in No(s, Tail(words))
    BY <1>2 DEF Plain
  <2>2. o \in Unknown(s) \/ \E mode \in Modes : o \in Requesting(s, mode)
    BY <2>1 DEF No, Modes
  <2>3. QED
    BY <1>1, <1>2, <2>2, SimpleKinds
<1>3. CASE ~(words[1] = "no" /\ Len(words) > 1)
  BY <1>1, <1>3, CommandKind DEF Plain
<1>4. QED
  BY <1>2, <1>3

\* In exec mode, where do takes its command, nothing but the mode can change.
LEMMA DoKind ==
  ASSUME NEW s \in CliStates, NEW words, IsDo(words), NEW o \in ExecLine(s, words)
  PROVE  o.cli = s /\ o.request \in {NoRequest, RequestOf(s, "exec")}
<1> DEFINE t == [s EXCEPT !.mode = "exec"]
<1>1. t \in CliStates /\ t.mode = "exec" /\ RequestOf(t, "exec") = RequestOf(s, "exec")
  BY DEF CliStates, Modes, RequestOf
<1>2. PICK q \in Plain(t, AfterDo(words)) : o = Restore(q, s.mode)
  BY DEF ExecLine
<1>3. \/ Stays(t, q)
      \/ Moves(t, q) /\ (Leaves(t, q) \/ EntersConfig(t, q))
  <2> HIDE DEF t
  <2>1. \/ Stays(t, q)
        \/ Kind(t, q, Resolve(AfterDo(words)[1], Keywords(t.mode)), Tail(AfterDo(words)))
    BY <1>1, <1>2, PlainKind
  <2>2. QED
    BY <1>1, <2>1 DEF Kind, Renames, Selects, SelectsVlan
<1>4. q.request \in {NoRequest, RequestOf(s, "exec")}
  BY <1>1, <1>3 DEF Stays, Moves
<1>5. \E m \in Modes : q.cli = [s EXCEPT !.mode = m]
  BY <1>1, <1>3 DEF Stays, Leaves, EntersConfig, InMode, Modes, CliStates
<1>6. o.cli = [q.cli EXCEPT !.mode = s.mode] /\ o.request = q.request
  BY <1>2 DEF Restore, Outcome
<1>7. QED
  BY <1>4, <1>5, <1>6 DEF CliStates
-----------------------------------------------------------------------------
\* Where a CLI can be.
Placed(s) ==
  /\ s \in CliStates
  /\ s.mode = "config-if" => s.ifPorts # {}
  /\ s.mode = "config-vlan" => s.vlanID # 0

\* A command that moves the CLI leaves it well placed; none is refused with an effect.
LEMMA KindPlaces ==
  ASSUME NEW s, Placed(s), NEW o, NEW cmd, NEW args, Kind(s, o, cmd, args)
  PROVE  /\ Placed(o.cli) /\ o.request \in {NoRequest, RequestOf(s, s.mode)}
         /\ o.result # "ok" => o.cli = s
<1>1. s \in CliStates /\ s.mode \in Modes
  BY DEF Placed, CliStates
<1>2. CASE Stays(s, o)
  BY <1>2 DEF Stays
<1>3. CASE Renames(s, o)
  BY <1>1, <1>3, MovedTyped DEF Renames, Placed
<1>4. CASE Moves(s, o) /\ (Leaves(s, o) \/ EntersConfig(s, o))
  <2>1. \E m \in {"exec", "config"} : o.cli = InMode(s, m)
    BY <1>4 DEF Leaves, EntersConfig
  <2>2. o.cli \in CliStates /\ o.cli.mode \in {"exec", "config"}
    BY <1>1, <2>1, MovedTyped DEF Modes
  <2>3. QED
    BY <1>4, <2>2 DEF Placed, Moves
<1>5. CASE Moves(s, o) /\ Selects(s, o, args)
  <2>1. /\ PortsIn(args) \in SUBSET SwitchPorts /\ PortsIn(args) # {}
        /\ o.cli = OnPorts(s, PortsIn(args))
    BY <1>5 DEF Selects
  <2>2. o.cli \in CliStates /\ o.cli.mode = "config-if" /\ o.cli.ifPorts = PortsIn(args)
    <3>1. PICK P \in SUBSET SwitchPorts : P = PortsIn(args) /\ o.cli = OnPorts(s, P)
      BY <2>1
    <3>2. OnPorts(s, P) \in CliStates /\ OnPorts(s, P).mode = "config-if" /\ OnPorts(s, P).ifPorts = P
      BY <1>1, MovedTyped
    <3>3. QED
      BY <3>1, <3>2
  <2>3. QED
    BY <1>5, <2>1, <2>2 DEF Placed, Moves
<1>6. CASE Moves(s, o) /\ SelectsVlan(s, o, args)
  <2>1. NumberIn(args) \in VIDs /\ o.cli = OnVlan(s, NumberIn(args))
    BY <1>6 DEF SelectsVlan
  <2>2. o.cli \in CliStates /\ o.cli.mode = "config-vlan" /\ o.cli.vlanID = NumberIn(args)
    <3>1. PICK v \in VIDs : v = NumberIn(args) /\ o.cli = OnVlan(s, v)
      BY <2>1
    <3>2. OnVlan(s, v) \in CliStates /\ OnVlan(s, v).mode = "config-vlan" /\ OnVlan(s, v).vlanID = v
      BY <1>1, MovedTyped, ZenonT(60)
    <3>3. QED
      BY <3>1, <3>2
  <2>3. \A v \in VIDs : v # 0
    BY DEF VIDs
  <2>4. QED
    BY <1>6, <2>1, <2>2, <2>3 DEF Placed, Moves
<1>7. QED
  BY <1>2, <1>3, <1>4, <1>5, <1>6 DEF Kind

\* The same of any line.
LEMMA LinePlaces ==
  ASSUME NEW s, Placed(s), NEW words, NEW o \in ExecLine(s, words)
  PROVE  /\ Placed(o.cli) /\ o.request \in Requests
         /\ o.result # "ok" => o.cli = s
         /\ IsDo(words) => o.cli = s
<1>1. s \in CliStates /\ s.mode \in Modes
  BY DEF Placed, CliStates
<1>2. NoRequest \in Requests /\ \A m \in Modes : RequestOf(s, m) \in Requests
  BY <1>1 DEF NoRequest, Requests, RequestOf, CliStates, Modes
<1>3. CASE IsDo(words)
  BY <1>1, <1>2, <1>3, DoKind DEF Modes
<1>4. CASE ~IsDo(words)
  <2>1. o \in Plain(s, words)
    BY <1>4 DEF ExecLine
  <2>2. \E cmd, args : Kind(s, o, cmd, args)
    BY <1>1, <2>1, PlainKind DEF Kind
  <2>3. QED
    BY <1>1, <1>2, <1>4, <2>2, KindPlaces
<1>5. QED
  BY <1>3, <1>4

PlaceInv ==
  /\ Placed(cli) /\ last.request \in Requests
  /\ script \in BOOLEAN /\ ended \in BOOLEAN /\ typed \in 0..MaxLines

LEMMA PlaceInvInit == Init => PlaceInv
<1> SUFFICES ASSUME Init PROVE PlaceInv
  OBVIOUS
<1>1. Placed(cli)
  BY DEF Init, Placed, CliStates, Modes
<1>2. last.request \in Requests
  BY DEF Init, NoRequest, Requests
<1>3. script \in BOOLEAN /\ ended \in BOOLEAN
  BY Zenon DEF Init
<1>4. typed \in 0..MaxLines
  BY ConstantsAssumption DEF Init
<1>5. QED
  BY <1>1, <1>2, <1>3, <1>4 DEF PlaceInv

LEMMA PlaceInvStep == PlaceInv /\ [Next]_vars => PlaceInv'
<1> SUFFICES ASSUME PlaceInv, [Next]_vars PROVE PlaceInv'
  OBVIOUS
<1>1. ASSUME NEW l \in Lines, TypeLine(l) PROVE PlaceInv'
  <2>1. PICK o \in ExecLine(cli, l) :
          cli' = o.cli /\ ended' = EndsSession(o) /\ last'.request = o.request
    BY <1>1 DEF TypeLine
  <2>2. Placed(cli') /\ last'.request \in Requests
    BY <2>1, LinePlaces DEF PlaceInv
  <2>3. ended' \in BOOLEAN /\ script' \in BOOLEAN
    BY <1>1, <2>1, Zenon DEF EndsSession, TypeLine, PlaceInv
  <2>4. typed' \in 0..MaxLines
    BY <1>1, ConstantsAssumption DEF TypeLine, PlaceInv
  <2>5. QED
    BY <2>2, <2>3, <2>4 DEF PlaceInv
<1>2. CASE EndOfInput
  BY <1>2 DEF EndOfInput, PlaceInv
<1>3. CASE UNCHANGED vars
  BY <1>3 DEF vars, PlaceInv
<1>4. QED
  BY <1>1, <1>2, <1>3 DEF Next

LEMMA PlaceInvHolds == Spec => []PlaceInv
<1>1. PlaceInv /\ [Next]_vars => PlaceInv'
  BY PlaceInvStep
<1>2. QED
  BY <1>1, PlaceInvInit, PTL DEF Spec

\* The type invariant: a selection is there in the modes that act on one (cli.go).
THEOREM ModesTyped == Spec => []TypeOK
<1>1. PlaceInv => TypeOK
  BY DEF PlaceInv, Placed, CliStates, TypeOK
<1>2. QED
  BY <1>1, PlaceInvHolds, PTL

\* Whatever the lines and abbreviations, a line that is not accepted leaves mode,
\* selection and prompt as they were (execLine and the commands).
THEOREM RefusalsLeaveNoTrace == Spec => RefusedLeavesPlace
<1>1. PlaceInv /\ [Next]_vars => [typed' # typed /\ last'.result # "ok" => cli' = cli]_vars
  <2> SUFFICES ASSUME PlaceInv, Next, typed' # typed, last'.result # "ok" PROVE cli' = cli
    OBVIOUS
  <2>1. PICK l \in Lines : TypeLine(l)
    BY DEF Next, EndOfInput
  <2>2. PICK o \in ExecLine(cli, l) : cli' = o.cli /\ last'.result = o.result
    BY <2>1 DEF TypeLine
  <2>3. QED
    BY <2>2, LinePlaces DEF PlaceInv
<1>2. QED
  BY <1>1, PlaceInvHolds, PTL DEF Spec, RefusedLeavesPlace

\* Whatever follows it, do comes back to where it was given (execDo).
THEOREM DoComesBack == Spec => DoKeepsPlace
<1>1. PlaceInv /\ [Next]_vars => [typed' # typed /\ IsDo(last'.line) => cli' = cli]_vars
  <2> SUFFICES ASSUME PlaceInv, Next, typed' # typed, IsDo(last'.line) PROVE cli' = cli
    OBVIOUS
  <2>1. PICK l \in Lines : TypeLine(l)
    BY DEF Next, EndOfInput
  <2>2. PICK o \in ExecLine(cli, l) : cli' = o.cli /\ last'.line = l
    BY <2>1 DEF TypeLine
  <2>3. QED
    BY <2>2, LinePlaces DEF PlaceInv
<1>2. QED
  BY <1>1, PlaceInvHolds, PTL DEF Spec, DoKeepsPlace
-----------------------------------------------------------------------------
(* The contexts nest.                                                      *)

StackOf(s) ==
  CASE s.mode = "exec" -> <<>>
    [] s.mode = "config" -> <<[in |-> "config", ports |-> {}, vid |-> 0]>>
    [] s.mode = "config-if" ->
         <<[in |-> "config", ports |-> {}, vid |-> 0],
           [in |-> "config-if", ports |-> s.ifPorts, vid |-> 0]>>
    [] OTHER ->
         <<[in |-> "config", ports |-> {}, vid |-> 0],
           [in |-> "config-vlan", ports |-> {}, vid |-> s.vlanID]>>

MadeBy(request) == IF request.in \in {"none", "exec"} THEN <<>> ELSE <<request>>

LEMMA StackCases ==
  ASSUME NEW s \in CliStates
  PROVE  /\ s.mode = "exec" => StackOf(s) = <<>>
         /\ s.mode = "config" => StackOf(s) = <<Contexts!Global>>
         /\ s.mode = "config-if" =>
              StackOf(s) = <<Contexts!Global, [in |-> "config-if", ports |-> s.ifPorts, vid |-> 0]>>
         /\ s.mode = "config-vlan" =>
              StackOf(s) = <<Contexts!Global, [in |-> "config-vlan", ports |-> {}, vid |-> s.vlanID]>>
  BY DEF StackOf, Contexts!Global

\* The request of a mode is made in the innermost context.
LEMMA InnermostRequest ==
  ASSUME NEW s \in CliStates
  PROVE  LET stack == StackOf(s)
         IN  MadeBy(RequestOf(s, s.mode)) \in
               {<<>>} \cup IF stack = <<>> THEN {} ELSE {<<Contexts!Last(stack)>>}
<1>1. s.mode \in Modes
  BY DEF CliStates
<1>2. CASE s.mode = "exec"
  BY <1>2 DEF MadeBy, RequestOf, StackOf
<1>3. CASE s.mode = "config"
  BY <1>3 DEF MadeBy, RequestOf, StackOf, Contexts!Last
<1>4. CASE s.mode = "config-if"
  BY <1>4 DEF MadeBy, RequestOf, StackOf, Contexts!Last
<1>5. CASE s.mode = "config-vlan"
  BY <1>5 DEF MadeBy, RequestOf, StackOf, Contexts!Last
<1>6. QED
  BY <1>1, <1>2, <1>3, <1>4, <1>5 DEF Modes

LEMMA FrontOfTwo ==
  ASSUME NEW a, NEW c
  PROVE  <<a, c>> # <<>> /\ Contexts!Front(<<a, c>>) = <<a>>
<1>1. <<a, c>> \in Seq({a, c}) /\ Len(<<a, c>>) = 2 /\ <<a, c>>[1] = a
  OBVIOUS
<1>2. /\ SubSeq(<<a, c>>, 1, 1) \in Seq({a, c})
      /\ Len(SubSeq(<<a, c>>, 1, 1)) = 1 /\ SubSeq(<<a, c>>, 1, 1)[1] = a
  BY <1>1, SubSeqProperties
<1>3. <<a>> \in Seq({a, c}) /\ Len(<<a>>) = 1 /\ <<a>>[1] = a
  OBVIOUS
<1>4. \A i \in 1..1 : SubSeq(<<a, c>>, 1, 1)[i] = <<a>>[i]
  BY <1>2, <1>3
<1>5. SubSeq(<<a, c>>, 1, 1) = <<a>>
  BY <1>2, <1>3, <1>4, SeqEqual
<1>6. <<a, c>> # <<>>
  OBVIOUS
<1>7. QED
  BY <1>1, <1>5, <1>6 DEF Contexts!Front

\* From global configuration a selection is entered.
LEMMA SelectionEntered ==
  ASSUME cli \in CliStates, cli.mode = "config", Stack = StackOf(cli), Made' = <<>>,
         NEW c \in Contexts!Selections, Stack' = <<Contexts!Global, c>>
  PROVE  Contexts!Next
<1>1. Stack = <<Contexts!Global>>
  BY StackCases
<1>2. Len(Stack') = 2 /\ Head(Stack') = Contexts!Global /\ Contexts!Last(Stack') = c
  BY DEF Contexts!Last
<1>3. QED
  BY <1>1, <1>2 DEF Contexts!Next, Contexts!Enter

\* Each kind of outcome is a step of CliContext.
LEMMA KindNests ==
  ASSUME Placed(cli), NEW o, NEW cmd, NEW args, Kind(cli, o, cmd, args),
         Stack' = StackOf(o.cli), Made' = MadeBy(o.request)
  PROVE  Contexts!Next
<1>1. cli \in CliStates /\ cli.mode \in Modes /\ Stack = StackOf(cli)
  BY DEF Placed, CliStates, Stack, StackOf
<1>2. MadeBy(NoRequest) = <<>>
  BY DEF MadeBy, NoRequest
<1>3. CASE Stays(cli, o)
  <2>1. Stack' = Stack
    BY <1>1, <1>3 DEF Stays
  <2>2. Made' \in {<<>>} \cup IF Stack = <<>> THEN {} ELSE {<<Contexts!Last(Stack)>>}
    BY <1>1, <1>2, <1>3, InnermostRequest DEF Stays
  <2>3. QED
    BY <2>1, <2>2 DEF Contexts!Next, Contexts!Stay
<1>4. CASE Renames(cli, o)
  <2>1. Stack' = Stack
    BY <1>1, <1>4 DEF Renames, Renamed, StackOf, CliStates
  <2>2. Made' \in {<<>>} \cup IF Stack = <<>> THEN {} ELSE {<<Contexts!Last(Stack)>>}
    BY <1>1, <1>4, InnermostRequest DEF Renames
  <2>3. QED
    BY <2>1, <2>2 DEF Contexts!Next, Contexts!Stay
<1>5. CASE Moves(cli, o)
  <2>1. Made' = <<>>
    BY <1>2, <1>5 DEF Moves
  <2>2. CASE o.cli = InMode(cli, "exec")
    <3>1. Stack' = <<>>
      BY <1>1, <2>2, MovedTyped DEF StackOf, Modes
    <3>2. QED
      BY <2>1, <3>1 DEF Contexts!Next, Contexts!LeaveAll
  <2>3. CASE cli.mode \in {"config-if", "config-vlan"} /\ o.cli = InMode(cli, "config")
    <3>1. o.cli \in CliStates /\ o.cli.mode = "config"
      BY <1>1, <2>3, MovedTyped DEF Modes
    <3>2. Stack' = <<Contexts!Global>>
      BY <3>1, StackCases
    <3>3. \E c : Stack = <<Contexts!Global, c>>
      BY <1>1, <2>3, StackCases
    <3>4. Stack # <<>> /\ Contexts!Front(Stack) = <<Contexts!Global>>
      BY <3>3, FrontOfTwo
    <3>5. QED
      BY <2>1, <3>2, <3>4 DEF Contexts!Next, Contexts!Leave
  <2>4. CASE EntersConfig(cli, o)
    <3>1. o.cli \in CliStates /\ o.cli.mode = "config" /\ cli.mode = "exec"
      BY <1>1, <2>4, MovedTyped DEF EntersConfig, Modes
    <3>2. Stack = <<>> /\ Stack' = <<Contexts!Global>>
      BY <1>1, <3>1, StackCases
    <3>3. QED
      BY <2>1, <3>2 DEF Contexts!Next, Contexts!Enter
  <2>5. CASE Selects(cli, o, args)
    <3>1. PICK P \in SUBSET SwitchPorts : P # {} /\ o.cli = OnPorts(cli, P) /\ cli.mode = "config"
      BY <2>5 DEF Selects
    <3>2. /\ OnPorts(cli, P) \in CliStates /\ OnPorts(cli, P).mode = "config-if"
          /\ OnPorts(cli, P).ifPorts = P
      BY <1>1, MovedTyped
    <3>3. Stack' = <<Contexts!Global, [in |-> "config-if", ports |-> P, vid |-> 0]>>
      BY <3>1, <3>2, StackCases
    <3>4. [in |-> "config-if", ports |-> P, vid |-> 0] \in Contexts!Selections
      BY <3>1 DEF Contexts!Selections
    <3>5. QED
      BY <1>1, <2>1, <3>1, <3>3, <3>4, SelectionEntered
  <2>6. CASE SelectsVlan(cli, o, args)
    <3>1. PICK v \in VIDs : o.cli = OnVlan(cli, v) /\ cli.mode = "config"
      BY <2>6 DEF SelectsVlan
    <3>2. /\ OnVlan(cli, v) \in CliStates /\ OnVlan(cli, v).mode = "config-vlan"
          /\ OnVlan(cli, v).vlanID = v
      BY <1>1, MovedTyped
    <3>3. Stack' = <<Contexts!Global, [in |-> "config-vlan", ports |-> {}, vid |-> v]>>
      BY <3>1, <3>2, StackCases
    <3>4. [in |-> "config-vlan", ports |-> {}, vid |-> v] \in Contexts!Selections
      BY DEF Contexts!Selections
    <3>5. QED
      BY <1>1, <2>1, <3>1, <3>3, <3>4, SelectionEntered
  <2>7. Leaves(cli, o) \/ EntersConfig(cli, o) \/ Selects(cli, o, args) \/ SelectsVlan(cli, o, args)
        \/ Stays(cli, o) \/ Renames(cli, o)
    BY DEF Kind
  <2>8. QED
    BY <1>3, <1>4, <2>2, <2>3, <2>4, <2>5, <2>6, <2>7 DEF Leaves
<1>6. QED
  BY <1>3, <1>4, <1>5 DEF Kind

LEMMA LineNests ==
  ASSUME PlaceInv, NEW l \in Lines, TypeLine(l)
  PROVE  Contexts!Next
<1>1. PICK o \in ExecLine(cli, l) : cli' = o.cli /\ last'.request = o.request
  BY DEF TypeLine
<1>2. Stack' = StackOf(o.cli) /\ Made' = MadeBy(o.request)
  BY <1>1 DEF Stack, StackOf, Made, MadeBy
<1>3. cli \in CliStates
  BY DEF PlaceInv, Placed
<1>4. CASE IsDo(l)
  <2>1. Stack' = Stack
    BY <1>1, <1>3, <1>4, DoKind DEF Stack
  <2>2. Made' = <<>>
    BY <1>1, <1>2, <1>3, <1>4, DoKind DEF MadeBy, NoRequest, RequestOf
  <2>3. QED
    BY <2>1, <2>2 DEF Contexts!Next, Contexts!Stay
<1>5. CASE ~IsDo(l)
  <2>1. o \in Plain(cli, l)
    BY <1>5 DEF ExecLine
  <2>2. \E cmd, args : Kind(cli, o, cmd, args)
    BY <1>3, <2>1, PlainKind DEF Kind
  <2>3. QED
    BY <1>2, <2>2, KindNests DEF PlaceInv
<1>6. QED
  BY <1>4, <1>5

\* Modes nest and requests are made in the innermost one, for all lines, abbreviations
\* and selections (the mode machine of execLine).
THEOREM ModesNest == Spec => ImplementsCliContext
<1>1. Init => Contexts!Init
  BY DEF Init, Contexts!Init, Stack, Made, NoRequest
<1>2. PlaceInv /\ [Next]_vars => [Contexts!Next]_(Contexts!vars)
  <2> SUFFICES ASSUME PlaceInv, [Next]_vars PROVE [Contexts!Next]_(Contexts!vars)
    OBVIOUS
  <2>1. CASE \E l \in Lines : TypeLine(l)
    BY <2>1, LineNests
  <2>2. CASE EndOfInput \/ UNCHANGED vars
    BY <2>2 DEF EndOfInput, vars, Stack, Made, Contexts!vars
  <2>3. QED
    BY <2>1, <2>2 DEF Next
<1>3. QED
  BY <1>1, <1>2, PlaceInvHolds, PTL DEF Spec, ImplementsCliContext, Contexts!Spec
-----------------------------------------------------------------------------
(* A script acts on what it named last.                                    *)

ScriptInv ==
  script /\ ~ended =>
    /\ cli.mode = "config-if" => cli.ifPorts = named.ports
    /\ cli.mode = "config-vlan" => cli.vlanID = named.vid

\* A line that keeps to the mode of a selection names no other.
LEMMA KeepsName ==
  ASSUME NamesApart, NEW l \in Lines, NEW mode \in {"config-if", "config-vlan"},
         l[1] \in {"do", "no"} \/ Resolves(l[1], Keywords(mode))
  PROVE  AfterNaming(l) = [ports |-> named.ports, vid |-> named.vid]
<1>1. ASSUME NEW word \in {"interface", "vlan"}, Names(l, word) PROVE FALSE
  <2>1. word \in Meanings(l[1], {"interface", "vlan"})
    BY <1>1 DEF Names
  <2>2. l[1] \in {"interface", "vlan"} \cup DOMAIN Abbreviations
    BY <2>1 DEF Meanings
  <2>3. l[1] \notin {"do", "no"} /\ Meanings(l[1], Keywords(mode)) = {}
    BY <2>1, <2>2 DEF NamesApart
  <2>4. QED
    BY <2>3 DEF Resolves
<1>2. QED
  BY <1>1 DEF AfterNaming

\* The word of a command that selects names what it selects.
LEMMA SelectingNames ==
  ASSUME NEW l \in Lines, NEW word \in {"interface", "vlan"}, Resolves(l[1], Keywords("config")),
         Resolve(l[1], Keywords("config")) = word
  PROVE  Names(l, word)
<1>1. Meanings(l[1], Keywords("config")) = {word}
  BY DEF Resolves, Resolve
<1>2. {"interface", "vlan"} \subseteq Keywords("config")
  BY DEF Keywords
<1>3. word \in Meanings(l[1], {"interface", "vlan"})
  BY <1>1, <1>2 DEF Meanings
<1>4. l # <<>>
  BY ConstantsAssumption
<1>5. QED
  BY <1>3, <1>4, Zenon DEF Names

\* What a line of a script does to the CLI and asks of the switch.
LEMMA ScriptLine ==
  ASSUME NamesApart, PlaceInv, ScriptInv, NEW l \in Lines, NEW o \in ExecLine(cli, l),
         script, ~ended
  PROVE  /\ o.request.in = "config-if" => o.request.ports = AfterNaming(l).ports
         /\ o.request.in = "config-vlan" => o.request.vid = AfterNaming(l).vid
         /\ o.result = "ok" /\ o.cli.mode = "config-if" => o.cli.ifPorts = AfterNaming(l).ports
         /\ o.result = "ok" /\ o.cli.mode = "config-vlan" => o.cli.vlanID = AfterNaming(l).vid
<1> DEFINE Kept == AfterNaming(l) = [ports |-> named.ports, vid |-> named.vid]
<1> DEFINE Goal ==
      /\ o.request.in = "config-if" => o.request.ports = AfterNaming(l).ports
      /\ o.request.in = "config-vlan" => o.request.vid = AfterNaming(l).vid
      /\ o.result = "ok" /\ o.cli.mode = "config-if" => o.cli.ifPorts = AfterNaming(l).ports
      /\ o.result = "ok" /\ o.cli.mode = "config-vlan" => o.cli.vlanID = AfterNaming(l).vid
<1> SUFFICES Goal
  OBVIOUS
<1>1. cli \in CliStates /\ cli.mode \in Modes
  BY DEF PlaceInv, Placed, CliStates
<1>2. ASSUME Stays(cli, o), cli.mode \in {"exec", "config"} \/ Kept PROVE Goal
  BY <1>1, <1>2 DEF Stays, RequestOf, NoRequest, ScriptInv, Modes
<1>3. CASE IsDo(l)
  <2>1. o.cli = cli /\ o.request.in \in {"none", "exec"}
    BY <1>1, <1>3, DoKind DEF NoRequest, RequestOf
  <2>2. cli.mode \in {"config-if", "config-vlan"} => Kept
    BY <1>3, KeepsName DEF IsDo
  <2>3. QED
    BY <2>1, <2>2 DEF ScriptInv
<1>4. CASE ~IsDo(l)
  <2>1. \/ Stays(cli, o) /\ o.request = NoRequest /\ o.result # "ok"
        \/ Stays(cli, o) /\ l[1] = "no"
        \/ /\ Resolves(l[1], Keywords(cli.mode))
           /\ Kind(cli, o, Resolve(l[1], Keywords(cli.mode)), Tail(l))
    BY <1>1, <1>4, PlainKind DEF ExecLine
  <2>2. CASE o.request = NoRequest /\ o.result # "ok"
    BY <2>2 DEF NoRequest
  <2>3. CASE Stays(cli, o) /\ l[1] = "no"
    <3>1. cli.mode \in {"config-if", "config-vlan"} => Kept
      BY <2>3, KeepsName
    <3>2. QED
      BY <1>1, <1>2, <2>3, <3>1 DEF Modes
  <2>4. ASSUME Resolves(l[1], Keywords(cli.mode)),
               Kind(cli, o, Resolve(l[1], Keywords(cli.mode)), Tail(l))
        PROVE  Goal
    <3>1. CASE Stays(cli, o)
      <4>1. cli.mode \in {"config-if", "config-vlan"} => Kept
        BY <2>4, KeepsName
      <4>2. QED
        BY <1>1, <1>2, <3>1, <4>1 DEF Modes
    <3>2. CASE Renames(cli, o)
      BY <1>1, <3>2, MovedTyped DEF Renames, RequestOf
    <3>3. CASE Moves(cli, o) /\ (Leaves(cli, o) \/ EntersConfig(cli, o))
      <4>1. o.cli.mode \in {"exec", "config"}
        BY <1>1, <3>3, MovedTyped DEF Leaves, EntersConfig, Modes
      <4>2. QED
        BY <3>3, <4>1 DEF Moves, NoRequest
    <3>4. CASE /\ Moves(cli, o) /\ Selects(cli, o, Tail(l))
               /\ Resolve(l[1], Keywords(cli.mode)) = "interface"
      <4>1. AfterNaming(l).ports = PortsIn(Tail(l))
        BY <2>4, <3>4, SelectingNames DEF Selects, AfterNaming
      <4>2. PICK P \in SUBSET SwitchPorts : P = PortsIn(Tail(l)) /\ o.cli = OnPorts(cli, P)
        BY <3>4 DEF Selects
      <4>3. o.cli.mode = "config-if" /\ o.cli.ifPorts = P
        BY <1>1, <4>2, MovedTyped
      <4>4. QED
        BY <3>4, <4>1, <4>2, <4>3 DEF Moves, NoRequest
    <3>5. CASE /\ Moves(cli, o) /\ SelectsVlan(cli, o, Tail(l))
               /\ Resolve(l[1], Keywords(cli.mode)) = "vlan"
      <4>1. AfterNaming(l).vid = NumberIn(Tail(l))
        BY <2>4, <3>5, SelectingNames DEF SelectsVlan, AfterNaming
      <4>2. PICK v \in VIDs : v = NumberIn(Tail(l)) /\ o.cli = OnVlan(cli, v)
        BY <3>5 DEF SelectsVlan
      <4>3. OnVlan(cli, v).mode = "config-vlan" /\ OnVlan(cli, v).vlanID = v
        BY <1>1, MovedTyped, ZenonT(60)
      <4>4. o.request.in = "none"
        BY <3>5 DEF Moves, NoRequest
      <4>5. QED
        BY <4>1, <4>2, <4>3, <4>4
    <3>6. QED
      BY <2>4, <3>1, <3>2, <3>3, <3>4, <3>5 DEF Kind
  <2>5. QED
    BY <2>1, <2>2, <2>3, <2>4
<1>5. QED
  BY <1>3, <1>4

LEMMA ScriptInvStep ==
  ASSUME NamesApart, PlaceInv, ScriptInv, ScriptOnTarget, [Next]_vars
  PROVE  ScriptInv' /\ ScriptOnTarget'
<1>1. ASSUME NEW l \in Lines, TypeLine(l) PROVE ScriptInv' /\ ScriptOnTarget'
  <2>1. PICK o \in ExecLine(cli, l) :
          /\ cli' = o.cli /\ ended' = EndsSession(o) /\ last'.request = o.request
    BY <1>1 DEF TypeLine
  <2>2. script' = script /\ ~ended /\ named' = AfterNaming(l)
    BY <1>1 DEF TypeLine
  <2>3. CASE script
    <3>1. ~ended' => o.result = "ok"
      BY <2>1, <2>3 DEF EndsSession
    <3>2. QED
      BY <2>1, <2>2, <2>3, <3>1, ScriptLine DEF ScriptInv, ScriptOnTarget
  <2>4. QED
    BY <2>2, <2>3 DEF ScriptInv, ScriptOnTarget
<1>2. CASE EndOfInput
  BY <1>2 DEF EndOfInput, ScriptInv, ScriptOnTarget
<1>3. CASE UNCHANGED vars
  BY <1>3 DEF vars, ScriptInv, ScriptOnTarget
<1>4. QED
  BY <1>1, <1>2, <1>3 DEF Next

\* No request of a script concerns anything but what its latest interface or vlan line
\* named, as long as their words mean no other command in the modes of a selection
\* (RunScript stops at the first error).
THEOREM ScriptHitsTarget ==
  ASSUME NamesApart
  PROVE  Spec => []ScriptOnTarget
<1>1. Init => ScriptInv /\ ScriptOnTarget
  BY DEF Init, ScriptInv, ScriptOnTarget, NoRequest
<1>2. PlaceInv /\ ScriptInv /\ ScriptOnTarget /\ [Next]_vars => (ScriptInv /\ ScriptOnTarget)'
  BY ScriptInvStep
<1>3. QED
  BY <1>1, <1>2, PlaceInvHolds, PTL DEF Spec
=============================================================================
