------------------------------ MODULE CliModes ------------------------------
(***************************************************************************)
(* The modes of the CLI (src/tplink/cli.go): execLine with no and do, the  *)
(* commands each mode has, their abbreviation, the selection of interfaces *)
(* or of a VLAN that later lines act on, and RunScript, which stops at the *)
(* first line that fails where the other inputs go on.                     *)
(*                                                                         *)
(* A line is a sequence of words.  What a command asks of the switch is    *)
(* one request with the selection it concerns; that its arguments may not  *)
(* do, or that the request may fail, is a choice between outcomes.         *)
(***************************************************************************)
EXTENDS Naturals, Sequences, SequencesExt, FiniteSets

CONSTANTS Lines,           \* the lines that may be typed
          MaxLines,        \* bound: how many are typed
          Abbreviations,   \* for a word that is no keyword, those it is a prefix of
          PortsOf,         \* parsePorts, for the words that name interfaces
          NumberOf         \* strconv.Atoi, for the words that are numbers

SwitchPorts == 1..8

VIDs == 1..4094

ASSUME ConstantsAssumption ==
  /\ MaxLines \in Nat
  /\ <<>> \notin Lines

VARIABLES
  script,   \* lines come from RunScript
  cli,      \* the fields of CLI
  ended,    \* the session is over
  typed,    \* lines typed
  named,    \* the interfaces and the VLAN the user last named in a line
  last      \* the latest line: its mode, what became of it and its request

vars == <<script, cli, ended, typed, named, last>>

Modes == {"exec", "config", "config-if", "config-vlan"}

NoRequest == [in |-> "none", ports |-> {}, vid |-> 0]

Requests == [in : Modes \cup {"none"}, ports : SUBSET SwitchPorts, vid : VIDs \cup {0}]

TypeOK ==
  /\ cli \in [mode : Modes, ifPorts : SUBSET SwitchPorts, vlanID : VIDs \cup {0}, renamed : BOOLEAN]
  /\ script \in BOOLEAN /\ ended \in BOOLEAN /\ typed \in 0..MaxLines
  /\ cli.mode = "config-if" => cli.ifPorts # {}
  /\ cli.mode = "config-vlan" => cli.vlanID # 0
  /\ last.request \in Requests

Init ==
  /\ script \in BOOLEAN
  /\ cli = [mode |-> "exec", ifPorts |-> {}, vlanID |-> 0, renamed |-> FALSE]
  /\ ended = FALSE /\ typed = 0
  /\ named = [ports |-> {}, vid |-> 0]
  /\ last = [line |-> <<>>, mode |-> "exec", result |-> "ok", request |-> NoRequest]
-----------------------------------------------------------------------------
(* Keywords.                                                               *)

InterfaceCommands ==
  {"shutdown", "speed", "flowcontrol", "switchport", "channel-group", "bandwidth", "storm-control"}

GlobalCommands ==
  {"hostname", "ip", "spanning-tree", "igmp", "led", "username", "monitor", "mtu-vlan", "port-vlan"}

ExecCommands == {"reload", "clear", "test", "copy", "write", "erase"}

Keywords(mode) ==
  {"exit", "quit", "end", "help", "show"} \cup
  CASE mode = "exec" -> {"configure"} \cup ExecCommands
    [] mode = "config" -> {"interface", "vlan", "qos"} \cup GlobalCommands
    [] mode = "config-if" -> {"qos"} \cup InterfaceCommands
    [] mode = "config-vlan" -> {"name"}

NoKeywords(mode) ==
  CASE mode = "config" -> {"vlan", "ip", "spanning-tree", "igmp", "led", "monitor", "mtu-vlan", "port-vlan"}
    [] mode = "config-if" -> {"shutdown", "flowcontrol", "channel-group", "bandwidth", "storm-control"}
    [] OTHER -> {}

\* The keywords a word may stand for; it resolves if there is one.
Meanings(word, options) ==
  IF word \in options THEN {word}
  ELSE IF word \in DOMAIN Abbreviations THEN Abbreviations[word] \cap options ELSE {}

Resolves(word, options) == \E k \in options : Meanings(word, options) = {k}

Resolve(word, options) == CHOOSE k \in Meanings(word, options) : TRUE
-----------------------------------------------------------------------------
(* Outcomes of a line in state s: the state after it, whether the session  *)
(* quits, "ok" or the kind of error, and the request made.                 *)

Outcome(s, quit, result, request) == [cli |-> s, quit |-> quit, result |-> result, request |-> request]

Done(s) == {Outcome(s, FALSE, "ok", NoRequest)}

Refused(s) == {Outcome(s, FALSE, "refused", NoRequest)}

Unknown(s) == {Outcome(s, FALSE, "keyword", NoRequest)}

\* The request of a command of the given mode: it concerns the selection.
RequestOf(s, mode) ==
  [in |-> mode, ports |-> IF mode = "config-if" THEN s.ifPorts ELSE {},
   vid |-> IF mode = "config-vlan" THEN s.vlanID ELSE 0]

\* Bug shape for Requesting: the command does not ask for its mode.
RequestingAnywhere(s, mode) ==
  Refused(s) \cup {Outcome(s, FALSE, r, RequestOf(s, mode)) : r \in {"ok", "failed"}}

\* A command of one mode: its arguments are refused, or it makes its request.
Requesting(s, mode) ==
  IF s.mode # mode THEN Refused(s)
  ELSE Refused(s) \cup {Outcome(s, FALSE, r, RequestOf(s, mode)) : r \in {"ok", "failed"}}

Exit(s) ==
  CASE s.mode \in {"config-if", "config-vlan"} -> Done([s EXCEPT !.mode = "config"])
    [] s.mode = "config" -> Done([s EXCEPT !.mode = "exec"])
    [] OTHER -> {Outcome(s, TRUE, "ok", NoRequest)}

Configure(s, args) ==
  IF s.mode = "exec" /\ (args = <<>> \/ (Len(args) = 1 /\ Resolves(args[1], {"terminal"})))
  THEN Done([s EXCEPT !.mode = "config"])
  ELSE Refused(s)

\* interface takes a list of ports, range or not.
PortsIn(args) ==
  IF Len(args) = 1 /\ args[1] \in DOMAIN PortsOf THEN PortsOf[args[1]]
  ELSE IF Len(args) = 2 /\ args[1] = "range" /\ args[2] \in DOMAIN PortsOf THEN PortsOf[args[2]]
  ELSE {}

\* Bug shape for Interface: the selection is stored before it is checked.
InterfaceUnchecked(s, args) ==
  IF s.mode # "config" \/ PortsIn(args) = {} THEN Refused(s)
  ELSE IF \E p \in PortsIn(args) : p \notin SwitchPorts
       THEN Refused([s EXCEPT !.ifPorts = PortsIn(args)])
  ELSE Done([s EXCEPT !.ifPorts = PortsIn(args), !.mode = "config-if"])

Interface(s, args) ==
  IF s.mode = "config" /\ PortsIn(args) # {} /\ PortsIn(args) \subseteq SwitchPorts
  THEN Done([s EXCEPT !.ifPorts = PortsIn(args), !.mode = "config-if"])
  ELSE Refused(s)

NumberIn(args) ==
  IF Len(args) = 1 /\ args[1] \in DOMAIN NumberOf THEN NumberOf[args[1]] ELSE 0

VLAN(s, args) ==
  IF s.mode = "config" /\ NumberIn(args) \in VIDs
  THEN Done([s EXCEPT !.vlanID = NumberIn(args), !.mode = "config-vlan"])
  ELSE Refused(s)

\* The prompt takes the new name once the switch has it.
Hostname(s) ==
  {IF o.result = "ok" THEN [o EXCEPT !.cli.renamed = TRUE] ELSE o : o \in Requesting(s, "config")}

QoS(s, args) ==
  CASE args = <<>> -> Refused(s)
    [] args[1] = "mode" -> Requesting(s, "config")
    [] args[1] \in {"port-priority", "priority", "pri"} -> Requesting(s, "config-if")
    [] OTHER -> Refused(s)

\* reload goes down once confirmed, whatever its request comes to; copy, write and
\* erase when theirs is performed.  Each may be cancelled.
Rebooting(s, cmd) ==
  IF s.mode # "exec" THEN Refused(s)
  ELSE Done(s) \cup {Outcome(s, TRUE, "ok", RequestOf(s, "exec"))}
       \cup IF cmd = "reload" THEN {}
            ELSE Refused(s) \cup {Outcome(s, FALSE, r, RequestOf(s, "exec")) : r \in {"ok", "failed"}}

Command(s, cmd, args) ==
  CASE cmd = "exit" -> Exit(s)
    [] cmd = "quit" -> {Outcome(s, TRUE, "ok", NoRequest)}
    [] cmd = "end" -> Done([s EXCEPT !.mode = "exec"])
    [] cmd = "help" -> Done(s)
    [] cmd = "show" -> Done(s) \cup Refused(s)
    [] cmd = "configure" -> Configure(s, args)
    [] cmd = "interface" -> Interface(s, args)
    [] cmd = "vlan" -> VLAN(s, args)
    [] cmd = "name" -> Requesting(s, "config-vlan")
    [] cmd = "hostname" -> Hostname(s)
    [] cmd = "qos" -> QoS(s, args)
    [] cmd \in {"clear", "test"} -> Requesting(s, "exec")
    [] cmd \in {"reload", "copy", "write", "erase"} -> Rebooting(s, cmd)
    [] cmd \in InterfaceCommands -> Requesting(s, "config-if")
    [] OTHER -> Requesting(s, "config")

No(s, words) ==
  IF ~Resolves(words[1], NoKeywords(s.mode)) THEN Unknown(s)
  ELSE Requesting(s, IF s.mode = "config-if" THEN "config-if" ELSE "config")

Plain(s, words) ==
  IF words[1] = "no" /\ Len(words) > 1 THEN No(s, Tail(words))
  ELSE IF ~Resolves(words[1], Keywords(s.mode)) THEN Unknown(s)
  ELSE Command(s, Resolve(words[1], Keywords(s.mode)), Tail(words))

\* do, once or nested, is followed by a line of exec mode; the mode comes back.
IsDo(words) == words[1] = "do" /\ Len(words) > 1

AfterDo(words) ==
  SubSeq(words, CHOOSE i \in DOMAIN words :
                  /\ i = Len(words) \/ words[i] # "do"
                  /\ \A j \in 1..(i - 1) : words[j] = "do", Len(words))

\* Bug shape for Restore: do leaves the CLI where its command did.
RestoreNothing(o, mode) == o

Restore(o, mode) == Outcome([o.cli EXCEPT !.mode = mode], o.quit, o.result, o.request)

ExecLine(s, words) ==
  IF IsDo(words)
  THEN {Restore(o, s.mode) : o \in Plain([s EXCEPT !.mode = "exec"], AfterDo(words))}
  ELSE Plain(s, words)
-----------------------------------------------------------------------------
(* Sessions.                                                               *)

\* Bug shape for EndsSession: a script goes on after a line that failed.
EndsSessionOnQuit(o) == o.quit

EndsSession(o) == o.quit \/ (script /\ o.result # "ok")

\* What the user believes to have selected: the line says it, accepted or not.
Names(l, word) == l # <<>> /\ word \in Meanings(l[1], {"interface", "vlan"})
AfterNaming(l) ==
  [ports |-> IF Names(l, "interface") THEN PortsIn(Tail(l)) ELSE named.ports,
   vid |-> IF Names(l, "vlan") THEN NumberIn(Tail(l)) ELSE named.vid]

TypeLine(l) ==
  /\ ~ended /\ typed < MaxLines
  /\ typed' = typed + 1
  /\ named' = AfterNaming(l)
  /\ \E o \in ExecLine(cli, l) :
       /\ cli' = o.cli
       /\ ended' = EndsSession(o)
       /\ last' = [line |-> l, mode |-> cli.mode, result |-> o.result, request |-> o.request]
  /\ UNCHANGED script

EndOfInput == ~ended /\ ended' = TRUE /\ UNCHANGED <<script, cli, typed, named, last>>

Next == EndOfInput \/ \E l \in Lines : TypeLine(l)

Spec == Init /\ [][Next]_vars
-----------------------------------------------------------------------------
(* Properties.                                                             *)

\* A script's requests concern what its last interface or vlan line named: no line
\* is refused in silence while later ones act on an older selection.
ScriptOnTarget ==
  script =>
    /\ last.request.in = "config-if" => last.request.ports = named.ports
    /\ last.request.in = "config-vlan" => last.request.vid = named.vid

\* For the proof of it: the words for interface and vlan mean nothing else where a
\* selection holds.
NamesApart ==
  \A w \in {"interface", "vlan"} \cup DOMAIN Abbreviations :
    Meanings(w, {"interface", "vlan"}) # {} =>
      /\ w \notin {"do", "no"}
      /\ \A mode \in {"config-if", "config-vlan"} : Meanings(w, Keywords(mode)) = {}

\* A line that is not accepted leaves mode, selection and prompt as they were.
RefusedLeavesPlace ==
  [][typed' # typed /\ last'.result # "ok" => cli' = cli]_vars

\* do is an excursion: whatever its command, the CLI is back where it was.
DoKeepsPlace ==
  [][typed' # typed /\ IsDo(last'.line) => cli' = cli]_vars

\* Modes nest as CliContext says, and every request is made in the innermost one.
Stack ==
  CASE cli.mode = "exec" -> <<>>
    [] cli.mode = "config" -> <<[in |-> "config", ports |-> {}, vid |-> 0]>>
    [] cli.mode = "config-if" ->
         <<[in |-> "config", ports |-> {}, vid |-> 0],
           [in |-> "config-if", ports |-> cli.ifPorts, vid |-> 0]>>
    [] OTHER ->
         <<[in |-> "config", ports |-> {}, vid |-> 0],
           [in |-> "config-vlan", ports |-> {}, vid |-> cli.vlanID]>>

Made == IF last.request.in \in {"none", "exec"} THEN <<>> ELSE <<last.request>>

Contexts == INSTANCE CliContext
              WITH Ports <- SwitchPorts, VLANs <- VIDs, stack <- Stack, made <- Made
ImplementsCliContext == Contexts!Spec
=============================================================================
