# Verification of the TL-SG108E SDK, CLI and toolbox

TLA+ models of the Go program in `src/`: an SDK that drives a TP-Link smart
switch through its web pages, a Cisco-style CLI on top of it, a network scanner
and a destructive hardware test suite. TLC checks the models on small
instances, TLAPS proves the main results for every value of the constants.

## 1. Inventory

| Part | Source | State | Operations | Interaction |
|---|---|---|---|---|
| Session layer | `tplink/client.go`, `tplink/system.go` | logged-in flag and time, cookie jar, password, port count | Login, Logout, `doGet`, `cfgGet`, `cfgPost`, `rawRequest`, BackupConfig, RestoreConfig, Reboot, FactoryReset, ChangePassword | HTTP exchanges with the switch, which ends sessions, drops connections, reboots; `net/http` repeats GETs by itself |
| Getters and setters | `tplink/system.go`, `ports.go`, `vlan_qos.go` | none but the session's | one page read or a few set requests each; some read and write back | call the session layer |
| Page parser | `tplink/parser.go` | none | extract JavaScript variables from pages | called by the getters |
| CLI | `tplink/cli.go` | mode, selected interfaces, VLAN, host name | some 40 commands; scripts, piped and interactive input | calls getters and setters; several CLIs may administer one switch |
| Scanner | `tplink/scan.go` | jobs and results channels, worker pool | ExpandCIDRHosts, ScanNetwork, the probe | one Client per probe |
| Hardware suite | `toolbox/hardwaresuite/suite.go` | index, current password, Client | reset, baseline, mutations with a backup each, final reset | new Clients as the password moves, scripts through a CLI |
| Backup tools | `tplink/backup_decode.go`, `backup_structure.go` | none | decode, diff, infer the structure | called by the CLI and the suite |
| Entry point | `cmd/tplink-cli/main.go` | none | flags, choice of a mode, loading of backup libraries | all of the above |

What is hard here is not computation but knowledge: the program learns what the
switch did through an unreliable exchange, and decides about the next request
from what it read before. The list of hazards, each at its line and with the
properties that cover it, is in `PROJECT.json`.

What makes each part correct:

- Session layer: the session bookkeeping agrees with the cookie jar; a write is
  performed at most once per request sent; an outcome tells the caller what
  happened; every call returns.
- 802.1Q commands: a command ends with what it promises for its interfaces,
  leaves other ports alone with every write, and never bridges two VLANs; no port
  is tagged and untagged in one VLAN, however many CLIs are at work.
- Scanner: each host is reported once, in order; nobody waits for ever; no session
  is left behind where the logins and logouts were answered.
- Hardware suite: the backup library shows what its names say; the suite can log in
  unless a write was misreported or a script stopped behind its password line; index and
  status are honest; after a cancellation only the operation that was sending goes on.
- CLI modes: contexts nest; a refused line and `do` leave no trace; a script's requests
  concern what its latest interface or vlan line named.
- Interactive input: the terminal shows the line Enter runs; piped lines run once and
  in order; prompts get their answers; the session ends with its input.
- Setters that read and write back: a command does what it says and changes nothing
  it was not told to, also when it fails half-way; a command that hands on a port the
  switch lacks is refused as a whole.
- Backup tools: a structure report accounts for every offset of the files once; a diff
  reports a field exactly when a byte of its documented range changed, but for what its
  rendering passes over.
- Entry point: one mode runs, the one that was asked for; misuse touches nothing; a run
  that succeeds leaves no session behind unless an answer was missed.

## 2. Modules

| Module | Models | Checked by |
|---|---|---|
| `WriteCall` | the contract of a call on a Client | refinement target |
| `ClientSession` | one Client, its exchange, the switch and the transport | `ClientSession*.cfg`, `ClientSession_proofs` |
| `Dot1QVlan` | CLIs running 802.1Q commands on one switch | `Dot1QVlan*.cfg`, `Dot1QVlan_proofs` |
| `SwitchSettings` | CLIs running the other configuration commands on one switch | `SwitchSettings.cfg`, `SwitchSettings_proofs` |
| `ScanReport` | what ScanNetwork promises | refinement target |
| `ScanPool` | ScanNetwork's goroutines, channels and probes | `ScanPool*.cfg`, `ScanPool_proofs` |
| `HardwareSuite` | the suite's run, its authentication and the switch | `HardwareSuite.cfg`, `HardwareSuite_proofs` |
| `CliContext` | nesting configuration contexts | refinement target |
| `CliModes` | execLine, the mode machine, scripts | `CliModes.cfg`, `CliModes_proofs` |
| `InteractiveInput` | line editor, line scanner, prompts | `InteractiveInput*.cfg`, `InteractiveInput_proofs` |
| `CidrHosts` | ExpandCIDRHosts, at any address width | through `ProgramEntry` |
| `BackupRuns` | the run algebra and InferBackupStructure | through `ProgramEntry` |
| `BackupDiff` | DecodeBackupConfig, CompareBackupConfigs, the documented ranges | through `ProgramEntry` |
| `ProgramEntry` | main: flags, modes, loading, exit status | `ProgramEntry*.cfg`, `ProgramEntry_proofs` |

Each `MC…` module holds the values of constants that a `.cfg` cannot write.
A definition introduced by "Bug shape for X" is a plausible bug of X; it is not
used by the specification and serves to check that the properties notice it.

### ClientSession

`pc` says what the call in progress does: `login` (inside Login), `ports` (its
reading of the port count), `waiting` (inside rawRequest, for the exchange
`wire`), `idle`. `Begin` is the entry of every public method with
ensureSession; `RetryAfterLogin`, `ReceiveLoginPage`, `ReceiveError` and
`ReceiveBody` are the branches after rawRequest in doGet, cfgGet, cfgPost,
BackupConfig and RestoreConfig. Operations are grouped by the wrapper they go
through (`Pages`, `Configures`, `Raw`). `loggedIn`, `expired`, `cookie` and
`portCount` are the Client's fields, `live`, `password` and `late` belong to the
switch, `op`, `result`, `executed` and `dup` are a ledger of the calls that the
properties read.

Errors carry one bit of their text: whether isConnDrop would find "eof" in it,
which a timeout or an error status may have because their text quotes the URL
and the body. `TransportRepeats` is `net/http` resending a GET on a fresh
connection; `LateExecution` is a request performed after its client gave up. The
login request itself has no effect but the session, so its exchange is one step.

`WriteCall` is the abstract view: a call has at most one copy of its request
within the switch's reach, adds another only if all executions so far are
accounted for by the transport, and returns an outcome that is true.
`ImplementsWriteCall` maps the detailed model to it.

### Dot1QVlan

A command is a record `[kind, ports, vids]`; `Read`, `Enable`, `Write`,
`WriteLost` and `Fail` are its requests. `Writes` derives the list of requests
from one reading, as cmdSwitchport and cmdVLANName do. Each request takes effect
before its answer or not at all; that a timed-out request is performed later is
`ClientSession`'s subject. Ports are sets, VLAN names are left out. The commands read
members with `BitsToPorts` for eight ports whatever the switch has (`Cut`), so a rewrite
of a VLAN drops port 9 of the instance, which is one of the switch but none of the CLI's:
`OtherPortsKept` speaks of the ports a command can name. It compares the switch before and
after each write, so that a command's last write counts as much as its first, and so does
one that was performed although the command fails with its error.

### ScanPool

The unbuffered channel `jobs` is a rendezvous (`Handoff`), `results` a sequence
with a capacity. A worker's `at` is its place in defaultScanProbe. Its Client is
`loggedIn`: the system page may come back as the login page, upon which doGet logs in
again (`Relogin`) or fails to; Logout sends Logout.htm only while `loggedIn`, and ignores
its failure (`client.go:287-293`). `unanswered` records the hosts where a login or
Logout.htm came back with an error, after which nothing tells whether the switch holds a
session; `SessionsClosed` speaks of all others. `ScanReport`
states the promise: hosts deliver in any order, once each, and the report is
published complete and in address order.

### HardwareSuite

`task` is the operation the orchestration is in, `stage` its place: `connect`
(ensureConnectedWithCandidates), `act` (the last look at the context), `send` (its
requests), and the sleeps between. A mutation sends its requests one per step, `request`
being the next: ApplyMutation does not look at the context between the lines of a script,
so a cancellation may fall between any two. `Cancel` may happen at any moment of the
exported RunHardwareSuite, whose caller owns the context (the program's main passes one that
is never cancelled); `underway` remembers which operation was sending then.

What a request comes to follows ClientSession: performed, lost but taken for success
(`lossy`), failed with or without effect (`unsure` if with), refused by the switch in a body
nobody reads. The plan is a constant, and so is `Sets`, which says of each request whether
it sets a password; `config` is the sequence of requests the switch holds, and a snapshot
records it.

`Stranded` is a lock-out that no misreported write is to blame for: a script changes the
password, a later line of it fails, and ApplyMutation returns before it applies
`next_password` (`suite.go:667-688`). `NotLockedOut` excepts it by name.

### CliModes

`cli` is the struct CLI. `ExecLine(s, words)` is the set of outcomes of a line in state
`s`: the next state, whether the session quits, whether and how it was refused, and the
request made with the selection it concerns. Keywords are words, and the constant
`Abbreviations` says what a word is a prefix of; that arguments are refused or a request
fails is a choice between outcomes. `script`, chosen initially, tells RunScript, which
stops at a failed line, from the inputs that go on. `named` and `last` record what the user typed, for
the properties. `CliContext` is the promise: a stack of contexts that grows by one,
shrinks by one or is emptied, and requests made in the innermost.

### InteractiveInput

`raw`, chosen initially, says whether standard input is a terminal.
Bytes arrive in `stdin`; a reader takes any portion of what is there, as a read of a
pipe or terminal returns. `EditKey` is one turn of runInteractiveTTY's loop with the
branches of processInteractiveByte, `ScanLine` one turn of runLineScanner's. `Asking`
holds the lines whose command prompts (reload, copy, write erase). A prompt fills
`answerBuf`, its own reader's buffer, which is dropped with what it read too much.
Redrawing and echo are the variable `screen`. What is piped behind a
command that asks is not run as written, since the scanner has read ahead of the prompt;
`LinesRunAsWritten` therefore ends with the first such command.

### SwitchSettings

A command reads (`ip default-gateway` and `no ip address dhcp` twice, as the CLI and
SetIPSettings each do), derives its requests in `Plans`, and sends them one by one,
those of SetPortMirror in any order, for it ranges over a map. Each is performed, lost
but taken for done, or comes back as an error, performed or not, and ends the command. `Perform` is what the requests mean
to the switch; ports are sets, and an IP setting not given is 0. `menu`, chosen
initially, is the family the commands come from: commands of different families share
no setting of the switch.

Ports are validated against the count a Client cached at its last login (`counted`), and
against `DefaultPorts` before it has one; `Relogin` is the login that fetches the count,
which may fail. `Valid` is looked at before the first request, so `RefusedWhole` holds
also between two logins. The host name of the prompt (`hostname`) changes with the command
that sets it; a cable diagnostic is one request per port and changes no setting. A
command is a record whose kind is its words joined by hyphens; `Commands` is what the
parsers of the CLI hand to the setters, for any ports.

Things the code does that a user may not expect, and that the model does too: `monitor
session 1 source` without a destination aims the mirror at port 1, even if that is a
source; a second `storm-control` line of an interface replaces the kinds of traffic of
the first; `ip igmp snooping` without `report-suppression` turns suppression off; `clear
counters` of a list of ports clears the first of them only (`cli.go:1317`). `HandedOn` says
which ports a command hands to its setter: those it names, but for that one.

### ProgramEntry, with CidrHosts, BackupRuns and BackupDiff

A command line is a sequence of tokens, so that the order of flags and host matters, as
it does to main, which takes a host off the front and leaves the rest to `flag`. `Check`
is the chain of tests between the modes, `pc` the step of the chosen mode, `did` what it
did on the network. Suites and scans are one step each, since their own modules say what
happens within. Of a script or interactive session main sees what it does to the Client:
`Request` is what a request may do to `loggedIn` and to the switch's `session`, as
`ClientSession` has it in detail (an answered or unanswered login, a lost session, a dropped
write taken for done, upon which the Client takes itself for logged out). The deferred
`Logout` sends Logout.htm only while `loggedIn` and ignores what becomes of it
(`client.go:287-293`); `unanswered` records that a login, Logout.htm or dropped write went
without an answer.

`CidrHosts` is ExpandCIDRHosts over addresses of `Width` bits; `Usable` says what is
meant, by sets. `BackupRuns` has the runs of `backup_structure.go` as the code merges,
subtracts and complements them, in its order. A file is `[size, byte]`, where `byte`
holds what is not 0. `BackupDiff` keeps the offsets of the code. A field is taken
for what the report prints of it, so two files whose fields print alike have no change
in it; `PassedOver` lists when that may hide a changed byte.

## 3. Runs

| Run | Instance | Shows |
|---|---|---|
| `session` | 2 calls of all kinds, 5-port switch | session bookkeeping, nothing after an answer; refinement, and with it at-most-once and honest outcomes; every call returns |
| `raw_answers` | backup and restore | violated: the login page is handed back as data |
| `dot1q` | 2 CLIs, 4 ports of which the CLI can name 3, 3 VLANs, 3 commands, each alone and on ranges | members stay disjoint with stale readings; a CLI that works alone never bridges, does what it says to all of a range, and leaves other ports alone with every write |
| `dot1q_range_access` | 1 CLI, 1 command | violated: access VLAN over a range |
| `scan` | 3 hosts, 2 workers | channels, sessions; refinement, and with it that the scan ends |
| `suite` | 5 mutations of 7 requests: both kinds of password change, scripts with and without one, one that writes nothing | library, lock-out, status, cancellation between any two steps; the run ends |
| `modes` | 33 lines, sessions and scripts of 6 | nesting, no trace of refused lines or `do`, requests in the innermost context; a script's concern what was named last |
| `input` | terminal and pipe, any 4 of 12 bytes in any portions, a command that asks | shown line and held line agree; piped lines run once and in order; the session ends |
| `prompt_terminal` | 4 bytes, a command that asks | violated: Enter does not end the answer |
| `settings` | 2 CLIs, 3 commands of one of 6 families, 3 ports, failures | requests stay with their interfaces and group, a command handing on a port the switch lacks is refused as a whole; a CLI that works alone does what it says and no more |
| `program` | lines of up to 3 flags and a host, 4-bit addresses, some 7000 libraries and 4000 pairs of backups | one mode, no effect of misuse, no session left unless an answer was missed; hosts, structure and diff reports against their definitions |
| `flag_order` | a host between two flags | violated: the flags behind the host are ignored |

Bounds. Two calls are enough for a call to meet what an earlier one left behind
(a stale cookie, a late request, a changed password); within one call everything
is unbounded but the retry, which the code bounds. Three commands let a command
find the table two others left, and three VLANs let a port leave one VLAN for a
second while a third stays. Three hosts with two workers make a worker return
for another job. The plan has every kind of mutation and every source of a password, two of
them with space around them; a script of three requests sets the password with its second,
so that one before and one behind it can fail or be cancelled.
Four bytes hold a command that asks, its line end, the answer and its line end. The two
CLIs of `dot1q` and of `settings` are interchangeable, which their symmetry sets say.

An address of 4 bits has every prefix length, from a single address to the whole space,
and the three cases of ExpandCIDRHosts (/32, /31 and wider); limits of 1, 3 and 17 lie
below, among and above the counts. Backups of up to six bytes, of two values, with known
ranges that are unordered, overlapping, adjacent and beyond their ends, give the runs
every relation two intervals can have; what mergeRuns and its kin do depends on the
order of ends alone. The diffs use the offsets of the code: two
configurations, one or two bytes changed at 32 places, and files that end before, in and
after the fields. Lines have at most three flags, as the tests between modes relate
pairs, and what a mode ignores is left out of its lines.

Some properties of a command hold only while no other CLI is at work, as the code
takes no lock on the switch; `Alone` states that condition, and the same run has the
behaviours in which it fails, for the properties that do without it.

`CHECK_DEADLOCK FALSE` stands where the program ends or the bound on commands
is used up; the session model never stops and is checked for deadlock.

Fairness. `ClientSession`: the Client's goroutine runs, and
`http.Client.Timeout` ends every exchange; nothing is assumed of the switch.
`ScanPool`: every goroutine is scheduled, and the timeout ends every probe step.
`HardwareSuite`: the run goes on, for logins, requests and sleeps have limits.
`InteractiveInput`: the process runs; nothing is assumed of who types.

## 4. Proofs

`ClientSession_proofs` proves, for any number of calls, any set of operations and
any port count:

- `TypeCorrect`: the type invariant.
- `SessionSafety`: `SessionBacked`, `AtMostOnce` and `OutcomeHonest` (the last two, for
  the instance, are consequences of the refinement the run checks). They are not
  inductive. The strengthening `CallInv` adds four facts: calls own nothing before
  they start and have returned after they ended (`CallsInOrder`); the exchange
  belongs to the call in progress (`ExchangeOwned`); while the Client may still
  send, the switch has performed nothing the transport did not repeat
  (`SendsAreSafe`); and a request left at the switch belongs to a timed-out call
  and was not performed (`LateIsUnanswered`). `CallInvInductive` has one step per
  action.
- `AnsweredCallsAreFinal`: `NoEffectAfterAnswer`, from the same invariant: only
  `SwitchAnswers` and `LateExecution` perform anything, the first for the call in
  progress, the second for a call in `late`.
- `Refinement`: every behaviour is one of `WriteCall`. `StepSimulation` maps each
  action to a step of the contract or a stutter under `Copies`, the guards coming
  from `CallInv`.

They rest on `ConstantsAssumption` only: the number of calls is a natural number,
the operations are those of the program, the switch has a port.

`ScanPool_proofs` proves, for any number of hosts and workers:

- `AlwaysReceptive`: `ResultsReceptive`, that a worker with a result finds the channel
  open and with room. The strengthening `PoolInv` says that each host is on one
  worker's hands at most and handed out (`JobsOwned`), that results holds each host
  once and none a worker still has (`ResultsDistinct`), and that the caller leaves
  "waiting" only after the last worker (`ClosedWhenDone`). Room then follows by the
  pigeonhole principle: the hosts in results are distinct and differ from the sender's.
- `SessionsAlwaysClosed`: `SessionsClosed`. A session whose login was answered belongs to a
  probe that reads the page or logs out, with a Client that takes itself for logged in: the
  property is inductive once `PoolInv` says that no other worker has the host, and a step
  of a probe touches the session of its own host only (`ProbeSession`).
- `ScanTyped`: `TypeOK`, the report included.
- `ReportKept`: every step of the pool is one of `ScanReport` or leaves its variables
  alone. `Accounted` says that every host handed out is on a worker's hands, in results or
  in the report, so that the report, once published, lists them all; inserting by address
  keeps it in order. This is the safety half of `ImplementsScanReport`, which the run checks
  with the fairness it also states.

They rest on `ConstantsAssumption` of ScanPool.

`Dot1QVlan_proofs` proves, for any number of CLIs, ports, VLANs and commands:

- `TypeCorrect` and `MembersStayDisjoint`: `TypeOK` and `MembersDisjoint`, whatever the CLIs
  do to each other's readings. The strengthening `Core` says that what a CLI has still to
  write comes from the table it read (`FaithfulTo`) and passes the switch's check for
  overlap, and that a VLAN which does not exist has no members.
- `OthersKept`: `OtherPortsKept`. A CLI that has worked alone still finds the table it read,
  but for its own writes, on the interfaces it does not name (`Keeps`); the next write, which
  comes from that reading (`FaithfulTo`), therefore changes nothing about them, performed in
  `Write` or in `Fail` (`QueueChange`).
- `SwitchportLeaves`: `SwitchportDone`. All writes of a command come from one reading, and
  several may be about one VLAN; what counts is the last of them (`Settles`), and the command
  is right if for each VLAN the last write on it is, or there is none and the table is as it
  should be (`OnTheWay`).
- `NoBridge`: `NeverBridged`, for commands by which `switchport access vlan` names one
  interface (`SingleAccess`): an interface leaves every other VLAN before it joins its own
  (`LeavesFirst`). Over a range the code does bridge, as the run `dot1q_range_access` shows.

The lists of writes are concatenations over VLANs and interfaces; what they hold
(`FaithfulTo`, `AccessRows` and the lemmas about `FlattenSeq`) is shown by induction on their
length, which goes through the least element of the set of counterexamples. They rest on
`ConstantsAssumption` of Dot1QVlan.

`SwitchSettings_proofs` proves all five properties of the run, for any number of CLIs, any
ports, rates, addresses, names and VLANs, and any commands in any order:

- `TypeCorrect`, `CommandsRefusedWhole`, `RequestsStayWithin`: `TypeOK`, `RefusedWhole` and
  `WithinSelection`, whatever the CLIs do to each other's readings. They follow from what a
  request changes (`PerformOnly`), what the plans of a command ask for, whatever was read
  (`Asks`, `PlanAsked`), and the strengthening `Inv`: what a CLI has ahead is asked for by its
  command, and has been validated as far as it has got (`Ahead`).
- `SettingsKept`: `OthersKept`. Of the requests of a plan made from the settings in force,
  each spares what the command does not speak of (`Spares`), and goes on doing so after the
  others, with which it does not disagree (`Agree`).
- `CommandsDoAsTheySay`: `DoneAsPromised`. The promise of a command is cut into parts, one per
  port and one for the rest (`Goals`, `Met`); each part has a request that serves it
  (`Serves`), no other request of the plan breaks it, and so it is met or has its request
  ahead (`Coming`) until none is left. `SoloInv` adds this and `Harmless` to `Inv`, for CLIs
  that have worked alone.

They rest on `ConstantsAssumption` of SwitchSettings: the switch has a port 1, port lists are
finite sets of numbers, and the commands of the menus are of the kinds that exist.

`HardwareSuite_proofs` proves, for any plan and any set of passwords:

- `SuiteTyped`, `LibraryFaithful` and `StatusTrue`: `TypeOK`, `SnapshotsFaithful` and
  `StatusHonest`. The strengthening `SuiteInv` says at which stages each operation can
  be and which mutation it is about (`PlaceInv`), that until the first failure index
  and library have grown with the plan (`ProgressInv`), that the switch then holds the
  prefix of the plan that belongs to the place of the run (`ConfigInv`), and how a run
  ends (`EndInv`). A failure ends the loop, so nothing else has to be said of what the
  switch holds after it.
- `CancelStops`: `CancelStopsWrites`. `UnderwayKept` says that a run which is sending after a
  cancellation is in the operation that was sending at that moment: any other comes by
  `CheckContext` first, and the initial reset by a login that looks at the context.
- `NeverLockedOut`: `NotLockedOut`, for a plan that tells the truth (`PlanTruthful`): it
  names the password each script leaves behind, and sets none with space around it. While
  no write was misreported, the switch has one of the target's passwords, the one the
  suite takes for current, or the one the mutation in progress has set last (`KnownPassword`,
  `SetBefore`), which is the suite's too once the mutation is complete, and `Stranded` once
  it has failed.

They rest on `ConstantsAssumption` of HardwareSuite.

`CliModes_proofs` proves, for any set of lines and abbreviations and any meaning of the
words for ports and numbers:

- `ModesTyped`, `RefusalsLeaveNoTrace`, `DoComesBack`, `ModesNest`: `TypeOK`,
  `RefusedLeavesPlace`, `DoKeepsPlace` and the refinement of `CliContext`. The argument
  is one of cases: whatever a line is, its outcome stays, renames, leaves, enters or
  selects (`Kind`; `CommandKind` has a step per command), and each kind has the
  properties. `do` takes its command in exec mode, where only the mode can change.
- `ScriptHitsTarget`: `ScriptOnTarget`, for abbreviations by which the words for interface
  and vlan mean no command of the modes that hold a selection (`NamesApart`). The
  strengthening `ScriptInv` says that the selection of a running script is the one it
  named last.

They rest on `ConstantsAssumption` of CliModes: no line is without words.

`InteractiveInput_proofs` proves, for any alphabet, any completions, any lines that ask
or quit and any number of bytes arriving in any portions:

- `ScreenTrue`: `ScreenShowsLine`; and `InputTyped`: `TypeOK`. That the terminal shows the
  line (`screen = line`, a part of `Typed`) is inductive by itself: `KeyTyped` has a step
  for each group of branches of `processInteractiveByte`, which echo or redraw as they
  edit.
- `LinesKept`: `LinesRunAsWritten`. The strengthening `Behind` says that, until a command
  asks, all that arrived is some text `c` that was scanned, then the scanner's buffer, then
  what waits on standard input, and that the commands so far are those of `c` (`Scanned`).
  `c` ends with a newline unless input is at its end: that is what makes its commands a
  beginning of the whole text's (`CommandsBehind`), wherever the portions were cut. It
  rests on what `SplitLines` makes of a text behind a newline (`SplitConcat`) and
  `Commands` of lines behind others (`CommandsJoin`), both by induction on the text.

They rest on `ConstantsAssumption` of InteractiveInput: lines that are completed consist of
letters and become lines of letters.

`ProgramEntry_proofs` proves, for command lines of any length and any files, ranges and
libraries:

- `OneModeRuns`: `OneModeOnly`. The strengthening `EntryInv` says what can have been done
  by the time main stands at each place (`PlaceInv`) and which mode what was done belongs
  to (`DoneInv`); `ModeAsked` derives from main's chain of tests which flags a mode comes
  with. It rests on no assumption.
- `SuccessLogsOut`: `LoggedOutOnSuccess`. The strengthening `ClientKnows` says that, from the
  login to the logout, an open session is one the Client takes itself to be in, or an
  answer was missed.
- `ScanCovers`: `HostsProbed`, for addresses of any width. A range is a block of `2^k`
  addresses that begins at a multiple of its size, so that its network and broadcast
  addresses are its ends (`Block`, `BlockFits`). Powers of two are not arithmetic to the
  prover: that they double and divide each other is shown by counting the subsets of
  `1..n` (`PowerCounts` and what follows it). It rests on `RangesAssumption`, what the parser
  of the standard library and the checks before the scan grant of a range, and
  `WidthAssumption`.
- `OffsetsAccounted`: `StructureAccounted`, for any library of files of any size and any
  documented ranges. `Absorb` keeps a list of runs apart and in order as long as runs come
  by their offset (`AbsorbStep`, and `MergeCovers` by induction on the sorted runs), the
  loop of subtractRuns and complementRuns leaves what no cut covers (`GapsCover`, whose
  invariant `Good` says what stands before the cuts seen so far), and the runs a set of
  offsets falls into cover that set (`RunsOfCover`). Order is counted: what stands at
  place i has i - 1 below it (`Orders`, `Listing`). It rests on `LibrariesAssumption`, that
  a file that can be read has a size, and on `KnownAssumption`, that the documented ranges
  are finitely many runs.
- `ChangesFaithful`: `DiffFaithful`, for any two files. Two lists of runs with gaps that
  cover the same offsets are the same list (`SameList`), so the runs of a comparison,
  merged, are those of the structure inference (`ComparedRuns`). Field by field, a field
  reads the same where its documented bytes are the same and both files have the same size
  (`FieldStays`), and a field that reads the same passes over whatever byte of it changed
  (`FieldShows`; `TextShows` for names). The key can be taken off a byte again (`XorTells`,
  bit by bit), and a password tells the zeros stripped from it, so that two files give the
  same password for the same slot only (`PasswordTells`, `PasswordShows`). It rests on
  `PairsAssumption`, that a file that can be read has a size and is made of bytes.
- `EntryTyped`: `TypeOK`, from the places of main and the flags that lead to each
  (`Places`, `ParsedFlags`). It rests on `LinesAssumption`.

What they assume of the constants TLC evaluates for the instance of the run, in
`MCHardwareSuite`, `MCCliModes` and `MCDot1QVlan` for the three conditions of single
theorems.

Liveness, and with it the fairness conditions, is model-checked only, as the prover
cannot treat it.

## 5. Disagreements found

- `raw_answers`: BackupConfig and RestoreConfig do not recognise the login page
  (`system.go:156-177`), so a session lost after ensureSession yields the page as
  a backup, and the hardware suite stores it as a snapshot.
- `dot1q_range_access`: `switchport access vlan` over a range leaves only the last
  interface in the VLAN (`cli.go:757-788`).
- `prompt_terminal`: the confirmation prompts read up to a newline while the terminal is
  raw and Enter sends a carriage return (`cli.go:138`, `cli.go:2591`): the prompt of
  reload, copy and write erase hangs until Ctrl-J is typed.
- `flag_order`: main takes a host off the front of the line only (`main.go:224-231`), and
  parsing stops at the first argument that is no flag (`main.go:449`), so the flags
  behind a host that follows a flag are ignored without a word, where `README.md:52` has
  "options" before and after. With `--config-file` among them the program succeeds
  without running the script.

## 6. Plan, and what is not modelled

What would come next:

1. Composition: a CLI (`CliModes`) whose requests go through the session layer
   (`WriteCall` in place of `ClientSession`), so that a script's outcome is related to
   what the switch performed.
2. Proofs: every safety property of the runs has its theorem. What a composition as in 1.
   promises would be the next.

A `new_password` with space around it is set as the plan has it (`suite.go:662`), while
the passwords tried afterwards are trimmed (`suite.go:765`), as the plan's other passwords
are when it is loaded: the suite is then locked out of the switch. `Trimmed` models it; the
run's plan sets no such password, and `NeverLockedOut` has that as a condition. A script
that stops behind its password line strands the suite as well (see HardwareSuite).

A reset that is lost on a dropped connection counts as done (`suite.go:580-596`), and
goes unnoticed when the switch has the post-reset password; `SnapshotsFaithful` excepts
these behaviours through `lossy`.

With `--password-stdin`, ResolvePassword reads the password through a buffered reader of its
own (`cli.go:2620`), and what it read too much is lost to the session that follows: lines
piped behind the password do not reach the line scanner. `InteractiveInput` begins behind
that, with what is left on standard input.

Not modelled: the page parser and the texts of help, completion and show output, all of
them conversions of text without state; what a diff says about the credential block
beyond its changed bytes; the validation of addresses and the rate tables, pure functions
whose refusal is a choice of failure where they are called; what the switch's firmware
does beyond performing, refusing or losing a request; the contents of pages and the
names of VLANs; the examples and release scripts.
