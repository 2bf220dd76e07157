---------------------------- MODULE ProgramEntry ----------------------------
(***************************************************************************)
(* tplink-cli from its command line to its exit status                     *)
(* (src/cmd/tplink-cli/main.go): flags are parsed and checked against each *)
(* other, one mode is chosen, its inputs are read and its work is done.    *)
(*                                                                         *)
(* The offline modes report on backup files (BackupRuns, BackupDiff).  A   *)
(* scan probes the hosts of a range (CidrHosts, and ScanPool for how); the *)
(* suite is HardwareSuite, a connection ClientSession, and the lines of a  *)
(* script or a session CliModes: here they are done or fail.               *)
(***************************************************************************)
EXTENDS BackupDiff, CidrHosts

CONSTANTS CommandLines,  \* command lines, sequences of tokens
          Ranges,        \* what --scan-cidr and --scan-max-hosts give
          Libraries,     \* directories of backups, and --infer-backup-baseline
          Known,         \* the ranges --infer-backup-structure-dir takes as known
          Files,         \* what the file to decode may hold
          Pairs          \* what the two files of a diff may hold

Passwords == {"password", "password-stdin", "password-file", "password-env"}

\* Flags that matter here, given with a value.
Flags ==
  Passwords \cup
  {"user", "config-file", "decode-backup", "diff-backup-base", "diff-backup-candidate",
   "scan-cidr", "infer-backup-structure-dir", "suite-plan"}

Tokens == Flags \cup {"positional", "unknown", "help"}

ASSUME LinesAssumption == CommandLines \subseteq Seq(Tokens)

\* netip.ParsePrefix, and the checks of ScanNetwork and ExpandCIDRHosts.
ASSUME RangesAssumption ==
  \A r \in Ranges : r.valid =>
    r.addr \in Addresses /\ r.bits \in 0..Width /\ r.max \in Nat \ {0}

Unreadable == [size |-> -1, byte |-> <<>>]   \* a file that is not there, or too large

ASSUME LibrariesAssumption ==
  \A library \in Libraries :
    /\ Len(library.files) \in Nat /\ DOMAIN library.files = 1..Len(library.files)
    /\ \A k \in DOMAIN library.files :
         LET data == library.files[k].data IN data = Unreadable \/ data.size \in Nat

\* What os.ReadFile gives is made of bytes.
ASSUME PairsAssumption ==
  \A pair \in Pairs : \A data \in {pair.base, pair.candidate} :
    data = Unreadable \/ (data.size \in Nat /\ \A i \in DOMAIN data.byte : data.byte[i] \in 0..255)

ASSUME KnownAssumption == Known \in SUBSET Runs /\ IsFiniteSet(Known)

NoReport == [kind |-> "none"]

VARIABLES
  line,        \* the command line
  given,       \* the flags parsed, if there is a host, and positional arguments left
  pc,          \* where main stands
  did,         \* what was done on the network, in order
  session,     \* the session on the switch: "none", "open", "closed"
  loggedIn,    \* the Client's loggedIn
  unanswered,  \* whether a login, Logout.htm or dropped write got no answer
  report,      \* what is printed of an offline mode or a scan
  exit         \* the exit status, -1 while the program runs

client == <<session, loggedIn, unanswered>>
vars   == <<line, given, pc, did, client, report, exit>>

Modes == {"decode", "diff", "scan", "infer", "suite", "connect"}

TypeOK ==
  /\ line \in CommandLines
  /\ given.flags \subseteq Flags /\ given.host \in BOOLEAN /\ given.rest \in Nat
  /\ pc \in {"parse", "check", "probe", "login", "info", "script", "interactive", "logout",
             "exited"} \cup Modes
  /\ did \in Seq({"probe", "suite", "login", "info", "script", "interactive", "logout"})
  /\ session \in {"none", "open", "closed"} /\ {loggedIn, unanswered} \subseteq BOOLEAN
  /\ report.kind \in {"none", "decode", "diff", "scan", "infer"}
  /\ exit \in {-1, 0, 1, 2} /\ (exit # -1 <=> pc = "exited")

Init ==
  /\ line \in CommandLines
  /\ given = [flags |-> {}, host |-> FALSE, rest |-> 0]
  /\ pc = "parse" /\ exit = -1
  /\ did = <<>> /\ report = NoReport
  /\ session = "none" /\ loggedIn = FALSE /\ unanswered = FALSE

Exit(status) == pc' = "exited" /\ exit' = status

Goto(label) == pc' = label /\ UNCHANGED exit
-----------------------------------------------------------------------------
(* The command line                                                        *)

\* A first argument that is no flag is the host; what follows is parsed up to the
\* next argument that is no flag.
Leads == line # <<>> /\ line[1] = "positional"

Arguments == IF Leads THEN Tail(line) ELSE line

Parsed ==
  SubSeq(Arguments, 1, Longest({k \in 0..Len(Arguments) :
                                  \A j \in 1..k : Arguments[j] # "positional"}))

\* Bug shape for Stops: an unknown flag is passed over.
StopsForHelp(k) == Parsed[k] = "help"

\* flag.ExitOnError
Stops(k) == Parsed[k] \in {"unknown", "help"}

Lowest(S) == CHOOSE k \in S : \A j \in S : k <= j

Parse ==
  /\ pc = "parse"
  /\ LET stops == {k \in DOMAIN Parsed : Stops(k)} IN
     IF stops # {}
       THEN Exit(IF Parsed[Lowest(stops)] = "help" THEN 0 ELSE 2) /\ UNCHANGED given
       ELSE /\ given' = [flags |-> ToSet(Parsed), host |-> Leads,
                         rest |-> Len(Arguments) - Len(Parsed)]
            /\ Goto("check")
  /\ UNCHANGED <<line, did, client, report>>

Given(flag) == flag \in given.flags

DiffFlags == {"diff-backup-base", "diff-backup-candidate"}
Reading   == DiffFlags \cup {"decode-backup"}

Both(some, others) == given.flags \cap some # {} /\ given.flags \cap others # {}

\* Bug shape for Exclusive: a scan and a suite go together.
ExclusiveButSuite ==
  \/ Both({"decode-backup"}, DiffFlags)
  \/ Both({"infer-backup-structure-dir", "suite-plan", "scan-cidr"}, Reading)
  \/ Both({"scan-cidr"}, {"infer-backup-structure-dir"})
  \/ Both({"infer-backup-structure-dir"}, {"suite-plan"})

Exclusive ==
  \/ Both({"decode-backup"}, DiffFlags)
  \/ Both({"infer-backup-structure-dir", "suite-plan", "scan-cidr"}, Reading)
  \/ Both({"scan-cidr"}, {"suite-plan", "infer-backup-structure-dir"})
  \/ Both({"infer-backup-structure-dir"}, {"suite-plan"})

\* Scans, inferences and suites take no host, no other argument and no script.
Hostful == given.host \/ given.rest > 0 \/ Given("config-file")

\* main's chain of modes, each of which returns.
Mode ==
  IF Given("decode-backup") THEN "decode"
  ELSE IF given.flags \cap DiffFlags # {} THEN "diff"
  ELSE IF Given("scan-cidr") THEN "scan"
  ELSE IF Given("infer-backup-structure-dir") THEN "infer"
  ELSE IF Given("suite-plan") THEN "suite"
  ELSE "connect"

Refused ==
  \/ Exclusive
  \/ Mode = "diff" /\ ~(DiffFlags \subseteq given.flags)
  \/ Mode \in {"scan", "infer", "suite"} /\ Hostful
  \/ Mode = "connect" /\ ~given.host /\ given.rest = 0

Check ==
  /\ pc = "check"
  /\ IF Refused THEN Exit(2) ELSE Goto(Mode)
  /\ UNCHANGED <<line, given, did, client, report>>
-----------------------------------------------------------------------------
(* The offline modes                                                       *)

Shown(r) == report' = r /\ Exit(0)

Decode ==
  /\ pc = "decode"
  /\ \E data \in Files :
       IF data = Unreadable \/ DecodeFails(data) THEN Exit(1) /\ UNCHANGED report
       ELSE Shown([kind |-> "decode", of |-> data, fields |-> DecodeBackupConfig(data)])
  /\ UNCHANGED <<line, given, did, client>>

Diff ==
  /\ pc = "diff"
  /\ \E pair \in Pairs :
       IF Unreadable \in {pair.base, pair.candidate}
          \/ DecodeFails(pair.base) \/ DecodeFails(pair.candidate)
       THEN Exit(1) /\ UNCHANGED report
       ELSE Shown([kind |-> "diff", of |-> pair,
                   result |-> CompareBackupConfigs(pair.base, pair.candidate)])
  /\ UNCHANGED <<line, given, did, client>>

\* loadBackupsForStructureInference.  A library is [files, baseline]: the entries of
\* the directory by name, and the number of the one --infer-backup-baseline names, 0
\* without the flag and -1 for what is not an entry.
Backups(library) ==
  {k \in DOMAIN library.files : library.files[k].kind = "regular" /\ library.files[k].bin}

Baseline(library) ==
  LET named == {k \in Backups(library) : library.files[k].named}
  IN  IF library.baseline # 0 THEN library.baseline
      ELSE IF named # {} THEN Lowest(named) ELSE Lowest(Backups(library))

LoadFails(library) ==
  \/ Cardinality(Backups(library)) < 2
  \/ Baseline(library) \notin Backups(library)
  \/ \E k \in Backups(library) : library.files[k].data = Unreadable

Samples(library) == Ascending(Backups(library) \ {Baseline(library)})

Infer ==
  /\ pc = "infer"
  /\ \E library \in Libraries :
       IF LoadFails(library) \/ library.files[Baseline(library)].data.size = 0
       THEN Exit(1) /\ UNCHANGED report
       ELSE LET samples == Samples(library)
                Data(k) == library.files[k].data
            IN  Shown([kind |-> "infer", of |-> library, samples |-> samples,
                       result |-> InferBackupStructure(Known, Data(Baseline(library)),
                                    [k \in DOMAIN samples |-> Data(samples[k])])])
  /\ UNCHANGED <<line, given, did, client>>
-----------------------------------------------------------------------------
(* The modes on the network                                                *)

\* ResolvePassword: the first of its sources that was given.  Standard input and the
\* password file may fail to yield one; the environment falls back to a default.
PasswordSource ==
  IF Given("password") THEN "password"
  ELSE IF Given("password-stdin") THEN "stdin"
  ELSE IF Given("password-file") THEN "file"
  ELSE "environment"

Resolve(label) == Goto(label) \/ (PasswordSource \in {"stdin", "file"} /\ Exit(2))

\* Without both a user and a password the scan only takes fingerprints.
Authenticates == Given("user") /\ given.flags \cap Passwords # {}

Scan ==
  /\ pc = "scan"
  /\ IF Authenticates THEN Resolve("probe") ELSE Goto("probe")
  /\ UNCHANGED <<line, given, did, client, report>>

Probe ==
  /\ pc = "probe"
  /\ \E r \in Ranges :
       IF ~r.valid THEN Exit(2) /\ UNCHANGED <<did, report>>
       ELSE /\ did' = Append(did, "probe")
            /\ Shown([kind |-> "scan", of |-> r, result |-> ExpandCIDRHosts(r.addr, r.bits, r.max)])
  /\ UNCHANGED <<line, given, client>>

Suite ==
  /\ pc = "suite"
  /\ did' = Append(did, "suite")
  /\ \E status \in {0, 1} : Exit(status)
  /\ UNCHANGED <<line, given, client, report>>

Connect ==
  /\ pc = "connect"
  /\ Resolve("login")
  /\ UNCHANGED <<line, given, did, client, report>>

\* Client.Login succeeds.
SignedIn == loggedIn' = TRUE /\ session' = "open" /\ UNCHANGED unanswered

\* An answer that is not recognised passes for a login while an old cookie is there.
SignedInByCookie == loggedIn' = TRUE /\ session' = "closed" /\ UNCHANGED unanswered

\* It is refused, or returns an error whatever the switch made of it; before it, the
\* Client's loggedIn was b and the session s.
SignInFails(b, s) ==
  /\ loggedIn' = b
  /\ \/ session' = s /\ UNCHANGED unanswered
     \/ session' \in {s, "open"} /\ unanswered' = TRUE

Login ==
  /\ pc = "login"
  /\ did' = Append(did, "login")
  /\ \/ SignedIn /\ Goto("info")
     \/ SignInFails(FALSE, "none") /\ Exit(1)
  /\ UNCHANGED <<line, given, report>>

\* doGet logs in again if the page is the login page.  An error exits past the deferred
\* Logout.
GetSystemInfo ==
  /\ pc = "info"
  /\ did' = Append(did, "info")
  /\ \/ /\ UNCHANGED client \/ SignedIn
        /\ Goto(IF Given("config-file") THEN "script" ELSE "interactive")
     \/ /\ UNCHANGED client \/ SignedIn \/ SignedInByCookie \/ SignInFails(FALSE, "closed")
        /\ Exit(1)
  /\ UNCHANGED <<line, given, report>>

\* What a request of a script or session may do to the session (ClientSession): it has
\* ended and the Client logs in again or cannot; the Client logs in by its clock; a write
\* is dropped and taken for done; the switch ends it, as a reset does.
Request ==
  /\ pc \in {"script", "interactive"}
  /\ \/ SignedIn \/ SignedInByCookie \/ SignInFails(FALSE, "closed")
     \/ SignInFails(loggedIn, session)
     \/ loggedIn /\ loggedIn' = FALSE /\ session' \in {session, "closed"} /\ unanswered' = TRUE
     \/ session' = "closed" /\ UNCHANGED <<loggedIn, unanswered>>
  /\ UNCHANGED <<line, given, pc, did, report, exit>>

Script ==
  /\ pc = "script"
  /\ did' = Append(did, "script")
  /\ Goto("logout") \/ Exit(1)
  /\ UNCHANGED <<line, given, client, report>>

\* The session ends with exit or the end of input, or on an error of the reader.
Interact ==
  /\ pc = "interactive"
  /\ did' = Append(did, "interactive")
  /\ Goto("logout") \/ Exit(1)
  /\ UNCHANGED <<line, given, client, report>>

\* Bug shape for Logout: nobody logs out.
LogoutForgotten ==
  /\ pc = "logout" /\ Exit(0)
  /\ UNCHANGED <<line, given, did, client, report>>

\* Logout.htm is sent if the Client takes itself for logged in, and whatever becomes of
\* it is ignored.
Logout ==
  /\ pc = "logout" /\ Exit(0)
  /\ IF loggedIn
       THEN /\ did' = Append(did, "logout")
            /\ \/ session' = "closed" /\ UNCHANGED unanswered
               \/ session' \in {session, "closed"} /\ unanswered' = TRUE
       ELSE UNCHANGED <<did, session, unanswered>>
  /\ loggedIn' = FALSE
  /\ UNCHANGED <<line, given, report>>

Next ==
  \/ Parse \/ Check \/ Decode \/ Diff \/ Infer \/ Scan \/ Probe \/ Suite \/ Connect
  \/ Login \/ GetSystemInfo \/ Request \/ Script \/ Interact \/ Logout

Spec == Init /\ [][Next]_vars
-----------------------------------------------------------------------------
(* Properties                                                              *)

Did(what) == what \in ToSet(did)

ModeFlags == Reading \cup {"scan-cidr", "infer-backup-structure-dir", "suite-plan"}

\* What is done on the network was asked for and nothing else was: a line that also
\* asks for another mode, or names a switch, never resets the switch of a suite plan
\* or scans; and a line refused as misused has done and printed nothing.
OneModeOnly ==
  LET asked == given.flags \cap ModeFlags IN
  /\ Did("suite") => asked = {"suite-plan"} /\ ~given.host /\ ~Given("config-file")
  /\ Did("probe") => asked = {"scan-cidr"} /\ ~given.host /\ ~Given("config-file")
  /\ Did("login") => asked = {}
  /\ report.kind \in {"decode", "diff", "infer"} => did = <<>>
  /\ exit = 2 => did = <<>> /\ report = NoReport

\* A run that exits with 0 has left no session on the switch, which has room for few,
\* unless a login, Logout.htm or dropped write came back without an answer: also where the
\* session was lost on the way and the Client logged in again, or failed to.
LoggedOutOnSuccess == exit = 0 /\ session = "open" => unanswered

\* The hosts of a scan are the usable addresses of the range in ascending order, or
\* the first of them, and the report says which, up to the end of the address space.
HostsProbed ==
  report.kind = "scan" =>
    LET hosts  == report.result.hosts
        usable == Usable(report.of.addr, report.of.bits)
    IN  /\ ToSet(hosts) \subseteq usable
        /\ \A k \in DOMAIN hosts : k > 1 => hosts[k] = hosts[k - 1] + 1
        /\ \A a \in usable \ ToSet(hosts) : report.result.truncated /\ hosts[1] < a
        /\ report.result.truncated => Len(hosts) = report.of.max /\ Cardinality(usable) > Len(hosts)

\* Runs in ascending order with a gap between any two.
Apart(runs) ==
  \A k \in DOMAIN runs :
    runs[k].length > 0 /\ (k > 1 => runs[k].offset > End(runs[k - 1]))

\* Every regular backup of the library is the baseline or a sample, once; and every
\* offset up to the longest of them is known, or changed and undocumented, or the same
\* everywhere and unknown, whatever runs the ranges and files make.
StructureAccounted ==
  report.kind = "infer" =>
    LET library == report.of
        r       == report.result
        first   == CHOOSE k \in Backups(library) : k \notin ToSet(report.samples)
        data    == library.files[first].data
        changed == {i \in 0..(r.span - 1) :
                      \E k \in ToSet(report.samples) : Differs(data, library.files[k].data, i)}
    IN  /\ Cardinality(Backups(library)) = Len(report.samples) + 1
        /\ library.baseline # 0 => library.baseline = first
        /\ \A k \in Backups(library) : library.files[k].data.size <= r.span
        /\ Offsets(ToSet(r.union)) = changed
        /\ Offsets(ToSet(r.undocumented)) = changed \ Offsets(Known)
        /\ Offsets(ToSet(r.static)) = (0..(r.span - 1)) \ (changed \cup Offsets(Known))
        /\ Apart(r.union) /\ Apart(r.undocumented) /\ Apart(r.static)

\* A changed byte of a field that the field's report need not show: part of a range
\* that is documented but not decoded, text behind the end of a name or next to
\* blanks, one flag value for another, or values that are not recognised, or not all
\* there, before and after.
PassedOver(field, base, candidate, i) ==
  LET name == field[1]
      both == {base, candidate}
      text == {j \in KnownOffsets(field) : j <= i}
  IN  \/ name = "Port-VLAN-members" /\ i # MatrixAt(1)
      \/ name = "Spanning-tree" /\ i = LoopPreventionMode
      \/ /\ name \in {"Hostname", "VLAN-name"}
         /\ \/ \A d \in both : \E j \in text : ByteAt(d, j) = 0
            \/ \E d \in both : \E j \in KnownOffsets(field) : ByteAt(d, j) \in Blanks
      \/ /\ name \in {"DHCP", "Spanning-tree", "IGMP", "IGMP-report-suppression", "LED"}
         /\ \A d \in both : ByteAt(d, i) # 0
      \/ name = "Mirror-destination" /\ \A d \in both : ByteAt(d, i) > 8
      \/ \A d \in both : \E j \in KnownOffsets(field) :
           \/ ~InRange(d, j)
           \/ name \in {"QoS-priorities", "QoS-gi1-priority"} /\ ~Recognised(ByteAt(d, j))

\* A diff and a structure inference agree on what changed; a field is reported as
\* changed only over a changed byte of its documented range, or because one file is
\* too short for it; a changed byte of such a range is reported unless the report
\* passes it over; and a changed password slot always shows.
DiffFaithful ==
  report.kind = "diff" =>
    LET base      == report.of.base
        candidate == report.of.candidate
        r         == report.result
        Moved(i)  == ByteAt(base, i) # ByteAt(candidate, i)
    IN  /\ MergeRuns(ToSet(r.runs)) = ComputeChangedRuns(base, candidate)
        /\ r.changed = Cardinality(Offsets(ToSet(r.runs)))
        /\ \A f \in r.fields : base.size # candidate.size \/ \E i \in KnownOffsets(f) : Moved(i)
        /\ \A f \in Fields \ r.fields : \A i \in KnownOffsets(f) :
             Moved(i) => PassedOver(f, base, candidate, i)
        /\ r.password <=> \E i \in Offset(PasswordSlot) : Moved(i)

\* Every flag of a line that ran successfully had its effect, wherever it stood.
FlagsHonoured ==
  exit = 0 /\ "help" \notin ToSet(line) => ToSet(line) \ {"positional"} \subseteq given.flags
=============================================================================
