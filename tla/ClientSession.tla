---------------------------- MODULE ClientSession ----------------------------
(***************************************************************************)
(* The session layer of the SDK (src/tplink/client.go): one Client, the    *)
(* HTTP exchange it waits for, and the switch that may lose the session,   *)
(* the connection or the answer at any moment.                             *)
(*                                                                         *)
(* A call enters through ensureSession, which logs in when the Client has  *)
(* no session or believes it too old, then sends its request.  doGet,      *)
(* cfgGet and cfgPost answer a login page by logging in again and sending  *)
(* once more; cfgGet and cfgPost take a dropped connection for success;    *)
(* BackupConfig and RestoreConfig hand back whatever arrives.              *)
(***************************************************************************)
EXTENDS Naturals, FiniteSets

CONSTANTS MaxCalls,     \* bound: calls made on the Client in one behaviour
          Ops,          \* operations a behaviour may use
          SwitchPorts   \* ports of the switch, read from its port page

Calls == 1..MaxCalls

DefaultPorts == 8

\* Operations by the wrapper they go through.
Pages      == {"page"}                                              \* doGet
Configures == {"get_setting", "post_setting", "password", "reboot", \* cfgGet,
               "factory_reset"}                                     \* cfgPost
Raw        == {"backup", "restore"}                                 \* rawRequest
AllOps     == {"login"} \cup Pages \cup Configures \cup Raw

Writes == Configures \cup {"restore"}
Posts  == {"post_setting", "restore"}

\* The admin password of the switch: the one this Client was created with,
\* one set through ChangePassword, the factory default.
Passwords == {"client", "changed", "factory"}

ASSUME ConstantsAssumption ==
  /\ MaxCalls \in Nat
  /\ Ops \subseteq AllOps
  /\ SwitchPorts \in Nat \ {0}

VARIABLES
  loggedIn, expired,  \* Client.loggedIn; loginTime is older than sessionTTL
  cookie,             \* the jar holds an H_P_SSID cookie
  portCount,          \* Client.portCount
  pc,                 \* what the call in progress is doing
  n,                  \* calls made so far; n is the one in progress
  op, result,         \* per call: its operation and what it returned
  attempt,            \* 1 for the first request of the call, 2 for its retry
  wire,               \* the exchange the Client waits for
  reused,             \* the transport may repeat it on a fresh connection
  dup, executed,      \* per call: transport repeats, executions by the switch
  live,               \* the switch honours the session of the cookie
  password,           \* the admin password of the switch
  late                \* calls that timed out while the switch held the request

client == <<loggedIn, expired, cookie, portCount>>
ledger == <<op, dup, executed, result>>
switch == <<live, password, late>>
vars   == <<client, pc, n, ledger, attempt, wire, reused, switch>>

Errors == {"drop", "timeout", "timeout_eof", "status", "status_eof"}

Outcomes == {"body", "nil", "login_page", "auth_error", "error"}

\* isConnDrop also accepts any error whose text contains "eof".  The text of a
\* timeout quotes the URL and that of a bad status the URL and the answer.
IsConnDrop(e) == e \in {"drop", "timeout_eof", "status_eof"}

\* Bug shape for NoSession: only the age of the session is looked at.
NoSessionAgeOnly == expired

NoSession == ~loggedIn \/ expired

TypeOK ==
  /\ loggedIn \in BOOLEAN /\ expired \in BOOLEAN /\ cookie \in BOOLEAN
  /\ portCount \in {DefaultPorts, SwitchPorts}
  /\ pc \in {"idle", "login", "ports", "waiting"}
  /\ n \in 0..MaxCalls
  /\ pc # "idle" => n >= 1
  /\ op \in [Calls -> Ops \cup {"none"}]
  /\ result \in [Calls -> Outcomes \cup {"none"}]
  /\ attempt \in {1, 2}
  /\ wire \in {"none", "request", "body", "login_page"} \cup Errors
  /\ reused \in BOOLEAN
  /\ dup \in [Calls -> Nat] /\ executed \in [Calls -> Nat]
  /\ live \in BOOLEAN /\ password \in Passwords
  /\ late \in SUBSET Calls

Init ==
  /\ loggedIn = FALSE /\ expired = FALSE /\ cookie = FALSE
  /\ portCount = DefaultPorts
  /\ pc = "idle" /\ n = 0 /\ attempt = 1
  /\ op = [c \in Calls |-> "none"] /\ result = [c \in Calls |-> "none"]
  /\ wire = "none" /\ reused = FALSE
  /\ dup = [c \in Calls |-> 0] /\ executed = [c \in Calls |-> 0]
  /\ live = FALSE /\ password \in {"client", "changed"} /\ late = {}
-----------------------------------------------------------------------------
(* The Client                                                              *)

\* A public method is called; ensureSession decides whether to log in first.
Begin(o) ==
  /\ pc = "idle" /\ n < MaxCalls
  /\ n' = n + 1
  /\ op' = [op EXCEPT ![n + 1] = o]
  /\ attempt' = 1
  /\ IF o = "login" \/ NoSession
       THEN pc' = "login" /\ UNCHANGED <<wire, reused>>
       ELSE pc' = "waiting" /\ wire' = "request" /\ reused' = TRUE
  /\ UNCHANGED <<client, dup, executed, result, switch>>

\* The call in progress returns r.  Reboot and FactoryReset forget the session
\* whatever they return.
Return(r, in) ==
  /\ pc' = "idle" /\ wire' = "none"
  /\ result' = [result EXCEPT ![n] = r]
  /\ loggedIn' = (in /\ op[n] \notin {"reboot", "factory_reset"})

\* The switch accepts the password and issues a new session.
LoginAccepted ==
  /\ pc = "login" /\ password = "client"
  /\ cookie' = TRUE /\ live' = TRUE
  /\ loggedIn' = TRUE /\ expired' = FALSE
  /\ pc' = "ports"
  /\ UNCHANGED <<portCount, n, ledger, attempt, wire, reused, password, late>>

\* errType # 0.  A Client whose session was only too old keeps loggedIn.
LoginRejected ==
  /\ pc = "login" /\ password # "client"
  /\ Return("auth_error", loggedIn)
  /\ UNCHANGED <<expired, cookie, portCount, n, op, dup, executed, attempt,
                 reused, switch>>

\* The answer holds no errType and sets no cookie: an earlier session's cookie,
\* still in the jar, makes it a success.
LoginUnrecognised ==
  /\ pc = "login"
  /\ IF cookie
       THEN /\ loggedIn' = TRUE /\ expired' = FALSE /\ pc' = "ports"
            /\ UNCHANGED <<result, wire>>
       ELSE Return("error", loggedIn) /\ UNCHANGED expired
  /\ UNCHANGED <<cookie, portCount, n, op, dup, executed, attempt, reused, switch>>

LoginFails ==
  /\ pc = "login"
  /\ Return("error", loggedIn)
  /\ UNCHANGED <<expired, cookie, portCount, n, op, dup, executed, attempt,
                 reused, switch>>

\* Bug shape for PortsRead: the parsed value is stored without n > 0.
PortsReadUnchecked == {portCount, IF live THEN SwitchPorts ELSE 0}

PortsRead == {portCount} \cup IF live THEN {SwitchPorts} ELSE {}

\* The end of Login reads the port count from the port page, if that arrives.
\* The call goes on to its request, or returns when it was Login itself.
ReadPortCount ==
  /\ pc = "ports"
  /\ portCount' \in PortsRead
  /\ IF op[n] = "login"
       THEN Return("body", loggedIn) /\ UNCHANGED reused
       ELSE /\ pc' = "waiting" /\ wire' = "request" /\ reused' = TRUE
            /\ UNCHANGED <<loggedIn, result>>
  /\ UNCHANGED <<expired, cookie, n, op, dup, executed, attempt, switch>>

\* cfgGet and cfgPost return (nil, nil) for the first request of a call only.
TakenForSuccess ==
  op[n] \in Configures /\ attempt = 1 /\ IsConnDrop(wire)

ReceiveBody ==
  /\ pc = "waiting" /\ wire = "body"
  /\ Return("body", loggedIn)
  /\ UNCHANGED <<expired, cookie, portCount, n, op, dup, executed, attempt,
                 reused, switch>>

ReceiveError ==
  /\ pc = "waiting" /\ wire \in Errors
  /\ IF TakenForSuccess THEN Return("nil", FALSE) ELSE Return("error", loggedIn)
  /\ UNCHANGED <<expired, cookie, portCount, n, op, dup, executed, attempt,
                 reused, switch>>

\* Bug shapes for LogsInAgain: a dropped connection, or a timeout, is answered
\* like a login page; the second login page of a call is answered too.
LogsInAgainAfterDrop ==
  wire \in {"login_page", "drop"} /\ op[n] \notin Raw /\ attempt = 1
LogsInAgainAfterTimeout ==
  wire \in {"login_page", "timeout"} /\ op[n] \notin Raw /\ attempt = 1
LogsInAgainForEver == wire = "login_page" /\ op[n] \notin Raw

LogsInAgain == wire = "login_page" /\ op[n] \notin Raw /\ attempt = 1

RetryAfterLogin ==
  /\ pc = "waiting" /\ LogsInAgain
  /\ loggedIn' = FALSE
  /\ pc' = "login" /\ attempt' = 2 /\ wire' = "none"
  /\ UNCHANGED <<expired, cookie, portCount, n, ledger, reused, switch>>

\* The body of a retry, and any body of a raw request, goes back unread.
ReceiveLoginPage ==
  /\ pc = "waiting" /\ wire = "login_page" /\ ~LogsInAgain
  /\ Return("login_page", loggedIn)
  /\ UNCHANGED <<expired, cookie, portCount, n, op, dup, executed, attempt,
                 reused, switch>>

\* Logout.htm is requested on a best-effort basis; the cookie goes either way.
Logout ==
  /\ pc = "idle"
  /\ loggedIn' = FALSE /\ cookie' = FALSE /\ live' = FALSE
  /\ UNCHANGED <<expired, portCount, pc, n, ledger, attempt, wire, reused,
                 password, late>>
-----------------------------------------------------------------------------
(* The switch, the network and the HTTP transport                          *)

\* What performing o does to sessions and to the admin password.
Effect(o) ==
  /\ live' = (live /\ o \notin {"reboot", "factory_reset", "restore"})
  /\ password' \in {p \in Passwords :
       /\ o = "password"      => p = "changed"
       /\ o = "factory_reset" => p = "factory"
       /\ o \notin {"password", "factory_reset", "restore"} => p = password}

SwitchAnswers ==
  /\ pc = "waiting" /\ wire = "request" /\ live
  /\ wire' = "body"
  /\ IF op[n] \in Writes
       THEN executed' = [executed EXCEPT ![n] = @ + 1] /\ Effect(op[n])
       ELSE UNCHANGED <<executed, live, password>>
  /\ UNCHANGED <<client, pc, n, op, dup, result, attempt, reused, late>>

SwitchDemandsLogin ==
  /\ pc = "waiting" /\ wire = "request" /\ ~live
  /\ wire' = "login_page"
  /\ UNCHANGED <<client, pc, n, ledger, attempt, reused, switch>>

SwitchFails ==
  /\ pc = "waiting" /\ wire = "request"
  /\ wire' \in {"status", "status_eof"}
  /\ UNCHANGED <<client, pc, n, ledger, attempt, reused, switch>>

ConnectionDrops ==
  /\ pc = "waiting" /\ wire \in {"request", "body", "login_page"}
  /\ wire' = "drop"
  /\ UNCHANGED <<client, pc, n, ledger, attempt, reused, switch>>

\* http.Client.Timeout.  A request the switch still holds may be performed later.
TimesOut ==
  /\ pc = "waiting" /\ wire \in {"request", "body", "login_page"}
  /\ wire' \in {"timeout", "timeout_eof"}
  /\ late' = IF wire = "request" /\ op[n] \in Writes THEN late \cup {n} ELSE late
  /\ UNCHANGED <<client, pc, n, ledger, attempt, reused, live, password>>

\* net/http repeats a GET whose reused connection closed before an answer.
TransportRepeats ==
  /\ pc = "waiting" /\ wire = "drop" /\ reused /\ op[n] \notin Posts
  /\ wire' = "request" /\ reused' = FALSE
  /\ dup' = [dup EXCEPT ![n] = @ + 1]
  /\ UNCHANGED <<client, pc, n, op, executed, result, attempt, switch>>

LateExecution(c) ==
  /\ c \in late
  /\ late' = late \ {c}
  /\ executed' = [executed EXCEPT ![c] = @ + 1]
  /\ Effect(op[c])
  /\ UNCHANGED <<client, pc, n, op, dup, result, attempt, wire, reused>>

LateDiscarded(c) ==
  /\ c \in late
  /\ late' = late \ {c}
  /\ UNCHANGED <<client, pc, n, ledger, attempt, wire, reused, live, password>>

\* The switch reboots, expires the session or gives it to another administrator.
SessionLost ==
  /\ live /\ live' = FALSE
  /\ UNCHANGED <<client, pc, n, ledger, attempt, wire, reused, password, late>>

SessionAges ==
  /\ loggedIn /\ ~expired /\ expired' = TRUE
  /\ UNCHANGED <<loggedIn, cookie, portCount, pc, n, ledger, attempt, wire,
                 reused, switch>>
-----------------------------------------------------------------------------
LoginStep == LoginAccepted \/ LoginRejected \/ LoginUnrecognised \/ LoginFails

Receive == ReceiveBody \/ ReceiveError \/ RetryAfterLogin \/ ReceiveLoginPage

ExchangeEnds ==
  SwitchAnswers \/ SwitchDemandsLogin \/ SwitchFails \/ ConnectionDrops \/ TimesOut

Next ==
  \/ \E o \in Ops : Begin(o)
  \/ LoginStep \/ ReadPortCount \/ Receive \/ Logout
  \/ ExchangeEnds \/ TransportRepeats
  \/ \E c \in Calls : LateExecution(c) \/ LateDiscarded(c)
  \/ SessionLost \/ SessionAges

\* The Client's goroutine runs, and http.Client.Timeout ends every exchange.
Fairness == WF_vars(LoginStep) /\ WF_vars(ReadPortCount) /\ WF_vars(Receive)
            /\ WF_vars(ExchangeEnds)

Spec == Init /\ [][Next]_vars

FairSpec == Spec /\ Fairness
-----------------------------------------------------------------------------
(* Properties                                                              *)

\* No page, setting or backup is requested without a session cookie, and a
\* Client that says it is logged in has one: ensureSession, Login and Logout
\* keep loggedIn and the cookie jar in step across every failure.
SessionBacked ==
  /\ loggedIn => cookie
  /\ live => cookie
  /\ pc \in {"ports", "waiting"} => cookie

\* A call changes the switch at most once, however often the session or the
\* connection is lost while it runs and after it timed out: cfgGet, cfgPost and
\* RestoreConfig never resend what the switch may have performed.  Only the HTTP
\* transport repeats by itself, and only what is sent as GET.
AtMostOnce ==
  \A c \in Calls : /\ executed[c] <= 1 + dup[c]
                   /\ op[c] \in Posts => executed[c] <= 1

\* A setter that returned the switch's answer was performed, and one that
\* returned a login page as its answer, or was refused the password, was not
\* performed by any request the Client itself sent.
OutcomeHonest ==
  \A c \in Calls : op[c] \in Writes =>
    /\ result[c] = "body" => executed[c] >= 1
    /\ result[c] \in {"login_page", "auth_error"} => executed[c] <= dup[c]

\* Once a call has returned an answer of the switch nothing it sent can take
\* effect any more; only calls that failed, or whose timeout was taken for a
\* dropped connection, may still change the switch behind the caller's back.
NoEffectAfterAnswer ==
  [][\A c \in Calls : executed'[c] # executed[c] =>
       result[c] \in {"none", "nil", "error"}]_vars

\* Every call returns: the re-login of doGet, cfgGet and cfgPost is tried once,
\* so a switch that keeps answering with its login page cannot trap the caller.
CallReturns == pc # "idle" ~> pc = "idle"

\* A backup that BackupConfig returns is a configuration, and a restore that
\* RestoreConfig reports as done was done.
RawAnswersAreData ==
  \A c \in Calls : op[c] \in Raw => result[c] # "login_page"

\* The calls behave as WriteCall promises.  A copy of a request is in reach of
\* the switch while the exchange is open or after it timed out.
Copies == [c \in Calls |->
  IF c \in late \/ (c = n /\ pc = "waiting" /\ wire = "request") THEN 1 ELSE 0]

Contract == INSTANCE WriteCall WITH copies <- Copies

ImplementsWriteCall == Contract!Spec
-----------------------------------------------------------------------------
(* The inductive invariant behind SessionBacked, AtMostOnce, OutcomeHonest *)
(* and the refinement.                                                     *)

CallOpen == pc # "idle"

\* Calls that have not started own nothing yet; the others have an operation,
\* and all but the one in progress have returned.
CallsInOrder ==
  \A c \in Calls :
    /\ c > n  => /\ op[c] = "none" /\ result[c] = "none" /\ c \notin late
                 /\ dup[c] = 0 /\ executed[c] = 0
    /\ c <= n => op[c] \in Ops
    /\ result[c] = "none" <=> (c > n \/ (c = n /\ CallOpen))

\* The exchange belongs to the call in progress, which is not Login itself.
ExchangeOwned ==
  /\ pc = "waiting" <=> wire # "none"
  /\ pc = "waiting" => op[n] # "login"

\* While the Client may still send, the switch has performed no request of the
\* call that the transport did not repeat; an answer to a write proves it done.
SendsAreSafe ==
  CallOpen =>
    /\ pc \in {"login", "ports"} \/ wire \in {"request", "login_page"}
         => executed[n] <= dup[n]
    /\ wire = "body" /\ op[n] \in Writes => executed[n] >= 1

\* A request left at the switch is the unperformed one of a call that timed out.
LateIsUnanswered ==
  \A c \in late :
    /\ op[c] \in Writes /\ executed[c] <= dup[c]
    /\ result[c] \in {"none", "nil", "error"}
    /\ result[c] = "none" => wire \in {"timeout", "timeout_eof"}

CallInv ==
  /\ SessionBacked /\ AtMostOnce /\ OutcomeHonest
  /\ \A c \in Calls : op[c] \in Posts => dup[c] = 0
  /\ CallsInOrder /\ ExchangeOwned /\ SendsAreSafe /\ LateIsUnanswered
=============================================================================
