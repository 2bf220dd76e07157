------------------------------ MODULE ScanPool ------------------------------
(***************************************************************************)
(* ScanNetwork (src/tplink/scan.go): the caller's goroutine feeds hosts    *)
(* over the unbuffered channel jobs to a pool of workers, which probe them *)
(* and put one result each into the channel results, whose capacity is the *)
(* number of hosts.  The caller closes jobs, waits for the workers, closes *)
(* results, drains and sorts it.  A probe fingerprints the web UI, then    *)
(* logs in, reads the system page, with a second login if the first no     *)
(* longer counts, and logs out (src/tplink/client.go).                     *)
(***************************************************************************)
EXTENDS Naturals, FiniteSets, Sequences, SequencesExt

CONSTANTS NumHosts,         \* len(hosts); host i is the i-th in address order
          Workers,          \* options.Workers
          FingerprintOnly   \* options.FingerprintOnly

ASSUME ConstantsAssumption ==
  NumHosts \in Nat /\ Workers \in Nat \ {0} /\ FingerprintOnly \in BOOLEAN

Hosts == 1..NumHosts

WorkerCount == IF Workers > NumHosts /\ NumHosts > 0 THEN NumHosts ELSE Workers

Pool == 1..WorkerCount

VARIABLES
  main,           \* where ScanNetwork stands
  next,           \* the host it offers on jobs
  at, job,        \* per worker: where it stands, and the host it works on
  verdict,        \* per worker: the outcome of its probe
  results,        \* the buffer of the channel results
  resultsClosed,
  out,            \* ScanReport.Results
  loggedIn,       \* per worker: its Client's loggedIn
  sessions,       \* hosts that hold a session of their probe
  unanswered      \* hosts a login or Logout.htm came back from with an error

session == <<loggedIn, sessions, unanswered>>
vars    == <<main, next, at, job, verdict, results, resultsClosed, out, session>>

Verdicts == {"ok", "unreachable", "not_tplink", "login_failed", "no_info"}

Result == [host : Hosts, verdict : Verdicts]

Stages == {"receive", "root", "logon_unanswered", "logon_answered", "login", "info",
           "relogin", "logout", "send", "exited"}

TypeOK ==
  /\ main \in {"sending", "waiting", "draining", "done"}
  /\ next \in 1..(NumHosts + 1)
  /\ at \in [Pool -> Stages]
  /\ job \in [Pool -> Hosts \cup {0}]
  /\ verdict \in [Pool -> Verdicts]
  /\ results \in Seq(Result) /\ out \in Seq(Result)
  /\ resultsClosed \in BOOLEAN
  /\ loggedIn \in [Pool -> BOOLEAN] /\ sessions \subseteq Hosts /\ unanswered \subseteq Hosts

Init ==
  /\ main = "sending" /\ next = 1
  /\ at = [w \in Pool |-> "receive"]
  /\ job = [w \in Pool |-> 0]
  /\ verdict = [w \in Pool |-> "ok"]
  /\ results = <<>> /\ resultsClosed = FALSE /\ out = <<>>
  /\ loggedIn = [w \in Pool |-> FALSE] /\ sessions = {} /\ unanswered = {}
-----------------------------------------------------------------------------
(* The caller's goroutine                                                  *)

\* Bug shape for MoreHosts: off by one at the end of hosts.
MoreHostsOffByOne == next <= NumHosts + 1

MoreHosts == next <= NumHosts

\* jobs <- host meets a worker ranging over jobs.
Handoff(w) ==
  /\ main = "sending" /\ MoreHosts /\ at[w] = "receive"
  /\ job' = [job EXCEPT ![w] = next]
  /\ at' = [at EXCEPT ![w] = "root"]
  /\ next' = next + 1
  /\ UNCHANGED <<main, verdict, results, resultsClosed, out, session>>

CloseJobs ==
  /\ main = "sending" /\ ~MoreHosts
  /\ main' = "waiting"
  /\ UNCHANGED <<next, at, job, verdict, results, resultsClosed, out, session>>

\* Bug shape for PoolFinished: wg.Wait is left out.
PoolNotAwaited == TRUE

PoolFinished == \A w \in Pool : at[w] = "exited"

\* wg.Wait returns, and results is closed.
CloseResults ==
  /\ main = "waiting" /\ PoolFinished
  /\ main' = "draining" /\ resultsClosed' = TRUE
  /\ UNCHANGED <<next, at, job, verdict, results, out, session>>

Drain ==
  /\ main = "draining" /\ results # <<>>
  /\ out' = Append(out, Head(results)) /\ results' = Tail(results)
  /\ UNCHANGED <<main, next, at, job, verdict, resultsClosed, session>>

\* Bug shape for Sorted: the results stay in the order they arrived in.
Unsorted(rs) == {rs}

\* What sort.Slice may make of rs.
Sorted(rs) ==
  {s \in {[i \in DOMAIN rs |-> rs[f[i]]] : f \in Bijection(DOMAIN rs, DOMAIN rs)} :
     \A i, j \in DOMAIN s : i < j => s[i].host <= s[j].host}

Report ==
  /\ main = "draining" /\ results = <<>>
  /\ main' = "done" /\ out' \in Sorted(out)
  /\ UNCHANGED <<next, at, job, verdict, results, resultsClosed, session>>
-----------------------------------------------------------------------------
(* A worker                                                                *)

Goto(w, stage) ==
  /\ at' = [at EXCEPT ![w] = stage]
  /\ UNCHANGED <<main, next, job, results, resultsClosed, out>>

Decide(w, v) == verdict' = [verdict EXCEPT ![w] = v] /\ Goto(w, "send")

\* The body of / or of /logon.cgi looks like a TP-Link web UI.
Recognised(w) ==
  IF FingerprintOnly THEN Decide(w, "ok") ELSE Goto(w, "login") /\ UNCHANGED verdict

FetchRoot(w) ==
  /\ at[w] = "root"
  /\ \/ Recognised(w)
     \/ \E s \in {"logon_unanswered", "logon_answered"} : Goto(w, s) /\ UNCHANGED verdict
  /\ UNCHANGED session

\* A host is unreachable only if neither page was answered.
FetchLogon(w) ==
  /\ at[w] \in {"logon_unanswered", "logon_answered"}
  /\ \/ Recognised(w)
     \/ Decide(w, "not_tplink")
     \/ at[w] = "logon_unanswered" /\ Decide(w, "unreachable")
  /\ UNCHANGED session

SetLoggedIn(w, b) == loggedIn' = [loggedIn EXCEPT ![w] = b]

\* Client.Login: the switch opens a session; or it refuses; or the request returns an
\* error, whatever the switch made of it.
SignedIn(w) ==
  SetLoggedIn(w, TRUE) /\ sessions' = sessions \cup {job[w]} /\ UNCHANGED unanswered

SignInFails(w) ==
  /\ \/ UNCHANGED <<sessions, unanswered>>
     \/ sessions' \in {sessions, sessions \cup {job[w]}} /\ unanswered' = unanswered \cup {job[w]}
  /\ UNCHANGED loggedIn

Login(w) ==
  /\ at[w] = "login"
  /\ \/ SignedIn(w) /\ Goto(w, "info") /\ UNCHANGED verdict
     \/ SignInFails(w) /\ Decide(w, "login_failed")

\* Bug shape for AfterInfo: no defer, so a failed read skips Logout.
AfterInfoOnSuccess(v) == IF v = "ok" THEN "logout" ELSE "send"

AfterInfo(v) == "logout"

InfoEnds(w, v) == verdict' = [verdict EXCEPT ![w] = v] /\ Goto(w, AfterInfo(v))

\* The page, an error, or the login page: the session is gone.
GetSystemInfo(w) ==
  /\ at[w] = "info"
  /\ \/ \E v \in {"ok", "no_info"} : InfoEnds(w, v) /\ UNCHANGED session
     \/ /\ SetLoggedIn(w, FALSE) /\ sessions' = sessions \ {job[w]}
        /\ Goto(w, "relogin") /\ UNCHANGED <<verdict, unanswered>>

\* doGet logs in again and asks for the page again.  A refusal that is not recognised
\* passes for a login, for the old cookie is still there.
Relogin(w) ==
  /\ at[w] = "relogin"
  /\ \/ SignedIn(w) /\ \E v \in {"ok", "no_info"} : InfoEnds(w, v)
     \/ SetLoggedIn(w, TRUE) /\ InfoEnds(w, "no_info") /\ UNCHANGED <<sessions, unanswered>>
     \/ SignInFails(w) /\ InfoEnds(w, "no_info")

\* The deferred Logout: Logout.htm is sent if the Client takes itself for logged in,
\* and whatever becomes of it is ignored.
Logout(w) ==
  /\ at[w] = "logout"
  /\ IF loggedIn[w]
       THEN \/ sessions' = sessions \ {job[w]} /\ UNCHANGED unanswered
            \/ /\ sessions' \in {sessions, sessions \ {job[w]}}
               /\ unanswered' = unanswered \cup {job[w]}
       ELSE UNCHANGED <<sessions, unanswered>>
  /\ SetLoggedIn(w, FALSE)
  /\ Goto(w, "send") /\ UNCHANGED verdict

Capacity == NumHosts

\* results <- ScanResult{...} blocks while the buffer is full.
SendResult(w) ==
  /\ at[w] = "send" /\ Len(results) < Capacity
  /\ results' = Append(results, [host |-> job[w], verdict |-> verdict[w]])
  /\ at' = [at EXCEPT ![w] = "receive"]
  /\ job' = [job EXCEPT ![w] = 0]
  /\ UNCHANGED <<main, next, verdict, resultsClosed, out, session>>

\* range jobs ends; the deferred wg.Done runs.
Exit(w) ==
  /\ at[w] = "receive" /\ main # "sending"
  /\ Goto(w, "exited")
  /\ UNCHANGED <<verdict, session>>

Work(w) ==
  \/ FetchRoot(w) \/ FetchLogon(w) \/ Login(w) \/ GetSystemInfo(w) \/ Relogin(w)
  \/ Logout(w) \/ SendResult(w) \/ Exit(w)

Caller == CloseJobs \/ CloseResults \/ Drain \/ Report

Next == Caller \/ \E w \in Pool : Handoff(w) \/ Work(w)

\* Every goroutine is scheduled, and options.Timeout ends each HTTP exchange.
Fairness == /\ WF_vars(Caller) /\ WF_vars(\E w \in Pool : Handoff(w))
            /\ \A w \in Pool : WF_vars(Work(w))

Spec == Init /\ [][Next]_vars

FairSpec == Spec /\ Fairness
-----------------------------------------------------------------------------
(* Properties                                                              *)

\* A worker with a result to send finds the channel open and with room: the
\* capacity len(hosts) suffices for every number of workers, so no worker blocks
\* while the caller waits for it, and no send hits a closed channel.
ResultsReceptive ==
  \A w \in Pool : at[w] = "send" => ~resultsClosed /\ Len(results) < Capacity

\* A session outlives its probe only where a login or Logout.htm came back with an
\* error: not where reading the system page failed, and not where the session was lost
\* and the Client logged in again, or failed to.
SessionsClosed ==
  \A h \in sessions \ unanswered :
    \E w \in Pool : job[w] = h /\ at[w] \in {"info", "logout"} /\ loggedIn[w]

\* The report holds each host once, in address order, only when all probes have
\* delivered, and it is published in the end: the caller, the workers and both
\* channels never wait for each other for ever.
HostsIn(rs) == {rs[i].host : i \in DOMAIN rs}

Promise == INSTANCE ScanReport WITH
  reported <- HostsIn(results) \cup HostsIn(out),
  report   <- IF main = "done" THEN [i \in DOMAIN out |-> out[i].host] ELSE <<>>

ImplementsScanReport == Promise!Spec
=============================================================================
