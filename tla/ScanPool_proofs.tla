--------------------------- MODULE ScanPool_proofs ---------------------------
(***************************************************************************)
(* Machine-checked proofs about ScanPool, for any number of hosts and      *)
(* workers: the channel results is open and has room whenever a worker has *)
(* a result to send, no probe leaves a session behind, and the steps keep  *)
(* the promise of ScanReport.                                              *)
(***************************************************************************)
EXTENDS ScanPool, TLAPS, FiniteSetTheorems

\* The types of what the proofs read; the report's order is not among it.
Types ==
  /\ main \in {"sending", "waiting", "draining", "done"}
  /\ next \in 1..(NumHosts + 1)
  /\ at \in [Pool -> Stages]
  /\ job \in [Pool -> Hosts \cup {0}]
  /\ verdict \in [Pool -> Verdicts]
  /\ results \in Seq(Result)
  /\ resultsClosed \in BOOLEAN

Delivering == main \in {"sending", "waiting"}

\* A worker has a job exactly while it probes, handed out before and to it alone.
JobsOwned ==
  /\ \A w \in Pool : job[w] = 0 <=> at[w] \in {"receive", "exited"}
  /\ \A w \in Pool : job[w] < next
  /\ \A v, w \in Pool : v # w /\ job[v] # 0 => job[v] # job[w]

\* Until the caller drains it, results holds each host once, none of them on a
\* worker's hands and all of them handed out.
ResultsDistinct ==
  Delivering =>
    /\ \A i, j \in 1..Len(results) : i # j => results[i].host # results[j].host
    /\ \A i \in 1..Len(results), w \in Pool : results[i].host # job[w]
    /\ \A i \in 1..Len(results) : results[i].host < next

\* The channel is closed only after the last worker is gone.
ClosedWhenDone == ~Delivering => \A w \in Pool : at[w] = "exited"

OpenWhileDelivering == Delivering => ~resultsClosed

PoolInv == Types /\ JobsOwned /\ ResultsDistinct /\ ClosedWhenDone /\ OpenWhileDelivering

\* There is a host for every slot: the domain of a host is 1..NumHosts.
LEMMA HostsAreNat == Hosts \subseteq Nat \ {0}
  BY ConstantsAssumption DEF Hosts

\* Nothing is handed out, delivered or closed at the start.
LEMMA PoolInvInit == Init => PoolInv
<1> SUFFICES ASSUME Init PROVE PoolInv
  OBVIOUS
<1>1. next \in 1..(NumHosts + 1)
  BY ConstantsAssumption DEF Init
<1>2. Types
  <2>1. at \in [Pool -> Stages] /\ job \in [Pool -> Hosts \cup {0}] /\ verdict \in [Pool -> Verdicts]
    BY DEF Init, Stages, Verdicts
  <2>2. results \in Seq(Result)
    BY DEF Init
  <2>3. QED
    BY <1>1, <2>1, <2>2 DEF Init, Types
<1>3. JobsOwned
  BY DEF Init, JobsOwned
<1>4. ResultsDistinct
  BY DEF Init, ResultsDistinct
<1>5. QED
  BY <1>2, <1>3, <1>4 DEF Init, PoolInv, ClosedWhenDone, OpenWhileDelivering, Delivering

\* Handing a host to a worker: the host is new, so it is on nobody else's hands and
\* in no result.
LEMMA HandoffKeeps ==
  ASSUME PoolInv, NEW w \in Pool, Handoff(w)
  PROVE  PoolInv'
<1>1. next \in Hosts /\ next' = next + 1
  BY ConstantsAssumption DEF PoolInv, Types, Hosts, Handoff, MoreHosts
<1>2. /\ job' = [job EXCEPT ![w] = next] /\ at' = [at EXCEPT ![w] = "root"]
      /\ at[w] = "receive"
      /\ UNCHANGED <<main, verdict, results, resultsClosed>>
  BY DEF Handoff
<1>3. next \in Nat \ {0} /\ NumHosts \in Nat
  BY <1>1, HostsAreNat, ConstantsAssumption
<1>4. Types'
  <2>1. next' \in 1..(NumHosts + 1)
    BY <1>1, <1>3 DEF Hosts
  <2>2. at' \in [Pool -> Stages]
    BY <1>2 DEF PoolInv, Types, Stages
  <2>3. job' \in [Pool -> Hosts \cup {0}]
    BY <1>1, <1>2 DEF PoolInv, Types
  <2>4. QED
    BY <1>2, <2>1, <2>2, <2>3 DEF PoolInv, Types
<1>5. JobsOwned'
  <2>1. \A v \in Pool : job[v] \in Nat
    BY ConstantsAssumption DEF PoolInv, Types, Hosts
  <2>2. \A v \in Pool : job'[v] = IF v = w THEN next ELSE job[v]
    BY <1>2 DEF PoolInv, Types
  <2>3. \A v \in Pool : at'[v] = IF v = w THEN "root" ELSE at[v]
    BY <1>2 DEF PoolInv, Types
  <2>4. QED
    BY <1>1, <1>3, <2>1, <2>2, <2>3 DEF PoolInv, JobsOwned
<1>6. ResultsDistinct'
  <2>1. \A i \in 1..Len(results) : results[i].host \in Nat
    <3>1. \A i \in 1..Len(results) : results[i] \in Result
      BY DEF PoolInv, Types
    <3>2. QED
      BY <3>1, ConstantsAssumption DEF Result, Hosts
  <2>2. \A v \in Pool : job'[v] = IF v = w THEN next ELSE job[v]
    BY <1>2 DEF PoolInv, Types
  <2>3. QED
    BY <1>1, <1>2, <1>3, <2>1, <2>2 DEF PoolInv, ResultsDistinct, Delivering
<1>7. QED
  BY <1>2, <1>4, <1>5, <1>6
  DEF Handoff, PoolInv, ClosedWhenDone, OpenWhileDelivering, Delivering

\* Delivering a result moves a host from a worker's hands into the channel.
LEMMA SendKeeps ==
  ASSUME PoolInv, NEW w \in Pool, SendResult(w)
  PROVE  PoolInv'
<1> USE DEF PoolInv, SendResult
<1> DEFINE r == [host |-> job[w], verdict |-> verdict[w]]
<1>1. job[w] \in Hosts
  BY DEF Types, JobsOwned
<1>2. r \in Result
  BY <1>1 DEF Types, Result
<1>3. results' = Append(results, r) /\ results' \in Seq(Result)
      /\ Len(results') = Len(results) + 1 /\ Len(results) \in Nat
  BY <1>2 DEF Types
<1>4. Types'
  BY <1>3 DEF Types, Stages
<1>5. JobsOwned'
  BY HostsAreNat DEF Types, JobsOwned, Stages
<1>6. Delivering
  BY DEF ClosedWhenDone, Types
<1>7. \A i \in 1..Len(results') :
        \/ i \in 1..Len(results) /\ results'[i] = results[i]
        \/ i = Len(results) + 1 /\ results'[i].host = job[w]
  BY <1>3 DEF Types
<1>8. ResultsDistinct'
  <2>1. \A i, j \in 1..Len(results') : i # j => results'[i].host # results'[j].host
    BY <1>3, <1>6, <1>7 DEF ResultsDistinct
  <2>2. \A i \in 1..Len(results'), v \in Pool : results'[i].host # job'[v]
    <3> SUFFICES ASSUME NEW i \in 1..Len(results'), NEW v \in Pool
                 PROVE  results'[i].host # job'[v]
      OBVIOUS
    <3>1. results'[i] \in Result
      BY <1>3
    <3>2. results'[i].host # 0
      BY <3>1, HostsAreNat DEF Result
    <3>3. CASE v = w
      BY <3>2, <3>3 DEF Types
    <3>4. CASE v # w
      BY <1>1, <1>6, <1>7, <3>4, HostsAreNat DEF Types, JobsOwned, ResultsDistinct
    <3>5. QED
      BY <3>3, <3>4
  <2>3. \A i \in 1..Len(results') : results'[i].host < next'
    BY <1>6, <1>7 DEF JobsOwned, ResultsDistinct
  <2>4. QED
    BY <2>1, <2>2, <2>3 DEF ResultsDistinct
<1>9. QED
  BY <1>4, <1>5, <1>6, <1>8 DEF ClosedWhenDone, OpenWhileDelivering, Delivering, Types

\* The steps of a probe change only the worker's place and verdict.
LEMMA ProbeKeeps ==
  ASSUME PoolInv, NEW w \in Pool,
         FetchRoot(w) \/ FetchLogon(w) \/ Login(w) \/ GetSystemInfo(w) \/ Relogin(w) \/ Logout(w)
  PROVE  PoolInv'
<1>1. /\ at[w] \notin {"receive", "exited"}
      /\ UNCHANGED <<main, next, job, results, resultsClosed>>
  BY DEF FetchRoot, FetchLogon, Login, GetSystemInfo, Relogin, Logout, Recognised, Decide, Goto,
     InfoEnds
<1>2. \E s \in Stages \ {"receive", "exited"} : at' = [at EXCEPT ![w] = s]
  BY DEF FetchRoot, FetchLogon, Login, GetSystemInfo, Relogin, Logout, Recognised, Decide, Goto,
     InfoEnds, AfterInfo, Stages
<1>3. verdict' \in [Pool -> Verdicts]
  BY DEF FetchRoot, FetchLogon, Login, GetSystemInfo, Relogin, Logout, Recognised, Decide, Goto,
     InfoEnds, Verdicts, PoolInv, Types
<1>4. Types'
  BY <1>1, <1>2, <1>3 DEF PoolInv, Types
<1>5. JobsOwned'
  BY <1>1, <1>2 DEF PoolInv, Types, JobsOwned
<1>6. QED
  BY <1>1, <1>2, <1>4, <1>5
  DEF PoolInv, Types, ResultsDistinct, ClosedWhenDone, OpenWhileDelivering, Delivering

\* A worker that leaves had nothing on its hands.
LEMMA ExitKeeps ==
  ASSUME PoolInv, NEW w \in Pool, Exit(w)
  PROVE  PoolInv'
<1> USE DEF PoolInv, Exit, Goto
<1>1. Types'
  BY DEF Types, Stages
<1>2. JobsOwned'
  BY DEF Types, JobsOwned
<1>3. QED
  BY <1>1, <1>2 DEF Types, ResultsDistinct, ClosedWhenDone, OpenWhileDelivering, Delivering

\* The caller's steps: it closes results after the last worker, and only then drains.
LEMMA CallerKeeps ==
  ASSUME PoolInv, Caller
  PROVE  PoolInv'
<1> USE DEF PoolInv
<1>1. CASE CloseJobs
  BY <1>1 DEF CloseJobs, Types, JobsOwned, ResultsDistinct, ClosedWhenDone,
     OpenWhileDelivering, Delivering
<1>2. CASE CloseResults
  BY <1>2 DEF CloseResults, PoolFinished, Types, JobsOwned, ResultsDistinct, ClosedWhenDone,
     OpenWhileDelivering, Delivering
<1>3. CASE Drain
  <2>1. Tail(results) \in Seq(Result)
    BY <1>3 DEF Drain, Types
  <2>2. QED
    BY <1>3, <2>1 DEF Drain, Types, JobsOwned, ResultsDistinct, ClosedWhenDone,
       OpenWhileDelivering, Delivering
<1>4. CASE Report
  BY <1>4 DEF Report, Types, JobsOwned, ResultsDistinct, ClosedWhenDone,
     OpenWhileDelivering, Delivering
<1>5. QED
  BY <1>1, <1>2, <1>3, <1>4 DEF Caller

LEMMA PoolInvStep == PoolInv /\ [Next]_vars => PoolInv'
<1> SUFFICES ASSUME PoolInv, [Next]_vars PROVE PoolInv'
  OBVIOUS
<1>1. CASE Caller
  BY <1>1, CallerKeeps
<1>2. CASE \E w \in Pool : Handoff(w)
  BY <1>2, HandoffKeeps
<1>3. ASSUME NEW w \in Pool, Work(w) PROVE PoolInv'
  BY <1>3, ProbeKeeps, SendKeeps, ExitKeeps DEF Work
<1>4. CASE UNCHANGED vars
  BY <1>4 DEF vars, PoolInv, Types, JobsOwned, ResultsDistinct, ClosedWhenDone,
     OpenWhileDelivering, Delivering
<1>5. QED
  BY <1>1, <1>2, <1>3, <1>4 DEF Next

\* The numbers up to n are n.
LEMMA UpToCounts ==
  ASSUME NEW n \in Nat
  PROVE  IsFiniteSet(1..n) /\ Cardinality(1..n) = n
<1>1. IsFiniteSet(1..n) /\ Cardinality(1..n) = IF 1 > n THEN 0 ELSE n - 1 + 1
  BY FS_Interval
<1>2. QED
  BY <1>1

\* Distinct hosts in results, none of them the one a worker is about to send: there
\* are fewer than NumHosts.
LEMMA RoomForEveryHost ==
  ASSUME PoolInv, NEW w \in Pool, at[w] = "send"
  PROVE  ~resultsClosed /\ Len(results) < Capacity
<1>1. Delivering /\ ~resultsClosed
  BY DEF PoolInv, Types, ClosedWhenDone, OpenWhileDelivering
<1>2. job[w] \in Hosts /\ Len(results) \in Nat /\ NumHosts \in Nat
  BY ConstantsAssumption DEF PoolInv, Types, JobsOwned
<1> DEFINE Slots == 1..Len(results)
           Others == Hosts \ {job[w]}
           host == [i \in Slots |-> results[i].host]
<1>3. IsFiniteSet(Slots) /\ Cardinality(Slots) = Len(results)
  BY <1>2, UpToCounts
<1>4. IsFiniteSet(Hosts) /\ Cardinality(Hosts) = NumHosts
  BY <1>2, UpToCounts DEF Hosts
<1>5. IsFiniteSet(Others) /\ Cardinality(Others) = NumHosts - 1
  BY <1>2, <1>4, FS_RemoveElement
<1>6. host \in [Slots -> Others]
  <2>1. \A i \in Slots : results[i] \in Result
    BY <1>2 DEF PoolInv, Types
  <2>2. QED
    BY <1>1, <2>1 DEF PoolInv, ResultsDistinct, Result
<1>7. \A i, j \in Slots : i # j => host[i] # host[j]
  BY <1>1 DEF PoolInv, ResultsDistinct
<1>8. ~(Cardinality(Others) < Cardinality(Slots))
  <2> HIDE DEF Slots, Others, host
  <2> QED
    BY <1>3, <1>5, <1>6, <1>7, FS_PigeonHole
<1>9. Len(results) <= NumHosts - 1
  BY <1>2, <1>3, <1>5, <1>8
<1>10. QED
  BY <1>1, <1>2, <1>9 DEF Capacity

\* No worker ever blocks on, or sends on a closed, channel results: ScanNetwork's
\* capacity len(hosts) and its wait before the close suffice for every pool.
THEOREM AlwaysReceptive == Spec => []ResultsReceptive
<1>1. PoolInv => ResultsReceptive
  BY RoomForEveryHost DEF ResultsReceptive
<1>2. QED
  BY PoolInvInit, PoolInvStep, <1>1, PTL DEF Spec

SessionTypes ==
  loggedIn \in [Pool -> BOOLEAN] /\ sessions \subseteq Hosts /\ unanswered \subseteq Hosts

\* What one step of a probe makes of its Client and of the session on its host.
LEMMA ProbeSession ==
  ASSUME PoolInv, SessionTypes, NEW w \in Pool, Work(w)
  PROVE  /\ \E b \in BOOLEAN : loggedIn' = [loggedIn EXCEPT ![w] = b]
         /\ sessions' \subseteq sessions \cup {job[w]} /\ sessions \ {job[w]} \subseteq sessions'
         /\ unanswered \subseteq unanswered' /\ unanswered' \subseteq unanswered \cup {job[w]}
         /\ at[w] \notin {"login", "info", "relogin", "logout"} =>
              UNCHANGED <<loggedIn, sessions, unanswered>>
<1>1. loggedIn = [loggedIn EXCEPT ![w] = loggedIn[w]] /\ loggedIn[w] \in BOOLEAN
  BY DEF SessionTypes
<1>2. CASE FetchRoot(w) \/ FetchLogon(w) \/ SendResult(w) \/ Exit(w)
  BY <1>1, <1>2 DEF FetchRoot, FetchLogon, SendResult, Exit, session
<1>3. CASE Login(w)
  BY <1>1, <1>3 DEF Login, SignedIn, SignInFails, SetLoggedIn
<1>4. CASE GetSystemInfo(w)
  BY <1>1, <1>4 DEF GetSystemInfo, SetLoggedIn, session
<1>5. CASE Relogin(w)
  BY <1>1, <1>5 DEF Relogin, SignedIn, SignInFails, SetLoggedIn
<1>6. CASE Logout(w)
  BY <1>1, <1>6 DEF Logout, SetLoggedIn
<1>7. QED
  BY <1>2, <1>3, <1>4, <1>5, <1>6 DEF Work

LEMMA SessionTypesStep == PoolInv /\ SessionTypes /\ [Next]_vars => SessionTypes'
<1> SUFFICES ASSUME PoolInv, SessionTypes, [Next]_vars PROVE SessionTypes'
  OBVIOUS
<1>1. \A w \in Pool : at[w] \in {"login", "info", "relogin", "logout"} => job[w] \in Hosts
  BY DEF PoolInv, Types, JobsOwned
<1>2. CASE Caller \/ (\E w \in Pool : Handoff(w)) \/ UNCHANGED vars
  BY <1>2 DEF Caller, CloseJobs, CloseResults, Drain, Report, Handoff, vars, session, SessionTypes
<1>3. ASSUME NEW w \in Pool, Work(w) PROVE SessionTypes'
  BY <1>1, <1>3, ProbeSession DEF SessionTypes
<1>4. QED
  BY <1>2, <1>3 DEF Next

\* A host with a session that no answer was lost of has a probe that will log out of it.
LEMMA SessionsStep == PoolInv /\ SessionTypes /\ SessionsClosed /\ [Next]_vars => SessionsClosed'
<1> DEFINE Held(h) == \E w \in Pool : job[w] = h /\ at[w] \in {"info", "logout"} /\ loggedIn[w]
<1> SUFFICES ASSUME PoolInv, SessionTypes, SessionsClosed, [Next]_vars,
                    NEW h \in sessions' \ unanswered'
             PROVE  Held(h)'
  BY DEF SessionsClosed
<1> USE DEF PoolInv, Types
<1>1. ASSUME NEW w \in Pool, UNCHANGED <<job[w], at[w], loggedIn[w]>>,
             job[w] = h, at[w] \in {"info", "logout"}, loggedIn[w]
      PROVE  Held(h)'
  BY <1>1
<1>2. CASE Caller \/ UNCHANGED vars
  BY <1>2 DEF Caller, CloseJobs, CloseResults, Drain, Report, vars, session, SessionsClosed
<1>3. ASSUME NEW v \in Pool, Handoff(v)
      PROVE  Held(h)'
  <2>1. PICK w \in Pool : job[w] = h /\ at[w] \in {"info", "logout"} /\ loggedIn[w]
    BY <1>3 DEF Handoff, session, SessionsClosed
  <2>2. w # v
    BY <1>3, <2>1 DEF Handoff
  <2>3. QED
    BY <1>3, <2>1, <2>2 DEF Handoff, session
<1>4. ASSUME NEW v \in Pool, Work(v)
      PROVE  Held(h)'
  <2>1. ASSUME NEW w \in Pool, w # v
        PROVE  UNCHANGED <<job[w], at[w], loggedIn[w]>>
    <3>1. job'[w] = job[w] /\ at'[w] = at[w]
      BY <1>4, <2>1 DEF Work, FetchRoot, FetchLogon, Login, GetSystemInfo, Relogin, Logout,
         SendResult, Exit, Recognised, Decide, Goto, InfoEnds
    <3>2. loggedIn'[w] = loggedIn[w]
      BY <1>4, <2>1, ProbeSession DEF SessionTypes
    <3>3. QED
      BY <3>1, <3>2
  <2>2. CASE h \in sessions \ unanswered
    <3>1. PICK w \in Pool : job[w] = h /\ at[w] \in {"info", "logout"} /\ loggedIn[w]
      BY <2>2 DEF SessionsClosed
    <3>2. CASE w # v
      BY <1>1, <2>1, <3>1, <3>2
    <3>3. CASE w = v /\ at[v] = "info"
      BY <1>4, <3>1, <3>3 DEF Work, FetchRoot, FetchLogon, Login, GetSystemInfo, Relogin, Logout,
         SendResult, Exit, Decide, Goto, InfoEnds, AfterInfo, SetLoggedIn, session, SessionTypes
    <3>4. CASE w = v /\ at[v] = "logout"
      BY <1>4, <3>1, <3>4 DEF Work, FetchRoot, FetchLogon, Login, GetSystemInfo, Relogin, Logout,
         SendResult, Exit
    <3>5. QED
      BY <3>1, <3>2, <3>3, <3>4
  <2>3. CASE h \notin sessions \ unanswered
    <3>1. h \notin sessions /\ h = job[v]
      BY <1>4, <2>3, ProbeSession
    <3>2. (Login(v) \/ Relogin(v)) /\ SignedIn(v)
      BY <1>4, <3>1 DEF Work, FetchRoot, FetchLogon, Login, GetSystemInfo, Relogin, Logout,
         SendResult, Exit, SignInFails, session
    <3>3. /\ job' = job /\ at'[v] \in {"info", "logout"}
      BY <3>1, <3>2 DEF Login, Relogin, SignInFails, Goto, Decide, InfoEnds, AfterInfo
    <3>4. loggedIn'[v]
      BY <3>2 DEF SignedIn, SetLoggedIn, SessionTypes
    <3>5. QED
      BY <3>1, <3>3, <3>4
  <2>4. QED
    BY <2>2, <2>3
<1>5. QED
  BY <1>2, <1>3, <1>4 DEF Next

\* No scan leaves a session behind on a switch whose logins and Logout.htm were answered,
\* whatever its probes come to: the deferred Logout follows every successful Login, and a
\* Client that lost its session and could not log in again has none to close.
THEOREM SessionsAlwaysClosed == Spec => []SessionsClosed
<1>1. Init => SessionsClosed /\ SessionTypes
  BY DEF Init, SessionsClosed, SessionTypes
<1>2. QED
  BY PoolInvInit, PoolInvStep, SessionTypesStep, SessionsStep, <1>1, PTL DEF Spec
-----------------------------------------------------------------------------
(* The report                                                              *)

Distinct(rs) == \A i, j \in DOMAIN rs : i # j => rs[i].host # rs[j].host

\* Every host handed out is on a worker's hands, in the channel or in the report, and
\* what the caller drains holds no host twice.
Accounted ==
  /\ out \in Seq(Result)
  /\ main # "sending" => next = NumHosts + 1
  /\ Delivering => out = <<>>
  /\ ~Delivering => /\ Distinct(results) /\ Distinct(out)
                    /\ HostsIn(results) \cap HostsIn(out) = {}
  /\ \A h \in Hosts : h < next =>
       (\E w \in Pool : job[w] = h) \/ h \in HostsIn(results) \cup HostsIn(out)
  /\ main = "done" => /\ results = <<>> /\ Len(out) = NumHosts
                      /\ \A i \in 1..NumHosts : out[i].host = i

LEMMA HostsInList ==
  ASSUME NEW rs \in Seq(Result)
  PROVE  /\ HostsIn(rs) \subseteq Hosts /\ DOMAIN rs = 1..Len(rs) /\ Len(rs) \in Nat
         /\ \A i \in 1..Len(rs) : rs[i] \in Result /\ rs[i].host \in HostsIn(rs)
         /\ \A h \in HostsIn(rs) : \E i \in 1..Len(rs) : rs[i].host = h
<1>1. DOMAIN rs = 1..Len(rs) /\ Len(rs) \in Nat /\ \A i \in 1..Len(rs) : rs[i] \in Result
  OBVIOUS
<1>2. \A i \in 1..Len(rs) : rs[i].host \in Hosts
  BY <1>1 DEF Result
<1>3. QED
  BY <1>1, <1>2 DEF HostsIn

LEMMA HostsInAppend ==
  ASSUME NEW rs \in Seq(Result), NEW r \in Result
  PROVE  /\ Append(rs, r) \in Seq(Result)
         /\ HostsIn(Append(rs, r)) = HostsIn(rs) \cup {r.host}
         /\ Distinct(rs) /\ r.host \notin HostsIn(rs) => Distinct(Append(rs, r))
<1> DEFINE s == Append(rs, r)
<1>1. /\ s \in Seq(Result) /\ Len(s) = Len(rs) + 1 /\ Len(rs) \in Nat
      /\ s[Len(rs) + 1] = r /\ \A i \in 1..Len(rs) : s[i] = rs[i]
  OBVIOUS
<1>2. DOMAIN s = 1..(Len(rs) + 1) /\ DOMAIN rs = 1..Len(rs)
  BY <1>1
<1> HIDE DEF s
<1>3. HostsIn(s) = HostsIn(rs) \cup {r.host}
  <2>1. \A i \in 1..(Len(rs) + 1) : i \in 1..Len(rs) \/ i = Len(rs) + 1
    BY <1>1
  <2>2. Len(rs) + 1 \in 1..(Len(rs) + 1) /\ \A i \in 1..Len(rs) : i \in 1..(Len(rs) + 1)
    BY <1>1
  <2>3. QED
    BY <1>1, <1>2, <2>1, <2>2 DEF HostsIn
<1>4. ASSUME Distinct(rs), r.host \notin HostsIn(rs) PROVE Distinct(s)
  BY <1>1, <1>2, <1>4 DEF Distinct, HostsIn
<1>5. QED
  BY <1>1, <1>3, <1>4 DEF s

LEMMA HostsInTail ==
  ASSUME NEW rs \in Seq(Result), rs # <<>>
  PROVE  /\ Head(rs) \in Result /\ Tail(rs) \in Seq(Result)
         /\ HostsIn(rs) = {Head(rs).host} \cup HostsIn(Tail(rs))
         /\ Distinct(rs) => Distinct(Tail(rs)) /\ Head(rs).host \notin HostsIn(Tail(rs))
<1> DEFINE t == Tail(rs)
           n == Len(rs)
<1>1. /\ t \in Seq(Result) /\ n \in Nat \ {0} /\ Len(t) = n - 1 /\ Head(rs) = rs[1]
      /\ \A i \in 1..(n - 1) : t[i] = rs[i + 1]
  OBVIOUS
<1>2. DOMAIN rs = 1..n /\ DOMAIN t = 1..(n - 1)
  BY <1>1
<1>3. rs[1] \in Result
  BY <1>1
<1> HIDE DEF t, n
<1>4. \A i \in 1..n : i = 1 \/ (i - 1 \in 1..(n - 1) /\ t[i - 1] = rs[i])
  <2> SUFFICES ASSUME NEW i \in 1..n, i # 1 PROVE i - 1 \in 1..(n - 1) /\ t[i - 1] = rs[i]
    OBVIOUS
  <2>1. i - 1 \in 1..(n - 1) /\ (i - 1) + 1 = i
    BY <1>1
  <2>2. QED
    BY <1>1, <2>1
<1>5. 1 \in 1..n /\ \A i \in 1..(n - 1) : i + 1 \in 1..n /\ i + 1 # 1
  BY <1>1
<1>6. HostsIn(rs) = {rs[1].host} \cup HostsIn(t)
  <2>1. \A x \in HostsIn(rs) : x = rs[1].host \/ x \in HostsIn(t)
    BY <1>2, <1>4 DEF HostsIn
  <2>2. ASSUME NEW x \in HostsIn(t) PROVE x \in HostsIn(rs)
    <3>1. PICK i \in 1..(n - 1) : x = t[i].host
      BY <1>2 DEF HostsIn
    <3>2. i + 1 \in DOMAIN rs /\ x = rs[i + 1].host
      BY <1>1, <1>2, <1>5, <3>1
    <3>3. QED
      BY <3>2 DEF HostsIn
  <2>3. rs[1].host \in HostsIn(rs)
    BY <1>2, <1>5 DEF HostsIn
  <2>4. QED
    BY <2>1, <2>2, <2>3
<1>7. ASSUME Distinct(rs) PROVE Distinct(t) /\ rs[1].host \notin HostsIn(t)
  <2>1. \A i, j \in 1..(n - 1) : i # j => i + 1 # j + 1
    BY <1>1
  <2>2. ASSUME NEW i \in 1..(n - 1), NEW j \in 1..(n - 1), i # j PROVE t[i].host # t[j].host
    <3>1. i + 1 \in 1..n /\ j + 1 \in 1..n /\ i + 1 # j + 1
      BY <1>5, <2>1, <2>2
    <3>2. t[i] = rs[i + 1] /\ t[j] = rs[j + 1]
      BY <1>1
    <3>3. QED
      BY <1>2, <1>7, <3>1, <3>2 DEF Distinct
  <2>3. \A i \in 1..(n - 1) : t[i].host # rs[1].host
    BY <1>1, <1>2, <1>5, <1>7 DEF Distinct
  <2>4. QED
    BY <1>2, <2>2, <2>3 DEF HostsIn, Distinct
<1>8. QED
  BY <1>1, <1>3, <1>6, <1>7 DEF t, n

Less == {ss \in Nat \X Nat : ss[1] < ss[2]}

LEMMA LessWellFounded == IsWellFoundedOn(Less, Nat)
<1>1. OpToRel(<, Nat) = Less
  BY DEF OpToRel, Less
<1>2. QED
  BY <1>1, NatLessThanWellFounded

\* A set of naturals with 0 and the successor of each of its elements holds them all.
LEMMA Induction ==
  ASSUME NEW S \in SUBSET Nat, 0 \in S, \A n \in S : n + 1 \in S
  PROVE  S = Nat
<1> SUFFICES ASSUME Nat \ S # {} PROVE FALSE
  OBVIOUS
<1>1. PICK m \in Nat \ S : \A y \in Nat \ S : ~(<<y, m>> \in Less)
  BY LessWellFounded, WFMin
<1>2. m # 0 /\ m - 1 \in Nat /\ <<m - 1, m>> \in Less
  BY DEF Less
<1>3. m - 1 \in S
  BY <1>1, <1>2
<1>4. QED
  BY <1>1, <1>3

\* Distinct hosts in ascending order, none missing: the i-th is host i.
LEMMA AscendingHosts ==
  ASSUME NEW rs \in Seq(Result), Distinct(rs), HostsIn(rs) = Hosts,
         \A i, j \in DOMAIN rs : i < j => rs[i].host <= rs[j].host
  PROVE  Len(rs) = NumHosts /\ \A i \in 1..NumHosts : rs[i].host = i
<1> DEFINE n == Len(rs)
           h == [i \in 1..n |-> rs[i].host]
           Placed == {m \in Nat : \A i \in 1..m : i <= n => h[i] = i}
<1>1. /\ n \in Nat /\ NumHosts \in Nat /\ DOMAIN rs = 1..n
      /\ \A i \in 1..n : h[i] \in 1..NumHosts
      /\ \A k \in 1..NumHosts : \E i \in 1..n : h[i] = k
  BY HostsInList, ConstantsAssumption DEF Hosts
<1>2. /\ \A i, j \in 1..n : i # j => h[i] # h[j]
      /\ \A i, j \in 1..n : i < j => h[i] <= h[j]
  BY <1>1 DEF Distinct
<1>3. \A i \in 1..n : h[i] = rs[i].host
  OBVIOUS
<1> HIDE DEF n, h
<1>4. 0 \in Placed
  OBVIOUS
<1>5. ASSUME NEW m \in Placed PROVE m + 1 \in Placed
  <2> SUFFICES ASSUME m + 1 \in 1..n PROVE h[m + 1] = m + 1
    BY <1>1
  <2>1. \A i \in 1..m : i \in 1..n /\ h[i] = i
    BY <1>1
  <2>2. h[m + 1] \in 1..NumHosts /\ h[m + 1] \notin 1..m
    <3>1. \A i \in 1..m : h[m + 1] # h[i]
      BY <1>2, <2>1
    <3>2. QED
      BY <1>1, <2>1, <3>1
  <2>3. m + 1 \in 1..NumHosts
    BY <1>1, <2>2
  <2>4. PICK k \in 1..n : h[k] = m + 1
    BY <1>1, <2>3
  <2>5. k \notin 1..m
    BY <1>1, <2>1, <2>4
  <2>6. k = m + 1 \/ m + 1 < k
    BY <1>1, <2>5
  <2>7. h[m + 1] <= m + 1
    BY <1>1, <1>2, <2>2, <2>4, <2>6
  <2>8. QED
    BY <1>1, <2>2, <2>7
<1>6. Placed = Nat
  <2>1. Placed \in SUBSET Nat
    OBVIOUS
  <2> HIDE DEF Placed
  <2>2. QED
    BY <1>4, <1>5, <2>1, Induction
<1>7. \A i \in 1..n : h[i] = i
  <2>1. n \in Placed
    BY <1>1, <1>6
  <2>2. QED
    BY <1>1, <2>1
<1>8. n = NumHosts
  <2>1. n <= NumHosts
    BY <1>1, <1>7
  <2>2. NumHosts <= n
    BY <1>1, <1>7
  <2>3. QED
    BY <1>1, <2>1, <2>2
<1>9. QED
  BY <1>3, <1>7, <1>8 DEF n

\* Sorting keeps the hosts and their number.
LEMMA SortedKeeps ==
  ASSUME NEW rs \in Seq(Result), NEW s \in Sorted(rs)
  PROVE  /\ s \in Seq(Result) /\ HostsIn(s) = HostsIn(rs)
         /\ Distinct(rs) => Distinct(s)
         /\ \A i, j \in DOMAIN s : i < j => s[i].host <= s[j].host
<1> DEFINE D == DOMAIN rs
<1>1. PICK f \in Bijection(D, D) : s = [i \in D |-> rs[f[i]]]
  BY DEF Sorted
<1>2. /\ f \in [D -> D]
      /\ \A i, j \in D : f[i] = f[j] => i = j
      /\ \A k \in D : \E i \in D : f[i] = k
  BY DEF Bijection, Injection, IsInjective, Surjection
<1>3. D = 1..Len(rs) /\ Len(rs) \in Nat /\ \A i \in D : rs[i] \in Result
  BY HostsInList
<1>4. DOMAIN s = D /\ \A i \in D : s[i] = rs[f[i]] /\ f[i] \in D
  BY <1>1, <1>2
<1>5. s \in Seq(Result)
  <2>1. s \in [1..Len(rs) -> Result]
    BY <1>1, <1>3, <1>4
  <2>2. QED
    BY <1>3, <2>1
<1> HIDE DEF D
<1>6. HostsIn(s) = HostsIn(rs)
  BY <1>2, <1>4 DEF HostsIn, D
<1>7. ASSUME Distinct(rs) PROVE Distinct(s)
  <2>1. \A i, j \in D : i # j => rs[i].host # rs[j].host
    BY <1>7 DEF Distinct, D
  <2>2. ASSUME NEW i \in D, NEW j \in D, i # j PROVE s[i].host # s[j].host
    <3>1. f[i] \in D /\ f[j] \in D /\ f[i] # f[j] /\ s[i] = rs[f[i]] /\ s[j] = rs[f[j]]
      BY <1>2, <1>4, <2>2
    <3>2. QED
      BY <2>1, <3>1
  <2>3. QED
    BY <1>4, <2>2 DEF Distinct
<1>8. \A i, j \in DOMAIN s : i < j => s[i].host <= s[j].host
  BY DEF Sorted
<1>9. QED
  BY <1>5, <1>6, <1>7, <1>8

\* When the caller reports, every host has come in, and sorting puts each in its place.
LEMMA Reported ==
  ASSUME PoolInv, Accounted, Report
  PROVE  /\ out' \in Seq(Result) /\ HostsIn(out) = Hosts /\ HostsIn(out') = Hosts /\ Distinct(out')
         /\ Len(out') = NumHosts /\ \A i \in 1..NumHosts : out'[i].host = i
<1>1. /\ main = "draining" /\ results = <<>> /\ out' \in Sorted(out) /\ out \in Seq(Result)
      /\ next = NumHosts + 1 /\ Distinct(out)
  BY DEF Report, Accounted, Delivering
<1>2. \A w \in Pool : job[w] = 0
  BY <1>1 DEF PoolInv, ClosedWhenDone, Delivering, JobsOwned
<1>3. HostsIn(results) = {}
  BY <1>1 DEF HostsIn
<1>4. HostsIn(out) = Hosts
  <2>1. \A h \in Hosts : h < next /\ h # 0
    BY <1>1, ConstantsAssumption DEF Hosts
  <2>2. \A h \in Hosts : h \in HostsIn(out)
    BY <1>2, <1>3, <2>1 DEF Accounted
  <2>3. HostsIn(out) \subseteq Hosts
    BY <1>1, HostsInList
  <2>4. QED
    BY <2>2, <2>3
<1>5. /\ out' \in Seq(Result) /\ HostsIn(out') = Hosts /\ Distinct(out')
      /\ \A i, j \in DOMAIN out' : i < j => out'[i].host <= out'[j].host
  BY <1>1, <1>4, SortedKeeps
<1>6. QED
  BY <1>4, <1>5, AscendingHosts

LEMMA AccountedStep == PoolInv /\ Accounted /\ [Next]_vars => Accounted'
<1> SUFFICES ASSUME PoolInv, Accounted, [Next]_vars PROVE Accounted'
  OBVIOUS
<1>1. results \in Seq(Result) /\ out \in Seq(Result) /\ NumHosts \in Nat
  BY ConstantsAssumption DEF PoolInv, Types, Accounted
<1>2. CASE CloseJobs
  <2>1. next = NumHosts + 1
    BY <1>1, <1>2 DEF CloseJobs, MoreHosts, PoolInv, Types
  <2>2. QED
    BY <1>2, <2>1 DEF CloseJobs, Accounted, Delivering
<1>3. CASE CloseResults
  <2>1. DOMAIN results = 1..Len(results) /\ HostsIn(<<>>) = {}
    BY <1>1 DEF HostsIn
  <2>2. Distinct(results) /\ Distinct(<<>>)
    BY <1>3, <2>1 DEF CloseResults, PoolInv, ResultsDistinct, Delivering, Distinct
  <2>3. QED
    BY <1>3, <2>1, <2>2 DEF CloseResults, Accounted, Delivering
<1>4. CASE Drain
  <2>1. /\ results # <<>> /\ results' = Tail(results) /\ out' = Append(out, Head(results))
        /\ main = "draining" /\ UNCHANGED <<main, next, job>>
        /\ Distinct(results) /\ Distinct(out) /\ HostsIn(results) \cap HostsIn(out) = {}
    BY <1>4 DEF Drain, Accounted, Delivering
  <2>2. /\ Head(results) \in Result
        /\ HostsIn(results) = {Head(results).host} \cup HostsIn(results')
        /\ Distinct(results') /\ Head(results).host \notin HostsIn(results')
    BY <1>1, <2>1, HostsInTail
  <2>3. /\ out' \in Seq(Result) /\ HostsIn(out') = HostsIn(out) \cup {Head(results).host}
        /\ Distinct(out')
    BY <1>1, <2>1, <2>2, HostsInAppend
  <2>4. HostsIn(results') \cap HostsIn(out') = {}
    BY <2>1, <2>2, <2>3
  <2>5. QED
    BY <2>1, <2>2, <2>3, <2>4 DEF Accounted, Delivering
<1>5. CASE Report
  <2>1. main' = "done" /\ results' = <<>> /\ UNCHANGED <<next, job>> /\ main = "draining"
    BY <1>5 DEF Report
  <2>2. HostsIn(<<>>) = {} /\ Distinct(<<>>)
    BY DEF HostsIn, Distinct
  <2>3. QED
    BY <1>5, <2>1, <2>2, Reported DEF Accounted, Delivering
<1>6. ASSUME NEW w \in Pool, Handoff(w) PROVE Accounted'
  <2>1. /\ main = "sending" /\ job' = [job EXCEPT ![w] = next] /\ next' = next + 1 /\ at[w] = "receive"
        /\ UNCHANGED <<main, results, out>>
    BY <1>6 DEF Handoff
  <2>2. job[w] = 0 /\ next \in Nat /\ job \in [Pool -> Hosts \cup {0}]
    BY <1>1, <2>1 DEF PoolInv, Types, JobsOwned
  <2>3. \A h \in Hosts : h < next' => h = next \/ h < next
    BY <1>1, <2>1, <2>2 DEF Hosts
  <2>4. \A h \in Hosts : h < next' =>
          (\E v \in Pool : job'[v] = h) \/ h \in HostsIn(results) \cup HostsIn(out)
    <3> SUFFICES ASSUME NEW h \in Hosts, h < next', h \notin HostsIn(results) \cup HostsIn(out)
                 PROVE  \E v \in Pool : job'[v] = h
      OBVIOUS
    <3>1. CASE h = next
      BY <2>1, <2>2, <3>1
    <3>2. CASE h < next
      <4>1. PICK v \in Pool : job[v] = h
        BY <3>2 DEF Accounted
      <4>2. v # w
        BY <2>2, <4>1, HostsAreNat
      <4>3. QED
        BY <2>1, <2>2, <4>1, <4>2
    <3>3. QED
      BY <2>3, <3>1, <3>2
  <2>5. QED
    BY <2>1, <2>4 DEF Accounted, Delivering
<1>7. ASSUME NEW w \in Pool, SendResult(w) PROVE Accounted'
  <2> DEFINE r == [host |-> job[w], verdict |-> verdict[w]]
  <2>1. /\ at[w] = "send" /\ results' = Append(results, r) /\ job' = [job EXCEPT ![w] = 0]
        /\ UNCHANGED <<main, next, out>>
    BY <1>7 DEF SendResult
  <2>2. Delivering /\ job[w] \in Hosts /\ r \in Result
    BY <2>1 DEF PoolInv, Types, JobsOwned, ClosedWhenDone, Result
  <2>3. HostsIn(results') = HostsIn(results) \cup {job[w]}
    BY <1>1, <2>1, <2>2, HostsInAppend
  <2>4. \A v \in Pool : v # w => job'[v] = job[v]
    BY <2>1 DEF PoolInv, Types
  <2>5. \A h \in Hosts : h < next' =>
          (\E v \in Pool : job'[v] = h) \/ h \in HostsIn(results') \cup HostsIn(out')
    BY <2>1, <2>3, <2>4 DEF Accounted
  <2>6. QED
    BY <2>1, <2>2, <2>5 DEF Accounted, Delivering
<1>8. CASE UNCHANGED <<main, next, job, results, out>>
  <2>1. main' = main /\ next' = next /\ job' = job /\ results' = results /\ out' = out
    BY <1>8
  <2>2. QED
    BY <2>1 DEF Accounted, Delivering
<1>9. ASSUME NEW w \in Pool, Work(w) PROVE SendResult(w) \/ UNCHANGED <<main, next, job, results, out>>
  BY <1>9 DEF Work, FetchRoot, FetchLogon, Login, GetSystemInfo, Relogin, Logout, Exit, Recognised, Decide,
     Goto, InfoEnds
<1>10. QED
  BY <1>2, <1>3, <1>4, <1>5, <1>6, <1>7, <1>8, <1>9 DEF Next, Caller, vars

LEMMA AccountedInit == Init => Accounted
<1> SUFFICES ASSUME Init PROVE Accounted
  OBVIOUS
<1>1. <<>> \in Seq(Result)
  OBVIOUS
<1>2. \A h \in Hosts : ~(h < 1)
  BY HostsAreNat
<1>3. QED
  BY <1>1, <1>2 DEF Init, Accounted, Delivering

\* Every variable keeps its type: every host handed out, delivered or logged in to exists.
THEOREM ScanTyped == Spec => []TypeOK
<1>1. Init => SessionTypes
  BY DEF Init, SessionTypes
<1>2. PoolInv /\ Accounted /\ SessionTypes => TypeOK
  BY DEF PoolInv, Types, Accounted, SessionTypes, TypeOK
<1>3. QED
  BY <1>1, <1>2, PoolInvInit, PoolInvStep, AccountedInit, AccountedStep, SessionTypesStep, PTL DEF Spec

LEMMA StepPromised ==
  PoolInv /\ Accounted /\ Accounted' /\ [Next]_vars => [Promise!Next]_(Promise!vars)
<1> SUFFICES ASSUME PoolInv, Accounted, Accounted', [Next]_vars
             PROVE  [Promise!Next]_(Promise!vars)
  OBVIOUS
<1> DEFINE Heard == HostsIn(results) \cup HostsIn(out)
           Shown == IF main = "done" THEN [i \in DOMAIN out |-> out[i].host] ELSE <<>>
<1>1. results \in Seq(Result) /\ out \in Seq(Result)
  BY DEF PoolInv, Types, Accounted
<1>2. CASE Drain
  <2>1. Shown' = Shown
    BY <1>2 DEF Drain
  <2>2. Heard' = Heard
    <3>1. results # <<>> /\ results' = Tail(results) /\ out' = Append(out, Head(results))
      BY <1>2 DEF Drain
    <3>2. Head(results) \in Result /\ HostsIn(results) = {Head(results).host} \cup HostsIn(Tail(results))
      BY <1>1, <3>1, HostsInTail
    <3>3. HostsIn(Append(out, Head(results))) = HostsIn(out) \cup {Head(results).host}
      BY <1>1, <3>2, HostsInAppend
    <3>4. QED
      BY <3>1, <3>2, <3>3
  <2>3. QED
    BY <2>1, <2>2 DEF Promise!vars
<1>3. CASE Report
  <2>1. results = <<>> /\ results' = <<>> /\ main' = "done"
    BY <1>3 DEF Report
  <2>2. HostsIn(<<>>) = {}
    BY DEF HostsIn
  <2>3. Heard = Hosts /\ Heard' = Heard
    BY <1>3, <2>1, <2>2, Reported
  <2>4. Shown' = [i \in Hosts |-> i]
    <3>1. DOMAIN out' = 1..NumHosts /\ \A i \in 1..NumHosts : out'[i].host = i
      BY <1>3, Reported
    <3>2. QED
      BY <2>1, <3>1 DEF Hosts
  <2>5. Promise!Publish
    BY <2>3, <2>4 DEF Promise!Publish, Promise!Hosts, Hosts
  <2>6. QED
    BY <2>5 DEF Promise!Next
<1>4. ASSUME NEW w \in Pool, SendResult(w) PROVE Promise!Next
  <2> DEFINE r == [host |-> job[w], verdict |-> verdict[w]]
  <2>1. at[w] = "send" /\ results' = Append(results, r) /\ UNCHANGED <<main, out>>
    BY <1>4 DEF SendResult
  <2>2. Delivering /\ job[w] \in Hosts /\ r \in Result
    BY <2>1 DEF PoolInv, Types, JobsOwned, ClosedWhenDone, Result
  <2>3. HostsIn(results') = HostsIn(results) \cup {job[w]}
    BY <1>1, <2>1, <2>2, HostsInAppend
  <2>4. job[w] \notin Heard
    <3>1. job[w] \notin HostsIn(results)
      BY <1>1, <2>2 DEF PoolInv, ResultsDistinct, HostsIn
    <3>2. HostsIn(out) = {}
      BY <2>2 DEF Accounted, HostsIn
    <3>3. QED
      BY <3>1, <3>2
  <2>5. Heard' = Heard \cup {job[w]} /\ Shown' = Shown
    BY <2>1, <2>3
  <2>6. Promise!Deliver(job[w])
    BY <2>4, <2>5 DEF Promise!Deliver
  <2>7. QED
    BY <2>2, <2>6 DEF Promise!Next, Promise!Hosts, Hosts
<1>5. CASE CloseJobs \/ CloseResults
  BY <1>5 DEF CloseJobs, CloseResults, Promise!vars
<1>6. CASE UNCHANGED <<main, results, out>>
  BY <1>6 DEF Promise!vars
<1>7. ASSUME NEW w \in Pool, Handoff(w) \/ Work(w)
      PROVE  SendResult(w) \/ UNCHANGED <<main, results, out>>
  BY <1>7 DEF Handoff, Work, FetchRoot, FetchLogon, Login, GetSystemInfo, Relogin, Logout, Exit,
     Recognised, Decide, Goto, InfoEnds
<1>8. QED
  BY <1>2, <1>3, <1>4, <1>5, <1>6, <1>7 DEF Next, Caller, vars

\* The scan keeps the promise of ScanReport: each host delivers once, and the one report
\* that is published lists all of them in address order, for any number of hosts and
\* workers and any order of arrival.
THEOREM ReportKept == Spec => Promise!Init /\ [][Promise!Next]_(Promise!vars)
<1>1. Init => Promise!Init
  BY DEF Init, Promise!Init, HostsIn
<1>2. QED
  BY <1>1, PoolInvInit, PoolInvStep, AccountedInit, AccountedStep, StepPromised, PTL DEF Spec
=============================================================================
