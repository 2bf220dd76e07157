--------------------------- MODULE HardwareSuite ---------------------------
(***************************************************************************)
(* The destructive hardware suite (src/toolbox/hardwaresuite/suite.go):    *)
(* reset the switch, take a baseline backup, then per mutation of the plan *)
(* apply it, let it settle and take a backup, and reset at the end.        *)
(*                                                                         *)
(* Each of the four operations first authenticates, with the Client of the *)
(* previous one or with a list of candidate passwords, and then sends its  *)
(* requests; the caller's context may be cancelled at any moment, and all  *)
(* but the initial reset look at it once more before they send.  What a    *)
(* request comes to is taken from ClientSession: performed, refused        *)
(* unnoticed, lost but taken for success, or failed with its effect        *)
(* unknown.  The write requests of the plan are numbered throughout.       *)
(***************************************************************************)
EXTENDS Naturals, Sequences, FiniteSets

CONSTANTS Plan,            \* the mutations, in order; see MutationType
          Sets,            \* per write request of the plan: the password it sets, or None
          InitialPassword, \* plan.initialPassword
          PostReset,       \* plan.postResetPass, the factory password
          Passwords,       \* every password in play
          Trimmed          \* strings.TrimSpace on them

None == "none"   \* the empty password of the code: none given, or no Client

\* old and next are None where the plan leaves them out.  A mutation's requests are
\* those numbered first to last: the lines of its script that write, or the one that
\* changes the password.
MutationType == [kind : {"change-password", "script"}, old : Passwords \cup {None},
                 next : Passwords \cup {None}, first : Nat, last : Nat]

\* The last request of the first k mutations.
Last(k) == IF k = 0 THEN 0 ELSE Plan[k].last

ASSUME ConstantsAssumption ==
  /\ None \notin Passwords /\ {InitialPassword, PostReset} \subseteq Passwords
  /\ Trimmed \in [Passwords -> Passwords] /\ \A p \in Passwords : Trimmed[Trimmed[p]] = Trimmed[p]
  /\ Trimmed[InitialPassword] = InitialPassword /\ Trimmed[PostReset] = PostReset
  /\ Sets \in Seq(Passwords \cup {None})
  /\ Plan \in Seq(MutationType) /\ Plan # <<>>
  /\ \A i \in DOMAIN Plan :
       /\ Plan[i].first = Last(i - 1) + 1 /\ Plan[i].last \in Last(i - 1)..Len(Sets)
       /\ Plan[i].kind = "change-password" =>
            Plan[i].last = Plan[i].first /\ Sets[Plan[i].first] # None

VARIABLES
  stage,            \* where the run stands
  task,             \* the operation in progress
  i,                \* the mutation in progress, 0 before the first
  request,          \* its next request, 0 unless it sends them or failed doing so
  cancelled,        \* ctx.Err() is set
  underway,         \* what was sending its requests at that moment, <<>> if nothing
  client,           \* the password o.client was made with, None for nil
  currentPassword,  \* o.currentPassword
  failed,           \* primaryErr is set
  snapshots,        \* index.Snapshots: what the switch held, or its login page
  mutations,        \* index.Mutations: their status, in order
  cleanup,          \* index.Cleanup: "none", "failed", "succeeded"
  password, config, \* the switch: admin password; requests performed since it was new
  lossy,            \* a write was reported as done that was not performed
  unsure            \* a write was reported as failed that was performed

run     == <<stage, task, i, request, client, currentPassword, failed>>
context == <<cancelled, underway>>
index   == <<snapshots, mutations, cleanup>>
switch  == <<password, config, lossy, unsure>>
vars    == <<run, context, index, switch>>

Stages == {"connect", "act", "send", "grace", "reconnect", "loop", "settle", "done"}
Tasks  == {"reset", "baseline", "mutate", "snapshot", "final"}

\* One change of the switch's configuration is a request of the plan; 0 is what the
\* switch was configured with before the run, and one past the plan marks what is no
\* configuration.
Change == 0..(Len(Sets) + 1)

\* What BackupConfig returns in place of a configuration when the session is
\* lost between the login and the backup.
LoginPage == <<Len(Sets) + 1>>

TypeOK ==
  /\ stage \in Stages /\ task \in Tasks /\ i \in 0..(Len(Plan) + 1)
  /\ request \in 0..(Len(Sets) + 1)
  /\ cancelled \in BOOLEAN /\ failed \in BOOLEAN
  /\ underway \in {<<>>} \cup (Tasks \X (0..(Len(Plan) + 1)))
  /\ client \in Passwords \cup {None} /\ currentPassword \in Passwords
  /\ \A k \in DOMAIN snapshots : snapshots[k] \in Seq(Change)
  /\ mutations \in Seq({"ok", "failed"}) /\ Len(mutations) <= Len(Plan)
  /\ cleanup \in {"none", "failed", "succeeded"}
  /\ password \in Passwords /\ config \in Seq(Change)
  /\ lossy \in BOOLEAN /\ unsure \in BOOLEAN
  /\ stage \in {"act", "send"} => client # None

Init ==
  /\ stage = "connect" /\ task = "reset" /\ i = 0 /\ request = 0
  /\ underway = <<>> /\ cancelled = FALSE /\ failed = FALSE
  /\ client = None /\ currentPassword = InitialPassword
  /\ snapshots = <<>> /\ mutations = <<>> /\ cleanup = "none"
  /\ password \in {InitialPassword, PostReset} /\ config = <<0>>
  /\ lossy = FALSE /\ unsure = FALSE
-----------------------------------------------------------------------------
(* The operations' outcomes, and what the run does with them               *)

Start(t) == stage' = "connect" /\ task' = t

\* Bug shape for AfterFailure: a failed mutation is tried again.
AfterFailureRetry == IF task \in {"mutate", "snapshot"} THEN "mutate" ELSE "final"

AfterFailure == "final"

\* Bug shape for PrimaryError: a failed cleanup does not count.
PrimaryErrorOnly == failed \/ task # "final"

PrimaryError == TRUE

\* The operation in progress returns an error: a mutation is recorded as failed,
\* and whatever it was the final reset comes next, unless this was that.
OpFails ==
  /\ mutations' = IF task \in {"mutate", "snapshot"} THEN Append(mutations, "failed")
                                                   ELSE mutations
  /\ failed' = PrimaryError
  /\ IF task = "final" THEN stage' = "done" /\ cleanup' = "failed" /\ UNCHANGED task
                       ELSE Start(AfterFailure) /\ UNCHANGED cleanup
  /\ UNCHANGED <<i, request, snapshots>>

Cancel ==
  /\ ~cancelled /\ stage # "done" /\ cancelled' = TRUE
  /\ underway' = IF stage = "send" THEN <<task, i>> ELSE <<>>
  /\ UNCHANGED <<run, index, switch>>

\* The passwords an operation tries, without the space around them.
Candidates == {Trimmed[currentPassword], PostReset, InitialPassword}

\* Where an operation goes on with its Client: InitialFactoryReset sends its request
\* without another look at ctx.
LoggedIn ==
  /\ stage' = IF task = "reset" THEN "send" ELSE "act"
  /\ UNCHANGED <<task, i, request, failed, index>>

\* ensureConnectedWithCandidates: the old Client logs in again, or a new one with
\* the first password the switch accepts; every login may fail on the network.
Connect ==
  /\ stage = "connect"
  /\ IF cancelled THEN OpFails /\ UNCHANGED <<client, currentPassword>> ELSE
       \/ client = password /\ LoggedIn /\ UNCHANGED <<client, currentPassword>>
       \/ /\ password \in Candidates /\ LoggedIn
          /\ client' = password /\ currentPassword' = password
       \/ OpFails /\ client' = None /\ UNCHANGED currentPassword
  /\ UNCHANGED <<context, switch>>

\* Bug shape for Proceed: ctx is not looked at between the login and the requests.
ProceedAnyway == TRUE

Proceed == ~cancelled

\* The last look at ctx before CaptureBackup, ApplyMutation and FinalFactoryReset send.
CheckContext ==
  /\ stage = "act"
  /\ IF Proceed
       THEN /\ stage' = "send"
            /\ request' = IF task = "mutate" THEN Plan[i].first ELSE request
            /\ UNCHANGED <<task, i, failed, index>>
       ELSE OpFails
  /\ UNCHANGED <<client, currentPassword, context, switch>>

\* What becomes of a reset request: performed, or lost.
Reset     == password' = PostReset /\ config' = <<>>
Untouched == UNCHANGED <<password, config>>

\* FactoryReset returned nil; a lost request's dropped connection does so too.
FactoryResetDone ==
  \/ Reset /\ UNCHANGED <<lossy, unsure>>
  \/ Untouched /\ lossy' = TRUE /\ UNCHANGED unsure

FactoryResetFails ==
  \/ Reset /\ unsure' = TRUE /\ UNCHANGED lossy
  \/ UNCHANGED switch
-----------------------------------------------------------------------------
(* InitialFactoryReset                                                     *)

InitialReset ==
  /\ stage = "send" /\ task = "reset"
  /\ \/ /\ FactoryResetDone
        /\ client' = None /\ stage' = "grace"
        /\ UNCHANGED <<task, i, request, failed, currentPassword, index>>
     \/ FactoryResetFails /\ OpFails /\ UNCHANGED <<client, currentPassword>>
  /\ UNCHANGED context

Grace ==
  /\ stage = "grace"
  /\ \/ stage' = "reconnect" /\ UNCHANGED <<task, i, request, failed, index>>
     \/ cancelled /\ OpFails
  /\ UNCHANGED <<client, currentPassword, context, switch>>

\* Bug shape for GivesUp: only ctx ends the polling.
GivesUpOnCancel == cancelled

GivesUp == TRUE

\* waitForReconnect polls with the post-reset password until its deadline passes
\* or ctx is cancelled.
Reconnect ==
  /\ stage = "reconnect"
  /\ \/ /\ ~cancelled /\ password = PostReset
        /\ client' = PostReset /\ currentPassword' = PostReset
        /\ Start("baseline") /\ UNCHANGED <<i, request, failed, index>>
     \/ GivesUp /\ OpFails /\ UNCHANGED <<client, currentPassword>>
  /\ UNCHANGED <<context, switch>>
-----------------------------------------------------------------------------
(* CaptureBackup, for the baseline and after each mutation                 *)

Capture(content) ==
  /\ snapshots' = Append(snapshots, content)
  /\ stage' = "loop" /\ i' = i + 1
  /\ mutations' = IF task = "snapshot" THEN Append(mutations, "ok") ELSE mutations
  /\ UNCHANGED <<task, request, failed, cleanup>>

CaptureBackup ==
  /\ stage = "send" /\ task \in {"baseline", "snapshot"}
  /\ OpFails \/ \E content \in {config, LoginPage} : Capture(content)
  /\ UNCHANGED <<client, currentPassword, context, switch>>

\* The head of the loop over the plan.
NextMutation ==
  /\ stage = "loop"
  /\ IF i > Len(Plan) \/ cancelled
       THEN Start("final") /\ failed' = (failed \/ i <= Len(Plan))
       ELSE Start("mutate") /\ UNCHANGED failed
  /\ UNCHANGED <<i, request, client, currentPassword, context, index, switch>>
-----------------------------------------------------------------------------
(* ApplyMutation                                                           *)

\* The old password the request carries: the switch refuses a wrong one in the
\* body of its answer, which nobody reads.
OldPassword(m) == IF m.old = None THEN currentPassword ELSE Trimmed[m.old]

Accepted(m) == m.kind = "script" \/ OldPassword(m) = password

Perform(r) ==
  /\ config' = Append(config, r)
  /\ password' = IF Sets[r] = None THEN password ELSE Sets[r]

\* One request of the mutation returned nil: performed, or refused or lost without
\* notice.
RequestDone(m) ==
  /\ request <= m.last /\ request' = request + 1
  /\ \/ Accepted(m) /\ Perform(request) /\ UNCHANGED <<lossy, unsure>>
     \/ Untouched /\ lossy' = TRUE /\ UNCHANGED unsure
  /\ UNCHANGED <<stage, task, i, failed, currentPassword, index>>

\* What is taken for the password after m.  Bug shape: it is not updated.
NextPasswordUnchanged(m) == currentPassword

NextPassword(m) ==
  CASE m.kind = "change-password"         -> Sets[m.first]
    [] m.kind = "script" /\ m.next # None -> Trimmed[m.next]
    [] OTHER                              -> currentPassword

MutationDone(m) ==
  /\ request > m.last /\ request' = 0
  /\ currentPassword' = NextPassword(m)
  /\ stage' = "settle"
  /\ UNCHANGED <<task, i, failed, index, switch>>

\* A request fails, performed or not, or a line of a script that sends none.
MutationFails(m) ==
  /\ \/ /\ request <= m.last /\ Accepted(m)
        /\ Perform(request) /\ unsure' = TRUE /\ UNCHANGED lossy
     \/ (request <= m.last \/ m.kind = "script") /\ UNCHANGED switch
  /\ OpFails /\ UNCHANGED currentPassword

\* No look at ctx from here to the end of the mutation.
ApplyMutation ==
  /\ stage = "send" /\ task = "mutate"
  /\ RequestDone(Plan[i]) \/ MutationDone(Plan[i]) \/ MutationFails(Plan[i])
  /\ UNCHANGED <<client, context>>

\* sleepWithContext after the mutation.
Settle ==
  /\ stage = "settle"
  /\ \/ Start("snapshot") /\ UNCHANGED <<i, request, failed, index>>
     \/ cancelled /\ OpFails
  /\ UNCHANGED <<client, currentPassword, context, switch>>
-----------------------------------------------------------------------------
(* FinalFactoryReset                                                       *)

FinalReset ==
  /\ stage = "send" /\ task = "final"
  /\ \/ /\ FactoryResetDone
        /\ client' = None /\ stage' = "done" /\ cleanup' = "succeeded"
        /\ UNCHANGED <<task, i, request, failed, snapshots, mutations>>
     \/ FactoryResetFails /\ OpFails /\ UNCHANGED client
  /\ UNCHANGED <<currentPassword, context>>

Suite ==
  \/ Connect \/ CheckContext \/ InitialReset \/ Grace \/ Reconnect \/ CaptureBackup
  \/ NextMutation \/ ApplyMutation \/ Settle \/ FinalReset

Next == Suite \/ Cancel

Spec == Init /\ [][Next]_vars

\* The run goes on: logins, requests, sleeps and polling all have time limits.
FairSpec == Spec /\ WF_vars(Suite)
-----------------------------------------------------------------------------
(* Properties                                                              *)

Requests(n) == [r \in 1..n |-> r]

\* Snapshot k of the library shows the factory configuration with exactly the
\* first k mutations of the plan applied, each request of them once and in order: a
\* failure ends the loop before anything else is recorded, so that no script is shown
\* half-way.  Unless a write was lost and taken for success, or the login page was stored.
SnapshotsFaithful ==
  lossy \/ \A k \in DOMAIN snapshots : snapshots[k] \in {Requests(Last(k - 1)), LoginPage}

\* The plan's script failed behind a request that changed the password: next_password
\* is not applied, and the switch has a password the suite has not been told of.
Stranded ==
  task = "final" /\ request # 0
  /\ \E r \in Plan[i].first..(request - 1) : Sets[r] # None /\ password = Sets[r]

\* As long as every write came to what was reported, the suite can log in: one of
\* the passwords it would try is the switch's, after any sequence of mutations and
\* failures but one, a script that stops behind its password line.
NotLockedOut ==
  stage = "connect" =>
    lossy \/ unsure \/ Stranded \/ password \in Candidates \cup {client}

\* For the proof of it: the plan says of each script which password it leaves behind,
\* and no password left behind has space around it, which would be set but never tried.
PlanTruthful ==
  \A k \in DOMAIN Plan :
    LET setting == {r \in Plan[k].first..Plan[k].last : Sets[r] # None} IN
    /\ setting = {} => Plan[k].next = None
    /\ \A r \in setting : (\A q \in setting : q <= r) =>
         IF Plan[k].kind = "change-password" THEN Trimmed[Sets[r]] = Sets[r]
         ELSE Plan[k].next # None /\ Trimmed[Plan[k].next] = Sets[r]

\* A run reported as a success applied and recorded the whole plan and reset the
\* switch; a run whose cleanup succeeded left factory settings behind.
StatusHonest ==
  stage = "done" =>
    /\ ~failed => /\ Len(snapshots) = Len(Plan) + 1 /\ cleanup = "succeeded"
                  /\ mutations = [k \in DOMAIN Plan |-> "ok"]
    /\ cleanup = "succeeded" /\ ~lossy => config = <<>> /\ password = PostReset
    /\ cleanup # "none"

\* After the context is cancelled nothing reaches the switch but requests of the
\* operation that was sending them at that moment: a script is finished, but no other
\* mutation and no final reset begins, and neither does one that was still logging in.
CancelStopsWrites ==
  [][cancelled /\ <<password, config>>' # <<password, config>> => underway = <<task, i>>]_vars

\* The run ends.
SuiteEnds == <>(stage = "done")
=============================================================================
