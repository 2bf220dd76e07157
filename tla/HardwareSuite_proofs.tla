------------------------ MODULE HardwareSuite_proofs ------------------------
(***************************************************************************)
(* Machine-checked proofs about HardwareSuite: for any plan, the backup    *)
(* library shows what its names say, the status of the run is honest,      *)
(* nothing begins to write after a cancellation, and a suite whose plan    *)
(* tells the truth about its scripts' passwords can log in unless one of   *)
(* them stops behind its password line.                                    *)
(***************************************************************************)
EXTENDS HardwareSuite, TLAPS

AllOk(k) == [j \in 1..k |-> "ok"]

Before(k) == IF k = 0 THEN 0 ELSE k - 1

\* A mutation is being applied.
Mid == stage = "send" /\ task = "mutate"

\* Where each task can stand, and which mutation and which request it is about.
PlaceInv ==
  /\ stage \in {"grace", "reconnect"} => task = "reset"
  /\ stage = "loop" => task \in {"baseline", "snapshot"} /\ i \in 1..(Len(Plan) + 1)
  /\ stage = "settle" => task = "mutate"
  /\ stage = "done" => task = "final"
  /\ task \in {"reset", "baseline"} /\ stage # "loop" => i = 0
  /\ task \in {"mutate", "snapshot"} /\ stage # "loop" => i \in 1..Len(Plan)
  /\ Mid => request \in Plan[i].first..(Plan[i].last + 1)
  /\ request # 0 => Mid \/ task = "final"

\* Until something fails, index and library have grown with i.
ProgressInv ==
  /\ task # "final" => ~failed /\ cleanup = "none"
  /\ ~failed => Len(snapshots) = i /\ mutations = AllOk(Before(i))
  /\ ~failed /\ task = "final" => i = Len(Plan) + 1
  /\ Len(mutations) <= Len(Plan)

\* The mutations the switch has performed when the run stands where it does.
Applied ==
  IF stage = "settle" \/ (task = "snapshot" /\ stage # "loop") THEN i ELSE Before(i)

\* The last request the switch has performed when the run stands where it does.
Sent == IF Mid THEN request - 1 ELSE Last(Applied)

\* From the initial reset to the first failure, the switch holds a prefix of the plan.
ConfigInv ==
  ~lossy /\ task # "final" /\ ~(task = "reset" /\ stage \in {"connect", "act", "send"}) =>
    config = Requests(Sent)

\* How the run ended.
EndInv ==
  stage = "done" =>
    /\ cleanup # "none"
    /\ ~failed => cleanup = "succeeded"
    /\ cleanup = "succeeded" /\ ~lossy => config = <<>> /\ password = PostReset

SuiteInv ==
  /\ TypeOK /\ snapshots \in Seq(Seq(Change))
  /\ PlaceInv /\ ProgressInv /\ ConfigInv /\ SnapshotsFaithful /\ EndInv
-----------------------------------------------------------------------------
\* One more mutation done makes the statuses one longer.
LEMMA AllOkGrows == ASSUME NEW k \in Nat PROVE Append(AllOk(k), "ok") = AllOk(k + 1)
<1>1. AllOk(k) \in Seq({"ok"}) /\ Len(AllOk(k)) = k
  BY DEF AllOk
<1>2. AllOk(k + 1) \in Seq({"ok"}) /\ Len(AllOk(k + 1)) = k + 1
  BY DEF AllOk
<1>3. QED
  BY <1>1, <1>2 DEF AllOk

\* One more request performed makes the configuration one longer.
LEMMA RequestsGrow ==
  ASSUME NEW n \in Nat, n <= Len(Sets)
  PROVE  /\ Requests(n) \in Seq(Change)
         /\ n < Len(Sets) => Append(Requests(n), n + 1) = Requests(n + 1)
<1>0. Len(Sets) \in Nat
  BY ConstantsAssumption
<1>1. \A j \in 0..Len(Sets) : Requests(j) \in Seq(Change) /\ Len(Requests(j)) = j
  BY <1>0 DEF Requests, Change
<1>2. ASSUME n < Len(Sets) PROVE Append(Requests(n), n + 1) = Requests(n + 1)
  <2>1. Requests(n) \in Seq(Change) /\ Len(Requests(n)) = n
    BY <1>0, <1>1
  <2>2. Requests(n + 1) \in Seq(Change) /\ Len(Requests(n + 1)) = n + 1
    BY <1>0, <1>1, <1>2
  <2>3. QED
    BY <2>1, <2>2 DEF Requests
<1>3. QED
  BY <1>0, <1>1, <1>2

\* The factory configuration, and the page stored in place of one.
LEMMA Contents ==
  /\ Requests(0) = <<>> /\ AllOk(0) = <<>>
  /\ LoginPage \in Seq(Change) /\ Len(Plan) \in Nat /\ Len(Sets) \in Nat /\ Last(0) = 0
<1>1. Len(Plan) \in Nat /\ Len(Sets) \in Nat
  BY ConstantsAssumption
<1>2. Len(Sets) + 1 \in Change
  BY <1>1 DEF Change
<1>3. QED
  BY <1>1, <1>2 DEF Requests, AllOk, LoginPage, Last

\* The entries of the plan: which requests are theirs.
LEMMA PlanTyped ==
  ASSUME NEW k \in 1..Len(Plan)
  PROVE  /\ Plan[k] \in MutationType
         /\ Last(k) = Plan[k].last /\ Last(k - 1) \in Nat /\ Last(k) \in Nat
         /\ Plan[k].first = Last(k - 1) + 1 /\ Plan[k].last \in Last(k - 1)..Len(Sets)
         /\ Plan[k].kind = "change-password" =>
              /\ Plan[k].last = Plan[k].first
              /\ Sets[Plan[k].first] # None /\ Sets[Plan[k].first] \in Passwords
<1>1. Plan \in Seq(MutationType) /\ DOMAIN Plan = 1..Len(Plan) /\ Len(Plan) \in Nat
      /\ Sets \in Seq(Passwords \cup {None}) /\ Len(Sets) \in Nat
  BY ConstantsAssumption
<1>2. \A j \in 1..Len(Plan) : Plan[j] \in MutationType /\ Plan[j].last \in Nat
  <2> TAKE j \in 1..Len(Plan)
  <2>1. Plan[j] \in MutationType
    BY <1>1
  <2>2. QED
    BY <2>1 DEF MutationType
<1>3. Last(k) = Plan[k].last /\ Last(k) \in Nat
  BY <1>1, <1>2 DEF Last
<1>4. Last(k - 1) \in Nat
  <2>1. CASE k = 1
    BY <2>1 DEF Last
  <2>2. CASE k # 1
    <3>1. k - 1 \in 1..Len(Plan) /\ k - 1 # 0
      BY <1>1, <2>2
    <3>2. QED
      BY <1>2, <3>1 DEF Last
  <2>3. QED
    BY <2>1, <2>2
<1>5. Plan[k].first = Last(k - 1) + 1 /\ Plan[k].last \in Last(k - 1)..Len(Sets)
  BY <1>1, ConstantsAssumption
<1>6. ASSUME Plan[k].kind = "change-password"
      PROVE  /\ Plan[k].last = Plan[k].first
             /\ Sets[Plan[k].first] # None /\ Sets[Plan[k].first] \in Passwords
  <2>1. Plan[k].last = Plan[k].first /\ Sets[Plan[k].first] # None
    BY <1>1, <1>6, ConstantsAssumption
  <2>2. Plan[k].first \in 1..Len(Sets)
    BY <1>1, <1>4, <1>5, <2>1
  <2>3. QED
    BY <1>1, <2>1, <2>2
<1>7. QED
  BY <1>2, <1>3, <1>4, <1>5, <1>6
-----------------------------------------------------------------------------
\* The initial state is as far as the plan has come: nowhere.
LEMMA SuiteInvInit == Init => SuiteInv
<1> SUFFICES ASSUME Init PROVE SuiteInv
  OBVIOUS
<1>1. config \in Seq(Change)
  BY Contents DEF Init, Change
<1>2. TypeOK
  <2>1. cancelled \in BOOLEAN /\ failed \in BOOLEAN /\ lossy \in BOOLEAN /\ unsure \in BOOLEAN
    BY Zenon DEF Init
  <2>2. /\ stage \in Stages /\ task \in Tasks /\ i \in 0..(Len(Plan) + 1)
        /\ request \in 0..(Len(Sets) + 1) /\ underway = <<>>
    BY Contents DEF Init, Stages, Tasks
  <2>3. client \in Passwords \cup {None} /\ currentPassword \in Passwords /\ password \in Passwords
    BY ConstantsAssumption DEF Init
  <2>4. /\ mutations \in Seq({"ok", "failed"}) /\ Len(mutations) <= Len(Plan)
        /\ cleanup \in {"none", "failed", "succeeded"} /\ (stage \in {"act", "send"} => client # None)
        /\ \A k \in DOMAIN snapshots : snapshots[k] \in Seq(Change)
    BY Contents DEF Init
  <2>5. QED
    BY <1>1, <2>1, <2>2, <2>3, <2>4, Zenon DEF TypeOK
<1>3. SnapshotsFaithful /\ snapshots \in Seq(Seq(Change))
  BY DEF Init, SnapshotsFaithful
<1>4. PlaceInv /\ EndInv /\ ConfigInv
  BY DEF Init, PlaceInv, EndInv, ConfigInv, Mid
<1>5. ProgressInv
  BY Contents DEF Init, ProgressInv, Before
<1>6. QED
  BY <1>2, <1>3, <1>4, <1>5 DEF SuiteInv

\* What any step leaves well typed.
KeptTypes ==
  /\ client' \in Passwords \cup {None} /\ currentPassword' \in Passwords
  /\ cancelled' \in BOOLEAN /\ underway' \in {<<>>} \cup (Tasks \X (0..(Len(Plan) + 1)))
  /\ password' \in Passwords /\ config' \in Seq(Change)
  /\ lossy' \in BOOLEAN /\ unsure' \in BOOLEAN /\ (lossy => lossy')

\* A failure leads to the final reset, or ends that, and records nothing untrue.
LEMMA OpFailsKeeps ==
  ASSUME SuiteInv, OpFails, KeptTypes, stage \notin {"loop", "done"}
  PROVE  SuiteInv'
<1>1. UNCHANGED <<i, request, snapshots>> /\ failed' = TRUE
  BY DEF OpFails, PrimaryError
<1>2. /\ mutations' \in Seq({"ok", "failed"}) /\ Len(mutations') <= Len(Plan)
  <2>1. CASE task \in {"mutate", "snapshot"}
    <3>1. ~failed /\ i \in 1..Len(Plan)
      BY <2>1 DEF SuiteInv, PlaceInv, ProgressInv
    <3>2. Len(mutations) = i - 1
      BY <3>1, Contents DEF SuiteInv, ProgressInv, AllOk, Before
    <3>3. mutations' = Append(mutations, "failed")
      BY <2>1 DEF OpFails
    <3>4. QED
      BY <3>1, <3>2, <3>3, Contents DEF SuiteInv, TypeOK
  <2>2. CASE task \notin {"mutate", "snapshot"}
    BY <2>2 DEF OpFails, SuiteInv, TypeOK
  <2>3. QED
    BY <2>1, <2>2
<1>3. \/ stage' = "done" /\ task' = "final" /\ cleanup' = "failed"
      \/ stage' = "connect" /\ task' = "final" /\ UNCHANGED cleanup
  BY DEF OpFails, Start, AfterFailure, SuiteInv, TypeOK
<1>4. TypeOK' /\ (snapshots \in Seq(Seq(Change)))'
  BY <1>1, <1>2, <1>3 DEF KeptTypes, SuiteInv, TypeOK, Stages, Tasks
<1>5. PlaceInv' /\ ConfigInv'
  BY <1>3 DEF PlaceInv, ConfigInv, Mid
<1>6. ProgressInv'
  BY <1>1, <1>2, <1>3 DEF ProgressInv
<1>7. SnapshotsFaithful'
  BY <1>1 DEF KeptTypes, SuiteInv, SnapshotsFaithful, TypeOK
<1>8. EndInv'
  BY <1>1, <1>3 DEF EndInv
<1>9. QED
  BY <1>4, <1>5, <1>6, <1>7, <1>8 DEF SuiteInv

\* A login changes nothing but the Client and what it takes for the password.
LEMMA ConnectKeeps == ASSUME SuiteInv, Connect PROVE SuiteInv'
<1>1. stage = "connect" /\ UNCHANGED <<cancelled, underway, password, config, lossy, unsure>>
  BY DEF Connect, context, switch
<1>2. CASE OpFails
  <2>1. KeptTypes
    BY <1>1 DEF Connect, KeptTypes, SuiteInv, TypeOK
  <2>2. QED
    BY <1>1, <1>2, <2>1, OpFailsKeeps
<1>3. CASE ~OpFails
  <2>1. /\ stage' = IF task = "reset" THEN "send" ELSE "act"
        /\ UNCHANGED <<task, i, request, failed, snapshots, mutations, cleanup>>
    BY <1>3 DEF Connect, LoggedIn, index
  <2>2. client' \in Passwords /\ currentPassword' \in Passwords
    BY <1>3 DEF Connect, SuiteInv, TypeOK
  <2>3. TypeOK' /\ (snapshots \in Seq(Seq(Change)))'
    <3>1. client' # None
      BY <2>2, ConstantsAssumption
    <3>2. QED
      BY <1>1, <2>1, <2>2, <3>1 DEF SuiteInv, TypeOK, Stages
  <2>4. PlaceInv' /\ ConfigInv'
    BY <1>1, <2>1 DEF SuiteInv, PlaceInv, ConfigInv, Applied, Sent, Mid
  <2>5. ProgressInv' /\ SnapshotsFaithful' /\ EndInv'
    BY <1>1, <2>1 DEF SuiteInv, ProgressInv, SnapshotsFaithful, EndInv
  <2>6. QED
    BY <2>3, <2>4, <2>5 DEF SuiteInv
<1>4. QED
  BY <1>2, <1>3

\* The last look at the context lets the first request of a mutation be sent next.
LEMMA CheckContextKeeps == ASSUME SuiteInv, CheckContext PROVE SuiteInv'
<1>1. stage = "act" /\ UNCHANGED <<client, currentPassword, cancelled, underway,
                                   password, config, lossy, unsure>>
  BY DEF CheckContext, context, switch
<1>2. CASE OpFails
  <2>1. KeptTypes
    BY <1>1 DEF KeptTypes, SuiteInv, TypeOK
  <2>2. QED
    BY <1>1, <1>2, <2>1, OpFailsKeeps
<1>3. CASE ~OpFails
  <2>1. /\ stage' = "send" /\ request' = IF task = "mutate" THEN Plan[i].first ELSE request
        /\ UNCHANGED <<task, i, failed, snapshots, mutations, cleanup>>
    BY <1>3 DEF CheckContext, index
  <2>2. ASSUME task = "mutate"
        PROVE  /\ i \in 1..Len(Plan) /\ request' \in 1..(Len(Sets) + 1)
               /\ request' = Last(i - 1) + 1 /\ Last(i - 1) \in Nat
               /\ request' \in Plan[i].first..(Plan[i].last + 1)
    <3>1. i \in 1..Len(Plan)
      BY <1>1, <2>2 DEF SuiteInv, PlaceInv
    <3>2. QED
      BY <2>1, <2>2, <3>1, PlanTyped, Contents
  <2>3. TypeOK' /\ (snapshots \in Seq(Seq(Change)))'
    <3>1. request' \in 0..(Len(Sets) + 1)
      BY <2>1, <2>2, Contents, SMTT(40) DEF SuiteInv, TypeOK
    <3>2. QED
      BY <1>1, <2>1, <3>1 DEF SuiteInv, TypeOK, Stages
  <2>4. PlaceInv'
    BY <1>1, <2>1, <2>2 DEF SuiteInv, PlaceInv, Mid
  <2>5. ConfigInv'
    <3>1. CASE task = "mutate"
      <4>1. Before(i) = i - 1 /\ request' - 1 = Last(i - 1)
        BY <2>2, <3>1, Contents DEF Before
      <4>2. QED
        BY <1>1, <2>1, <3>1, <4>1 DEF SuiteInv, ConfigInv, Applied, Sent, Mid
    <3>2. CASE task # "mutate"
      BY <1>1, <2>1, <3>2 DEF SuiteInv, ConfigInv, Applied, Sent, Mid
    <3>3. QED
      BY <3>1, <3>2
  <2>6. ProgressInv' /\ SnapshotsFaithful' /\ EndInv'
    BY <1>1, <2>1 DEF SuiteInv, ProgressInv, SnapshotsFaithful, EndInv
  <2>7. QED
    BY <2>3, <2>4, <2>5, <2>6 DEF SuiteInv
<1>4. QED
  BY <1>2, <1>3

\* A reset request leaves the switch new, untouched with lossy set, or either when it
\* failed.
LEMMA ResetRequest ==
  ASSUME SuiteInv, FactoryResetDone \/ FactoryResetFails
  PROVE  /\ password' \in Passwords /\ config' \in Seq(Change)
         /\ lossy' \in BOOLEAN /\ unsure' \in BOOLEAN /\ (lossy => lossy')
         /\ FactoryResetDone /\ ~lossy' => config' = <<>> /\ password' = PostReset
<1>1. password' \in Passwords /\ config' \in Seq(Change)
  <2>1. password \in Passwords /\ config \in Seq(Change) /\ PostReset \in Passwords
    BY ConstantsAssumption DEF SuiteInv, TypeOK
  <2>2. (password' = PostReset /\ config' = <<>>) \/ (password' = password /\ config' = config)
    BY Zenon DEF Reset, FactoryResetDone, FactoryResetFails, Untouched, switch
  <2>3. <<>> \in Seq(Change)
    OBVIOUS
  <2>4. CASE password' = PostReset /\ config' = <<>>
    BY <2>1, <2>3, <2>4
  <2>5. CASE password' = password /\ config' = config
    BY <2>1, <2>5
  <2>6. QED
    BY <2>2, <2>4, <2>5
<1>2. lossy \in BOOLEAN /\ unsure \in BOOLEAN
  BY DEF SuiteInv, TypeOK
<1>3. lossy' \in BOOLEAN /\ unsure' \in BOOLEAN /\ (lossy => lossy')
  BY <1>2, Zenon DEF FactoryResetDone, FactoryResetFails, switch
<1>4. FactoryResetDone /\ ~lossy' => config' = <<>> /\ password' = PostReset
  BY Zenon DEF FactoryResetDone, Reset
<1>5. QED
  BY <1>1, <1>3, <1>4

\* The initial reset: nothing is recorded, and the switch is new or lossy is set.
LEMMA InitialResetKeeps == ASSUME SuiteInv, InitialReset PROVE SuiteInv'
<1>1. stage = "send" /\ task = "reset" /\ UNCHANGED <<cancelled, underway>>
  BY DEF InitialReset, context
<1>2. CASE OpFails
  <2>1. KeptTypes
    <3>1. (FactoryResetDone \/ FactoryResetFails) /\ client' \in Passwords \cup {None}
          /\ currentPassword' \in Passwords
      BY DEF InitialReset, SuiteInv, TypeOK
    <3>2. QED
      BY <1>1, <3>1, ResetRequest DEF KeptTypes, SuiteInv, TypeOK
  <2>2. QED
    BY <1>1, <1>2, <2>1, OpFailsKeeps
<1>3. CASE ~OpFails
  <2>1. /\ FactoryResetDone /\ client' = None /\ stage' = "grace"
        /\ UNCHANGED <<task, i, request, failed, currentPassword, snapshots, mutations, cleanup>>
    BY <1>3 DEF InitialReset, index
  <2>2. /\ password' \in Passwords /\ config' \in Seq(Change)
        /\ lossy' \in BOOLEAN /\ unsure' \in BOOLEAN /\ (lossy => lossy')
        /\ ~lossy' => config' = <<>>
    BY <2>1, ResetRequest
  <2>3. TypeOK' /\ (snapshots \in Seq(Seq(Change)))'
    BY <1>1, <2>1, <2>2 DEF SuiteInv, TypeOK, Stages
  <2>4. PlaceInv' /\ EndInv'
    BY <1>1, <2>1 DEF SuiteInv, PlaceInv, EndInv, Mid
  <2>5. ConfigInv'
    BY <1>1, <2>1, <2>2, Contents DEF SuiteInv, PlaceInv, ConfigInv, Applied, Before, Sent, Mid
  <2>6. ProgressInv' /\ SnapshotsFaithful'
    BY <1>1, <2>1, <2>2 DEF SuiteInv, ProgressInv, SnapshotsFaithful
  <2>7. QED
    BY <2>3, <2>4, <2>5, <2>6 DEF SuiteInv
<1>4. QED
  BY <1>2, <1>3

\* Waiting for the switch to come back.
LEMMA WaitingKeeps == ASSUME SuiteInv, Grace \/ Reconnect PROVE SuiteInv'
<1>1. /\ stage \in {"grace", "reconnect"} /\ task = "reset" /\ i = 0
      /\ UNCHANGED <<cancelled, underway, password, config, lossy, unsure>>
  BY DEF Grace, Reconnect, context, switch, SuiteInv, PlaceInv
<1>2. client' \in Passwords \cup {None} /\ currentPassword' \in Passwords
  BY ConstantsAssumption DEF Grace, Reconnect, SuiteInv, TypeOK
<1>3. CASE OpFails
  <2>1. KeptTypes
    BY <1>1, <1>2 DEF KeptTypes, SuiteInv, TypeOK
  <2>2. QED
    BY <1>1, <1>3, <2>1, OpFailsKeeps
<1>4. CASE ~OpFails
  <2>1. /\ UNCHANGED <<i, request, failed, snapshots, mutations, cleanup>>
        /\ \/ stage' = "reconnect" /\ task' = "reset"
           \/ stage' = "connect" /\ task' = "baseline"
    BY <1>1, <1>4 DEF Grace, Reconnect, Start, index
  <2>2. TypeOK' /\ (snapshots \in Seq(Seq(Change)))'
    BY <1>1, <1>2, <2>1 DEF SuiteInv, TypeOK, Stages, Tasks
  <2>3. PlaceInv' /\ EndInv'
    BY <1>1, <2>1 DEF SuiteInv, PlaceInv, EndInv, Mid
  <2>4. ConfigInv'
    BY <1>1, <2>1 DEF SuiteInv, ConfigInv, Applied, Before, Sent, Mid
  <2>5. ProgressInv' /\ SnapshotsFaithful'
    BY <1>1, <2>1 DEF SuiteInv, ProgressInv, SnapshotsFaithful
  <2>6. QED
    BY <2>2, <2>3, <2>4, <2>5 DEF SuiteInv
<1>5. QED
  BY <1>3, <1>4

\* A backup is stored under the number of mutations the switch has performed.
LEMMA CaptureKeeps ==
  ASSUME SuiteInv, NEW content \in {config, LoginPage}, Capture(content),
         stage = "send", task \in {"baseline", "snapshot"},
         UNCHANGED <<client, currentPassword, context, switch>>
  PROVE  SuiteInv'
<1>1. /\ stage' = "loop" /\ i' = i + 1 /\ snapshots' = Append(snapshots, content)
      /\ UNCHANGED <<task, request, failed, cleanup, client, currentPassword, cancelled,
                     underway, password, config, lossy, unsure>>
  BY DEF Capture, context, switch
<1>2. /\ ~failed /\ Len(snapshots) = i /\ mutations = AllOk(Before(i))
      /\ task = "baseline" => i = 0
      /\ task = "snapshot" => i \in 1..Len(Plan)
  BY DEF SuiteInv, PlaceInv, ProgressInv
<1>3. i \in 0..Len(Plan) /\ Before(i') = i
  BY <1>1, <1>2, Contents DEF Before
<1>4. mutations' = AllOk(i)
  <2>1. CASE task = "baseline"
    BY <1>2, <2>1 DEF Capture, Before
  <2>2. CASE task = "snapshot"
    <3>1. mutations' = Append(AllOk(i - 1), "ok") /\ i - 1 \in Nat
      BY <1>2, <2>2, Contents DEF Capture, Before
    <3>2. QED
      BY <1>3, <3>1, AllOkGrows
  <2>3. QED
    BY <2>1, <2>2
<1>5. content \in Seq(Change) /\ (snapshots \in Seq(Seq(Change)))'
  BY <1>1, Contents DEF SuiteInv, TypeOK
<1>6. mutations' \in Seq({"ok", "failed"}) /\ Len(mutations') <= Len(Plan)
  BY <1>3, <1>4, Contents DEF AllOk
<1>7. TypeOK'
  <2>1. stage' \in Stages /\ i' \in 0..(Len(Plan) + 1) /\ stage' \notin {"act", "send"}
    BY <1>1, <1>3, Contents DEF Stages
  <2>2. \A k \in DOMAIN snapshots' : snapshots'[k] \in Seq(Change)
    BY <1>5
  <2>3. QED
    BY <1>1, <1>6, <2>1, <2>2 DEF SuiteInv, TypeOK
<1>8. PlaceInv' /\ EndInv'
  BY <1>1, <1>3 DEF SuiteInv, PlaceInv, EndInv, Mid
<1>9. ProgressInv'
  BY <1>1, <1>2, <1>3, <1>4, <1>5, <1>6 DEF SuiteInv, ProgressInv
<1>10. ~lossy => config = Requests(Last(i))
  BY <1>2 DEF SuiteInv, ConfigInv, Applied, Before, Sent, Mid
<1>11. ConfigInv'
  BY <1>1, <1>3, <1>10 DEF ConfigInv, Applied, Sent, Mid
<1>12. SnapshotsFaithful'
  <2>1. (i + 1) - 1 = i
    BY <1>3
  <2>2. QED
    BY <1>1, <1>2, <1>3, <1>10, <2>1 DEF SuiteInv, SnapshotsFaithful
<1>13. QED
  BY <1>5, <1>7, <1>8, <1>9, <1>11, <1>12 DEF SuiteInv

LEMMA CaptureBackupKeeps == ASSUME SuiteInv, CaptureBackup PROVE SuiteInv'
<1>1. CASE OpFails
  <2>1. KeptTypes /\ stage = "send"
    BY DEF CaptureBackup, KeptTypes, SuiteInv, TypeOK, context, switch
  <2>2. QED
    BY <1>1, <2>1, OpFailsKeeps
<1>2. CASE ~OpFails
  BY <1>2, CaptureKeeps DEF CaptureBackup
<1>3. QED
  BY <1>1, <1>2

\* The loop goes on to the next mutation, or ends with the plan or a cancellation.
LEMMA NextMutationKeeps == ASSUME SuiteInv, NextMutation PROVE SuiteInv'
<1>1. /\ stage = "loop" /\ stage' = "connect"
      /\ UNCHANGED <<i, request, client, currentPassword, cancelled, underway, snapshots,
                     mutations, cleanup, password, config, lossy, unsure>>
  BY DEF NextMutation, Start, context, index, switch
<1>2. i \in 1..(Len(Plan) + 1) /\ ~failed /\ cleanup = "none" /\ task \in {"baseline", "snapshot"}
  BY <1>1 DEF SuiteInv, PlaceInv, ProgressInv
<1>3. CASE i > Len(Plan) \/ cancelled
  <2>1. task' = "final" /\ failed' = (failed \/ i <= Len(Plan))
    BY <1>3 DEF NextMutation, Start
  <2>2. TypeOK' /\ (snapshots \in Seq(Seq(Change)))'
    BY <1>1, <2>1 DEF SuiteInv, TypeOK, Stages, Tasks
  <2>3. ~failed' => i = Len(Plan) + 1
    <3>1. i <= Len(Plan) \/ i = Len(Plan) + 1
      BY <1>2, Contents
    <3>2. QED
      BY <2>1, <3>1, Zenon
  <2>4. ProgressInv'
    BY <1>1, <1>2, <2>1, <2>3 DEF SuiteInv, ProgressInv
  <2>5. PlaceInv' /\ ConfigInv' /\ EndInv' /\ SnapshotsFaithful'
    BY <1>1, <2>1 DEF SuiteInv, PlaceInv, ConfigInv, EndInv, SnapshotsFaithful, Mid
  <2>6. QED
    BY <2>2, <2>4, <2>5 DEF SuiteInv
<1>4. CASE ~(i > Len(Plan) \/ cancelled)
  <2>1. task' = "mutate" /\ failed' = failed
    BY <1>4 DEF NextMutation, Start
  <2>2. i \in 1..Len(Plan)
    BY <1>2, <1>4, Contents
  <2>3. TypeOK' /\ (snapshots \in Seq(Seq(Change)))'
    BY <1>1, <2>1 DEF SuiteInv, TypeOK, Stages, Tasks
  <2>4. PlaceInv' /\ EndInv' /\ SnapshotsFaithful'
    BY <1>1, <2>1, <2>2 DEF SuiteInv, PlaceInv, EndInv, SnapshotsFaithful, Mid
  <2>5. ConfigInv'
    BY <1>1, <1>2, <2>1 DEF SuiteInv, ConfigInv, Applied, Sent, Mid
  <2>6. ProgressInv'
    BY <1>1, <1>2, <2>1 DEF SuiteInv, ProgressInv
  <2>7. QED
    BY <2>3, <2>4, <2>5, <2>6 DEF SuiteInv
<1>5. QED
  BY <1>3, <1>4

\* A request of the mutation in progress, and the password it sets.
LEMMA RequestTyped ==
  ASSUME SuiteInv, Mid
  PROVE  /\ i \in 1..Len(Plan) /\ ~failed /\ request \in 1..(Len(Sets) + 1)
         /\ request <= Plan[i].last => request \in 1..Len(Sets) /\ request \in Change
         /\ Plan[i].kind \in {"change-password", "script"}
         /\ NextPassword(Plan[i]) \in Passwords
<1>1. i \in 1..Len(Plan) /\ ~failed /\ request \in Plan[i].first..(Plan[i].last + 1)
  BY DEF Mid, SuiteInv, PlaceInv, ProgressInv
<1>2. /\ Last(i - 1) \in Nat /\ Plan[i].first = Last(i - 1) + 1
      /\ Plan[i].last \in Last(i - 1)..Len(Sets) /\ Plan[i] \in MutationType
      /\ Plan[i].kind = "change-password" => Sets[Plan[i].first] \in Passwords
  BY <1>1, PlanTyped
<1>3. Plan[i].next \in Passwords \cup {None} /\ Plan[i].kind \in {"change-password", "script"}
  BY <1>2 DEF MutationType
<1>4. NextPassword(Plan[i]) \in Passwords
  BY <1>2, <1>3, ConstantsAssumption DEF NextPassword, SuiteInv, TypeOK
<1>5. request \in 1..(Len(Sets) + 1) /\ (request <= Plan[i].last => request \in 1..Len(Sets))
  BY <1>1, <1>2, Contents
<1>6. QED
  BY <1>1, <1>3, <1>4, <1>5, Contents DEF Change

\* What one request makes of the switch.
LEMMA PerformTyped ==
  ASSUME SuiteInv, Mid, request <= Plan[i].last, Perform(request)
  PROVE  password' \in Passwords /\ config' \in Seq(Change) /\ config' = Append(config, request)
<1>1. request \in 1..Len(Sets) /\ request \in Change
  BY RequestTyped
<1>2. Sets[request] \in Passwords \cup {None}
  BY <1>1, ConstantsAssumption
<1>3. password \in Passwords /\ config \in Seq(Change)
  BY DEF SuiteInv, TypeOK
<1>4. QED
  BY <1>1, <1>2, <1>3 DEF Perform

\* A request that returned nil was performed, or lossy is set.
LEMMA RequestDoneKeeps ==
  ASSUME SuiteInv, Mid, RequestDone(Plan[i]), UNCHANGED <<client, context>>
  PROVE  SuiteInv'
<1>1. /\ request <= Plan[i].last /\ request' = request + 1
      /\ UNCHANGED <<stage, task, i, failed, currentPassword, snapshots, mutations, cleanup,
                     client, cancelled, underway>>
  BY DEF RequestDone, index, context
<1>2. \/ Perform(request) /\ lossy' = lossy /\ unsure' = unsure
      \/ password' = password /\ config' = config /\ lossy' = TRUE /\ unsure' = unsure
  BY DEF RequestDone, Untouched
<1>3. i \in 1..Len(Plan) /\ request \in 1..Len(Sets)
  BY <1>1, RequestTyped
<1>4. password' \in Passwords /\ config' \in Seq(Change)
  BY <1>1, <1>2, PerformTyped DEF SuiteInv, TypeOK
<1>5. lossy' \in BOOLEAN /\ unsure' \in BOOLEAN /\ (lossy => lossy')
  <2>1. lossy \in BOOLEAN /\ unsure \in BOOLEAN
    BY DEF SuiteInv, TypeOK
  <2>2. QED
    BY <1>2, <2>1, Zenon
<1>6. TypeOK' /\ (snapshots \in Seq(Seq(Change)))'
  <2>1. request' \in 0..(Len(Sets) + 1)
    BY <1>1, <1>3, Contents
  <2>2. QED
    BY <1>1, <1>4, <1>5, <2>1 DEF SuiteInv, TypeOK
<1>7. PlaceInv'
  <2>1. Mid'
    BY <1>1 DEF Mid
  <2>2. request' \in Plan[i].first..(Plan[i].last + 1)
    <3>1. request \in Plan[i].first..(Plan[i].last + 1)
      BY DEF SuiteInv, PlaceInv
    <3>2. Plan[i].first \in Nat /\ Plan[i].last \in Nat
      BY <1>3, PlanTyped
    <3>3. QED
      BY <1>1, <3>1, <3>2
  <2>3. QED
    BY <1>1, <1>3, <2>1, <2>2 DEF Mid, PlaceInv
<1>8. ConfigInv'
  <2>1. Mid' /\ request' - 1 = request
    BY <1>1, <1>3 DEF Mid
  <2>2. ASSUME ~lossy' PROVE config' = Requests(request)
    <3>1. config' = Append(config, request) /\ ~lossy
      BY <1>1, <1>2, <1>5, <2>2, PerformTyped
    <3>2. config = Requests(request - 1)
      BY <3>1 DEF SuiteInv, ConfigInv, Sent, Mid
    <3>3. request - 1 \in Nat /\ request - 1 < Len(Sets) /\ (request - 1) + 1 = request
      BY <1>3, Contents
    <3>4. Append(Requests(request - 1), (request - 1) + 1) = Requests((request - 1) + 1)
      BY <3>3, Contents, RequestsGrow
    <3>5. QED
      BY <3>1, <3>2, <3>3, <3>4
  <2>3. QED
    BY <2>1, <2>2 DEF ConfigInv, Sent
<1>9. ProgressInv' /\ EndInv' /\ SnapshotsFaithful'
  BY <1>1, <1>5 DEF SuiteInv, ProgressInv, EndInv, SnapshotsFaithful, Mid
<1>10. QED
  BY <1>6, <1>7, <1>8, <1>9 DEF SuiteInv

\* Behind the last request the mutation is done.
LEMMA MutationDoneKeeps ==
  ASSUME SuiteInv, Mid, MutationDone(Plan[i]), UNCHANGED <<client, context>>
  PROVE  SuiteInv'
<1>1. /\ stage' = "settle" /\ currentPassword' = NextPassword(Plan[i])
      /\ request > Plan[i].last /\ request' = 0
      /\ UNCHANGED <<task, i, failed, snapshots, mutations, cleanup, client, cancelled,
                     underway, password, config, lossy, unsure>>
  BY DEF MutationDone, index, context, switch
<1>2. i \in 1..Len(Plan) /\ currentPassword' \in Passwords
  BY <1>1, RequestTyped
<1>3. TypeOK' /\ (snapshots \in Seq(Seq(Change)))'
  BY <1>1, <1>2, Contents DEF SuiteInv, TypeOK, Stages
<1>4. PlaceInv'
  BY <1>1, <1>2 DEF SuiteInv, PlaceInv, Mid
<1>5. request - 1 = Last(i)
  <2>1. request \in Plan[i].first..(Plan[i].last + 1)
    BY DEF SuiteInv, PlaceInv
  <2>2. Plan[i].first \in Nat /\ Plan[i].last \in Nat /\ Last(i) = Plan[i].last
    BY <1>2, PlanTyped
  <2>3. QED
    BY <1>1, <2>1, <2>2
<1>6. ConfigInv'
  BY <1>1, <1>5 DEF SuiteInv, ConfigInv, Applied, Sent, Mid
<1>7. ProgressInv' /\ EndInv' /\ SnapshotsFaithful'
  BY <1>1 DEF SuiteInv, ProgressInv, EndInv, SnapshotsFaithful, Mid
<1>8. QED
  BY <1>3, <1>4, <1>6, <1>7 DEF SuiteInv

LEMMA ApplyMutationKeeps == ASSUME SuiteInv, ApplyMutation PROVE SuiteInv'
<1>1. Mid /\ UNCHANGED <<client, context>>
  BY DEF ApplyMutation, Mid
<1>2. CASE RequestDone(Plan[i])
  BY <1>1, <1>2, RequestDoneKeeps
<1>3. CASE MutationDone(Plan[i])
  BY <1>1, <1>3, MutationDoneKeeps
<1>4. CASE MutationFails(Plan[i])
  <2>1. /\ OpFails /\ UNCHANGED currentPassword
        /\ \/ /\ request <= Plan[i].last /\ Perform(request)
              /\ unsure' = TRUE /\ lossy' = lossy
           \/ UNCHANGED <<password, config, lossy, unsure>>
    BY <1>4 DEF MutationFails, switch
  <2>2. password' \in Passwords /\ config' \in Seq(Change)
    BY <1>1, <2>1, PerformTyped DEF SuiteInv, TypeOK
  <2>3. lossy' = lossy
    BY <2>1
  <2>4. unsure' \in BOOLEAN
    <3>1. unsure \in BOOLEAN
      BY DEF SuiteInv, TypeOK
    <3>2. QED
      BY <2>1, <3>1, Zenon
  <2>5. KeptTypes
    BY <1>1, <2>1, <2>2, <2>3, <2>4 DEF KeptTypes, SuiteInv, TypeOK, context
  <2>6. QED
    BY <1>1, <2>1, <2>5, OpFailsKeeps DEF Mid
<1>5. QED
  BY <1>2, <1>3, <1>4 DEF ApplyMutation

LEMMA SettleKeeps == ASSUME SuiteInv, Settle PROVE SuiteInv'
<1>1. /\ stage = "settle" /\ task = "mutate" /\ i \in 1..Len(Plan)
      /\ UNCHANGED <<client, currentPassword, cancelled, underway, password, config, lossy,
                     unsure>>
  BY DEF Settle, context, switch, SuiteInv, PlaceInv
<1>2. CASE OpFails
  <2>1. KeptTypes
    BY <1>1 DEF KeptTypes, SuiteInv, TypeOK
  <2>2. QED
    BY <1>1, <1>2, <2>1, OpFailsKeeps
<1>3. CASE ~OpFails
  <2>1. /\ stage' = "connect" /\ task' = "snapshot"
        /\ UNCHANGED <<i, request, failed, snapshots, mutations, cleanup>>
    BY <1>3 DEF Settle, Start, index
  <2>2. TypeOK' /\ (snapshots \in Seq(Seq(Change)))'
    BY <1>1, <2>1 DEF SuiteInv, TypeOK, Stages, Tasks
  <2>3. PlaceInv' /\ ConfigInv'
    BY <1>1, <2>1 DEF SuiteInv, PlaceInv, ConfigInv, Applied, Sent, Mid
  <2>4. ProgressInv' /\ SnapshotsFaithful' /\ EndInv'
    BY <1>1, <2>1 DEF SuiteInv, ProgressInv, SnapshotsFaithful, EndInv
  <2>5. QED
    BY <2>2, <2>3, <2>4 DEF SuiteInv
<1>4. QED
  BY <1>2, <1>3

\* The final reset ends the run: the cleanup succeeded if the switch said so.
LEMMA FinalResetKeeps == ASSUME SuiteInv, FinalReset PROVE SuiteInv'
<1>1. stage = "send" /\ task = "final" /\ UNCHANGED <<currentPassword, cancelled, underway>>
  BY DEF FinalReset, context
<1>2. CASE OpFails
  <2>1. client' \in Passwords \cup {None} /\ currentPassword' \in Passwords
    BY <1>1 DEF FinalReset, SuiteInv, TypeOK
  <2>2. FactoryResetDone \/ FactoryResetFails \/ UNCHANGED <<password, config, lossy, unsure>>
    BY DEF FinalReset, switch
  <2>3. KeptTypes
    BY <1>1, <2>1, <2>2, ResetRequest DEF KeptTypes, SuiteInv, TypeOK
  <2>4. QED
    BY <1>1, <1>2, <2>3, OpFailsKeeps
<1>3. CASE ~OpFails
  <2>1. /\ FactoryResetDone /\ client' = None /\ stage' = "done" /\ cleanup' = "succeeded"
        /\ UNCHANGED <<task, i, request, failed, snapshots, mutations>>
    BY <1>3 DEF FinalReset
  <2>2. /\ password' \in Passwords /\ config' \in Seq(Change)
        /\ lossy' \in BOOLEAN /\ unsure' \in BOOLEAN /\ (lossy => lossy')
        /\ ~lossy' => config' = <<>> /\ password' = PostReset
    BY <2>1, ResetRequest
  <2>3. TypeOK' /\ (snapshots \in Seq(Seq(Change)))'
    BY <1>1, <2>1, <2>2 DEF SuiteInv, TypeOK, Stages
  <2>4. PlaceInv' /\ ConfigInv'
    BY <1>1, <2>1 DEF SuiteInv, PlaceInv, ConfigInv, Mid
  <2>5. EndInv'
    BY <2>1, <2>2 DEF EndInv
  <2>6. ProgressInv' /\ SnapshotsFaithful'
    BY <1>1, <2>1, <2>2 DEF SuiteInv, ProgressInv, SnapshotsFaithful
  <2>7. QED
    BY <2>3, <2>4, <2>5, <2>6 DEF SuiteInv
<1>4. QED
  BY <1>2, <1>3

LEMMA SuiteInvStep == SuiteInv /\ [Next]_vars => SuiteInv'
<1> SUFFICES ASSUME SuiteInv, [Next]_vars PROVE SuiteInv'
  OBVIOUS
<1>1. CASE Suite
  BY <1>1, ConnectKeeps, CheckContextKeeps, InitialResetKeeps, WaitingKeeps, CaptureBackupKeeps,
     NextMutationKeeps, ApplyMutationKeeps, SettleKeeps, FinalResetKeeps DEF Suite
<1>2. CASE Cancel
  <2>1. /\ cancelled' = TRUE /\ underway' \in {<<>>, <<task, i>>}
        /\ UNCHANGED <<run, index, switch>>
    BY <1>2 DEF Cancel
  <2>2. TypeOK' /\ (snapshots \in Seq(Seq(Change)))'
    BY <2>1 DEF run, index, switch, SuiteInv, TypeOK
  <2>3. PlaceInv' /\ ConfigInv' /\ ProgressInv'
    BY <2>1
    DEF run, index, switch, SuiteInv, PlaceInv, ConfigInv, Applied, Sent, Mid, ProgressInv
  <2>4. SnapshotsFaithful' /\ EndInv'
    BY <2>1 DEF run, index, switch, SuiteInv, SnapshotsFaithful, EndInv
  <2>5. QED
    BY <2>2, <2>3, <2>4 DEF SuiteInv
<1>3. CASE UNCHANGED vars
  <2>1. TypeOK' /\ (snapshots \in Seq(Seq(Change)))'
    BY <1>3 DEF vars, run, context, index, switch, SuiteInv, TypeOK
  <2>2. PlaceInv' /\ ConfigInv' /\ ProgressInv'
    BY <1>3
    DEF vars, run, index, switch, SuiteInv, PlaceInv, ConfigInv, Applied, Sent, Mid, ProgressInv
  <2>3. SnapshotsFaithful' /\ EndInv'
    BY <1>3 DEF vars, run, index, switch, SuiteInv, SnapshotsFaithful, EndInv
  <2>4. QED
    BY <2>1, <2>2, <2>3 DEF SuiteInv
<1>4. QED
  BY <1>1, <1>2, <1>3 DEF Next

LEMMA SuiteInvHolds == Spec => []SuiteInv
<1>1. SuiteInv /\ [Next]_vars => SuiteInv'
  BY SuiteInvStep
<1>2. QED
  BY <1>1, SuiteInvInit, PTL DEF Spec

\* The type invariant of the suite: the index never outgrows the plan, and requests are
\* sent with a Client (suite.go).
THEOREM SuiteTyped == Spec => []TypeOK
<1>1. SuiteInv => TypeOK
  BY DEF SuiteInv
<1>2. QED
  BY <1>1, SuiteInvHolds, PTL

\* For any plan, snapshot k is the factory configuration with the first k mutations, or
\* the login page, as long as no write was lost unnoticed (CaptureBackup and the loop of
\* runHardwareSuiteWithOps).
THEOREM LibraryFaithful == Spec => []SnapshotsFaithful
<1>1. SuiteInv => SnapshotsFaithful
  BY DEF SuiteInv
<1>2. QED
  BY <1>1, SuiteInvHolds, PTL

\* For any plan, a run reported as a success has applied and recorded all of it, and a
\* cleanup reported as a success has left a new switch (runHardwareSuiteWithOps).
THEOREM StatusTrue == Spec => []StatusHonest
<1>1. SuiteInv => StatusHonest
  <2> SUFFICES ASSUME SuiteInv, stage = "done"
               PROVE  /\ ~failed => /\ Len(snapshots) = Len(Plan) + 1 /\ cleanup = "succeeded"
                                    /\ mutations = [k \in DOMAIN Plan |-> "ok"]
                      /\ cleanup = "succeeded" /\ ~lossy => config = <<>> /\ password = PostReset
                      /\ cleanup # "none"
    BY DEF StatusHonest
  <2>1. ASSUME ~failed
        PROVE  Len(snapshots) = Len(Plan) + 1 /\ mutations = [k \in DOMAIN Plan |-> "ok"]
    <3>1. i = Len(Plan) + 1 /\ Len(snapshots) = i /\ mutations = AllOk(Before(i))
      BY <2>1 DEF SuiteInv, PlaceInv, ProgressInv
    <3>2. Before(i) = Len(Plan)
      BY <3>1, Contents DEF Before
    <3>3. DOMAIN Plan = 1..Len(Plan)
      BY ConstantsAssumption
    <3>4. QED
      BY <3>1, <3>2, <3>3 DEF AllOk
  <2>2. QED
    BY <2>1 DEF SuiteInv, EndInv
<1>2. QED
  BY <1>1, SuiteInvHolds, PTL

\* What is sending when the context is cancelled is remembered, and after that nothing
\* begins to send.
LEMMA UnderwayKept ==
  ASSUME cancelled /\ stage = "send" => underway = <<task, i>>, [Next]_vars
  PROVE  (cancelled /\ stage = "send" => underway = <<task, i>>)'
<1>1. CASE Cancel
  BY <1>1 DEF Cancel, run
<1>2. CASE Connect \/ CheckContext
  BY <1>2 DEF Connect, CheckContext, Proceed, OpFails, Start, context
<1>3. CASE InitialReset \/ Grace \/ Reconnect \/ CaptureBackup \/ NextMutation \/ Settle \/ FinalReset
  BY <1>3 DEF InitialReset, Grace, Reconnect, CaptureBackup, Capture, NextMutation, Settle,
              FinalReset, OpFails, Start
<1>4. CASE ApplyMutation
  BY <1>4 DEF ApplyMutation, RequestDone, MutationDone, MutationFails, OpFails, Start, context
<1>5. CASE UNCHANGED vars
  BY <1>5 DEF vars, run, context
<1>6. QED
  BY <1>1, <1>2, <1>3, <1>4, <1>5 DEF Next, Suite

\* For any plan, after a cancellation the switch is only reached by what was sending its
\* requests at that moment (the looks at ctx in the operations, of which a script takes
\* none between its lines).
THEOREM CancelStops == Spec => CancelStopsWrites
<1> DEFINE Remembered == cancelled /\ stage = "send" => underway = <<task, i>>
<1>1. Init => Remembered
  BY DEF Init
<1>2. Remembered /\ [Next]_vars => Remembered'
  BY UnderwayKept
<1>3. Remembered /\ [Next]_vars =>
        [cancelled /\ <<password, config>>' # <<password, config>> => underway = <<task, i>>]_vars
  <2> SUFFICES ASSUME Remembered, Next, cancelled, <<password, config>>' # <<password, config>>
               PROVE  underway = <<task, i>>
    OBVIOUS
  <2>1. /\ ~Connect /\ ~CheckContext /\ ~Grace /\ ~Reconnect /\ ~CaptureBackup
        /\ ~NextMutation /\ ~Settle /\ ~Cancel
    BY DEF Connect, CheckContext, Grace, Reconnect, CaptureBackup, NextMutation, Settle, Cancel,
           switch
  <2>2. stage = "send"
    BY <2>1 DEF Next, Suite, InitialReset, ApplyMutation, FinalReset
  <2>3. QED
    BY <2>2
<1> HIDE DEF Remembered
<1>4. QED
  BY <1>1, <1>2, <1>3, PTL DEF Spec, CancelStopsWrites
-----------------------------------------------------------------------------
\* The requests of the mutation in progress that set a password and have been sent.
SetBefore == {r \in Plan[i].first..(request - 1) : Sets[r] # None}

\* A password the suite would try, as it would try it.
Tried ==
  /\ password \in {InitialPassword, PostReset, currentPassword}
  /\ Trimmed[password] = password

\* While every write came to what was reported, the switch has a password the suite
\* knows, or one a script has set on its way.
KnownPassword ==
  \/ lossy \/ unsure \/ Stranded
  \/ Tried /\ (Mid => SetBefore = {})
  \/ Mid /\ \E r \in SetBefore : (\A q \in SetBefore : q <= r) /\ password = Sets[r]

\* Where nothing reaches the switch and no mutation is being applied.
LEMMA KnownPasswordKept ==
  ASSUME KnownPassword, ~Mid, ~Mid', UNCHANGED <<password, currentPassword, lossy, unsure>>,
         task = "final" => task' = "final" /\ UNCHANGED <<i, request>>
  PROVE  KnownPassword'
<1>1. CASE lossy \/ unsure
  BY <1>1, Zenon DEF KnownPassword
<1>2. CASE Stranded
  BY <1>2 DEF KnownPassword, Stranded
<1>3. CASE Tried
  <2>1. Tried'
    BY <1>3 DEF Tried
  <2>2. QED
    BY <2>1 DEF KnownPassword
<1>4. QED
  BY <1>1, <1>2, <1>3 DEF KnownPassword

\* A request sets the password it names, and otherwise leaves the latest one set.
LEMMA RequestKnown ==
  ASSUME SuiteInv, Mid, KnownPassword, RequestDone(Plan[i])
  PROVE  KnownPassword'
<1>1. /\ request <= Plan[i].last /\ request' = request + 1
      /\ UNCHANGED <<stage, task, i, currentPassword>>
  BY DEF RequestDone
<1>2. Mid' /\ ~Stranded /\ request \in 1..Len(Sets)
  BY <1>1, RequestTyped DEF Mid, Stranded
<1>3. request \in Plan[i].first..Plan[i].last /\ Plan[i].first \in Nat /\ Plan[i].last \in Nat
      /\ i \in 1..Len(Plan)
  <2>1. i \in 1..Len(Plan)
    BY RequestTyped
  <2>2. request \in Plan[i].first..(Plan[i].last + 1)
    BY DEF SuiteInv, PlaceInv
  <2>3. Plan[i].first \in Nat /\ Plan[i].last \in Nat
    BY <2>1, PlanTyped
  <2>4. QED
    BY <1>1, <2>1, <2>2, <2>3
<1>4. CASE lossy \/ unsure \/ lossy'
  <2>1. (lossy' = lossy /\ unsure' = unsure) \/ (lossy' = TRUE /\ unsure' = unsure)
    BY DEF RequestDone
  <2>2. lossy' \/ unsure'
    BY <1>4, <2>1, Zenon
  <2>3. QED
    BY <2>2, Zenon DEF KnownPassword
<1>5. CASE ~lossy /\ ~unsure /\ ~lossy'
  <2>1. Perform(request)
    BY <1>5, Zenon DEF RequestDone
  <2>2. CASE Sets[request] = None
    <3>1. SetBefore' = SetBefore
      BY <1>1, <1>3, <2>2 DEF SetBefore
    <3>2. password' = password
      BY <2>1, <2>2 DEF Perform
    <3>3. Tried => Tried'
      BY <1>1, <3>2 DEF Tried
    <3>4. CASE Tried /\ SetBefore = {}
      BY <3>1, <3>3, <3>4 DEF KnownPassword
    <3>5. ASSUME NEW r \in SetBefore, \A q \in SetBefore : q <= r, password = Sets[r]
          PROVE  KnownPassword'
      <4>1. r \in SetBefore' /\ (\A q \in SetBefore' : q <= r) /\ password' = Sets[r]
        BY <3>1, <3>2, <3>5
      <4>2. QED
        BY <1>2, <4>1 DEF KnownPassword
    <3>6. QED
      BY <1>2, <1>5, <3>4, <3>5 DEF KnownPassword
  <2>3. CASE Sets[request] # None
    <3>1. password' = Sets[request]
      BY <2>1, <2>3 DEF Perform
    <3>2. request \in SetBefore' /\ \A q \in SetBefore' : q <= request
      BY <1>1, <1>3, <2>3 DEF SetBefore
    <3>3. QED
      BY <1>2, <3>1, <3>2 DEF KnownPassword
  <2>4. QED
    BY <2>2, <2>3
<1>6. QED
  BY <1>4, <1>5, Zenon

\* What a truthful plan says of the password a mutation leaves behind.
LEMMA DoneKnown ==
  ASSUME PlanTruthful, SuiteInv, Mid, KnownPassword, MutationDone(Plan[i])
  PROVE  KnownPassword'
<1> DEFINE setting == {r \in Plan[i].first..Plan[i].last : Sets[r] # None}
<1>1. /\ stage' = "settle" /\ request > Plan[i].last /\ request' = 0
      /\ currentPassword' = NextPassword(Plan[i])
      /\ UNCHANGED <<task, i, password, lossy, unsure>>
  BY DEF MutationDone, switch
<1>2. ~Mid' /\ ~Stranded /\ i \in 1..Len(Plan) /\ Plan[i].kind \in {"change-password", "script"}
  BY <1>1, RequestTyped DEF Mid, Stranded
<1>3. /\ i \in DOMAIN Plan /\ Plan[i] \in MutationType
      /\ Plan[i].first \in Nat /\ Plan[i].last \in Nat
      /\ Plan[i].kind = "change-password" =>
           Plan[i].last = Plan[i].first /\ Sets[Plan[i].first] # None
  BY <1>2, PlanTyped, ConstantsAssumption
<1>4. request = Plan[i].last + 1
  <2>1. request \in Plan[i].first..(Plan[i].last + 1)
    BY DEF SuiteInv, PlaceInv
  <2>2. QED
    BY <1>1, <1>3, <2>1
<1>5. SetBefore = setting
  <2>1. request - 1 = Plan[i].last
    BY <1>3, <1>4
  <2>2. QED
    BY <2>1 DEF SetBefore
<1>6. CASE lossy \/ unsure
  BY <1>1, <1>6, Zenon DEF KnownPassword
<1>7. CASE Tried /\ setting = {}
  <2>1. Plan[i].kind # "change-password"
    <3>1. Plan[i].kind = "change-password" => Plan[i].first \in setting
      BY <1>3
    <3>2. QED
      BY <1>7, <3>1
  <2>2. Plan[i].next = None
    BY <1>3, <1>7 DEF PlanTruthful
  <2>3. currentPassword' = currentPassword
    BY <1>1, <2>1, <2>2 DEF NextPassword
  <2>4. Tried'
    BY <1>1, <1>7, <2>3 DEF Tried
  <2>5. QED
    BY <1>2, <2>4 DEF KnownPassword
<1>8. ASSUME NEW r \in setting, \A q \in setting : q <= r, password = Sets[r]
      PROVE  KnownPassword'
  <2>1. IF Plan[i].kind = "change-password" THEN Trimmed[Sets[r]] = Sets[r]
        ELSE Plan[i].next # None /\ Trimmed[Plan[i].next] = Sets[r]
    BY <1>3, <1>8 DEF PlanTruthful
  <2>2. CASE Plan[i].kind = "change-password"
    <3>1. r = Plan[i].first
      BY <1>3, <2>2
    <3>2. currentPassword' = Sets[r]
      BY <1>1, <2>2, <3>1 DEF NextPassword
    <3>3. Tried'
      BY <1>1, <1>8, <2>1, <2>2, <3>2 DEF Tried
    <3>4. QED
      BY <1>2, <3>3 DEF KnownPassword
  <2>3. CASE Plan[i].kind = "script"
    <3>1. Plan[i].next # None /\ Trimmed[Plan[i].next] = Sets[r]
      BY <2>1, <2>3
    <3>2. Plan[i].next \in Passwords
      BY <1>3, <3>1 DEF MutationType
    <3>3. Trimmed[Sets[r]] = Sets[r]
      BY <3>1, <3>2, ConstantsAssumption
    <3>4. currentPassword' = Sets[r]
      BY <1>1, <2>3, <3>1 DEF NextPassword
    <3>5. Tried'
      BY <1>1, <1>8, <3>3, <3>4 DEF Tried
    <3>6. QED
      BY <1>2, <3>5 DEF KnownPassword
  <2>4. QED
    BY <1>2, <2>2, <2>3
<1> HIDE DEF setting
<1>9. QED
  BY <1>2, <1>5, <1>6, <1>7, <1>8 DEF KnownPassword

\* A mutation that fails behind a password it has set strands the suite.
LEMMA FailsKnown ==
  ASSUME SuiteInv, Mid, KnownPassword, MutationFails(Plan[i])
  PROVE  KnownPassword'
<1>1. task' = "final" /\ stage' = "connect" /\ UNCHANGED <<i, request, currentPassword>>
  BY DEF MutationFails, OpFails, AfterFailure, Start, Mid
<1>2. i \in 1..Len(Plan) /\ request \in 1..(Len(Sets) + 1) /\ ~Mid' /\ ~Stranded
  BY <1>1, RequestTyped DEF Mid, Stranded
<1>3. CASE unsure' = TRUE
  BY <1>3, Zenon DEF KnownPassword
<1>4. CASE UNCHANGED switch
  <2>1. UNCHANGED <<password, lossy, unsure>>
    BY <1>4 DEF switch
  <2>2. CASE lossy \/ unsure
    BY <2>1, <2>2, Zenon DEF KnownPassword
  <2>3. CASE Tried
    <3>1. Tried'
      BY <1>1, <2>1, <2>3 DEF Tried
    <3>2. QED
      BY <1>2, <3>1 DEF KnownPassword
  <2>4. CASE \E r \in SetBefore : password = Sets[r]
    <3>1. Stranded'
      BY <1>1, <1>2, <2>1, <2>4 DEF Stranded, SetBefore
    <3>2. QED
      BY <3>1 DEF KnownPassword
  <2>5. QED
    BY <1>2, <2>2, <2>3, <2>4 DEF KnownPassword
<1>5. QED
  BY <1>3, <1>4 DEF MutationFails

\* A reset that reports what it came to leaves the factory password or the old one.
LEMMA ResetKnown ==
  ASSUME SuiteInv, KnownPassword, InitialReset \/ FinalReset
  PROVE  KnownPassword'
<1>1. ~Mid /\ ~Mid' /\ UNCHANGED <<i, request, currentPassword>> /\ (task = "final" => task' = "final")
  BY DEF InitialReset, FinalReset, OpFails, AfterFailure, Start, Mid
<1>2. \/ password' = PostReset
      \/ UNCHANGED <<password, lossy, unsure>>
      \/ lossy' = TRUE
  BY Zenon
  DEF InitialReset, FinalReset, FactoryResetDone, FactoryResetFails, Reset, Untouched, switch
<1>3. CASE password' = PostReset
  <2>1. Trimmed[PostReset] = PostReset
    BY ConstantsAssumption
  <2>2. Tried'
    BY <1>3, <2>1 DEF Tried
  <2>3. QED
    BY <1>1, <2>2 DEF KnownPassword
<1>4. CASE UNCHANGED <<password, lossy, unsure>>
  BY <1>1, <1>4, KnownPasswordKept
<1>5. CASE lossy' = TRUE
  BY <1>5, Zenon DEF KnownPassword
<1>6. QED
  BY <1>2, <1>3, <1>4, <1>5

\* A login tells the suite the switch's password; polling, the factory's.
LEMMA LoginKnown ==
  ASSUME SuiteInv, KnownPassword, Connect \/ Reconnect
  PROVE  KnownPassword'
<1>1. /\ ~Mid /\ ~Mid' /\ UNCHANGED <<i, request, password, lossy, unsure>>
      /\ task = "final" => task' = "final"
  BY DEF Connect, LoggedIn, Reconnect, OpFails, AfterFailure, Start, Mid, switch,
         SuiteInv, PlaceInv
<1>2. CASE UNCHANGED currentPassword
  BY <1>1, <1>2, KnownPasswordKept
<1>3. CASE currentPassword' = password
  <2>1. CASE lossy \/ unsure
    BY <1>1, <2>1, Zenon DEF KnownPassword
  <2>2. CASE Stranded
    BY <1>1, <2>2 DEF KnownPassword, Stranded
  <2>3. CASE Tried
    <3>1. Tried'
      BY <1>1, <1>3, <2>3 DEF Tried
    <3>2. QED
      BY <1>1, <3>1 DEF KnownPassword
  <2>4. QED
    BY <1>1, <2>1, <2>2, <2>3 DEF KnownPassword
<1>4. QED
  BY <1>2, <1>3 DEF Connect, Reconnect

LEMMA KnownPasswordStep ==
  ASSUME PlanTruthful, SuiteInv, KnownPassword, [Next]_vars
  PROVE  KnownPassword'
<1>1. CASE ApplyMutation
  BY <1>1, RequestKnown, DoneKnown, FailsKnown DEF ApplyMutation, Mid
<1>2. CASE InitialReset \/ FinalReset
  BY <1>2, ResetKnown
<1>3. CASE Connect \/ Reconnect
  BY <1>3, LoginKnown
<1>4. CASE CheckContext
  <2>1. /\ ~Mid /\ UNCHANGED <<password, currentPassword, lossy, unsure, i>>
        /\ task = "final" => task' = "final"
    BY <1>4 DEF CheckContext, Mid, OpFails, AfterFailure, Start, switch
  <2>2. CASE ~Mid'
    <3>1. UNCHANGED request
      BY <1>4, <2>2 DEF CheckContext, Mid, OpFails
    <3>2. QED
      BY <2>1, <2>2, <3>1, KnownPasswordKept
  <2>3. CASE Mid'
    <3>1. request' = Plan[i].first /\ task = "mutate"
      BY <1>4, <2>3 DEF CheckContext, Mid, OpFails, AfterFailure, Start
    <3>2. i \in 1..Len(Plan)
      BY <1>4, <3>1 DEF CheckContext, SuiteInv, PlaceInv
    <3>3. Plan[i].first \in Nat
      BY <3>2, PlanTyped
    <3>4. SetBefore' = {}
      BY <2>1, <3>1, <3>3 DEF SetBefore
    <3>5. CASE lossy \/ unsure
      BY <2>1, <3>5, Zenon DEF KnownPassword
    <3>6. CASE Tried
      <4>1. Tried'
        BY <2>1, <3>6 DEF Tried
      <4>2. QED
        BY <3>4, <4>1 DEF KnownPassword
    <3>7. QED
      BY <2>1, <3>1, <3>5, <3>6 DEF KnownPassword, Stranded
  <2>4. QED
    BY <2>2, <2>3
<1>5. CASE Grace \/ CaptureBackup \/ NextMutation \/ Settle
  <2>1. task # "final"
    BY <1>5 DEF Grace, CaptureBackup, NextMutation, Settle, SuiteInv, PlaceInv
  <2>2. ~Mid /\ ~Mid' /\ UNCHANGED <<password, currentPassword, lossy, unsure>>
    BY <1>5 DEF Grace, CaptureBackup, Capture, NextMutation, Settle, Mid, OpFails, Start, switch
  <2>3. QED
    BY <2>1, <2>2, KnownPasswordKept
<1>6. CASE Cancel \/ UNCHANGED vars
  BY <1>6 DEF Cancel, vars, run, switch, KnownPassword, Tried, Stranded, Mid, SetBefore
<1>7. QED
  BY <1>1, <1>2, <1>3, <1>4, <1>5, <1>6 DEF Next, Suite

\* If the plan says truly which password each script leaves behind, and sets none with
\* space around it, the suite can log in whenever it tries to, unless a write was
\* misreported or a script stopped behind its password line
\* (ensureConnectedWithCandidates, ApplyMutation).
THEOREM NeverLockedOut == ASSUME PlanTruthful PROVE Spec => []NotLockedOut
<1>1. Init => KnownPassword
  BY ConstantsAssumption DEF Init, KnownPassword, Tried, Mid
<1>2. SuiteInv /\ KnownPassword /\ [Next]_vars => KnownPassword'
  BY KnownPasswordStep
<1>3. KnownPassword => NotLockedOut
  <2> SUFFICES ASSUME KnownPassword, stage = "connect", ~lossy, ~unsure, ~Stranded
               PROVE  password \in Candidates
    BY Zenon DEF NotLockedOut
  <2>1. Tried
    BY DEF KnownPassword, Mid
  <2>2. QED
    BY <2>1 DEF Tried, Candidates
<1>4. QED
  BY <1>1, <1>2, <1>3, SuiteInvHolds, PTL DEF Spec
=============================================================================
