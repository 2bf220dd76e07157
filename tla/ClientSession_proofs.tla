------------------------ MODULE ClientSession_proofs ------------------------
(***************************************************************************)
(* Machine-checked proofs about ClientSession: type correctness, the       *)
(* inductive invariant CallInv and the safety properties it implies, and   *)
(* the refinement of WriteCall.                                            *)
(***************************************************************************)
EXTENDS ClientSession, TLAPS

\* Every state is well typed: in particular the per-call ledgers stay functions
\* on Calls and the port count is the default or the one read from the switch.
THEOREM TypeCorrect == Spec => []TypeOK
<1>1. Init => TypeOK
  <2> SUFFICES ASSUME Init PROVE TypeOK
    OBVIOUS
  <2>1. n \in 0..MaxCalls /\ (pc # "idle" => n >= 1)
    BY ConstantsAssumption DEF Init
  <2>2. loggedIn \in BOOLEAN /\ expired \in BOOLEAN /\ cookie \in BOOLEAN
        /\ reused \in BOOLEAN /\ live \in BOOLEAN
    BY DEF Init
  <2>3. QED
    BY <2>1, <2>2 DEF Init, TypeOK, Passwords
<1>2. TypeOK /\ [Next]_vars => TypeOK'
  <2> SUFFICES ASSUME TypeOK, [Next]_vars PROVE TypeOK'
    OBVIOUS
  <2> USE ConstantsAssumption DEF TypeOK, Calls, client, ledger, switch, Return,
        Outcomes, Errors, Passwords
  <2>1. CASE \E o \in Ops : Begin(o)
    <3> PICK o \in Ops : Begin(o)
      BY <2>1
    <3>1. n + 1 \in Calls /\ n' \in 0..MaxCalls /\ n' >= 1
      BY DEF Begin
    <3>2. op' \in [Calls -> Ops \cup {"none"}]
      BY <3>1 DEF Begin
    <3>3. QED
      BY <3>1, <3>2, ZenonT(60) DEF Begin
  <2>2. CASE LoginAccepted
    BY <2>2 DEF LoginAccepted
  <2>3. CASE LoginRejected
    BY <2>3 DEF LoginRejected
  <2>4. CASE LoginUnrecognised
    BY <2>4 DEF LoginUnrecognised
  <2>5. CASE LoginFails
    BY <2>5 DEF LoginFails
  <2>6. CASE ReadPortCount
    <3>1. portCount' \in {DefaultPorts, SwitchPorts}
      BY <2>6 DEF ReadPortCount, PortsRead
    <3>2. CASE op[n] = "login"
      BY <2>6, <3>1, <3>2 DEF ReadPortCount
    <3>3. CASE op[n] # "login"
      BY <2>6, <3>1, <3>3 DEF ReadPortCount
    <3>4. QED
      BY <3>2, <3>3
  <2>7. CASE ReceiveBody
    BY <2>7 DEF ReceiveBody
  <2>8. CASE ReceiveError
    BY <2>8 DEF ReceiveError
  <2>9. CASE RetryAfterLogin
    BY <2>9 DEF RetryAfterLogin
  <2>10. CASE ReceiveLoginPage
    BY <2>10 DEF ReceiveLoginPage
  <2>11. CASE Logout
    BY <2>11 DEF Logout
  <2>12. CASE SwitchAnswers
    <3>1. n \in Calls
      BY <2>12 DEF SwitchAnswers
    <3>2. executed' \in [Calls -> Nat]
      <4>1. CASE op[n] \in Writes
        BY <2>12, <3>1, <4>1 DEF SwitchAnswers
      <4>2. CASE op[n] \notin Writes
        BY <2>12, <4>2 DEF SwitchAnswers
      <4>3. QED
        BY <4>1, <4>2
    <3>3. live' \in BOOLEAN /\ password' \in Passwords
      BY <2>12 DEF SwitchAnswers, Effect
    <3>4. QED
      BY <2>12, <3>2, <3>3 DEF SwitchAnswers
  <2>13. CASE SwitchDemandsLogin
    BY <2>13 DEF SwitchDemandsLogin
  <2>14. CASE SwitchFails
    BY <2>14 DEF SwitchFails
  <2>15. CASE ConnectionDrops
    BY <2>15 DEF ConnectionDrops
  <2>16. CASE TimesOut
    BY <2>16 DEF TimesOut
  <2>17. CASE TransportRepeats
    <3>1. n \in Calls
      BY <2>17 DEF TransportRepeats
    <3>2. dup' \in [Calls -> Nat]
      BY <2>17, <3>1 DEF TransportRepeats
    <3>3. QED
      BY <2>17, <3>2 DEF TransportRepeats
  <2>18. CASE \E c \in Calls : LateExecution(c)
    <3> PICK c \in Calls : LateExecution(c)
      BY <2>18
    <3>1. executed' \in [Calls -> Nat]
      BY DEF LateExecution
    <3>2. live' \in BOOLEAN /\ password' \in Passwords
      BY DEF LateExecution, Effect
    <3>3. QED
      BY <3>1, <3>2 DEF LateExecution
  <2>19. CASE \E c \in Calls : LateDiscarded(c)
    BY <2>19 DEF LateDiscarded
  <2>20. CASE SessionLost
    <3>1. live' \in BOOLEAN
      BY <2>20 DEF SessionLost
    <3>2. UNCHANGED <<client, pc, n, ledger, attempt, wire, reused, password, late>>
      BY <2>20 DEF SessionLost
    <3>3. QED
      BY <3>1, <3>2
  <2>21. CASE SessionAges
    BY <2>21 DEF SessionAges
  <2>22. CASE UNCHANGED vars
    BY <2>22 DEF vars
  <2>23. QED
    BY <2>1, <2>2, <2>3, <2>4, <2>5, <2>6, <2>7, <2>8, <2>9, <2>10, <2>11, <2>12,
       <2>13, <2>14, <2>15, <2>16, <2>17, <2>18, <2>19, <2>20, <2>21, <2>22
       DEF Next, LoginStep, Receive, ExchangeEnds
<1>3. QED
  BY <1>1, <1>2, PTL DEF Spec

\* The invariant is inductive: each action keeps the books of the calls.
LEMMA CallInvInductive ==
  ASSUME TypeOK, TypeOK', CallInv, [Next]_vars
  PROVE  CallInv'
<1> USE ConstantsAssumption DEF TypeOK, CallInv, SessionBacked, AtMostOnce,
      OutcomeHonest, CallsInOrder, CallOpen, ExchangeOwned, SendsAreSafe,
      LateIsUnanswered, client, ledger, switch, Return, Outcomes, Errors
<1>1. CASE \E o \in Ops : Begin(o)
  <2> PICK o \in Ops : Begin(o)
    BY <1>1
  <2>1. /\ n + 1 \in Calls /\ n' = n + 1 /\ pc = "idle" /\ wire = "none"
        /\ op' = [op EXCEPT ![n + 1] = o]
        /\ UNCHANGED <<loggedIn, cookie, live, dup, executed, result, late>>
    BY DEF Begin, Calls
  <2>2. \/ pc' = "login" /\ wire' = "none"
        \/ pc' = "waiting" /\ wire' = "request" /\ o # "login" /\ loggedIn
    BY <2>1 DEF Begin, NoSession
  <2>3. /\ op[n + 1] = "none" /\ result[n + 1] = "none" /\ n + 1 \notin late
        /\ dup[n + 1] = 0 /\ executed[n + 1] = 0
    BY <2>1
  <2>4. SessionBacked' /\ ExchangeOwned'
    BY <2>1, <2>2
  <2>5. AtMostOnce' /\ OutcomeHonest' /\ (\A c \in Calls : op[c] \in Posts => dup[c] = 0)'
    BY <2>1, <2>3
  <2>6. CallsInOrder'
    BY <2>1, <2>2, <2>3 DEF Calls
  <2>7. SendsAreSafe'
    BY <2>1, <2>2, <2>3
  <2>8. LateIsUnanswered'
    BY <2>1, <2>2, <2>3
  <2>9. QED
    BY <2>4, <2>5, <2>6, <2>7, <2>8
<1>2. CASE LoginAccepted
  BY <1>2, SMTT(20) DEF LoginAccepted
<1>3. CASE LoginRejected
  BY <1>3, SMTT(20) DEF LoginRejected
<1>4. CASE LoginUnrecognised
  BY <1>4, SMTT(20) DEF LoginUnrecognised
<1>5. CASE LoginFails
  BY <1>5, SMTT(20) DEF LoginFails
<1>6. CASE ReadPortCount
  <2>1. CASE op[n] = "login"
    <3>1. /\ n \in Calls /\ pc = "ports" /\ pc' = "idle"
          /\ wire = "none" /\ wire' = "none"
          /\ result' = [result EXCEPT ![n] = "body"]
          /\ UNCHANGED <<loggedIn, cookie, live, n, op, dup, executed, late>>
      BY <1>6, <2>1 DEF ReadPortCount, Calls
    <3>2. n \notin late /\ op[n] \notin Writes
      BY <3>1, <2>1 DEF Writes, Configures
    <3>3. QED
      BY <3>1, <3>2, SMTT(20)
  <2>2. CASE op[n] # "login"
    BY <1>6, <2>2, SMTT(20) DEF ReadPortCount
  <2>3. QED
    BY <2>1, <2>2
<1>7. CASE ReceiveBody
  BY <1>7, SMTT(20) DEF ReceiveBody
<1>8. CASE ReceiveError
  BY <1>8, SMTT(20) DEF ReceiveError, TakenForSuccess
<1>9. CASE RetryAfterLogin
  BY <1>9, SMTT(20) DEF RetryAfterLogin, LogsInAgain
<1>10. CASE ReceiveLoginPage
  BY <1>10, SMTT(20) DEF ReceiveLoginPage, LogsInAgain
<1>11. CASE Logout
  BY <1>11, SMTT(20) DEF Logout
<1>12. CASE SwitchAnswers
  <2>1. CASE op[n] \in Writes
    <3>1. /\ n \in Calls /\ executed[n] <= dup[n]
          /\ wire = "request" /\ wire' = "body" /\ pc = "waiting" /\ cookie
          /\ executed' = [executed EXCEPT ![n] = @ + 1]
          /\ UNCHANGED <<loggedIn, cookie, pc, n, op, dup, result, late>>
      BY <1>12, <2>1 DEF SwitchAnswers, Calls
    <3>2. SessionBacked' /\ CallsInOrder' /\ ExchangeOwned'
      BY <3>1
    <3>3. AtMostOnce' /\ OutcomeHonest' /\ SendsAreSafe'
      BY <3>1
    <3>4. LateIsUnanswered'
      BY <3>1
    <3>5. QED
      BY <3>1, <3>2, <3>3, <3>4
  <2>2. CASE op[n] \notin Writes
    BY <1>12, <2>2, SMTT(20) DEF SwitchAnswers
  <2>3. QED
    BY <2>1, <2>2
<1>13. CASE SwitchDemandsLogin
  BY <1>13, SMTT(20) DEF SwitchDemandsLogin
<1>14. CASE SwitchFails
  BY <1>14, SMTT(20) DEF SwitchFails
<1>15. CASE ConnectionDrops
  BY <1>15, SMTT(20) DEF ConnectionDrops
<1>16. CASE TimesOut
  BY <1>16, SMTT(20) DEF TimesOut
<1>17. CASE TransportRepeats
  BY <1>17, SMTT(20) DEF TransportRepeats
<1>18. CASE \E c \in Calls : LateExecution(c)
  BY <1>18, SMTT(20) DEF LateExecution, Effect
<1>19. CASE \E c \in Calls : LateDiscarded(c)
  BY <1>19, SMTT(20) DEF LateDiscarded
<1>20. CASE SessionLost
  BY <1>20, SMTT(20) DEF SessionLost
<1>21. CASE SessionAges
  BY <1>21, SMTT(20) DEF SessionAges
<1>22. CASE UNCHANGED vars
  BY <1>22 DEF vars
<1>23. QED
  BY <1>1, <1>2, <1>3, <1>4, <1>5, <1>6, <1>7, <1>8, <1>9, <1>10, <1>11, <1>12, <1>13, <1>14, <1>15, <1>16, <1>17, <1>18, <1>19, <1>20, <1>21, <1>22
     DEF Next, LoginStep, Receive, ExchangeEnds

\* The books of the calls hold in every state the Client and the switch reach.
LEMMA CallInvHolds == Spec => [](TypeOK /\ CallInv)
<1>1. Init => CallInv
  <2> SUFFICES ASSUME Init PROVE CallInv
    OBVIOUS
  <2>1. n = 0 /\ \A c \in Calls : c > n /\ ~(c <= n) /\ c # n
    BY ConstantsAssumption DEF Init, Calls
  <2>2. SessionBacked /\ ExchangeOwned /\ SendsAreSafe /\ LateIsUnanswered
    BY DEF Init, SessionBacked, ExchangeOwned, SendsAreSafe, LateIsUnanswered, CallOpen
  <2>3. AtMostOnce /\ OutcomeHonest /\ \A c \in Calls : op[c] \in Posts => dup[c] = 0
    BY DEF Init, AtMostOnce, OutcomeHonest
  <2>4. CallsInOrder
    BY <2>1 DEF Init, CallsInOrder
  <2>5. QED
    BY <2>2, <2>3, <2>4 DEF CallInv
<1>2. TypeOK /\ TypeOK' /\ CallInv /\ [Next]_vars => CallInv'
  BY CallInvInductive
<1>3. QED
  BY <1>1, <1>2, TypeCorrect, PTL DEF Spec

\* The session belief is backed by a cookie, no call changes the switch twice
\* unless the transport itself repeated a GET, and outcomes tell the truth.
THEOREM SessionSafety == Spec => [](SessionBacked /\ AtMostOnce /\ OutcomeHonest)
<1>1. CallInv => SessionBacked /\ AtMostOnce /\ OutcomeHonest
  BY DEF CallInv
<1>2. QED
  BY <1>1, CallInvHolds, PTL

\* A call that returned an answer of the switch has no effect afterwards.
THEOREM AnsweredCallsAreFinal == Spec => NoEffectAfterAnswer
<1>1. TypeOK /\ CallInv /\ [Next]_vars
      => [\A c \in Calls : executed'[c] # executed[c] =>
             result[c] \in {"none", "nil", "error"}]_vars
  <2> SUFFICES ASSUME TypeOK, CallInv, [Next]_vars, NEW c \in Calls,
                      executed'[c] # executed[c]
               PROVE  result[c] \in {"none", "nil", "error"}
    OBVIOUS
  <2>1. executed' # executed
    OBVIOUS
  <2>2. CASE SwitchAnswers
    <3>1. n \in Calls /\ result[n] = "none"
      BY <2>2 DEF SwitchAnswers, TypeOK, Calls, CallInv, CallsInOrder, CallOpen
    <3>2. c = n
      BY <2>2, <3>1 DEF SwitchAnswers, TypeOK
    <3>3. QED
      BY <3>1, <3>2
  <2>3. CASE \E d \in Calls : LateExecution(d)
    <3> PICK d \in Calls : LateExecution(d)
      BY <2>3
    <3>1. c = d
      BY DEF LateExecution, TypeOK
    <3>2. QED
      BY <3>1 DEF LateExecution, CallInv, LateIsUnanswered
  <2>4. QED
    BY <2>1, <2>2, <2>3 DEF Next, LoginStep, Receive, ExchangeEnds, vars, ledger,
       Begin, LoginAccepted, LoginRejected, LoginUnrecognised, LoginFails,
       ReadPortCount, ReceiveBody, ReceiveError, RetryAfterLogin, ReceiveLoginPage,
       Logout, SwitchDemandsLogin, SwitchFails, ConnectionDrops, TimesOut,
       TransportRepeats, LateDiscarded, SessionLost, SessionAges
<1>2. QED
  BY <1>1, CallInvHolds, PTL DEF Spec, NoEffectAfterAnswer
-----------------------------------------------------------------------------
(* Refinement of WriteCall                                                 *)

\* At most one copy of the request of a call is within reach of the switch.
LEMMA CopiesTyped ==
  ASSUME TypeOK PROVE Copies \in [Calls -> {0, 1}]
BY DEF Copies

\* A step that keeps the ledger and the whereabouts of requests is a stutter.
LEMMA StutterStep ==
  ASSUME UNCHANGED <<op, dup, executed, result>>, Copies' = Copies
  PROVE  UNCHANGED Contract!vars
BY DEF Contract!vars

\* A call that returns keeps its copies; the guards of Return are the books.
LEMMA ReturnStep ==
  ASSUME TypeOK, CallInv, NEW r \in Outcomes, pc # "idle",
         wire # "request", Copies' = Copies,
         result' = [result EXCEPT ![n] = r],
         UNCHANGED <<op, dup, executed>>,
         r \in {"body", "login_page", "auth_error"} => n \notin late,
         r = "body" /\ op[n] \in Writes => executed[n] >= 1,
         r \in {"login_page", "auth_error"} => executed[n] <= dup[n]
  PROVE  Contract!Next
<1>1. n \in Calls /\ op[n] # "none" /\ result[n] = "none"
  BY ConstantsAssumption DEF TypeOK, CallInv, CallsInOrder, CallOpen, Calls, AllOps,
     Pages, Configures, Raw
<1>2. r \in Contract!Known \cup Contract!Unknown
  BY DEF Outcomes, Contract!Known, Contract!Unknown
<1>3. r \in Contract!Known => Copies[n] = 0
  BY <1>1 DEF Contract!Known, Copies
<1>4. Contract!Return(n, r)
  BY <1>1, <1>3 DEF Contract!Return, Contract!Running
<1>5. QED
  BY <1>1, <1>2, <1>4 DEF Contract!Next

\* Every step of the Client, the switch or the transport is one of WriteCall's or
\* leaves the ledger of the calls and the copies of their requests alone.
LEMMA StepSimulation ==
  ASSUME TypeOK, TypeOK', CallInv, CallInv', [Next]_vars
  PROVE  [Contract!Next]_(Contract!vars)
<1> USE DEF client, ledger, switch
<1>0. /\ pc # "idle" => n \in Calls /\ op[n] # "none" /\ result[n] = "none"
      /\ pc # "waiting" => n \notin late \/ pc = "idle"
      /\ pc = "waiting" /\ n \in late => wire \in {"timeout", "timeout_eof"}
      /\ pc # "waiting" <=> wire = "none"
  BY ConstantsAssumption DEF TypeOK, CallInv, CallsInOrder, CallOpen, ExchangeOwned,
     LateIsUnanswered, Calls, AllOps, Pages, Configures, Raw
<1>1. CASE \E o \in Ops : Begin(o)
  <2> PICK o \in Ops : Begin(o)
    BY <1>1
  <2>1. n + 1 \in Calls /\ n' = n + 1 /\ op[n + 1] = "none" /\ n + 1 \notin late
        /\ pc = "idle" /\ late' = late
    BY DEF Begin, TypeOK, Calls, CallInv, CallsInOrder
  <2>2. pc' = "login" \/ (pc' = "waiting" /\ wire' = "request")
    BY DEF Begin
  <2> DEFINE k == IF pc' = "login" THEN 0 ELSE 1
  <2>3. Copies' = [Copies EXCEPT ![n + 1] = k]
    BY <2>1, <2>2 DEF Copies
  <2>4. Contract!Start(n + 1, o)
    BY <2>1, <2>3 DEF Contract!Start, Begin
  <2>5. QED
    BY <2>1, <2>4 DEF Contract!Next
<1>2. CASE LoginAccepted \/ LoginRejected \/ LoginUnrecognised \/ LoginFails
  <2>1. Copies' = Copies /\ pc = "login"
    BY <1>2, <1>0 DEF Copies, LoginAccepted, LoginRejected, LoginUnrecognised,
       LoginFails, Return
  <2>2. CASE result' = result
    BY <1>2, <2>1, <2>2, StutterStep DEF LoginAccepted, LoginRejected,
       LoginUnrecognised, LoginFails
  <2>3. CASE result' # result
    <3>1. PICK r \in {"auth_error", "error"} : result' = [result EXCEPT ![n] = r]
      BY <1>2, <2>3 DEF LoginAccepted, LoginRejected, LoginUnrecognised, LoginFails,
         Return
    <3>2. executed[n] <= dup[n] /\ n \notin late
      BY <2>1, <1>0 DEF CallInv, SendsAreSafe, CallOpen
    <3>3. wire = "none" /\ UNCHANGED <<op, dup, executed>>
      BY <1>2, <1>0, <2>1 DEF LoginAccepted, LoginRejected, LoginUnrecognised, LoginFails
    <3>4. r \in Outcomes
      BY DEF Outcomes
    <3>5. Contract!Next
      BY ReturnStep, <2>1, <3>1, <3>2, <3>3, <3>4
    <3>6. QED
      BY <3>5
  <2>4. QED
    BY <2>2, <2>3
<1>3. CASE ReadPortCount
  <2>1. pc = "ports" /\ n \in Calls /\ n \notin late /\ wire = "none"
        /\ executed[n] <= dup[n] /\ late' = late /\ n' = n
        /\ UNCHANGED <<op, dup, executed>>
    BY <1>3, <1>0 DEF ReadPortCount, CallInv, SendsAreSafe, CallOpen
  <2>2. CASE op[n] = "login"
    <3>1. pc' = "idle" /\ result' = [result EXCEPT ![n] = "body"]
      BY <1>3, <2>2 DEF ReadPortCount, Return
    <3>2. Copies' = Copies
      BY <2>1, <3>1 DEF Copies
    <3>3. op[n] \notin Writes /\ "body" \in Outcomes
      BY <2>2 DEF Writes, Configures, Outcomes
    <3>4. Contract!Next
      BY ReturnStep, <2>1, <3>1, <3>2, <3>3
    <3>5. QED
      BY <3>4
  <2>3. CASE op[n] # "login"
    <3>1. pc' = "waiting" /\ wire' = "request" /\ result' = result
      BY <1>3, <2>3 DEF ReadPortCount
    <3>2. Copies' = [Copies EXCEPT ![n] = 1] /\ Copies[n] = 0
      BY <2>1, <3>1 DEF Copies
    <3>3. Contract!Send(n)
      BY <1>0, <2>1, <3>1, <3>2 DEF Contract!Send, Contract!Running
    <3>4. QED
      BY <2>1, <3>3 DEF Contract!Next
  <2>4. QED
    BY <2>2, <2>3
<1>4. CASE ReceiveBody \/ ReceiveError \/ ReceiveLoginPage
  <2>1. PICK r \in Outcomes :
          /\ result' = [result EXCEPT ![n] = r]
          /\ r = "body" => wire = "body"
          /\ r = "login_page" => wire = "login_page"
          /\ r # "auth_error"
    BY <1>4 DEF ReceiveBody, ReceiveError, ReceiveLoginPage, Return, Outcomes
  <2>2. pc = "waiting" /\ wire # "request" /\ pc' = "idle"
        /\ UNCHANGED <<n, op, dup, executed, late>>
    BY <1>4 DEF ReceiveBody, ReceiveError, ReceiveLoginPage, Return, Errors
  <2>3. Copies' = Copies
    BY <2>2 DEF Copies
  <2>4. /\ r \in {"body", "login_page"} => n \notin late
        /\ r = "body" /\ op[n] \in Writes => executed[n] >= 1
        /\ r = "login_page" => executed[n] <= dup[n]
    BY <1>0, <2>1, <2>2 DEF CallInv, SendsAreSafe, CallOpen
  <2>5. Contract!Next
    BY ReturnStep, <2>1, <2>2, <2>3, <2>4
  <2>6. QED
    BY <2>5
<1>5. CASE RetryAfterLogin \/ Logout \/ SessionLost \/ SessionAges
  <2>1. UNCHANGED <<op, dup, executed, result>>
    BY <1>5 DEF RetryAfterLogin, Logout, SessionLost, SessionAges
  <2>2. Copies' = Copies
    <3>1. CASE RetryAfterLogin
      BY <3>1 DEF RetryAfterLogin, LogsInAgain, Copies
    <3>2. CASE Logout \/ SessionLost \/ SessionAges
      BY <3>2 DEF Logout, SessionLost, SessionAges, Copies
    <3>3. QED
      BY <1>5, <3>1, <3>2
  <2>3. QED
    BY <2>1, <2>2, StutterStep
<1>6. CASE SwitchAnswers
  <2>1. n \in Calls /\ n \notin late /\ Copies[n] = 1
    BY <1>6, <1>0 DEF SwitchAnswers, Copies
  <2>2. Copies' = [Copies EXCEPT ![n] = 0]
    BY <1>6, <2>1 DEF SwitchAnswers, Copies
  <2>3. CASE op[n] \in Writes
    <3>1. Contract!Execute(n)
      BY <1>6, <2>1, <2>2, <2>3 DEF SwitchAnswers, Contract!Execute
    <3>2. QED
      BY <2>1, <3>1 DEF Contract!Next
  <2>4. CASE op[n] \notin Writes
    <3>1. Contract!Lose(n)
      BY <1>6, <2>1, <2>2, <2>4 DEF SwitchAnswers, Contract!Lose
    <3>2. QED
      BY <2>1, <3>1 DEF Contract!Next
  <2>5. QED
    BY <2>3, <2>4
<1>7. CASE SwitchDemandsLogin \/ SwitchFails \/ ConnectionDrops
  <2>1. pc = "waiting" /\ pc' = "waiting" /\ wire' # "request" /\ n \in Calls
        /\ UNCHANGED <<n, op, dup, executed, result, late>>
    BY <1>7, <1>0 DEF SwitchDemandsLogin, SwitchFails, ConnectionDrops
  <2>2. CASE wire = "request"
    <3>1. n \notin late /\ Copies[n] = 1
      BY <1>0, <2>1, <2>2 DEF Copies
    <3>2. Copies' = [Copies EXCEPT ![n] = 0]
      BY <2>1, <3>1 DEF Copies
    <3>3. Contract!Lose(n)
      BY <2>1, <3>1, <3>2 DEF Contract!Lose
    <3>4. QED
      BY <2>1, <3>3 DEF Contract!Next
  <2>3. CASE wire # "request"
    <3>1. Copies' = Copies
      BY <2>1, <2>3 DEF Copies
    <3>2. QED
      BY <2>1, <3>1, StutterStep
  <2>4. QED
    BY <2>2, <2>3
<1>8. CASE TimesOut
  <2>1. pc = "waiting" /\ wire' # "request" /\ n \in Calls /\ pc' = pc
        /\ UNCHANGED <<n, op, dup, executed, result>>
        /\ late' = IF wire = "request" /\ op[n] \in Writes THEN late \cup {n} ELSE late
    BY <1>8, <1>0 DEF TimesOut
  <2>2. CASE wire = "request" /\ op[n] \notin Writes
    <3>1. n \notin late /\ Copies[n] = 1
      BY <1>0, <2>1, <2>2 DEF Copies
    <3>2. Copies' = [Copies EXCEPT ![n] = 0]
      BY <2>1, <2>2, <3>1 DEF Copies
    <3>3. Contract!Lose(n)
      BY <2>1, <3>1, <3>2 DEF Contract!Lose
    <3>4. QED
      BY <2>1, <3>3 DEF Contract!Next
  <2>3. CASE ~(wire = "request" /\ op[n] \notin Writes)
    <3>1. Copies' = Copies
      BY <2>1, <2>3 DEF Copies
    <3>2. QED
      BY <2>1, <3>1, StutterStep
  <2>4. QED
    BY <2>2, <2>3
<1>9. CASE TransportRepeats
  <2>1. n \in Calls /\ n \notin late /\ Copies[n] = 0
    BY <1>9, <1>0 DEF TransportRepeats, Copies
  <2>2. Copies' = [Copies EXCEPT ![n] = 1]
    BY <1>9, <2>1 DEF TransportRepeats, Copies
  <2>3. Contract!Duplicate(n)
    BY <1>9, <1>0, <2>1, <2>2 DEF TransportRepeats, Contract!Duplicate, Contract!Running
  <2>4. QED
    BY <2>1, <2>3 DEF Contract!Next
<1>10. CASE \E c \in Calls : LateExecution(c) \/ LateDiscarded(c)
  <2> PICK c \in Calls : LateExecution(c) \/ LateDiscarded(c)
    BY <1>10
  <2>1. Copies[c] = 1 /\ op[c] \in Writes
        /\ ~(c = n /\ pc = "waiting" /\ wire = "request")
    BY <1>0 DEF LateExecution, LateDiscarded, Copies, CallInv, LateIsUnanswered
  <2>2. Copies' = [Copies EXCEPT ![c] = 0]
    BY <2>1 DEF LateExecution, LateDiscarded, Copies
  <2>3. Contract!Execute(c) \/ Contract!Lose(c)
    BY <2>1, <2>2 DEF LateExecution, LateDiscarded, Contract!Execute, Contract!Lose
  <2>4. QED
    BY <2>3 DEF Contract!Next
<1>11. CASE UNCHANGED vars
  <2>1. Copies' = Copies
    BY <1>11 DEF vars, Copies
  <2>2. QED
    BY <1>11, <2>1, StutterStep DEF vars
<1>12. QED
  BY <1>1, <1>2, <1>3, <1>4, <1>5, <1>6, <1>7, <1>8, <1>9, <1>10, <1>11
     DEF Next, LoginStep, Receive, ExchangeEnds

\* The session layer keeps the contract WriteCall states: whatever is lost, a
\* request is never in the switch's reach twice at a time, never sent again
\* once performed, and what the call returns is what the caller may rely on.
THEOREM Refinement == Spec => ImplementsWriteCall
<1>1. Init => Contract!Init
  <2> SUFFICES ASSUME Init PROVE Contract!Init
    OBVIOUS
  <2>1. Copies = [c \in Calls |-> 0]
    BY DEF Init, Copies
  <2>2. QED
    BY <2>1 DEF Init, Contract!Init
<1>2. TypeOK /\ TypeOK' /\ CallInv /\ CallInv' /\ [Next]_vars
      => [Contract!Next]_(Contract!vars)
  BY StepSimulation
<1>3. QED
  BY <1>1, <1>2, CallInvHolds, PTL DEF Spec, ImplementsWriteCall, Contract!Spec
=============================================================================
