------------------------------ MODULE WriteCall ------------------------------
(***************************************************************************)
(* What the session layer of the SDK promises about the calls made on a    *)
(* Client, whatever happens to the session or the connection.              *)
(*                                                                         *)
(* A call puts one copy of its request at a time on its way to the switch. *)
(* The client adds a copy only while every execution so far is accounted   *)
(* for by a duplicate the HTTP transport made of its own accord, which it  *)
(* does for GET requests only.  When the call returns, its outcome says    *)
(* how much the caller knows.                                              *)
(***************************************************************************)
EXTENDS Naturals

CONSTANTS Calls,      \* identities of the calls, in the order they are made
          Ops,        \* the operations a call may perform
          Writes,     \* those that change the switch
          Posts       \* those sent as POST, which the transport never repeats

VARIABLES
  op,        \* op[c]: the operation of call c, "none" before it starts
  copies,    \* copies[c]: requests of c that the switch may still execute
  dup,       \* dup[c]: copies the HTTP transport added by itself
  executed,  \* executed[c]: times the switch performed the write of c
  result     \* result[c]: what c returned, "none" until it does

vars == <<op, copies, dup, executed, result>>

\* Outcomes: an answer of the switch; success without an answer; the login
\* page in place of an answer; the password refused; any other error.
Known   == {"body", "login_page", "auth_error"}
Unknown == {"nil", "error"}

Running(c) == op[c] # "none" /\ result[c] = "none"

Init ==
  /\ op       = [c \in Calls |-> "none"]
  /\ copies   = [c \in Calls |-> 0]
  /\ dup      = [c \in Calls |-> 0]
  /\ executed = [c \in Calls |-> 0]
  /\ result   = [c \in Calls |-> "none"]

Start(c, o) ==
  /\ op[c] = "none"
  /\ op' = [op EXCEPT ![c] = o]
  /\ \E k \in {0, 1} : copies' = [copies EXCEPT ![c] = k]
  /\ UNCHANGED <<dup, executed, result>>

Send(c) ==
  /\ Running(c)
  /\ copies[c] = 0
  /\ executed[c] <= dup[c]
  /\ copies' = [copies EXCEPT ![c] = 1]
  /\ UNCHANGED <<op, dup, executed, result>>

Duplicate(c) ==
  /\ Running(c)
  /\ copies[c] = 0
  /\ op[c] \notin Posts
  /\ copies' = [copies EXCEPT ![c] = 1]
  /\ dup' = [dup EXCEPT ![c] = @ + 1]
  /\ UNCHANGED <<op, executed, result>>

Execute(c) ==
  /\ copies[c] = 1
  /\ op[c] \in Writes
  /\ copies' = [copies EXCEPT ![c] = 0]
  /\ executed' = [executed EXCEPT ![c] = @ + 1]
  /\ UNCHANGED <<op, dup, result>>

\* The switch refuses the request, answers it without a write, or it is lost.
Lose(c) ==
  /\ copies[c] = 1
  /\ copies' = [copies EXCEPT ![c] = 0]
  /\ UNCHANGED <<op, dup, executed, result>>

Return(c, r) ==
  /\ Running(c)
  /\ r \in Known => copies[c] = 0
  /\ r = "body" /\ op[c] \in Writes => executed[c] >= 1
  /\ r \in {"login_page", "auth_error"} => executed[c] <= dup[c]
  /\ result' = [result EXCEPT ![c] = r]
  /\ UNCHANGED <<op, copies, dup, executed>>

Next ==
  \E c \in Calls :
    \/ \E o \in Ops : Start(c, o)
    \/ Send(c) \/ Duplicate(c) \/ Execute(c) \/ Lose(c)
    \/ \E r \in Known \cup Unknown : Return(c, r)

Spec == Init /\ [][Next]_vars
=============================================================================
