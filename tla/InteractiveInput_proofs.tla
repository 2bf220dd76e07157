----------------------- MODULE InteractiveInput_proofs -----------------------
(***************************************************************************)
(* Machine-checked proofs about InteractiveInput, for any alphabet, any    *)
(* lines that ask, quit or are completed, and any number of bytes in any   *)
(* portions: types, the line behind the prompt, and the lines a pipe runs. *)
(*                                                                         *)
(* The line of the editor and what the terminal shows stay equal by        *)
(* themselves (Typed).  For the scanner, all that ever arrived is what was *)
(* scanned, then its buffer, then what waits (Scanned); what was scanned   *)
(* ends with a newline, so its commands are a beginning of those of the    *)
(* whole text.  That rests on how a text falls into lines at a newline     *)
(* (SplitConcat) and lines into commands (CommandsJoin).                   *)
(***************************************************************************)
EXTENDS InteractiveInput, TLAPS, SequenceTheorems, NaturalsInduction, WellFoundedInduction

\* A set of naturals that is not empty has a least element.
LEMMA Least ==
  ASSUME NEW S \in SUBSET Nat, NEW n \in S
  PROVE  \E m \in S : \A k \in S : m <= k
<1> DEFINE Less == {ss \in Nat \X Nat : ss[1] < ss[2]}
<1>1. OpToRel(<, Nat) = Less
  BY DEF OpToRel
<1>2. IsWellFoundedOn(Less, Nat)
  BY <1>1, NatLessThanWellFounded
<1>3. PICK m \in S : \A k \in S : ~(<<k, m>> \in Less)
  BY <1>2, WFMin
<1>4. \A k \in S : ~(k < m)
  BY <1>3
<1>5. QED
  BY <1>4

\* A set of naturals with 0 and the successor of each of its elements holds them all.
LEMMA Induction ==
  ASSUME NEW S \in SUBSET Nat, 0 \in S, \A n \in S : n + 1 \in S
  PROVE  S = Nat
<1> SUFFICES ASSUME NEW t \in Nat \ S PROVE FALSE
  OBVIOUS
<1>1. PICK m \in Nat \ S : \A k \in Nat \ S : m <= k
  <2>1. Nat \ S \in SUBSET Nat
    OBVIOUS
  <2>2. QED
    BY <2>1, Least
<1>2. m # 0 /\ m - 1 \in Nat /\ ~(m <= m - 1) /\ (m - 1) + 1 = m
  OBVIOUS
<1>3. m - 1 \in S
  BY <1>1, <1>2
<1>4. QED
  BY <1>2, <1>3

\* Two lists one behind the other.
LEMMA Concat ==
  ASSUME NEW X, NEW p \in Seq(X), NEW q \in Seq(X), NEW n \in Nat, Len(p) + Len(q) = n
  PROVE  /\ p \o q \in Seq(X) /\ Len(p \o q) = n
         /\ \A i \in 1..n : (p \o q)[i] = IF i <= Len(p) THEN p[i] ELSE q[i - Len(p)]
OBVIOUS

\* Concatenation and Append under names, so that facts about them are matched as they stand.
Join(p, q)   == p \o q
Extend(p, x) == Append(p, x)

LEMMA JoinJoin ==
  ASSUME NEW X, NEW p \in Seq(X), NEW q \in Seq(X), NEW r \in Seq(X)
  PROVE  Join(Join(p, q), r) = Join(p, Join(q, r)) /\ Join(p, q) \in Seq(X)
BY DEF Join

\* A set of lists with the empty list and every extension of its lists holds them all.
LEMMA ListInduction ==
  ASSUME NEW X, NEW S \in SUBSET Seq(X), <<>> \in S, \A s \in S, x \in X : Append(s, x) \in S
  PROVE  S = Seq(X)
<1> SUFFICES ASSUME NEW t \in Seq(X) \ S PROVE FALSE
  OBVIOUS
<1> DEFINE Lengths == {n \in Nat : \E s \in Seq(X) \ S : Len(s) = n}
<1>1. PICK n \in Lengths : \A k \in Lengths : n <= k
  <2>1. Len(t) \in Lengths /\ Lengths \in SUBSET Nat
    OBVIOUS
  <2> HIDE DEF Lengths
  <2>2. QED
    BY <2>1, Least
<1>2. PICK s \in Seq(X) \ S : Len(s) = n
  BY <1>1
<1>3. PICK r \in Seq(X), x \in X : s = Append(r, x)
  BY <1>2, SequenceEmptyOrAppend
<1>4. Len(r) \in Nat /\ Len(r) + 1 = n
  BY <1>2, <1>3
<1>5. CASE r \in S
  BY <1>2, <1>3, <1>5
<1>6. CASE r \notin S
  <2>1. Len(r) \in Lengths
    BY <1>4, <1>6
  <2> HIDE DEF Lengths
  <2>2. n <= Len(r)
    BY <1>1, <2>1
  <2>3. QED
    BY <1>4, <2>2
<1>7. QED
  BY <1>5, <1>6

\* A set of numbers up to n has a least and a greatest element.
LEMMA Ends ==
  ASSUME NEW n \in Nat, NEW S \in SUBSET (1..n), S # {}
  PROVE  /\ (CHOOSE i \in S : \A j \in S : i <= j) \in S
         /\ (CHOOSE i \in S : \A j \in S : i >= j) \in S
         /\ \A j \in S : (CHOOSE i \in S : \A k \in S : i <= k) <= j
<1>1. \E i \in S : \A j \in S : i <= j
  <2>1. PICK i : i \in S
    OBVIOUS
  <2>2. S \in SUBSET Nat
    OBVIOUS
  <2>3. QED
    BY <2>1, <2>2, Least
<1>2. \E i \in S : \A j \in S : i >= j
  <2> DEFINE T == {n - i : i \in S}
  <2>1. PICK i : i \in S
    OBVIOUS
  <2>2. T \in SUBSET Nat /\ n - i \in T
    BY <2>1
  <2> HIDE DEF T
  <2>3. PICK k \in T : \A j \in T : k <= j
    BY <2>2, Least
  <2>4. PICK m \in S : k = n - m
    BY DEF T
  <2>5. \A j \in S : n - m <= n - j
    BY <2>3, <2>4 DEF T
  <2>6. QED
    BY <2>5
<1>3. QED
  BY <1>1, <1>2

\* What is left of a line is made of its bytes.
LEMMA TrimTyped ==
  ASSUME NEW X, NEW l \in Seq(X)
  PROVE  Trim(l) \in Seq(X)
<1> DEFINE Text == {i \in DOMAIN l : l[i] \notin {"CR", "TAB"}}
           lo == CHOOSE i \in Text : \A j \in Text : i <= j
           hi == CHOOSE i \in Text : \A j \in Text : i >= j
<1>1. CASE Text = {}
  <2>1. Trim(l) = <<>>
    BY <1>1 DEF Trim
  <2>2. QED
    BY <2>1
<1>2. CASE Text # {}
  <2>1. Text \in SUBSET (1..Len(l)) /\ Len(l) \in Nat
    OBVIOUS
  <2>2. Trim(l) = SubSeq(l, lo, hi)
    BY <1>2 DEF Trim
  <2> HIDE DEF Text
  <2>3. lo \in Text /\ hi \in Text
    BY <1>2, <2>1, Ends
  <2> HIDE DEF lo, hi
  <2>4. lo \in 1..Len(l) /\ hi \in 1..Len(l)
    BY <2>1, <2>3
  <2>5. \A i \in lo..hi : l[i] \in X
    BY <2>1, <2>4
  <2>6. QED
    BY <2>2, <2>4, <2>5, SubSeqProperties
<1>3. QED
  BY <1>1, <1>2

\* The first newline of a buffer, the line before it and the rest behind it.
LEMMA LineSplit ==
  ASSUME NEW X, NEW b \in Seq(X)
  PROVE  /\ FirstLine(b) \in Seq(X) /\ AfterLine(b) \in Seq(X)
         /\ \A i \in 1..Len(FirstLine(b)) : FirstLine(b)[i] # "LF"
         /\ HasLine(b) => "LF" \in X /\ b = Append(FirstLine(b), "LF") \o AfterLine(b)
         /\ ~HasLine(b) => FirstLine(b) = b /\ AfterLine(b) = <<>>
<1> DEFINE I == {i \in 1..Len(b) : b[i] = "LF"}
           n == CHOOSE i \in I : \A j \in I : i <= j
<1>1. CASE ~HasLine(b)
  <2>1. FirstLine(b) = b /\ AfterLine(b) = <<>>
    BY <1>1 DEF FirstLine, AfterLine
  <2>2. \A i \in 1..Len(b) : b[i] # "LF"
    BY <1>1 DEF HasLine, Contains
  <2>3. QED
    BY <1>1, <2>1, <2>2
<1>2. CASE HasLine(b)
  <2>1. I # {} /\ I \in SUBSET (1..Len(b)) /\ Len(b) \in Nat
    BY <1>2 DEF HasLine, Contains
  <2>2. FirstLine(b) = SubSeq(b, 1, n - 1) /\ AfterLine(b) = SubSeq(b, n + 1, Len(b))
    BY <1>2, <2>1 DEF FirstLine, AfterLine, SelectInSeq, Min
  <2> HIDE DEF I
  <2>3. n \in I /\ \A j \in I : n <= j
    BY <2>1, Ends
  <2> HIDE DEF n
  <2>4. n \in 1..Len(b) /\ b[n] = "LF" /\ \A i \in 1..Len(b) : i < n => b[i] # "LF"
    BY <2>1, <2>3 DEF I
  <2>5. /\ SubSeq(b, 1, n - 1) \in Seq(X) /\ Len(SubSeq(b, 1, n - 1)) = n - 1
        /\ \A i \in 1..(n - 1) : SubSeq(b, 1, n - 1)[i] = b[i]
    BY <2>1, <2>4
  <2>6. /\ SubSeq(b, n + 1, Len(b)) \in Seq(X)
        /\ Len(SubSeq(b, n + 1, Len(b))) = Len(b) - n
        /\ \A i \in 1..(Len(b) - n) : SubSeq(b, n + 1, Len(b))[i] = b[n + i]
    BY <2>1, <2>4
  <2> DEFINE l == SubSeq(b, 1, n - 1)
             r == SubSeq(b, n + 1, Len(b))
  <2>7. "LF" \in X
    BY <2>4
  <2>8. /\ Append(l, "LF") \in Seq(X) /\ Len(Append(l, "LF")) = n
        /\ \A i \in 1..n : Append(l, "LF")[i] = b[i]
    BY <2>4, <2>5, <2>7
  <2> HIDE DEF l, r
  <2>9. /\ Append(l, "LF") \o r \in Seq(X) /\ Len(Append(l, "LF") \o r) = Len(b)
        /\ \A i \in 1..Len(b) : (Append(l, "LF") \o r)[i] = b[i]
    <3>1. r \in Seq(X) /\ Len(r) = Len(b) - n /\ \A i \in 1..(Len(b) - n) : r[i] = b[n + i]
      BY <2>6 DEF r
    <3>2. n + (Len(b) - n) = Len(b) /\ Len(b) \in Nat
      BY <2>1, <2>4
    <3>3. /\ Append(l, "LF") \o r \in Seq(X)
          /\ Len(Append(l, "LF") \o r) = Len(b)
          /\ \A i \in 1..Len(b) :
               (Append(l, "LF") \o r)[i] = IF i <= n THEN Append(l, "LF")[i] ELSE r[i - n]
      BY ONLY <2>8, <3>1, <3>2, Concat
    <3>4. \A i \in 1..Len(b) : i <= n => i \in 1..n
      BY <2>1, <2>4
    <3>5. \A i \in 1..Len(b) : ~(i <= n) => i - n \in 1..(Len(b) - n) /\ n + (i - n) = i
      BY <2>1, <2>4
    <3>6. QED
      BY <2>8, <3>1, <3>3, <3>4, <3>5
  <2>10. b = Append(l, "LF") \o r
    BY <2>9, SeqEqual
  <2>11. \A i \in 1..Len(l) : l[i] # "LF"
    BY <2>4, <2>5 DEF l
  <2>12. QED
    BY <1>2, <2>2, <2>5, <2>6, <2>7, <2>10, <2>11 DEF l, r
<1>3. QED
  BY <1>1, <1>2
-----------------------------------------------------------------------------
(* Types                                                                   *)

Editable == (Letters \cup {"["}) \cap (Bytes \cup Letters)

Ran == [as : {"command", "answer"}, text : Lines]

\* What the terminal shows is the line, so deleting finds a byte on both.
Typed == TypeOK /\ line \in Seq(Editable) /\ screen = line

LEMMA SubList ==
  ASSUME NEW X, NEW Y, X \subseteq Y, NEW s \in Seq(X)
  PROVE  s \in Seq(Y)
OBVIOUS

LEMMA EditableTyped ==
  ASSUME NEW l \in Seq(Editable)
  PROVE  l \in Lines /\ l \in Seq(Letters \cup {"["})
  BY SubList DEF Editable, Lines

\* executeInputLine runs a list of bytes and leads to a place of the program.
LEMMA ExecuteTyped ==
  ASSUME Typed, NEW l \in Lines, Execute(l), pc = "reading"
  PROVE  pc' \in {"reading", "asking", "ended"} /\ ran' \in Seq(Ran)
<1>1. Trim(l) \in Lines
  BY TrimTyped DEF Lines
<1>2. [as |-> "command", text |-> Trim(l)] \in Ran
  BY <1>1 DEF Ran
<1>3. ran \in Seq(Ran)
  BY DEF Typed, TypeOK, Ran
<1>4. AfterCommand(Trim(l)) \in {"reading", "asking", "ended"}
  BY DEF AfterCommand
<1>5. QED
  BY <1>2, <1>3, <1>4 DEF Execute

\* A reader moves bytes from standard input to its buffer.
LEMMA TakesTyped ==
  ASSUME NEW X, NEW b \in Seq(X), NEW s \in Seq(X), NEW n \in 1..Len(s)
  PROVE  /\ b \o SubSeq(s, 1, n) \in Seq(X) /\ SubSeq(s, n + 1, Len(s)) \in Seq(X)
         /\ (b \o SubSeq(s, 1, n)) \o SubSeq(s, n + 1, Len(s)) = b \o s
<1>1. SubSeq(s, 1, n) \in Seq(X) /\ SubSeq(s, n + 1, Len(s)) \in Seq(X)
  OBVIOUS
<1>2. SubSeq(s, 1, n) \o SubSeq(s, n + 1, Len(s)) = s
  <2>1. Len(s) \in Nat /\ 1 \in 1..(Len(s) + 1) /\ n \in 0..Len(s) /\ Len(s) \in n..Len(s)
    OBVIOUS
  <2>2. SubSeq(s, 1, n) \o SubSeq(s, n + 1, Len(s)) = SubSeq(s, 1, Len(s))
    BY <2>1, ConcatAdjacentSubSeq
  <2>3. QED
    BY <2>2, SubSeqFull
<1> DEFINE p == SubSeq(s, 1, n)
           q == SubSeq(s, n + 1, Len(s))
<1>3. p \in Seq(X) /\ q \in Seq(X) /\ p \o q = s
  BY <1>1, <1>2
<1>4. \A x \in Seq(X), y \in Seq(X) : b \o x \in Seq(X) /\ (b \o x) \o y = b \o (x \o y)
  BY SMTT(40)
<1> HIDE DEF p, q
<1>5. b \o p \in Seq(X) /\ (b \o p) \o q = b \o (p \o q)
  BY <1>3, <1>4
<1>6. QED
  BY <1>3, <1>5 DEF p, q

\* processInteractiveByte.
LEMMA KeyTyped ==
  ASSUME ConstantsAssumption, Typed, EditKey
  PROVE  Typed'
<1>1. PICK b : \/ InSequence(b)
               \/ /\ esc' \in {"none", "prefix"}
                  /\ \/ CtrlC(b) \/ CtrlD(b) \/ Enter(b) \/ Backspace(b) \/ Tab(b)
                     \/ Question(b) \/ Printable(b) \/ Escape(b)
      /\ b = Head(buf) /\ buf' = Tail(buf) /\ pc = "reading" /\ buf # <<>>
      /\ UNCHANGED <<raw, stdin, closed, typed, answerBuf>>
  BY DEF EditKey
<1>2. buf' \in Lines /\ b \in Bytes \cup Letters
  BY <1>1 DEF Typed, TypeOK, Lines
<1>3. esc' \in {"none", "prefix", "sequence"}
  BY <1>1 DEF InSequence
<1>4. answerBuf = <<>>
  BY <1>1 DEF Typed, TypeOK
<1> DEFINE Good == /\ line' \in Seq(Editable) /\ screen' = line'
                   /\ pc' \in {"reading", "asking", "ended"} /\ ran' \in Seq(Ran)
<1>5. ran \in Seq(Ran) /\ line \in Seq(Editable) /\ screen = line
  BY DEF Typed, TypeOK, Ran
<1>12. Good
  <2>1. CASE InSequence(b) \/ CtrlD(b) \/ Escape(b) \/ Question(b)
    BY <1>1, <1>5, <2>1 DEF InSequence, CtrlD, Escape, Question
  <2>2. CASE CtrlC(b)
    BY <1>1, <1>5, <2>2 DEF CtrlC
  <2>3. CASE Enter(b)
    BY <1>1, <1>5, <2>3, ExecuteTyped, EditableTyped DEF Enter
  <2>4. CASE Backspace(b)
    <3>1. line # <<>> => Front(line) \in Seq(Editable)
      BY <1>5 DEF Front
    <3>2. QED
      BY <1>1, <1>5, <2>4, <3>1 DEF Backspace
  <2>5. CASE Tab(b)
    <3>1. \A l \in Seq(Letters) : l \in DOMAIN Completions => Completions[l] \in Seq(Editable)
      <4>1. Letters \subseteq Editable
        BY DEF Editable
      <4>2. QED
        BY <4>1, SubList DEF ConstantsAssumption
    <3>2. line \in DOMAIN Completions => Completions[line] \in Seq(Editable)
      BY <3>1 DEF ConstantsAssumption
    <3>3. QED
      BY <1>1, <1>5, <2>5, <3>2 DEF Tab
  <2>6. CASE Printable(b)
    <3>1. b \in Editable
      BY <1>2, <2>6 DEF Printable, Editable
    <3>2. QED
      BY <1>1, <1>5, <2>6, <3>1 DEF Printable
  <2>7. QED
    BY <1>1, <2>1, <2>2, <2>3, <2>4, <2>5, <2>6
<1>13. line' \in Lines /\ line' \in Seq(Letters \cup {"["})
  BY <1>12, EditableTyped
<1>14. QED
  BY <1>1, <1>2, <1>3, <1>4, <1>12, <1>13 DEF Typed, TypeOK, Ran

LEMMA TypedStep ==
  ASSUME ConstantsAssumption, Typed, [Next]_vars
  PROVE  Typed'
<1>1. CASE EditKey
  BY <1>1, KeyTyped
<1>2. CASE FillEditor \/ FillScanner
  <2>1. PICK n \in 1..Len(stdin) : /\ buf' = buf \o SubSeq(stdin, 1, n)
                                   /\ stdin' = SubSeq(stdin, n + 1, Len(stdin))
    BY <1>2 DEF FillEditor, FillScanner, Takes
  <2>2. buf' \in Lines /\ stdin' \in Lines
    BY <2>1, TakesTyped DEF Typed, TypeOK, Lines
  <2>3. UNCHANGED <<raw, closed, typed, answerBuf, pc, line, esc, screen, ran>>
    BY <1>2 DEF FillEditor, FillScanner
  <2>4. QED
    BY <2>2, <2>3 DEF Typed, TypeOK
<1>3. CASE FillPrompt
  <2>1. PICK n \in 1..Len(stdin) : /\ answerBuf' = answerBuf \o SubSeq(stdin, 1, n)
                                   /\ stdin' = SubSeq(stdin, n + 1, Len(stdin))
    BY <1>3 DEF FillPrompt, Takes
  <2>2. answerBuf' \in Lines /\ stdin' \in Lines
    BY <2>1, TakesTyped DEF Typed, TypeOK, Lines
  <2>3. UNCHANGED <<raw, closed, typed, buf, pc, line, esc, screen, ran>> /\ pc = "asking"
    BY <1>3 DEF FillPrompt
  <2>4. QED
    BY <2>2, <2>3 DEF Typed, TypeOK
<1>4. CASE HangUp \/ ScanEnd \/ Close
  BY <1>4 DEF HangUp, ScanEnd, Close, Typed, TypeOK
<1>5. CASE ScanLine
  <2>1. buf' = AfterLine(buf) /\ Execute(FirstLine(buf)) /\ pc = "reading"
        /\ UNCHANGED <<raw, stdin, closed, typed, answerBuf, line, esc, screen>>
    BY <1>5 DEF ScanLine
  <2>2. buf' \in Lines /\ FirstLine(buf) \in Lines
    BY <2>1, LineSplit DEF Typed, TypeOK, Lines
  <2>3. pc' \in {"reading", "asking", "ended"} /\ ran' \in Seq(Ran)
    BY <2>1, <2>2, ExecuteTyped
  <2>4. answerBuf = <<>>
    BY <2>1 DEF Typed, TypeOK
  <2>5. QED
    BY <2>1, <2>2, <2>3, <2>4 DEF Typed, TypeOK, Ran
<1>6. CASE Answer
  <2> DEFINE text == Trim(FirstLine(answerBuf))
  <2>1. text \in Lines
    BY LineSplit, TrimTyped DEF Typed, TypeOK, Lines
  <2>2. /\ pc' \in AfterAnswer(text) /\ ran' = Append(ran, [as |-> "answer", text |-> text])
        /\ answerBuf' = <<>> /\ UNCHANGED <<raw, stdin, closed, typed, buf, line, esc, screen>>
    BY <1>6 DEF Answer
  <2> HIDE DEF text
  <2>3. pc' \in {"reading", "ended"}
    BY <2>2 DEF AfterAnswer
  <2>4. ran' \in Seq(Ran)
    <3>1. [as |-> "answer", text |-> text] \in Ran /\ ran \in Seq(Ran)
      BY <2>1 DEF Typed, TypeOK, Ran
    <3>2. QED
      BY <2>2, <3>1
  <2>5. <<>> \in Lines
    BY DEF Lines
  <2>6. QED
    BY <2>2, <2>3, <2>4, <2>5 DEF Typed, TypeOK, Ran
<1>7. CASE \E b \in Bytes : Arrive(b)
  BY <1>7 DEF Arrive, Typed, TypeOK, Lines
<1>8. CASE UNCHANGED vars
  BY <1>8 DEF vars, Typed, TypeOK
<1>9. QED
  BY <1>1, <1>2, <1>3, <1>4, <1>5, <1>6, <1>7, <1>8 DEF Next, Program

LEMMA Initially == Init => Typed
<1> SUFFICES ASSUME Init PROVE Typed
  OBVIOUS
<1>1. /\ raw \in BOOLEAN /\ closed \in BOOLEAN /\ pc = "reading" /\ esc = "none" /\ stdin = <<>>
      /\ typed = <<>> /\ buf = <<>> /\ answerBuf = <<>> /\ line = <<>> /\ screen = <<>> /\ ran = <<>>
  BY DEF Init
<1>2. \A X : <<>> \in Seq(X)
  OBVIOUS
<1>3. <<>> \in Lines /\ <<>> \in Seq(Letters \cup {"["}) /\ <<>> \in Seq(Editable) /\ <<>> \in Seq(Ran)
  BY <1>2 DEF Lines
<1>4. QED
  BY <1>1, <1>3 DEF Typed, TypeOK, Ran

\* Every variable keeps its type; among it, a prompt's buffer is gone when its answer is
\* taken (promptInput makes a reader of its own).
THEOREM InputTyped == Spec => []TypeOK
<1>1. Typed => TypeOK
  BY DEF Typed
<1>2. QED
  BY <1>1, Initially, TypedStep, ConstantsAssumption, PTL DEF Spec

\* No sequence of keys, escape sequences and completions among them, makes the terminal
\* show one line while the editor holds another (processInteractiveByte).
THEOREM ScreenTrue == Spec => []ScreenShowsLine
<1>1. Typed => ScreenShowsLine
  BY DEF Typed, ScreenShowsLine
<1>2. QED
  BY <1>1, Initially, TypedStep, ConstantsAssumption, PTL DEF Spec
-----------------------------------------------------------------------------
(* The lines of a text                                                     *)

\* What a further byte makes of the lines of a text.
Grow(ls, x) ==
  IF x = "LF" THEN Append(ls, <<>>) ELSE Append(Front(ls), Append(Last(ls), x))

\* The defining equation of the function SplitLines is made of.
Splitting(f, b) ==
  f = [i \in 0..Len(b) |-> IF i = 0 THEN << <<>> >>
                           ELSE IF b[i] = "LF" THEN Append(f[i - 1], <<>>)
                           ELSE Append(Front(f[i - 1]), Append(Last(f[i - 1]), b[i]))]

LEMMA SplittingExists ==
  ASSUME NEW X, NEW b \in Seq(X)
  PROVE  \E f : Splitting(f, b)
<1> DEFINE Rule(f, i) == IF i = 0 THEN << <<>> >>
                         ELSE IF b[i] = "LF" THEN Append(f[i - 1], <<>>)
                         ELSE Append(Front(f[i - 1]), Append(Last(f[i - 1]), b[i]))
           Upto(f, n) == f = [i \in 0..n |-> Rule(f, i)]
           Done == {n \in Nat : \E f : Upto(f, n)}
<1>1. 0 \in Done
  <2> DEFINE f == [i \in 0..0 |-> << <<>> >>]
  <2>1. \A i \in 0..0 : i = 0
    OBVIOUS
  <2>2. f = [i \in 0..0 |-> Rule(f, i)]
    BY <2>1
  <2>3. Upto(f, 0)
    BY <2>2
  <2> HIDE DEF f, Upto
  <2>4. QED
    BY <2>3
<1>2. ASSUME NEW n \in Done PROVE n + 1 \in Done
  <2>1. PICK f : Upto(f, n)
    OBVIOUS
  <2> DEFINE g == [i \in 0..(n + 1) |-> IF i = n + 1 THEN Rule(f, n + 1) ELSE f[i]]
  <2>2. \A i \in 0..n : f[i] = Rule(f, i)
    BY <2>1
  <2>3. \A i \in 0..(n + 1) : g[i] = Rule(g, i)
    <3> SUFFICES ASSUME NEW i \in 0..(n + 1) PROVE g[i] = Rule(g, i)
      OBVIOUS
    <3>1. i # 0 => i - 1 \in 0..(n + 1) /\ i - 1 # n + 1
      OBVIOUS
    <3>2. Rule(g, i) = Rule(f, i)
      <4>1. i # 0 => g[i - 1] = f[i - 1]
        BY <3>1
      <4> HIDE DEF g
      <4>2. QED
        BY <4>1
    <3>3. CASE i = n + 1
      <4>1. g[i] = Rule(f, n + 1)
        BY <3>3
      <4> HIDE DEF g, Rule
      <4>2. QED
        BY <3>2, <3>3, <4>1
    <3>4. CASE i # n + 1
      <4>1. g[i] = f[i] /\ i \in 0..n
        BY <3>4
      <4> HIDE DEF g, Rule
      <4>2. QED
        BY <2>2, <3>2, <4>1
    <3>5. QED
      BY <3>3, <3>4
  <2>4. g = [i \in 0..(n + 1) |-> g[i]]
    OBVIOUS
  <2>5. Upto(g, n + 1)
    <3> HIDE DEF g, Rule
    <3>1. QED
      BY <2>3, <2>4
  <2> HIDE DEF g, Upto
  <2>6. QED
    BY <2>5
<1>3. Done = Nat
  <2> HIDE DEF Done
  <2>1. Done \in SUBSET Nat
    BY DEF Done
  <2>2. QED
    BY <1>1, <1>2, <2>1, Induction
<1>4. \E f : Upto(f, Len(b))
  <2>1. Len(b) \in Nat
    OBVIOUS
  <2>2. Len(b) \in Done
    BY <1>3, <2>1
  <2> HIDE DEF Upto
  <2>3. QED
    BY <2>2, Zenon
<1>5. QED
  BY <1>4 DEF Splitting

LEMMA SplitRule ==
  ASSUME NEW X, NEW b \in Seq(X)
  PROVE  \E f : /\ SplitLines(b) = f[Len(b)] /\ f[0] = << <<>> >>
                /\ \A i \in 1..Len(b) : f[i] = Grow(f[i - 1], b[i])
<1> DEFINE f == CHOOSE f : Splitting(f, b)
<1>1. Splitting(f, b)
  BY SplittingExists
<1>2. SplitLines(b) = f[Len(b)]
  BY DEF SplitLines, Splitting
<1> HIDE DEF f
<1>3. Len(b) \in Nat
  OBVIOUS
<1>4. f[0] = << <<>> >>
  BY <1>1, <1>3 DEF Splitting
<1>5. ASSUME NEW i \in 1..Len(b) PROVE f[i] = Grow(f[i - 1], b[i])
  <2>1. i \in 0..Len(b) /\ i # 0
    BY <1>3
  <2>2. QED
    BY <1>1, <2>1 DEF Splitting, Grow
<1>6. QED
  BY <1>2, <1>4, <1>5

LEMMA SplitEmpty == SplitLines(<<>>) = << <<>> >>
<1>1. <<>> \in Seq({}) /\ Len(<<>>) = 0
  OBVIOUS
<1>2. QED
  BY <1>1, SplitRule

\* The lines of a longer text.
LEMMA SplitAppend ==
  ASSUME NEW X, NEW b \in Seq(X), NEW x \in X
  PROVE  SplitLines(Append(b, x)) = Grow(SplitLines(b), x)
<1> DEFINE n == Len(b)
<1>1. /\ Append(b, x) \in Seq(X) /\ Len(Append(b, x)) = n + 1 /\ n \in Nat
      /\ \A i \in 1..n : Append(b, x)[i] = b[i]
      /\ Append(b, x)[n + 1] = x
  OBVIOUS
<1>2. PICK f : /\ SplitLines(b) = f[n] /\ f[0] = << <<>> >>
               /\ \A i \in 1..n : f[i] = Grow(f[i - 1], b[i])
  BY SplitRule
<1>3. PICK g : /\ SplitLines(Append(b, x)) = g[n + 1] /\ g[0] = << <<>> >>
               /\ \A i \in 1..(n + 1) : g[i] = Grow(g[i - 1], Append(b, x)[i])
  <2> DEFINE c == Append(b, x)
  <2>1. c \in Seq(X) /\ Len(c) = n + 1
    BY <1>1
  <2> HIDE DEF c
  <2>2. \E g : /\ SplitLines(c) = g[Len(c)] /\ g[0] = << <<>> >>
               /\ \A i \in 1..Len(c) : g[i] = Grow(g[i - 1], c[i])
    BY <2>1, SplitRule
  <2>3. QED
    BY <2>1, <2>2 DEF c
<1> DEFINE Same == {i \in Nat : i <= n => f[i] = g[i]}
<1>4. Same = Nat
  <2>1. 0 \in Same /\ Same \in SUBSET Nat
    BY <1>2, <1>3
  <2>2. ASSUME NEW i \in Same PROVE i + 1 \in Same
    <3> SUFFICES ASSUME i + 1 <= n PROVE f[i + 1] = g[i + 1]
      OBVIOUS
    <3>1. i \in Nat /\ i + 1 \in 1..n /\ i + 1 \in 1..(n + 1) /\ (i + 1) - 1 = i /\ f[i] = g[i]
      BY <1>1
    <3>2. f[i + 1] = Grow(f[i], b[i + 1]) /\ g[i + 1] = Grow(g[i], Append(b, x)[i + 1])
      BY <1>2, <1>3, <3>1
    <3>3. QED
      BY <1>1, <3>1, <3>2
  <2> HIDE DEF Same
  <2>3. QED
    BY <2>1, <2>2, Induction
<1>5. f[n] = g[n]
  BY <1>1, <1>4
<1>6. g[n + 1] = Grow(g[n], x)
  <2>1. n + 1 \in 1..(n + 1) /\ (n + 1) - 1 = n
    BY <1>1
  <2>2. QED
    BY <1>1, <1>3, <2>1
<1>7. QED
  BY <1>2, <1>3, <1>5, <1>6

LEMMA Appended ==
  ASSUME NEW X, NEW s \in Seq(X), NEW x \in X
  PROVE  Append(s, x) \in Seq(X) /\ Append(s, x) # <<>> /\ Append(s, x) = s \o <<x>>
<1>1. Append(s, x) \in Seq(X) /\ Len(Append(s, x)) = Len(s) + 1 /\ Append(s, x) = s \o <<x>>
  OBVIOUS
<1>2. Len(s) + 1 # 0
  OBVIOUS
<1>3. Append(s, x) # <<>>
  <2>1. Len(<<>>) = 0
    OBVIOUS
  <2>2. QED
    BY ONLY <1>1, <1>2, <2>1
<1>4. QED
  BY <1>1, <1>3

LEMMA GrowTyped ==
  ASSUME NEW X, NEW ls \in Seq(Seq(X)), ls # <<>>, NEW x \in X
  PROVE  Grow(ls, x) \in Seq(Seq(X)) /\ Grow(ls, x) # <<>>
<1>1. Front(ls) \in Seq(Seq(X)) /\ Last(ls) \in Seq(X)
  BY DEF Front, Last
<1>2. Append(Last(ls), x) \in Seq(X) /\ <<>> \in Seq(X)
  BY <1>1
<1>3. \A m \in Seq(Seq(X)), l \in Seq(X) : Append(m, l) \in Seq(Seq(X)) /\ Append(m, l) # <<>>
  BY Appended
<1>4. QED
  BY <1>1, <1>2, <1>3 DEF Grow

LEMMA SplitTyped ==
  ASSUME NEW X, NEW b \in Seq(X)
  PROVE  SplitLines(b) \in Seq(Seq(X)) /\ SplitLines(b) # <<>>
<1> DEFINE S == {t \in Seq(X) : SplitLines(t) \in Seq(Seq(X)) /\ SplitLines(t) # <<>>}
<1>1. <<>> \in S
  <2>1. << <<>> >> \in Seq(Seq(X)) /\ << <<>> >> # <<>> /\ <<>> \in Seq(X)
    OBVIOUS
  <2>2. QED
    BY <2>1, SplitEmpty
<1>2. ASSUME NEW s \in S, NEW x \in X PROVE Append(s, x) \in S
  <2>1. Append(s, x) \in Seq(X)
    OBVIOUS
  <2>2. QED
    BY <2>1, SplitAppend, GrowTyped
<1>3. S = Seq(X)
  <2>1. S \in SUBSET Seq(X)
    OBVIOUS
  <2> HIDE DEF S
  <2>2. QED
    BY <1>1, <1>2, <2>1, ListInduction
<1>4. QED
  BY <1>3

\* A text that is empty or ends with a newline has an empty line at its end.
LEMMA SplitAtLine ==
  ASSUME NEW X, NEW c \in Seq(X), c = <<>> \/ \E r \in Seq(X) : c = Append(r, "LF")
  PROVE  \E L \in Seq(Seq(X)) : SplitLines(c) = Append(L, <<>>)
<1>1. CASE c = <<>>
  <2>1. <<>> \in Seq(Seq(X)) /\ Append(<<>>, <<>>) = << <<>> >>
    OBVIOUS
  <2>2. QED
    BY <1>1, <2>1, SplitEmpty
<1>2. ASSUME NEW r \in Seq(X), c = Append(r, "LF")
      PROVE  \E L \in Seq(Seq(X)) : SplitLines(c) = Append(L, <<>>)
  <2>1. "LF" \in X
    <3>1. Len(r) \in Nat /\ Len(r) + 1 \in 1..Len(c) /\ c[Len(r) + 1] = "LF"
      BY <1>2
    <3>2. QED
      BY <3>1
  <2>2. SplitLines(c) = Append(SplitLines(r), <<>>)
    BY <1>2, <2>1, SplitAppend DEF Grow
  <2>3. QED
    BY <2>2, SplitTyped
<1>3. QED
  BY <1>1, <1>2

LEMMA ExtendBehind ==
  ASSUME NEW X, NEW p \in Seq(X), NEW q \in Seq(X), NEW x \in X
  PROVE  Extend(Join(p, q), x) = Join(p, Extend(q, x))
BY DEF Extend, Join

LEMMA ConcatEnds ==
  ASSUME NEW X, NEW L \in Seq(X), NEW M \in Seq(X), M # <<>>
  PROVE  Front(L \o M) = L \o Front(M) /\ Last(L \o M) = Last(M)
<1>1. PICK N \in Seq(X), x \in X : M = Append(N, x)
  BY SequenceEmptyOrAppend
<1>2. \A s \in Seq(X) : Front(Append(s, x)) = s /\ Last(Append(s, x)) = x
  <2>1. ASSUME NEW s \in Seq(X) PROVE Front(Append(s, x)) = s /\ Last(Append(s, x)) = x
    <3> DEFINE t == Append(s, x)
    <3>1. /\ t \in Seq(X) /\ Len(t) = Len(s) + 1 /\ Len(s) \in Nat
          /\ t[Len(s) + 1] = x /\ \A i \in 1..Len(s) : t[i] = s[i]
      OBVIOUS
    <3> HIDE DEF t
    <3>2. Len(t) - 1 = Len(s)
      BY <3>1
    <3>3. /\ SubSeq(t, 1, Len(s)) \in Seq(X) /\ Len(SubSeq(t, 1, Len(s))) = Len(s)
          /\ \A i \in 1..Len(s) : SubSeq(t, 1, Len(s))[i] = t[i]
      BY <3>1
    <3>4. SubSeq(t, 1, Len(s)) = s
      BY <3>1, <3>3, SeqEqual
    <3>5. QED
      BY <3>1, <3>2, <3>4 DEF Front, Last, t
  <2>2. QED
    BY <2>1
<1>3. L \o N \in Seq(X) /\ L \o Append(N, x) = Append(L \o N, x)
  OBVIOUS
<1>4. QED
  BY <1>1, <1>2, <1>3

LEMMA GrowBehind ==
  ASSUME NEW X, NEW L \in Seq(Seq(X)), NEW M \in Seq(Seq(X)), M # <<>>, NEW x \in X
  PROVE  Grow(L \o M, x) = L \o Grow(M, x)
<1>1. /\ Front(M) \in Seq(Seq(X)) /\ Last(M) \in Seq(X) /\ <<>> \in Seq(X)
      /\ Append(Last(M), x) \in Seq(X)
  BY DEF Front, Last
<1>2. \A q \in Seq(Seq(X)), y \in Seq(X) : Append(L \o q, y) = L \o Append(q, y)
  <2>1. \A q \in Seq(Seq(X)), y \in Seq(X) : Extend(Join(L, q), y) = Join(L, Extend(q, y))
    BY ExtendBehind
  <2>2. QED
    BY <2>1 DEF Extend, Join
<1>3. Front(L \o M) = L \o Front(M) /\ Last(L \o M) = Last(M)
  BY ConcatEnds
<1>4. CASE x = "LF"
  BY <1>1, <1>2, <1>4 DEF Grow
<1>5. CASE x # "LF"
  <2>1. Grow(L \o M, x) = Append(L \o Front(M), Append(Last(M), x))
    BY <1>3, <1>5 DEF Grow
  <2>2. QED
    BY <1>1, <1>2, <1>5, <2>1 DEF Grow
<1>6. QED
  BY <1>4, <1>5

\* What follows a newline makes lines of its own.
LEMMA SplitConcat ==
  ASSUME NEW X, NEW c \in Seq(X), NEW L \in Seq(Seq(X)), SplitLines(c) = Append(L, <<>>), NEW d \in Seq(X)
  PROVE  SplitLines(c \o d) = L \o SplitLines(d)
<1> DEFINE S == {t \in Seq(X) : SplitLines(c \o t) = L \o SplitLines(t)}
<1>1. <<>> \in S
  <2>1. c \o <<>> = c /\ <<>> \in Seq(X)
    OBVIOUS
  <2>2. Append(L, <<>>) = L \o << <<>> >>
    <3>1. <<>> \in Seq(X)
      OBVIOUS
    <3>2. QED
      BY <3>1, Appended
  <2>3. QED
    BY <2>1, <2>2, SplitEmpty
<1>2. ASSUME NEW t \in S, NEW x \in X PROVE Append(t, x) \in S
  <2>1. Append(t, x) \in Seq(X) /\ c \o t \in Seq(X) /\ c \o Append(t, x) = Append(c \o t, x)
    OBVIOUS
  <2>2. SplitLines(Append(t, x)) = Grow(SplitLines(t), x)
    BY SplitAppend
  <2>3. SplitLines(Append(c \o t, x)) = Grow(L \o SplitLines(t), x)
    BY <2>1, SplitAppend
  <2>4. Grow(L \o SplitLines(t), x) = L \o Grow(SplitLines(t), x)
    <3>1. SplitLines(t) \in Seq(Seq(X)) /\ SplitLines(t) # <<>>
      BY SplitTyped
    <3>2. QED
      BY <3>1, GrowBehind
  <2>5. QED
    BY <2>1, <2>2, <2>3, <2>4
<1>3. S = Seq(X)
  <2>1. S \in SUBSET Seq(X)
    OBVIOUS
  <2> HIDE DEF S
  <2>2. QED
    BY <1>1, <1>2, <2>1, ListInduction
<1>4. QED
  BY <1>3

\* A text without a newline is one line.
LEMMA SplitLine ==
  ASSUME NEW X, NEW d \in Seq(X), \A i \in 1..Len(d) : d[i] # "LF"
  PROVE  SplitLines(d) = <<d>>
<1> DEFINE S == {t \in Seq(X) : (\A i \in 1..Len(t) : t[i] # "LF") => SplitLines(t) = <<t>>}
<1>1. <<>> \in S
  <2>1. <<>> \in Seq(X)
    OBVIOUS
  <2>2. QED
    BY <2>1, SplitEmpty
<1>2. ASSUME NEW t \in S, NEW x \in X PROVE Append(t, x) \in S
  <2>1. Append(t, x) \in Seq(X)
    OBVIOUS
  <2>2. SUFFICES ASSUME \A i \in 1..Len(Append(t, x)) : Append(t, x)[i] # "LF"
                 PROVE  SplitLines(Append(t, x)) = <<Append(t, x)>>
    BY <2>1
  <2>3. /\ Len(Append(t, x)) = Len(t) + 1 /\ Len(t) \in Nat /\ Append(t, x)[Len(t) + 1] = x
        /\ \A i \in 1..Len(t) : Append(t, x)[i] = t[i]
    OBVIOUS
  <2>4. x # "LF" /\ \A i \in 1..Len(t) : t[i] # "LF"
    BY <2>2, <2>3
  <2>5. SplitLines(t) = <<t>>
    BY <2>4
  <2>6. Front(<<t>>) = <<>> /\ Last(<<t>>) = t
    BY DEF Front, Last
  <2>7. Grow(<<t>>, x) = Append(<<>>, Append(t, x))
    BY <2>4, <2>6 DEF Grow
  <2>8. \A y : Append(<<>>, y) = <<y>>
    OBVIOUS
  <2>9. QED
    BY <2>5, <2>7, <2>8, SplitAppend
<1>3. S = Seq(X)
  <2>1. S \in SUBSET Seq(X)
    OBVIOUS
  <2> HIDE DEF S
  <2>2. QED
    BY <1>1, <1>2, <2>1, ListInduction
<1>4. QED
  BY <1>3

LEMMA SplitLineEnded ==
  ASSUME NEW X, NEW d \in Seq(X), \A i \in 1..Len(d) : d[i] # "LF", "LF" \in X
  PROVE  SplitLines(Append(d, "LF")) = <<d, <<>> >>
<1>1. SplitLines(d) = <<d>>
  BY SplitLine
<1>2. SplitLines(Append(d, "LF")) = Append(<<d>>, <<>>)
  BY <1>1, SplitAppend DEF Grow
<1>3. QED
  BY <1>2
-----------------------------------------------------------------------------
(* The commands of a text                                                  *)

\* The defining equation of the function FlattenSeq is made of.
Flattening(f, ss) == f = [i \in 1..Len(ss) |-> IF i = 1 THEN ss[i] ELSE f[i - 1] \o ss[i]]

LEMMA FlatteningExists ==
  ASSUME NEW X, NEW ss \in Seq(X)
  PROVE  \E f : Flattening(f, ss)
<1> DEFINE Upto(f, n) == f = [i \in 1..n |-> IF i = 1 THEN ss[i] ELSE f[i - 1] \o ss[i]]
           Done == {n \in Nat : \E f : Upto(f, n)}
<1>1. 0 \in Done
  <2>1. 1..0 = {}
    OBVIOUS
  <2>2. Upto(<<>>, 0)
    BY <2>1
  <2>3. QED
    BY <2>2
<1>2. ASSUME NEW n \in Done PROVE n + 1 \in Done
  <2>1. PICK f : Upto(f, n)
    OBVIOUS
  <2> DEFINE last == IF n = 0 THEN ss[1] ELSE f[n] \o ss[n + 1]
             g == [i \in 1..(n + 1) |-> IF i = n + 1 THEN last ELSE f[i]]
  <2>2. \A i \in 1..n : f[i] = IF i = 1 THEN ss[i] ELSE f[i - 1] \o ss[i]
    BY <2>1
  <2>3. \A i \in 1..(n + 1) : g[i] = IF i = 1 THEN ss[i] ELSE g[i - 1] \o ss[i]
    <3> SUFFICES ASSUME NEW i \in 1..(n + 1)
                 PROVE  g[i] = IF i = 1 THEN ss[i] ELSE g[i - 1] \o ss[i]
      OBVIOUS
    <3>1. CASE i = n + 1
      BY <3>1
    <3>2. CASE i # n + 1
      BY <2>2, <3>2
    <3>3. QED
      BY <3>1, <3>2
  <2>4. Upto(g, n + 1)
    BY <2>3
  <2> HIDE DEF g, Upto
  <2>5. QED
    BY <2>4
<1>3. Done = Nat
  <2> HIDE DEF Done
  <2>1. Done \in SUBSET Nat
    BY DEF Done
  <2>2. QED
    BY <1>1, <1>2, <2>1, Induction
<1>4. \E f : Upto(f, Len(ss))
  <2>1. Len(ss) \in Nat
    OBVIOUS
  <2>2. Len(ss) \in Done
    BY <1>3, <2>1
  <2> HIDE DEF Upto
  <2>3. QED
    BY <2>2, Zenon
<1>5. QED
  BY <1>4 DEF Flattening

LEMMA FlattenRule ==
  ASSUME NEW X, NEW ss \in Seq(Seq(X)), Len(ss) # 0
  PROVE  \E f : /\ FlattenSeq(ss) = f[Len(ss)] /\ f[1] = ss[1]
                /\ \A i \in 2..Len(ss) : f[i] = Join(f[i - 1], ss[i])
<1> DEFINE f == CHOOSE f : Flattening(f, ss)
<1>1. Flattening(f, ss)
  BY FlatteningExists
<1>2. FlattenSeq(ss) = f[Len(ss)]
  BY DEF FlattenSeq, Flattening
<1> HIDE DEF f
<1>3. Len(ss) \in Nat /\ 1 \in 1..Len(ss)
  OBVIOUS
<1>4. f[1] = ss[1]
  BY <1>1, <1>3 DEF Flattening
<1>5. ASSUME NEW i \in 2..Len(ss) PROVE f[i] = Join(f[i - 1], ss[i])
  <2>1. i \in 1..Len(ss) /\ i # 1
    BY <1>3
  <2>2. QED
    BY <1>1, <2>1 DEF Flattening, Join
<1>6. QED
  BY <1>2, <1>4, <1>5

LEMMA FlattenAppend ==
  ASSUME NEW X, NEW ss \in Seq(Seq(X)), NEW s \in Seq(X)
  PROVE  FlattenSeq(Append(ss, s)) = IF Len(ss) = 0 THEN s ELSE Join(FlattenSeq(ss), s)
<1> DEFINE n == Len(ss)
           tt == Append(ss, s)
<1>1. /\ tt \in Seq(Seq(X)) /\ Len(tt) = n + 1 /\ n \in Nat
      /\ \A i \in 1..n : tt[i] = ss[i]
      /\ tt[n + 1] = s
  OBVIOUS
<1> HIDE DEF tt
<1>2. PICK g : /\ FlattenSeq(tt) = g[n + 1] /\ g[1] = tt[1]
               /\ \A i \in 2..(n + 1) : g[i] = Join(g[i - 1], tt[i])
  <2>1. Len(tt) # 0
    BY <1>1
  <2>2. \E g : /\ FlattenSeq(tt) = g[Len(tt)] /\ g[1] = tt[1]
               /\ \A i \in 2..Len(tt) : g[i] = Join(g[i - 1], tt[i])
    BY <1>1, <2>1, FlattenRule
  <2>3. QED
    BY <1>1, <2>2
<1>3. CASE n = 0
  BY <1>1, <1>2, <1>3 DEF tt
<1>4. CASE n # 0
  <2>1. PICK f : /\ FlattenSeq(ss) = f[n] /\ f[1] = ss[1]
                 /\ \A i \in 2..n : f[i] = Join(f[i - 1], ss[i])
    BY <1>4, FlattenRule
  <2> DEFINE Same == {i \in Nat : i + 1 <= n => f[i + 1] = g[i + 1]}
  <2>2. Same = Nat
    <3>1. 0 \in Same /\ Same \in SUBSET Nat
      BY <1>1, <1>2, <1>4, <2>1
    <3>2. ASSUME NEW i \in Same PROVE i + 1 \in Same
      <4> SUFFICES ASSUME (i + 1) + 1 <= n PROVE f[(i + 1) + 1] = g[(i + 1) + 1]
        OBVIOUS
      <4> DEFINE j == (i + 1) + 1
      <4>1. i \in Nat /\ j \in 2..n /\ j \in 2..(n + 1) /\ j \in 1..n /\ j - 1 = i + 1
            /\ f[i + 1] = g[i + 1]
        BY <1>1
      <4> HIDE DEF j
      <4>2. f[j] = Join(f[j - 1], ss[j]) /\ g[j] = Join(g[j - 1], tt[j])
        BY <1>2, <2>1, <4>1
      <4>3. f[j] = g[j]
        BY <1>1, <4>1, <4>2
      <4>4. QED
        BY <4>3 DEF j
    <3> HIDE DEF Same
    <3>3. QED
      BY <3>1, <3>2, Induction
  <2>3. f[n] = g[n]
    <3>1. n - 1 \in Nat /\ (n - 1) + 1 = n
      BY <1>1, <1>4
    <3>2. n - 1 \in Same
      BY <2>2, <3>1
    <3>3. QED
      BY <3>1, <3>2
  <2>4. g[n + 1] = Join(g[n], s)
    <3>1. n + 1 \in 2..(n + 1) /\ (n + 1) - 1 = n
      BY <1>1, <1>4
    <3>2. QED
      BY <1>1, <1>2, <3>1
  <2>5. QED
    BY <1>2, <1>4, <2>1, <2>3, <2>4 DEF tt
<1>5. QED
  BY <1>3, <1>4

\* Whether a line is a command, and which.
Keep(l) == IF Ignored(Trim(l)) THEN <<>> ELSE <<Trim(l)>>

Kept(ls) == [i \in DOMAIN ls |-> Keep(ls[i])]

LEMMA KeepTyped ==
  ASSUME NEW X, NEW l \in Seq(X)
  PROVE  Keep(l) \in Seq(Seq(X))
<1>1. Trim(l) \in Seq(X)
  BY TrimTyped
<1>2. QED
  BY <1>1 DEF Keep

LEMMA CommandsKept == \A ls : Commands(ls) = FlattenSeq(Kept(ls))
BY DEF Commands, Kept, Keep

LEMMA CommandsEmpty == Commands(<<>>) = <<>>
<1>1. Kept(<<>>) = <<>>
  BY DEF Kept
<1>2. FlattenSeq(<<>>) = <<>>
  BY DEF FlattenSeq
<1>3. QED
  BY <1>1, <1>2, CommandsKept

LEMMA KeptTyped ==
  ASSUME NEW X, NEW ls \in Seq(Seq(X))
  PROVE  Kept(ls) \in Seq(Seq(Seq(X))) /\ Len(Kept(ls)) = Len(ls)
<1>1. \A i \in DOMAIN ls : Keep(ls[i]) \in Seq(Seq(X))
  BY KeepTyped
<1>2. DOMAIN ls = 1..Len(ls) /\ Len(ls) \in Nat
  OBVIOUS
<1>3. QED
  BY <1>1, <1>2 DEF Kept

\* The commands of a text with a further line.
LEMMA CommandsAppend ==
  ASSUME NEW X, NEW ls \in Seq(Seq(X)), NEW l \in Seq(X), Commands(ls) \in Seq(Seq(X))
  PROVE  Commands(Append(ls, l)) = Join(Commands(ls), Keep(l))
<1>1. Kept(Append(ls, l)) = Append(Kept(ls), Keep(l))
  <2> DEFINE m == Append(ls, l)
             k == Append(Kept(ls), Keep(l))
             n == Len(ls)
  <2>1. /\ m \in Seq(Seq(X)) /\ Len(m) = n + 1 /\ n \in Nat /\ m[n + 1] = l
        /\ \A i \in 1..n : m[i] = ls[i]
    OBVIOUS
  <2>2. Kept(ls) \in Seq(Seq(Seq(X))) /\ Len(Kept(ls)) = n /\ Keep(l) \in Seq(Seq(X))
    BY KeptTyped, KeepTyped
  <2>3. /\ k \in Seq(Seq(Seq(X))) /\ Len(k) = n + 1 /\ k[n + 1] = Keep(l)
        /\ \A i \in 1..n : k[i] = Kept(ls)[i]
    <3>1. \A p \in Seq(Seq(Seq(X))), q \in Seq(Seq(X)) :
            /\ Append(p, q) \in Seq(Seq(Seq(X))) /\ Len(Append(p, q)) = Len(p) + 1
            /\ Append(p, q)[Len(p) + 1] = q
            /\ \A i \in 1..Len(p) : Append(p, q)[i] = p[i]
      OBVIOUS
    <3>2. QED
      BY <2>2, <3>1
  <2>4. \A i \in 1..n : Kept(ls)[i] = Keep(ls[i])
    BY DEF Kept
  <2> HIDE DEF m, k
  <2>5. Kept(m) \in Seq(Seq(Seq(X))) /\ Len(Kept(m)) = n + 1
    BY <2>1, KeptTyped
  <2>6. \A i \in 1..(n + 1) : Kept(m)[i] = Keep(m[i])
    BY <2>1 DEF Kept
  <2>7. ASSUME NEW i \in 1..(n + 1) PROVE Kept(m)[i] = k[i]
    <3>1. CASE i = n + 1
      BY <2>1, <2>3, <2>6, <3>1
    <3>2. CASE i # n + 1
      <4>1. i \in 1..n
        BY <2>1, <3>2
      <4>2. m[i] = ls[i] /\ k[i] = Kept(ls)[i] /\ Kept(ls)[i] = Keep(ls[i])
        BY <2>1, <2>3, <2>4, <4>1
      <4>3. QED
        BY <2>6, <4>2
    <3>3. QED
      BY <3>1, <3>2
  <2>8. Kept(m) = k
    BY <2>3, <2>5, <2>7, SeqEqual
  <2>9. QED
    BY <2>8 DEF m, k
<1>2. Kept(ls) \in Seq(Seq(Seq(X))) /\ Len(Kept(ls)) = Len(ls) /\ Keep(l) \in Seq(Seq(X))
  BY KeptTyped, KeepTyped
<1>3. FlattenSeq(Append(Kept(ls), Keep(l))) =
        IF Len(ls) = 0 THEN Keep(l) ELSE Join(FlattenSeq(Kept(ls)), Keep(l))
  BY <1>2, FlattenAppend
<1>4. Len(ls) = 0 => ls = <<>> /\ Commands(ls) = <<>>
  BY CommandsEmpty
<1>5. Join(<<>>, Keep(l)) = Keep(l)
  BY <1>2 DEF Join
<1>6. QED
  BY <1>1, <1>3, <1>4, <1>5, CommandsKept

\* Commands made one after the other are the commands of the text so far.
LEMMA CommandsTyped ==
  ASSUME NEW X, NEW ls \in Seq(Seq(X))
  PROVE  Commands(ls) \in Seq(Seq(X))
<1> DEFINE S == {m \in Seq(Seq(X)) : Commands(m) \in Seq(Seq(X))}
<1>1. <<>> \in S
  <2>1. <<>> \in Seq(Seq(X))
    OBVIOUS
  <2>2. QED
    BY <2>1, CommandsEmpty
<1>2. ASSUME NEW m \in S, NEW l \in Seq(X) PROVE Append(m, l) \in S
  <2>1. Append(m, l) \in Seq(Seq(X))
    OBVIOUS
  <2>2. Commands(Append(m, l)) = Join(Commands(m), Keep(l))
    BY CommandsAppend
  <2>3. Join(Commands(m), Keep(l)) \in Seq(Seq(X))
    BY KeepTyped, JoinJoin
  <2>4. QED
    BY <2>1, <2>2, <2>3
<1>3. S = Seq(Seq(X))
  <2>1. S \in SUBSET Seq(Seq(X))
    OBVIOUS
  <2> HIDE DEF S
  <2>2. QED
    BY <1>1, <1>2, <2>1, ListInduction
<1>4. QED
  BY <1>3

LEMMA CommandsJoin ==
  ASSUME NEW X, NEW p \in Seq(Seq(X)), NEW q \in Seq(Seq(X))
  PROVE  Commands(p \o q) = Commands(p) \o Commands(q)
<1> DEFINE S == {m \in Seq(Seq(X)) : Commands(Join(p, m)) = Join(Commands(p), Commands(m))}
<1>0. Commands(p) \in Seq(Seq(X))
  BY CommandsTyped
<1>1. <<>> \in S
  <2>1. <<>> \in Seq(Seq(X)) /\ Join(p, <<>>) = p
    BY DEF Join
  <2>2. Join(Commands(p), <<>>) = Commands(p)
    BY <1>0 DEF Join
  <2>3. QED
    BY <2>1, <2>2, CommandsEmpty
<1>2. ASSUME NEW m \in S, NEW l \in Seq(X) PROVE Extend(m, l) \in S
  <2>1. Extend(m, l) \in Seq(Seq(X)) /\ Join(p, m) \in Seq(Seq(X))
    BY DEF Extend, Join
  <2>2. Commands(Extend(m, l)) = Join(Commands(m), Keep(l))
    BY CommandsAppend, CommandsTyped DEF Extend
  <2>3. Commands(Extend(Join(p, m), l)) = Join(Commands(Join(p, m)), Keep(l))
    BY <2>1, CommandsAppend, CommandsTyped DEF Extend
  <2>4. Extend(Join(p, m), l) = Join(p, Extend(m, l))
    BY ExtendBehind
  <2>5. Commands(Join(p, m)) = Join(Commands(p), Commands(m))
    OBVIOUS
  <2>6. Commands(m) \in Seq(Seq(X)) /\ Keep(l) \in Seq(Seq(X))
    BY CommandsTyped, KeepTyped
  <2>7. Join(Join(Commands(p), Commands(m)), Keep(l)) = Join(Commands(p), Join(Commands(m), Keep(l)))
    BY <1>0, <2>6, JoinJoin
  <2>8. QED
    BY <2>1, <2>2, <2>3, <2>4, <2>5, <2>7
<1>3. S = Seq(Seq(X))
  <2>1. S \in SUBSET Seq(Seq(X)) /\ \A m \in S, l \in Seq(X) : Append(m, l) \in S
    BY <1>2 DEF Extend
  <2> HIDE DEF S
  <2>2. QED
    BY <1>1, <2>1, ListInduction
<1>4. QED
  BY <1>3 DEF Join
-----------------------------------------------------------------------------
(* Lines and commands together                                             *)

\* Nothing, or lines ended with their newlines.
Whole(X, c) == c = <<>> \/ \E r \in Seq(X) : c = Append(r, "LF")

\* An empty line is no command.
LEMMA BlankKept == Keep(<<>>) = <<>>
<1>1. DOMAIN <<>> = {}
  OBVIOUS
<1>2. Trim(<<>>) = <<>>
  BY <1>1 DEF Trim
<1>3. QED
  BY <1>2 DEF Keep, Ignored

\* What comes behind whole lines adds commands of its own.
LEMMA CommandsBehind ==
  ASSUME NEW X, NEW c \in Seq(X), Whole(X, c), NEW d \in Seq(X)
  PROVE  Commands(SplitLines(Join(c, d))) = Join(Commands(SplitLines(c)), Commands(SplitLines(d)))
<1>1. PICK L \in Seq(Seq(X)) : SplitLines(c) = Append(L, <<>>)
  BY SplitAtLine DEF Whole
<1>2. Commands(L) \in Seq(Seq(X)) /\ SplitLines(d) \in Seq(Seq(X)) /\ <<>> \in Seq(X)
  BY CommandsTyped, SplitTyped
<1>3. Commands(SplitLines(c)) = Commands(L)
  <2>1. Commands(SplitLines(c)) = Join(Commands(L), Keep(<<>>))
    BY <1>1, <1>2, CommandsAppend
  <2>2. Join(Commands(L), <<>>) = Commands(L)
    BY <1>2 DEF Join
  <2>3. QED
    BY <2>1, <2>2, BlankKept
<1>4. SplitLines(Join(c, d)) = L \o SplitLines(d)
  BY <1>1, SplitConcat DEF Join
<1>5. Commands(L \o SplitLines(d)) = Commands(L) \o Commands(SplitLines(d))
  BY <1>2, CommandsJoin
<1>6. QED
  BY <1>3, <1>4, <1>5 DEF Join

\* A line, ended or not, is one command at most.
LEMMA CommandsLine ==
  ASSUME NEW X, NEW d \in Seq(X), \A i \in 1..Len(d) : d[i] # "LF"
  PROVE  /\ Commands(SplitLines(d)) = Keep(d)
         /\ "LF" \in X => Commands(SplitLines(Append(d, "LF"))) = Keep(d)
<1>1. <<>> \in Seq(Seq(X)) /\ <<>> \in Seq(X) /\ Append(<<>>, d) = <<d>> /\ <<d>> \in Seq(Seq(X))
  OBVIOUS
<1>2. Keep(d) \in Seq(Seq(X))
  BY KeepTyped
<1>3. Commands(<<d>>) = Keep(d)
  <2>1. Commands(Append(<<>>, d)) = Join(Commands(<<>>), Keep(d))
    BY <1>1, CommandsEmpty, CommandsAppend
  <2>2. Join(<<>>, Keep(d)) = Keep(d)
    BY <1>2 DEF Join
  <2>3. QED
    BY <1>1, <2>1, <2>2, CommandsEmpty
<1>4. SplitLines(d) = <<d>>
  BY SplitLine
<1>5. ASSUME "LF" \in X PROVE Commands(SplitLines(Append(d, "LF"))) = Keep(d)
  <2>1. SplitLines(Append(d, "LF")) = <<d, <<>> >>
    BY <1>5, SplitLineEnded
  <2>2. <<d, <<>> >> = Append(<<d>>, <<>>)
    OBVIOUS
  <2>3. Commands(Append(<<d>>, <<>>)) = Join(Commands(<<d>>), Keep(<<>>))
    BY <1>1, <1>2, <1>3, CommandsAppend
  <2>4. Join(Keep(d), <<>>) = Keep(d)
    BY <1>2 DEF Join
  <2>5. QED
    BY <1>3, <2>1, <2>2, <2>3, <2>4, BlankKept
<1>6. QED
  BY <1>3, <1>4, <1>5
-----------------------------------------------------------------------------
(* What the scanner has run                                                *)

Texts(r) == [i \in DOMAIN r |-> r[i].text]

LEMMA TextsTyped ==
  ASSUME NEW r \in Seq(Ran)
  PROVE  /\ Texts(r) \in Seq(Lines) /\ Len(Texts(r)) = Len(r)
         /\ \A i \in 1..Len(r) : Texts(r)[i] = r[i].text
<1>1. ASSUME NEW i \in 1..Len(r) PROVE r[i].text \in Lines
  <2>1. r[i] \in Ran
    OBVIOUS
  <2>2. QED
    BY <2>1 DEF Ran
<1>2. DOMAIN r = 1..Len(r) /\ Len(r) \in Nat
  OBVIOUS
<1>3. Texts(r) = [i \in 1..Len(r) |-> r[i].text]
  BY <1>2 DEF Texts
<1>4. \A i \in 1..Len(r) : Texts(r)[i] = r[i].text
  BY <1>3
<1>5. Texts(r) \in Seq(Lines) /\ Len(Texts(r)) = Len(r)
  BY <1>1, <1>2, <1>3
<1>6. QED
  BY <1>4, <1>5

LEMMA TextsAppend ==
  ASSUME NEW r \in Seq(Ran), NEW x \in Ran
  PROVE  Texts(Append(r, x)) = Join(Texts(r), <<x.text>>)
<1> DEFINE n == Len(r)
           s == Append(r, x)
           t == Append(Texts(r), x.text)
<1>1. /\ s \in Seq(Ran) /\ Len(s) = n + 1 /\ n \in Nat /\ s[n + 1] = x
      /\ \A i \in 1..n : s[i] = r[i]
  OBVIOUS
<1>2. Texts(r) \in Seq(Lines) /\ Len(Texts(r)) = n /\ \A i \in 1..n : Texts(r)[i] = r[i].text
  BY TextsTyped
<1>3. x.text \in Lines
  BY DEF Ran
<1>4. /\ t \in Seq(Lines) /\ Len(t) = n + 1 /\ t[n + 1] = x.text
      /\ \A i \in 1..n : t[i] = Texts(r)[i]
  <2>1. \A p \in Seq(Lines), q \in Lines :
          /\ Append(p, q) \in Seq(Lines) /\ Len(Append(p, q)) = Len(p) + 1
          /\ Append(p, q)[Len(p) + 1] = q
          /\ \A i \in 1..Len(p) : Append(p, q)[i] = p[i]
    OBVIOUS
  <2>2. QED
    BY <1>2, <1>3, <2>1
<1> HIDE DEF s, t
<1>5. /\ Texts(s) \in Seq(Lines) /\ Len(Texts(s)) = n + 1
      /\ \A i \in 1..(n + 1) : Texts(s)[i] = s[i].text
  BY <1>1, TextsTyped
<1>6. ASSUME NEW i \in 1..(n + 1) PROVE Texts(s)[i] = t[i]
  <2>1. CASE i = n + 1
    BY <1>1, <1>4, <1>5, <2>1
  <2>2. CASE i # n + 1
    <3>1. i \in 1..n
      BY <1>1, <2>2
    <3>2. QED
      BY <1>1, <1>2, <1>4, <1>5, <3>1
  <2>3. QED
    BY <2>1, <2>2
<1>7. Texts(s) = t
  BY <1>4, <1>5, <1>6, SeqEqual
<1>8. t = Join(Texts(r), <<x.text>>)
  <2>1. \A p \in Seq(Lines), q \in Lines : Append(p, q) = p \o <<q>>
    OBVIOUS
  <2>2. QED
    BY <1>2, <1>3, <2>1 DEF Join, t
<1>9. QED
  BY <1>7, <1>8 DEF s

\* No command has asked yet, and nothing is typed at an editor.
Undisturbed == ~raw /\ \A i \in DOMAIN ran : ran[i].text \notin Asking

\* All that arrived is what was scanned, what the scanner holds and what waits; the
\* commands so far are those of what was scanned, which ends with a line or is all there is.
Scanned(c) ==
  /\ typed = Join(c, Join(buf, stdin))
  /\ Texts(ran) = Commands(SplitLines(c))
  /\ Whole(Bytes \cup Letters, c) \/ (closed /\ buf = <<>> /\ stdin = <<>>)

Behind == Undisturbed => pc # "asking" /\ \E c \in Lines : Scanned(c)

\* A command of the scanner adds to the commands, and an asking one ends the guarantee.
LEMMA ExecuteKeeps ==
  ASSUME Typed, NEW l \in Lines, Execute(l), pc = "reading", raw' = raw
  PROVE  /\ Undisturbed' => Undisturbed /\ pc' # "asking"
         /\ Texts(ran') = Join(Texts(ran), Keep(l))
<1> DEFINE x == [as |-> "command", text |-> Trim(l)]
<1>1. ran \in Seq(Ran) /\ Trim(l) \in Lines /\ x \in Ran /\ x.text = Trim(l)
  <2>1. Trim(l) \in Lines
    BY TrimTyped DEF Lines
  <2>2. QED
    BY <2>1 DEF Typed, TypeOK, Ran
<1> HIDE DEF x
<1>2. CASE Ignored(Trim(l))
  <2>1. pc' = pc /\ ran' = ran /\ Keep(l) = <<>>
    BY <1>2 DEF Execute, Keep
  <2>2. Join(Texts(ran), <<>>) = Texts(ran)
    BY <1>1, TextsTyped DEF Join
  <2>3. QED
    BY <2>1, <2>2 DEF Undisturbed
<1>3. CASE ~Ignored(Trim(l))
  <2>1. pc' = AfterCommand(Trim(l)) /\ ran' = Append(ran, x) /\ Keep(l) = <<Trim(l)>>
    BY <1>3 DEF Execute, Keep, x
  <2>2. Texts(ran') = Join(Texts(ran), Keep(l))
    BY <1>1, <2>1, TextsAppend
  <2>3. /\ Len(ran) \in Nat /\ DOMAIN ran = 1..Len(ran) /\ DOMAIN ran' = 1..(Len(ran) + 1)
        /\ ran'[Len(ran) + 1] = x /\ \A i \in 1..Len(ran) : ran'[i] = ran[i]
    BY <1>1, <2>1
  <2>4. ASSUME Undisturbed' PROVE Undisturbed /\ pc' # "asking"
    <3>1. x.text \notin Asking
      BY <2>3, <2>4 DEF Undisturbed
    <3>2. \A i \in 1..Len(ran) : ran[i].text \notin Asking
      BY <2>3, <2>4 DEF Undisturbed
    <3>3. ~raw
      BY <2>4 DEF Undisturbed
    <3>4. QED
      BY <1>1, <2>1, <2>3, <3>1, <3>2, <3>3 DEF Undisturbed, AfterCommand
  <2>5. QED
    BY <2>2, <2>4
<1>4. QED
  BY <1>2, <1>3

\* The scanner takes the first line of its buffer.
LEMMA LineBehind ==
  ASSUME Typed, Behind, ScanLine
  PROVE  Behind'
<1> SUFFICES ASSUME Undisturbed' PROVE (pc # "asking")' /\ \E c \in Lines : Scanned(c)'
  BY DEF Behind
<1> DEFINE X == Bytes \cup Letters
           l == FirstLine(buf)
<1>1. /\ pc = "reading" /\ raw' = raw /\ buf' = AfterLine(buf) /\ Execute(l)
      /\ HasLine(buf) \/ (AtEnd /\ buf # <<>>)
      /\ stdin' = stdin /\ closed' = closed /\ typed' = typed
  BY DEF ScanLine
<1>2. buf \in Seq(X) /\ stdin \in Seq(X) /\ Lines = Seq(X) /\ ran \in Seq(Ran)
  BY DEF Typed, TypeOK, Lines, Ran
<1>3. /\ l \in Seq(X) /\ AfterLine(buf) \in Seq(X) /\ \A i \in 1..Len(l) : l[i] # "LF"
      /\ HasLine(buf) => "LF" \in X /\ buf = Append(l, "LF") \o AfterLine(buf)
      /\ ~HasLine(buf) => l = buf /\ AfterLine(buf) = <<>>
  BY <1>2, LineSplit
<1> HIDE DEF X, l
<1>4. Undisturbed /\ pc' # "asking" /\ Texts(ran') = Join(Texts(ran), Keep(l))
  BY <1>1, <1>2, <1>3, ExecuteKeeps
<1>5. PICK c \in Seq(X) : Scanned(c)
  BY <1>2, <1>4 DEF Behind
<1>6. ~(buf = <<>>)
  <2>1. CASE HasLine(buf)
    <3>1. DOMAIN <<>> = {} /\ Len(<<>>) = 0
      OBVIOUS
    <3>2. QED
      BY <2>1, <3>1 DEF HasLine, Contains
  <2>2. QED
    BY <1>1, <2>1
<1>7. /\ typed = Join(c, Join(buf, stdin)) /\ Texts(ran) = Commands(SplitLines(c)) /\ Whole(X, c)
  BY <1>5, <1>6 DEF Scanned, X
<1>8. \A d \in Seq(X) : Commands(SplitLines(d)) = Keep(l) =>
        Texts(ran') = Commands(SplitLines(Join(c, d)))
  BY <1>4, <1>5, <1>7, CommandsBehind
<1>9. CASE HasLine(buf)
  <2> DEFINE d == Extend(l, "LF")
             r == AfterLine(buf)
  <2>1. d \in Seq(X) /\ r \in Seq(X) /\ buf = Join(d, r) /\ "LF" \in X
    BY <1>3, <1>9 DEF Extend, Join
  <2>2. Commands(SplitLines(d)) = Keep(l)
    BY <1>3, <2>1, CommandsLine DEF Extend
  <2>3. Join(c, d) \in Seq(X) /\ Whole(X, Join(c, d))
    <3>1. Extend(Join(c, l), "LF") = Join(c, d) /\ Join(c, l) \in Seq(X) /\ Join(c, d) \in Seq(X)
      BY <1>3, <1>5, <2>1, ExtendBehind, JoinJoin
    <3>2. Join(c, d) = Append(Join(c, l), "LF")
      BY <3>1 DEF Extend
    <3>3. QED
      BY <3>1, <3>2 DEF Whole
  <2> HIDE DEF d, r
  <2>4. Join(c, Join(Join(d, r), stdin)) = Join(Join(c, d), Join(r, stdin))
    <3>1. Join(Join(d, r), stdin) = Join(d, Join(r, stdin)) /\ Join(r, stdin) \in Seq(X)
      BY <1>2, <2>1, JoinJoin
    <3>2. Join(Join(c, d), Join(r, stdin)) = Join(c, Join(d, Join(r, stdin)))
      BY <1>5, <2>1, <3>1, JoinJoin
    <3>3. QED
      BY <3>1, <3>2
  <2>5. typed' = Join(Join(c, d), Join(buf', stdin'))
    BY <1>1, <1>7, <2>1, <2>4 DEF r
  <2>6. Texts(ran') = Commands(SplitLines(Join(c, d)))
    BY <1>8, <2>1, <2>2
  <2>7. PICK e \in Seq(X) : e = Join(c, d)
    BY <2>3
  <2>8. Scanned(e)'
    BY <2>3, <2>5, <2>6, <2>7 DEF Scanned, X
  <2>9. QED
    BY <1>2, <1>4, <2>8
<1>10. CASE ~HasLine(buf)
  <2>1. l = buf /\ buf' = <<>> /\ stdin = <<>> /\ closed
    BY <1>1, <1>3, <1>10 DEF AtEnd
  <2>2. Commands(SplitLines(buf)) = Keep(l)
    BY <1>3, <2>1, CommandsLine
  <2>3. Texts(ran') = Commands(SplitLines(Join(c, buf)))
    BY <1>2, <1>8, <2>2
  <2>4. /\ \A s \in Seq(X) : Join(s, <<>>) = s
        /\ Join(c, buf) \in Seq(X) /\ <<>> \in Seq(X)
    BY <1>2, <1>5 DEF Join
  <2>5. typed' = Join(Join(c, buf), Join(buf', stdin'))
    BY <1>1, <1>2, <1>7, <2>1, <2>4
  <2>6. PICK e \in Seq(X) : e = Join(c, buf)
    BY <2>4
  <2>7. Scanned(e)'
    BY <1>1, <2>1, <2>3, <2>5, <2>6 DEF Scanned
  <2>8. QED
    BY <1>2, <1>4, <2>7
<1>11. QED
  BY <1>9, <1>10

LEMMA BehindStep ==
  ASSUME Typed, Behind, [Next]_vars
  PROVE  Behind'
<1> DEFINE X == Bytes \cup Letters
<1>1. buf \in Seq(X) /\ stdin \in Seq(X) /\ Lines = Seq(X) /\ typed \in Seq(X) /\ ran \in Seq(Ran)
  BY DEF Typed, TypeOK, Lines, Ran
<1> HIDE DEF X
<1>2. CASE FillEditor \/ HangUp \/ EditKey
  BY <1>2 DEF FillEditor, HangUp, EditKey, Behind, Undisturbed
<1>3. CASE FillPrompt \/ Answer
  <2>1. pc = "asking" /\ raw' = raw
    BY <1>3 DEF FillPrompt, Answer
  <2>2. ~Undisturbed
    BY <2>1 DEF Behind
  <2>3. CASE FillPrompt
    BY <2>2, <2>3 DEF FillPrompt, Behind, Undisturbed
  <2>4. CASE Answer
    <3>1. PICK x : ran' = Append(ran, x)
      BY <2>4 DEF Answer
    <3>2. \A i \in DOMAIN ran : i \in DOMAIN ran' /\ ran'[i] = ran[i]
      <4>1. \A i \in 1..Len(ran) : i \in 1..(Len(ran) + 1) /\ Append(ran, x)[i] = ran[i]
        BY <1>1
      <4>2. DOMAIN ran = 1..Len(ran) /\ DOMAIN Append(ran, x) = 1..(Len(ran) + 1)
        BY <1>1
      <4>3. QED
        BY <3>1, <4>1, <4>2
    <3>3. ~Undisturbed'
      BY <2>1, <2>2, <3>2 DEF Undisturbed
    <3>4. QED
      BY <3>3 DEF Behind
  <2>5. QED
    BY <1>3, <2>3, <2>4
<1>4. CASE ScanLine
  BY <1>4, LineBehind
<1>5. CASE FillScanner
  <2> SUFFICES ASSUME Undisturbed' PROVE (pc # "asking")' /\ \E c \in Lines : Scanned(c)'
    BY DEF Behind
  <2>1. PICK n \in 1..Len(stdin) : /\ buf' = buf \o SubSeq(stdin, 1, n)
                                   /\ stdin' = SubSeq(stdin, n + 1, Len(stdin))
    BY <1>5 DEF FillScanner, Takes
  <2>2. UNCHANGED <<raw, closed, typed, pc, ran>>
    BY <1>5 DEF FillScanner
  <2>3. Join(buf', stdin') = Join(buf, stdin)
    BY <1>1, <2>1, TakesTyped, ZenonT(60) DEF Join
  <2>4. stdin # <<>>
    <3>1. Len(<<>>) = 0
      OBVIOUS
    <3>2. QED
      BY <2>1, <3>1
  <2>5. PICK c \in Lines : Scanned(c) /\ pc # "asking"
    BY <2>2 DEF Behind, Undisturbed
  <2>6. Scanned(c)'
    BY <2>2, <2>3, <2>4, <2>5 DEF Scanned
  <2>7. QED
    BY <2>2, <2>5, <2>6
<1>6. CASE ScanEnd \/ Close \/ UNCHANGED vars
  <2> SUFFICES ASSUME Undisturbed' PROVE (pc # "asking")' /\ \E c \in Lines : Scanned(c)'
    BY DEF Behind
  <2>1. UNCHANGED <<raw, typed, buf, stdin, ran>> /\ (closed => closed') /\ pc' \in {pc, "ended"}
    BY <1>6 DEF ScanEnd, Close, vars
  <2>2. PICK c \in Lines : Scanned(c) /\ pc # "asking"
    BY <2>1 DEF Behind, Undisturbed
  <2>3. Scanned(c)'
    BY <2>1, <2>2 DEF Scanned
  <2>4. QED
    BY <2>1, <2>2, <2>3
<1>7. ASSUME NEW b \in Bytes, Arrive(b) PROVE Behind'
  <2> SUFFICES ASSUME Undisturbed' PROVE (pc # "asking")' /\ \E c \in Lines : Scanned(c)'
    BY DEF Behind
  <2>1. /\ ~closed /\ stdin' = Extend(stdin, b) /\ typed' = Extend(typed, b)
        /\ UNCHANGED <<raw, closed, buf, pc, ran>>
    BY <1>7 DEF Arrive, Extend
  <2>2. PICK c \in Seq(X) : Scanned(c) /\ pc # "asking"
    BY <1>1, <2>1 DEF Behind, Undisturbed
  <2>3. typed' = Join(c, Join(buf', stdin'))
    <3>1. b \in X /\ typed = Join(c, Join(buf, stdin))
      BY <2>2 DEF X, Scanned
    <3>2. Join(buf, stdin) \in Seq(X)
      BY <1>1, JoinJoin
    <3>3. Extend(Join(c, Join(buf, stdin)), b) = Join(c, Extend(Join(buf, stdin), b))
      BY <2>2, <3>1, <3>2, ExtendBehind
    <3>4. Extend(Join(buf, stdin), b) = Join(buf, Extend(stdin, b))
      BY <1>1, <3>1, ExtendBehind
    <3>5. QED
      BY <2>1, <3>1, <3>3, <3>4
  <2>4. Scanned(c)'
    BY <2>1, <2>2, <2>3 DEF Scanned
  <2>5. QED
    BY <1>1, <2>1, <2>2, <2>4
<1>8. QED
  BY <1>2, <1>3, <1>4, <1>5, <1>6, <1>7 DEF Next, Program

LEMMA BehindInitially == Init => Behind
<1> SUFFICES ASSUME Init PROVE pc # "asking" /\ \E c \in Lines : Scanned(c)
  BY DEF Behind
<1>1. typed = <<>> /\ buf = <<>> /\ stdin = <<>> /\ ran = <<>> /\ pc = "reading"
  BY DEF Init
<1>2. \A X : <<>> \in Seq(X)
  OBVIOUS
<1>3. <<>> \in Lines /\ <<>> \in Seq({}) /\ \A i \in 1..Len(<<>>) : <<>>[i] # "LF"
  BY <1>2 DEF Lines
<1>4. Join(<<>>, Join(<<>>, <<>>)) = <<>>
  BY DEF Join
<1>5. Commands(SplitLines(<<>>)) = <<>>
  BY <1>3, CommandsLine, BlankKept
<1>6. Texts(<<>>) = <<>>
  BY DEF Texts
<1>7. Scanned(<<>>)
  BY <1>1, <1>4, <1>5, <1>6 DEF Scanned, Whole
<1>8. QED
  BY <1>1, <1>3, <1>7

LEMMA PrefixJoin ==
  ASSUME NEW X, NEW p \in Seq(X), NEW q \in Seq(X)
  PROVE  IsPrefix(p, Join(p, q))
<1> DEFINE n == Len(p)
           t == p \o q
<1>1. /\ Len(t) = n + Len(q) /\ n \in Nat /\ Len(q) \in Nat /\ t \in Seq(X)
      /\ \A i \in 1..n : t[i] = p[i]
  OBVIOUS
<1> HIDE DEF t
<1>2. n <= Len(t)
  BY <1>1
<1>3. /\ SubSeq(t, 1, n) \in Seq(X) /\ Len(SubSeq(t, 1, n)) = n
      /\ \A i \in 1..n : SubSeq(t, 1, n)[i] = t[i]
  BY <1>1, <1>2
<1>4. SubSeq(p, 1, n) = p
  BY <1>1, SubSeqFull
<1>5. SubSeq(t, 1, n) = p
  BY <1>1, <1>3, SeqEqual
<1>6. QED
  BY <1>2, <1>4, <1>5 DEF IsPrefix, Join, t

LEMMA BehindRuns ==
  ASSUME Typed, Behind
  PROVE  LinesRunAsWritten
<1> SUFFICES ASSUME Undisturbed PROVE IsPrefix(Texts(ran), Commands(SplitLines(typed)))
  BY DEF LinesRunAsWritten, Undisturbed, Texts
<1> DEFINE X == Bytes \cup Letters
<1>1. buf \in Seq(X) /\ stdin \in Seq(X) /\ Lines = Seq(X) /\ <<>> \in Seq(X)
  BY DEF Typed, TypeOK, Lines
<1> HIDE DEF X
<1>2. PICK c \in Seq(X) : Scanned(c)
  BY <1>1 DEF Behind
<1> DEFINE d == Join(buf, stdin)
<1>3. d \in Seq(X) /\ typed = Join(c, d) /\ Texts(ran) = Commands(SplitLines(c))
  BY <1>1, <1>2, JoinJoin DEF Scanned
<1> HIDE DEF d
<1>4. \A t \in Seq(X) : Commands(SplitLines(t)) \in Seq(Seq(X))
  BY SplitTyped, CommandsTyped
<1>5. CASE Whole(X, c)
  <2>1. Commands(SplitLines(typed)) = Join(Texts(ran), Commands(SplitLines(d)))
    BY <1>2, <1>3, <1>5, CommandsBehind
  <2>2. QED
    BY <1>2, <1>3, <1>4, <2>1, PrefixJoin
<1>6. CASE ~Whole(X, c)
  <2>1. buf = <<>> /\ stdin = <<>>
    BY <1>2, <1>6 DEF Scanned, X
  <2>2. typed = c
    <3>1. d = <<>>
      BY <2>1 DEF d, Join
    <3>2. QED
      BY <1>2, <1>3, <3>1 DEF Join
  <2>3. Join(Texts(ran), <<>>) = Texts(ran)
    BY <1>2, <1>3, <1>4 DEF Join
  <2>4. <<>> \in Seq(Seq(X))
    OBVIOUS
  <2>5. IsPrefix(Texts(ran), Join(Texts(ran), <<>>))
    BY <1>2, <1>3, <1>4, <2>4, PrefixJoin
  <2>6. QED
    BY <1>3, <2>2, <2>3, <2>5
<1>7. QED
  BY <1>5, <1>6

\* Until a command asks, what is piped in is run as written: each line once and in order,
\* in whatever portions the scanner reads it (runLineScanner, executeInputLine).
THEOREM LinesKept == Spec => []LinesRunAsWritten
<1>1. Init => Typed /\ Behind
  BY Initially, BehindInitially
<1>2. Typed /\ Behind /\ [Next]_vars => (Typed /\ Behind)'
  BY TypedStep, BehindStep, ConstantsAssumption
<1>3. Typed /\ Behind => LinesRunAsWritten
  BY BehindRuns
<1>4. QED
  BY <1>1, <1>2, <1>3, PTL DEF Spec
=============================================================================
