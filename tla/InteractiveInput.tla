-------------------------- MODULE InteractiveInput --------------------------
(***************************************************************************)
(* Standard input of the CLI (src/tplink/cli.go): the byte-wise line       *)
(* editor on a terminal in raw mode, the line scanner on a pipe, and the   *)
(* confirmation prompts of reload, copy and write erase, which put a       *)
(* buffered reader of their own on the same standard input.                *)
(*                                                                         *)
(* A byte is a letter of the alphabet or the name of a control character;  *)
(* a line is a sequence of bytes.  What a command does is left out but for *)
(* its asking and its ending the session.                                  *)
(***************************************************************************)
EXTENDS Naturals, Sequences, SequencesExt

CONSTANTS Letters,      \* the letters of the alphabet
          Bytes,        \* what may arrive on standard input
          MaxBytes,     \* bound: bytes that arrive in a session
          Asking,       \* lines whose command asks for confirmation
          Quitting,     \* lines whose command ends the session
          Yes,          \* the answer that confirms
          Completions   \* what a line becomes when Tab completes it

ASSUME ConstantsAssumption ==
  /\ MaxBytes \in Nat /\ Yes # <<>>
  /\ DOMAIN Completions \subseteq Seq(Letters)
  /\ \A l \in DOMAIN Completions : Completions[l] \in Seq(Letters)

VARIABLES
  raw,        \* standard input is a terminal, in raw mode
  stdin,      \* arrived and not read by the process
  closed,     \* the writing end of standard input is closed
  typed,      \* all that ever arrived
  buf,        \* the buffer of runInteractiveTTY's reader or runLineScanner's scanner
  answerBuf,  \* the buffer of the reader of the prompt being answered
  pc,         \* "reading", "asking" or "ended"
  line, esc,  \* interactiveInputState
  screen,     \* what the terminal shows behind the prompt
  ran         \* what became of each line so far

vars == <<raw, stdin, closed, typed, buf, answerBuf, pc, line, esc, screen, ran>>

Lines == Seq(Bytes \cup Letters)

TypeOK ==
  /\ stdin \in Lines /\ typed \in Lines /\ buf \in Lines /\ answerBuf \in Lines
  /\ raw \in BOOLEAN /\ closed \in BOOLEAN
  /\ pc \in {"reading", "asking", "ended"}
  /\ line \in Seq(Letters \cup {"["}) /\ screen \in Lines
  /\ esc \in {"none", "prefix", "sequence"}
  /\ ran \in Seq([as : {"command", "answer"}, text : Lines])
  /\ answerBuf # <<>> => pc = "asking"

Init ==
  /\ raw \in BOOLEAN
  /\ stdin = <<>> /\ closed = FALSE /\ typed = <<>>
  /\ buf = <<>> /\ answerBuf = <<>> /\ pc = "reading"
  /\ line = <<>> /\ esc = "none" /\ screen = <<>> /\ ran = <<>>
-----------------------------------------------------------------------------
(* The other end of standard input.                                        *)

Arrive(b) ==
  /\ ~closed /\ Len(typed) < MaxBytes
  /\ stdin' = Append(stdin, b) /\ typed' = Append(typed, b)
  /\ UNCHANGED <<raw, closed, buf, answerBuf, pc, line, esc, screen, ran>>

Close ==
  /\ ~closed /\ closed' = TRUE
  /\ UNCHANGED <<raw, stdin, typed, buf, answerBuf, pc, line, esc, screen, ran>>
-----------------------------------------------------------------------------
(* Lines and commands.                                                     *)

\* strings.TrimSpace: the carriage returns and tabs around a line.
Trim(l) ==
  LET Text == {i \in DOMAIN l : l[i] \notin {"CR", "TAB"}}
  IN IF Text = {} THEN <<>>
     ELSE SubSeq(l, CHOOSE i \in Text : \A j \in Text : i <= j,
                    CHOOSE i \in Text : \A j \in Text : i >= j)

Ignored(l) == l = <<>> \/ l[1] = "!"

AfterCommand(l) ==
  IF l \in Quitting THEN "ended" ELSE IF l \in Asking THEN "asking" ELSE "reading"

\* executeInputLine.
Execute(l) ==
  IF Ignored(Trim(l)) THEN UNCHANGED <<pc, ran>>
  ELSE /\ pc' = AfterCommand(Trim(l))
       /\ ran' = Append(ran, [as |-> "command", text |-> Trim(l)])

\* A buffered reader takes what it finds, all of it or a part.
Takes(reader) ==
  \E n \in 1..Len(stdin) :
    /\ reader' = reader \o SubSeq(stdin, 1, n)
    /\ stdin' = SubSeq(stdin, n + 1, Len(stdin))

AtEnd == closed /\ stdin = <<>>
-----------------------------------------------------------------------------
(* The line editor on a terminal.                                          *)

FillEditor ==
  /\ raw /\ pc = "reading" /\ buf = <<>> /\ Takes(buf)
  /\ UNCHANGED <<raw, closed, typed, answerBuf, pc, line, esc, screen, ran>>

HangUp ==
  /\ raw /\ pc = "reading" /\ buf = <<>> /\ AtEnd
  /\ pc' = "ended"
  /\ UNCHANGED <<raw, stdin, closed, typed, buf, answerBuf, line, esc, screen, ran>>

FinalBytes == Letters \cup {"~"}

Introducers == {"[", "O"}

\* The bytes of an escape sequence up to its final byte are dropped.
InSequence(b) ==
  /\ \/ /\ esc = "sequence"
        /\ esc' = IF b \in FinalBytes THEN "none" ELSE "sequence"
     \/ /\ esc = "prefix" /\ b \in Introducers
        /\ esc' = "sequence"
  /\ UNCHANGED <<line, screen, pc, ran>>

Outside(b) == esc = "none" \/ (esc = "prefix" /\ b \notin Introducers)

CtrlC(b) ==
  /\ b = "^C" /\ line' = <<>> /\ screen' = <<>>
  /\ UNCHANGED <<pc, ran>>

CtrlD(b) ==
  /\ b = "^D" /\ pc' = IF line = <<>> THEN "ended" ELSE pc
  /\ UNCHANGED <<line, screen, ran>>

Enter(b) ==
  /\ b \in {"CR", "LF"} /\ line' = <<>> /\ screen' = <<>>
  /\ Execute(line)

\* Bug shape for Backspace: the terminal is not told.
BackspaceUnechoed(b) ==
  /\ b = "DEL"
  /\ line' = IF line = <<>> THEN line ELSE Front(line)
  /\ UNCHANGED <<screen, pc, ran>>

Backspace(b) ==
  /\ b = "DEL"
  /\ IF line = <<>> THEN UNCHANGED <<line, screen>>
     ELSE line' = Front(line) /\ screen' = Front(screen)
  /\ UNCHANGED <<pc, ran>>

Tab(b) ==
  /\ b = "TAB"
  /\ IF line \in DOMAIN Completions
     THEN line' = Completions[line] /\ screen' = line'
     ELSE UNCHANGED <<line, screen>>
  /\ UNCHANGED <<pc, ran>>

\* The help goes below, and the line is drawn again.
Question(b) ==
  /\ b = "?" /\ screen' = line
  /\ UNCHANGED <<line, pc, ran>>

\* Bug shape for Printable: any byte that is no command key is text.
PrintableAny(b) ==
  /\ b \notin {"^C", "^D", "CR", "LF", "DEL", "TAB", "?"}
  /\ line' = Append(line, b) /\ screen' = Append(screen, b)
  /\ UNCHANGED <<pc, ran>>

Printable(b) ==
  /\ b \in Letters \cup {"["}
  /\ line' = Append(line, b) /\ screen' = Append(screen, b)
  /\ UNCHANGED <<pc, ran>>

Escape(b) == b = "ESC" /\ UNCHANGED <<line, screen, pc, ran>>

EditKey ==
  /\ raw /\ pc = "reading" /\ buf # <<>>
  /\ LET b == Head(buf)
     IN \/ InSequence(b)
        \/ /\ Outside(b)
           /\ esc' = IF b = "ESC" THEN "prefix" ELSE "none"
           /\ \/ CtrlC(b) \/ CtrlD(b) \/ Enter(b) \/ Backspace(b) \/ Tab(b)
              \/ Question(b) \/ Printable(b) \/ Escape(b)
  /\ buf' = Tail(buf)
  /\ UNCHANGED <<raw, stdin, closed, typed, answerBuf>>
-----------------------------------------------------------------------------
(* The line scanner on a pipe.                                             *)

HasLine(b) == Contains(b, "LF")

\* What a buffer holds before its first newline, and after it.
FirstLine(b) == IF HasLine(b) THEN SubSeq(b, 1, SelectInSeq(b, LAMBDA c : c = "LF") - 1) ELSE b

\* Bug shape for AfterLine: a scanner made anew for every line loses its read-ahead.
AfterLineLost(b) == <<>>

AfterLine(b) ==
  IF HasLine(b) THEN SubSeq(b, SelectInSeq(b, LAMBDA c : c = "LF") + 1, Len(b)) ELSE <<>>

FillScanner ==
  /\ ~raw /\ pc = "reading" /\ ~HasLine(buf) /\ Takes(buf)
  /\ UNCHANGED <<raw, closed, typed, answerBuf, pc, line, esc, screen, ran>>

ScanLine ==
  /\ ~raw /\ pc = "reading"
  /\ HasLine(buf) \/ (AtEnd /\ buf # <<>>)
  /\ buf' = AfterLine(buf)
  /\ Execute(FirstLine(buf))
  /\ UNCHANGED <<raw, stdin, closed, typed, answerBuf, line, esc, screen>>

ScanEnd ==
  /\ ~raw /\ pc = "reading" /\ buf = <<>> /\ AtEnd
  /\ pc' = "ended"
  /\ UNCHANGED <<raw, stdin, closed, typed, buf, answerBuf, line, esc, screen, ran>>
-----------------------------------------------------------------------------
(* promptInput, and what reload, copy and write erase do with the answer.  *)

FillPrompt ==
  /\ pc = "asking" /\ ~HasLine(answerBuf) /\ Takes(answerBuf)
  /\ UNCHANGED <<raw, closed, typed, buf, pc, line, esc, screen, ran>>

\* Bug shape for Answered: the end of input is no answer.
AnsweredAtNewline == HasLine(answerBuf)

\* ReadString returns at the newline, or with what there is at the end of input.
Answered == HasLine(answerBuf) \/ AtEnd

\* A confirmed command ends the session, unless its request fails.
AfterAnswer(text) == IF text = Yes THEN {"ended", "reading"} ELSE {"reading"}

Answer ==
  /\ pc = "asking" /\ Answered
  /\ LET text == Trim(FirstLine(answerBuf))
     IN /\ pc' \in AfterAnswer(text)
        /\ ran' = Append(ran, [as |-> "answer", text |-> text])
  /\ answerBuf' = <<>>
  /\ UNCHANGED <<raw, stdin, closed, typed, buf, line, esc, screen>>
-----------------------------------------------------------------------------
Program == \/ FillEditor \/ HangUp \/ EditKey \/ FillScanner \/ ScanLine \/ ScanEnd
           \/ FillPrompt \/ Answer

Next == Program \/ Close \/ \E b \in Bytes : Arrive(b)

Spec == Init /\ [][Next]_vars

\* The process is scheduled; nothing is assumed of who types.
FairSpec == Spec /\ WF_vars(Program)
-----------------------------------------------------------------------------
(* Properties.                                                             *)

\* The line behind the prompt is what Enter would run: no key sequence makes the
\* terminal show one line while the editor holds another.
ScreenShowsLine == pc = "reading" => screen = line

\* The lines of a text, and the commands they are once empty ones and comments are gone.
SplitLines(b) ==
  LET f[i \in 0..Len(b)] ==
        IF i = 0 THEN << <<>> >>
        ELSE IF b[i] = "LF" THEN Append(f[i - 1], <<>>)
        ELSE Append(Front(f[i - 1]), Append(Last(f[i - 1]), b[i]))
  IN f[Len(b)]

Commands(lines) ==
  FlattenSeq([i \in DOMAIN lines |->
                IF Ignored(Trim(lines[i])) THEN <<>> ELSE <<Trim(lines[i])>>])

\* As long as no command has asked, what is piped in is run as written until the
\* session ends: each line once and in order, in whatever portions it is read
\* (README.md:73, "line-based input behavior").
LinesRunAsWritten ==
  ~raw /\ (\A i \in DOMAIN ran : ran[i].text \notin Asking) =>
    IsPrefix([i \in DOMAIN ran |-> ran[i].text], Commands(SplitLines(typed)))

\* An answer that has been typed and ended with the Enter key is taken: the prompt
\* returns (cli.go:1487, "Type RESET to confirm factory reset").
EnterKey == IF raw THEN "CR" ELSE "LF"
PromptAnswered == (pc = "asking" /\ Contains(stdin, EnterKey)) ~> (pc # "asking")

\* Whatever it was doing, the session ends when its input does.
SessionEnds == closed ~> pc = "ended"
=============================================================================
