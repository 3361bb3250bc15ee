------------------------------ MODULE PtyProcess ------------------------------
(***************************************************************************)
(* PtyProcess.cpp: a caller that talks to a program over a pseudo terminal. *)
(* The program, a process it may leave behind on the same terminal, and    *)
(* the caller's reads, waits and writes take turns in any order.           *)
(*                                                                         *)
(* What is printed is numbered in its order: piece n of a text is n, and a *)
(* newline in its place is -n.  The program asks one question: it switches *)
(* the echo off, which throws away what was typed before, reads a line and *)
(* switches the echo on again.  The caller answers once wait_slave() has   *)
(* returned, as the header tells it to, and writes nothing before.         *)
(***************************************************************************)
EXTENDS Integers, Sequences, FiniteSetsExt, Functions

CONSTANTS
  BufLen,   \* what one read() can give: 255 in the code (a bound)
  MaxText   \* bound: what is ever printed

ASSUME PtyAssumption == BufLen \in Nat \ {0} /\ MaxText \in Nat

VARIABLES
  at,       \* where the caller is
  m_Pid,
  m_Exit,   \* the piece of text that the exit string matches, 0 if not set
  m_Inbuf,
  result,   \* what the call that ended last returned, if it is an int
  child,    \* the state of the child
  status,   \* what check_pid_exited() makes of how it ended
  holders,  \* who has the slave side of the terminal open
  echo,
  asks,     \* how far the program is with its question
  tty,      \* printed and not read yet
  input,    \* typed and not read yet
  written, given,  \* history: all that was printed, and was given to the caller
  last,     \* the line that read_line() gave last
  partial,  \* history: a read() has given text without a newline
  answer    \* history: what became of the line that answers the question

dialogue == <<written, given, last, partial, answer>>
terminal == <<holders, echo, tty, input>>
pty == <<at, m_Pid, m_Exit, m_Inbuf, result, child, status, asks, terminal, dialogue>>

Pid       == 4242   \* any positive number
Error     == -1
NotExited == -2
Killed    == -3
Crashed   == -4
Ends      == {0, 1, Killed, Crashed}   \* 0 and 1 stand for every exit status

PtyTypeOK ==
  /\ at \in {"new", "failed", "idle", "read", "write", "slave", "select", "lines",
             "check", "gone"}
  /\ m_Pid \in {-1, 0, Pid} /\ m_Exit \in {0, 2}
  /\ {m_Inbuf, tty, written, given, last} \subseteq Seq(-MaxText..MaxText \ {0})
  /\ Len(written) <= MaxText
  /\ result \in {-1, 0, 1}
  /\ child \in {"none", "setup", "running", "stopped", "zombie", "reaped"}
  /\ status \in Ends \cup {NotExited}
  /\ holders \subseteq {"child", "other", "caller"}
  /\ echo \in BOOLEAN /\ partial \in BOOLEAN
  /\ asks \in {"not yet", "asking", "answered", "over"}
  /\ input \in Seq({"answer", "text", "newline"})
  /\ answer \in {"none", "due", "typed", "read", "lost", "seen"}

PtyInit ==
  /\ at = "new" /\ m_Pid = 0 /\ m_Exit \in {0, 2} /\ m_Inbuf = <<>> /\ result = 0
  /\ child = "none" /\ status = NotExited /\ holders = {} /\ echo = TRUE
  /\ asks = "not yet" /\ tty = <<>> /\ input = <<>> /\ written = <<>> /\ given = <<>>
  /\ last = <<>> /\ partial = FALSE /\ answer = "none"

Alive == child \in {"setup", "running"}

(* The pieces of a line, up to its newline if it has come already.         *)
Newlines(s)  == {k \in DOMAIN s : s[k] < 0}
FirstLine(s) == IF Newlines(s) = {} THEN s ELSE SubSeq(s, 1, Min(Newlines(s)))
AfterLine(s) == SubSeq(s, Len(FirstLine(s)) + 1, Len(s))
-------------------------------------------------------------------------------
(* The child, and what it leaves behind                                    *)

childs == <<child, status, asks>>
callers == <<at, m_Pid, m_Exit, m_Inbuf, result, given, last, partial>>

Prints(piece) ==
  /\ Len(written) < MaxText
  /\ tty' = Append(tty, piece) /\ written' = Append(written, piece)

ChildExecs ==
  /\ child = "setup"
  /\ child' = "running"
  /\ UNCHANGED <<callers, terminal, status, asks, written, answer>>

Ended(how) == child' = "zombie" /\ status' = how /\ holders' = holders \ {"child"}

(* setup_tty() or execv() fails, the program ends, or something ends it.   *)
ChildEnds ==
  /\ Alive
  /\ \E how \in IF child = "setup" THEN Ends \ {0} ELSE Ends : Ended(how)
  /\ UNCHANGED <<callers, echo, tty, input, asks, written, answer>>

ProgramPrints ==
  /\ at # "gone"
  /\ child = "running" \/ "other" \in holders
  /\ \E sign \in {1, -1} : Prints(sign * (Len(written) + 1))
  /\ UNCHANGED <<callers, childs, holders, echo, input, answer>>

(* tcsetattr(TCSAFLUSH) of the program.                                    *)
SetEcho(on) ==
  /\ echo' = on /\ input' = <<>>
  /\ answer' = IF "answer" \in Range(input) THEN "lost" ELSE answer

ProgramAsks ==
  /\ child = "running" /\ asks = "not yet"
  /\ asks' = "asking"
  /\ SetEcho(FALSE)
  /\ UNCHANGED <<callers, child, status, holders, tty, written>>

(* A line is there for the program once its newline is.                    *)
ProgramReads ==
  /\ child = "running"
  /\ Len(input) = 2
  /\ input' = <<>>
  /\ asks' = IF asks = "asking" THEN "answered" ELSE asks
  /\ answer' = IF input[1] = "answer" THEN "read" ELSE answer
  /\ UNCHANGED <<callers, child, status, holders, echo, tty, written>>

ProgramGoesOn ==
  /\ child = "running" /\ asks = "answered"
  /\ asks' = "over"
  /\ SetEcho(TRUE)
  /\ UNCHANGED <<callers, child, status, holders, tty, written>>

(* A process the program starts keeps the terminal, for as long as it runs. *)
OtherStarts ==
  /\ child = "running"
  /\ holders' = holders \cup {"other"}
  /\ UNCHANGED <<callers, childs, echo, tty, input, written, answer>>

OtherEnds ==
  /\ "other" \in holders
  /\ holders' = holders \ {"other"}
  /\ UNCHANGED <<callers, childs, echo, tty, input, written, answer>>
-------------------------------------------------------------------------------
(* The caller                                                              *)

(* Mutant: the slave that was opened before fork() stays open.             *)
PtyExecKeepsSlave ==
  /\ at = "new"
  /\ at' = "idle" /\ m_Pid' = Pid /\ child' = "setup"
  /\ holders' = {"child", "caller"}
  /\ UNCHANGED <<m_Exit, m_Inbuf, result, status, asks, echo, tty, input, dialogue>>

(* exec().  The child has the slave that was opened before fork() until it *)
(* has opened it again, so that the terminal is never without a holder.    *)
PtyExec ==
  /\ at = "new"
  /\ at' = "idle" /\ m_Pid' = Pid /\ child' = "setup"
  /\ holders' = {"child"}
  /\ UNCHANGED <<m_Exit, m_Inbuf, result, status, asks, echo, tty, input, dialogue>>

(* The terminal cannot be had, or fork() fails: its -1 stays in m_Pid.     *)
PtyExecFails ==
  /\ at = "new"
  /\ at' = "failed" /\ m_Pid' \in {0, -1} /\ result' = -1
  /\ UNCHANGED <<m_Exit, m_Inbuf, childs, terminal, dialogue>>

Give(line) == given' = given \o line /\ last' = line

(* read_line() of what the last one has left, or unread_line() put back.   *)
FromInbuf ==
  /\ m_Inbuf # <<>>
  /\ Give(FirstLine(m_Inbuf))
  /\ m_Inbuf' = AfterLine(m_Inbuf)
  /\ UNCHANGED <<tty, partial>>

(* read_line() of what the terminal has.  Text without a newline is given, *)
(* and stays in m_Inbuf to be given again.                                 *)
FromTerminal ==
  /\ m_Inbuf = <<>> /\ tty # <<>>
  /\ LET n    == Min({BufLen, Len(tty)})
         text == SubSeq(tty, 1, n)
     IN  /\ Give(FirstLine(text))
         /\ m_Inbuf' = IF Newlines(text) = {} THEN text ELSE AfterLine(text)
         /\ tty' = SubSeq(tty, n + 1, Len(tty))
         /\ partial' = (partial \/ Newlines(text) = {})

FromNothing ==
  /\ m_Inbuf = <<>> /\ tty = <<>>
  /\ last' = <<>>
  /\ UNCHANGED <<m_Inbuf, tty, given, partial>>

untouched == <<m_Pid, m_Exit, result, echo, input, asks, written, answer>>

(* read_line(): without input it returns if it may not block, or if no one *)
(* has the terminal open.                                                  *)
ReadLine ==
  /\ at = "idle"
  /\ FromInbuf \/ FromTerminal \/ FromNothing
  /\ UNCHANGED <<untouched, at, child, status, holders>>

ReadLineBlocks ==
  /\ at = "idle"
  /\ m_Inbuf = <<>> /\ tty = <<>> /\ holders # {}
  /\ at' = "read"
  /\ UNCHANGED <<m_Pid, m_Exit, m_Inbuf, result, childs, terminal, dialogue>>

ReadLineReturns ==
  /\ at = "read"
  /\ at' = "idle"
  /\ \/ FromTerminal
     \/ holders = {} /\ FromNothing
  /\ UNCHANGED <<untouched, child, status, holders>>

(* A read() that may block is tried again after a signal.                  *)
ReadLineInterrupted == at = "read" /\ UNCHANGED pty

(* The caller puts back the line it has been given, as it was.             *)
UnreadLine ==
  /\ at = "idle" /\ last # <<>>
  /\ m_Inbuf' = last \o m_Inbuf
  /\ given' = SubSeq(given, 1, Len(given) - Len(last))
  /\ last' = <<>>
  /\ UNCHANGED <<untouched, at, child, status, holders, tty, partial>>

(* One of the two write()s of write_line(); the terminal echoes what comes *)
(* (up to the bound).                                                      *)
Type(what) ==
  /\ input' = Append(input, what)
  /\ IF echo /\ Len(written) < MaxText
       THEN Prints((IF what = "newline" THEN -1 ELSE 1) * (Len(written) + 1))
       ELSE UNCHANGED <<tty, written>>
  /\ answer' = IF what = "answer" THEN IF echo THEN "seen" ELSE "typed" ELSE answer

WriteLine ==
  /\ at = "idle"
  /\ input = <<>>
  /\ at' = "write"
  /\ \/ answer = "due" /\ Type("answer")
     \/ answer = "read" /\ Type("text")
  /\ UNCHANGED <<m_Pid, m_Exit, m_Inbuf, result, childs, holders, echo, given, last, partial>>

WriteNewline ==
  /\ at = "write"
  /\ at' = "idle"
  /\ Type("newline")
  /\ UNCHANGED <<m_Pid, m_Exit, m_Inbuf, result, childs, holders, echo, given, last, partial>>
-------------------------------------------------------------------------------
(* wait_slave() has the slave open while it waits.                         *)
WaitSlave ==
  /\ at = "idle" /\ answer = "none"
  /\ at' = "slave"
  /\ holders' = holders \cup {"caller"}
  /\ UNCHANGED <<m_Pid, m_Exit, m_Inbuf, result, childs, echo, tty, input, dialogue>>

(* Mutant: the echo is not looked at.                                      *)
EchoIsOffUnchecked == TRUE

EchoIsOff == ~echo

(* check_pid() holds of a child that has ended and was not waited for.     *)
SlaveReturns ==
  /\ at = "slave"
  /\ at' = "idle"
  /\ holders' = holders \ {"caller"}
  /\ \/ child = "reaped" /\ result' = -1 /\ UNCHANGED answer
     \/ child # "reaped" /\ EchoIsOff /\ result' = 0 /\ answer' = "due"
  /\ UNCHANGED <<m_Pid, m_Exit, m_Inbuf, childs, echo, tty, input, written, given, last,
                 partial>>

(* The echo is on: another 100 ms.                                         *)
SlavePolls ==
  /\ at = "slave" /\ child # "reaped" /\ echo
  /\ UNCHANGED pty
-------------------------------------------------------------------------------
(* wait_for_child()                                                        *)

WaitForChild ==
  /\ at = "idle"
  /\ at' = "select"
  /\ UNCHANGED <<m_Pid, m_Exit, m_Inbuf, result, childs, terminal, dialogue>>

(* select() has no timeout.  A signal that is handled interrupts it.       *)
SelectReturns ==
  /\ at = "select"
  /\ tty # <<>> \/ holders = {}
  /\ at' = "lines"
  /\ UNCHANGED <<m_Pid, m_Exit, m_Inbuf, result, childs, terminal, dialogue>>

SelectInterrupted ==
  /\ at = "select"
  /\ at' = "check"
  /\ UNCHANGED <<m_Pid, m_Exit, m_Inbuf, result, childs, terminal, dialogue>>

(* A line that begins with the exit string: SIGTERM, which may be caught.  *)
Terminates(line) ==
  \/ m_Exit = Head(line) /\ Alive /\ Ended(Killed)
  \/ UNCHANGED <<child, status, holders>>

CopyLine ==
  /\ at = "lines"
  /\ FromInbuf \/ FromTerminal
  /\ Terminates(last')
  /\ UNCHANGED <<untouched, at>>

LinesEnd ==
  /\ at = "lines"
  /\ FromNothing
  /\ at' = "check"
  /\ UNCHANGED <<untouched, child, status, holders>>

(* A child that was waited for is no more (ECHILD).                        *)
CheckChild ==
  /\ at = "check"
  /\ \/ Alive /\ at' = "select" /\ UNCHANGED <<child, result>>
     \/ /\ ~Alive
        /\ at' = "idle" /\ child' = "reaped"
        /\ result' = IF child = "zombie" /\ status \in {0, 1} THEN status ELSE 0
  /\ UNCHANGED <<m_Pid, m_Exit, m_Inbuf, status, asks, terminal, dialogue>>

(* The destructor stops whatever m_Pid names: the child, or what has its   *)
(* number since it was waited for, or with -1 everything it may signal.    *)
Destroy ==
  /\ at \in {"new", "failed", "idle"}
  /\ at' = "gone"
  /\ child' = IF Alive THEN "stopped" ELSE child
  /\ UNCHANGED <<m_Pid, m_Exit, m_Inbuf, result, status, asks, terminal, dialogue>>

Gone == at = "gone" /\ UNCHANGED pty
-------------------------------------------------------------------------------
Waits ==
  \/ ReadLineReturns \/ WriteNewline \/ SlaveReturns \/ SelectReturns
  \/ CopyLine \/ LinesEnd \/ CheckChild

PtyNext ==
  \/ PtyExec \/ PtyExecFails \/ Destroy \/ Gone
  \/ ReadLine \/ ReadLineBlocks \/ ReadLineInterrupted \/ UnreadLine
  \/ WriteLine \/ WaitSlave \/ SlavePolls
  \/ WaitForChild \/ SelectInterrupted \/ Waits
  \/ ChildExecs \/ ChildEnds \/ ProgramPrints \/ ProgramAsks \/ ProgramReads
  \/ ProgramGoesOn \/ OtherStarts \/ OtherEnds

PtySpec == PtyInit /\ [][PtyNext]_pty
-------------------------------------------------------------------------------
(* The pieces in the order in which they first come.                       *)
FirstOfEach(s) ==
  LET First(k) == \A j \in 1..(k - 1) : s[j] # s[k]
  IN  [n \in 1..Cardinality(Range(s)) |->
         s[CHOOSE k \in DOMAIN s :
             First(k) /\ Cardinality({j \in 1..k : First(j)}) = n]]

(* Whatever is printed, by whom and in whatever parts it is read, put back *)
(* and read again, by read_line() or by wait_for_child(), reaches the      *)
(* caller in its order and nothing is lost (PtyProcess.cpp:187-257); and   *)
(* as long as only whole lines were read, nothing comes twice.             *)
TextFollows ==
  LET all == given \o m_Inbuf \o tty
  IN  /\ FirstOfEach(all) = written
      /\ ~partial => all = written

(* The line that is written after wait_slave() is neither thrown away when *)
(* the program switches the echo off nor shown ("So we wait until no echo  *)
(* mode is set before writing the password", PtyProcess.cpp:338-343).      *)
AnswerIsRead == answer \notin {"lost", "seen"}

(* What either side writes arrives.                                        *)
TalkArrives == TextFollows /\ AnswerIsRead

(* Each call returns when the program has ended (PtyProcess.cpp:414-469).  *)
(* Two do not: wait_for_child() and read_line() while another process has  *)
(* the terminal open and is silent, and wait_slave() on a program that has *)
(* ended with the echo on.                                                 *)
Ready       == at \in {"new", "failed", "idle", "gone"}
StaysUnseen == "other" \in holders \/ (at = "slave" /\ echo /\ child = "zombie")
CallsReturn == []<>(Ready \/ Alive \/ StaysUnseen)
===============================================================================
