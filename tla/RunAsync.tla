------------------------------- MODULE RunAsync --------------------------------
(***************************************************************************)
(* run_async() of Run.cpp.  The caller forks a child, the child forks the  *)
(* grandchild that becomes the program.  They report back through two      *)
(* pipes: "pid" carries the grandchild's process id, "err" the reason why  *)
(* it could not be started.  The caller learns that nothing went wrong     *)
(* only from the end of file on "err", that is from every process having   *)
(* closed its write end.                                                   *)
(***************************************************************************)
EXTENDS RunExec

CONSTANT MaxInterrupts  \* bound: signals handled by the caller while it reads

ASSUME InterruptsAssumption == MaxInterrupts \in Nat

Pipes   == {"pid", "err"}
Process == {"caller", "child", "grandchild"}

VARIABLES
  pc,          \* where each process is
  content,     \* the ints in each pipe
  readers,     \* processes that hold its read end
  writers,     \* processes that hold its write end
  buf,         \* of the caller's read_ints(): ints read so far
  eintr,       \* errno = EINTR in the caller's read_ints()
  interrupts,  \* signals so far
  mishaps,     \* faults so far
  dir,         \* entries of PATH left to try; one for a command with a '/'
  errno,       \* of the grandchild's last execve()
  ret,         \* what run_async() returned
  child_pid    \* what it stored there

vars == <<pc, content, readers, writers, buf, eintr, interrupts, mishaps, dir,
          errno, ret, child_pid>>

GrandchildPid == 4242          \* any positive number
Unset         == -2            \* no int stored yet

(* What the pipes carry.                                                   *)
Ints == {-1, 0, GrandchildPid} \cup Codes \cup Errnos

(* Where a process can be: "none" has not started, "over" has exited; a     *)
(* grandchild that became the program is "running" and then "ended".       *)
CallerPC     == {"start", "wait", "readErr", "readPid", "done"}
ChildPC      == {"none", "fork", "report", "over"}
GrandchildPC == {"none", "open", "exec", "failed", "failed2", "running",
                 "ended", "over"}

TypeOK ==
  /\ DOMAIN pc = Process
  /\ pc["caller"] \in CallerPC
  /\ pc["child"] \in ChildPC
  /\ pc["grandchild"] \in GrandchildPC
  /\ content \in [Pipes -> Seq(Ints)]
  /\ readers \in [Pipes -> SUBSET Process]
  /\ writers \in [Pipes -> SUBSET Process]
  /\ buf \in Seq(Ints)
  /\ eintr \in BOOLEAN
  /\ interrupts \in 0..MaxInterrupts
  /\ mishaps \in SUBSET Faults
  /\ dir \in 0..Dirs
  /\ errno \in Errnos \cup {0}
  /\ ret \in Codes \cup {0, Unset}
  /\ child_pid \in Ints \cup {Unset}

Init ==
  /\ pc = [caller |-> "start", child |-> "none", grandchild |-> "none"]
  /\ content = [p \in Pipes |-> <<>>]
  /\ readers = [p \in Pipes |-> {}]
  /\ writers = [p \in Pipes |-> {}]
  /\ buf = <<>> /\ eintr = FALSE /\ interrupts = 0 /\ mishaps = {}
  /\ dir \in 0..Dirs /\ errno = 0
  /\ ret = Unset /\ child_pid = Unset

Goto(p, where) == pc' = [pc EXCEPT ![p] = where]

(* What a process holds when it ends, or closes everything.                *)
Without(holders, p) == [x \in Pipes |-> holders[x] \ {p}]

callerVars == <<buf, eintr, interrupts, ret, child_pid>>
execVars   == <<dir, errno, mishaps>>

(* Something goes wrong.                                                   *)
Fault(f) == f \in Faults /\ mishaps' = mishaps \cup {f}
-------------------------------------------------------------------------------
(* fork_child_async() in the caller                                        *)

(* The first pipe(), the second or fork() fails: nothing is closed.        *)
StartFails ==
  /\ pc["caller"] = "start"
  /\ Goto("caller", "done")
  /\ \/ /\ Fault("pipe")
        /\ ret' = RUN_PIPE_FAILED
        /\ \E opened \in {{}, {"pid"}} :
             /\ readers' = [p \in Pipes |-> IF p \in opened THEN {"caller"} ELSE {}]
             /\ writers' = readers'
     \/ /\ Fault("fork")
        /\ ret' = RUN_FORK_FAILED
        /\ readers' = [p \in Pipes |-> {"caller"}]
        /\ writers' = readers'
  /\ UNCHANGED <<content, buf, eintr, interrupts, dir, errno, child_pid>>

(* fork() succeeds; caller and child close the ends they do not use.       *)
Start ==
  /\ pc["caller"] = "start"
  /\ pc' = [pc EXCEPT !["caller"] = "wait", !["child"] = "fork"]
  /\ readers' = [p \in Pipes |-> {"caller"}]
  /\ writers' = [p \in Pipes |-> {"child"}]
  /\ UNCHANGED <<content, callerVars, execVars>>

(* Mutant: waitpid() is given up when a signal interrupts it.              *)
WaitOnce ==
  /\ pc["caller"] = "wait"
  /\ Goto("caller", "readErr")
  /\ UNCHANGED <<content, readers, writers, callerVars, execVars>>

(* waitpid(), retried until the child has ended.                           *)
Wait ==
  /\ pc["caller"] = "wait"
  /\ pc["child"] = "over"
  /\ Goto("caller", "readErr")
  /\ UNCHANGED <<content, readers, writers, callerVars, execVars>>

Return(code) ==
  /\ Goto("caller", "done")
  /\ ret' = code
  /\ readers' = Without(readers, "caller")

(* read_ints() blocks on an empty pipe that someone can still write to.    *)
Reading(p)   == pc["caller"] = IF p = "err" THEN "readErr" ELSE "readPid"
Blocked(p)   == content[p] = <<>> /\ writers[p] # {}
EndOfFile(p) == content[p] = <<>> /\ writers[p] = {}

(* A blocked read() is interrupted: errno becomes EINTR, for good.         *)
Interrupt(p) ==
  /\ Reading(p) /\ Blocked(p)
  /\ interrupts < MaxInterrupts
  /\ interrupts' = interrupts + 1
  /\ eintr' = TRUE
  /\ UNCHANGED <<pc, content, readers, writers, buf, execVars, ret, child_pid>>

(* read_ints() retries while errno is EINTR, also after a read() that did  *)
(* well: what was read is overwritten by the next read() and, at the end   *)
(* of file, it reads on and on.                                            *)
ReadAgain(p) ==
  /\ Reading(p) /\ eintr
  /\ ~Blocked(p)
  /\ content' = [content EXCEPT ![p] = <<>>]
  /\ UNCHANGED <<pc, readers, writers, callerVars, execVars>>

(* Mutant: the code and the errno are taken for each other.                *)
ReadErrSwapped ==
  /\ Reading("err") /\ ~eintr
  /\ content["err"] # <<>>
  /\ content' = [content EXCEPT !["err"] = Tail(@)]
  /\ buf' = Append(buf, Head(content["err"]))
  /\ IF Len(buf') = 2
       THEN Return(Convert(buf'[1], buf'[2]))
       ELSE UNCHANGED <<pc, ret, readers>>
  /\ UNCHANGED <<writers, eintr, interrupts, execVars, child_pid>>

(* read_ints(child_err_report_pipe): two ints are an errno to convert.     *)
ReadErr ==
  /\ Reading("err") /\ ~eintr
  /\ content["err"] # <<>>
  /\ content' = [content EXCEPT !["err"] = Tail(@)]
  /\ buf' = Append(buf, Head(content["err"]))
  /\ IF Len(buf') = 2
       THEN Return(Convert(buf'[2], buf'[1]))
       ELSE UNCHANGED <<pc, ret, readers>>
  /\ UNCHANGED <<writers, eintr, interrupts, execVars, child_pid>>

(* Fewer than two: no error.  The second read_ints() starts afresh.        *)
ReadErrEnd ==
  /\ Reading("err") /\ ~eintr
  /\ EndOfFile("err")
  /\ Goto("caller", "readPid")
  /\ buf' = <<>>
  /\ UNCHANGED <<content, readers, writers, eintr, interrupts, execVars, ret, child_pid>>

(* read_ints(child_pid_report_pipe): one int is all it asks for.           *)
ReadPid ==
  /\ Reading("pid") /\ ~eintr
  /\ content["pid"] # <<>>
  /\ content' = [content EXCEPT !["pid"] = Tail(@)]
  /\ child_pid' = Head(content["pid"])
  /\ Return(0)
  /\ UNCHANGED <<writers, buf, eintr, interrupts, execVars>>

ReadPidEnd ==
  /\ Reading("pid") /\ ~eintr
  /\ EndOfFile("pid")
  /\ Return(RUN_PIPE_FAILED)
  /\ UNCHANGED <<content, writers, buf, eintr, interrupts, execVars, child_pid>>
-------------------------------------------------------------------------------
(* The child                                                               *)

ChildForks ==
  /\ pc["child"] = "fork"
  /\ pc' = [pc EXCEPT !["child"] = "report", !["grandchild"] = "open"]
  /\ writers' = [p \in Pipes |-> writers[p] \cup {"grandchild"}]
  /\ UNCHANGED <<content, readers, callerVars, execVars>>

(* -1 goes to the one pipe, RUN_FORK_FAILED alone to the other.            *)
ChildForkFails ==
  /\ Fault("fork2")
  /\ pc["child"] = "fork"
  /\ Goto("child", "over")
  /\ content' = [pid |-> Append(content["pid"], -1),
                 err |-> Append(content["err"], RUN_FORK_FAILED)]
  /\ writers' = Without(writers, "child")
  /\ UNCHANGED <<readers, callerVars, dir, errno>>

ChildReports ==
  /\ pc["child"] = "report"
  /\ Goto("child", "over")
  /\ content' = [content EXCEPT !["pid"] = Append(@, GrandchildPid)]
  /\ writers' = Without(writers, "child")
  /\ UNCHANGED <<readers, callerVars, execVars>>
-------------------------------------------------------------------------------
(* The grandchild                                                          *)

OpenNull ==
  /\ pc["grandchild"] = "open"
  /\ Goto("grandchild", "exec")
  /\ UNCHANGED <<content, readers, writers, callerVars, execVars>>

(* grandchild_pid is 0 here; errno is the only int on "err".               *)
OpenNullFails ==
  /\ Fault("devnull")
  /\ pc["grandchild"] = "open"
  /\ Goto("grandchild", "over")
  /\ content' = [pid |-> Append(content["pid"], 0),
                 err |-> Append(content["err"], ENOENT)]
  /\ writers' = Without(writers, "grandchild")
  /\ UNCHANGED <<readers, callerVars, dir, errno>>

(* Mutant: the write end of "err" is not closed on exec.                   *)
ExecKeepsErr ==
  /\ pc["grandchild"] = "exec" /\ dir # 0
  /\ Goto("grandchild", "running")
  /\ UNCHANGED <<content, readers, writers, callerVars, execVars>>

(* execve() succeeds.  The write end of "err" is closed on exec, that of   *)
(* "pid" stays with the program.                                           *)
Exec ==
  /\ pc["grandchild"] = "exec" /\ dir # 0
  /\ Goto("grandchild", "running")
  /\ writers' = [writers EXCEPT !["err"] = @ \ {"grandchild"}]
  /\ UNCHANGED <<content, readers, callerVars, execVars>>

(* execve() fails for a PATH entry.                                        *)
ExecFails ==
  /\ pc["grandchild"] = "exec" /\ dir # 0
  /\ \E e \in Errnos :
       /\ errno' = e
       /\ IF TriesNext(e) /\ dir > 1
            THEN dir' = dir - 1 /\ UNCHANGED pc
            ELSE Goto("grandchild", "failed") /\ UNCHANGED dir
  /\ UNCHANGED <<content, readers, writers, callerVars, mishaps>>

(* A PATH without entries: errno is what it was, as a rule the 0 it was     *)
(* set to before the first fork().                                         *)
NothingToTry ==
  /\ pc["grandchild"] = "exec" /\ dir = 0
  /\ Goto("grandchild", "failed")
  /\ errno' \in Errnos \cup {0}
  /\ UNCHANGED <<content, readers, writers, callerVars, dir, mishaps>>

(* exec_cmd(): the two ints are written one after the other.               *)
ReportFailed ==
  /\ pc["grandchild"] = "failed"
  /\ Goto("grandchild", "failed2")
  /\ content' = [content EXCEPT !["err"] = Append(@, RUN_EXECVE_FAILED)]
  /\ UNCHANGED <<readers, writers, callerVars, execVars>>

ReportErrno ==
  /\ pc["grandchild"] = "failed2"
  /\ Goto("grandchild", "over")
  /\ content' = [content EXCEPT !["err"] = Append(@, errno)]
  /\ writers' = Without(writers, "grandchild")
  /\ UNCHANGED <<readers, callerVars, execVars>>

(* The program ends, if ever.                                              *)
ProgramEnds ==
  /\ pc["grandchild"] = "running"
  /\ Goto("grandchild", "ended")
  /\ writers' = Without(writers, "grandchild")
  /\ UNCHANGED <<content, readers, callerVars, execVars>>

(* Someone kills the child or the grandchild before it has reported.       *)
Kill(p) ==
  /\ \/ p = "child" /\ Fault("kill")
     \/ p = "grandchild" /\ Fault("kill2")
  /\ pc[p] \notin {"none", "running", "ended", "over"}
  /\ Goto(p, "over")
  /\ writers' = Without(writers, p)
  /\ UNCHANGED <<content, readers, callerVars, dir, errno>>
-------------------------------------------------------------------------------
(* run_async() has returned and no process of its is left.                 *)
Over ==
  /\ pc["caller"] = "done"
  /\ pc["child"] \in {"none", "over"}
  /\ pc["grandchild"] \in {"none", "ended", "over"}
  /\ UNCHANGED vars

Caller ==
  \/ Start \/ StartFails \/ Wait
  \/ \E p \in Pipes : ReadAgain(p)
  \/ ReadErr \/ ReadErrEnd \/ ReadPid \/ ReadPidEnd

Child == ChildForks \/ ChildForkFails \/ ChildReports

Grandchild ==
  \/ OpenNull \/ OpenNullFails \/ Exec \/ ExecFails \/ NothingToTry
  \/ ReportFailed \/ ReportErrno

Next ==
  \/ Caller \/ Child \/ Grandchild \/ ProgramEnds \/ Over
  \/ \E p \in Pipes : Interrupt(p)
  \/ \E p \in Process : Kill(p)

Spec == Init /\ [][Next]_vars

(* The kernel runs each process; a program need not end.                   *)
FairSpec == Spec /\ WF_vars(Caller) /\ WF_vars(Child) /\ WF_vars(Grandchild)
-------------------------------------------------------------------------------
Mute == {"fork2", "devnull", "kill", "kill2"}

(* What the caller is told of a program that did or did not start is true: *)
(* 0 and the pid of the program, or the reason why the last PATH entry     *)
(* tried failed; of a PATH without entries, whatever errno was, but not 0. *)
(* Depends on "err" reaching its end before "pid" is read and on both ints *)
(* of a failure arriving.  Some faults are not reported, see               *)
(* FailuresAreReported.                                                    *)
AnswerIsTrue ==
  pc["caller"] = "done" /\ mishaps \cap Mute = {} =>
    /\ ret = 0 => pc["grandchild"] \in {"running", "ended"} /\ child_pid = GrandchildPid
    /\ pc["child"] # "none" /\ ret # 0 =>
         /\ pc["grandchild"] \in {"failed2", "over"}
         /\ ret = Convert(errno, RUN_EXECVE_FAILED)

(* "0 if starting and quitting program went fine; otherwise return one of  *)
(* RUN_* codes" (Run.h:44), and "from now on every error is reported via   *)
(* pipe" (Run.cpp:302): 0 is returned only for a program that started.     *)
FailuresAreReported ==
  pc["caller"] = "done" /\ ret = 0 => pc["grandchild"] \in {"running", "ended"}

(* When run_async() had a child, whatever became of it, no end of a pipe   *)
(* and no zombie stays with the caller.                                    *)
NothingLeft ==
  pc["caller"] = "done" /\ pc["child"] # "none" =>
    /\ pc["child"] = "over"
    /\ \A p \in Pipes : "caller" \notin readers[p] \cup writers[p]

(* "run_async() ... without blocking" (Run.h:50): it returns, though the   *)
(* program it started may never end.  It does not when a signal interrupts *)
(* a read() or the child is killed before it has reported the pid, as the  *)
(* program holds a write end of "pid" too.  Depends on every write end of  *)
(* "err" being closed, by close() or on exec.                              *)
Returns == <>(pc["caller"] = "done" \/ eintr \/ "kill" \in mishaps)
===============================================================================
