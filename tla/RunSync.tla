-------------------------------- MODULE RunSync --------------------------------
(***************************************************************************)
(* run_sync() of Run.cpp: the caller forks a child that becomes the        *)
(* program and waits for it.  A child that cannot become the program exits *)
(* with the errno of execve(), so that the caller cannot tell it from a    *)
(* program that exits with this number.                                    *)
(***************************************************************************)
EXTENDS RunExec

VARIABLES
  pc,     \* of the caller and of the child
  dir,    \* entries of PATH left to try; one for a command with a '/'
  wstat,  \* how the child ended, as waitpid() tells it; -1 before it has
  image,  \* what the child executes: the code of the fork, the program, or
          \* what follows run_sync() in a copy of the caller
  ret     \* what run_sync() returned in the caller

vars == <<pc, dir, wstat, image, ret>>

Process  == {"caller", "child"}
CallerPC == {"start", "wait", "back"}
ChildPC  == {"none", "open", "exec", "running", "back", "zombie", "reaped"}

Unset    == -2      \* has not returned
MaxWstat == 65535

TypeOK ==
  /\ DOMAIN pc = Process /\ pc["caller"] \in CallerPC /\ pc["child"] \in ChildPC
  /\ dir \in 0..Dirs
  /\ wstat \in -1..MaxWstat
  /\ image \in {"fork", "program", "copy"}
  /\ ret \in {Unset} \cup Codes \cup (0..MaxExit)

(* A wait status holds the exit status in its second byte and the signal   *)
(* in the low seven bits of its first; these are the macros of wait(2).    *)
Exited(s)       == s * 256
WIFEXITED(w)    == w % 128 = 0
WEXITSTATUS(w)  == (w \div 256) % 256
WIFSIGNALED(w)  == w % 128 \in 1..MaxSignal
WTERMSIG(w)     == w % 128

Init ==
  /\ pc = [caller |-> "start", child |-> "none"]
  /\ dir \in 0..Dirs /\ wstat = -1 /\ image = "fork" /\ ret = Unset

Goto(p, where) == pc' = [pc EXCEPT ![p] = where]

Return(code) ==
  /\ Goto("caller", "back")
  /\ ret' = code
-------------------------------------------------------------------------------
Fork ==
  /\ pc["caller"] = "start"
  /\ pc' = [caller |-> "wait", child |-> "open"]
  /\ UNCHANGED <<dir, wstat, image, ret>>

ForkFails ==
  /\ "fork" \in Faults
  /\ pc["caller"] = "start"
  /\ Return(RUN_FORK_FAILED)
  /\ UNCHANGED <<dir, wstat, image>>

OpenNull ==
  /\ pc["child"] = "open"
  /\ Goto("child", "exec")
  /\ UNCHANGED <<dir, wstat, image, ret>>

(* The child returns from run_sync() too.                                  *)
OpenNullFails ==
  /\ "devnull" \in Faults
  /\ pc["child"] = "open"
  /\ Goto("child", "back")
  /\ image' = "copy"
  /\ UNCHANGED <<dir, wstat, ret>>

Exec ==
  /\ pc["child"] = "exec" /\ dir # 0
  /\ Goto("child", "running")
  /\ image' = "program"
  /\ UNCHANGED <<dir, wstat, ret>>

End(w) ==
  /\ Goto("child", "zombie")
  /\ wstat' = w

(* Mutant: the child exits as if all were well.                            *)
ExecFailsSilently ==
  /\ pc["child"] = "exec" /\ dir # 0
  /\ End(Exited(0))
  /\ UNCHANGED <<dir, image, ret>>

(* execve() fails for a PATH entry; the last error is the exit status.     *)
ExecFails ==
  /\ pc["child"] = "exec" /\ dir # 0
  /\ \E e \in Errnos :
       IF TriesNext(e) /\ dir > 1
         THEN dir' = dir - 1 /\ UNCHANGED <<pc, wstat>>
         ELSE End(Exited(e)) /\ UNCHANGED dir
  /\ UNCHANGED <<image, ret>>

(* A PATH that strtok() finds no entry in: the exit status is an errno of  *)
(* before, or 0.                                                           *)
NothingToTry ==
  /\ pc["child"] = "exec" /\ dir = 0
  /\ \E e \in Errnos \cup {0} : End(Exited(e))
  /\ UNCHANGED <<dir, image, ret>>

ProgramExits ==
  /\ pc["child"] = "running"
  /\ \E s \in Statuses : End(Exited(s))
  /\ UNCHANGED <<dir, image, ret>>

(* A signal kills the program, or the child on its way there.              *)
ChildIsKilled ==
  /\ pc["child"] \in {"open", "exec", "running"}
  /\ \E s \in Signals : End(s)
  /\ UNCHANGED <<dir, image, ret>>

(* The child's copy of the caller comes to an end of its own.              *)
CopyExits ==
  /\ pc["child"] = "back"
  /\ \E s \in Statuses : End(Exited(s))
  /\ UNCHANGED <<dir, image, ret>>

(* Mutant: WEXITSTATUS is forgotten.                                       *)
DecodeRaw(w) ==
  IF ~WIFEXITED(w) THEN WEXITSTATUS(w)
  ELSE IF WIFSIGNALED(w) THEN WTERMSIG(w) ELSE Convert(w, w)

(* What the caller makes of a wait status: the first test is inverted, so  *)
(* that the second is made of programs that exited only.                   *)
Decode(w) ==
  IF ~WIFEXITED(w)
    THEN WEXITSTATUS(w)
    ELSE IF WIFSIGNALED(w)
      THEN WTERMSIG(w)
      ELSE Convert(WEXITSTATUS(w), WEXITSTATUS(w))

Wait ==
  /\ pc["caller"] = "wait"
  /\ pc["child"] = "zombie"
  /\ pc' = [caller |-> "back", child |-> "reaped"]
  /\ ret' = Decode(wstat)
  /\ UNCHANGED <<dir, wstat, image>>

(* waitpid() is not retried.                                               *)
WaitFails ==
  /\ "signal" \in Faults
  /\ pc["caller"] = "wait"
  /\ pc["child"] # "zombie"
  /\ Return(RUN_WAITPID_FAILED)
  /\ UNCHANGED <<dir, wstat, image>>

Over ==
  /\ pc["caller"] = "back"
  /\ pc["child"] \in {"none", "zombie", "reaped"}
  /\ UNCHANGED vars

Next ==
  \/ Fork \/ ForkFails \/ OpenNull \/ OpenNullFails \/ Exec \/ ExecFails
  \/ NothingToTry \/ ProgramExits \/ ChildIsKilled \/ CopyExits \/ Wait \/ WaitFails \/ Over

Spec == Init /\ [][Next]_vars
-------------------------------------------------------------------------------
(* "0 if starting and quitting program went fine" (Run.h:44), and only     *)
(* then: any other end of the program, or none, is not reported as 0.      *)
ZeroMeansFine == ret = 0 => image = "program" /\ wstat = Exited(0)

(* The same of children that are not killed and do not return, when there  *)
(* is something to execute: whatever PATH entry fails and however, 0 is    *)
(* the program's own 0.  Depends on every path through exec_cmd() ending   *)
(* in an exit with errno, which is not 0 once an execve() has failed.  A    *)
(* PATH without entries ("", ":") is left out (dir = 0): no execve() is     *)
(* tried, the child exits with an errno that is as a rule 0, and 0 is      *)
(* returned though no program ran (Run.cpp:209, 256).                      *)
ZeroIsAnExit ==
  ret = 0 /\ WIFEXITED(wstat) /\ image # "copy" /\ dir # 0 =>
    image = "program" /\ WEXITSTATUS(wstat) = 0
===============================================================================
