-------------------------------- MODULE RunExec --------------------------------
(***************************************************************************)
(* What run_sync() and run_async() share (Run.cpp): the return codes and   *)
(* how a command is looked for on PATH.                                    *)
(***************************************************************************)
EXTENDS Integers, Sequences

CONSTANTS
  Dirs,      \* at most so many entries of PATH
  Faults,    \* what can go wrong besides execve(): see AllFaults
  Statuses,  \* exit statuses of programs, out of 0..255
  Signals    \* signals that kill programs, out of 1..126

AllFaults ==
  {"pipe", "fork",  \* pipe() or fork() fails in the caller
   "fork2",         \* fork() fails in the child
   "devnull",       \* open("/dev/null") fails
   "kill", "kill2", \* the child, the grandchild is killed
   "signal"}        \* a signal interrupts the caller in a system call

(* What a wait status has room for.                                        *)
MaxExit   == 255
MaxSignal == 126

ASSUME ExecAssumption ==
  /\ Dirs \in Nat
  /\ Faults \subseteq AllFaults
  /\ Statuses \subseteq 0..MaxExit
  /\ Signals \subseteq 1..MaxSignal

(* The codes of Run.h.                                                     *)
RUN_NOT_FOUND      == 65535
RUN_NOT_EXEC       == 65533
RUN_FORK_FAILED    == 65532
RUN_WAITPID_FAILED == 65531
RUN_EXECVE_FAILED  == 65530
RUN_PIPE_FAILED    == 65529
RUN_NO_ACCESS      == 65528

Codes == {RUN_NOT_FOUND, RUN_NOT_EXEC, RUN_FORK_FAILED, RUN_WAITPID_FAILED,
          RUN_EXECVE_FAILED, RUN_PIPE_FAILED, RUN_NO_ACCESS}

(* What an execve() that fails leaves in errno, as Linux numbers them; EIO  *)
(* stands for every other error.                                           *)
ENOENT  == 2
EIO     == 5
ENOEXEC == 8
EACCES  == 13
ENOTDIR == 20

Errnos == {ENOENT, EIO, ENOEXEC, EACCES, ENOTDIR}

(* convert_from_errno()                                                    *)
Convert(e, fallback) ==
  CASE e = ENOEXEC -> RUN_NOT_EXEC
    [] e = ENOENT  -> RUN_NOT_FOUND
    [] e = EACCES  -> RUN_NO_ACCESS
    [] OTHER       -> fallback

(* exec_cmd(): the errors with which the search goes on to the next entry. *)
(* An ENOEXEC is tried again through /bin/sh: the errno that counts is     *)
(* then the one of execve("/bin/sh"), and it too can be any.               *)
TriesNext(e) == e \in {EACCES, ENOENT, ENOTDIR}
===============================================================================
