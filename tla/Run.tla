--------------------------------- MODULE Run ----------------------------------
(***************************************************************************)
(* A program is started by run_async() or run_sync() of Run.cpp, or by a    *)
(* PtyProcess, which goes on to talk to it.                                *)
(***************************************************************************)
EXTENDS RunAsync, PtyProcess

VARIABLES
  call,         \* which of them: of run_internal() this is its argument async
  wstat, image  \* of run_sync()

Sync == INSTANCE RunSync

asyncVars == <<content, readers, writers, buf, eintr, interrupts, mishaps, errno, child_pid>>
syncVars  == <<wstat, image>>
runVars   == <<vars, pty, call, syncVars>>

(* Of the callers that call another one the variables keep these values.   *)
NoPipes ==
  /\ content = [p \in Pipes |-> <<>>]
  /\ readers = [p \in Pipes |-> {}] /\ writers = readers
  /\ buf = <<>> /\ eintr = FALSE /\ interrupts = 0 /\ mishaps = {}
  /\ errno = 0 /\ child_pid = Unset

RunInit ==
  /\ PtyInit
  /\ \/ call = "async" /\ Init /\ wstat = -1 /\ image = "fork"
     \/ call = "sync" /\ Sync!Init /\ NoPipes
     \/ call = "pty" /\ Sync!Init /\ NoPipes /\ dir = 0

RunAsyncNext == call = "async" /\ Next /\ UNCHANGED <<call, syncVars, pty>>

RunSyncNext == call = "sync" /\ Sync!Next /\ UNCHANGED <<call, asyncVars, pty>>

RunPtyNext == call = "pty" /\ PtyNext /\ UNCHANGED <<call, vars, syncVars>>

RunNext == RunAsyncNext \/ RunSyncNext \/ RunPtyNext

RunSpec == RunInit /\ [][RunNext]_runVars

(* The kernel runs each process of run_async(), and the caller of a         *)
(* PtyProcess; a program need not end.                                     *)
RunFairSpec ==
  /\ RunSpec
  /\ WF_runVars(call = "async" /\ Caller /\ UNCHANGED <<call, syncVars, pty>>)
  /\ WF_runVars(call = "async" /\ Child /\ UNCHANGED <<call, syncVars, pty>>)
  /\ WF_runVars(call = "async" /\ Grandchild /\ UNCHANGED <<call, syncVars, pty>>)
  /\ WF_runVars(call = "pty" /\ Waits /\ UNCHANGED <<call, vars, syncVars>>)
-------------------------------------------------------------------------------
(* Whichever is called, every variable has its type; of run_sync() this    *)
(* says that no wait status is decoded into something that is neither an   *)
(* exit status nor a RUN_* code (Run.cpp:420-434).                         *)
RunTypeOK ==
  CASE call = "async" -> TypeOK
    [] call = "sync"  -> Sync!TypeOK
    [] call = "pty"   -> PtyTypeOK

(* AnswerIsTrue, NothingLeft and Returns of calls of run_async(),          *)
(* ZeroIsAnExit and ZeroMeansFine of calls of run_sync(), TalkArrives and  *)
(* CallsReturn of a PtyProcess; see there.                                 *)
AsyncAnswerIsTrue        == call = "async" => AnswerIsTrue
AsyncFailuresAreReported == call = "async" => FailuresAreReported
AsyncNothingLeft         == call = "async" => NothingLeft
AsyncReturns             == call = "async" => Returns
SyncZeroIsAnExit         == call = "sync" => Sync!ZeroIsAnExit
SyncZeroMeansFine        == call = "sync" => Sync!ZeroMeansFine
PtyTalkArrives           == call = "pty" => TalkArrives
PtyCallsReturn           == call = "pty" => CallsReturn
===============================================================================
