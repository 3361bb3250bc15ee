------------------------------- MODULE RunProofs -------------------------------
(***************************************************************************)
(* What run_async() and run_sync() tell their callers, for any number of   *)
(* PATH entries, any faults, statuses and signals; and what arrives when a *)
(* caller and a program talk over a pseudo terminal.                       *)
(***************************************************************************)
EXTENDS Run, DataTheorems

(* Where the three processes are together: the caller waits for the child  *)
(* before it reads, and the child starts the grandchild before it reports. *)
InStep ==
  /\ pc["caller"] = "start" =>
       /\ pc["child"] = "none" /\ ret = Unset
       /\ readers = [p \in Pipes |-> {}] /\ writers = [p \in Pipes |-> {}]
  /\ pc["child"] = "none" => pc["grandchild"] = "none" /\ pc["caller"] \in {"start", "done"}
  /\ pc["child"] = "fork" => pc["grandchild"] = "none"
  /\ pc["child"] = "report" => pc["grandchild"] # "none"
  /\ pc["caller"] \in {"readErr", "readPid"} => pc["child"] = "over"
  /\ pc["caller"] = "done" => pc["child"] \in {"none", "over"}
  /\ pc["caller"] # "done" => ret = Unset
  /\ eintr => pc["caller"] \in {"readErr", "readPid"}

(* Who has an end of a pipe open.  The caller has none when it is done.    *)
EndsHeld ==
  pc["child"] # "none" =>
    \A p \in Pipes :
      /\ "caller" \notin writers[p]
      /\ pc["caller"] = "done" => "caller" \notin readers[p]
      /\ pc["child"] \in {"fork", "report"} => "child" \in writers[p]
      /\ pc["grandchild"] \in {"open", "exec", "failed", "failed2"} =>
           "grandchild" \in writers[p]

Silent == mishaps \cap Mute = {}

(* What was read from "err", and what is there to be read.                 *)
Waiting    == <<buf, content["err"]>>
One(x)     == {<<<<>>, <<x>>>>, <<<<x>>, <<>>>>}
Two(x, y)  == {<<<<>>, <<x, y>>>>, <<<<x>>, <<y>>>>}

(* As long as the caller reads "err" it has read, or can read, what the    *)
(* grandchild has written: both ints when it came to its end by itself.    *)
ErrIsReported ==
  pc["caller"] \in {"start", "wait", "readErr"} /\ ~eintr =>
    /\ pc["child"] \in {"none", "fork"} => Waiting = <<<<>>, <<>>>>
    /\ pc["grandchild"] \in {"open", "exec", "failed", "running", "ended"} =>
         Waiting = <<<<>>, <<>>>>
    /\ pc["grandchild"] = "failed2" => Waiting \in One(RUN_EXECVE_FAILED)
    /\ pc["grandchild"] = "over" /\ Silent => Waiting \in Two(RUN_EXECVE_FAILED, errno)
    /\ Waiting \in {<<<<>>, <<>>>>} \cup Two(RUN_EXECVE_FAILED, errno)
                     \cup UNION {One(x) : x \in Ints}

(* The child has reported the pid of a grandchild, which is started.       *)
PidIsReported ==
  Silent =>
    /\ pc["child"] = "over" => pc["grandchild"] # "none"
    /\ pc["caller"] = "readPid" => pc["grandchild"] \in {"running", "ended"}
    /\ pc["caller"] # "done" /\ ~eintr =>
         content["pid"] = IF pc["child"] = "over" THEN <<GrandchildPid>> ELSE <<>>

AsyncInv ==
  /\ TypeOK /\ InStep /\ EndsHeld
  /\ ErrIsReported /\ PidIsReported /\ AnswerIsTrue

-------------------------------------------------------------------------------
(* run_async()                                                             *)

LEMMA IntSequences ==
  /\ <<>> \in Seq(Ints)
  /\ \A s \in Seq(Ints), x \in Ints : Append(s, x) \in Seq(Ints)
  /\ \A s \in Seq(Ints) : s # <<>> => Head(s) \in Ints /\ Tail(s) \in Seq(Ints)
OBVIOUS

LEMMA AsyncInitially == Init => AsyncInv
<1> SUFFICES ASSUME Init PROVE AsyncInv
  OBVIOUS
<1> USE DEF Init
<1>1. TypeOK
  <2>1. DOMAIN pc = Process
    BY DEF Process
  <2>2. pc["caller"] \in CallerPC /\ pc["child"] \in ChildPC /\ pc["grandchild"] \in GrandchildPC
    BY DEF CallerPC, ChildPC, GrandchildPC
  <2>3. dir \in 0..Dirs /\ interrupts \in 0..MaxInterrupts
    BY ExecAssumption, InterruptsAssumption
  <2> QED
    BY <2>1, <2>2, <2>3, IntSequences DEF TypeOK
<1>2. InStep /\ EndsHeld /\ PidIsReported /\ AnswerIsTrue
  BY DEF InStep, EndsHeld, PidIsReported, AnswerIsTrue, Pipes
<1>3. ErrIsReported
  BY DEF ErrIsReported, Waiting, Pipes
<1> QED
  BY <1>1, <1>2, <1>3 DEF AsyncInv

(* Fewer faults have happened before than after a step.                    *)
LEMMA FaultsAddUp ==
  ASSUME NEW f, Fault(f)
  PROVE  /\ mishaps \in SUBSET Faults => mishaps' \in SUBSET Faults
         /\ Silent' => Silent /\ f \notin Mute
BY DEF Fault, Silent

LEMMA BeginningKeeps ==
  ASSUME AsyncInv, StartFails \/ Start \/ Wait
  PROVE  AsyncInv'
<1> USE DEF AsyncInv
<1>1. CASE StartFails
  <2> USE <1>1 DEF StartFails, Goto
  <2>1. pc'["caller"] = "done" /\ pc'["child"] = "none" /\ pc'["grandchild"] = "none"
    BY DEF TypeOK, Process, InStep
  <2>2. TypeOK'
    BY <2>1 DEF TypeOK, Process, CallerPC, ChildPC, GrandchildPC, Codes, Fault, Pipes
  <2>3. InStep' /\ EndsHeld'
    BY <2>1 DEF InStep, EndsHeld
  <2>4. ErrIsReported' /\ PidIsReported'
    BY <2>1 DEF ErrIsReported, PidIsReported
  <2>5. AnswerIsTrue'
    BY <2>1 DEF AnswerIsTrue, RUN_PIPE_FAILED, RUN_FORK_FAILED
  <2> QED
    BY <2>2, <2>3, <2>4, <2>5
<1>2. CASE Start
  <2> USE <1>2 DEF Start, callerVars, execVars
  <2>1. pc'["caller"] = "wait" /\ pc'["child"] = "fork" /\ pc'["grandchild"] = "none"
        /\ pc["child"] = "none" /\ pc["grandchild"] = "none"
    BY DEF TypeOK, Process, InStep
  <2>2. TypeOK'
    BY <2>1 DEF TypeOK, Process, CallerPC, ChildPC, GrandchildPC, Pipes
  <2>3. InStep' /\ EndsHeld'
    BY <2>1 DEF InStep, EndsHeld
  <2>4. ErrIsReported' /\ PidIsReported' /\ AnswerIsTrue'
    BY <2>1 DEF ErrIsReported, PidIsReported, AnswerIsTrue, Waiting, Silent
  <2> QED
    BY <2>2, <2>3, <2>4
<1>3. CASE Wait
  <2> USE <1>3 DEF Wait, callerVars, execVars, Goto
  <2>1. pc'["caller"] = "readErr" /\ pc'["child"] = "over"
        /\ pc["child"] = "over" /\ pc'["grandchild"] = pc["grandchild"]
    BY DEF TypeOK, Process
  <2>2. TypeOK'
    BY <2>1 DEF TypeOK, Process, CallerPC
  <2>3. InStep' /\ EndsHeld'
    BY <2>1 DEF InStep, EndsHeld
  <2>4. ErrIsReported' /\ PidIsReported' /\ AnswerIsTrue'
    BY <2>1 DEF ErrIsReported, PidIsReported, AnswerIsTrue, Waiting, Silent
  <2> QED
    BY <2>2, <2>3, <2>4
<1> QED
  BY <1>1, <1>2, <1>3

(* The caller reads.  Once it was interrupted nothing is known but types.  *)
LEMMA ReadingKeeps ==
  ASSUME AsyncInv, NEW p \in Pipes, Interrupt(p) \/ ReadAgain(p)
  PROVE  AsyncInv'
<1> USE DEF AsyncInv
<1>1. pc' = pc /\ eintr' /\ writers' = writers /\ readers' = readers /\ ret' = ret
      /\ pc["caller"] \in {"readErr", "readPid"} /\ mishaps' = mishaps
      /\ child_pid' = child_pid /\ errno' = errno
  BY DEF Interrupt, ReadAgain, Reading, execVars, callerVars, TypeOK
<1>2. TypeOK'
  <2>1. interrupts' \in 0..MaxInterrupts /\ content' \in [Pipes -> Seq(Ints)]
    <3>1. CASE Interrupt(p)
      BY <3>1, InterruptsAssumption DEF Interrupt, TypeOK
    <3>2. CASE ReadAgain(p)
      BY <3>2, IntSequences DEF ReadAgain, callerVars, TypeOK
    <3> QED
      BY <3>1, <3>2
  <2> QED
    BY <1>1, <2>1 DEF Interrupt, ReadAgain, execVars, callerVars, TypeOK
<1>3. InStep' /\ EndsHeld' /\ ErrIsReported' /\ PidIsReported'
  BY <1>1 DEF InStep, EndsHeld, ErrIsReported, PidIsReported, Silent
<1>4. AnswerIsTrue'
  BY <1>1 DEF AnswerIsTrue
<1> QED
  BY <1>2, <1>3, <1>4

LEMMA ReadErrKeeps ==
  ASSUME AsyncInv, ReadErr
  PROVE  AsyncInv'
<1> USE DEF AsyncInv, ReadErr, Reading, execVars
<1>0. PICK x : x = Head(content["err"])
  OBVIOUS
<1>1. /\ pc["caller"] = "readErr" /\ pc["child"] = "over" /\ ret = Unset
      /\ content["err"] # <<>> /\ x \in Ints /\ Tail(content["err"]) \in Seq(Ints)
      /\ content' = [content EXCEPT !["err"] = Tail(@)] /\ buf' = Append(buf, x)
      /\ ~eintr /\ ~eintr' /\ mishaps' = mishaps /\ errno' = errno /\ writers' = writers
  BY <1>0 DEF TypeOK, InStep, Pipes
<1>2. CASE buf = <<>>
  <2>1. buf' = <<x>> /\ pc' = pc /\ ret' = ret /\ readers' = readers
    BY <1>1, <1>2
  <2>2. TypeOK'
    <3>1. buf' \in Seq(Ints) /\ content' \in [Pipes -> Seq(Ints)]
      BY <1>1, IntSequences DEF TypeOK, Pipes
    <3> QED
      BY <1>1, <2>1, <3>1 DEF TypeOK
  <2>3. InStep' /\ EndsHeld' /\ PidIsReported' /\ AnswerIsTrue'
    BY <1>1, <2>1 DEF InStep, EndsHeld, PidIsReported, AnswerIsTrue, Silent, TypeOK, Pipes
  <2>4. ErrIsReported'
    <3>1. /\ pc["grandchild"] \notin {"open", "exec", "failed", "running", "ended"}
          /\ \/ \E y \in Ints : content["err"] = <<y>>
             \/ content["err"] = <<RUN_EXECVE_FAILED, errno>>
          /\ pc["grandchild"] = "failed2" => content["err"] = <<RUN_EXECVE_FAILED>>
          /\ pc["grandchild"] = "over" /\ Silent => content["err"] = <<RUN_EXECVE_FAILED, errno>>
      BY <1>1, <1>2 DEF ErrIsReported, Waiting, One, Two
    <3>2. /\ \/ content'["err"] = <<>>
             \/ x = RUN_EXECVE_FAILED /\ content'["err"] = <<errno>>
          /\ pc["grandchild"] = "failed2" => x = RUN_EXECVE_FAILED /\ content'["err"] = <<>>
          /\ pc["grandchild"] = "over" /\ Silent => x = RUN_EXECVE_FAILED /\ content'["err"] = <<errno>>
      <4>1. content'["err"] = Tail(content["err"])
        BY <1>1 DEF TypeOK, Pipes
      <4>2. CASE \E y \in Ints : content["err"] = <<y>>
        BY <1>0, <3>1, <4>1, <4>2, ShortSequences
      <4>3. CASE content["err"] = <<RUN_EXECVE_FAILED, errno>>
        BY <1>0, <3>1, <4>1, <4>3, ShortSequences
      <4> QED
        BY <3>1, <4>2, <4>3
    <3>3. \/ Waiting' \in One(x)
          \/ x = RUN_EXECVE_FAILED /\ Waiting' \in Two(x, errno)
      <4>1. Waiting' = <<<<x>>, content'["err"]>>
        BY <2>1 DEF Waiting
      <4>2. content'["err"] = <<>> => Waiting' \in One(x)
        BY <4>1 DEF One
      <4>3. content'["err"] = <<errno>> => Waiting' \in Two(x, errno)
        BY <4>1 DEF Two
      <4> QED
        BY <3>2, <4>2, <4>3
    <3>4. /\ pc["grandchild"] = "failed2" => Waiting' \in One(RUN_EXECVE_FAILED)
          /\ pc["grandchild"] = "over" /\ Silent => Waiting' \in Two(RUN_EXECVE_FAILED, errno)
      BY <2>1, <3>2 DEF Waiting, One, Two
    <3> QED
      BY <1>1, <2>1, <3>1, <3>3, <3>4 DEF ErrIsReported, Silent
  <2> QED
    BY <2>2, <2>3, <2>4
<1>3. CASE buf # <<>>
  <2>1. Waiting \in Two(RUN_EXECVE_FAILED, errno)
    BY <1>1, <1>3 DEF ErrIsReported, Waiting, One, Two
  <2>2. buf = <<RUN_EXECVE_FAILED>> /\ content["err"] = <<errno>> /\ x = errno
    BY <1>0, <1>3, <2>1, ShortSequences DEF Waiting, Two
  <2>3. buf' = <<RUN_EXECVE_FAILED, errno>>
    BY <1>1, <2>2, ShortSequences
  <2>4. Return(Convert(errno, RUN_EXECVE_FAILED))
    <3>1. Len(buf') = 2 /\ buf'[1] = RUN_EXECVE_FAILED /\ buf'[2] = errno
      BY ONLY <2>3
    <3> QED
      BY <3>1
  <2>5. /\ pc'["caller"] = "done" /\ pc'["child"] = "over" /\ pc'["grandchild"] = pc["grandchild"]
        /\ DOMAIN pc' = Process
        /\ ret' = Convert(errno, RUN_EXECVE_FAILED) /\ readers' = Without(readers, "caller")
    BY <1>1, <2>4 DEF Return, Goto, TypeOK, Process
  <2>6. Convert(errno, RUN_EXECVE_FAILED) \in Codes /\ 0 \notin Codes
    BY DEF Convert, Codes, RUN_NOT_FOUND, RUN_NOT_EXEC, RUN_FORK_FAILED, RUN_WAITPID_FAILED,
           RUN_EXECVE_FAILED, RUN_PIPE_FAILED, RUN_NO_ACCESS
  <2>7. TypeOK'
    <3>1. buf' \in Seq(Ints) /\ content' \in [Pipes -> Seq(Ints)]
      BY <1>1, IntSequences DEF TypeOK, Pipes
    <3> QED
      BY <1>1, <2>5, <2>6, <3>1 DEF TypeOK, CallerPC, Without
  <2>8. InStep' /\ EndsHeld' /\ PidIsReported' /\ ErrIsReported'
    BY <1>1, <2>5 DEF InStep, EndsHeld, PidIsReported, ErrIsReported, Without, Silent
  <2>9. Silent => pc["grandchild"] \in {"failed2", "over"}
    BY <1>1, <1>3, <2>1, <2>2 DEF ErrIsReported, PidIsReported, Waiting, One, Two, TypeOK, GrandchildPC
  <2>10. AnswerIsTrue'
    BY <1>1, <2>5, <2>6, <2>9 DEF AnswerIsTrue, Silent
  <2> QED
    BY <2>7, <2>8, <2>10
<1> QED
  BY <1>2, <1>3

LEMMA ReadErrEndKeeps ==
  ASSUME AsyncInv, ReadErrEnd
  PROVE  AsyncInv'
<1> USE DEF AsyncInv, ReadErrEnd, Reading, execVars, Goto
<1>1. /\ pc["caller"] = "readErr" /\ pc["child"] = "over" /\ ~eintr /\ ~eintr'
      /\ pc'["caller"] = "readPid" /\ pc'["child"] = "over"
      /\ pc'["grandchild"] = pc["grandchild"] /\ DOMAIN pc' = Process
      /\ mishaps' = mishaps /\ buf' = <<>>
  BY DEF TypeOK, InStep, Process
<1>2. TypeOK'
  BY <1>1 DEF TypeOK, CallerPC
<1>3. InStep' /\ EndsHeld' /\ ErrIsReported' /\ AnswerIsTrue'
  BY <1>1 DEF InStep, EndsHeld, ErrIsReported, AnswerIsTrue
<1>4. Silent => pc["grandchild"] \in {"running", "ended"}
  <2>1. pc["grandchild"] \notin {"open", "exec", "failed", "failed2"}
    BY <1>1 DEF EndOfFile, EndsHeld, Pipes
  <2>2. Silent => pc["grandchild"] \notin {"none", "over"}
    BY <1>1 DEF EndOfFile, ErrIsReported, PidIsReported, Waiting, Two
  <2> QED
    BY <2>1, <2>2 DEF TypeOK, GrandchildPC
<1>5. PidIsReported'
  BY <1>1, <1>4 DEF PidIsReported, Silent
<1> QED
  BY <1>2, <1>3, <1>5

LEMMA ReadPidKeeps ==
  ASSUME AsyncInv, ReadPid \/ ReadPidEnd
  PROVE  AsyncInv'
<1> USE DEF AsyncInv, Reading, execVars
<1>1. /\ pc["caller"] = "readPid" /\ pc["child"] = "over" /\ ~eintr /\ ~eintr'
      /\ mishaps' = mishaps /\ writers' = writers /\ buf' = buf
      /\ pc'["caller"] = "done" /\ pc'["child"] = "over"
      /\ pc'["grandchild"] = pc["grandchild"] /\ DOMAIN pc' = Process
      /\ readers' = Without(readers, "caller")
  BY DEF ReadPid, ReadPidEnd, Return, Goto, TypeOK, InStep, Process
<1>2. TypeOK'
  <2>1. CASE ReadPid
    BY <1>1, <2>1 DEF ReadPid, Return, TypeOK, CallerPC, Without, Pipes
  <2>2. CASE ReadPidEnd
    BY <1>1, <2>2 DEF ReadPidEnd, Return, TypeOK, CallerPC, Without, Codes
  <2> QED
    BY <2>1, <2>2
<1>3. InStep' /\ EndsHeld' /\ ErrIsReported' /\ PidIsReported'
  BY <1>1 DEF InStep, EndsHeld, ErrIsReported, PidIsReported, Without, Silent
<1>4. AnswerIsTrue'
  <2>1. ASSUME Silent
        PROVE  /\ pc["grandchild"] \in {"running", "ended"} /\ content["pid"] = <<GrandchildPid>>
    BY <1>1, <2>1 DEF PidIsReported
  <2>2. Silent => ReadPid /\ child_pid' = GrandchildPid /\ ret' = 0
    BY SMTT(20), <2>1 DEF ReadPid, ReadPidEnd, EndOfFile, Return
  <2> QED
    BY <1>1, <2>1, <2>2 DEF AnswerIsTrue, Silent
<1> QED
  BY <1>2, <1>3, <1>4

LEMMA ChildKeeps ==
  ASSUME AsyncInv, ChildForks \/ ChildForkFails \/ ChildReports
  PROVE  AsyncInv'
<1> USE DEF AsyncInv, callerVars, execVars
<1>1. /\ pc["caller"] = "wait" /\ ~eintr /\ pc'["caller"] = pc["caller"]
      /\ pc["child"] \in {"fork", "report"} /\ DOMAIN pc' = Process
      /\ eintr' = eintr /\ buf' = buf /\ ret' = ret /\ readers' = readers
      /\ interrupts' = interrupts /\ child_pid' = child_pid /\ errno' = errno /\ dir' = dir
  BY DEF ChildForks, ChildForkFails, ChildReports, Goto, TypeOK, Process, InStep, CallerPC
<1>2. CASE ChildForks
  <2> USE <1>2 DEF ChildForks
  <2>1. /\ pc'["child"] = "report" /\ pc'["grandchild"] = "open"
        /\ pc["child"] = "fork" /\ pc["grandchild"] = "none"
    BY DEF TypeOK, Process, InStep
  <2>2. TypeOK'
    BY <1>1, <2>1 DEF TypeOK, ChildPC, GrandchildPC, Process
  <2>3. InStep'
    BY <1>1, <2>1 DEF InStep
  <2>5. EndsHeld'
    BY <1>1, <2>1 DEF EndsHeld
  <2>4. ErrIsReported' /\ PidIsReported' /\ AnswerIsTrue'
    BY <1>1, <2>1 DEF ErrIsReported, PidIsReported, AnswerIsTrue, Waiting, Silent
  <2> QED
    BY <2>2, <2>3, <2>4, <2>5
<1>3. CASE ChildForkFails
  <2> USE <1>3 DEF ChildForkFails
  <2>1. /\ pc'["child"] = "over" /\ pc'["grandchild"] = "none"
        /\ pc["child"] = "fork" /\ pc["grandchild"] = "none"
    BY DEF TypeOK, Process, InStep, Goto
  <2>2. ~Silent' /\ mishaps' \in SUBSET Faults
    BY FaultsAddUp DEF Mute, TypeOK
  <2>3. TypeOK'
    <3>1. -1 \in Ints /\ RUN_FORK_FAILED \in Ints
      BY DEF Ints, Codes
    <3>2. content' \in [Pipes -> Seq(Ints)]
      <4>1. content["pid"] \in Seq(Ints) /\ content["err"] \in Seq(Ints)
        BY DEF TypeOK, Pipes
      <4>2. \A a, b \in Seq(Ints) : [pid |-> a, err |-> b] \in [Pipes -> Seq(Ints)]
        BY DEF Pipes
      <4>3. /\ Append(content["pid"], -1) \in Seq(Ints)
            /\ Append(content["err"], RUN_FORK_FAILED) \in Seq(Ints)
        BY <3>1, <4>1, IntSequences
      <4> QED
        BY <4>2, <4>3
    <3> QED
      BY <1>1, <2>1, <2>2, <3>2 DEF TypeOK, ChildPC, GrandchildPC, Without
  <2>4. InStep' /\ EndsHeld'
    BY <1>1, <2>1 DEF InStep, EndsHeld, Without
  <2>5. Waiting' \in One(RUN_FORK_FAILED)
    BY <1>1, <2>1, ShortSequences DEF ErrIsReported, Waiting, One
  <2>6. ErrIsReported'
    BY <1>1, <2>1, <2>2, <2>5 DEF ErrIsReported, Ints, Codes
  <2>7. PidIsReported' /\ AnswerIsTrue'
    BY <2>2 DEF PidIsReported, AnswerIsTrue, Silent
  <2> QED
    BY <2>3, <2>4, <2>6, <2>7
<1>4. CASE ChildReports
  <2> USE <1>4 DEF ChildReports
  <2>1. /\ pc'["child"] = "over" /\ pc'["grandchild"] = pc["grandchild"]
        /\ pc["child"] = "report" /\ pc["grandchild"] # "none"
        /\ content'["pid"] = Append(content["pid"], GrandchildPid)
        /\ content'["err"] = content["err"]
    BY DEF TypeOK, Process, InStep, Goto, Pipes
  <2>2. TypeOK'
    <3>1. GrandchildPid \in Ints
      BY DEF Ints
    <3>2. content' \in [Pipes -> Seq(Ints)]
      BY <3>1, IntSequences DEF TypeOK, Pipes
    <3> QED
      BY <1>1, <2>1, <3>2 DEF TypeOK, ChildPC, Without
  <2>3. InStep' /\ EndsHeld'
    BY <1>1, <2>1 DEF InStep, EndsHeld, Without
  <2>4. ErrIsReported' /\ AnswerIsTrue'
    BY <1>1, <2>1 DEF ErrIsReported, AnswerIsTrue, Waiting, Silent
  <2>5. PidIsReported'
    BY <1>1, <2>1, ShortSequences DEF PidIsReported, Silent
  <2> QED
    BY <2>2, <2>3, <2>4, <2>5
<1> QED
  BY <1>2, <1>3, <1>4

LEMMA GrandchildKeeps ==
  ASSUME AsyncInv, Grandchild \/ ProgramEnds
  PROVE  AsyncInv'
<1> USE DEF AsyncInv, callerVars, execVars
<1> DEFINE g  == pc["grandchild"]
           g2 == pc'["grandchild"]
<1>1. /\ pc["child"] # "none" /\ pc["child"] # "fork"
      /\ pc'["caller"] = pc["caller"] /\ pc'["child"] = pc["child"] /\ DOMAIN pc' = Process
      /\ eintr' = eintr /\ buf' = buf /\ ret' = ret /\ readers' = readers
      /\ interrupts' = interrupts /\ child_pid' = child_pid
  BY DEF Grandchild, OpenNull, OpenNullFails, Exec, ExecFails, NothingToTry, ReportFailed,
         ReportErrno, ProgramEnds, Goto, TypeOK, Process, InStep
<1>2. CASE OpenNull \/ Exec \/ ProgramEnds
  <2>1. /\ g2 \in GrandchildPC \ {"none", "open", "failed", "failed2", "over"}
        /\ g \in {"open", "exec", "running"}
        /\ g = "running" => g2 = "ended"
        /\ g2 = "exec" => writers' = writers /\ g = "open"
    BY <1>2 DEF OpenNull, Exec, ProgramEnds, Goto, TypeOK, Process, GrandchildPC
  <2>2. /\ content' = content /\ mishaps' = mishaps /\ errno' = errno /\ dir' = dir
        /\ writers' \in [Pipes -> SUBSET Process]
        /\ \A p \in Pipes, q \in Process : q # "grandchild" => (q \in writers'[p] <=> q \in writers[p])
    BY <1>2 DEF OpenNull, Exec, ProgramEnds, TypeOK, Without, Pipes
  <2>3. TypeOK'
    BY <1>1, <2>1, <2>2 DEF TypeOK
  <2>4. InStep'
    BY <1>1, <2>1 DEF InStep
  <2>5. EndsHeld'
    BY <1>1, <2>1, <2>2 DEF EndsHeld, Process
  <2>6. ErrIsReported'
    BY <1>1, <2>1, <2>2 DEF ErrIsReported, Waiting, Silent, GrandchildPC
  <2>7. PidIsReported' /\ AnswerIsTrue'
    BY <1>1, <2>1, <2>2 DEF PidIsReported, AnswerIsTrue, Silent, GrandchildPC
  <2> QED
    BY <2>3, <2>4, <2>5, <2>6, <2>7
<1>3. CASE OpenNullFails
  <2> USE <1>3 DEF OpenNullFails, Goto
  <2>1. g = "open" /\ g2 = "over"
    BY DEF TypeOK, Process
  <2>2. ~Silent' /\ mishaps' \in SUBSET Faults
    BY FaultsAddUp DEF Mute, TypeOK
  <2>3. TypeOK'
    <3>1. content["pid"] \in Seq(Ints) /\ content["err"] \in Seq(Ints)
      BY DEF TypeOK, Pipes
    <3>2. \A a, b \in Seq(Ints) : [pid |-> a, err |-> b] \in [Pipes -> Seq(Ints)]
      BY DEF Pipes
    <3>3. 0 \in Ints /\ ENOENT \in Ints
      BY DEF Ints, Errnos
    <3>4. Append(content["pid"], 0) \in Seq(Ints) /\ Append(content["err"], ENOENT) \in Seq(Ints)
      BY <3>1, <3>3, IntSequences
    <3>5. content' \in [Pipes -> Seq(Ints)]
      BY <3>2, <3>4
    <3> QED
      BY <1>1, <2>1, <2>2, <3>5 DEF TypeOK, GrandchildPC, Without
  <2>4. InStep' /\ EndsHeld'
    BY <1>1, <2>1 DEF InStep, EndsHeld, Without
  <2>5. pc["caller"] \in {"start", "wait", "readErr"} /\ ~eintr => Waiting' \in One(ENOENT)
    BY <1>1, <2>1, ShortSequences DEF ErrIsReported, Waiting, One
  <2>6. ErrIsReported'
    BY <1>1, <2>1, <2>2, <2>5 DEF ErrIsReported, Ints, Errnos
  <2>7. PidIsReported' /\ AnswerIsTrue'
    BY <2>2 DEF PidIsReported, AnswerIsTrue, Silent
  <2> QED
    BY <2>3, <2>4, <2>6, <2>7
<1>4. CASE ExecFails \/ NothingToTry
  <2> USE <1>4 DEF ExecFails, NothingToTry, Goto
  <2>1. g = "exec" /\ g2 \in {"exec", "failed"}
    BY DEF TypeOK, Process
  <2>2. TypeOK'
    <3>1. dir' \in 0..Dirs /\ errno' \in Errnos \cup {0}
      BY ExecAssumption DEF TypeOK
    <3> QED
      BY <1>1, <2>1, <3>1 DEF TypeOK, GrandchildPC
  <2>3. InStep' /\ EndsHeld'
    BY <1>1, <2>1 DEF InStep, EndsHeld
  <2>4. ErrIsReported' /\ PidIsReported' /\ AnswerIsTrue'
    BY <1>1, <2>1 DEF ErrIsReported, PidIsReported, AnswerIsTrue, Waiting, Silent
  <2> QED
    BY <2>2, <2>3, <2>4
<1>5. CASE ReportFailed
  <2> USE <1>5 DEF ReportFailed, Goto
  <2>1. g = "failed" /\ g2 = "failed2" /\ content'["pid"] = content["pid"]
        /\ content'["err"] = Append(content["err"], RUN_EXECVE_FAILED)
    BY DEF TypeOK, Process, Pipes
  <2>2. TypeOK'
    <3>1. RUN_EXECVE_FAILED \in Ints
      BY DEF Ints, Codes
    <3>2. content' \in [Pipes -> Seq(Ints)]
      BY <3>1, IntSequences DEF TypeOK, Pipes
    <3> QED
      BY <1>1, <2>1, <3>2 DEF TypeOK, GrandchildPC
  <2>3. InStep' /\ EndsHeld'
    BY <1>1, <2>1 DEF InStep, EndsHeld
  <2>4. pc["caller"] \in {"start", "wait", "readErr"} /\ ~eintr => Waiting' \in One(RUN_EXECVE_FAILED)
    BY <1>1, <2>1, ShortSequences DEF ErrIsReported, Waiting, One
  <2>5. ErrIsReported'
    BY <1>1, <2>1, <2>4 DEF ErrIsReported, Ints, Codes
  <2>6. PidIsReported' /\ AnswerIsTrue'
    BY <1>1, <2>1 DEF PidIsReported, AnswerIsTrue, Silent
  <2> QED
    BY <2>2, <2>3, <2>5, <2>6
<1>6. CASE ReportErrno
  <2> USE <1>6 DEF ReportErrno, Goto
  <2>1. g = "failed2" /\ g2 = "over" /\ content'["pid"] = content["pid"]
        /\ content'["err"] = Append(content["err"], errno)
    BY DEF TypeOK, Process, Pipes
  <2>2. TypeOK'
    <3>1. errno \in Ints
      BY DEF Ints, TypeOK
    <3>2. content' \in [Pipes -> Seq(Ints)]
      BY <3>1, IntSequences DEF TypeOK, Pipes
    <3> QED
      BY <1>1, <2>1, <3>2 DEF TypeOK, GrandchildPC, Without
  <2>3. InStep' /\ EndsHeld'
    BY <1>1, <2>1 DEF InStep, EndsHeld, Without
  <2>4. ASSUME pc["caller"] \in {"start", "wait", "readErr"}, ~eintr
        PROVE  Waiting' \in Two(RUN_EXECVE_FAILED, errno)
    <3>1. Waiting \in One(RUN_EXECVE_FAILED)
      BY <1>1, <2>1, <2>4 DEF ErrIsReported
    <3>2. Waiting' = <<buf, Append(content["err"], errno)>>
      BY <1>1, <2>1 DEF Waiting
    <3>3. CASE buf = <<>> /\ content["err"] = <<RUN_EXECVE_FAILED>>
      <4>1. Append(content["err"], errno) = <<RUN_EXECVE_FAILED, errno>>
        BY <3>3, ShortSequences
      <4> QED
        BY <3>2, <3>3, <4>1 DEF Two
    <3>4. CASE buf = <<RUN_EXECVE_FAILED>> /\ content["err"] = <<>>
      BY <3>2, <3>4, ShortSequences DEF Two
    <3> QED
      BY <3>1, <3>3, <3>4 DEF Waiting, One
  <2>5. ErrIsReported'
    BY <1>1, <2>1, <2>4 DEF ErrIsReported
  <2>6. PidIsReported' /\ AnswerIsTrue'
    BY <1>1, <2>1 DEF PidIsReported, AnswerIsTrue, Silent
  <2> QED
    BY <2>2, <2>3, <2>5, <2>6
<1> QED
  BY <1>2, <1>3, <1>4, <1>5, <1>6 DEF Grandchild

LEMMA KillKeeps ==
  ASSUME AsyncInv, NEW p \in Process, Kill(p)
  PROVE  AsyncInv'
<1> USE DEF AsyncInv, callerVars, Kill, Goto
<1>1. /\ p \in {"child", "grandchild"} /\ pc' = [pc EXCEPT ![p] = "over"]
      /\ pc[p] \notin {"none", "over"}
      /\ UNCHANGED <<content, readers, callerVars, dir, errno>>
      /\ writers' = Without(writers, p)
  OBVIOUS
<1>2. ~Silent' /\ mishaps' \in SUBSET Faults
  BY FaultsAddUp DEF Mute, TypeOK
<1>3. TypeOK'
  BY <1>1, <1>2 DEF TypeOK, Process, ChildPC, GrandchildPC, Without
<1>4. InStep' /\ EndsHeld'
  BY <1>1 DEF InStep, EndsHeld, Without, TypeOK, Process
<1>5. ErrIsReported'
  <2>1. Waiting' = Waiting /\ pc'["caller"] = pc["caller"] /\ eintr' = eintr /\ errno' = errno
    BY <1>1 DEF Waiting, TypeOK, Process
  <2>2. CASE p = "child"
    BY <1>1, <1>2, <2>1, <2>2 DEF ErrIsReported, TypeOK, Process
  <2>3. CASE p = "grandchild"
    BY <1>1, <1>2, <2>1, <2>3 DEF ErrIsReported, InStep, TypeOK, Process
  <2> QED
    BY <1>1, <2>2, <2>3
<1>6. PidIsReported' /\ AnswerIsTrue'
  BY <1>2 DEF PidIsReported, AnswerIsTrue, Silent
<1> QED
  BY <1>3, <1>4, <1>5, <1>6

LEMMA AsyncStepKeeps == AsyncInv /\ [Next]_vars => AsyncInv'
<1>1. ASSUME AsyncInv, UNCHANGED vars PROVE AsyncInv'
  BY SMTT(20), <1>1 DEF vars, AsyncInv, TypeOK, InStep, EndsHeld, ErrIsReported, PidIsReported,
              AnswerIsTrue, Waiting, Silent
<1> QED
  BY <1>1, BeginningKeeps, ReadingKeeps, ReadErrKeeps, ReadErrEndKeeps, ReadPidKeeps,
     ChildKeeps, GrandchildKeeps, KillKeeps DEF Next, Caller, Child, Over

-------------------------------------------------------------------------------
(* run_sync(): what is returned is made of how the child ended, and a      *)
(* child that had something to execute and never was the program ended     *)
(* with an errno or by a signal.                                           *)
SyncInv ==
  /\ Sync!TypeOK
  /\ pc["caller"] = "back" /\ pc["child"] # "reaped" => ret \in Sync!Codes
  /\ pc["child"] = "reaped" => ret = Sync!Decode(wstat)
  /\ pc["caller"] # "back" => ret = Sync!Unset /\ pc["child"] # "reaped"
  /\ pc["child"] \in {"running", "back"} => image # "fork"
  /\ image = "fork" /\ pc["child"] \in {"zombie", "reaped"} /\ dir # 0 =>
       wstat \in Signals \cup {Sync!Exited(e) : e \in Sync!Errnos}

(* What a wait status can be, with its bounds by name: the provers would   *)
(* go through an interval of numbers one by one.                           *)
LEMMA Bounds ==
  /\ MaxExit \in Nat /\ Sync!MaxExit \in Nat /\ Sync!MaxExit >= 255 /\ MaxExit <= 255
  /\ MaxSignal \in Nat /\ Sync!MaxSignal \in Nat /\ MaxSignal < 128
  /\ Sync!MaxWstat \in Nat /\ Sync!MaxWstat >= 65535
BY DEF MaxExit, Sync!MaxExit, MaxSignal, Sync!MaxSignal, Sync!MaxWstat

LEMMA SyncInitially == Sync!Init => SyncInv
BY ExecAssumption, Bounds
   DEF Sync!Init, SyncInv, Sync!TypeOK, Sync!Process, Sync!CallerPC, Sync!ChildPC, Sync!Unset

(* run_sync() makes of a wait status an exit status or one of the codes.   *)
LEMMA DecodesToACode ==
  ASSUME NEW w \in -1..Sync!MaxWstat
  PROVE  Sync!Decode(w) \in Sync!Codes \cup (0..Sync!MaxExit)
<1>1. Sync!WEXITSTATUS(w) \in 0..Sync!MaxExit
  BY Bounds DEF Sync!WEXITSTATUS
<1>2. Sync!WIFEXITED(w) => ~Sync!WIFSIGNALED(w)
  BY Bounds DEF Sync!WIFEXITED, Sync!WIFSIGNALED
<1>3. \A e, f : Sync!Convert(e, f) \in Sync!Codes \cup {f}
  BY DEF Sync!Convert, Sync!Codes
<1> DEFINE s == Sync!WEXITSTATUS(w)
<1>4. Sync!Decode(w) = s \/ Sync!Decode(w) = Sync!Convert(s, s)
  BY <1>2 DEF Sync!Decode
<1> HIDE DEF s
<1> QED
  BY <1>1, <1>3, <1>4 DEF s

(* The wait statuses that the model's ends have.                           *)
LEMMA StatusesFit ==
  /\ \A s \in Statuses : Sync!Exited(s) \in 0..Sync!MaxWstat
  /\ Signals \subseteq 1..MaxSignal
  /\ \A e \in Sync!Errnos \cup {0} : Sync!Exited(e) \in 0..Sync!MaxWstat
BY ExecAssumption, Bounds
   DEF Sync!Exited, Sync!Errnos, Sync!ENOENT, Sync!EIO, Sync!ENOEXEC, Sync!EACCES, Sync!ENOTDIR

LEMMA SyncStepKeeps == SyncInv /\ [Sync!Next]_(Sync!vars) => SyncInv'
<1> SUFFICES ASSUME SyncInv, [Sync!Next]_(Sync!vars) PROVE SyncInv'
  OBVIOUS
<1> USE DEF SyncInv, Sync!TypeOK
<1>0. Sync!CallerPC = {"start", "wait", "back"}
      /\ Sync!ChildPC = {"none", "open", "exec", "running", "back", "zombie", "reaped"}
  BY DEF Sync!CallerPC, Sync!ChildPC
<1>1. CASE UNCHANGED Sync!vars
  BY <1>1 DEF Sync!vars
<1>2. CASE Sync!Fork
  <2>1. /\ pc'["caller"] = "wait" /\ pc'["child"] = "open" /\ DOMAIN pc' = Sync!Process
        /\ pc["caller"] = "start" /\ UNCHANGED <<dir, wstat, image, ret>>
    BY <1>2 DEF Sync!Fork, Sync!Process
  <2> QED
    BY <1>0, <2>1
<1>3. CASE Sync!ForkFails \/ Sync!WaitFails
  <2>1. /\ pc'["caller"] = "back" /\ pc'["child"] = pc["child"] /\ DOMAIN pc' = Sync!Process
        /\ pc["caller"] # "back" /\ UNCHANGED <<dir, wstat, image>>
        /\ ret' \in Sync!Codes
    BY <1>3 DEF Sync!ForkFails, Sync!WaitFails, Sync!Return, Sync!Goto, Sync!Process, Sync!Codes
  <2> QED
    BY <1>0, <2>1
<1>4. CASE Sync!OpenNull \/ Sync!OpenNullFails \/ Sync!Exec
  <2>1. /\ pc'["caller"] = pc["caller"] /\ pc'["child"] \in {"exec", "back", "running"}
        /\ DOMAIN pc' = Sync!Process /\ UNCHANGED <<dir, wstat, ret>>
        /\ image' = image \/ image' \in {"copy", "program"}
        /\ pc'["child"] \in {"running", "back"} => image' # "fork"
        /\ pc["child"] \in {"open", "exec"}
    BY <1>4 DEF Sync!OpenNull, Sync!OpenNullFails, Sync!Exec, Sync!Goto, Sync!Process
  <2> QED
    BY <1>0, <2>1
(* The child comes to an end.                                              *)
<1>5. ASSUME NEW w, Sync!End(w), w \in 0..Sync!MaxWstat, UNCHANGED <<dir, image, ret>>,
             pc["child"] \notin {"zombie", "reaped"},
             image = "fork" /\ dir # 0 => w \in Signals \cup {Sync!Exited(e) : e \in Sync!Errnos}
      PROVE  SyncInv'
  <2>1. /\ pc'["caller"] = pc["caller"] /\ pc'["child"] = "zombie" /\ DOMAIN pc' = Sync!Process
        /\ wstat' = w
    BY <1>5 DEF Sync!End, Sync!Goto, Sync!Process
  <2>2. w \in -1..Sync!MaxWstat
    BY <1>5, Bounds
  <2> QED
    BY <1>0, <1>5, <2>1, <2>2
<1>6. CASE Sync!ExecFails
  <2>1. PICK e \in Sync!Errnos :
          IF Sync!TriesNext(e) /\ dir > 1
            THEN dir' = dir - 1 /\ UNCHANGED <<pc, wstat>>
            ELSE Sync!End(Sync!Exited(e)) /\ UNCHANGED dir
    BY <1>6 DEF Sync!ExecFails
  <2>2. pc["child"] = "exec" /\ UNCHANGED <<image, ret>>
    BY <1>6 DEF Sync!ExecFails
  <2>3. CASE Sync!TriesNext(e) /\ dir > 1
    <3>1. dir' \in 0..Dirs /\ dir # 0 /\ UNCHANGED <<pc, wstat, image, ret>>
      BY <2>1, <2>2, <2>3, ExecAssumption
    <3> QED
      BY <3>1
  <2>4. CASE ~(Sync!TriesNext(e) /\ dir > 1)
    BY <1>5, <2>1, <2>2, <2>4, StatusesFit
  <2> QED
    BY <2>3, <2>4
<1>7. CASE Sync!ProgramExits \/ Sync!CopyExits
  <2>1. PICK s \in Statuses : Sync!End(Sync!Exited(s))
    BY <1>7 DEF Sync!ProgramExits, Sync!CopyExits
  <2>2. UNCHANGED <<dir, image, ret>> /\ pc["child"] \in {"running", "back"}
    BY <1>7 DEF Sync!ProgramExits, Sync!CopyExits
  <2>3. image # "fork"
    BY <2>2
  <2> QED
    BY <1>5, <2>1, <2>2, <2>3, StatusesFit
<1>8. CASE Sync!ChildIsKilled
  <2>1. PICK g \in Signals : Sync!End(g)
    BY <1>8 DEF Sync!ChildIsKilled
  <2>2. g \in 0..Sync!MaxWstat
    BY StatusesFit, Bounds
  <2> QED
    BY <1>5, <1>8, <2>1, <2>2 DEF Sync!ChildIsKilled
<1>9. CASE Sync!Wait
  <2>1. /\ pc'["caller"] = "back" /\ pc'["child"] = "reaped" /\ DOMAIN pc' = Sync!Process
        /\ pc["child"] = "zombie" /\ UNCHANGED <<dir, wstat, image>> /\ ret' = Sync!Decode(wstat)
    BY <1>9 DEF Sync!Wait, Sync!Process
  <2>2. Sync!Decode(wstat) \in Sync!Codes \cup (0..Sync!MaxExit)
    BY DecodesToACode
  <2> QED
    BY <1>0, <2>1, <2>2
<1>10. CASE Sync!NothingToTry
  <2>1. PICK e \in Sync!Errnos \cup {0} : Sync!End(Sync!Exited(e))
    BY <1>10 DEF Sync!NothingToTry
  <2>2. pc["child"] = "exec" /\ dir = 0 /\ UNCHANGED <<dir, image, ret>>
    BY <1>10 DEF Sync!NothingToTry
  <2> QED
    BY <1>5, <2>1, <2>2, StatusesFit
<1>11. CASE Sync!Over
  BY <1>1, <1>11 DEF Sync!Over
<1> QED
  BY <1>1, <1>2, <1>3, <1>4, <1>6, <1>7, <1>8, <1>9, <1>10, <1>11 DEF Sync!Next

LEMMA SyncInvImplies == SyncInv => Sync!ZeroIsAnExit
<1> SUFFICES ASSUME SyncInv, ret = 0, Sync!WIFEXITED(wstat), image # "copy", dir # 0
             PROVE  image = "program" /\ Sync!WEXITSTATUS(wstat) = 0
  BY DEF Sync!ZeroIsAnExit
<1> USE DEF SyncInv, Sync!TypeOK
<1>1. 0 \notin Sync!Codes /\ 0 # Sync!Unset
  BY DEF Sync!Codes, Sync!Unset, Sync!RUN_NOT_FOUND, Sync!RUN_NOT_EXEC, Sync!RUN_FORK_FAILED,
         Sync!RUN_WAITPID_FAILED, Sync!RUN_EXECVE_FAILED, Sync!RUN_PIPE_FAILED, Sync!RUN_NO_ACCESS
<1>2. pc["child"] = "reaped" /\ Sync!Decode(wstat) = 0
  BY <1>1 DEF Sync!CallerPC
<1>3. ~Sync!WIFSIGNALED(wstat)
  BY Bounds DEF Sync!WIFEXITED, Sync!WIFSIGNALED
<1> DEFINE s == Sync!WEXITSTATUS(wstat)
<1>4. Sync!Convert(s, s) = 0
  BY <1>2, <1>3 DEF Sync!Decode
<1>5. s = 0
  BY <1>1, <1>4 DEF Sync!Convert, Sync!Codes
<1>6. image # "fork"
  <2>1. \A e \in Sync!Errnos : Sync!WEXITSTATUS(Sync!Exited(e)) = e /\ e # 0
    BY DEF Sync!WEXITSTATUS, Sync!Exited,
           Sync!Errnos, Sync!ENOENT, Sync!EIO, Sync!ENOEXEC, Sync!EACCES, Sync!ENOTDIR
  <2>2. \A g \in Signals : ~Sync!WIFEXITED(g)
    <3>1. \A g \in 1..MaxSignal : ~Sync!WIFEXITED(g)
      BY Bounds DEF Sync!WIFEXITED
    <3> QED
      BY <3>1, StatusesFit
  <2> QED
    BY <1>2, <1>5, <2>1, <2>2
<1> QED
  BY <1>5, <1>6

-------------------------------------------------------------------------------
(* PtyProcess: what was printed is what was given to the caller, what was  *)
(* read and not given and what was not read, if pieces that come again are *)
(* left out.                                                               *)
Pieces == -MaxText..MaxText \ {0}
Texts  == Seq(Pieces)

All == given \o m_Inbuf \o tty

(* Each piece of s is one of w, and comes after those before it in w.      *)
Tells(s, w) ==
  /\ \A k \in 1..Len(s) : \E n \in 1..Len(w) :
       s[k] = w[n] /\ \A m \in 1..(n - 1) : \E j \in 1..(k - 1) : s[j] = w[m]
  /\ \A n \in 1..Len(w) : \E k \in 1..Len(s) : s[k] = w[n]

TextInv ==
  /\ \A n \in 1..Len(written) : written[n] \in {n, -n}
  /\ Tells(All, written)
  /\ ~partial => All = written
  /\ \E before \in Texts : given = before \o last

(* The caller writes nothing before it has waited, and the program does    *)
(* not go on before it has read the answer.                                *)
AnswerInv ==
  /\ AnswerIsRead
  /\ echo <=> asks \in {"not yet", "over"}
  /\ answer = "none" => asks \in {"not yet", "asking"}
  /\ answer \in {"none", "due"} => input = <<>> /\ at # "write"
  /\ answer \in {"due", "typed"} => asks = "asking"
  /\ answer = "typed" => input[1] = "answer" /\ (at = "write" => Len(input) = 1)
  /\ answer = "read" => asks \in {"answered", "over"} /\ input \in Seq({"text", "newline"})
  /\ at = "slave" => answer = "none"

PtyInv == PtyTypeOK /\ TextInv /\ AnswerInv

(* A piece that is printed comes at the end of what the caller will read.  *)
LEMMA TellsOn ==
  ASSUME NEW S, NEW s \in Seq(S), NEW w \in Seq(S), NEW x \in S, Tells(s, w)
  PROVE  Tells(Append(s, x), Append(w, x))
<1> DEFINE t == Append(s, x)
           v == Append(w, x)
<1>1. /\ Len(t) = Len(s) + 1 /\ t[Len(t)] = x /\ Len(s) \in Nat
      /\ \A k \in 1..Len(s) : t[k] = s[k]
  OBVIOUS
<1>2. /\ Len(v) = Len(w) + 1 /\ v[Len(v)] = x /\ Len(w) \in Nat
      /\ \A n \in 1..Len(w) : v[n] = w[n]
  OBVIOUS
<1> HIDE DEF t, v
<1>3. ASSUME NEW k \in 1..Len(t)
      PROVE  \E n \in 1..Len(v) :
               t[k] = v[n] /\ \A m \in 1..(n - 1) : \E j \in 1..(k - 1) : t[j] = v[m]
  <2>1. CASE k = Len(t)
    <3>1. \A m \in 1..Len(w) : \E j \in 1..Len(s) : t[j] = v[m]
      BY <1>1, <1>2 DEF Tells
    <3> QED
      BY <1>1, <1>2, <2>1, <3>1
  <2>2. CASE k # Len(t)
    <3>1. k \in 1..Len(s)
      BY <1>1, <2>2
    <3>2. PICK n \in 1..Len(w) :
            s[k] = w[n] /\ \A m \in 1..(n - 1) : \E j \in 1..(k - 1) : s[j] = w[m]
      BY <3>1 DEF Tells
    <3>3. \A m \in 1..(n - 1) : m \in 1..Len(w) /\ m \in 1..(n - 1)
      BY <1>2
    <3>4. \A j \in 1..(k - 1) : j \in 1..Len(s)
      BY <1>1, <3>1
    <3>5. \A m \in 1..(n - 1) : \E j \in 1..(k - 1) : t[j] = v[m]
      BY <1>1, <1>2, <3>2, <3>3, <3>4
    <3>6. n \in 1..Len(v) /\ t[k] = v[n]
      BY <1>1, <1>2, <3>1, <3>2
    <3> QED
      BY <3>5, <3>6
  <2> QED
    BY <2>1, <2>2
<1>4. ASSUME NEW n \in 1..Len(v)
      PROVE  \E k \in 1..Len(t) : t[k] = v[n]
  <2>1. CASE n = Len(v)
    BY <1>1, <1>2, <2>1
  <2>2. CASE n # Len(v)
    <3>1. n \in 1..Len(w)
      BY <1>2, <2>2
    <3>2. PICK k \in 1..Len(s) : s[k] = w[n]
      BY <3>1 DEF Tells
    <3> QED
      BY <1>1, <1>2, <3>1, <3>2
  <2> QED
    BY <2>1, <2>2
<1> QED
  BY <1>3, <1>4 DEF Tells, t, v

(* What is given and stays to be given again is told twice.                *)
LEMMA TellsTwice ==
  ASSUME NEW S, NEW a \in Seq(S), NEW t \in Seq(S), NEW r \in Seq(S), NEW w \in Seq(S),
         Tells(a \o (t \o r), w)
  PROVE  Tells(a \o (t \o (t \o r)), w)
<1> DEFINE p == a \o t
           s == p \o r
           q == t \o r
           u == p \o q
<1>0. p \in Seq(S) /\ q \in Seq(S)
  BY Places
<1>1. s = a \o (t \o r) /\ u = a \o (t \o (t \o r))
  <2>1. s = a \o (t \o r)
    BY Regrouped
  <2>2. (a \o t) \o q = a \o (t \o q)
    <3> HIDE DEF q
    <3> QED
      BY <1>0, Regrouped, SMTT(30)
  <2> QED
    BY <2>1, <2>2
<1>2. /\ Len(p) \in Nat /\ Len(t) \in Nat /\ Len(r) \in Nat
      /\ Len(p) >= Len(t)
      /\ Len(s) = Len(p) + Len(r) /\ Len(u) = Len(s) + Len(t)
  <2>1. Len(p) = Len(a) + Len(t) /\ Len(a) \in Nat /\ Len(t) \in Nat /\ Len(r) \in Nat
    BY Places
  <2>2. Len(s) = Len(p) + Len(r) /\ Len(q) = Len(t) + Len(r)
    BY <1>0, Places
  <2>3. Len(u) = Len(p) + Len(q)
    BY <1>0, Places
  <2> HIDE DEF p, q, s, u
  <2> QED
    BY <2>1, <2>2, <2>3
<1>3. \A k \in 1..Len(p) : s[k] = p[k] /\ u[k] = p[k]
  BY <1>0, Places
<1>4. \A k \in 1..Len(t) : u[Len(p) + k] = t[k] /\ p[Len(a) + k] = t[k]
  <2>1. \A k \in 1..Len(q) : u[Len(p) + k] = q[k]
    <3> HIDE DEF p, q
    <3> QED
      BY <1>0, Places
  <2>2. /\ \A k \in 1..Len(t) : q[k] = t[k] /\ p[Len(a) + k] = t[k]
        /\ Len(q) = Len(t) + Len(r)
    BY Places
  <2> HIDE DEF p, q, s, u
  <2> QED
    BY <1>2, <2>1, <2>2
<1>5. \A k \in 1..Len(r) : u[Len(p) + Len(t) + k] = r[k] /\ s[Len(p) + k] = r[k]
  <2>1. \A k \in 1..Len(q) : u[Len(p) + k] = q[k]
    <3> HIDE DEF p, q
    <3> QED
      BY <1>0, Places
  <2>2. /\ \A k \in 1..Len(r) : q[Len(t) + k] = r[k]
        /\ Len(q) = Len(t) + Len(r)
    BY Places
  <2>3. \A k \in 1..Len(r) : s[Len(p) + k] = r[k]
    BY <1>0, Places
  <2>4. ASSUME NEW k \in 1..Len(r) PROVE u[Len(p) + Len(t) + k] = r[k]
    <3>1. Len(t) + k \in 1..Len(q) /\ Len(p) + (Len(t) + k) = Len(p) + Len(t) + k
      BY <1>2, <2>2
    <3> HIDE DEF p, q, s, u
    <3> QED
      BY <2>1, <2>2, <3>1
  <2> QED
    BY <2>3, <2>4
<1>6. Len(p) = Len(a) + Len(t) /\ Len(a) \in Nat
  BY Places
<1>7. Tells(s, w)
  BY <1>1
<1> SUFFICES Tells(u, w)
  BY <1>1
<1> HIDE DEF p, q, s, u
<1>8. ASSUME NEW k \in 1..Len(u), k > Len(p)
      PROVE  k - Len(t) \in 1..Len(s) /\ u[k] = s[k - Len(t)]
  <2>1. k \in Nat /\ k - Len(t) \in 1..Len(s)
    BY <1>2, <1>6, <1>8
  <2>2. CASE k <= Len(p) + Len(t)
    <3>1. k - Len(p) \in 1..Len(t) /\ k = Len(p) + (k - Len(p))
      BY <1>2, <1>8, <2>1, <2>2
    <3>2. u[k] = t[k - Len(p)] /\ p[Len(a) + (k - Len(p))] = t[k - Len(p)]
      BY <1>4, <3>1
    <3>3. Len(a) + (k - Len(p)) = k - Len(t) /\ k - Len(t) \in 1..Len(p)
      BY <1>2, <1>6, <1>8, <2>1, <2>2
    <3> QED
      BY <1>3, <2>1, <3>2, <3>3
  <2>3. CASE k > Len(p) + Len(t)
    <3> DEFINE i == k - Len(p) - Len(t)
    <3>1. /\ i \in 1..Len(r) /\ Len(p) + Len(t) + i = k /\ Len(p) + i = k - Len(t)
      BY <1>2, <2>1, <2>3
    <3> HIDE DEF i
    <3> QED
      BY <1>5, <2>1, <3>1
  <2> QED
    BY <1>2, <2>1, <2>2, <2>3
<1>9. ASSUME NEW j \in 1..Len(s), j > Len(p)
      PROVE  j + Len(t) \in 1..Len(u) /\ u[j + Len(t)] = s[j]
  <2>1. j + Len(t) \in 1..Len(u) /\ j + Len(t) > Len(p) /\ (j + Len(t)) - Len(t) = j
    BY <1>2, <1>9
  <2> QED
    BY <1>8, <2>1
<1>10. ASSUME NEW k \in 1..Len(u)
       PROVE  \E n \in 1..Len(w) :
                u[k] = w[n] /\ \A m \in 1..(n - 1) : \E j \in 1..(k - 1) : u[j] = w[m]
  <2>1. CASE k <= Len(p)
    <3>1. k \in 1..Len(s) /\ u[k] = s[k] /\ \A j \in 1..(k - 1) : u[j] = s[j]
      BY SMTT(20), <1>2, <1>3, <2>1
    <3>2. PICK n \in 1..Len(w) :
            s[k] = w[n] /\ \A m \in 1..(n - 1) : \E j \in 1..(k - 1) : s[j] = w[m]
      BY <1>7, <3>1 DEF Tells
    <3> QED
      BY <3>1, <3>2
  <2>2. CASE k > Len(p)
    <3> DEFINE i == k - Len(t)
    <3>1. i \in 1..Len(s) /\ u[k] = s[i]
      BY <1>8, <2>2
    <3>2. PICK n \in 1..Len(w) :
            s[i] = w[n] /\ \A m \in 1..(n - 1) : \E j \in 1..(i - 1) : s[j] = w[m]
      BY <1>7, <3>1 DEF Tells
    <3>3. ASSUME NEW m \in 1..(n - 1) PROVE \E j \in 1..(k - 1) : u[j] = w[m]
      <4>1. PICK j \in 1..(i - 1) : s[j] = w[m]
        BY <3>2
      <4>2. CASE j <= Len(p)
        <5>1. j \in 1..Len(p) /\ j \in 1..(k - 1)
          BY <1>2, <4>2
        <5> QED
          BY <1>3, <4>1, <5>1
      <4>3. CASE j > Len(p)
        <5>1. j \in 1..Len(s) /\ j + Len(t) \in 1..(k - 1)
          BY <1>2, <3>1, <4>3
        <5> QED
          BY <1>9, <4>1, <4>3, <5>1
      <4>4. j <= Len(p) \/ j > Len(p)
        BY ONLY <1>2, j \in 1..(i - 1)
      <4> QED
        BY <4>2, <4>3, <4>4
    <3> QED
      BY <3>1, <3>2, <3>3
  <2> QED
    BY <1>2, <2>1, <2>2
<1>11. ASSUME NEW n \in 1..Len(w)
       PROVE  \E k \in 1..Len(u) : u[k] = w[n]
  <2>1. PICK k \in 1..Len(s) : s[k] = w[n]
    BY <1>7 DEF Tells
  <2>2. CASE k <= Len(p)
    <3>1. k \in 1..Len(p) /\ k \in 1..Len(u)
      BY <1>2, <2>2
    <3> QED
      BY <1>3, <2>1, <3>1
  <2>3. CASE k > Len(p)
    BY <1>9, <2>1, <2>3
  <2> QED
    BY <1>2, <2>2, <2>3
<1> QED
  BY <1>10, <1>11 DEF Tells

(* The first line of a text and what follows it are the text.              *)
LEMMA LinesDivide ==
  ASSUME NEW s \in Texts
  PROVE  /\ FirstLine(s) \in Texts /\ AfterLine(s) \in Texts
         /\ FirstLine(s) \o AfterLine(s) = s
<1>1. PICK n : n = IF Newlines(s) = {} THEN Len(s) ELSE Min(Newlines(s))
  OBVIOUS
<1>2. n \in 0..Len(s)
  <2>1. Len(s) \in Nat /\ DOMAIN s = 1..Len(s)
    BY DEF Texts
  <2>2. Newlines(s) # {} => Min(Newlines(s)) \in Newlines(s)
    BY <2>1, MinOf DEF Newlines
  <2> QED
    BY <1>1, <2>1, <2>2 DEF Newlines
<1>3. FirstLine(s) = SubSeq(s, 1, n)
  <2>1. SubSeq(s, 1, Len(s)) = s
    BY SubSeqFull DEF Texts
  <2> QED
    BY <1>1, <2>1 DEF FirstLine
<1>4. Len(FirstLine(s)) = n
  BY <1>2, <1>3, Divided DEF Texts
<1> QED
  BY ZenonT(30), <1>2, <1>3, <1>4, Divided DEF Texts, AfterLine

LEMMA TextsRegroup ==
  \A s, t, u \in Texts : (s \o t) \o u = s \o (t \o u)
<1> TAKE s, t, u \in Texts
<1> QED
  BY ConcatAssociative, SMTT(30) DEF Texts

LEMMA TextsJoin ==
  /\ <<>> \in Texts /\ \A s \in Texts : Len(s) \in Nat /\ s \o <<>> = s /\ <<>> \o s = s
  /\ \A s, t \in Texts : s \o t \in Texts
  /\ \A s, t \in Texts, x \in Pieces :
       Append(t, x) \in Texts /\ s \o Append(t, x) = Append(s \o t, x)
<1>2. \A s \in Texts : s \o <<>> = s /\ <<>> \o s = s
  BY DEF Texts
<1>3. \A s, t \in Texts, x \in Pieces : s \o Append(t, x) = Append(s \o t, x)
  <2> TAKE s, t \in Texts, x \in Pieces
  <2>1. Append(t, x) = t \o <<x>> /\ <<x>> \in Texts /\ s \o t \in Texts
    BY AppendIsConcat DEF Texts
  <2>2. Append(s \o t, x) = (s \o t) \o <<x>>
    BY <2>1, AppendIsConcat DEF Texts
  <2> QED
    BY <2>1, <2>2, TextsRegroup
<1>4. \A s, t \in Texts : s \o t \in Texts
  BY DEF Texts
<1>5. \A t \in Texts, x \in Pieces : Append(t, x) \in Texts
  BY DEF Texts
<1>6. <<>> \in Texts /\ \A s \in Texts : Len(s) \in Nat
  BY DEF Texts
<1> QED
  BY <1>2, <1>3, <1>4, <1>5, <1>6

LEMMA TextTypes ==
  ASSUME PtyTypeOK
  PROVE  /\ given \in Texts /\ m_Inbuf \in Texts /\ tty \in Texts /\ written \in Texts
         /\ last \in Texts /\ All \in Texts /\ BufLen \in Nat \ {0} /\ MaxText \in Nat
<1>1. /\ given \in Texts /\ m_Inbuf \in Texts /\ tty \in Texts /\ written \in Texts
      /\ last \in Texts
  BY DEF PtyTypeOK, Texts, Pieces
<1> QED
  BY <1>1, TextsJoin, PtyAssumption DEF All

TextTypeOK ==
  /\ {m_Inbuf, tty, written, given, last} \subseteq Texts
  /\ Len(written) <= MaxText /\ partial \in BOOLEAN

LEMMA TextStays ==
  ASSUME PtyTypeOK, TextInv, UNCHANGED <<given, m_Inbuf, tty, written, last, partial>>
  PROVE  TextTypeOK' /\ TextInv'
BY DEF TextInv, All, PtyTypeOK, TextTypeOK, Texts, Pieces

LEMMA PrintsKeeps ==
  ASSUME PtyTypeOK, TextInv, NEW sign \in {1, -1}, Prints(sign * (Len(written) + 1)),
         UNCHANGED <<given, m_Inbuf, last, partial>>
  PROVE  TextTypeOK' /\ TextInv'
<1>0. PICK x : x = sign * (Len(written) + 1)
  OBVIOUS
<1> USE TextTypes
<1>1. x \in Pieces /\ x \in {Len(written) + 1, -(Len(written) + 1)}
  BY <1>0 DEF Prints, Texts, Pieces
<1>2. tty' = Append(tty, x) /\ written' = Append(written, x) /\ Len(written) < MaxText
  BY <1>0 DEF Prints
<1>3. tty' \in Texts /\ written' \in Texts /\ Len(written') = Len(written) + 1
  BY <1>1, <1>2 DEF Texts
<1>4. All' = Append(All, x)
  <2>1. PICK a \in Texts : a = given \o m_Inbuf
    BY TextsJoin
  <2>2. a \o Append(tty, x) = Append(a \o tty, x)
    BY <1>1, <2>1, TextsJoin
  <2> QED
    BY <1>2, <2>1, <2>2 DEF All
<1>5. Tells(All', written')
  BY <1>1, <1>2, <1>4, TellsOn DEF Texts, TextInv
<1>6. ~partial' => All' = written'
  BY <1>2, <1>4 DEF TextInv
<1>7. \A n \in 1..Len(written') : written'[n] \in {n, -n}
  BY SMTT(20), <1>1, <1>2, <1>3 DEF Texts, TextInv
<1>8. Len(written') <= MaxText
  BY <1>2, <1>3 DEF Texts
<1>9. partial' \in BOOLEAN
  BY DEF PtyTypeOK
<1> QED
  BY <1>3, <1>5, <1>6, <1>7, <1>8, <1>9 DEF TextInv, TextTypeOK

LEMMA InbufKeeps ==
  ASSUME PtyTypeOK, TextInv, FromInbuf, UNCHANGED written
  PROVE  TextTypeOK' /\ TextInv'
<1> USE TextTypes
<1>1. PICK l, r \in Texts :
        /\ l = FirstLine(m_Inbuf) /\ r = AfterLine(m_Inbuf) /\ l \o r = m_Inbuf
        /\ given' = given \o l /\ last' = l /\ m_Inbuf' = r
        /\ tty' = tty /\ partial' = partial
  BY LinesDivide DEF FromInbuf, Give
<1>2. given' \in Texts
  BY <1>1 DEF Texts
<1>3. All' = All
  <2>1. (given \o l) \o r = given \o (l \o r)
    BY ONLY TextsRegroup, given \in Texts, l \in Texts, r \in Texts
  <2> QED
    BY <1>1, <2>1 DEF All
<1> QED
  BY <1>1, <1>2, <1>3 DEF TextInv, TextTypeOK, PtyTypeOK

LEMMA TerminalKeeps ==
  ASSUME PtyTypeOK, TextInv, FromTerminal, UNCHANGED written
  PROVE  TextTypeOK' /\ TextInv'
<1> USE TextTypes
<1>1. PICK n : n = Min({BufLen, Len(tty)})
  OBVIOUS
<1>2. n \in 0..Len(tty)
  <2>1. {BufLen, Len(tty)} \in SUBSET Nat /\ {BufLen, Len(tty)} # {}
    BY TextsJoin
  <2>2. n \in {BufLen, Len(tty)} /\ n <= Len(tty)
    BY <1>1, <2>1, MinOf
  <2> QED
    BY <2>1, <2>2
<1>3. PICK t, r \in Texts :
        t = SubSeq(tty, 1, n) /\ r = SubSeq(tty, n + 1, Len(tty)) /\ t \o r = tty
  <2>1. tty \in Seq(Pieces) /\ n \in 0..Len(tty)
    BY <1>2 DEF Texts
  <2>2. /\ SubSeq(tty, 1, n) \in Texts /\ SubSeq(tty, n + 1, Len(tty)) \in Texts
        /\ SubSeq(tty, 1, n) \o SubSeq(tty, n + 1, Len(tty)) = tty
    BY <2>1, Divided DEF Texts
  <2> QED
    BY <2>2
<1>4. /\ Give(FirstLine(t)) /\ tty' = r /\ m_Inbuf = <<>>
      /\ m_Inbuf' = IF Newlines(t) = {} THEN t ELSE AfterLine(t)
      /\ partial' = (partial \/ Newlines(t) = {})
  BY <1>1, <1>3 DEF FromTerminal
<1>5. All = given \o (t \o r)
  BY <1>3, <1>4, TextsJoin DEF All
<1>6. CASE Newlines(t) = {}
  <2>1. given' = given \o t /\ m_Inbuf' = t /\ last' = t /\ partial' = TRUE
    BY <1>4, <1>6 DEF FirstLine, Give
  <2>2. All' = given \o (t \o (t \o r))
    <3>1. given \o t \in Texts /\ t \o r \in Texts /\ All' = ((given \o t) \o t) \o r
      BY <1>4, <2>1, TextsJoin DEF All
    <3>2. ((given \o t) \o t) \o r = (given \o t) \o (t \o r)
      BY ONLY TextsRegroup, <3>1, t \in Texts, r \in Texts
    <3>3. (given \o t) \o (t \o r) = given \o (t \o (t \o r))
      BY ONLY TextsRegroup, <3>1, given \in Texts, t \in Texts
    <3> QED
      BY <3>1, <3>2, <3>3
  <2>3. Tells(All', written)
    BY <1>5, <2>2, TellsTwice DEF TextInv, Texts
  <2>4. given' \in Texts
    BY <2>1 DEF Texts
  <2> QED
    BY <1>4, <2>1, <2>3, <2>4 DEF TextInv, TextTypeOK, PtyTypeOK
<1>7. CASE Newlines(t) # {}
  <2>1. PICK l, q \in Texts :
          /\ l \o q = t /\ given' = given \o l /\ m_Inbuf' = q /\ last' = l
          /\ partial' = partial
    <3>1. partial' = partial
      BY <1>4, <1>7 DEF PtyTypeOK
    <3> QED
      BY <1>4, <1>7, <3>1, LinesDivide DEF Give
  <2>2. All' = All
    <3>1. (given \o l) \o q = given \o (l \o q)
      BY ONLY TextsRegroup, given \in Texts, l \in Texts, q \in Texts
    <3>2. (given \o t) \o r = given \o (t \o r)
      BY ONLY TextsRegroup, given \in Texts, t \in Texts, r \in Texts
    <3> QED
      BY <1>4, <1>5, <2>1, <3>1, <3>2 DEF All
  <2>3. given' \in Texts
    BY <2>1 DEF Texts
  <2> QED
    BY <1>4, <2>1, <2>2, <2>3 DEF TextInv, TextTypeOK, PtyTypeOK
<1> QED
  BY <1>6, <1>7

LEMMA NothingKeeps ==
  ASSUME PtyTypeOK, TextInv, FromNothing, UNCHANGED written
  PROVE  TextTypeOK' /\ TextInv'
<1> USE TextTypes
<1>1. /\ last' = <<>> /\ last' \in Texts
      /\ UNCHANGED <<m_Inbuf, tty, given, partial>>
  BY DEF FromNothing, Texts
<1>2. given = given \o last'
  BY <1>1 DEF Texts
<1> QED
  BY <1>1, <1>2 DEF TextInv, TextTypeOK, PtyTypeOK, All

LEMMA UnreadKeeps ==
  ASSUME PtyTypeOK, TextInv, UnreadLine
  PROVE  TextTypeOK' /\ TextInv'
<1> USE TextTypes
<1>1. PICK before \in Texts : given = before \o last
  BY DEF TextInv
<1>2. given' = before
  <2>1. Len(given) - Len(last) = Len(before) /\ Len(before) \in 0..Len(given)
    BY <1>1 DEF Texts
  <2>2. SubSeq(given, 1, Len(before)) = before
    BY <1>1, <2>1 DEF Texts
  <2> QED
    BY <2>1, <2>2 DEF UnreadLine
<1>3. m_Inbuf' = last \o m_Inbuf /\ m_Inbuf' \in Texts
  BY DEF UnreadLine, Texts
<1>4. All' = All
  <2>1. before \o (last \o m_Inbuf) = (before \o last) \o m_Inbuf /\ tty' = tty
    BY ZenonT(30), TextsRegroup DEF UnreadLine
  <2> QED
    BY <1>1, <1>2, <1>3, <2>1 DEF All
<1>5. last' = <<>> /\ last' \in Texts /\ given' = given' \o last'
  BY <1>2 DEF UnreadLine, Texts
<1> QED
  BY <1>2, <1>3, <1>4, <1>5 DEF UnreadLine, untouched, TextInv, TextTypeOK, PtyTypeOK

(* Where a piece comes first, and how many came first up to a place.      *)
First(s, k)  == \A j \in 1..(k - 1) : s[j] # s[k]
Firsts(s, k) == {j \in 1..k : First(s, j)}

LEMMA FirstExists ==
  ASSUME NEW S, NEW s \in Seq(S), NEW k \in 1..Len(s)
  PROVE  \E i \in 1..k : First(s, i) /\ s[i] = s[k]
<1> DEFINE T == {i \in 1..k : s[i] = s[k]}
<1>1. T \in SUBSET Nat /\ k \in T
  OBVIOUS
<1>2. PICK i \in T : \A j \in T : i <= j
  BY <1>1, Smallest
<1>3. First(s, i)
  BY <1>2 DEF First
<1> QED
  BY <1>2, <1>3

(* The place where a piece comes first is the place that it has in w.      *)
LEMMA FirstsCounted ==
  ASSUME NEW S, NEW s \in Seq(S), NEW w \in Seq(S), Tells(s, w),
         \A i, j \in 1..Len(w) : w[i] = w[j] => i = j,
         NEW k \in 1..Len(s), NEW m \in 1..Len(w), First(s, k), s[k] = w[m]
  PROVE  Cardinality(Firsts(s, k)) = m
<1> DEFINE B == Firsts(s, k)
           f == [n \in 1..m |-> CHOOSE j \in B : s[j] = w[n]]
<1>0. Len(s) \in Nat /\ Len(w) \in Nat /\ k \in Nat /\ m \in Nat
  OBVIOUS
<1>1. ASSUME NEW n \in 1..m PROVE \E j \in B : s[j] = w[n]
  <2>1. PICK l \in 1..Len(w) :
          s[k] = w[l] /\ \A i \in 1..(l - 1) : \E j \in 1..(k - 1) : s[j] = w[i]
    BY DEF Tells
  <2>2. l = m
    BY <2>1
  <2>3. PICK j \in 1..k : s[j] = w[n]
    <3>1. CASE n = m
      BY <1>0, <3>1
    <3>2. CASE n # m
      <4>1. n \in 1..(m - 1)
        BY <1>0, <3>2
      <4>2. PICK j \in 1..(k - 1) : s[j] = w[n]
        BY <2>1, <2>2, <4>1
      <4> QED
        BY <1>0, <4>2
    <3> QED
      BY <3>1, <3>2
  <2>4. j \in 1..Len(s)
    BY <1>0
  <2>5. PICK i \in 1..j : First(s, i) /\ s[i] = s[j]
    BY <2>4, FirstExists
  <2>6. i \in 1..k
    BY <1>0
  <2> QED
    BY <2>3, <2>5, <2>6 DEF Firsts
<1>2. \A n \in 1..m : f[n] \in B /\ s[f[n]] = w[n]
  BY <1>1
<1>3. ASSUME NEW j \in B PROVE \E n \in 1..m : f[n] = j
  <2>1. j \in 1..Len(s) /\ j \in 1..k /\ First(s, j)
    BY <1>0 DEF Firsts
  <2>2. PICK n \in 1..Len(w) :
          s[j] = w[n] /\ \A l \in 1..(n - 1) : \E i \in 1..(j - 1) : s[i] = w[l]
    BY <2>1 DEF Tells
  <2>3. n <= m
    <3> SUFFICES ASSUME m < n PROVE FALSE
      BY <1>0
    <3>1. PICK i \in 1..(j - 1) : s[i] = w[m]
      BY <1>0, <2>2
    <3>2. i \in 1..(k - 1)
      BY <1>0, <2>1
    <3> QED
      BY <3>1, <3>2 DEF First
  <2>4. n \in 1..m /\ f[n] \in 1..k /\ First(s, f[n]) /\ s[f[n]] = s[j]
    BY <1>0, <1>2, <2>2, <2>3 DEF Firsts
  <2>5. f[n] = j
    <3> HIDE DEF f
    <3>1. ~(f[n] < j) /\ ~(j < f[n])
      BY <1>0, <2>1, <2>4 DEF First
    <3> QED
      BY <1>0, <2>1, <2>4, <3>1
  <2> QED
    BY <2>4, <2>5
<1>4. f \in Bijection(1..m, B)
  <2>1. \A a, b \in 1..m : f[a] = f[b] => a = b
    <3> TAKE a, b \in 1..m
    <3> HAVE f[a] = f[b]
    <3>1. w[a] = w[b] /\ a \in 1..Len(w) /\ b \in 1..Len(w)
      BY <1>0, <1>2
    <3> QED
      BY <3>1
  <2>2. f \in [1..m -> B]
    BY <1>2
  <2> HIDE DEF f, B
  <2> QED
    BY <1>3, <2>1, <2>2 DEF Bijection, Injection, Surjection, IsInjective
<1> QED
  BY <1>0, <1>4, FS_CountingElements DEF ExistsBijection

(* So the pieces in the order in which they first come are what was        *)
(* printed.                                                                *)
LEMMA FirstOfEachIs ==
  ASSUME NEW S, NEW s \in Seq(S), NEW w \in Seq(S), Tells(s, w),
         \A i, j \in 1..Len(w) : w[i] = w[j] => i = j
  PROVE  FirstOfEach(s) = w
<1>0. Len(s) \in Nat /\ Len(w) \in Nat /\ DOMAIN s = 1..Len(s)
  OBVIOUS
<1>1. Cardinality(Range(s)) = Len(w)
  <2> DEFINE f == [n \in 1..Len(w) |-> w[n]]
  <2>1. f \in [1..Len(w) -> Range(s)]
    <3>1. \A n \in 1..Len(w) : w[n] \in Range(s)
      BY ZenonT(30), <1>0 DEF Tells, Range
    <3> QED
      BY <3>1
  <2>2. \A x \in Range(s) : \E n \in 1..Len(w) : f[n] = x
    <3> TAKE x \in Range(s)
    <3>1. PICK k \in 1..Len(s) : x = s[k]
      BY <1>0 DEF Range
    <3>2. PICK n \in 1..Len(w) : s[k] = w[n]
      BY DEF Tells
    <3> QED
      BY <3>1, <3>2
  <2>3. \A i, j \in 1..Len(w) : f[i] = f[j] => i = j
    OBVIOUS
  <2>4. f \in Bijection(1..Len(w), Range(s))
    <3> HIDE DEF f
    <3> QED
      BY <2>1, <2>2, <2>3 DEF Bijection, Injection, Surjection, IsInjective
  <2> QED
    BY <1>0, <2>4, FS_CountingElements DEF ExistsBijection
<1> DEFINE Nth(k, n) == First(s, k) /\ Cardinality(Firsts(s, k)) = n
<1>2. ASSUME NEW n \in 1..Len(w)
      PROVE  \E k \in DOMAIN s : Nth(k, n)
  <2>1. PICK k \in 1..Len(s) : s[k] = w[n]
    BY DEF Tells
  <2>2. PICK i \in 1..k : First(s, i) /\ s[i] = s[k]
    BY FirstExists
  <2>3. i \in 1..Len(s)
    BY <1>0
  <2>4. Cardinality(Firsts(s, i)) = n
    BY <2>1, <2>2, <2>3, FirstsCounted
  <2> QED
    BY <1>0, <2>2, <2>3, <2>4
<1>3. ASSUME NEW n \in 1..Len(w), NEW k \in DOMAIN s, Nth(k, n)
      PROVE  s[k] = w[n]
  <2>1. PICK m \in 1..Len(w) : s[k] = w[m]
    BY <1>0 DEF Tells
  <2>2. Cardinality(Firsts(s, k)) = m
    BY <1>0, <1>3, <2>1, FirstsCounted
  <2> QED
    BY <1>3, <2>1, <2>2
<1>4. \A n \in 1..Len(w) : s[CHOOSE k \in DOMAIN s : Nth(k, n)] = w[n]
  <2> HIDE DEF Nth
  <2> QED
    BY <1>2, <1>3
<1>5. FirstOfEach(s) = [n \in 1..Len(w) |-> s[CHOOSE k \in DOMAIN s : Nth(k, n)]]
  BY <1>1 DEF FirstOfEach, First, Firsts
<1>6. w = [n \in 1..Len(w) |-> w[n]]
  OBVIOUS
<1> QED
  BY <1>4, <1>5, <1>6

LEMMA PtyInvImplies == PtyInv => TalkArrives
<1> SUFFICES ASSUME PtyInv PROVE TextFollows
  BY DEF PtyInv, AnswerInv, TalkArrives
<1>1. All \in Texts /\ written \in Texts
  BY TextTypes DEF PtyInv
<1>2. \A i, j \in 1..Len(written) : written[i] = written[j] => i = j
  BY SMTT(20), <1>1 DEF PtyInv, TextInv, Texts
<1>3. FirstOfEach(All) = written
  BY <1>1, <1>2, FirstOfEachIs DEF PtyInv, TextInv, Texts
<1> QED
  BY <1>3 DEF PtyInv, TextInv, TextFollows, All

(* The variables that hold no text.                                        *)
ControlTypeOK ==
  /\ at \in {"new", "failed", "idle", "read", "write", "slave", "select", "lines",
             "check", "gone"}
  /\ m_Pid \in {-1, 0, Pid} /\ m_Exit \in {0, 2} /\ result \in {-1, 0, 1}
  /\ child \in {"none", "setup", "running", "stopped", "zombie", "reaped"}
  /\ status \in Ends \cup {NotExited}
  /\ holders \subseteq {"child", "other", "caller"}
  /\ echo \in BOOLEAN
  /\ asks \in {"not yet", "asking", "answered", "over"}
  /\ input \in Seq({"answer", "text", "newline"})
  /\ answer \in {"none", "due", "typed", "read", "lost", "seen"}

ControlInv == ControlTypeOK /\ AnswerInv

LEMMA Inputs ==
  ASSUME NEW S
  PROVE  /\ <<>> \in Seq(S) /\ \A x \in S : <<x>> \in Seq(S)
         /\ \A s \in Seq(S), x \in S :
              /\ Append(s, x) \in Seq(S)
              /\ s # <<>> => Append(s, x)[1] = s[1]
OBVIOUS

LEMMA PtyInvParts ==
  /\ PtyInv <=> TextTypeOK /\ TextInv /\ ControlInv
  /\ PtyInv' <=> TextTypeOK' /\ TextInv' /\ ControlInv'
BY DEF PtyInv, PtyTypeOK, TextTypeOK, ControlTypeOK, ControlInv, Texts, Pieces

LEMMA ControlStays ==
  ASSUME ControlInv,
         UNCHANGED <<at, m_Pid, m_Exit, result, child, status, asks, holders, echo, input, answer>>
  PROVE  ControlInv'
<1>0. ControlTypeOK /\ AnswerInv
  BY DEF ControlInv
<1>1. ControlTypeOK'
  <2>1. /\ at' = at /\ m_Pid' = m_Pid /\ m_Exit' = m_Exit /\ result' = result
        /\ child' = child /\ status' = status /\ holders' = holders
    OBVIOUS
  <2>2. echo' = echo /\ asks' = asks /\ input' = input /\ answer' = answer
    OBVIOUS
  <2>3. (echo \in BOOLEAN)'
    BY ONLY <1>0, <2>2 DEF ControlTypeOK
  <2>4. (input \in Seq({"answer", "text", "newline"}))'
    BY ONLY <1>0, <2>2 DEF ControlTypeOK
  <2>5. (m_Pid \in {-1, 0, Pid} /\ m_Exit \in {0, 2} /\ result \in {-1, 0, 1})'
    BY ONLY <1>0, <2>1 DEF ControlTypeOK
  <2>6. (status \in Ends \cup {NotExited})'
    BY ONLY <1>0, <2>1 DEF ControlTypeOK
  <2>7. (holders \subseteq {"child", "other", "caller"})'
    BY ONLY <1>0, <2>1 DEF ControlTypeOK
  <2>8. (asks \in {"not yet", "asking", "answered", "over"})'
    BY ONLY <1>0, <2>2 DEF ControlTypeOK
  <2> QED
    BY ONLY <1>0, <2>1, <2>2, <2>3, <2>4, <2>5, <2>6, <2>7, <2>8 DEF ControlTypeOK
<1>2. AnswerInv'
  BY Zenon DEF ControlInv, AnswerInv, AnswerIsRead
<1> QED
  BY <1>1, <1>2 DEF ControlInv

LEMMA PtyInitially == PtyInit => PtyInv
<1> SUFFICES ASSUME PtyInit PROVE TextTypeOK /\ TextInv /\ ControlInv
  BY PtyInvParts
<1> USE DEF PtyInit
<1>1. TextTypeOK
  <2>1. <<>> \in Texts
    BY TextsJoin
  <2>2. Len(written) = 0 /\ 0 <= MaxText
    <3>1. written = <<>>
      OBVIOUS
    <3>2. 0 <= MaxText
      BY ONLY PtyAssumption
    <3> QED
      BY ONLY <3>1, <3>2
  <2> QED
    BY <2>1, <2>2 DEF TextTypeOK
<1>2. TextInv
  <2>1. All = <<>> /\ written = <<>> /\ given = <<>> \o last /\ Len(written) = 0
    BY TextsJoin DEF All
  <2>2. <<>> \in Texts /\ Len(All) = 0
    BY <2>1, TextsJoin
  <2>3. Tells(All, written) /\ \A n \in 1..Len(written) : written[n] \in {n, -n}
    BY ONLY <2>1, <2>2 DEF Tells
  <2> QED
    BY <2>1, <2>2, <2>3 DEF TextInv
<1>3. ControlInv
  BY Inputs DEF ControlInv, ControlTypeOK, AnswerInv, AnswerIsRead, Ends, NotExited
<1> QED
  BY <1>1, <1>2, <1>3

(* The child, and what it leaves behind.                                   *)
LEMMA ProgramLivesKeeps ==
  ASSUME PtyInv, ChildExecs \/ ChildEnds \/ OtherStarts \/ OtherEnds
  PROVE  PtyInv'
<1>1. TextTypeOK' /\ TextInv'
  BY TextStays DEF PtyInv, ChildExecs, ChildEnds, OtherStarts, OtherEnds, callers, terminal
<1>2. ControlInv
  BY PtyInvParts
<1>3. UNCHANGED <<at, m_Pid, m_Exit, result, echo, asks, input, answer>>
  BY DEF ChildExecs, ChildEnds, OtherStarts, OtherEnds, callers, terminal, childs
<1>4. /\ child' \in {"none", "setup", "running", "stopped", "zombie", "reaped"}
      /\ status' \in Ends \cup {NotExited}
      /\ holders' \subseteq {"child", "other", "caller"}
  BY <1>2 DEF ControlInv, ControlTypeOK, ChildExecs, ChildEnds, Ended, OtherStarts, OtherEnds,
              callers, childs, terminal
<1> QED
  BY <1>1, <1>2, <1>3, <1>4, PtyInvParts DEF ControlInv, ControlTypeOK, AnswerInv, AnswerIsRead

LEMMA ProgramPrintsKeeps ==
  ASSUME PtyInv, ProgramPrints
  PROVE  PtyInv'
<1>1. TextTypeOK' /\ TextInv'
  BY PrintsKeeps DEF PtyInv, ProgramPrints, callers
<1>2. UNCHANGED <<at, m_Pid, m_Exit, result, child, status, asks, holders, echo, input, answer>>
  BY DEF ProgramPrints, callers, childs
<1>3. ControlInv
  BY PtyInvParts
<1>4. ControlInv'
  BY <1>2, <1>3, ControlStays
<1> QED
  BY <1>1, <1>4, PtyInvParts

(* The program switches the echo, which throws away what was typed.        *)
LEMMA ProgramTalkKeeps ==
  ASSUME PtyInv, ProgramAsks \/ ProgramReads \/ ProgramGoesOn
  PROVE  PtyInv'
<1>1. TextTypeOK' /\ TextInv'
  BY TextStays DEF PtyInv, ProgramAsks, ProgramReads, ProgramGoesOn, callers
<1>2. ControlTypeOK /\ AnswerInv
  BY PtyInvParts DEF ControlInv
<1>3. UNCHANGED <<at, m_Pid, m_Exit, result, child, status, holders>> /\ input' = <<>>
  BY DEF ProgramAsks, ProgramReads, ProgramGoesOn, SetEcho, callers
<1>4. CASE ProgramAsks
  <2>1. answer = "none" /\ input = <<>>
    BY <1>2, <1>4 DEF ProgramAsks, ControlTypeOK, AnswerInv, AnswerIsRead
  <2>2. "answer" \notin Range(input)
    BY <2>1 DEF Range
  <2>3. answer' = "none" /\ asks' = "asking" /\ echo' = FALSE
    BY <1>4, <2>1, <2>2 DEF ProgramAsks, SetEcho
  <2> QED
    BY <1>1, <1>2, <1>3, <2>1, <2>3, PtyInvParts, Inputs
    DEF ControlInv, ControlTypeOK, AnswerInv, AnswerIsRead
<1>5. CASE ProgramReads
  <2>0. input # <<>>
    BY <1>5 DEF ProgramReads
  <2>1. answer \in {"typed", "read"} /\ input # <<>> /\ echo' = echo
    BY <1>2, <2>0, <1>5 DEF ProgramReads, ControlTypeOK, AnswerInv, AnswerIsRead
  <2>2. CASE answer = "typed"
    <3>1. asks' = "answered" /\ answer' = "read" /\ echo = FALSE
      BY <1>2, <1>5, <2>2 DEF ProgramReads, AnswerInv, ControlTypeOK
    <3> QED
      BY <1>1, <1>2, <1>3, <2>1, <3>1, PtyInvParts, Inputs
      DEF ControlInv, ControlTypeOK, AnswerInv, AnswerIsRead
  <2>3. CASE answer = "read"
    <3>1. asks' = asks /\ answer' = "read" /\ asks \in {"answered", "over"}
      BY <1>2, <1>5, <2>3 DEF ProgramReads, AnswerInv
    <3> QED
      BY <1>1, <1>2, <1>3, <2>1, <2>3, <3>1, PtyInvParts, Inputs
      DEF ControlInv, ControlTypeOK, AnswerInv, AnswerIsRead
  <2> QED
    BY <2>1, <2>2, <2>3
<1>6. CASE ProgramGoesOn
  <2>1. answer = "read" /\ input \in Seq({"text", "newline"})
    BY <1>2, <1>6 DEF ProgramGoesOn, ControlTypeOK, AnswerInv, AnswerIsRead
  <2>2. "answer" \notin Range(input)
    BY <2>1 DEF Range
  <2>3. answer' = "read" /\ asks' = "over" /\ echo' = TRUE
    BY <1>6, <2>1, <2>2 DEF ProgramGoesOn, SetEcho
  <2> QED
    BY <1>1, <1>2, <1>3, <2>1, <2>3, PtyInvParts, Inputs
    DEF ControlInv, ControlTypeOK, AnswerInv, AnswerIsRead
<1> QED
  BY <1>4, <1>5, <1>6

(* What the caller does to the child and to the terminal.                  *)
LEMMA CallerKeeps ==
  ASSUME PtyInv,
         \/ PtyExec \/ PtyExecFails \/ Destroy \/ Gone \/ ReadLineBlocks \/ ReadLineInterrupted
         \/ WaitForChild \/ SelectReturns \/ SelectInterrupted \/ SlavePolls \/ CheckChild
  PROVE  PtyInv'
<1>1. UNCHANGED <<given, m_Inbuf, tty, written, last, partial, m_Exit, status, asks, echo,
                  input, answer>>
  BY DEF PtyExec, PtyExecFails, Destroy, Gone, ReadLineBlocks, ReadLineInterrupted, WaitForChild,
         SelectReturns, SelectInterrupted, SlavePolls, CheckChild, pty, terminal, dialogue, childs
<1>2. TextTypeOK' /\ TextInv'
  BY <1>1, TextStays DEF PtyInv
<1>3. ControlTypeOK /\ AnswerInv
  BY PtyInvParts DEF ControlInv
<1>4. /\ at' \in {"failed", "idle", "read", "slave", "select", "lines", "check", "gone"}
      /\ at' = "slave" => at = "slave"
      /\ at' = "write" => at = "write"
      /\ m_Pid' \in {-1, 0, Pid}
      /\ child' \in {"none", "setup", "running", "stopped", "zombie", "reaped"}
      /\ holders' \subseteq {"child", "other", "caller"}
      /\ result' \in {-1, 0, 1}
  BY <1>3
  DEF PtyExec, PtyExecFails, Destroy, Gone, ReadLineBlocks, ReadLineInterrupted, WaitForChild,
      SelectReturns, SelectInterrupted, SlavePolls, CheckChild, pty, terminal, dialogue, childs,
      ControlTypeOK
<1> QED
  BY <1>1, <1>2, <1>3, <1>4, PtyInvParts DEF ControlInv, ControlTypeOK, AnswerInv, AnswerIsRead

(* read_line(), unread_line(), and the lines wait_for_child() copies.      *)
LEMMA ReadsKeep ==
  ASSUME PtyInv, ReadLine \/ ReadLineReturns \/ UnreadLine \/ CopyLine \/ LinesEnd
  PROVE  PtyInv'
<1>1. UNCHANGED <<m_Pid, m_Exit, result, echo, input, asks, written, answer>>
  BY DEF ReadLine, ReadLineReturns, UnreadLine, CopyLine, LinesEnd, untouched
<1>2. TextTypeOK' /\ TextInv'
  BY <1>1, InbufKeeps, TerminalKeeps, NothingKeeps, UnreadKeeps
  DEF PtyInv, ReadLine, ReadLineReturns, CopyLine, LinesEnd
<1>3. ControlTypeOK /\ AnswerInv
  BY PtyInvParts DEF ControlInv
<1>4. /\ at \in {"idle", "read", "lines"} /\ at' \in {"idle", "lines", "check"}
      /\ child' \in {child, "zombie"} /\ status' \in {status, Killed}
      /\ holders' \subseteq holders
  BY <1>3 DEF ReadLine, ReadLineReturns, UnreadLine, CopyLine, LinesEnd, untouched, Terminates,
              Ended
<1>5. status' \in Ends \cup {NotExited}
  BY <1>3, <1>4 DEF ControlTypeOK, Ends
<1> QED
  BY <1>1, <1>2, <1>3, <1>4, <1>5, PtyInvParts
  DEF ControlInv, ControlTypeOK, AnswerInv, AnswerIsRead

(* write_line() is echoed, but for the answer: nothing shows it.           *)
LEMMA TypeKeeps ==
  ASSUME PtyInv, NEW what \in {"answer", "text", "newline"}, Type(what),
         UNCHANGED <<given, m_Inbuf, last, partial>>
  PROVE  TextTypeOK' /\ TextInv'
<1>1. CASE echo /\ Len(written) < MaxText
  <2>1. PICK sign \in {1, -1} : Prints(sign * (Len(written) + 1))
    BY <1>1 DEF Type
  <2> QED
    BY <2>1, PrintsKeeps DEF PtyInv
<1>2. CASE ~(echo /\ Len(written) < MaxText)
  BY <1>2, TextStays DEF PtyInv, Type
<1> QED
  BY <1>1, <1>2

LEMMA WritesKeep ==
  ASSUME PtyInv, WriteLine \/ WriteNewline
  PROVE  PtyInv'
<1>1. PICK what \in {"answer", "text", "newline"} : Type(what)
  BY DEF WriteLine, WriteNewline
<1>2. TextTypeOK' /\ TextInv'
  BY <1>1, TypeKeeps DEF WriteLine, WriteNewline
<1>3. ControlTypeOK /\ AnswerInv
  BY PtyInvParts DEF ControlInv
<1>4. UNCHANGED <<m_Pid, m_Exit, result, child, status, asks, holders, echo>>
  BY DEF WriteLine, WriteNewline, childs
<1>5. CASE WriteLine
  <2>1. at' = "write" /\ input = <<>>
    BY <1>5 DEF WriteLine
  <2>2. CASE answer = "due"
    <3>1. Type("answer") /\ echo = FALSE
      BY <1>3, <1>5, <2>2 DEF WriteLine, ControlTypeOK, AnswerInv
    <3>2. input' = <<"answer">> /\ answer' = "typed"
      BY <2>1, <3>1 DEF Type
    <3> QED
      BY <1>2, <1>3, <1>4, <2>1, <2>2, <3>1, <3>2, PtyInvParts
      DEF ControlInv, ControlTypeOK, AnswerInv, AnswerIsRead
  <2>3. CASE answer = "read"
    <3>1. input' = <<"text">> /\ answer' = "read"
      BY <1>5, <2>1, <2>3 DEF WriteLine, Type
    <3> QED
      BY <1>2, <1>3, <1>4, <2>1, <2>3, <3>1, PtyInvParts, Inputs
      DEF ControlInv, ControlTypeOK, AnswerInv, AnswerIsRead
  <2> QED
    BY <1>5, <2>2, <2>3 DEF WriteLine
<1>6. CASE WriteNewline
  <2>1. /\ at = "write" /\ at' = "idle" /\ input' = Append(input, "newline")
        /\ answer' = answer /\ answer \in {"typed", "read"}
    BY <1>3, <1>6 DEF WriteNewline, Type, ControlTypeOK, AnswerInv, AnswerIsRead
  <2>2. CASE answer = "typed"
    <3>1. input[1] = "answer" /\ Len(input) = 1
      BY <1>3, <2>1, <2>2 DEF AnswerInv
    <3> input # <<>>
      BY <3>1
    <3>2. input'[1] = "answer" /\ input' \in Seq({"answer", "text", "newline"})
      <4>1. input \in Seq({"answer", "text", "newline"})
      BY <1>3 DEF ControlTypeOK
    <4> QED
      BY ONLY <2>1, <3>1, <4>1
    <3> QED
      BY <1>2, <1>3, <1>4, <2>1, <2>2, <3>2, PtyInvParts
      DEF ControlInv, ControlTypeOK, AnswerInv, AnswerIsRead
  <2>3. CASE answer = "read"
    <3>1. input' \in Seq({"text", "newline"}) /\ input' \in Seq({"answer", "text", "newline"})
      BY <1>3, <2>1, <2>3, Inputs DEF ControlTypeOK, AnswerInv
    <3> QED
      BY <1>2, <1>3, <1>4, <2>1, <2>3, <3>1, PtyInvParts, Inputs
      DEF ControlInv, ControlTypeOK, AnswerInv, AnswerIsRead
  <2> QED
    BY <2>1, <2>2, <2>3
<1> QED
  BY <1>5, <1>6

(* wait_slave() returns once the program has switched the echo off.        *)
LEMMA SlaveKeeps ==
  ASSUME PtyInv, WaitSlave \/ SlaveReturns
  PROVE  PtyInv'
<1>1. UNCHANGED <<given, m_Inbuf, tty, written, last, partial, m_Pid, m_Exit, child, status,
                  asks, echo, input>>
  BY DEF WaitSlave, SlaveReturns, childs, dialogue
<1>2. TextTypeOK' /\ TextInv'
  BY <1>1, TextStays DEF PtyInv
<1>3. ControlTypeOK /\ AnswerInv
  BY PtyInvParts DEF ControlInv
<1>4. CASE WaitSlave
  <2>1. /\ at' = "slave" /\ answer = "none" /\ answer' = answer /\ result' = result
        /\ holders' = holders \cup {"caller"}
    BY <1>4 DEF WaitSlave, dialogue
  <2>2. ControlInv'
    BY <1>1, <1>3, <2>1 DEF ControlInv, ControlTypeOK, AnswerInv, AnswerIsRead
  <2> QED
    BY <1>2, <2>2, PtyInvParts
<1>5. CASE SlaveReturns
  <2>1. /\ at' = "idle" /\ answer = "none" /\ input = <<>>
        /\ holders' \subseteq holders /\ result' \in {-1, 0}
    BY <1>3, <1>5 DEF SlaveReturns, AnswerInv
  <2>2. answer' # "none" => answer' = "due" /\ asks = "asking"
    BY <1>3, <1>5, <2>1 DEF SlaveReturns, EchoIsOff, AnswerInv, ControlTypeOK
  <2> QED
    BY <1>1, <1>2, <1>3, <2>1, <2>2, PtyInvParts, Inputs
    DEF ControlInv, ControlTypeOK, AnswerInv, AnswerIsRead
<1> QED
  BY <1>4, <1>5

LEMMA PtyStepKeeps == PtyInv /\ [PtyNext]_pty => PtyInv'
<1> SUFFICES ASSUME PtyInv, [PtyNext]_pty PROVE PtyInv'
  OBVIOUS
<1>1. CASE PtyNext
  BY <1>1, ProgramLivesKeeps, ProgramPrintsKeeps, ProgramTalkKeeps, CallerKeeps, ReadsKeep,
     WritesKeep, SlaveKeeps
  DEF PtyNext, Waits
<1>2. CASE UNCHANGED pty
  <2>1. TextTypeOK' /\ TextInv'
    BY <1>2, TextStays DEF PtyInv, pty, dialogue, terminal
  <2>2. UNCHANGED <<at, m_Pid, m_Exit, result, child, status, asks, holders, echo, input, answer>>
    BY <1>2 DEF pty, dialogue, terminal
  <2>3. ControlInv
    BY PtyInvParts
  <2>4. ControlInv'
    BY <2>2, <2>3, ControlStays
  <2> QED
    BY <2>1, <2>4, PtyInvParts
<1> QED
  BY <1>1, <1>2

-------------------------------------------------------------------------------
(* Whichever is called: its variables keep its invariant, and the others   *)
(* stay as they are.                                                       *)
RunInv ==
  /\ call \in {"async", "sync", "pty"}
  /\ call = "async" => AsyncInv
  /\ call = "sync" => SyncInv
  /\ call = "pty" => PtyInv

LEMMA RunInitially == RunInit => RunInv
BY AsyncInitially, SyncInitially, PtyInitially DEF RunInit, RunInv

LEMMA RunStepKeeps == RunInv /\ [RunNext]_runVars => RunInv'
<1> SUFFICES ASSUME RunInv, [RunNext]_runVars PROVE RunInv'
  OBVIOUS
<1>1. call' = call
  BY DEF RunNext, RunAsyncNext, RunSyncNext, RunPtyNext, runVars
<1>2. CASE call = "async"
  <2>1. [Next]_vars
    BY <1>2 DEF RunNext, RunAsyncNext, RunSyncNext, RunPtyNext, runVars
  <2> QED
    BY <1>1, <1>2, <2>1, AsyncStepKeeps DEF RunInv
<1>3. CASE call = "sync"
  <2>1. [Sync!Next]_(Sync!vars)
    BY <1>3 DEF RunNext, RunAsyncNext, RunSyncNext, RunPtyNext, runVars, vars, syncVars, Sync!vars
  <2> QED
    BY <1>1, <1>3, <2>1, SyncStepKeeps DEF RunInv
<1>4. CASE call = "pty"
  <2>1. [PtyNext]_pty
    BY <1>4 DEF RunNext, RunAsyncNext, RunSyncNext, RunPtyNext, runVars
  <2> QED
    BY <1>1, <1>4, <2>1, PtyStepKeeps DEF RunInv
<1> QED
  BY <1>2, <1>3, <1>4 DEF RunInv

LEMMA RunInvHolds == RunSpec => []RunInv
BY RunInitially, RunStepKeeps, PTL DEF RunSpec

(* Whichever of run_async(), run_sync() and PtyProcess is called, its      *)
(* variables have their types; of run_sync() (Run.cpp:420-434) this is     *)
(* that it returns an exit status or one of the RUN_* codes.               *)
THEOREM RunTypeCorrect == RunSpec => []RunTypeOK
<1>1. RunInv => RunTypeOK
  BY DEF RunInv, RunTypeOK, AsyncInv, SyncInv, PtyInv
<1> QED
  BY <1>1, RunInvHolds, PTL

(* run_async() (Run.cpp:138-351) answers 0 only with a program that was    *)
(* started, and otherwise tells why the last PATH entry it tried failed,   *)
(* whatever fails or is interrupted, unless one of the faults came that    *)
(* the code does not report (Mute).                                        *)
THEOREM AnswersAreTrue == RunSpec => []AsyncAnswerIsTrue
<1>1. RunInv => AsyncAnswerIsTrue
  BY DEF RunInv, AsyncInv, AsyncAnswerIsTrue
<1> QED
  BY <1>1, RunInvHolds, PTL

(* When run_async() has returned, the child was waited for and the caller  *)
(* has no end of a pipe open (Run.cpp:138-351).                            *)
THEOREM NothingIsLeft == RunSpec => []AsyncNothingLeft
<1>1. AsyncInv => NothingLeft
  <2> SUFFICES ASSUME AsyncInv, pc["caller"] = "done", pc["child"] # "none"
               PROVE  /\ pc["child"] = "over"
                      /\ \A p \in Pipes : "caller" \notin readers[p] \cup writers[p]
    BY DEF NothingLeft
  <2> QED
    BY DEF AsyncInv, InStep, EndsHeld
<1>2. RunInv => AsyncNothingLeft
  BY <1>1 DEF RunInv, AsyncNothingLeft
<1> QED
  BY <1>2, RunInvHolds, PTL

(* When run_sync() returns 0 and the child was neither killed nor a copy   *)
(* of the caller, the program itself exited with 0 (Run.cpp:354-434); for  *)
(* any number of PATH entries, any exit status and any signal.             *)
THEOREM ZeroIsAnExitStatus == RunSpec => []SyncZeroIsAnExit
<1>1. RunInv => SyncZeroIsAnExit
  BY SyncInvImplies DEF RunInv, SyncZeroIsAnExit
<1> QED
  BY <1>1, RunInvHolds, PTL

(* What is printed on a pseudo terminal reaches the caller in its order    *)
(* and whole, in whatever parts it is read, put back and read again, and   *)
(* the answer that the caller writes after wait_slave() reaches the        *)
(* program unseen (PtyProcess.cpp:187-383); for every length of text and   *)
(* of the read() buffer.                                                   *)
THEOREM TalkAlwaysArrives == RunSpec => []PtyTalkArrives
<1>1. RunInv => PtyTalkArrives
  BY PtyInvImplies DEF RunInv, PtyTalkArrives
<1> QED
  BY <1>1, RunInvHolds, PTL
===============================================================================
