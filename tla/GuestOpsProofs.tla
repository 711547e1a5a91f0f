--------------------------- MODULE GuestOpsProofs ---------------------------
(***************************************************************************)
(* Proofs about GuestOps, for any number of calls of any kinds: what a     *)
(* call that returned nil has done, and what it has left behind.           *)
(*                                                                         *)
(* A call touches nothing of another, so that the inductive invariant is   *)
(* about one call: which phase and kind go with a step (Control), what is  *)
(* known of its programs from the phase alone (Phases), and what its       *)
(* return promises (Promises).                                             *)
(***************************************************************************)
EXTENDS GuestOps, TLAPS

Control(w) ==
  /\ outcome[w] # "pending" <=> pc[w] = "done"
  /\ pc[w] \in {"idle", "zip", "send", "temp", "fetch"} => phase[w] = "work"
  /\ pc[w] = "unzip" => phase[w] = "cleanup"
  /\ pc[w] \in {"temp", "fetch", "unzip"} => kind[w] = "download"
  /\ phase[w] # "work" => Transfer(w)
  /\ ready[w] => kind[w] = "ready"

\* The cleanup starts in a phase of its own.  The phase after success is only
\* reached when the work has ended well, and what has ended cannot change the
\* tree or the archive any more.
Phases(w) ==
  /\ phase[w] = "work" => proc[w]["cleanup"] = "none"
  /\ phase[w] = "cleanup" \/ pc[w] \in {"temp", "fetch"}
       => proc[w]["work"] = "ok"
  /\ phase[w] = "cleanup" /\ proc[w]["cleanup"] = "ok" => ~remote[w]
  /\ phase[w] = "giveUp" /\ proc[w]["cleanup"] # "none" => outcome[w] = "err"
  /\ kind[w] = "upload" /\ proc[w]["work"] = "ok" => tree[w] = "full"

Promises(w) ==
  /\ pc[w] = "unzip" /\ ~warned[w] => proc[w]["cleanup"] = "ok"
  /\ outcome[w] = "ok" /\ kind[w] \notin {"background", "ready"} =>
       /\ proc[w]["work"] = "ok"
       /\ Transfer(w) => /\ tree[w] = "full" /\ phase[w] = "cleanup"
                         /\ ~warned[w] => proc[w]["cleanup"] = "ok"

CallInv(w) == Control(w) /\ Phases(w) /\ Promises(w)

IInv == TypeOK /\ \A w \in Workers : CallInv(w)

-----------------------------------------------------------------------------
\* The types of the variables that say where a call is.
Placed ==
  /\ pc \in [Workers -> {"idle", "zip", "send", "start", "wait", "list",
                         "temp", "fetch", "unzip", "done"}]
  /\ phase \in [Workers -> {"work", "cleanup", "giveUp"}]
  /\ outcome \in [Workers -> {"pending", "ok", "err"}]
  /\ \A w \in Workers : phase[w] = "giveUp" => pc[w] \in {"start", "done"}

LEMMA GotoPlaces ==
  ASSUME TypeOK, NEW w \in Workers, phase[w] # "giveUp",
         NEW step \in {"zip", "send", "wait", "list", "temp", "fetch", "unzip"},
         Goto(w, step)
  PROVE  Placed'
  BY DEF TypeOK, Placed, Goto

LEMMA RunPlaces ==
  ASSUME TypeOK, NEW w \in Workers, NEW p \in {"work", "cleanup", "giveUp"},
         Run(w, p)
  PROVE  Placed'
  BY DEF TypeOK, Placed, Run

LEMMA ReturnPlaces ==
  ASSUME TypeOK, NEW w \in Workers, NEW result \in {"ok", "err"},
         Return(w, result)
  PROVE  Placed'
  BY DEF TypeOK, Placed, Return

LEMMA BeginKeeps ==
  ASSUME IInv, NEW w \in Workers, Begin(w)
  PROVE  IInv'
  <1> USE DEF IInv, Programs
  <1>1. TypeOK'
    <2>1. phase[w] = "giveUp" => pc[w] \in {"start", "done"}
      BY DEF TypeOK
    <2>2. Placed'
      BY <2>1, GotoPlaces, RunPlaces, ReturnPlaces DEF Begin
    <2>3. /\ archive' \in [Workers -> {"none", "cut", "full"}]
          /\ timer' \in [Workers -> {"off", "set", "expired"}]
      BY DEF TypeOK, Begin
    <2>4. UNCHANGED <<kind, ctx, ready, proc, remote, tree, warned>>
      BY DEF Begin
    <2> QED
      BY <2>2, <2>3, <2>4 DEF TypeOK, Placed
  <1>2. CallInv(w)'
    BY DEF TypeOK, CallInv, Control, Phases, Promises, Transfer, Program,
           Begin, Goto, Run, Return
  <1>3. ASSUME NEW v \in Workers, v # w PROVE CallInv(v)'
    BY DEF TypeOK, CallInv, Control, Phases, Promises, Transfer, Program,
           Begin, Goto, Run, Return
  <1> QED
    BY <1>1, <1>2, <1>3

LEMMA ZipKeeps ==
  ASSUME IInv, NEW w \in Workers, Zip(w)
  PROVE  IInv'
  <1> USE DEF IInv, Programs
  <1>1. TypeOK'
    <2>1. phase[w] = "giveUp" => pc[w] \in {"start", "done"}
      BY DEF TypeOK
    <2>2. Placed'
      BY <2>1, GotoPlaces, ReturnPlaces DEF Zip
    <2> QED
      BY <2>2 DEF TypeOK, Placed, Program, Zip
  <1>2. CallInv(w)'
    BY DEF TypeOK, CallInv, Control, Phases, Promises, Transfer, Program,
           Zip, Goto, Return
  <1>3. ASSUME NEW v \in Workers, v # w PROVE CallInv(v)'
    BY DEF TypeOK, CallInv, Control, Phases, Promises, Transfer, Program,
           Zip, Goto, Return
  <1> QED
    BY <1>1, <1>2, <1>3

LEMMA SendKeeps ==
  ASSUME IInv, NEW w \in Workers, Send(w)
  PROVE  IInv'
  <1> USE DEF IInv, Programs
  <1>1. TypeOK'
    <2>1. phase[w] = "giveUp" => pc[w] \in {"start", "done"}
      BY DEF TypeOK
    <2>2. Placed'
      BY <2>1, RunPlaces, ReturnPlaces DEF Send
    <2>3. archive' \in [Workers -> {"none", "cut", "full"}]
      BY DEF TypeOK, Send
    <2>4. remote' \in [Workers -> BOOLEAN]
      BY DEF TypeOK, Send
    <2>5. UNCHANGED <<kind, ctx, ready, timer, proc, tree, warned>>
      BY DEF Send
    <2> QED
      BY <2>2, <2>3, <2>4, <2>5 DEF TypeOK, Placed
  <1>2. CallInv(w)'
    BY DEF TypeOK, CallInv, Control, Phases, Promises, Transfer, Program,
           Send, Run, Return
  <1>3. ASSUME NEW v \in Workers, v # w PROVE CallInv(v)'
    BY DEF TypeOK, CallInv, Control, Phases, Promises, Transfer, Program,
           Send, Run, Return
  <1> QED
    BY <1>1, <1>2, <1>3

LEMMA TempKeeps ==
  ASSUME IInv, NEW w \in Workers, Temp(w)
  PROVE  IInv'
  <1> USE DEF IInv, Programs
  <1>1. TypeOK'
    <2>1. phase[w] = "giveUp" => pc[w] \in {"start", "done"}
      BY DEF TypeOK
    <2>2. Placed'
      BY <2>1, GotoPlaces, RunPlaces DEF Temp
    <2> QED
      BY <2>2 DEF TypeOK, Placed, Program, Temp
  <1>2. CallInv(w)'
    BY DEF TypeOK, CallInv, Control, Phases, Promises, Transfer, Program,
           Temp, Goto, Run
  <1>3. ASSUME NEW v \in Workers, v # w PROVE CallInv(v)'
    BY DEF TypeOK, CallInv, Control, Phases, Promises, Transfer, Program,
           Temp, Goto, Run
  <1> QED
    BY <1>1, <1>2, <1>3

LEMMA FetchKeeps ==
  ASSUME IInv, NEW w \in Workers, Fetch(w)
  PROVE  IInv'
  <1> USE DEF IInv, Programs
  <1>1. TypeOK'
    <2>1. phase[w] = "giveUp" => pc[w] \in {"start", "done"}
      BY DEF TypeOK
    <2>2. Placed'
      BY <2>1, RunPlaces DEF Fetch
    <2> QED
      BY <2>2 DEF TypeOK, Placed, Program, Fetch
  <1>2. CallInv(w)'
    BY DEF TypeOK, CallInv, Control, Phases, Promises, Transfer, Program,
           Fetch, Run
  <1>3. ASSUME NEW v \in Workers, v # w PROVE CallInv(v)'
    BY DEF TypeOK, CallInv, Control, Phases, Promises, Transfer, Program,
           Fetch, Run
  <1> QED
    BY <1>1, <1>2, <1>3

LEMMA UnzipKeeps ==
  ASSUME IInv, NEW w \in Workers, Unzip(w)
  PROVE  IInv'
  <1> USE DEF IInv, Programs
  <1>1. TypeOK'
    <2>1. phase[w] = "giveUp" => pc[w] \in {"start", "done"}
      BY DEF TypeOK
    <2>2. Placed'
      BY <2>1, ReturnPlaces DEF Unzip
    <2> QED
      BY <2>2 DEF TypeOK, Placed, Program, Unzip
  <1>2. CallInv(w)'
    BY DEF TypeOK, CallInv, Control, Phases, Promises, Transfer, Program,
           Unzip, Return
  <1>3. ASSUME NEW v \in Workers, v # w PROVE CallInv(v)'
    BY DEF TypeOK, CallInv, Control, Phases, Promises, Transfer, Program,
           Unzip, Return
  <1> QED
    BY <1>1, <1>2, <1>3

\* However a call moves on, the other calls stay where they are.
LEMMA OthersStay ==
  ASSUME TypeOK, NEW w \in Workers, NEW v \in Workers, v # w, NEW x,
         Goto(w, x) \/ Run(w, x) \/ Return(w, x)
  PROVE  pc'[v] = pc[v] /\ phase'[v] = phase[v] /\ outcome'[v] = outcome[v]
  <1>1. CASE Goto(w, x)
    BY <1>1 DEF TypeOK, Goto
  <1>2. CASE Run(w, x)
    BY <1>2 DEF TypeOK, Run
  <1>3. CASE Return(w, x)
    BY <1>3 DEF TypeOK, Return
  <1> QED
    BY <1>1, <1>2, <1>3

LEMMA StartKeeps ==
  ASSUME IInv, NEW w \in Workers, Start(w)
  PROVE  IInv'
  <1> USE DEF IInv, Programs
  <1>1. TypeOK'
    <2>1. phase[w] = "giveUp" => pc[w] \in {"start", "done"}
      BY DEF TypeOK
    <2>2. Placed'
      BY <2>1, GotoPlaces, RunPlaces, ReturnPlaces
         DEF Start, RunFailed, RunSucceeded, Waits
    <2>3. proc' \in [Workers ->
                      [Programs -> {"none", "running", "ok", "failed", "lost"}]]
      <3>1. Program(w) \in Programs
        BY DEF Program
      <3>2. CASE UNCHANGED proc
        BY <3>2 DEF TypeOK
      <3>3. CASE proc' = [proc EXCEPT ![w][Program(w)] = "running"]
        BY <3>1, <3>3 DEF TypeOK
      <3> QED
        BY <3>2, <3>3 DEF Start
    <2>4. timer' \in [Workers -> {"off", "set", "expired"}]
      BY DEF TypeOK, Start
    <2>5. warned' \in [Workers -> BOOLEAN]
      BY DEF TypeOK, Start, RunFailed, RunSucceeded
    <2>6. UNCHANGED <<kind, ctx, ready, archive, remote, tree>>
      BY DEF Start
    <2> QED
      BY <2>2, <2>3, <2>4, <2>5, <2>6 DEF TypeOK, Placed
  <1>2. CallInv(w)'
    BY DEF TypeOK, CallInv, Control, Phases, Promises, Transfer, Program,
           Start, RunFailed, RunSucceeded, Waits, Goto, Run, Return
  <1>3. ASSUME NEW v \in Workers, v # w PROVE CallInv(v)'
    <2>0. TypeOK /\ v # w
      BY <1>3
    <2> HIDE DEF IInv, Programs
    <2>1. /\ pc'[v] = pc[v] /\ phase'[v] = phase[v]
          /\ outcome'[v] = outcome[v]
      BY <2>0, OthersStay DEF Start, RunFailed, RunSucceeded
    <2>2. warned'[v] = warned[v] /\ proc'[v] = proc[v]
      BY <2>0 DEF TypeOK, Start, RunFailed, RunSucceeded
    <2>3. UNCHANGED <<kind, ready, remote, tree>>
      BY DEF Start
    <2>4. CallInv(v)
      BY DEF IInv
    <2> QED
      BY <2>1, <2>2, <2>3, <2>4
         DEF CallInv, Control, Phases, Promises, Transfer
  <1> QED
    BY <1>1, <1>2, <1>3

LEMMA TickKeeps ==
  ASSUME IInv, NEW w \in Workers, Tick(w)
  PROVE  IInv'
  <1> USE DEF IInv, Programs
  <1>1. TypeOK'
    BY DEF TypeOK, Tick, Goto, Program
  <1>2. CallInv(w)'
    BY DEF TypeOK, CallInv, Control, Phases, Promises, Transfer, Program,
           Tick, Goto
  <1>3. ASSUME NEW v \in Workers, v # w PROVE CallInv(v)'
    BY DEF TypeOK, CallInv, Control, Phases, Promises, Transfer, Program,
           Tick, Goto
  <1> QED
    BY <1>1, <1>2, <1>3

LEMMA AnswerKeeps ==
  ASSUME IInv, NEW w \in Workers, Answer(w)
  PROVE  IInv'
  <1> USE DEF IInv, Programs
  <1>1. TypeOK'
    <2>1. phase[w] = "giveUp" => pc[w] \in {"start", "done"}
      BY DEF TypeOK
    <2>2. Placed'
      BY <2>1, GotoPlaces, RunPlaces, ReturnPlaces
         DEF Answer, RunFailed, RunSucceeded
    <2>3. warned' \in [Workers -> BOOLEAN]
      BY DEF TypeOK, Answer, RunFailed, RunSucceeded
    <2>4. UNCHANGED <<kind, ctx, ready, timer, proc, archive, remote, tree>>
      BY DEF Answer
    <2> QED
      BY <2>2, <2>3, <2>4 DEF TypeOK, Placed
  <1>2. CallInv(w)'
    BY DEF TypeOK, CallInv, Control, Phases, Promises, Transfer, Program,
           Answer, RunFailed, RunSucceeded, Goto, Run, Return
  <1>3. ASSUME NEW v \in Workers, v # w PROVE CallInv(v)'
    BY DEF TypeOK, CallInv, Control, Phases, Promises, Transfer, Program,
           Answer, RunFailed, RunSucceeded, Goto, Run, Return
  <1> QED
    BY <1>1, <1>2, <1>3

LEMMA WaitTimesOutKeeps ==
  ASSUME IInv, NEW w \in Workers, WaitTimesOut(w)
  PROVE  IInv'
  <1> USE DEF IInv, Programs
  <1>1. TypeOK'
    <2>1. phase[w] = "giveUp" => pc[w] \in {"start", "done"}
      BY DEF TypeOK
    <2>2. Placed'
      BY <2>1, GotoPlaces, RunPlaces, ReturnPlaces DEF WaitTimesOut, RunFailed
    <2>3. warned' \in [Workers -> BOOLEAN]
      BY DEF TypeOK, WaitTimesOut, RunFailed
    <2>4. UNCHANGED <<kind, ctx, ready, timer, proc, archive, remote, tree>>
      BY DEF WaitTimesOut
    <2> QED
      BY <2>2, <2>3, <2>4 DEF TypeOK, Placed
  <1>2. CallInv(w)'
    BY DEF TypeOK, CallInv, Control, Phases, Promises, Transfer, Program,
           WaitTimesOut, RunFailed, Goto, Run, Return
  <1>3. ASSUME NEW v \in Workers, v # w PROVE CallInv(v)'
    BY DEF TypeOK, CallInv, Control, Phases, Promises, Transfer, Program,
           WaitTimesOut, RunFailed, Goto, Run, Return
  <1> QED
    BY <1>1, <1>2, <1>3

LEMMA TimerExpiresKeeps ==
  ASSUME IInv, NEW w \in Workers, TimerExpires(w)
  PROVE  IInv'
  <1> USE DEF IInv, Programs
  <1>1. TypeOK'
    BY DEF TypeOK, TimerExpires, Program
  <1>2. CallInv(w)'
    BY DEF TypeOK, CallInv, Control, Phases, Promises, Transfer, Program,
           TimerExpires
  <1>3. ASSUME NEW v \in Workers, v # w PROVE CallInv(v)'
    BY DEF TypeOK, CallInv, Control, Phases, Promises, Transfer, Program,
           TimerExpires
  <1> QED
    BY <1>1, <1>2, <1>3

LEMMA CancelKeeps ==
  ASSUME IInv, NEW w \in Workers, Cancel(w)
  PROVE  IInv'
  <1> USE DEF IInv, Programs
  <1>1. TypeOK'
    BY DEF TypeOK, Cancel, Program
  <1>2. CallInv(w)'
    BY DEF TypeOK, CallInv, Control, Phases, Promises, Transfer, Program,
           Cancel
  <1>3. ASSUME NEW v \in Workers, v # w PROVE CallInv(v)'
    BY DEF TypeOK, CallInv, Control, Phases, Promises, Transfer, Program,
           Cancel
  <1> QED
    BY <1>1, <1>2, <1>3

LEMMA WorkWritesKeeps ==
  ASSUME IInv, NEW w \in Workers, WorkWrites(w)
  PROVE  IInv'
  <1> USE DEF IInv, Programs
  <1>1. TypeOK'
    <2>1. /\ archive' \in [Workers -> {"none", "cut", "full"}]
          /\ remote' \in [Workers -> BOOLEAN]
          /\ tree' \in [Workers -> {"none", "partial", "full"}]
      <3>1. /\ archive' \in {archive, [archive EXCEPT ![w] = "cut"]}
            /\ remote' \in {remote, [remote EXCEPT ![w] = TRUE]}
            /\ tree' \in {tree, [tree EXCEPT ![w] = "partial"]}
        BY DEF WorkWrites
      <3>2. /\ archive \in [Workers -> {"none", "cut", "full"}]
            /\ remote \in [Workers -> BOOLEAN]
            /\ tree \in [Workers -> {"none", "partial", "full"}]
        BY DEF TypeOK
      <3> HIDE DEF IInv
      <3> QED
        BY <3>1, <3>2
    <2>2. UNCHANGED <<kind, pc, phase, ctx, timer, ready, proc, warned,
                      outcome>>
      BY DEF WorkWrites
    <2> QED
      BY <2>1, <2>2 DEF TypeOK
  <1>2. CallInv(w)'
    BY DEF TypeOK, CallInv, Control, Phases, Promises, Transfer, Program,
           WorkWrites
  <1>3. ASSUME NEW v \in Workers, v # w PROVE CallInv(v)'
    BY DEF TypeOK, CallInv, Control, Phases, Promises, Transfer, Program,
           WorkWrites
  <1> QED
    BY <1>1, <1>2, <1>3

LEMMA WorkSucceedsKeeps ==
  ASSUME IInv, NEW w \in Workers, WorkSucceeds(w)
  PROVE  IInv'
  <1> USE DEF IInv, Programs
  <1>1. TypeOK'
    <2>1. /\ archive' \in [Workers -> {"none", "cut", "full"}]
          /\ remote' \in [Workers -> BOOLEAN]
          /\ tree' \in [Workers -> {"none", "partial", "full"}]
      <3>1. /\ archive' \in {archive, [archive EXCEPT ![w] = "full"]}
            /\ remote' \in {remote, [remote EXCEPT ![w] = TRUE]}
            /\ tree' \in {tree, [tree EXCEPT ![w] = "full"]}
        BY DEF WorkSucceeds
      <3>2. /\ archive \in [Workers -> {"none", "cut", "full"}]
            /\ remote \in [Workers -> BOOLEAN]
            /\ tree \in [Workers -> {"none", "partial", "full"}]
        BY DEF TypeOK
      <3> HIDE DEF IInv
      <3> QED
        BY <3>1, <3>2
    <2>2. proc' \in [Workers ->
                      [Programs -> {"none", "running", "ok", "failed", "lost"}]]
      BY DEF TypeOK, WorkSucceeds, Ends
    <2>3. UNCHANGED <<kind, pc, phase, ctx, timer, ready, warned, outcome>>
      BY DEF WorkSucceeds, Ends
    <2> QED
      BY <2>1, <2>2, <2>3 DEF TypeOK
  <1>2. CallInv(w)'
    BY DEF TypeOK, CallInv, Control, Phases, Promises, Transfer, Program,
           WorkSucceeds, Ends
  <1>3. ASSUME NEW v \in Workers, v # w PROVE CallInv(v)'
    BY DEF TypeOK, CallInv, Control, Phases, Promises, Transfer, Program,
           WorkSucceeds, Ends
  <1> QED
    BY <1>1, <1>2, <1>3

LEMMA CleanupSucceedsKeeps ==
  ASSUME IInv, NEW w \in Workers, CleanupSucceeds(w)
  PROVE  IInv'
  <1> USE DEF IInv, Programs
  <1>1. TypeOK'
    BY DEF TypeOK, CleanupSucceeds, Ends, Program
  <1>2. CallInv(w)'
    BY DEF TypeOK, CallInv, Control, Phases, Promises, Transfer, Program,
           CleanupSucceeds, Ends
  <1>3. ASSUME NEW v \in Workers, v # w PROVE CallInv(v)'
    BY DEF TypeOK, CallInv, Control, Phases, Promises, Transfer, Program,
           CleanupSucceeds, Ends
  <1> QED
    BY <1>1, <1>2, <1>3

LEMMA ProgramFailsKeeps ==
  ASSUME IInv, NEW w \in Workers, ProgramFails(w)
  PROVE  IInv'
  <1> USE DEF IInv, Programs
  <1>1. TypeOK'
    BY DEF TypeOK, ProgramFails, Ends, Program
  <1>2. CallInv(w)'
    BY DEF TypeOK, CallInv, Control, Phases, Promises, Transfer, Program,
           ProgramFails, Ends
  <1>3. ASSUME NEW v \in Workers, v # w PROVE CallInv(v)'
    BY DEF TypeOK, CallInv, Control, Phases, Promises, Transfer, Program,
           ProgramFails, Ends
  <1> QED
    BY <1>1, <1>2, <1>3

LEMMA GuestChangesKeeps ==
  ASSUME IInv, NEW w \in Workers, GuestChanges(w)
  PROVE  IInv'
  <1> USE DEF IInv, Programs
  <1>1. TypeOK'
    BY DEF TypeOK, GuestChanges, Program
  <1>2. CallInv(w)'
    BY DEF TypeOK, CallInv, Control, Phases, Promises, Transfer, Program,
           GuestChanges
  <1>3. ASSUME NEW v \in Workers, v # w PROVE CallInv(v)'
    BY DEF TypeOK, CallInv, Control, Phases, Promises, Transfer, Program,
           GuestChanges
  <1> QED
    BY <1>1, <1>2, <1>3

LEMMA RebootKeeps ==
  ASSUME IInv, Reboot
  PROVE  IInv'
  <1> USE DEF IInv, Programs
  <1>1. TypeOK'
    BY DEF TypeOK, Reboot
  <1>2. ASSUME NEW v \in Workers PROVE CallInv(v)'
    BY DEF TypeOK, CallInv, Control, Phases, Promises, Transfer, Reboot
  <1> QED
    BY <1>1, <1>2

LEMMA NothingKeeps ==
  ASSUME IInv, UNCHANGED vars
  PROVE  IInv'
  BY DEF IInv, TypeOK, CallInv, Control, Phases, Promises, Transfer, vars

LEMMA InitHolds == Init => IInv
  <1> SUFFICES ASSUME Init PROVE IInv
    OBVIOUS
  <1>1. TypeOK
    BY DEF Init, TypeOK, Programs
  <1>2. ASSUME NEW w \in Workers PROVE CallInv(w)
    BY DEF Init, CallInv, Control, Phases, Promises, Transfer, Programs
  <1> QED
    BY <1>1, <1>2 DEF IInv

LEMMA StepKeeps == IInv /\ [Next]_vars => IInv'
  <1> SUFFICES ASSUME IInv, [Next]_vars PROVE IInv'
    OBVIOUS
  <1>1. ASSUME NEW w \in Workers, Call(w) PROVE IInv'
    BY <1>1, BeginKeeps, ZipKeeps, SendKeeps, TempKeeps, FetchKeeps,
       UnzipKeeps, StartKeeps, TickKeeps, AnswerKeeps, WaitTimesOutKeeps
       DEF Call
  <1>2. ASSUME NEW w \in Workers, Guest(w) PROVE IInv'
    BY <1>2, WorkWritesKeeps, WorkSucceedsKeeps, CleanupSucceedsKeeps,
       ProgramFailsKeeps, GuestChangesKeeps DEF Guest
  <1> QED
    BY <1>1, <1>2, TimerExpiresKeeps, CancelKeeps, RebootKeeps, NothingKeeps
       DEF Next

-----------------------------------------------------------------------------
\* The inductive invariant holds in every reachable state.
THEOREM Inductive == Spec => []IInv
  BY InitHolds, StepKeeps, PTL DEF Spec

\* The types of the variables hold for any calls: in particular, a call that
\* gave up on its upload or download waits for nothing more.
THEOREM TypeCorrect == Spec => []TypeOK
  <1>1. IInv => TypeOK
    BY DEF IInv
  <1> QED
    BY Inductive, <1>1, PTL

\* A call that waited and returned nil (UploadDirectoryToVM,
\* DownloadDirectoryFromVM, UploadAndRunScript) has done what it was for.
THEOREM SuccessIsTrue == Spec => []SuccessIsReal
  <1>1. IInv => SuccessIsReal
    BY DEF IInv, CallInv, Promises, SuccessIsReal
  <1> QED
    BY Inductive, <1>1, PTL

\* A directory transfer that returned nil without a warning has left nothing
\* behind on the guest: both its programs have ended, and the second one has
\* removed the archive.
THEOREM SuccessIsClean == Spec => []SuccessCleansUp
  <1>1. IInv => SuccessCleansUp
    BY DEF IInv, CallInv, Phases, Promises, Transfer, Programs,
           SuccessCleansUp
  <1> QED
    BY Inductive, <1>1, PTL

\* Only a call that is at "start" starts a program, and only one that is at
\* "send" touches the file on the guest.
LEMMA CallsTouch ==
  ASSUME NEW v \in Workers, Call(v)
  PROVE  /\ UNCHANGED proc \/ (pc[v] = "start" /\ Start(v))
         /\ UNCHANGED remote \/ remote' = [remote EXCEPT ![v] = TRUE]
  <1>1. CASE Start(v)
    BY <1>1 DEF Start
  <1>2. CASE Send(v)
    BY <1>2 DEF Send
  <1>3. CASE Begin(v) \/ Zip(v) \/ Temp(v) \/ Fetch(v) \/ Unzip(v)
    BY <1>3 DEF Begin, Zip, Temp, Fetch, Unzip
  <1>4. CASE Tick(v) \/ Answer(v) \/ WaitTimesOut(v)
    BY <1>4 DEF Tick, Answer, WaitTimesOut
  <1> QED
    BY <1>1, <1>2, <1>3, <1>4 DEF Call

\* A step deletes the archive of w while its work runs only if w gave up, and
\* has returned an error.
LEMMA ArchiveIsKept ==
  ASSUME IInv, [Next]_vars, NEW w \in Workers,
         remote[w], ~remote'[w], proc[w]["work"] = "running"
  PROVE  outcome[w] = "err"
  <1> USE DEF IInv, TypeOK
  <1>1. ASSUME NEW v \in Workers, CleanupSucceeds(v) PROVE outcome[w] = "err"
    <2>1. proc[v]["cleanup"] = "running" /\ remote' = [remote EXCEPT ![v] = FALSE]
      BY <1>1 DEF CleanupSucceeds, Ends
    <2>2. v = w
      BY <2>1
    <2>3. phase[w] # "work" /\ phase[w] # "cleanup"
      BY <2>1, <2>2 DEF CallInv, Phases
    <2>4. phase[w] = "giveUp"
      BY <2>3
    <2> QED
      BY <2>1, <2>2, <2>4 DEF CallInv, Phases
  <1>2. ASSUME NEW v \in Workers, WorkWrites(v) \/ WorkSucceeds(v)
        PROVE  FALSE
    BY <1>2 DEF WorkWrites, WorkSucceeds
  <1>3. ASSUME NEW v \in Workers, ProgramFails(v) \/ GuestChanges(v)
        PROVE  FALSE
    BY <1>3 DEF ProgramFails, GuestChanges
  <1>4. ASSUME NEW v \in Workers, Call(v) PROVE FALSE
    <2>1. CASE UNCHANGED remote
      BY <2>1
    <2>2. CASE remote' = [remote EXCEPT ![v] = TRUE]
      <3>1. remote'[w] = IF w = v THEN TRUE ELSE remote[w]
        BY <2>2
      <3> QED
        BY <3>1
    <2> QED
      BY <1>4, <2>1, <2>2, CallsTouch
  <1>5. ASSUME NEW v \in Workers, TimerExpires(v) \/ Cancel(v) PROVE FALSE
    BY <1>5 DEF TimerExpires, Cancel
  <1>6. CASE Reboot \/ UNCHANGED vars
    BY <1>6 DEF Reboot, vars
  <1> QED
    BY <1>1, <1>2, <1>3, <1>4, <1>5, <1>6 DEF Next, Guest

\* No step starts a program of a call that has returned.
LEMMA ReturnedStartsNothing ==
  ASSUME IInv, [Next]_vars, NEW w \in Workers, outcome[w] # "pending",
         NEW p \in Programs, proc'[w][p] = "running"
  PROVE  proc[w][p] = "running"
  <1> USE DEF IInv, TypeOK
  <1>1. ASSUME NEW v \in Workers, NEW q \in Programs,
               NEW how \in {"ok", "failed"}, Ends(v, q, how)
        PROVE  proc[w][p] = "running"
    BY <1>1 DEF Ends, Programs
  <1>2. ASSUME NEW v \in Workers, Guest(v) PROVE proc[w][p] = "running"
    <2>1. CASE WorkWrites(v) \/ GuestChanges(v)
      BY <2>1 DEF WorkWrites, GuestChanges
    <2>2. CASE WorkSucceeds(v) \/ CleanupSucceeds(v) \/ ProgramFails(v)
      BY <1>1, <2>2 DEF WorkSucceeds, CleanupSucceeds, ProgramFails, Programs
    <2> QED
      BY <1>2, <2>1, <2>2 DEF Guest
  <1>3. ASSUME NEW v \in Workers, Call(v) PROVE proc[w][p] = "running"
    <2>1. CASE UNCHANGED proc
      BY <2>1
    <2>2. CASE pc[v] = "start" /\ Start(v)
      <3>1. v # w
        BY <2>2 DEF CallInv, Control
      <3>2. UNCHANGED proc \/ proc' = [proc EXCEPT ![v][Program(v)] = "running"]
        BY <2>2 DEF Start
      <3> QED
        BY <3>1, <3>2
    <2> QED
      BY <1>3, <2>1, <2>2, CallsTouch
  <1>4. ASSUME NEW v \in Workers, TimerExpires(v) \/ Cancel(v)
        PROVE  proc[w][p] = "running"
    BY <1>4 DEF TimerExpires, Cancel
  <1>5. CASE Reboot
    BY <1>5 DEF Reboot, Programs
  <1>6. CASE UNCHANGED vars
    BY <1>6 DEF vars
  <1> QED
    BY <1>2, <1>3, <1>4, <1>5, <1>6 DEF Next

\* The archive goes while the work still runs only after the call has reported
\* that it gave up, and a call that has returned starts no program.
THEOREM CleanupComesAfter == Spec => DeletedOnlyWhenDone
  <1>1. ASSUME IInv, [Next]_vars
        PROVE  \A w \in Workers :
                 /\ remote[w] /\ ~remote'[w] /\ proc[w]["work"] = "running"
                      => outcome[w] = "err"
                 /\ outcome[w] # "pending" =>
                      \A p \in Programs :
                        proc'[w][p] = "running" => proc[w][p] = "running"
    BY <1>1, ArchiveIsKept, ReturnedStartsNothing
  <1> QED
    BY Inductive, <1>1, PTL DEF Spec, DeletedOnlyWhenDone

-----------------------------------------------------------------------------
(* A call repeats nothing but its polls.                                   *)

\* How far a call at step p of phase f is from its return.
Distance(p, f) ==
  CASE p = "idle"                               -> 10
    [] p = "zip"                                -> 9
    [] p = "send"                               -> 8
    [] p = "start" /\ f = "work"                -> 7
    [] p \in {"wait", "list"} /\ f = "work"     -> 6
    [] p = "temp"                               -> 5
    [] p = "fetch"                              -> 4
    [] p = "start" /\ f # "work"                -> 3
    [] p \in {"wait", "list"} /\ f # "work"     -> 2
    [] p = "unzip"                              -> 1
    [] p = "done"                               -> 0

Nearer(w) == Distance(pc[w], phase[w])' < Distance(pc[w], phase[w])

\* A poll and the answer that has it repeated.
Polls(w) == {pc[w], pc'[w]} = {"wait", "list"} /\ phase'[w] = phase[w]

\* Every other step of a call brings it nearer to its return, and nothing that
\* happens to it takes it away from there.
OnlyPollsRepeat ==
  [][\A w \in Workers :
       UNCHANGED <<pc[w], phase[w]>> \/ Polls(w) \/ Nearer(w)]_vars

LEMMA GotoNearer ==
  ASSUME TypeOK, NEW w \in Workers, NEW step, Goto(w, step),
         Distance(step, phase[w]) < Distance(pc[w], phase[w])
  PROVE  Nearer(w)
  <1>1. pc'[w] = step /\ phase'[w] = phase[w]
    BY DEF TypeOK, Goto
  <1> QED
    BY <1>1 DEF Nearer

LEMMA RunNearer ==
  ASSUME TypeOK, NEW w \in Workers, NEW p, Run(w, p),
         Distance("start", p) < Distance(pc[w], phase[w])
  PROVE  Nearer(w)
  <1>1. pc'[w] = "start" /\ phase'[w] = p
    BY DEF TypeOK, Run
  <1> QED
    BY <1>1 DEF Nearer

LEMMA ReturnNearer ==
  ASSUME TypeOK, NEW w \in Workers, pc[w] # "done", NEW result,
         Return(w, result)
  PROVE  Nearer(w)
  <1>1. pc'[w] = "done" /\ phase'[w] = phase[w]
    BY DEF TypeOK, Return
  <1>2. Distance("done", phase[w]) = 0
    BY DEF Distance
  <1>3. Distance(pc[w], phase[w]) > 0
    BY DEF TypeOK, Distance
  <1> QED
    BY <1>1, <1>2, <1>3 DEF Nearer

\* RunScriptOnVM returns.
LEMMA RunEndsNearer ==
  ASSUME TypeOK, NEW w \in Workers, pc[w] \in {"start", "wait", "list"},
         RunSucceeded(w) \/ RunFailed(w)
  PROVE  Nearer(w)
  <1> DEFINE d == Distance(pc[w], phase[w])
  <1>1. phase[w] = "work" => d \in {6, 7}
    BY DEF Distance
  <1>2. phase[w] # "work" => d \in {2, 3}
    BY DEF Distance
  <1>3. /\ \A f : Distance("temp", f) = 5 /\ Distance("unzip", f) = 1
        /\ Distance("start", "cleanup") = 3 /\ Distance("start", "giveUp") = 3
    BY DEF Distance
  <1>4. ASSUME NEW p \in {"cleanup", "giveUp"}, Run(w, p), phase[w] = "work"
        PROVE  Nearer(w)
    BY <1>1, <1>3, <1>4, RunNearer
  <1>5. CASE Goto(w, "temp") /\ phase[w] = "work"
    BY <1>1, <1>3, <1>5, GotoNearer
  <1>6. CASE Goto(w, "unzip")
    BY <1>1, <1>2, <1>3, <1>6, GotoNearer
  <1>7. CASE Return(w, "ok") \/ Return(w, "err")
    BY <1>7, ReturnNearer
  <1>8. \/ phase[w] = "work" /\ (Run(w, "cleanup") \/ Run(w, "giveUp"))
        \/ phase[w] = "work" /\ Goto(w, "temp")
        \/ Goto(w, "unzip") \/ Return(w, "ok") \/ Return(w, "err")
    BY DEF RunSucceeded, RunFailed
  <1> QED
    BY <1>4, <1>5, <1>6, <1>7, <1>8

LEMMA CallGoesOn ==
  ASSUME IInv, NEW w \in Workers, Call(w)
  PROVE  Polls(w) \/ Nearer(w)
  <1>0. TypeOK /\ Control(w)
    BY DEF IInv, CallInv
  <1> USE DEF Distance
  <1>1. CASE Begin(w)
    <2>1. pc[w] = "idle" /\ phase[w] = "work"
      BY <1>0, <1>1 DEF Begin, Control
    <2>2. \/ \E step \in {"zip", "send", "wait"} : Goto(w, step)
          \/ Return(w, "err") \/ Run(w, "work")
      BY <1>1 DEF Begin
    <2> QED
      BY <1>0, <2>1, <2>2, GotoNearer, RunNearer, ReturnNearer
  <1>2. CASE Zip(w)
    BY <1>0, <1>2, GotoNearer, ReturnNearer DEF Zip
  <1>3. CASE Send(w)
    BY <1>0, <1>3, RunNearer, ReturnNearer DEF Send
  <1>4. CASE Temp(w)
    BY <1>0, <1>4, GotoNearer, RunNearer DEF Temp
  <1>5. CASE Fetch(w)
    BY <1>0, <1>5, RunNearer DEF Fetch
  <1>6. CASE Unzip(w)
    BY <1>0, <1>6, ReturnNearer DEF Unzip
  <1>7. CASE Start(w)
    <2>1. CASE Goto(w, "wait")
      BY <1>0, <1>7, <2>1, GotoNearer DEF Start
    <2> QED
      BY <1>0, <1>7, <2>1, RunEndsNearer DEF Start
  <1>8. CASE Tick(w)
    BY <1>0, <1>8 DEF Tick, Goto, TypeOK, Polls
  <1>9. CASE Answer(w)
    <2>1. CASE Goto(w, "wait")
      BY <1>0, <1>9, <2>1 DEF Answer, Goto, TypeOK, Polls
    <2> QED
      BY <1>0, <1>9, <2>1, RunEndsNearer DEF Answer
  <1>10. CASE WaitTimesOut(w)
    BY <1>0, <1>10, RunEndsNearer DEF WaitTimesOut
  <1> QED
    BY <1>1, <1>2, <1>3, <1>4, <1>5, <1>6, <1>7, <1>8, <1>9, <1>10 DEF Call

\* The other calls, the guest and the clock leave a call where it is.
LEMMA OthersLeaveIt ==
  ASSUME TypeOK, [Next]_vars, NEW w \in Workers, ~Call(w)
  PROVE  UNCHANGED <<pc[w], phase[w]>>
  <1>1. ASSUME NEW v \in Workers, v # w, Call(v)
        PROVE  UNCHANGED <<pc[w], phase[w]>>
    <2>1. \/ \E step : Goto(v, step)
          \/ \E p : Run(v, p)
          \/ \E result : Return(v, result)
      BY <1>1 DEF Call, Begin, Zip, Send, Temp, Fetch, Unzip, Start, Tick,
                  Answer, WaitTimesOut, RunSucceeded, RunFailed
    <2> QED
      BY <1>1, <2>1 DEF Goto, Run, Return, TypeOK
  <1>2. ASSUME NEW v \in Workers, Guest(v) \/ TimerExpires(v) \/ Cancel(v)
        PROVE  UNCHANGED <<pc, phase>>
    BY <1>2 DEF Guest, WorkWrites, WorkSucceeds, CleanupSucceeds, ProgramFails,
                GuestChanges, Ends, TimerExpires, Cancel
  <1>3. CASE Reboot \/ UNCHANGED vars
    BY <1>3 DEF Reboot, vars
  <1> QED
    BY <1>1, <1>2, <1>3 DEF Next

\* A transfer, a script and a wait have no way back: apart from the polls of a
\* program, or of the guest, a call takes at most ten steps.
THEOREM CallsGoOn == Spec => OnlyPollsRepeat
  <1>1. ASSUME IInv, [Next]_vars
        PROVE  \A w \in Workers :
                 UNCHANGED <<pc[w], phase[w]>> \/ Polls(w) \/ Nearer(w)
    BY <1>1, CallGoesOn, OthersLeaveIt DEF IInv
  <1> QED
    BY Inductive, <1>1, PTL DEF Spec, OnlyPollsRepeat
=============================================================================
