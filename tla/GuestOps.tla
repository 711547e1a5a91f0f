------------------------------ MODULE GuestOps ------------------------------
(***************************************************************************)
(* Guest operations (vcenter.go): UploadDirectoryToVM,                     *)
(* DownloadDirectoryFromVM and UploadAndRunScript, with the UploadFileToVM,*)
(* DownloadFileFromVM and RunScriptOnVM they are made of; and the waits    *)
(* that come before them, WaitForIP and WaitForTools.                      *)
(*                                                                         *)
(* A call moves one archive (or script) between the local machine and the  *)
(* guest, and has the guest agent start programs: the work (extract, zip,  *)
(* the script) and the cleanup, which deletes the archive on the guest.    *)
(* A program runs on when nobody polls it any more.                        *)
(*                                                                         *)
(* Archives are named after the clock in nanoseconds, so that each call    *)
(* has one of its own.                                                     *)
(***************************************************************************)
EXTENDS Naturals

CONSTANTS
  Workers,                  \* the goroutines, each making one call
  Kinds                     \* the calls they may make

AllKinds == {"upload",      \* UploadDirectoryToVM
             "download",    \* DownloadDirectoryFromVM
             "script",      \* UploadAndRunScript, waiting for completion
             "background",  \* UploadAndRunScript, not waiting
            "ready"}       \* WaitForIP, WaitForTools

ASSUME KindsAssumption == Kinds \subseteq AllKinds

VARIABLES
  kind,      \* kind[w]: the call
  pc,        \* pc[w]: the step it is at
  phase,     \* phase[w]: what RunScriptOnVM is (or was last) called for
  ctx,       \* ctx[w]: whether the context of the call is still live
  timer,     \* timer[w]: whether the 5 minutes of RunScriptOnVM are over
  ready,     \* ready[w]: whether the guest has the address, or runs the tools
  proc,      \* proc[w]: the two programs of the call, as the guest sees them
  archive,   \* archive[w]: the bytes of the archive or script
  remote,    \* remote[w]: whether the file on the guest exists
  tree,      \* tree[w]: what the destination directory holds
  warned,    \* warned[w]: whether a failed cleanup was logged
  outcome    \* outcome[w]: what the call returned

vars == <<kind, pc, phase, ctx, timer, ready, proc, archive, remote, tree,
          warned, outcome>>

Programs == {"work", "cleanup"}
Transfer(w) == kind[w] \in {"upload", "download"}

\* The program RunScriptOnVM starts, and whether it waits for its end.
Program(w) == IF phase[w] = "work" THEN "work" ELSE "cleanup"

\* Mutants: nobody waits for the cleanup; nobody waits for the work; the
\* cleanup of a failed upload is waited for.
Waits_WorkOnly(w) == phase[w] = "work" /\ kind[w] # "background"

Waits_CleanupOnly(w) == phase[w] = "cleanup"

Waits_Always(w) == kind[w] # "background"

Waits(w) == phase[w] # "giveUp" /\ kind[w] # "background"

Init ==
  /\ kind    \in [Workers -> Kinds]
  /\ pc      = [w \in Workers |-> "idle"]
  /\ phase   = [w \in Workers |-> "work"]
  /\ ctx     = [w \in Workers |-> "live"]
  /\ timer   = [w \in Workers |-> "off"]
  /\ ready   = [w \in Workers |-> FALSE]
  /\ proc    = [w \in Workers |-> [p \in Programs |-> "none"]]
  /\ archive = [w \in Workers |-> "none"]
  /\ remote  = [w \in Workers |-> FALSE]
  /\ tree    = [w \in Workers |-> "none"]
  /\ warned  = [w \in Workers |-> FALSE]
  /\ outcome = [w \in Workers |-> "pending"]

-----------------------------------------------------------------------------
(* Where a call goes next.                                                 *)

Goto(w, step) ==
  /\ pc' = [pc EXCEPT ![w] = step]
  /\ UNCHANGED <<phase, outcome>>

Run(w, p) ==
  /\ pc' = [pc EXCEPT ![w] = "start"]
  /\ phase' = [phase EXCEPT ![w] = p]
  /\ UNCHANGED outcome

Return(w, result) ==
  /\ pc' = [pc EXCEPT ![w] = "done"]
  /\ outcome' = [outcome EXCEPT ![w] = result]
  /\ UNCHANGED phase

\* What follows when RunScriptOnVM returns nil, and when it returns an error.
\* An upload whose extraction failed starts the cleanup without waiting for
\* it; a cleanup that failed is logged.
RunSucceeded(w) ==
  /\ UNCHANGED warned
  /\ CASE phase[w] = "work" /\ kind[w] = "upload"      -> Run(w, "cleanup")
       [] phase[w] = "work" /\ kind[w] = "download"    -> Goto(w, "temp")
       [] phase[w] = "cleanup" /\ kind[w] = "download" -> Goto(w, "unzip")
       [] phase[w] = "giveUp"                          -> Return(w, "err")
       [] OTHER                                        -> Return(w, "ok")

RunFailed(w) ==
  IF phase[w] = "cleanup"
  THEN /\ warned' = [warned EXCEPT ![w] = TRUE]
       /\ IF kind[w] = "download" THEN Goto(w, "unzip") ELSE Return(w, "ok")
  ELSE /\ UNCHANGED warned
       /\ IF phase[w] = "work" /\ kind[w] = "upload" THEN Run(w, "giveUp")
                                                     ELSE Return(w, "err")

-----------------------------------------------------------------------------
(* RunScriptOnVM.                                                          *)

\* StartProgram fails, or starts the program; its reply may be lost.
Start(w) ==
  /\ pc[w] = "start"
  /\ \/ /\ RunFailed(w)
        /\ UNCHANGED <<proc, timer>>
     \/ /\ ctx[w] = "live"
        /\ proc' = [proc EXCEPT ![w][Program(w)] = "running"]
        /\ \/ RunFailed(w) /\ UNCHANGED timer
           \/ /\ Waits(w)
              /\ Goto(w, "wait")
              /\ timer' = [timer EXCEPT ![w] = "set"]
              /\ UNCHANGED warned
           \/ ~Waits(w) /\ RunSucceeded(w) /\ UNCHANGED timer
  /\ UNCHANGED <<kind, ctx, ready, archive, remote, tree>>

TimerExpires(w) ==
  /\ pc[w] \in {"wait", "list"} /\ timer[w] = "set"
  /\ timer' = [timer EXCEPT ![w] = "expired"]
  /\ UNCHANGED <<kind, pc, phase, ctx, ready, proc, archive, remote, tree,
                 warned, outcome>>

\* The ticker is ready; with the deadline over too, select takes either.
Tick(w) ==
  /\ pc[w] = "wait"
  /\ Goto(w, "list")
  /\ UNCHANGED <<kind, ctx, ready, timer, proc, archive, remote, tree, warned>>

\* Mutant: a program that has ended has succeeded.
Answer_AnyExitCode(w) ==
  /\ pc[w] = "list"
  /\ \/ Goto(w, "wait") /\ UNCHANGED warned
     \/ /\ ctx[w] = "live" /\ proc[w][Program(w)] \in {"ok", "failed"}
        /\ RunSucceeded(w)
  /\ UNCHANGED <<kind, ctx, ready, timer, proc, archive, remote, tree>>

\* The poll returns: ListProcesses, or the properties of the guest.  An error,
\* an empty list, a program without an end time and a guest that is not ready
\* all mean to poll again.
Answer(w) ==
  /\ pc[w] = "list"
  /\ \/ Goto(w, "wait") /\ UNCHANGED warned
     \/ /\ ctx[w] = "live" /\ proc[w][Program(w)] = "ok"
        /\ RunSucceeded(w)
     \/ /\ ctx[w] = "live" /\ proc[w][Program(w)] = "failed"
        /\ RunFailed(w)
     \/ /\ ctx[w] = "live" /\ ready[w]
        /\ RunSucceeded(w)
  /\ UNCHANGED <<kind, ctx, ready, timer, proc, archive, remote, tree>>

\* The context of a poll is over.  RunScriptOnVM polls with the context of its
\* caller, the other waits with the one that has the deadline.
\* Mutant: they all poll with the context of the caller.
PollIsOver_Caller(w) == ctx[w] = "cancelled"

PollIsOver(w) ==
  ctx[w] = "cancelled" \/ (kind[w] = "ready" /\ timer[w] = "expired")

\* Mutant: the deadline does not inherit the cancellation of the caller.
WaitTimesOut_OwnDeadline(w) ==
  /\ pc[w] = "wait" /\ timer[w] = "expired" /\ ctx[w] = "live"
  /\ RunFailed(w)
  /\ UNCHANGED <<kind, ctx, ready, timer, proc, archive, remote, tree>>

WaitTimesOut(w) ==
  /\ pc[w] = "wait"
  /\ timer[w] = "expired" \/ ctx[w] = "cancelled"
  /\ RunFailed(w)
  /\ UNCHANGED <<kind, ctx, ready, timer, proc, archive, remote, tree>>

-----------------------------------------------------------------------------
(* The calls.                                                              *)

\* An upload checks its directory and creates the temporary file; a wait sets
\* its deadline.
Begin(w) ==
  /\ pc[w] = "idle"
  /\ \/ /\ kind[w] = "upload"
        /\ Return(w, "err") \/ Goto(w, "zip")
        /\ UNCHANGED archive
     \/ /\ kind[w] = "download"
        /\ Run(w, "work")
        /\ UNCHANGED archive
     \/ /\ kind[w] \in {"script", "background"}
        /\ Goto(w, "send")
        /\ archive' = [archive EXCEPT ![w] = "full"]
     \/ /\ kind[w] = "ready"
        /\ Goto(w, "wait")
        /\ UNCHANGED archive
  /\ timer' = IF kind[w] = "ready" THEN [timer EXCEPT ![w] = "set"] ELSE timer
  /\ UNCHANGED <<kind, ctx, ready, proc, remote, tree, warned>>

\* zipDirectory.  The error of closing the writer, which writes the central
\* directory, is dropped: the archive may be cut off and the call go on.
Zip(w) ==
  /\ pc[w] = "zip"
  /\ \/ Return(w, "err") /\ UNCHANGED archive
     \/ /\ Goto(w, "send")
        /\ \E a \in {"full", "cut"} : archive' = [archive EXCEPT ![w] = a]
  /\ UNCHANGED <<kind, ctx, ready, timer, proc, remote, tree, warned>>

\* UploadFileToVM.  It fails before the transfer, in the middle of it, or
\* only in receiving the response; each ends the call.
Send(w) ==
  /\ pc[w] = "send"
  /\ \/ Return(w, "err") /\ UNCHANGED <<archive, remote>>
     \/ /\ ctx[w] = "live"
        /\ remote' = [remote EXCEPT ![w] = TRUE]
        /\ \/ Return(w, "err") /\ archive' = [archive EXCEPT ![w] = "cut"]
           \/ Return(w, "err") /\ UNCHANGED archive
           \/ Run(w, "work") /\ UNCHANGED archive
  /\ UNCHANGED <<kind, ctx, ready, timer, proc, tree, warned>>

\* The local file of a download; without it the guest's archive is deleted.
Temp(w) ==
  /\ pc[w] = "temp"
  /\ Run(w, "giveUp") \/ Goto(w, "fetch")
  /\ UNCHANGED <<kind, ctx, ready, timer, proc, archive, remote, tree, warned>>

\* DownloadFileFromVM.
Fetch(w) ==
  /\ pc[w] = "fetch"
  /\ \/ Run(w, "giveUp")
     \/ ctx[w] = "live" /\ remote[w] /\ Run(w, "cleanup")
  /\ UNCHANGED <<kind, ctx, ready, timer, proc, archive, remote, tree, warned>>

\* unzipFile, after the archive on the guest is gone; it can fail half way.
Unzip(w) ==
  /\ pc[w] = "unzip"
  /\ \/ Return(w, "err") /\ UNCHANGED tree
     \/ Return(w, "err") /\ tree' = [tree EXCEPT ![w] = "partial"]
     \/ /\ archive[w] = "full"
        /\ Return(w, "ok")
        /\ tree' = [tree EXCEPT ![w] = "full"]
  /\ UNCHANGED <<kind, ctx, ready, timer, proc, archive, remote, warned>>

Cancel(w) ==
  /\ pc[w] \notin {"idle", "done"} /\ ctx[w] = "live"
  /\ ctx' = [ctx EXCEPT ![w] = "cancelled"]
  /\ UNCHANGED <<kind, pc, phase, timer, ready, proc, archive, remote, tree,
                 warned, outcome>>

-----------------------------------------------------------------------------
(* The guest.                                                              *)

Ends(w, p, how) ==
  /\ proc[w][p] = "running"
  /\ proc' = [proc EXCEPT ![w][p] = how]
  /\ UNCHANGED <<kind, pc, phase, ctx, timer, ready, warned, outcome>>

\* The work fills the directory, or makes the archive, bit by bit.
WorkWrites(w) ==
  /\ proc[w]["work"] = "running"
  /\ \/ /\ kind[w] = "upload" /\ tree[w] = "none"
        /\ tree' = [tree EXCEPT ![w] = "partial"]
        /\ UNCHANGED <<archive, remote>>
     \/ /\ kind[w] = "download" /\ ~remote[w]
        /\ archive' = [archive EXCEPT ![w] = "cut"]
        /\ remote' = [remote EXCEPT ![w] = TRUE]
        /\ UNCHANGED tree
  /\ UNCHANGED <<kind, pc, phase, ctx, timer, ready, proc, warned, outcome>>

\* No extractor accepts an archive without its central directory.
WorkSucceeds(w) ==
  /\ Ends(w, "work", "ok")
  /\ \/ /\ kind[w] = "upload" /\ archive[w] = "full"
        /\ tree' = [tree EXCEPT ![w] = "full"]
        /\ UNCHANGED <<archive, remote>>
     \/ /\ kind[w] = "download"
        /\ archive' = [archive EXCEPT ![w] = "full"]
        /\ remote' = [remote EXCEPT ![w] = TRUE]
        /\ UNCHANGED tree
     \/ /\ kind[w] \in {"script", "background"}
        /\ UNCHANGED <<archive, remote, tree>>

CleanupSucceeds(w) ==
  /\ Ends(w, "cleanup", "ok")
  /\ remote' = [remote EXCEPT ![w] = FALSE]
  /\ UNCHANGED <<archive, tree>>

ProgramFails(w) ==
  /\ \E p \in Programs : Ends(w, p, "failed")
  /\ UNCHANGED <<archive, remote, tree>>

\* A reboot ends every program, and the guest agent forgets them.
Reboot ==
  /\ \E w \in Workers, p \in Programs : proc[w][p] = "running"
  /\ proc' = [w \in Workers |-> [p \in Programs |->
               IF proc[w][p] = "running" THEN "lost" ELSE proc[w][p]]]
  /\ UNCHANGED <<kind, pc, phase, ctx, timer, ready, archive, remote, tree,
                 warned, outcome>>

\* The guest gets its address, or its tools start; and loses them again.
GuestChanges(w) ==
  /\ kind[w] = "ready" /\ pc[w] # "done"
  /\ ready' = [ready EXCEPT ![w] = ~@]
  /\ UNCHANGED <<kind, pc, phase, ctx, timer, proc, archive, remote, tree,
                 warned, outcome>>

-----------------------------------------------------------------------------
Call(w) ==
  \/ Begin(w) \/ Zip(w) \/ Send(w) \/ Temp(w) \/ Fetch(w) \/ Unzip(w)
  \/ Start(w) \/ Tick(w) \/ Answer(w) \/ WaitTimesOut(w)

Guest(w) ==
  \/ WorkWrites(w) \/ WorkSucceeds(w) \/ CleanupSucceeds(w) \/ ProgramFails(w)
  \/ GuestChanges(w)

Next ==
  \/ \E w \in Workers : Call(w) \/ TimerExpires(w) \/ Cancel(w) \/ Guest(w)
  \/ Reboot

Spec == Init /\ [][Next]_vars

\* Timers fire, and a Go call returns once its context is done.  Having
\* returned from a poll, select finds a deadline that is over before the next
\* tick, two seconds later; it cannot miss it for ever.  Nothing is assumed
\* of the guest, nor that a request of a live context is ever answered.
Fairness ==
  \A w \in Workers :
    /\ WF_vars(TimerExpires(w))
    /\ WF_vars(ctx[w] = "cancelled" /\ Call(w))
    /\ WF_vars(kind[w] = "ready" /\ Begin(w))
    /\ WF_vars(PollIsOver(w) /\ Answer(w))
    /\ SF_vars(WaitTimesOut(w))

FairSpec == Spec /\ Fairness

-----------------------------------------------------------------------------
(* Properties.                                                             *)

\* The types of the variables; an upload that gave up waits for nothing more.
TypeOK ==
  /\ kind \in [Workers -> Kinds]
  /\ pc \in [Workers -> {"idle", "zip", "send", "start", "wait", "list",
                         "temp", "fetch", "unzip", "done"}]
  /\ phase \in [Workers -> {"work", "cleanup", "giveUp"}]
  /\ ctx \in [Workers -> {"live", "cancelled"}]
  /\ timer \in [Workers -> {"off", "set", "expired"}]
  /\ ready \in [Workers -> BOOLEAN]
  /\ proc \in [Workers ->
                [Programs -> {"none", "running", "ok", "failed", "lost"}]]
  /\ archive \in [Workers -> {"none", "cut", "full"}]
  /\ remote \in [Workers -> BOOLEAN]
  /\ tree \in [Workers -> {"none", "partial", "full"}]
  /\ warned \in [Workers -> BOOLEAN]
  /\ outcome \in [Workers -> {"pending", "ok", "err"}]
  /\ \A w \in Workers : phase[w] = "giveUp" => pc[w] \in {"start", "done"}

\* A call that waited and returned nil did what it was for: the program ended
\* with exit code 0, and the whole tree is in its destination, even though
\* the archive may have been cut off unnoticed, the guest may have rebooted
\* and replies may have been lost.
SuccessIsReal ==
  \A w \in Workers :
    outcome[w] = "ok" /\ kind[w] \notin {"background", "ready"} =>
      /\ proc[w]["work"] = "ok"
      /\ Transfer(w) => tree[w] = "full"

\* A directory transfer that returned nil without a warning has left neither
\* its archive nor a program behind on the guest.
SuccessCleansUp ==
  \A w \in Workers :
    outcome[w] = "ok" /\ Transfer(w) /\ ~warned[w] =>
      ~remote[w] /\ \A p \in Programs : proc[w][p] # "running"

\* Nobody deletes an archive that the extraction of an upload, or the making of
\* a download's archive, may still need, except a call that has given up on it
\* and returns an error: it starts the cleanup and returns, in one step here.
\* And a call that has returned starts no program.
DeletedOnlyWhenDone ==
  [][\A w \in Workers :
       /\ remote[w] /\ ~remote'[w] /\ proc[w]["work"] = "running"
            => outcome[w] = "err"
       /\ outcome[w] # "pending" =>
            \A p \in Programs :
              proc'[w][p] = "running" => proc[w][p] = "running"]_vars

\* A cancelled context ends the call, whatever the guest does.
CancelledTransferReturns ==
  \A w \in Workers : ctx[w] = "cancelled" ~> pc[w] = "done"

\* WaitForIP and WaitForTools end by their deadline, whatever becomes of the
\* guest, of the request they have under way and of the caller's context.
DeadlineEndsWait ==
  \A w \in Workers : kind[w] = "ready" ~> pc[w] = "done"

\* What README.md says of waitForCompletion: "5 min timeout".
TimeoutEndsWait ==
  \A w \in Workers :
    timer[w] = "expired" /\ pc[w] \in {"wait", "list"}
      ~> pc[w] \notin {"wait", "list"}

\* What README.md says a directory transfer ends with: "delete zip".
ZipDeleted ==
  \A w \in Workers :
    pc[w] = "done" /\ Transfer(w)
      /\ (\A p \in Programs : proc[w][p] # "running")
    => ~remote[w]
=============================================================================
