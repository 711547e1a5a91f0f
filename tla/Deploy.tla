------------------------------- MODULE Deploy -------------------------------
(***************************************************************************)
(* CloneFromRequest (vcenter.go), called from several goroutines at once   *)
(* on one vCenter, as examples/06-batch-clone does.                        *)
(*                                                                         *)
(* A call is a chain of synchronous steps.  Each step that changes the     *)
(* vCenter submits a task and waits for it; the task runs on the server,   *)
(* and goes on running there when the caller stops waiting, because its    *)
(* context was cancelled or its connection was lost.  After the power-on   *)
(* the guest customizes itself while the call polls what the guest reports.*)
(*                                                                         *)
(* The virtual machine made by the clone task of call w is named after w:  *)
(* w stands for its managed object reference.  Which machine a call works  *)
(* on is what its handle says.                                             *)
(***************************************************************************)
EXTENDS Integers, Sequences, SequencesExt

CONSTANTS
  Workers,                  \* the goroutines, each making one call
  Requests,                 \* the ServerRequest values a call may be given
  Nobody                    \* stands for no machine (a nil *VirtualMachine)

VARIABLES
  req,       \* req[w]: the request of call w
  pc,        \* pc[w]: the step call w is at
  next,      \* next[w]: index of the next data disk to add
  handle,    \* handle[w]: the machine the call holds an object of
  ctx,       \* ctx[w]: whether the context in use is still live
  task,      \* task[w]: the last server task of the call
  waited,    \* waited[w]: what WaitForCustomization reported
  outcome,   \* outcome[w]: what the call returned
  vms        \* vms[w]: the machine cloned by call w, as vCenter and its guest see it

vars == <<req, pc, next, handle, ctx, task, waited, outcome, vms>>

-----------------------------------------------------------------------------
(* Requests, and what CloneFromRequest derives from them.                  *)

Adapter == [ip : STRING, mask : STRING, gateway : STRING]

ServerRequest ==
  [name : STRING, template : STRING, cpus : Int, memoryGB : Int,
   disksGB : Seq(Int), diskGB : Int, adapters : Seq(Adapter),
   ip : STRING, mask : STRING, gateway : STRING,
   domain : STRING, dns : Seq(STRING), suffixes : Seq(STRING)]

ASSUME RequestsAssumption == Requests \subseteq ServerRequest
ASSUME NobodyAssumption   == Nobody \notin Workers

StaticIsComplete(a) == a.ip # "" => a.mask # "" /\ a.gateway # ""

Validate(r) ==
  /\ r.name # "" /\ r.template # ""
  /\ StaticIsComplete(r)
  /\ \A i \in DOMAIN r.adapters : StaticIsComplete(r.adapters[i])

\* The multi-NIC list, else the one legacy static address, else none (DHCP).
Adapters(r) ==
  CASE r.adapters # <<>> -> r.adapters
    [] r.adapters = <<>> /\ r.ip # "" ->
         <<[ip |-> r.ip, mask |-> r.mask, gateway |-> r.gateway]>>
    [] OTHER -> <<>>

\* Suffixes default to the domain, so a domain is enough for customization.
NeedsCustomization(r) ==
  \/ r.domain # "" \/ Adapters(r) # <<>> \/ r.dns # <<>> \/ r.suffixes # <<>>

Disks(r) ==
  IF r.disksGB = <<>> /\ r.diskGB > 0 THEN <<r.diskGB>> ELSE r.disksGB

NeedsResources(r) == r.cpus > 0 \/ r.memoryGB > 0

\* The copy keeps the template's processors and memory until they are set.
TemplateResources == [cpus |-> 0, memoryMB |-> 0]

Resources(r) ==
  [cpus     |-> IF r.cpus = 0 THEN 2 ELSE r.cpus,
   memoryMB |-> IF r.memoryGB = 0 THEN 4096 ELSE r.memoryGB * 1024]

\* The address WaitForCustomization expects; "" accepts any, and so does
\* "dhcp" however it is capitalized (strings.ToLower).
ExpectedIP(r) == IF r.adapters # <<>> THEN r.adapters[1].ip ELSE r.ip

AnyAddress ==
  {""} \cup {d \o h \o c \o p : d \in {"d", "D"}, h \in {"h", "H"},
                               c \in {"c", "C"}, p \in {"p", "P"}}

\* What the specification built by NewWindowsCustomization has the guest do.
Settings(r) ==
  LET nics == IF Adapters(r) = <<>> THEN 1 ELSE Len(Adapters(r))
  IN  {<<"hostname", 0>>}
        \cup {<<"domain", 0>> : x \in {y \in {r.domain} : y # ""}}
        \cup {<<"nic", i>> : i \in 1..nics}

\* The settings that a match in WaitForCustomization vouches for.
Checked(r) ==
  {<<"hostname", 0>>}
    \cup {<<"domain", 0>> : x \in {y \in {r.domain} : y # ""}}
    \cup {<<"nic", 1>> : x \in {ExpectedIP(r)} \ AnyAddress}

\* The machine has everything the request asks for.
Complete(r, vm) ==
  /\ vm.disks = Disks(r)
  /\ vm.resources = IF NeedsResources(r) THEN Resources(r)
                                         ELSE TemplateResources

-----------------------------------------------------------------------------
(* State.                                                                  *)

Steps == {"idle", "find", "recommend", "clone", "disks", "resources",
          "power", "customization", "poll", "done"}
Ops   == {"clone", "disk", "resources", "power"}

NoTask == [op |-> "clone", state |-> "none", size |-> 0,
           resources |-> TemplateResources]

NoVM == [power |-> "none", disks |-> <<>>, resources |-> TemplateResources,
         customize |-> FALSE, applied |-> {}, tools |-> FALSE]

Init ==
  /\ req     \in [Workers -> Requests]
  /\ pc      = [w \in Workers |-> "idle"]
  /\ next    = [w \in Workers |-> 1]
  /\ handle  = [w \in Workers |-> Nobody]
  /\ ctx     = [w \in Workers |-> "live"]
  /\ task    = [w \in Workers |-> NoTask]
  /\ waited  = [w \in Workers |-> "no"]
  /\ outcome = [w \in Workers |-> "pending"]
  /\ vms     = [w \in Workers |-> NoVM]

-----------------------------------------------------------------------------
(* The call.                                                               *)

\* Mutant: every error path returns (nil, err).
Fail_NoHandle(w) ==
  /\ pc' = [pc EXCEPT ![w] = "done"]
  /\ outcome' = [outcome EXCEPT ![w] = "nilErr"]

\* An error before the clone has returned gives (nil, err), one after it
\* (vm, err).
Fail(w) ==
  /\ pc' = [pc EXCEPT ![w] = "done"]
  /\ outcome' = [outcome EXCEPT ![w] = IF handle[w] = Nobody THEN "nilErr"
                                          ELSE "vmErr"]

Succeed(w) ==
  /\ pc' = [pc EXCEPT ![w] = "done"]
  /\ outcome' = [outcome EXCEPT ![w] = "ok"]

Goto(w, step) ==
  /\ pc' = [pc EXCEPT ![w] = step]
  /\ UNCHANGED outcome

Begin(w) ==
  /\ pc[w] = "idle"
  /\ IF Validate(req[w]) THEN Goto(w, "find") ELSE Fail(w)
  /\ UNCHANGED <<req, next, handle, ctx, task, waited, vms>>

\* Datacenter, template, pool, folder (as given, then under /dc/vm) and the
\* datastore, which is tried as a datastore cluster first.
Find(w) ==
  /\ pc[w] = "find" /\ ctx[w] = "live"
  /\ \E step \in {"recommend", "clone"} : Goto(w, step)
  /\ UNCHANGED <<req, next, handle, ctx, task, waited, vms>>

\* Storage DRS names a datastore of the cluster.
Recommend(w) ==
  /\ pc[w] = "recommend" /\ ctx[w] = "live"
  /\ Goto(w, "clone")
  /\ UNCHANGED <<req, next, handle, ctx, task, waited, vms>>

\* Submit a task.  The reply may be lost: the task runs, the call fails.
Submit(w, op, size, res) ==
  /\ ctx[w] = "live"
  /\ task[w].state = "none"
  /\ task' = [task EXCEPT ![w] = [op |-> op, state |-> "running",
                                  size |-> size, resources |-> res]]
  /\ \/ UNCHANGED <<pc, outcome>>
     \/ Fail(w)
  /\ UNCHANGED <<req, next, handle, ctx, waited, vms>>

StartClone(w) ==
  /\ pc[w] = "clone"
  /\ Submit(w, "clone", 0, TemplateResources)

AddDisk(w) ==
  /\ pc[w] = "disks"
  /\ Submit(w, "disk", Disks(req[w])[next[w]], TemplateResources)

SetVMResources(w) ==
  /\ pc[w] = "resources"
  /\ Submit(w, "resources", 0, Resources(req[w]))

\* Mutant: the power-on task is submitted and not waited for.
PowerOnVM_NoWait(w) ==
  /\ pc[w] = "power" /\ ctx[w] = "live" /\ task[w].state = "none"
  /\ task' = [task EXCEPT ![w].op = "power", ![w].state = "running"]
  /\ Succeed(w)
  /\ UNCHANGED <<req, next, handle, ctx, waited, vms>>

PowerOnVM(w) ==
  /\ pc[w] = "power"
  /\ Submit(w, "power", 0, TemplateResources)

\* Every early return that leaves no task behind: a lookup or a device list
\* that fails, no recommendation, a call the server rejects or that a
\* cancelled context never sends.
StepFails(w) ==
  /\ pc[w] \in {"find", "recommend", "clone", "disks", "resources", "power"}
  /\ task[w].state = "none"
  /\ Fail(w)
  /\ UNCHANGED <<req, next, handle, ctx, task, waited, vms>>

\* Mutants: one disk too many; step 3 left out.
StepAfterDisks_OffByOne(r, n) ==
  IF n <= Len(Disks(r)) + 1 THEN "disks" ELSE "power"

StepAfterDisks_NoResources(r, n) ==
  IF n <= Len(Disks(r)) THEN "disks" ELSE "power"

\* Steps 2 and 3 are skipped when the request asks for nothing there.
StepAfterDisks(r, n) ==
  CASE n <= Len(Disks(r)) -> "disks"
    [] n > Len(Disks(r)) /\ NeedsResources(r) -> "resources"
    [] OTHER -> "power"

\* The wait for a task ends with its success; that of the clone task carries
\* the reference of the machine it made.
TaskSucceeded(w) ==
  /\ pc[w] \in {"clone", "disks", "resources", "power"}
  /\ task[w].state = "success"
  /\ task' = [task EXCEPT ![w] = NoTask]
  /\ \/ /\ pc[w] = "clone"
        /\ handle' = [handle EXCEPT ![w] = w]
        /\ Goto(w, StepAfterDisks(req[w], 1))
        /\ UNCHANGED next
     \/ /\ pc[w] = "disks"
        /\ next' = [next EXCEPT ![w] = @ + 1]
        /\ Goto(w, StepAfterDisks(req[w], next[w] + 1))
        /\ UNCHANGED handle
     \/ /\ pc[w] = "resources"
        /\ Goto(w, "power")
        /\ UNCHANGED <<next, handle>>
     \/ /\ pc[w] = "power"
        /\ IF NeedsCustomization(req[w]) THEN Goto(w, "customization")
                                         ELSE Succeed(w)
        /\ UNCHANGED <<next, handle>>
  /\ UNCHANGED <<req, ctx, waited, vms>>

\* Mutants: a failed disk is passed over; a failed power-on is ignored; a
\* clone that failed because of its name goes on with the machine that has it;
\* the wait does not look at the context.
WaitFails_NextDisk(w) ==
  /\ pc[w] = "disks" /\ task[w].state = "error"
  /\ task' = [task EXCEPT ![w] = NoTask]
  /\ next' = [next EXCEPT ![w] = @ + 1]
  /\ Goto(w, StepAfterDisks(req[w], next[w] + 1))
  /\ UNCHANGED <<req, handle, ctx, waited, vms>>

WaitFails_IgnoredAtPowerOn(w) ==
  /\ pc[w] = "power" /\ task[w].state = "error"
  /\ Succeed(w)
  /\ UNCHANGED <<req, next, handle, ctx, task, waited, vms>>

WaitFails_TakesNamesake(w) ==
  /\ pc[w] = "clone" /\ task[w].state = "error"
  /\ task' = [task EXCEPT ![w] = NoTask]
  /\ \E v \in Workers :
       /\ vms[v].power # "none" /\ req[v].name = req[w].name
       /\ handle' = [handle EXCEPT ![w] = v]
  /\ Goto(w, StepAfterDisks(req[w], 1))
  /\ UNCHANGED <<req, next, ctx, waited, vms>>

WaitFails_TaskErrorOnly(w) ==
  /\ pc[w] \in {"clone", "disks", "resources", "power"}
  /\ task[w].state = "error"
  /\ Fail(w)
  /\ UNCHANGED <<req, next, handle, ctx, task, waited, vms>>

\* The wait ends with an error.  Only if the task itself failed is it known
\* to be over: a cancelled context, a lost connection or a result of an
\* unexpected type say nothing about what the server does.
WaitFails(w) ==
  /\ pc[w] \in {"clone", "disks", "resources", "power"}
  /\ task[w].state # "none"
  /\ Fail(w)
  /\ UNCHANGED <<req, next, handle, ctx, task, waited, vms>>

\* The ticker is ready; with the context done as well, select takes either.
PollGuest(w) ==
  /\ pc[w] = "customization"
  /\ Goto(w, "poll")
  /\ UNCHANGED <<req, next, handle, ctx, task, waited, vms>>

\* The poll finds the hostname, the address and the tools as expected.
CustomizationSeen(w) ==
  /\ pc[w] = "poll" /\ ctx[w] = "live"
  /\ vms[handle[w]].tools
  /\ Checked(req[w]) \subseteq vms[handle[w]].applied
  /\ waited' = [waited EXCEPT ![w] = "complete"]
  /\ Succeed(w)
  /\ UNCHANGED <<req, next, handle, ctx, task, vms>>

\* The poll finds something else, or fails: both mean to poll again.
PollEnds(w) ==
  /\ pc[w] = "poll"
  /\ Goto(w, "customization")
  /\ UNCHANGED <<req, next, handle, ctx, task, waited, vms>>

\* Mutant: the guest is polled with the context of the caller.
PollIsOver_Caller(w) == ctx[w] = "cancelled"

\* The request of a poll ends with its context, the one with the deadline.
PollIsOver(w) == ctx[w] \in {"cancelled", "expired"}

\* The context is done: logged, not returned.
CustomizationGivenUp(w) ==
  /\ pc[w] = "customization" /\ ctx[w] # "live"
  /\ waited' = [waited EXCEPT ![w] = "gaveUp"]
  /\ Succeed(w)
  /\ UNCHANGED <<req, next, handle, ctx, task, vms>>

\* The 15 minutes that WaitForCustomization gives its context are over.
Expire(w) ==
  /\ pc[w] \in {"customization", "poll"} /\ ctx[w] = "live"
  /\ ctx' = [ctx EXCEPT ![w] = "expired"]
  /\ UNCHANGED <<req, pc, next, handle, task, waited, outcome, vms>>

\* The caller cancels the context, be it by a deadline of its own.
Cancel(w) ==
  /\ pc[w] \notin {"idle", "done"} /\ ctx[w] = "live"
  /\ ctx' = [ctx EXCEPT ![w] = "cancelled"]
  /\ UNCHANGED <<req, pc, next, handle, task, waited, outcome, vms>>

-----------------------------------------------------------------------------
(* The vCenter and the guests.                                             *)

\* Within the folder of the calls vCenter refuses a name it already has.
NameTaken(r) ==
  \E v \in Workers : vms[v].power # "none" /\ req[v].name = r.name

\* The task of call w does its work, which leaves machine m as vm.
Execute(w, op, m, vm) ==
  /\ task[w].state = "running" /\ task[w].op = op
  /\ vms' = [vms EXCEPT ![m] = vm]
  /\ task' = [task EXCEPT ![w].state = "success"]
  /\ UNCHANGED <<req, pc, next, handle, ctx, waited, outcome>>

\* Mutant: the clone is switched on at once, as CloneVMWithCustomization does.
ExecuteClone_PoweredOn(w) ==
  /\ ~NameTaken(req[w])
  /\ Execute(w, "clone", w,
             [NoVM EXCEPT !.power = "on",
                          !.customize = NeedsCustomization(req[w])])

\* Step 1 clones with powerOn = false and the customization attached.
ExecuteClone(w) ==
  /\ ~NameTaken(req[w])
  /\ Execute(w, "clone", w,
             [NoVM EXCEPT !.power = "off",
                          !.customize = NeedsCustomization(req[w])])

ExecuteAddDisk(w) ==
  Execute(w, "disk", handle[w],
          [vms[handle[w]] EXCEPT !.disks = Append(@, task[w].size)])

ExecuteReconfigure(w) ==
  Execute(w, "resources", handle[w],
          [vms[handle[w]] EXCEPT !.resources = task[w].resources])

ExecutePowerOn(w) ==
  /\ task[w].op = "power" /\ vms[handle[w]].power = "off"
  /\ Execute(w, "power", handle[w], [vms[handle[w]] EXCEPT !.power = "on"])

\* A task that fails changes nothing.
ExecuteFails(w) ==
  /\ task[w].state = "running"
  /\ task' = [task EXCEPT ![w].state = "error"]
  /\ UNCHANGED <<req, pc, next, handle, ctx, waited, outcome, vms>>

\* The guest applies the settings one at a time, in an order of its own.
GuestApplies(w) ==
  /\ vms[w].power = "on" /\ vms[w].customize
  /\ \E s \in Settings(req[w]) \ vms[w].applied :
       vms' = [vms EXCEPT ![w].applied = @ \cup {s}]
  /\ UNCHANGED <<req, pc, next, handle, ctx, task, waited, outcome>>

\* VMware Tools come up, and go down when the guest reboots.
GuestTools(w) ==
  /\ vms[w].power = "on"
  /\ vms' = [vms EXCEPT ![w].tools = ~@]
  /\ UNCHANGED <<req, pc, next, handle, ctx, task, waited, outcome>>

-----------------------------------------------------------------------------
Call(w) ==
  \/ Begin(w) \/ Find(w) \/ Recommend(w) \/ StartClone(w) \/ AddDisk(w)
  \/ SetVMResources(w) \/ PowerOnVM(w) \/ StepFails(w) \/ TaskSucceeded(w)
  \/ WaitFails(w) \/ PollGuest(w) \/ CustomizationSeen(w) \/ PollEnds(w)
  \/ CustomizationGivenUp(w)

Server(w) ==
  \/ ExecuteClone(w) \/ ExecuteAddDisk(w) \/ ExecuteReconfigure(w)
  \/ ExecutePowerOn(w) \/ ExecuteFails(w)

Guest(w) == GuestApplies(w) \/ GuestTools(w)

Next == \E w \in Workers : Call(w) \/ Expire(w) \/ Cancel(w) \/ Server(w) \/ Guest(w)

Spec == Init /\ [][Next]_vars

\* Once its context is cancelled, a Go call goes on; the timer of a deadline
\* fires; the request of a poll ends with its context; and a select that is
\* reached again and again with a context that is done takes that branch.
\* Nothing is assumed of the server and the guests, nor that a request whose
\* context is live is ever answered.
Fairness ==
  \A w \in Workers :
    /\ WF_vars(ctx[w] = "cancelled" /\ Call(w))
    /\ WF_vars(Expire(w))
    /\ WF_vars(PollIsOver(w) /\ PollEnds(w))
    /\ SF_vars(CustomizationGivenUp(w))

FairSpec == Spec /\ Fairness

-----------------------------------------------------------------------------
(* Properties.                                                             *)

VM == [power : {"none", "off", "on"}, disks : Seq(Int),
       resources : [cpus : Int, memoryMB : Int], customize : BOOLEAN,
       applied : SUBSET ({"hostname", "domain", "nic"} \X Nat),
       tools : BOOLEAN]

Task == [op : Ops, state : {"none", "running", "success", "error"},
         size : Int, resources : [cpus : Int, memoryMB : Int]]

Types ==
  /\ req \in [Workers -> Requests]
  /\ pc \in [Workers -> Steps]
  /\ next \in [Workers -> Nat \ {0}]
  /\ handle \in [Workers -> Workers \cup {Nobody}]
  /\ ctx \in [Workers -> {"live", "cancelled", "expired"}]
  /\ task \in [Workers -> Task]
  /\ waited \in [Workers -> {"no", "complete", "gaveUp"}]
  /\ outcome \in [Workers -> {"pending", "ok", "vmErr", "nilErr"}]
  /\ vms \in [Workers -> VM]

\* The types of the variables; a call about to add a disk has a disk to add.
TypeOK ==
  /\ Types
  /\ \A w \in Workers : pc[w] = "disks" => next[w] <= Len(Disks(req[w]))

\* Steps 2 to 4: a machine is switched on, which starts sysprep, only with
\* every disk and the resources of its request in place, and no hardware is
\* changed from then on, whatever failed, was cancelled or arrived late.
BootsOnlyComplete ==
  \A w \in Workers : vms[w].power = "on" => Complete(req[w], vms[w])

\* Whatever fails part-way, a machine has the disks of its request from the
\* first on, in order and without a gap, since a disk's place decides its
\* drive letter; resources are set only behind the last disk.
HardwareFollowsRequest ==
  \A w \in Workers :
    /\ IsPrefix(vms[w].disks, Disks(req[w]))
    /\ vms[w].resources # TemplateResources => Complete(req[w], vms[w])

\* A call returns no error only for the machine its own clone made, and only
\* when that is running, complete, and was cloned with a customization exactly
\* when the request needs one: also when several calls ask for one name.
SuccessMeansDeployed ==
  \A w \in Workers :
    outcome[w] = "ok" =>
      /\ handle[w] = w /\ vms[w].power = "on"
      /\ Complete(req[w], vms[w])
      /\ vms[w].customize = NeedsCustomization(req[w])

\* When the call returns (nil, err) the caller has nothing to clean up with,
\* yet the clone may still be made: such an orphan stays a bare copy that is
\* never switched on, so that it never takes the name or joins the domain.
OrphanStaysBare ==
  \A w \in Workers :
    outcome[w] = "nilErr" =>
      /\ vms[w].power # "on"
      /\ vms[w].disks = <<>> /\ vms[w].resources = TemplateResources
      /\ vms[w].applied = {}

\* A returned call starts nothing more: what still happens to its machine is
\* the one task it stopped waiting for, and after success not even that, so
\* that the caller may use the machine it was given.
LateEffects ==
  [][\A w \in Workers :
       outcome[w] # "pending" =>
         /\ task'[w].state = "running" => task[w].state = "running"
         /\ outcome[w] = "ok" =>
              /\ vms'[w].power = vms[w].power
              /\ vms'[w].disks = vms[w].disks
              /\ vms'[w].resources = vms[w].resources]_vars

\* What the documentation of WaitForCustomization says of a nil result.
CustomizationCompletes ==
  \A w \in Workers :
    waited[w] = "complete" => Settings(req[w]) \subseteq vms[w].applied

\* A cancelled context ends the call, whatever the vCenter does.
CancelledCallReturns ==
  \A w \in Workers : ctx[w] = "cancelled" ~> pc[w] = "done"

\* The wait for the customization ends even if the guest never finishes, the
\* context of the caller has no deadline and a poll is never answered.
CustomizationWaitEnds ==
  \A w \in Workers : pc[w] \in {"customization", "poll"} ~> pc[w] = "done"

\* Deploy implements Provisioning.
Machine(w) ==
  CASE vms[w].power = "none" -> "absent"
    [] vms[w].power = "on" -> "running"
    [] OTHER -> IF Complete(req[w], vms[w]) THEN "complete"
                ELSE IF vms[w].disks = <<>> THEN "bare" ELSE "partial"

P == INSTANCE Provisioning WITH machine <- [w \in Workers |-> Machine(w)]

ImplementsProvisioning == P!Spec
=============================================================================
