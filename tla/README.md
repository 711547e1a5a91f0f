# A formal model of the vcenter package

This directory holds TLA+ models of the Go package in this repository (a
library over govmomi that clones, configures, operates and deletes virtual
machines), TLC configurations that check them on small instances, and proofs
that TLAPS checks for every value of their constants.

## 1. The system

The package has no process of its own: it is a set of functions that a
program calls, from one goroutine or from many (`examples/06-batch-clone`,
`examples/07-bulk-power`). What makes it hard is that everything it changes
lives elsewhere: on a vCenter that runs *tasks* which outlive the call that
submitted them, in a guest that works at its own pace, and in files that a
crash may leave half written. Other clients change the same machines.

| Component | State | Operations | Interacts with | What must be true of it |
|---|---|---|---|---|
| Deployment (`CloneFromRequest`, `cloneVMInternal`, `getStoragePlacementResult`) | the step the call is at, the machine it holds, its context | validate, place, clone off, add disks, set resources, power on, wait for the guest | tasks of vCenter; the customizing guest | first boot only with all hardware; an error leaves a prefix of the work; an orphan stays bare; success means running and complete |
| Power and lifecycle (`PowerOnVM`, `PowerOffVM`, `RestartVM`, `DeleteVM`, `UnregisterVM`) | none; the power state and snapshots read at the start of a delete | power, restart with fallback, delete with `force` | tasks; other clients of the vCenter | an unforced call never switches off or destroys what it was told about; a restart happens |
| Snapshots | the snapshot tree read by a call | create, delete by name, delete all, revert, list, current | tasks; other clients | exactly the named snapshot goes; children survive unless asked; "nothing to delete" was true at some moment |
| Devices (disks, adapters, CD-ROM) | the device list read by a call | add, extend, remove, change network, mount, unmount, connect, disconnect | tasks; other clients | no disk shrinks; an edit changes what it is about; an add that returns nil has added |
| Guest operations (upload, download, run, directories) | an archive and a process in the guest | transfer, start a process and poll it, zip and unzip | guest agent, local file system | the archive goes, and only behind its work; success means the whole tree arrived; every wait ends |
| Waits (`WaitForIP`, `WaitForTools`) | a ticker and a deadline | poll | guest | end, and report only what was seen |
| Session (`client.go`) | the cached datacenter, its name and finder under a lock | connect, `SetDatacenter`, getters, logout | vCenter session | finder, datacenter and name belong together |
| Configuration and secrets (`config.go`, `secrets.go`) | JSON files, encrypted stores | create template, ensure, load, save, merge, resolve | file system, other processes | never overwrite; what was saved is loaded or refused |
| Order sheets (`excel.go`) | a workbook, rows | template, parse, validate, write JSON | file system | a row that is accepted deploys as written; all rows are kept |
| Inventory (`inventory.go`) | the lists found by a scan | scan, flatten | vCenter | complete, or an error |
| Customization (`NewWindowsCustomization`, `NewLinuxCustomization`) | none | build a specification | deployment | says what the configuration says |
| Information (`GetVM`, `GetVMInfo`) | none | read | vCenter | total on every machine |

### What is hard about it

- **A task outlives its call.** Every change is "submit a task, wait for it".
  The wait ends when the task does, when the context is cancelled or when the
  connection fails; the task does not. A reply to the submission can be lost as
  well: the call returns an error and the server does the work. All modules
  have these two endings of a call on every task.
- **Read, then act.** Deletion, snapshots and devices decide on a reading of
  the machine and act later on what they read, while other clients act too.
- **Part-way failure.** A deployment, a forced deletion and a directory
  transfer are chains of steps that can stop anywhere.
- **Waits.** The package polls a guest that may never get there, under a
  context that may have no deadline.
- **Files.** Configuration, secrets and sheets are checked, then written, in
  place, without a lock, by processes that may be killed.
- **Shared client.** One `Client` serves all goroutines; its lock is held while
  vCenter is asked for a datacenter.

## 2. Modules

| Module | Models | Source |
|---|---|---|
| `Provisioning` | what a caller of `CloneFromRequest` is promised, with the way there left out | the doc and the error returns of `CloneFromRequest` |
| `Deploy` | `ServerRequest.Validate`, `CloneFromRequest`, `cloneVMInternal`, `getStoragePlacementResult`, `AddDisk`, `SetVMResources`, `PowerOnVM`, `WaitForCustomization`, called concurrently; implements `Provisioning` | `vcenter.go` 65-240, 333-525, 638-729, 894-1368 |
| `DeployProofs` | the inductive invariant of `Deploy` and the theorems | |
| `Lifecycle` | power calls, restart, snapshots, deletion and unregistration of one machine by several clients | `vcenter.go` 722-771, 1657-2050 |
| `Devices` | disks, adapters and the CD/DVD drive of one machine, changed by several clients | `vcenter.go` 1291-1640, 2288-2546 |
| `GuestOps` | file and directory transfers and scripts, with the guest's programs, and the waits for address and tools | `vcenter.go` 789-846, 2578-3185 |
| `SharedClient` | what the goroutines that share a `Client` are promised, with the lock and the requests left out | the doc of `Client` and its methods |
| `Session` | one `Client` used by several goroutines: constructors, `SetDatacenter`, getters, `Logout`; implements `SharedClient` | `client.go` |
| `Files` | the configuration file and the store of credentials, by several processes | `config.go`, `secrets.go` |
| `Sheet` | workbooks, their validation and their conversion to files | `excel.go` 576-967 |
| `SnapshotProofs` | the order in which snapshots are searched, and what the server does to their tree | |
| `LifecycleProofs`, `DevicesProofs`, `GuestOpsProofs`, `SessionProofs`, `FilesProofs`, `SheetProofs` | for each of these modules, its inductive invariant and the theorems about it | |
| `MCDeploy`, `MCLifecycle`, `MCDevices`, `MCGuestOps`, `MCFiles`, `MCSheet` | the instances TLC checks | |

In all of them a call is a process with a `pc`; one action is one stretch of
code between two network requests, with its early returns. `task[c]` is the
task a call has submitted, and the actions called `Execute...` are the server
carrying it out. `outcome` is what the Go function returned. Names follow the
code where one function is one action.

**Deploy.** `vms[w]` is the machine made by call `w`: its power state, its
disks in order, its resources, whether it was cloned with a customization, and
which settings the guest has applied so far. `next` is the loop index of the
data disks, `handle` is the machine the Go variable `vm` stands for, and thereby
the one that everything after the clone is done to (once it is set an error
returns the machine as well, `vmErr`; before, `nil`, `nilErr`). The
derived values (`Adapters`, `Disks`, `Resources`, `NeedsCustomization`,
`ExpectedIP`) are operators over the request, so that the deprecated fields of
`ServerRequest` are part of what is checked. A machine name is unique in its
folder, which is where two calls of a batch meet: a call whose clone is refused
must not go on with the machine of the other. `WaitForCustomization` is a
`select` (`customization`) and a request in flight (`poll`): `PollGuest`,
`CustomizationSeen`, `PollEnds`, `CustomizationGivenUp`. As in the code, `ctx` is
from then on the context with the deadline of 15 minutes (`Expire`), which the
poll uses too (`PollIsOver`). The address it expects is compared as the code
does: "dhcp" in any capitalization accepts every address. `Recommend` is the request
for a placement in a storage cluster, which the other targets skip; applying it
is then the clone task.

**Lifecycle.** The tree of snapshots is its ancestor relation, which makes
`findSnapshotByName` (depth first, first match) a choice by the order in which
that search visits. `seen` is what a call read. `effects` and `bare` are
history variables: what the server did for a call, and whether there has been a
moment without snapshots since it began. A machine is on, off or suspended;
`DeleteVM` tests for "on" only, so a suspended one is treated as if it were off.
`RestartVM` first asks the guest to
reboot and resets the machine if that request fails, including a request that
arrived and whose reply was lost.

**Devices.** `plan[c]` is the device a call will send, whole. Disks have a
slot, by which the server identifies them, a label, by which the user does, and
a file, by which the properties do. Sizes are in half gigabytes, so that the
division of `ExtendDisk` has something to cut off. `overtaken` is a history
variable.

**GuestOps.** A call runs at most two programs in the guest: `work` (extract,
zip or the script) and `cleanup` (delete the archive). `RunScriptOnVM` is
`Start`, `Tick` (the ticker fires and processes are listed), `Answer`,
`TimerExpires` and `WaitTimesOut`, used by three kinds of call for both
programs; `phase` says which use it is. An archive is absent, cut or whole.
`WaitForIP` and `WaitForTools` are the same loop with another poll: the kind
`ready`. They poll with the context that has the deadline (`PollIsOver`), which
`RunScriptOnVM` does not.

**Session.** `client` is the Go struct and the session behind it; `shared` says
whether the constructor has returned it. The lock is not a variable: a writer
is in `Writing` while it has it (or drains the readers), a reader in `read`.
`LookupFinds` and `LookupFails` are the answer to the request that
`SetDatacenter` makes under the lock, and the three assignments after it are
three actions, so that the model would show what a reader without the lock
could see. Constructors use the same steps on a client nobody else has. `got`
is a history variable: what a goroutine has been told by the getters since the
last successful `SetDatacenter`, or since it last let go of it. `Session`
implements `SharedClient`: the current datacenter is the one of the finder,
which is the last field to be assigned, a call wants a datacenter from its
beginning to its return, and everything between is a stutter.

**Files.** `os.WriteFile` is `Open` (which empties the file), `Write` and the
ways to be cut short, so that two saves overlap as they do on a file system
without locks: the shorter text of one may have the end of the longer one of
the other behind it (`Torn`). A behaviour is about one of the two files
(`which`), since they do not meet. `store[p]` is the map a process has in
memory, `basis[p]` (history) says whether it is what is on disk. An encrypted
store opens with the secret that sealed it.

**Sheet.** A workbook is a sequence of rows, whose cells are told apart as far
as the code does (a number, too small a number, not a number). Both functions
begin with `readExcelRows`; conversions fill one directory, one file after
another, and may stop anywhere. The slice of rows that `readExcelRows` makes is
the set `Orders` of the row numbers that have a name, gone through from the
least; a file records the conversion and the row it is from.

## 3. What the runs check

| Run | Instance | States | Shows |
|---|---|---|---|
| `deploy` | 2 calls, 4 requests (plain; two disks, resources, domain, two adapters; deprecated fields; invalid), `FairSpec` | 209,325 | the five invariants, `LateEffects`, that `Deploy` implements `Provisioning`, that a cancelled call returns and that the customization wait ends |
| `deploy_adapters` | 1 call | violation | finding 1 |
| `lifecycle` | 2 clients, 13 calls, names `a` and `b`, every forest of up to 2 snapshots and one more | 613,108 | the rules of power, snapshots and deletion |
| `lifecycle_delete` | 2 clients, unforced delete and create | violation | finding 2 |
| `devices` | 3 clients, 6 disk, 6 drive and 3 adapter calls, 3 slots | 348,367 | the rules of device changes; an add is real |
| `guest` | 1 call of each kind, `FairSpec` | 799 | success is real, the archive goes and only behind its work, a cancelled call returns, the waits for address and tools end |
| `guest_timeout` | 1 script | violation | finding 3 |
| `guest_leftover` | 1 transfer | violation | finding 4 |
| `session` | 2 goroutines that set, 1 that reads, 2 datacenters, 2 connects, `FairSpec` | 115,893 | what is cached belongs together; `Session` implements `SharedClient`; every call returns |
| `files` | 2 processes, 2 credentials, 2 secrets, 2 sizes | 434,692 | what was saved last is there; credentials are kept; a template spares what it has seen |
| `sheet` | 152 workbooks of up to 3 rows, 2 machine names, 2 conversions | 534,707 | what is valid converts; no row is lost; the combined file is last |
| `sheet_network` | the same | violation | finding 5 |

What each property says is written above it in its module.

**Why the bounds are enough.** In `Deploy` calls meet only in the name of the
machine, which takes two; the requests take every branch of the derivation and
of the loop over disks (none, one from the deprecated field, two). The theorems
remove the bound. In `Lifecycle` every property is about one call, what it
read and what one other client did in between; the equal and different names
over chains and siblings of two snapshots and a third taken meanwhile give the
search of `findSnapshotByName` a choice to get wrong. In `Devices` a slot is
reused only after one client removed a disk and another added one, while a
third acts on the old reading: three clients. Disks, adapters and the drive
share no state, so that only calls of one of these groups are made together.
In `GuestOps` two calls meet only in the reboot of the guest, which one call
sees as well; an instance with two calls (638,401 states) was run by hand and
holds, and is left out for its running time.

In `Session` one writer and one reader give every pair of steps, and a second
writer the queue at the lock and the constructor that fails after a login. In
`Files` two sizes are enough for a text to be shorter than what it overwrites,
two secrets for the wrong one, and two processes for every overlap of two
writes. In `Sheet` properties are about one row, or two rows with one name; a
third row stands between them, and the second conversion meets the files of the
first.

**Deadlock** is checked in `Files` and `Sheet`, whose processes can always do
something. Elsewhere it is not: every call ends, and then nothing is left to do.

**Symmetry** is used in runs without liveness only: over clients in `lifecycle`
and `devices`, over processes, credentials and secrets in `files`.

**Mutants.** Next to the definitions they change, the modules have variants
commented as mutants: a dropped check, a swapped order, a result ignored.
Each property of a passing run is violated in its own run when the definition
is replaced by its mutant; `PROJECT.json` says which breaks what. The variants
are used nowhere else.

### Fairness

`Deploy!Fairness`: once its context is cancelled, a Go call goes on to its
return (every blocking operation of the package takes the context), the timer
of a deadline fires, the request of a poll ends with the context it was given,
and a `select` that finds its context done over and over takes that branch at
some time: after a poll returns, the next tick is seconds away and the deadline
is already there, hence strong fairness. `CustomizationWaitEnds` needs all of
them, and that the poll is given the context that has the deadline, which is the
code's part: with the caller's it fails. `GuestOps!Fairness` is the same for its
calls, timers, polls and `select`s. `Session!Fairness`: a goroutine that can go on does, a request whose
context is over returns, and `sync.RWMutex` starves no writer. `EveryCallReturns`
then takes as its hypothesis that no request waits for ever under a context that
never ends: that is what the code leaves to its caller, and under the lock the
context of one call is the patience of all. Nothing is assumed of the server or of the guest, nor that a request
under a live context is ever answered. This is why "every call returns" is no
property here: the code does not promise it.

### Findings

1. `CustomizationCompletes` (`deploy_adapters`). `WaitForCustomization` is
   documented to return nil when customization completes. `CloneFromRequest`
   has it compare the name, the tools and the address of the first adapter;
   with two adapters it can return before the second is configured.
2. `UnforcedNeedsNoSnapshots` (`lifecycle_delete`). Without `force`, `DeleteVM`
   is documented not to delete a machine with snapshots. A snapshot taken
   between its reading and its task is destroyed. What does hold is
   `UnforcedSparesTheSeen`.
3. `TimeoutEndsWait` (`guest_timeout`). The five minutes of `RunScriptOnVM` are
   looked at between polls only, and a poll uses the context of the caller: a
   request that hangs keeps the wait going.
4. `ZipDeleted` (`guest_leftover`). A directory transfer that fails, or whose
   cleanup fails, may leave its archive on the guest; some error paths do not
   try to delete it. What does hold is `SuccessCleansUp`.
5. `SheetNetworkChecked` (`sheet_network`). `ValidateExcel` is documented to
   require a mask and a gateway for an address. It does so for the first
   adapter only. What does hold, for strict validation, is
   `StrictVersusDeployment`: a row that passes is accepted by
   `ServerRequest.Validate`, unless another adapter has a static address (which
   strict mode allows only without a gateway, and a deployment only with one),
   or "DHCP" is the gateway of a first adapter with a static address.

More things met while modelling, not findings: `RemoveDisk` destroys by slot
and can hit a disk added since it looked (`OnlyTheNamedChanges` says exactly
when), and `ConnectCDROM` or `DisconnectCDROM` can put an ISO back that was
unmounted since they looked (`MediumSticks`). A constructor whose
`SetDatacenter` fails leaves its session open. Two overlapping saves may both
return nil and leave a file that does not parse, and a process killed in a save
leaves an empty one, which `EnsureConfigFile` takes for a configuration
(`LastSaveIsThere` says when neither happens). The loader of plain text takes
an encrypted store for an empty one. `CreateVCenterConfigTemplate` may overwrite
a configuration that was created after its `Stat` (`TemplateSparesTheSeen`).
A row that ends before the column of `vm_name`, such as a blank row between two
orders, makes `ValidateExcel` and `ExcelToJSON` panic;
a machine called `_all_vms` loses its file to the combined one; and a
conversion leaves the files of machines that are no longer in the workbook.

## 4. What is proved

`DeployProofs`, for any number of concurrent calls and any set of requests
(`RequestsAssumption`: they are values of the Go type; `NobodyAssumption`: no
machine is not a machine): `TypeOK`, the four other invariants of `Deploy`, the action property `LateEffects` and the
refinement of `Provisioning`.

None of the invariants is inductive. They relate the machine to the request
and to what the call returned, but what happens next to a machine is decided by
the task in flight, which may belong to a call that has already returned. The
inductive invariant `IInv` is `TypeOK` and, for each call, that it holds no
machine or its own (`At`), and `CallInv`:

- `Control`: where the call is decides whether it has a machine, has returned,
  and which kind of task it can have submitted; a call that returned success
  has none, one that returned no machine has at most its clone;
- `Built`: the machine is the bare copy until the call holds it, its disks are
  a prefix of the request, and resources or power mean it is complete;
- `Ready`: with no task submitted, a step finds exactly the work of the steps
  before it;
- `InFlight`: the same with a task submitted, and what that task has done if
  it has succeeded;
- `Finished`: what is true once the power-on has been waited for.

That a task is done on the machine its own call has cloned is a consequence
(`OwnTasks`), not a matter of how the model is written. With it no call touches
the variables of another, apart from the check of names, so a step is looked at
for its own call only (`LocalSuffices`): `CallStep`,
`ServerStep` and `GuestStep` have a step per action. The invariants follow from
`CallInv`. For the refinement, `RefinesStep` shows that each action maps to
`Create`, `Build`, `Boot`, `Return` or to no change.

That a cancelled call returns is liveness and left to TLC, but the half of it
that is safety is proved: `StepsLeft` counts the steps that a call has before
it, no step of anybody makes it larger, and each step of the call except a poll
of the guest makes it less (`CallsEnd`). A call for `n` data disks is over after
`2n + 15` steps of its own that are not polls, or stays in one of the waits that
the fairness is about.

Each of the modules below has the theorem `Inductive`, that its invariant
(`Inv`; `IInv` in `GuestOpsProofs`) holds in every reachable state, and one
theorem for each safety property that its runs check.

`GuestOpsProofs`, for any number of calls of any kinds (`KindsAssumption`).
`CallInv` follows one call through both of its programs: `Control` ties the step
to the phase and the kind of call; `Phases` says that the cleanup starts in
a phase of its own, which is reached only when the work has ended well, and that
what a program that has ended did cannot change; `Promises` carries from the end
of the wait to the return what the wait has found. The same half of liveness
holds as in `Deploy`, up to the polls of the guest: a step of a call lists
processes and goes back to the ticker, or brings the call nearer to its return
(`Distance`, `CallsGoOn`), so that a call that does not return is one that polls
for ever or waits for one answer.

`SessionProofs`, for any goroutines and datacenters (`SessionAssumption`). The
finder is the last of the three fields to be assigned. The other two agree with
it except while a writer is between its assignments (`Fields`, `Writers`), no
reader is inside then (part of `TypeOK`), and what has been read since is still
what the finder says (`Recent`, hence `GettersAgree`). A constructor works on a
client that nobody else has (`Private`, `OneLogin`). For the refinement
(`RefinesStep`), the assignment of the finder maps to `Succeed`, a lookup that
finds nothing to `Fail`, and a getter to `Tell`, since what is read under the
lock is what the finder says (`ReadSeesFinder`); `Asked` adds that a call on its
way has the name it was given. `LockFreesItself` is the absence of a circular
wait: a getter waits only for a writer that has the lock (`Woken`), a writer
only for getters that are inside, and one of these can go on by itself or with
an answer of vCenter. That it then does is `EveryCallReturns`, which TLC checks.

`FilesProofs`, for any processes, credentials, secrets and sizes
(`FilesAssumption`). A write that is not disturbed is alone (`Alone`), and alone
it finds the file as opening left it, empty. A store that is based on what is on
disk has all that was ever saved, and while the file is open only the process
that opened it can still have such a store (`Kept`).

`DevicesProofs`, for any clients and slots (`DevicesAssumption`). A call acts on
a reading, so the invariant relates what was read to what is there. It rests on
a disk never coming back: a file belongs to the start or to the one `AddDisk`
that made it (`Made`, `Files`) and leaves its slot only for good, so that a disk
a call has found is where it was found, or gone (`Found`). `Added` carries from
the server to the return what an add has made (`AddIsReal`). `Planned` says the
same of the drive, unless the call has been overtaken.

`LifecycleProofs`, for any clients and any forest of snapshots
(`CallsAssumption`). What was done for a call is known from its step and its
task (`Control`), which gives `EffectsAreAsked`. What it has seen of the
snapshots stays true (`Sight`) because the tree is only ever followed by trees
in which the snapshots that stay keep their names and gain nothing above them,
and those that come are younger (`Follows`; `TreeOnlyFollows` states it of every
step). That `findSnapshotByName` finds a snapshot whenever there is one of the
name, and that it is the only one that comes before the others, is
`SearchIsDetermined` in `SnapshotProofs`: the order of the search, which compares
the paths from the root, is total and transitive.

`SheetProofs`, for any workbooks, names and number of conversions
(`SheetsAssumption`: a workbook is a sequence of rows). What `ValidateExcel` said stays true, since a workbook is only changed by
taking it back (`Verdicts`, `Outcomes`, `InHand`). A conversion has stored the
rows it has passed, each in the file of its name, unless a later row of the same
name has replaced it (`Stored`, `Written`): `NoRowLost` is that and the
comparison of names in `SheetAccepted`. `AllIsLast` is not inductive, since an
old combined file could be taken for one of the running conversion; `NotYet`
says that there is none before its turn, except for the file of a machine with
that name, which names only itself.

Only checked by TLC: the liveness properties (`CancelledCallReturns`,
`CustomizationWaitEnds`, `CancelledTransferReturns`, `DeadlineEndsWait`,
`EveryCallReturns`). Liveness under fairness is beyond the prover; of the calls of
`Deploy`, `GuestOps` and `Session` the theorems above prove the part that is
safety.

## 5. What is assumed, and what is left out

Of the vCenter (external code, modelled from how the package uses it): a task
takes effect at one moment, or fails and changes nothing; it may fail for any
reason at any time; a name is used once in a folder; a machine is destroyed or
unregistered only when it is not on, switched on only when it is not on and off
only when it is not off, and reset or rebooted only when it is on; a disk is never made smaller, a slot is not given twice, an edit
names the file of the disk it is about, and a removal only its slot; no two
disks of the machine have one label or one file; removing a snapshot moves its
children up. A read returns the state of one moment, with
every property that was asked for.

Of the guest: customization applies its settings one by one in any order, and
does not take them back; a reboot ends every program; an extractor refuses an
archive that is cut off; a program that succeeds has done its work. Of Go: the
clock does not give two calls the same nanosecond for the name of an archive.

Of files and keys: one `write` call per text; no loss of power (the package does
not sync); nobody without the secret makes an envelope that opens with it. Of
the session: `go-vcenter-auth` may give a constructor a session it has in its
cache, and logs in again when that has ended; govmomi alone does not. Of
workbooks: the library cuts off blank rows at the end, and nobody changes the
workbook while it is being read.

A machine under deployment is left alone by other clients: one that switches it
on by name between two steps (`examples/07-bulk-power`) takes the order of
first boot and hardware out of the hands of the code. Two transfers into one
guest use different directories.

Left out of the modelled parts: log lines and error texts; disk provisioning,
datastores and the bodies of the placement recommendation; how a network or
datastore name is resolved (a step that may fail; the finder of the two adapter
calls has no datacenter, which that library may not accept for a plain name);
errors of closing a local file; the local archive of a transfer, which a `defer`
set up as soon as the file exists removes on every return; the checks of the constructors for empty
arguments; `MergeWithDefaults` and `GenerateEncryptionKey`, which touch no file.

Not modelled: `inventory.go`, `GetVM`, `GetVMInfo`, `ListSnapshots` and
`GetCurrentSnapshot` (they read once and keep nothing); `SetVMAnnotation` (one
more submit-and-wait); `NewLinuxCustomization` and `CreateExcelTemplate` (they
only copy); `errors.go`. The cryptography of `secrets.go` and the workbook of
`excel.go` are libraries.

## 6. What could follow

- Pure functions, in a module only TLC uses: `findSnapshotByName`,
  `extractSnapshotInfo` and the current snapshot as the recursions they are,
  against the ancestor relation of `Lifecycle`; `MergeWithDefaults`, `ToFlat`,
  the Linux customization.
- `Deploy` with another client that switches the new machine on between two
  steps, and which promises then still hold; `GuestOps` with two transfers into
  one directory, and a retry.
