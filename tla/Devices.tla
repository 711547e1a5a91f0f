------------------------------ MODULE Devices -------------------------------
(***************************************************************************)
(* The devices of one virtual machine (vcenter.go): AddDisk, ExtendDisk,   *)
(* RemoveDisk, AddNetworkAdapter, ChangeNetwork, MountISO, UnmountISO,     *)
(* ConnectCDROM and DisconnectCDROM, called by several clients at once.    *)
(*                                                                         *)
(* Every call reads the device list, picks or builds one device from it    *)
(* and sends that device, whole, in a request to reconfigure the machine.  *)
(* The list may be out of date when the server gets to the request.        *)
(*                                                                         *)
(* A disk is identified to the server by its slot (controller and unit),   *)
(* to the user by its label; it is the file it was created with.  Sizes    *)
(* are in units of which UnitsPerGB make a gigabyte, since a disk need not *)
(* have been made with a whole number of them.                             *)
(***************************************************************************)
EXTENDS Integers, Sequences, FiniteSetsExt

CONSTANTS
  Clients,                  \* the clients, each making one call
  Batches,                  \* sets of calls that are made at the same time
  Slots,                    \* units of the SCSI controller, not its own one
  Networks, Isos,
  MaxAdapters,              \* how many adapters the server allows
  Machines                  \* the machines to start with

UnitsPerGB == 2

Call == [op : {"addDisk", "extendDisk", "removeDisk", "addAdapter",
               "changeNetwork", "mount", "unmount", "connect", "disconnect"},
         disk : Nat,        \* label of a disk, the N of "Hard disk N"
         gb : Nat,          \* sizeGB, newSizeGB
         adapter : Nat,     \* label of an adapter
         network : Networks,
         iso : Isos,
         flag : BOOLEAN]    \* connect of MountISO, disconnect of UnmountISO

Calls == UNION Batches

NoIso == "none"
NoDisk == [file |-> "none", label |-> 0, size |-> 0]

Drive == [medium : Isos \cup {NoIso}, connected : BOOLEAN,
          atStart : BOOLEAN, guestControl : BOOLEAN]

\* Disks of the start have files of their own; a disk added by a client is
\* known by that client.
Disk == [file : {"os", "data"} \cup Clients, label : Nat, size : Nat]

ASSUME DevicesAssumption ==
  /\ Batches \subseteq SUBSET Call
  /\ Slots \subseteq Nat /\ Slots # {} /\ IsFiniteSet(Slots)
  /\ MaxAdapters \in Nat
  /\ NoIso \notin Isos /\ Clients \cap {"none", "os", "data"} = {}
  /\ Machines \subseteq [disks : [Slots -> Disk \cup {NoDisk}],
                         adapters : Seq(Networks), drive : Drive]
  /\ \A m \in Machines : \A s, r \in Slots :
       /\ m.disks[s].file \notin Clients
       /\ s # r /\ m.disks[s] # NoDisk /\ m.disks[r] # NoDisk =>
            /\ m.disks[s].label # m.disks[r].label
            /\ m.disks[s].file # m.disks[r].file

VARIABLES
  call,      \* call[c]: the call of client c
  pc,        \* pc[c]: the step it is at
  plan,      \* plan[c]: the device it found or built, as it will send it
  task,      \* task[c]: the state of its task
  outcome,   \* outcome[c]: what it returned
  overtaken, \* overtaken[c]: another client has changed the medium since c
             \*               read the drive (history)
  disks,     \* disks[s]: the disk in slot s
  adapters,  \* the network of each adapter
  drive      \* the CD/DVD drive

vars == <<call, pc, plan, task, outcome, overtaken, disks, adapters, drive>>
client == <<call, pc, plan, outcome>>
machine == <<disks, adapters, drive>>

NoPlan == [slot |-> -1, disk |-> NoDisk, drive |-> drive]

Present(s) == disks[s] # NoDisk
Free == {s \in Slots : ~Present(s)}

-----------------------------------------------------------------------------
Init ==
  /\ \E batch \in Batches : call \in [Clients -> batch]
  /\ pc        = [c \in Clients |-> "read"]
  /\ task      = [c \in Clients |-> "none"]
  /\ outcome   = [c \in Clients |-> "pending"]
  /\ overtaken = [c \in Clients |-> FALSE]
  /\ \E m \in Machines :
       disks = m.disks /\ adapters = m.adapters /\ drive = m.drive
  /\ plan      = [c \in Clients |-> NoPlan]

Return(c, result) ==
  /\ pc' = [pc EXCEPT ![c] = "done"]
  /\ outcome' = [outcome EXCEPT ![c] = result]

Ready(c, device) ==
  /\ plan' = [plan EXCEPT ![c] = device]
  /\ pc' = [pc EXCEPT ![c] = "submit"]
  /\ overtaken' = [overtaken EXCEPT ![c] = FALSE]
  /\ UNCHANGED outcome

Refuse(c) == Return(c, "err") /\ UNCHANGED <<plan, overtaken>>

-----------------------------------------------------------------------------
(* The calls, up to the request they send.                                 *)

\* Every error return before the request is sent: the properties, the
\* datastore or the network cannot be read, there is no controller or drive.
StepFails(c) ==
  /\ pc[c] \in {"read", "submit"} /\ task[c] = "none"
  /\ Refuse(c)
  /\ UNCHANGED <<call, task, machine>>

\* AddDisk has FindSCSIController pick a controller that has a free unit, which
\* fails if there is none, takes the datastore of a disk that is there, and then
\* the first free unit, all from the list it read.
ReadForAdd(c) ==
  /\ pc[c] = "read" /\ call[c].op = "addDisk"
  /\ IF Free = {} \/ Free = Slots
     THEN Refuse(c)
     ELSE Ready(c, [NoPlan EXCEPT !.slot = Min(Free)])
  /\ UNCHANGED <<call, task, machine>>

\* Mutant: any disk will do.
Labelled_Any(n) == {s \in Slots : Present(s)}

\* The disks with a label; the server keeps labels apart.
Labelled(n) == {s \in Slots : Present(s) /\ disks[s].label = n}

\* Mutant: the new size may be equal.
TooSmall_EqualAllowed(gb, size) == gb < size \div UnitsPerGB

\* The size check of ExtendDisk, in whole gigabytes.
TooSmall(gb, size) == gb <= size \div UnitsPerGB

\* Mutant: a disk that is not found is used all the same.
ReadForDisk_NotFoundIgnored(c) ==
  /\ pc[c] = "read" /\ call[c].op \in {"extendDisk", "removeDisk"}
  /\ IF Labelled(call[c].disk) = {}
     THEN Ready(c, NoPlan)
     ELSE LET s == Min(Labelled(call[c].disk))
          IN  IF call[c].op = "extendDisk" /\ TooSmall(call[c].gb, disks[s].size)
              THEN Refuse(c)
              ELSE Ready(c, [NoPlan EXCEPT !.slot = s, !.disk = disks[s]])
  /\ UNCHANGED <<call, task, machine>>

\* ExtendDisk and RemoveDisk look for the label.
ReadForDisk(c) ==
  /\ pc[c] = "read" /\ call[c].op \in {"extendDisk", "removeDisk"}
  /\ IF Labelled(call[c].disk) = {}
     THEN Refuse(c)
     ELSE LET s == Min(Labelled(call[c].disk))
          IN  IF call[c].op = "extendDisk" /\ TooSmall(call[c].gb, disks[s].size)
              THEN Refuse(c)
              ELSE Ready(c, [NoPlan EXCEPT !.slot = s, !.disk = disks[s]])
  /\ UNCHANGED <<call, task, machine>>

\* ChangeNetwork looks for the label of an adapter; AddNetworkAdapter needs
\* only a new key.
ReadForAdapter(c) ==
  /\ pc[c] = "read" /\ call[c].op \in {"addAdapter", "changeNetwork"}
  /\ IF call[c].op = "changeNetwork" /\ call[c].adapter \notin DOMAIN adapters
     THEN Refuse(c)
     ELSE Ready(c, NoPlan)
  /\ UNCHANGED <<call, task, machine>>

\* Mutant: connecting and disconnecting eject what is in the drive.
Edited_AlwaysEject(c) ==
  LET on == \/ call[c].op = "mount" /\ call[c].flag
            \/ call[c].op = "unmount" /\ ~call[c].flag
            \/ call[c].op = "connect"
  IN  [medium |-> IF call[c].op = "mount" THEN call[c].iso ELSE NoIso,
       connected |-> on, atStart |-> on /\ call[c].op # "unmount",
       guestControl |-> TRUE]

\* The drive as the call will send it: all of it, the medium included.
Edited(c) ==
  LET on == \/ call[c].op = "mount" /\ call[c].flag
            \/ call[c].op = "unmount" /\ ~call[c].flag
            \/ call[c].op = "connect"
  IN  [medium |-> CASE call[c].op = "mount"   -> call[c].iso
                    [] call[c].op = "unmount" -> NoIso
                    [] OTHER                  -> drive.medium,
       connected |-> on, atStart |-> on /\ call[c].op # "unmount",
       guestControl |-> TRUE]

ReadForDrive(c) ==
  /\ pc[c] = "read"
  /\ call[c].op \in {"mount", "unmount", "connect", "disconnect"}
  /\ Ready(c, [NoPlan EXCEPT !.drive = Edited(c)])
  /\ UNCHANGED <<call, task, machine>>

\* Reconfigure.  The reply may be lost: the task runs, the call fails.
Submit(c) ==
  /\ pc[c] = "submit" /\ task[c] = "none"
  /\ task' = [task EXCEPT ![c] = "running"]
  /\ \/ UNCHANGED <<pc, outcome>>
     \/ Return(c, "err")
  /\ UNCHANGED <<call, plan, overtaken, machine>>

\* Mutant: a task that ended is a task that succeeded.
TaskEnds_AnyResult(c) ==
  /\ pc[c] = "submit" /\ task[c] \in {"success", "error"}
  /\ Return(c, "ok")
  /\ UNCHANGED <<call, plan, task, overtaken, machine>>

TaskEnds(c) ==
  /\ pc[c] = "submit" /\ task[c] = "success"
  /\ Return(c, "ok")
  /\ UNCHANGED <<call, plan, task, overtaken, machine>>

\* The wait ends with an error: of the task, of the context, of the network.
WaitFails(c) ==
  /\ pc[c] = "submit" /\ task[c] # "none"
  /\ Return(c, "err")
  /\ UNCHANGED <<call, plan, task, overtaken, machine>>

-----------------------------------------------------------------------------
(* The server.                                                             *)

Execute(c, op) ==
  /\ task[c] = "running" /\ call[c].op = op
  /\ task' = [task EXCEPT ![c] = "success"]
  /\ UNCHANGED client

\* A new disk gets the lowest label that is free.  A slot that has been taken
\* in the meantime is refused.
ExecuteAddDisk(c) ==
  /\ Execute(c, "addDisk") /\ call[c].gb > 0
  /\ plan[c].slot \in Free
  /\ LET used == {disks[s].label : s \in Slots}
     IN  disks' = [disks EXCEPT ![plan[c].slot] =
           [file |-> c, size |-> call[c].gb * UnitsPerGB,
            label |-> Min((1..(Cardinality(Slots) + 1)) \ used)]]
  /\ UNCHANGED <<overtaken, adapters, drive>>

\* The request names the file of the disk, which must be the one in the slot.
\* A disk is never made smaller.
ExecuteExtendDisk(c) ==
  /\ Execute(c, "extendDisk")
  /\ disks[plan[c].slot].file = plan[c].disk.file
  /\ disks[plan[c].slot].size <= call[c].gb * UnitsPerGB
  /\ disks' = [disks EXCEPT ![plan[c].slot].size = call[c].gb * UnitsPerGB]
  /\ UNCHANGED <<overtaken, adapters, drive>>

\* A disk is removed, and its file destroyed, by its slot.
ExecuteRemoveDisk(c) ==
  /\ Execute(c, "removeDisk")
  /\ Present(plan[c].slot)
  /\ disks' = [disks EXCEPT ![plan[c].slot] = NoDisk]
  /\ UNCHANGED <<overtaken, adapters, drive>>

ExecuteAdapter(c) ==
  /\ \/ /\ Execute(c, "addAdapter")
        /\ Len(adapters) < MaxAdapters
        /\ adapters' = Append(adapters, call[c].network)
     \/ /\ Execute(c, "changeNetwork")
        /\ adapters' = [adapters EXCEPT ![call[c].adapter] = call[c].network]
  /\ UNCHANGED <<overtaken, disks, drive>>

ExecuteDrive(c) ==
  /\ \E op \in {"mount", "unmount", "connect", "disconnect"} : Execute(c, op)
  /\ drive' = plan[c].drive
  /\ overtaken' = [d \in Clients |->
       overtaken[d] \/ (d # c /\ drive'.medium # drive.medium)]
  /\ UNCHANGED <<disks, adapters>>

ExecuteFails(c) ==
  /\ task[c] = "running"
  /\ task' = [task EXCEPT ![c] = "error"]
  /\ UNCHANGED <<client, overtaken, machine>>

-----------------------------------------------------------------------------
Library(c) ==
  \/ StepFails(c) \/ ReadForAdd(c) \/ ReadForDisk(c) \/ ReadForAdapter(c)
  \/ ReadForDrive(c) \/ Submit(c) \/ TaskEnds(c) \/ WaitFails(c)

Server(c) ==
  \/ ExecuteAddDisk(c) \/ ExecuteExtendDisk(c) \/ ExecuteRemoveDisk(c)
  \/ ExecuteAdapter(c) \/ ExecuteDrive(c) \/ ExecuteFails(c)

Next == \E c \in Clients : Library(c) \/ Server(c)

Spec == Init /\ [][Next]_vars

-----------------------------------------------------------------------------
(* Properties.                                                             *)

\* The types of the variables; labels tell disks apart, and a disk has one
\* slot; a request about a disk or an adapter has found one.
TypeOK ==
  /\ call \in [Clients -> Calls]
  /\ pc \in [Clients -> {"read", "submit", "done"}]
  /\ plan \in [Clients -> [slot : Slots \cup {-1}, disk : Disk \cup {NoDisk},
                           drive : Drive]]
  /\ task \in [Clients -> {"none", "running", "success", "error"}]
  /\ outcome \in [Clients -> {"pending", "ok", "err"}]
  /\ overtaken \in [Clients -> BOOLEAN]
  /\ disks \in [Slots -> Disk \cup {NoDisk}]
  /\ adapters \in Seq(Networks) /\ drive \in Drive
  /\ \A s, r \in Slots : Present(s) /\ Present(r) /\ s # r =>
       disks[s].label # disks[r].label /\ disks[s].file # disks[r].file
  /\ \A c \in Clients : pc[c] = "submit" =>
       /\ call[c].op \in {"addDisk", "extendDisk", "removeDisk"}
            => plan[c].slot \in Slots
       /\ call[c].op = "changeNetwork" => call[c].adapter \in DOMAIN adapters

Executes(c) == task[c] = "running" /\ task'[c] = "success"

\* An ExtendDisk that returned nil found a smaller disk, however odd its size,
\* and left it with at least the size it was asked for; nothing that other
\* clients do later takes that back, except removing the disk.
ExtendMeansGrown ==
  \A c \in Clients :
    outcome[c] = "ok" /\ call[c].op = "extendDisk" =>
      /\ plan[c].disk.size < call[c].gb * UnitsPerGB
      /\ \A s \in Slots : disks[s].file = plan[c].disk.file =>
           disks[s].size >= call[c].gb * UnitsPerGB

\* Somebody has destroyed what was in slot s.
Destroyed(s) ==
  \E d \in Clients :
    call[d].op = "removeDisk" /\ task[d] = "success" /\ plan[d].slot = s

\* An AddDisk that returned nil has added a disk of its own, of the size it was
\* asked for at least, which is in its slot until a RemoveDisk destroys it: two
\* of them that chose the same unit from the same list do not both return nil.
AddMeansAdded ==
  \A c \in Clients :
    outcome[c] = "ok" /\ call[c].op = "addDisk" =>
      \/ /\ disks[plan[c].slot].file = c
         /\ disks[plan[c].slot].size >= call[c].gb * UnitsPerGB
      \/ Destroyed(plan[c].slot)

\* A disk is lost or changed only by a call that found this very disk under
\* the label it was given, or by a RemoveDisk whose disk has been removed by
\* another client and its slot filled again.
OnlyTheNamedChanges ==
  [][\A s \in Slots : Present(s) /\ disks'[s] # disks[s] =>
       \E c \in Clients :
         /\ Executes(c) /\ plan[c].slot = s
         /\ plan[c].disk.label = call[c].disk
         /\ \/ disks[s].file = plan[c].disk.file
            \/ /\ call[c].op = "removeDisk"
               /\ \A r \in Slots : disks[r].file # plan[c].disk.file]_vars

\* ConnectCDROM and DisconnectCDROM send the medium they read back to the
\* server, and yet what is in the drive is exchanged by them only if another
\* client has exchanged it since they read it: a call that runs on its own
\* leaves what MountISO and UnmountISO put there.
MediumSticks ==
  [][drive'.medium # drive.medium =>
       \E c \in Clients :
         /\ Executes(c)
         /\ \/ call[c].op = "mount" /\ drive'.medium = call[c].iso
            \/ call[c].op = "unmount" /\ drive'.medium = NoIso
            \/ overtaken[c]]_vars
=============================================================================
