--------------------------- MODULE DevicesProofs ---------------------------
(***************************************************************************)
(* Proofs about Devices, for any number of clients, slots and calls.       *)
(*                                                                         *)
(* A call acts on what it read, so that the invariants relate what it has  *)
(* read (plan) to what is there now.  They rest on a disk never coming     *)
(* back: a file belongs to the start or to the one AddDisk that made it,   *)
(* and it leaves its slot only for good.                                   *)
(***************************************************************************)
EXTENDS Devices, TLAPS, FiniteSetTheorems, SequenceTheorems,
        WellFoundedInduction

DiskOps == {"extendDisk", "removeDisk"}
DriveOps == {"mount", "unmount", "connect", "disconnect"}

\* The request of c is built, or sent.
Built(c) == pc[c] = "submit" \/ task[c] # "none"

Progress(c) ==
  /\ pc[c] = "read" => task[c] = "none" /\ plan[c].disk = NoDisk
                       /\ outcome[c] = "pending"
  /\ outcome[c] = "ok" => task[c] = "success"
  /\ Built(c) /\ call[c].op \in DiskOps \cup {"addDisk"} =>
       plan[c].slot \in Slots
  /\ Built(c) /\ call[c].op \in DiskOps => plan[c].disk # NoDisk
  /\ Built(c) /\ call[c].op = "changeNetwork" =>
       call[c].adapter \in DOMAIN adapters

\* A file that a client made is there only once its task is done.
Made(file) == file \in Clients => task[file] = "success"

Files ==
  /\ \A s \in Slots : Made(disks[s].file)
  /\ \A s, r \in Slots :
       Present(s) /\ disks[s].file = disks[r].file => s = r

\* The disk a call has found is in the slot where it was found, or gone.
Found(c) ==
  plan[c].disk # NoDisk =>
    /\ call[c].op \in DiskOps
    /\ plan[c].disk.label = call[c].disk
    /\ Made(plan[c].disk.file)
    /\ \A s \in Slots : disks[s].file = plan[c].disk.file => s = plan[c].slot
    /\ call[c].op = "extendDisk" =>
         /\ plan[c].disk.size < call[c].gb * UnitsPerGB
         /\ task[c] = "success" =>
              \A s \in Slots : disks[s].file = plan[c].disk.file =>
                disks[s].size >= call[c].gb * UnitsPerGB

\* The disk a call has added is in its slot, unless somebody has destroyed it.
Added(c) ==
  task[c] = "success" /\ call[c].op = "addDisk" =>
    \/ /\ disks[plan[c].slot].file = c
       /\ disks[plan[c].slot].size >= call[c].gb * UnitsPerGB
    \/ Destroyed(plan[c].slot)

\* The drive a call will send, as far as its medium goes.
Planned(c) ==
  Built(c) /\ call[c].op \in DriveOps =>
    CASE call[c].op = "mount"   -> plan[c].drive.medium = call[c].iso
      [] call[c].op = "unmount" -> plan[c].drive.medium = NoIso
      [] OTHER -> task[c] = "success" \/ overtaken[c]
                    \/ plan[c].drive.medium = drive.medium

Inv ==
  /\ TypeOK /\ Files
  /\ \A c \in Clients : Progress(c) /\ Found(c) /\ Planned(c) /\ Added(c)

-----------------------------------------------------------------------------
(* Values.                                                                 *)

LEMMA MinIsIn ==
  ASSUME NEW S \in SUBSET Nat, S # {}
  PROVE  Min(S) \in S
  <1>1. PICK x \in S : \A y \in S : ~(<<y, x>> \in OpToRel(<, Nat))
    BY NatLessThanWellFounded, WFMin
  <1>2. \A y \in S : x =< y
    <2>1. ASSUME NEW y \in S, y < x PROVE FALSE
      BY <1>1, <2>1 DEF OpToRel
    <2> QED
      BY <2>1
  <1> QED
    BY <1>2 DEF Min

Plans == [slot : Slots \cup {-1}, disk : Disk \cup {NoDisk}, drive : Drive]

LEMMA DiskIs ==
  /\ NoDisk.file = "none" /\ NoDisk.size = 0
  /\ \A d \in Disk \cup {NoDisk} : d # NoDisk <=> d.file # "none"
  /\ \A d \in Disk : d.file # "none"
  BY DevicesAssumption DEF Disk, NoDisk

LEMMA PlanIs ==
  ASSUME NEW p \in Plans
  PROVE  /\ p.slot \in Slots \cup {-1} /\ p.disk \in Disk \cup {NoDisk}
         /\ p.drive \in Drive
  BY DEF Plans

LEMMA NoPlanIs ==
  ASSUME drive \in Drive
  PROVE  NoPlan \in Plans /\ NoPlan.disk = NoDisk
  BY DEF NoPlan, Plans

LEMMA CallIs ==
  ASSUME TypeOK, NEW c \in Clients
  PROVE  call[c].gb \in Nat /\ call[c].network \in Networks
         /\ call[c].iso \in Isos /\ call[c].flag \in BOOLEAN
         /\ call[c].op \in {"addDisk", "addAdapter", "changeNetwork"}
                             \cup DiskOps \cup DriveOps
  <1>1. call[c] \in Call
    BY DevicesAssumption DEF TypeOK, Calls
  <1> QED
    BY <1>1 DEF Call, DiskOps, DriveOps

\* There is one label more than slots, so that one is free.
LEMMA LabelIsFree ==
  ASSUME TypeOK
  PROVE  LET used == {disks[s].label : s \in Slots}
             label == Min((1..(Cardinality(Slots) + 1)) \ used)
         IN  label \in Nat /\ label \notin used
  <1> DEFINE used == {disks[s].label : s \in Slots}
             labels == 1..(Cardinality(Slots) + 1)
             slot == [i \in labels |-> CHOOSE s \in Slots : disks[s].label = i]
  <1>1. IsFiniteSet(Slots) /\ Cardinality(Slots) \in Nat
    BY DevicesAssumption, FS_CardinalityType
  <1>2. IsFiniteSet(labels) /\ Cardinality(labels) = Cardinality(Slots) + 1
    BY <1>1, FS_Interval
  <1>3. labels \ used # {}
    <2> SUFFICES ASSUME labels \subseteq used PROVE FALSE
      OBVIOUS
    <2>1. \A i \in labels : slot[i] \in Slots /\ disks[slot[i]].label = i
      OBVIOUS
    <2>2. slot \in [labels -> Slots]
      BY <2>1
    <2>3. Cardinality(Slots) < Cardinality(labels)
      BY <1>1, <1>2
    <2> HIDE DEF labels, slot
    <2>4. \E i, j \in labels : i # j /\ slot[i] = slot[j]
      BY <1>1, <1>2, <2>2, <2>3, FS_PigeonHole
    <2> QED
      BY <2>1, <2>4
  <1>4. labels \ used \in SUBSET Nat
    BY <1>1
  <1>5. Min(labels \ used) \in labels \ used
    BY <1>3, <1>4, MinIsIn
  <1> QED
    BY <1>4, <1>5

-----------------------------------------------------------------------------
(* The beginning, and the calls.                                           *)

LEMMA InitHolds == Init => Inv
  <1> SUFFICES ASSUME Init PROVE Inv
    OBVIOUS
  <1>1. PICK m \in Machines :
          disks = m.disks /\ adapters = m.adapters /\ drive = m.drive
    BY DEF Init
  <1>2. /\ disks \in [Slots -> Disk \cup {NoDisk}]
        /\ adapters \in Seq(Networks) /\ drive \in Drive
    BY <1>1, DevicesAssumption
  <1>3. \A s, r \in Slots :
          /\ disks[s].file \notin Clients
          /\ Present(s) /\ Present(r) /\ s # r =>
               /\ disks[s].label # disks[r].label
               /\ disks[s].file # disks[r].file
    BY <1>1, DevicesAssumption DEF Present
  <1>4. NoPlan \in Plans /\ NoPlan.disk = NoDisk
    BY <1>2, NoPlanIs
  <1>5. call \in [Clients -> Calls]
    BY DEF Init, Calls
  <1>6. TypeOK
    BY <1>2, <1>3, <1>4, <1>5 DEF Init, TypeOK, Plans
  <1>7. Files
    <2>1. ASSUME NEW s \in Slots, NEW r \in Slots, Present(s),
                 disks[s].file = disks[r].file
          PROVE  s = r
      BY <1>2, <1>3, <2>1, DiskIs DEF Present
    <2> QED
      BY <1>3, <2>1 DEF Files, Made
  <1>8. ASSUME NEW c \in Clients PROVE Progress(c) /\ Found(c) /\ Planned(c) /\ Added(c)
    BY <1>4 DEF Init, Progress, Found, Planned, Added, Built
  <1> QED
    BY <1>6, <1>7, <1>8 DEF Inv

\* A call has built its request.
LEMMA ReadyKeeps ==
  ASSUME Inv, NEW c \in Clients, pc[c] = "read", NEW device \in Plans,
         Ready(c, device), UNCHANGED <<call, task, machine>>,
         call[c].op \in DiskOps \cup {"addDisk"} => device.slot \in Slots,
         IF call[c].op \in DiskOps
         THEN /\ device.disk # NoDisk /\ device.disk = disks[device.slot]
              /\ device.disk.label = call[c].disk
              /\ call[c].op = "extendDisk" =>
                   device.disk.size < call[c].gb * UnitsPerGB
         ELSE device.disk = NoDisk,
         call[c].op = "changeNetwork" => call[c].adapter \in DOMAIN adapters,
         CASE call[c].op = "mount"   -> device.drive.medium = call[c].iso
           [] call[c].op = "unmount" -> device.drive.medium = NoIso
           [] OTHER -> device.drive.medium = drive.medium
  PROVE  Inv'
  <1> USE DEF Inv, machine
  <1>1. /\ UNCHANGED <<call, task, disks, adapters, drive, outcome>>
        /\ task[c] = "none" /\ outcome[c] = "pending"
    BY DEF Progress, Ready
  <1>2. /\ plan' \in [Clients -> Plans] /\ plan'[c] = device
        /\ pc' \in [Clients -> {"read", "submit", "done"}] /\ pc'[c] = "submit"
        /\ overtaken' \in [Clients -> BOOLEAN]
        /\ \A d \in Clients : d # c => /\ plan'[d] = plan[d] /\ pc'[d] = pc[d]
                                       /\ overtaken'[d] = overtaken[d]
    BY DEF TypeOK, Ready, Plans
  <1>3. TypeOK'
    <2>1. \A d \in Clients : pc'[d] = "submit" =>
            /\ call'[d].op \in {"addDisk", "extendDisk", "removeDisk"}
                 => plan'[d].slot \in Slots
            /\ call'[d].op = "changeNetwork" =>
                 call'[d].adapter \in DOMAIN adapters'
      BY <1>1, <1>2 DEF TypeOK, DiskOps
    <2> QED
      BY <1>1, <1>2, <2>1 DEF TypeOK, Plans, Present
  <1>4. Files'
    BY <1>1 DEF Files, Made, Present
  <1>5. ASSUME NEW d \in Clients PROVE Progress(d)'
    BY <1>1, <1>2 DEF Progress, Built
  <1>6. ASSUME NEW d \in Clients PROVE Found(d)'
    <2>1. CASE d # c
      BY <1>1, <1>2, <2>1 DEF Found, Made
    <2>2. CASE d = c /\ call[c].op \in DiskOps
      <3>1. device.slot \in Slots /\ Present(device.slot)
        BY <2>2 DEF Present
      <3> QED
        BY <1>1, <1>2, <2>2, <3>1 DEF Found, Files, Made, Present
    <2>3. CASE d = c /\ call[c].op \notin DiskOps
      BY <1>2, <2>3 DEF Found
    <2> QED
      BY <2>1, <2>2, <2>3
  <1>7. ASSUME NEW d \in Clients PROVE Planned(d)'
    <2>1. CASE d # c
      BY <1>1, <1>2, <2>1 DEF Planned, Built
    <2>2. CASE d = c
      BY <1>1, <1>2, <2>2 DEF Planned, Built
    <2> QED
      BY <2>1, <2>2
  <1>8. ASSUME NEW d \in Clients PROVE Added(d)'
    BY <1>1, <1>2 DEF Added, Destroyed
  <1> QED
    BY <1>3, <1>4, <1>5, <1>6, <1>7, <1>8

LEMMA ReturnKeeps ==
  ASSUME Inv, NEW c \in Clients, NEW result \in {"ok", "err"},
         Return(c, result), UNCHANGED <<call, plan, task, overtaken, machine>>,
         result = "ok" => task[c] = "success"
  PROVE  Inv'
  <1> USE DEF Inv, machine
  <1>1. /\ pc' \in [Clients -> {"read", "submit", "done"}] /\ pc'[c] = "done"
        /\ outcome' \in [Clients -> {"pending", "ok", "err"}]
        /\ outcome'[c] = result
        /\ \A d \in Clients :
             d # c => pc'[d] = pc[d] /\ outcome'[d] = outcome[d]
    BY DEF TypeOK, Return
  <1>2. TypeOK'
    BY <1>1 DEF TypeOK, Present
  <1>3. Files'
    BY DEF Files, Made, Present
  <1>4. ASSUME NEW d \in Clients PROVE Progress(d)' /\ Planned(d)'
    BY <1>1 DEF Progress, Planned, Built
  <1>5. ASSUME NEW d \in Clients PROVE Found(d)'
    BY DEF Found, Made
  <1>6. ASSUME NEW d \in Clients PROVE Added(d)'
    BY DEF Added, Destroyed
  <1> QED
    BY <1>2, <1>3, <1>4, <1>5, <1>6

LEMMA ReadsKeep ==
  ASSUME Inv, NEW c \in Clients,
         \/ ReadForAdd(c) \/ ReadForDisk(c) \/ ReadForAdapter(c)
         \/ ReadForDrive(c) \/ StepFails(c)
  PROVE  Inv'
  <1> USE DEF Inv
  <1>1. NoPlan \in Plans /\ NoPlan.disk = NoDisk /\ NoPlan.drive = drive
        /\ drive \in Drive
    BY NoPlanIs DEF TypeOK, NoPlan
  <1>2. ASSUME Refuse(c), UNCHANGED <<call, task, machine>> PROVE Inv'
    BY <1>2, ReturnKeeps DEF Refuse
  <1>3. CASE StepFails(c)
    BY <1>2, <1>3 DEF StepFails
  <1>4. CASE ReadForAdd(c)
    <2>1. ASSUME Free # {}, Ready(c, [NoPlan EXCEPT !.slot = Min(Free)])
          PROVE  Inv'
      <3> DEFINE device == [NoPlan EXCEPT !.slot = Min(Free)]
      <3>1. Free \in SUBSET Nat
        BY DevicesAssumption DEF Free
      <3>2. Min(Free) \in Slots
        BY <2>1, <3>1, MinIsIn DEF Free
      <3>3. /\ device \in Plans /\ device.slot \in Slots
            /\ device.disk = NoDisk /\ device.drive = drive
        BY <1>1, <3>2 DEF Plans
      <3>4. call[c].op = "addDisk" /\ pc[c] = "read"
            /\ UNCHANGED <<call, task, machine>>
        BY <1>4 DEF ReadForAdd
      <3> HIDE DEF device
      <3>5. Ready(c, device)
        BY <2>1 DEF device
      <3> QED
        BY <3>3, <3>4, <3>5, ReadyKeeps DEF DiskOps
    <2> QED
      BY <1>2, <1>4, <2>1 DEF ReadForAdd
  <1>5. CASE ReadForDisk(c)
    <2> DEFINE s == Min(Labelled(call[c].disk))
               device == [NoPlan EXCEPT !.slot = s, !.disk = disks[s]]
    <2>1. ASSUME Labelled(call[c].disk) # {}, Ready(c, device),
                 ~(call[c].op = "extendDisk"
                     /\ TooSmall(call[c].gb, disks[s].size))
          PROVE  Inv'
      <3>1. Labelled(call[c].disk) \in SUBSET Nat
        BY DevicesAssumption DEF Labelled
      <3>2. s \in Slots /\ disks[s] # NoDisk /\ disks[s].label = call[c].disk
        BY <2>1, <3>1, MinIsIn DEF Labelled, Present
      <3>3. disks[s] \in Disk
        BY <3>2 DEF TypeOK
      <3>4. disks[s].size \in Nat /\ call[c].gb \in Nat
        BY <3>3, CallIs DEF Disk
      <3>5. call[c].op = "extendDisk" =>
              disks[s].size < call[c].gb * UnitsPerGB
        BY <2>1, <3>4 DEF TooSmall, UnitsPerGB
      <3> HIDE DEF s
      <3>6. /\ device \in Plans /\ device.slot = s
            /\ device.disk = disks[s] /\ device.drive = drive
        BY <1>1, <3>2, <3>3 DEF Plans
      <3>7. call[c].op \in DiskOps /\ pc[c] = "read"
            /\ UNCHANGED <<call, task, machine>>
        BY <1>5 DEF ReadForDisk, DiskOps
      <3>8. Ready(c, device)
        BY <2>1
      <3> HIDE DEF device
      <3> QED
        BY <3>2, <3>5, <3>6, <3>7, <3>8, ReadyKeeps DEF DiskOps
    <2> QED
      BY <1>2, <1>5, <2>1 DEF ReadForDisk
  <1>6. CASE ReadForAdapter(c)
    BY <1>1, <1>2, <1>6, ReadyKeeps DEF ReadForAdapter, DiskOps
  <1>7. CASE ReadForDrive(c)
    <2> DEFINE device == [NoPlan EXCEPT !.drive = Edited(c)]
    <2>1. Edited(c) \in Drive
      BY <1>1, CallIs DEF Edited, Drive
    <2>2. /\ device \in Plans /\ device.disk = NoDisk
          /\ device.drive = Edited(c)
      BY <1>1, <2>1 DEF Plans
    <2>3. CASE call[c].op = "mount"
      <3>1. Edited(c).medium = call[c].iso
        BY <2>3 DEF Edited
      <3> QED
        BY <1>7, <2>2, <2>3, <3>1, ReadyKeeps DEF ReadForDrive, DiskOps
    <2>4. CASE call[c].op = "unmount"
      <3>1. Edited(c).medium = NoIso
        BY <2>4 DEF Edited
      <3> QED
        BY <1>7, <2>2, <2>4, <3>1, ReadyKeeps DEF ReadForDrive, DiskOps
    <2>5. CASE call[c].op \in {"connect", "disconnect"}
      <3>1. Edited(c).medium = drive.medium
        BY <2>5 DEF Edited
      <3> QED
        BY <1>7, <2>2, <2>5, <3>1, ReadyKeeps DEF ReadForDrive, DiskOps
    <2> QED
      BY <1>7, <2>3, <2>4, <2>5 DEF ReadForDrive
  <1> QED
    BY <1>3, <1>4, <1>5, <1>6, <1>7

LEMMA SubmitKeeps ==
  ASSUME Inv, NEW c \in Clients, Submit(c)
  PROVE  Inv'
  <1> USE DEF Inv, machine, Submit
  <1>1. /\ task' \in [Clients -> {"none", "running", "success", "error"}]
        /\ task'[c] = "running" /\ task[c] = "none" /\ pc[c] = "submit"
        /\ \A d \in Clients : d # c => task'[d] = task[d]
        /\ UNCHANGED <<call, plan, overtaken, disks, adapters, drive>>
    BY DEF TypeOK
  <1>2. /\ pc' \in [Clients -> {"read", "submit", "done"}]
        /\ outcome' \in [Clients -> {"pending", "ok", "err"}]
        /\ pc'[c] # "read" /\ (outcome'[c] = "ok" => outcome[c] = "ok")
        /\ \A d \in Clients :
             d # c => pc'[d] = pc[d] /\ outcome'[d] = outcome[d]
    BY <1>1 DEF TypeOK, Return
  <1>3. TypeOK'
    BY <1>1, <1>2 DEF TypeOK, Present
  <1>4. Files'
    BY <1>1 DEF Files, Made, Present
  <1>5. ASSUME NEW d \in Clients PROVE Progress(d)' /\ Planned(d)'
    BY <1>1, <1>2 DEF Progress, Planned, Built
  <1>6. ASSUME NEW d \in Clients PROVE Found(d)'
    BY <1>1 DEF Found, Made
  <1>7. ASSUME NEW d \in Clients PROVE Added(d)'
    BY <1>1 DEF Added, Destroyed
  <1> QED
    BY <1>3, <1>4, <1>5, <1>6, <1>7

LEMMA WaitsKeep ==
  ASSUME Inv, NEW c \in Clients, TaskEnds(c) \/ WaitFails(c)
  PROVE  Inv'
  BY ReturnKeeps DEF TaskEnds, WaitFails

-----------------------------------------------------------------------------
(* The server.                                                             *)

LEMMA ExecuteIs ==
  ASSUME Inv, NEW c \in Clients, NEW op, Execute(c, op)
  PROVE  /\ task' \in [Clients -> {"none", "running", "success", "error"}]
         /\ task[c] = "running" /\ task'[c] = "success" /\ call[c].op = op
         /\ \A d \in Clients : d # c => task'[d] = task[d]
         /\ UNCHANGED <<call, pc, plan, outcome>> /\ pc[c] # "read"
         /\ \A file : Made(file) => Made(file)'
  <1>1. /\ task' \in [Clients -> {"none", "running", "success", "error"}]
        /\ task[c] = "running" /\ task'[c] = "success" /\ call[c].op = op
        /\ \A d \in Clients : d # c => task'[d] = task[d]
        /\ UNCHANGED <<call, pc, plan, outcome>>
    BY DEF Inv, TypeOK, Execute, client
  <1>2. pc[c] # "read"
    BY <1>1 DEF Inv, Progress
  <1>3. ASSUME NEW file, Made(file) PROVE Made(file)'
    BY <1>1, <1>3 DEF Made
  <1> QED
    BY <1>1, <1>2, <1>3

\* One disk is removed, grows, or is made in a free slot.
LEMMA DisksKeep ==
  ASSUME Inv, NEW c \in Clients, NEW op \in DiskOps \cup {"addDisk"},
         Execute(c, op), UNCHANGED <<overtaken, adapters, drive>>,
         NEW disk \in Disk \cup {NoDisk},
         disks' = [disks EXCEPT ![plan[c].slot] = disk],
         \/ op = "removeDisk" /\ disk = NoDisk
         \/ /\ op = "extendDisk" /\ Present(plan[c].slot) /\ disk # NoDisk
            /\ disk.file = disks[plan[c].slot].file
            /\ disk.label = disks[plan[c].slot].label
            /\ disk.size >= disks[plan[c].slot].size
            /\ disk.size >= call[c].gb * UnitsPerGB
         \/ /\ op = "addDisk" /\ ~Present(plan[c].slot) /\ disk # NoDisk
            /\ disk.file = c /\ disk.size >= call[c].gb * UnitsPerGB
            /\ \A s \in Slots : disk.label # disks[s].label
  PROVE  Inv'
  <1> USE DEF Inv
  <1>1. /\ task' \in [Clients -> {"none", "running", "success", "error"}]
        /\ task[c] = "running" /\ task'[c] = "success" /\ call[c].op = op
        /\ \A d \in Clients : d # c => task'[d] = task[d]
        /\ UNCHANGED <<call, pc, plan, outcome>> /\ pc[c] # "read"
        /\ \A file : Made(file) => Made(file)'
    BY ExecuteIs
  <1>2. plan[c].slot \in Slots
    BY <1>1 DEF Progress, Built
  <1>3. /\ disks' \in [Slots -> Disk \cup {NoDisk}]
        /\ disks'[plan[c].slot] = disk
        /\ \A s \in Slots : s # plan[c].slot => disks'[s] = disks[s]
    BY <1>2 DEF TypeOK
  <1>4. \A s \in Slots : disks[s].file # c
    BY <1>1 DEF Files, Made
  <1>5. \A s, r \in Slots :
          Present(s) /\ disks[s].file = disks[r].file => s = r
    BY DEF Files
  <1>6. ASSUME NEW s \in Slots, NEW r \in Slots, Present(s)',
               disks'[s].file = disks'[r].file
        PROVE  s = r
    <2>1. disks'[s].file # "none" /\ disks'[r].file # "none"
      BY <1>3, <1>6, DiskIs DEF Present
    <2>2. disks'[r] # NoDisk
      BY <2>1, DiskIs
    <2> QED
      BY <1>2, <1>3, <1>4, <1>5, <1>6, <2>1, <2>2 DEF Present
  <1>7. ASSUME NEW s \in Slots, NEW r \in Slots, Present(s)', Present(r)',
               s # r
        PROVE  disks'[s].label # disks'[r].label
    BY <1>2, <1>3, <1>7 DEF Present, TypeOK
  <1>8. TypeOK'
    <2>1. \A s, r \in Slots : Present(s)' /\ Present(r)' /\ s # r =>
            /\ disks'[s].label # disks'[r].label
            /\ disks'[s].file # disks'[r].file
      BY <1>6, <1>7
    <2> QED
      BY <1>1, <1>3, <2>1 DEF TypeOK
  <1>9. Files'
    <2>1. ASSUME NEW s \in Slots PROVE Made(disks[s].file)'
      <3>1. CASE s # plan[c].slot
        BY <1>1, <1>3, <3>1 DEF Files, Made
      <3>2. CASE s = plan[c].slot /\ disk = NoDisk
        BY <1>3, <3>2, DiskIs, DevicesAssumption DEF Made
      <3>3. CASE s = plan[c].slot /\ disk.file = disks[s].file
        BY <1>1, <1>3, <3>3 DEF Files, Made
      <3>4. CASE s = plan[c].slot /\ disk.file = c
        BY <1>1, <1>3, <3>4 DEF Made
      <3> QED
        BY <3>1, <3>2, <3>3, <3>4
    <2> QED
      BY <1>6, <2>1 DEF Files
  <1>10. ASSUME NEW d \in Clients PROVE Progress(d)' /\ Planned(d)'
    <2>1. Progress(d)'
      BY <1>1 DEF Progress, Built
    <2>2. Planned(d)'
      BY <1>1 DEF Planned, Built
    <2> QED
      BY <2>1, <2>2
  <1>11. ASSUME NEW d \in Clients, plan[d].disk # NoDisk, NEW s \in Slots,
                disks'[s].file = plan[d].disk.file
         PROVE  s = plan[d].slot /\ disks[s].file = plan[d].disk.file
    <2>1. plan[d].disk \in Disk
      BY <1>11 DEF TypeOK
    <2>2. plan[d].disk.file # "none" /\ plan[d].disk.file # c
      BY <1>1, <1>11, <2>1, DiskIs DEF Found, Made
    <2>3. disks[s].file = plan[d].disk.file
      BY <1>2, <1>3, <1>11, <2>2, DiskIs
    <2> QED
      BY <1>11, <2>3 DEF Found
  <1>12. ASSUME NEW d \in Clients PROVE Found(d)'
    <2> SUFFICES ASSUME plan[d].disk # NoDisk PROVE Found(d)'
      BY <1>1 DEF Found
    <2>1. ASSUME call[d].op = "extendDisk", task'[d] = "success",
                 NEW s \in Slots, disks'[s].file = plan[d].disk.file
          PROVE  disks'[s].size >= call[d].gb * UnitsPerGB
      <3>1. s = plan[d].slot /\ disks[s].file = plan[d].disk.file
        BY <1>11, <2>1
      <3>2. plan[d].disk.file # "none"
        BY DiskIs DEF TypeOK
      <3>3. disks'[s] # NoDisk /\ disks[s] # NoDisk
        BY <2>1, <3>1, <3>2, DiskIs
      <3>4. disks'[s].size \in Nat /\ disks[s].size \in Nat
        BY <1>3, <3>3 DEF TypeOK, Disk
      <3>5. call[d].gb * UnitsPerGB \in Nat
        BY CallIs DEF UnitsPerGB
      <3>6. CASE d = c
        BY <1>1, <1>3, <2>1, <3>1, <3>6
      <3>7. CASE d # c
        <4>1. disks[s].size >= call[d].gb * UnitsPerGB
          BY <1>1, <2>1, <3>1, <3>7 DEF Found
        <4>2. disks'[s].size >= disks[s].size
          BY <1>2, <1>3, <3>3, <3>4 DEF Present
        <4> QED
          BY <3>4, <3>5, <4>1, <4>2
      <3> QED
        BY <3>6, <3>7
    <2> QED
      BY <1>1, <1>11, <2>1 DEF Found
  <1>13. \A s \in Slots : Destroyed(s) => Destroyed(s)'
    BY <1>1 DEF Destroyed
  <1>14. ASSUME NEW d \in Clients PROVE Added(d)'
    <2> SUFFICES ASSUME task'[d] = "success", call[d].op = "addDisk"
                 PROVE  \/ /\ disks'[plan[d].slot].file = d
                           /\ disks'[plan[d].slot].size >= call[d].gb * UnitsPerGB
                        \/ Destroyed(plan[d].slot)'
      BY <1>1 DEF Added
    <2>1. CASE d = c
      BY <1>1, <1>3, <2>1
    <2>2. CASE d # c
      <3>1. plan[d].slot \in Slots /\ task[d] = "success"
        BY <1>1, <2>2 DEF Progress, Built
      <3>2. CASE plan[d].slot # plan[c].slot \/ Destroyed(plan[d].slot)
        BY <1>1, <1>3, <1>13, <3>1, <3>2 DEF Added
      <3>3. CASE plan[d].slot = plan[c].slot /\ disk = NoDisk
        BY <1>1, <3>3 DEF Destroyed
      <3>4. CASE /\ plan[d].slot = plan[c].slot /\ disk # NoDisk
                 /\ disks[plan[c].slot].file = d
                 /\ disks[plan[c].slot].size >= call[d].gb * UnitsPerGB
        <4>1. Present(plan[c].slot)
          BY <1>2, <3>4, DiskIs, DevicesAssumption DEF Present
        <4>2. /\ disk.file = disks[plan[c].slot].file
              /\ disk.size >= disks[plan[c].slot].size
          BY <3>4, <4>1
        <4>3. disk.size \in Nat /\ disks[plan[c].slot].size \in Nat
          BY <1>2, <3>4, <4>1 DEF TypeOK, Disk, Present
        <4>4. call[d].gb * UnitsPerGB \in Nat
          BY CallIs DEF UnitsPerGB
        <4> QED
          BY <1>3, <3>4, <4>2, <4>3, <4>4
      <3> QED
        BY <3>1, <3>2, <3>3, <3>4 DEF Added
    <2> QED
      BY <2>1, <2>2
  <1> QED
    BY <1>8, <1>9, <1>10, <1>12, <1>14

LEMMA ExecuteDisksKeep ==
  ASSUME Inv, NEW c \in Clients,
         ExecuteAddDisk(c) \/ ExecuteExtendDisk(c) \/ ExecuteRemoveDisk(c)
  PROVE  Inv'
  <1> USE DEF Inv
  <1>1. call[c].gb \in Nat /\ call[c].gb * UnitsPerGB \in Nat
    BY CallIs DEF UnitsPerGB
  <1>2. CASE ExecuteAddDisk(c)
    <2> DEFINE used == {disks[s].label : s \in Slots}
               label == Min((1..(Cardinality(Slots) + 1)) \ used)
               disk == [file |-> c, size |-> call[c].gb * UnitsPerGB,
                        label |-> label]
    <2>1. label \in Nat /\ \A s \in Slots : label # disks[s].label
      BY LabelIsFree
    <2>2. disks' = [disks EXCEPT ![plan[c].slot] = disk]
      BY <1>2 DEF ExecuteAddDisk
    <2> HIDE DEF label
    <2>3. disk \in Disk
      BY <1>1, <2>1 DEF Disk
    <2>4. disk # NoDisk /\ disk.file = c
          /\ disk.size >= call[c].gb * UnitsPerGB
      BY <1>1, <2>3, DiskIs
    <2>5. \A s \in Slots : disk.label # disks[s].label
      BY <2>1
    <2>6. Execute(c, "addDisk") /\ UNCHANGED <<overtaken, adapters, drive>>
          /\ ~Present(plan[c].slot)
      BY <1>2 DEF ExecuteAddDisk, Free
    <2>7. "addDisk" \in DiskOps \cup {"addDisk"}
      OBVIOUS
    <2> HIDE DEF disk, Inv
    <2> QED
      BY <2>2, <2>3, <2>4, <2>5, <2>6, <2>7, DisksKeep
  <1>3. CASE ExecuteExtendDisk(c)
    <2> DEFINE slot == plan[c].slot
               disk == [disks[slot] EXCEPT !.size = call[c].gb * UnitsPerGB]
    <2>1. /\ Execute(c, "extendDisk")
          /\ UNCHANGED <<overtaken, adapters, drive>>
          /\ disks[slot].file = plan[c].disk.file
          /\ disks[slot].size <= call[c].gb * UnitsPerGB
          /\ disks' = [disks EXCEPT ![slot].size = call[c].gb * UnitsPerGB]
      BY <1>3 DEF ExecuteExtendDisk
    <2>2. task[c] = "running" /\ call[c].op = "extendDisk"
      BY <2>1 DEF Execute
    <2>3. slot \in Slots /\ plan[c].disk # NoDisk
      BY <2>2 DEF Progress, Built, DiskOps
    <2>4. plan[c].disk.file # "none"
      BY <2>3, DiskIs DEF TypeOK
    <2>5. disks[slot] \in Disk /\ disks[slot] # NoDisk
      BY <2>1, <2>3, <2>4, DiskIs DEF TypeOK
    <2>6. /\ disk \in Disk /\ disk.file = disks[slot].file
          /\ disk.label = disks[slot].label
          /\ disk.size = call[c].gb * UnitsPerGB
      BY <1>1, <2>5 DEF Disk
    <2>7. disk # NoDisk
      BY <2>6, DiskIs
    <2>8. disks' = [disks EXCEPT ![slot] = disk]
      BY <2>1, <2>3 DEF TypeOK
    <2>9. disk.size >= disks[slot].size /\ disk.size >= call[c].gb * UnitsPerGB
      BY <1>1, <2>1, <2>5, <2>6 DEF Disk
    <2> HIDE DEF disk
    <2> QED
      BY <2>1, <2>5, <2>6, <2>7, <2>8, <2>9, DisksKeep DEF Present, DiskOps
  <1>4. CASE ExecuteRemoveDisk(c)
    <2>1. /\ Execute(c, "removeDisk")
          /\ UNCHANGED <<overtaken, adapters, drive>>
          /\ disks' = [disks EXCEPT ![plan[c].slot] = NoDisk]
      BY <1>4 DEF ExecuteRemoveDisk
    <2>2. "removeDisk" \in DiskOps \cup {"addDisk"}
      BY DEF DiskOps
    <2> HIDE DEF Inv
    <2> QED
      BY <2>1, <2>2, DisksKeep
  <1> QED
    BY <1>2, <1>3, <1>4

LEMMA ExecuteAdapterKeeps ==
  ASSUME Inv, NEW c \in Clients, ExecuteAdapter(c)
  PROVE  Inv'
  <1> USE DEF Inv
  <1>1. PICK op \in {"addAdapter", "changeNetwork"} : Execute(c, op)
    BY DEF ExecuteAdapter
  <1>2. /\ task' \in [Clients -> {"none", "running", "success", "error"}]
        /\ task[c] = "running" /\ task'[c] = "success" /\ call[c].op = op
        /\ \A d \in Clients : d # c => task'[d] = task[d]
        /\ UNCHANGED <<call, pc, plan, outcome>> /\ pc[c] # "read"
        /\ \A file : Made(file) => Made(file)'
    BY <1>1, ExecuteIs
  <1>3. UNCHANGED <<overtaken, disks, drive>>
    BY DEF ExecuteAdapter
  <1>4. /\ adapters' \in Seq(Networks)
        /\ DOMAIN adapters \subseteq DOMAIN adapters'
    <2>1. adapters \in Seq(Networks) /\ call[c].network \in Networks
      BY CallIs DEF TypeOK
    <2>2. CASE adapters' = Append(adapters, call[c].network)
      BY <2>1, <2>2, AppendProperties
    <2>3. CASE /\ op = "changeNetwork"
               /\ adapters' =
                    [adapters EXCEPT ![call[c].adapter] = call[c].network]
      <3>1. call[c].adapter \in DOMAIN adapters
        BY <1>2, <2>3 DEF Progress, Built
      <3> QED
        BY <2>1, <2>3, <3>1, ExceptSeq
    <2> QED
      BY <1>1, <1>2, <2>2, <2>3 DEF ExecuteAdapter, Execute
  <1>5. TypeOK'
    <2>1. \A d \in Clients :
            pc[d] = "submit" /\ call[d].op = "changeNetwork" =>
              call[d].adapter \in DOMAIN adapters'
      BY <1>4 DEF TypeOK
    <2> QED
      BY <1>2, <1>3, <1>4, <2>1 DEF TypeOK, Present
  <1>6. Files'
    BY <1>2, <1>3 DEF Files, Present
  <1>7. ASSUME NEW d \in Clients PROVE Progress(d)'
    BY <1>2, <1>3, <1>4 DEF Progress, Built
  <1>8. ASSUME NEW d \in Clients PROVE Planned(d)'
    BY <1>2, <1>3 DEF Planned, Built
  <1>9. ASSUME NEW d \in Clients PROVE Found(d)'
    BY <1>2, <1>3 DEF Found, DiskOps
  <1>10. ASSUME NEW d \in Clients PROVE Added(d)'
    BY <1>2, <1>3 DEF Added, Destroyed
  <1> QED
    BY <1>5, <1>6, <1>7, <1>8, <1>9, <1>10

LEMMA ExecuteDriveKeeps ==
  ASSUME Inv, NEW c \in Clients, ExecuteDrive(c)
  PROVE  Inv'
  <1> USE DEF Inv
  <1>1. PICK op \in DriveOps : Execute(c, op)
    BY DEF ExecuteDrive, DriveOps
  <1>2. /\ task' \in [Clients -> {"none", "running", "success", "error"}]
        /\ task[c] = "running" /\ task'[c] = "success" /\ call[c].op = op
        /\ \A d \in Clients : d # c => task'[d] = task[d]
        /\ UNCHANGED <<call, pc, plan, outcome>> /\ pc[c] # "read"
        /\ \A file : Made(file) => Made(file)'
    BY <1>1, ExecuteIs
  <1>3. UNCHANGED <<disks, adapters>> /\ drive' = plan[c].drive
    BY DEF ExecuteDrive
  <1>4. /\ overtaken' \in [Clients -> BOOLEAN]
        /\ \A d \in Clients :
             overtaken'[d] <=>
               (overtaken[d] \/ (d # c /\ drive'.medium # drive.medium))
    BY DEF ExecuteDrive, TypeOK
  <1>5. TypeOK'
    BY <1>2, <1>3, <1>4 DEF TypeOK, Present
  <1>6. Files'
    BY <1>2, <1>3 DEF Files, Present
  <1>7. ASSUME NEW d \in Clients PROVE Progress(d)'
    BY <1>2, <1>3 DEF Progress, Built
  <1>8. ASSUME NEW d \in Clients PROVE Planned(d)'
    BY <1>2, <1>4 DEF Planned, Built
  <1>9. ASSUME NEW d \in Clients PROVE Found(d)'
    BY <1>2, <1>3 DEF Found, DiskOps, DriveOps
  <1>10. ASSUME NEW d \in Clients PROVE Added(d)'
    BY <1>2, <1>3 DEF Added, Destroyed, DriveOps
  <1> QED
    BY <1>5, <1>6, <1>7, <1>8, <1>9, <1>10

LEMMA ExecuteFailsKeeps ==
  ASSUME Inv, NEW c \in Clients, ExecuteFails(c)
  PROVE  Inv'
  <1> USE DEF Inv
  <1>1. /\ task' \in [Clients -> {"none", "running", "success", "error"}]
        /\ task[c] = "running" /\ task'[c] = "error"
        /\ \A d \in Clients : d # c => task'[d] = task[d]
        /\ UNCHANGED <<call, pc, plan, outcome, overtaken, disks, adapters,
                       drive>>
    BY DEF TypeOK, ExecuteFails, client, machine
  <1>2. TypeOK' /\ Files'
    BY <1>1 DEF TypeOK, Files, Made, Present
  <1>3. ASSUME NEW d \in Clients PROVE Progress(d)' /\ Planned(d)'
    BY <1>1 DEF Progress, Planned, Built
  <1>4. ASSUME NEW d \in Clients PROVE Found(d)'
    BY <1>1 DEF Found, Made
  <1>5. ASSUME NEW d \in Clients PROVE Added(d)'
    BY <1>1 DEF Added, Destroyed
  <1> QED
    BY <1>2, <1>3, <1>4, <1>5

LEMMA StepKeeps ==
  ASSUME Inv, [Next]_vars
  PROVE  Inv'
  <1>1. CASE UNCHANGED vars
    <2>1. TypeOK' /\ Files'
      BY <1>1 DEF Inv, vars, TypeOK, Files, Made, Present
    <2>2. ASSUME NEW c \in Clients PROVE Progress(c)' /\ Found(c)'
      BY <1>1 DEF Inv, vars, Progress, Found, Built, Made
    <2>3. ASSUME NEW c \in Clients PROVE Planned(c)'
      BY <1>1 DEF Inv, vars, Planned, Built
    <2>4. ASSUME NEW c \in Clients PROVE Added(c)'
      BY <1>1 DEF Inv, vars, Added, Destroyed
    <2> QED
      BY <2>1, <2>2, <2>3, <2>4 DEF Inv
  <1>2. ASSUME NEW c \in Clients, Library(c) PROVE Inv'
    BY <1>2, ReadsKeep, SubmitKeeps, WaitsKeep DEF Library
  <1>3. ASSUME NEW c \in Clients, Server(c) PROVE Inv'
    BY <1>3, ExecuteDisksKeep, ExecuteAdapterKeeps, ExecuteDriveKeeps,
       ExecuteFailsKeeps DEF Server
  <1> QED
    BY <1>1, <1>2, <1>3 DEF Next

-----------------------------------------------------------------------------
(* The theorems.                                                           *)

\* What is found and what is there stay as a call needs them to be.
THEOREM Inductive == Spec => []Inv
  BY InitHolds, StepKeeps, PTL DEF Spec

\* Labels and files tell disks apart, and a request has found its device.
THEOREM TypeCorrect == Spec => []TypeOK
  <1>1. Inv => TypeOK
    BY DEF Inv
  <1> QED
    BY <1>1, Inductive, PTL

\* An AddDisk that returned nil has a disk of its own (AddDisk), for any number
\* of clients that chose the same unit.
THEOREM AddIsReal == Spec => []AddMeansAdded
  <1>1. Inv => AddMeansAdded
    BY DEF Inv, Progress, Added, AddMeansAdded
  <1> QED
    BY <1>1, Inductive, PTL

\* An ExtendDisk that returned nil has grown the disk (ExtendDisk).
THEOREM ExtendIsReal == Spec => []ExtendMeansGrown
  <1>1. ASSUME Inv PROVE ExtendMeansGrown
    <2> SUFFICES ASSUME NEW c \in Clients, outcome[c] = "ok",
                        call[c].op = "extendDisk"
                 PROVE  /\ plan[c].disk.size < call[c].gb * UnitsPerGB
                        /\ \A s \in Slots :
                             disks[s].file = plan[c].disk.file =>
                               disks[s].size >= call[c].gb * UnitsPerGB
      BY DEF ExtendMeansGrown
    <2>1. task[c] = "success" /\ plan[c].disk # NoDisk
      BY <1>1 DEF Inv, Progress, Built, DiskOps
    <2> QED
      BY <1>1, <2>1 DEF Inv, Found
  <1> QED
    BY <1>1, Inductive, PTL

\* A disk is lost or changed only by a call that named it, or by a RemoveDisk
\* that has been overtaken by another (ExtendDisk, RemoveDisk).
THEOREM OnlyTheNamed == Spec => OnlyTheNamedChanges
  <1>1. ASSUME Inv, [Next]_vars
        PROVE  \A s \in Slots : Present(s) /\ disks'[s] # disks[s] =>
                 \E c \in Clients :
                   /\ Executes(c) /\ plan[c].slot = s
                   /\ plan[c].disk.label = call[c].disk
                   /\ \/ disks[s].file = plan[c].disk.file
                      \/ /\ call[c].op = "removeDisk"
                         /\ \A r \in Slots : disks[r].file # plan[c].disk.file
    <2> SUFFICES ASSUME NEW s \in Slots, Present(s), disks'[s] # disks[s]
                 PROVE  \E c \in Clients :
                   /\ Executes(c) /\ plan[c].slot = s
                   /\ plan[c].disk.label = call[c].disk
                   /\ \/ disks[s].file = plan[c].disk.file
                      \/ /\ call[c].op = "removeDisk"
                         /\ \A r \in Slots : disks[r].file # plan[c].disk.file
      OBVIOUS
    <2> USE <1>1 DEF Inv
    <2>1. PICK c \in Clients :
            ExecuteAddDisk(c) \/ ExecuteExtendDisk(c) \/ ExecuteRemoveDisk(c)
      BY DEF Next, Library, Server, StepFails, ReadForAdd, ReadForDisk,
             ReadForAdapter, ReadForDrive, Submit, TaskEnds, WaitFails,
             ExecuteAdapter, ExecuteDrive, ExecuteFails, machine, vars
    <2>2. disks \in [Slots -> Disk \cup {NoDisk}]
      BY DEF TypeOK
    <2>3. plan[c].slot = s /\ ~ExecuteAddDisk(c)
      BY <2>1, <2>2 DEF ExecuteAddDisk, ExecuteExtendDisk, ExecuteRemoveDisk,
                        Free
    <2>4. PICK op \in DiskOps : Execute(c, op)
      BY <2>1, <2>3 DEF ExecuteExtendDisk, ExecuteRemoveDisk, DiskOps
    <2>5. task[c] = "running" /\ task'[c] = "success" /\ call[c].op = op
      BY <2>4, ExecuteIs
    <2>6. plan[c].disk # NoDisk
      BY <2>5 DEF Progress, Built
    <2>7. plan[c].disk.label = call[c].disk
          /\ \A r \in Slots : disks[r].file = plan[c].disk.file => r = s
      BY <2>3, <2>6 DEF Found
    <2>8. call[c].op = "removeDisk" \/ disks[s].file = plan[c].disk.file
      BY <2>1, <2>3 DEF ExecuteExtendDisk, ExecuteRemoveDisk, Execute
    <2> QED
      BY <2>3, <2>5, <2>7, <2>8 DEF Executes
  <1> QED
    BY <1>1, Inductive, PTL DEF Spec, OnlyTheNamedChanges

\* What is in the drive is exchanged by MountISO and UnmountISO, or by a call
\* that another has overtaken (ConnectCDROM, DisconnectCDROM).
THEOREM MediumSticksTo == Spec => MediumSticks
  <1>1. ASSUME Inv, [Next]_vars
        PROVE  drive'.medium # drive.medium =>
                 \E c \in Clients :
                   /\ Executes(c)
                   /\ \/ call[c].op = "mount" /\ drive'.medium = call[c].iso
                      \/ call[c].op = "unmount" /\ drive'.medium = NoIso
                      \/ overtaken[c]
    <2> SUFFICES ASSUME drive'.medium # drive.medium
                 PROVE  \E c \in Clients :
                   /\ Executes(c)
                   /\ \/ call[c].op = "mount" /\ drive'.medium = call[c].iso
                      \/ call[c].op = "unmount" /\ drive'.medium = NoIso
                      \/ overtaken[c]
      OBVIOUS
    <2> USE <1>1 DEF Inv
    <2>1. PICK c \in Clients : ExecuteDrive(c)
      BY DEF Next, Library, Server, StepFails, ReadForAdd, ReadForDisk,
             ReadForAdapter, ReadForDrive, Submit, TaskEnds, WaitFails,
             ExecuteAddDisk, ExecuteExtendDisk, ExecuteRemoveDisk,
             ExecuteAdapter, ExecuteFails, machine, vars
    <2>2. PICK op \in DriveOps : Execute(c, op)
      BY <2>1 DEF ExecuteDrive, DriveOps
    <2>3. task[c] = "running" /\ task'[c] = "success" /\ call[c].op = op
      BY <2>2, ExecuteIs
    <2>4. drive' = plan[c].drive
      BY <2>1 DEF ExecuteDrive
    <2> QED
      BY <2>3, <2>4 DEF Planned, Built, Executes
  <1> QED
    BY <1>1, Inductive, PTL DEF Spec, MediumSticks
=============================================================================
