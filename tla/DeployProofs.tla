---------------------------- MODULE DeployProofs ----------------------------
(***************************************************************************)
(* Proofs about Deploy, for any number of concurrent calls and any set of  *)
(* requests.  The safety invariants that the runs check are not inductive: *)
(* they speak of the machine and of what the call returned, while what a   *)
(* step does next depends on the task in flight.  IInv ties the three      *)
(* together.                                                               *)
(***************************************************************************)
EXTENDS Deploy, SequenceTheorems, TLAPS

-----------------------------------------------------------------------------
(* Prefixes.                                                               *)

\* Appending the element that comes next in t to a prefix of t gives a prefix.
LEMMA PrefixGrows ==
  ASSUME NEW S, NEW s \in Seq(S), NEW t \in Seq(S),
         IsPrefix(s, t), Len(s) < Len(t)
  PROVE  IsPrefix(Append(s, t[Len(s) + 1]), t)
<1> DEFINE e == t[Len(s) + 1]
           a == Append(s, e)
<1>1. e \in S
  OBVIOUS
<1>2. a \in Seq(S) /\ Len(a) = Len(s) + 1
  BY <1>1
<1>3. SubSeq(s, 1, Len(s)) = SubSeq(t, 1, Len(s))
  BY DEF IsPrefix
<1>4. \A i \in 1..Len(s) : s[i] = t[i]
  <2> SUFFICES ASSUME NEW i \in 1..Len(s) PROVE s[i] = t[i]
    OBVIOUS
  <2>1. SubSeq(s, 1, Len(s))[i] = s[i]
    OBVIOUS
  <2>2. SubSeq(t, 1, Len(s))[i] = t[i]
    OBVIOUS
  <2> QED  BY <2>1, <2>2, <1>3
<1>5. \A i \in 1..Len(a) : a[i] = t[i]
  BY <1>1, <1>2, <1>4
<1>6. SubSeq(a, 1, Len(a)) = SubSeq(t, 1, Len(a))
  <2> DEFINE x == SubSeq(a, 1, Len(a))
             y == SubSeq(t, 1, Len(a))
  <2>1. x \in Seq(S) /\ Len(x) = Len(a) /\ \A i \in 1..Len(a) : x[i] = a[i]
    BY <1>2
  <2>2. y \in Seq(S) /\ Len(y) = Len(a) /\ \A i \in 1..Len(a) : y[i] = t[i]
    BY <1>2
  <2> HIDE DEF x, y, a
  <2> QED  BY <2>1, <2>2, <1>2, <1>5, SeqEqual
<1> QED  BY <1>2, <1>6 DEF IsPrefix

\* A prefix as long as the whole is the whole.
LEMMA PrefixFull ==
  ASSUME NEW S, NEW s \in Seq(S), NEW t \in Seq(S),
         IsPrefix(s, t), Len(s) = Len(t)
  PROVE  s = t
<1>1. SubSeq(s, 1, Len(s)) = s
  BY SubSeqFull
<1>2. SubSeq(t, 1, Len(s)) = t
  BY SubSeqFull
<1> QED  BY <1>1, <1>2 DEF IsPrefix

LEMMA PrefixEmpty ==
  ASSUME NEW S, NEW t \in Seq(S)
  PROVE  IsPrefix(<<>>, t)
BY DEF IsPrefix

LEMMA PrefixSelf ==
  ASSUME NEW S, NEW t \in Seq(S)
  PROVE  IsPrefix(t, t)
BY DEF IsPrefix

-----------------------------------------------------------------------------
(* The inductive invariant, stated for the values that belong to one call. *)

\* What vCenter makes of a clone task.
Bare(r) == [NoVM EXCEPT !.power = "off", !.customize = NeedsCustomization(r)]

\* Where a call is decides whether it holds a machine, whether it has
\* returned, and which task it may be waiting for.
Control(p, h, t, o) ==
  /\ p = "done" <=> o # "pending"
  /\ p \in {"idle", "find", "recommend", "clone"} \/ o = "nilErr" => h = Nobody
  /\ p \in {"disks", "resources", "power", "customization", "poll"}
       => h # Nobody
  /\ o \in {"ok", "vmErr"} => h # Nobody
  /\ t.state # "none" =>
       /\ p \notin {"idle", "find", "recommend", "customization", "poll"}
       /\ p = "clone" \/ h = Nobody => t.op = "clone"
       /\ p = "disks" => t.op = "disk"
       /\ p = "resources" => t.op = "resources"
       /\ p = "power" => t.op = "power"
       /\ h # Nobody => t.op # "clone"
       /\ o # "ok"

\* The machine appears with the clone, and has what the steps taken gave it.
Built(r, n, h, t, m) ==
  /\ h = Nobody => n = 1 /\ m = IF t.state = "success" THEN Bare(r) ELSE NoVM
  /\ h # Nobody => m.power # "none" /\ m.customize = NeedsCustomization(r)
  /\ IsPrefix(m.disks, Disks(r))
  /\ m.power = "on" \/ m.resources # TemplateResources => Complete(r, m)
  /\ m.power # "on" => m.applied = {}

\* What a step finds when it starts: the work of the steps before it.
Ready(r, p, n, m) ==
  /\ p = "disks" => /\ n <= Len(Disks(r)) /\ Len(m.disks) = n - 1
                    /\ m.resources = TemplateResources
  /\ p = "resources" => /\ NeedsResources(r) /\ m.disks = Disks(r)
                        /\ m.resources = TemplateResources
  /\ p = "power" => Complete(r, m)
  /\ p \in {"disks", "resources", "power"} => m.power = "off"

\* What a task found, asks for and, once it has succeeded, has done.
InFlight(r, n, t, m) ==
  /\ t.op = "disk" =>
       /\ n <= Len(Disks(r)) /\ t.size = Disks(r)[n]
       /\ Len(m.disks) = (IF t.state = "success" THEN n ELSE n - 1)
       /\ m.resources = TemplateResources /\ m.power = "off"
  /\ t.op = "resources" =>
       /\ NeedsResources(r) /\ t.resources = Resources(r)
       /\ m.disks = Disks(r) /\ m.power = "off"
       /\ m.resources = IF t.state = "success" THEN Resources(r)
                                                ELSE TemplateResources
  /\ t.op = "power" =>
       /\ Complete(r, m)
       /\ m.power = IF t.state = "success" THEN "on" ELSE "off"

Finished(r, p, o, m) ==
  p \in {"customization", "poll"} \/ o = "ok"
    => m.power = "on" /\ Complete(r, m)

CallInv(r, p, n, h, t, o, m) ==
  /\ Control(p, h, t, o)
  /\ Built(r, n, h, t, m)
  /\ t.state = "none" => Ready(r, p, n, m)
  /\ t.state # "none" => InFlight(r, n, t, m)
  /\ Finished(r, p, o, m)

\* The invariant of call w: it works on no machine but its own.
At(w) ==
  /\ handle[w] \in {Nobody, w}
  /\ CallInv(req[w], pc[w], next[w], handle[w], task[w], outcome[w], vms[w])

IInv == TypeOK /\ \A w \in Workers : At(w)

-----------------------------------------------------------------------------
(* Types.                                                                  *)

LEMMA RequestTypes ==
  ASSUME NEW r \in Requests
  PROVE  /\ r \in ServerRequest
         /\ Disks(r) \in Seq(Int)
         /\ Adapters(r) \in Seq(Adapter)
         /\ NeedsCustomization(r) \in BOOLEAN
         /\ Resources(r) \in [cpus : Int, memoryMB : Int]
         /\ Resources(r) # TemplateResources
<1>1. r \in ServerRequest
  BY RequestsAssumption
<1>2. Disks(r) \in Seq(Int)
  BY <1>1 DEF Disks, ServerRequest
<1>3. Adapters(r) \in Seq(Adapter)
  <2> DEFINE a == [ip |-> r.ip, mask |-> r.mask, gateway |-> r.gateway]
  <2>1. a \in Adapter
    BY <1>1 DEF ServerRequest, Adapter
  <2>2. <<a>> \in Seq(Adapter) /\ <<>> \in Seq(Adapter)
    BY <2>1
  <2>3. r.adapters \in Seq(Adapter)
    BY <1>1 DEF ServerRequest
  <2> HIDE DEF a
  <2>4. Adapters(r) \in {r.adapters, <<a>>, <<>>}
    BY DEF Adapters, a
  <2> QED  BY <2>2, <2>3, <2>4
<1>4. NeedsCustomization(r) \in BOOLEAN
  BY DEF NeedsCustomization
<1>5. /\ Resources(r) \in [cpus : Int, memoryMB : Int]
      /\ Resources(r) # TemplateResources
  BY <1>1 DEF Resources, TemplateResources, ServerRequest
<1> QED  BY <1>1, <1>2, <1>3, <1>4, <1>5

LEMMA SettingsType ==
  ASSUME NEW r \in Requests
  PROVE  Settings(r) \subseteq {"hostname", "domain", "nic"} \X Nat
<1>1. Adapters(r) \in Seq(Adapter)
  BY RequestTypes
<1>2. (IF Adapters(r) = <<>> THEN 1 ELSE Len(Adapters(r))) \in Nat
  BY <1>1
<1>3. SUFFICES ASSUME NEW s \in Settings(r)
               PROVE  s \in {"hostname", "domain", "nic"} \X Nat
  OBVIOUS
<1>4. CASE s \in {<<"hostname", 0>>, <<"domain", 0>>}
  BY <1>4
<1>5. CASE \E i \in Nat : s = <<"nic", i>>
  BY <1>5
<1> DEFINE n == IF Adapters(r) = <<>> THEN 1 ELSE Len(Adapters(r))
<1>6. \/ s \in {<<"hostname", 0>>}
      \/ s \in {<<"domain", 0>> : x \in {y \in {r.domain} : y # ""}}
      \/ s \in {<<"nic", i>> : i \in 1..n}
  BY DEF Settings
<1> HIDE DEF n
<1>7. s \in {<<"nic", i>> : i \in 1..n} => \E i \in Nat : s = <<"nic", i>>
  BY <1>2 DEF n
<1> QED  BY <1>4, <1>5, <1>6, <1>7

\* The tasks of a call are done on its own machine.
OwnTask(w) ==
  /\ ExecuteAddDisk(w) =>
       Execute(w, "disk", w,
               [vms[w] EXCEPT !.disks = Append(@, task[w].size)])
  /\ ExecuteReconfigure(w) =>
       Execute(w, "resources", w,
               [vms[w] EXCEPT !.resources = task[w].resources])
  /\ ExecutePowerOn(w) =>
       /\ Execute(w, "power", w, [vms[w] EXCEPT !.power = "on"])
       /\ vms[w].power = "off"

LEMMA OwnTasks ==
  ASSUME IInv, NEW w \in Workers
  PROVE  OwnTask(w)
<1>1. task[w].state = "running" /\ task[w].op # "clone" => handle[w] = w
  BY DEF IInv, At, CallInv, Control
<1> QED
  BY <1>1 DEF OwnTask, ExecuteAddDisk, ExecuteReconfigure, ExecutePowerOn, Execute

LEMMA TypesStep ==
  ASSUME IInv, [Next]_vars
  PROVE  Types'
<1>0. TypeOK /\ \A w \in Workers : OwnTask(w)
  BY OwnTasks DEF IInv
<1> USE <1>0 DEF Types, TypeOK
<1>1. TemplateResources \in [cpus : Int, memoryMB : Int]
  BY DEF TemplateResources
<1>2. NoTask \in Task /\ NoVM \in VM
  BY <1>1 DEF NoTask, NoVM, Task, VM, Ops
<1>3. \A w \in Workers : req[w] \in Requests /\ task[w] \in Task /\ vms[w] \in VM
  OBVIOUS
<1>4. ASSUME NEW w \in Workers, Begin(w) PROVE Types'
  BY <1>4 DEF Begin, Goto, Fail, Steps
<1>5. ASSUME NEW w \in Workers, Find(w) PROVE Types'
  BY <1>5 DEF Find, Goto, Steps
<1>6. ASSUME NEW w \in Workers, Recommend(w) PROVE Types'
  BY <1>6 DEF Recommend, Goto, Steps
<1>7. ASSUME NEW w \in Workers, NEW op \in Ops, NEW size \in Int,
             NEW res \in [cpus : Int, memoryMB : Int], Submit(w, op, size, res)
      PROVE  Types'
  BY <1>7 DEF Submit, Fail, Task, Steps
<1>8. ASSUME NEW w \in Workers, StartClone(w) PROVE Types'
  BY <1>1, <1>7, <1>8 DEF StartClone, Ops
<1>9. ASSUME NEW w \in Workers, AddDisk(w) PROVE Types'
  <2>1. Disks(req[w])[next[w]] \in Int
    BY <1>9, <1>3, RequestTypes DEF AddDisk
  <2> QED  BY <2>1, <1>1, <1>7, <1>9 DEF AddDisk, Ops
<1>10. ASSUME NEW w \in Workers, SetVMResources(w) PROVE Types'
  BY <1>3, <1>7, <1>10, RequestTypes DEF SetVMResources, Ops
<1>11. ASSUME NEW w \in Workers, PowerOnVM(w) PROVE Types'
  BY <1>1, <1>7, <1>11 DEF PowerOnVM, Ops
<1>12. ASSUME NEW w \in Workers, StepFails(w) PROVE Types'
  BY <1>12 DEF StepFails, Fail, Steps
<1>13. ASSUME NEW w \in Workers, TaskSucceeded(w) PROVE Types'
  <2>1. \A r, n : StepAfterDisks(r, n) \in Steps
    BY DEF StepAfterDisks, Steps
  <2> USE <1>2
  <2>2. CASE pc[w] = "clone"
    <3> DEFINE p == StepAfterDisks(req[w], 1)
    <3>1. p \in Steps
      BY <2>1
    <3> HIDE DEF p
    <3>2. /\ pc' = [pc EXCEPT ![w] = p] /\ handle' = [handle EXCEPT ![w] = w]
          /\ task' = [task EXCEPT ![w] = NoTask]
          /\ UNCHANGED <<req, next, ctx, waited, outcome, vms>>
      BY <2>2, <1>13 DEF TaskSucceeded, Goto, p
    <3> QED  BY <3>1, <3>2
  <2>3. CASE pc[w] = "disks"
    <3> DEFINE p == StepAfterDisks(req[w], next[w] + 1)
    <3>1. p \in Steps
      BY <2>1
    <3> HIDE DEF p
    <3>2. /\ pc' = [pc EXCEPT ![w] = p] /\ next' = [next EXCEPT ![w] = @ + 1]
          /\ task' = [task EXCEPT ![w] = NoTask]
          /\ UNCHANGED <<req, handle, ctx, waited, outcome, vms>>
      BY <2>3, <1>13 DEF TaskSucceeded, Goto, p
    <3> QED  BY <3>1, <3>2
  <2>4. CASE pc[w] = "resources"
    BY <2>4, <1>13 DEF TaskSucceeded, Goto, Steps
  <2>5. CASE pc[w] = "power"
    BY <2>5, <1>13 DEF TaskSucceeded, Goto, Succeed, Steps
  <2> QED  BY <2>2, <2>3, <2>4, <2>5, <1>13 DEF TaskSucceeded
<1>14. ASSUME NEW w \in Workers, WaitFails(w) PROVE Types'
  BY <1>14 DEF WaitFails, Fail, Steps
<1>15. ASSUME NEW w \in Workers, CustomizationSeen(w) PROVE Types'
  BY <1>15 DEF CustomizationSeen, Succeed, Steps
<1>16. ASSUME NEW w \in Workers, CustomizationGivenUp(w) PROVE Types'
  BY <1>16 DEF CustomizationGivenUp, Succeed, Steps
<1>17. ASSUME NEW w \in Workers, Cancel(w) \/ Expire(w) PROVE Types'
  BY <1>17 DEF Cancel, Expire
<1>27. ASSUME NEW w \in Workers, PollGuest(w) \/ PollEnds(w) PROVE Types'
  BY <1>27 DEF PollGuest, PollEnds, Goto, Steps
<1>18. ASSUME NEW w \in Workers, NEW op, NEW vm \in VM, Execute(w, op, w, vm)
       PROVE  Types'
  BY <1>3, <1>18 DEF Execute, Task
<1>19. ASSUME NEW w \in Workers, ExecuteClone(w) PROVE Types'
  <2>1. [NoVM EXCEPT !.power = "off",
                     !.customize = NeedsCustomization(req[w])] \in VM
    BY <1>2, <1>3, RequestTypes DEF VM
  <2> QED  BY <2>1, <1>18, <1>19 DEF ExecuteClone
<1>20. ASSUME NEW w \in Workers, ExecuteAddDisk(w) PROVE Types'
  <2> DEFINE d == Append(vms[w].disks, task[w].size)
  <2>1. d \in Seq(Int)
    <3>1. vms[w].disks \in Seq(Int) /\ task[w].size \in Int
      BY <1>3 DEF VM, Task
    <3> QED  BY <3>1
  <2> HIDE DEF d
  <2>2. [vms[w] EXCEPT !.disks = d] \in VM
    BY <2>1, <1>3 DEF VM
  <2> QED  BY <2>2, <1>18, <1>20 DEF OwnTask, d
<1>21. ASSUME NEW w \in Workers, ExecuteReconfigure(w) PROVE Types'
  <2>1. [vms[w] EXCEPT !.resources = task[w].resources] \in VM
    <3>1. vms[w] \in VM /\ task[w].resources \in [cpus : Int, memoryMB : Int]
      BY <1>3 DEF Task
    <3> HIDE DEF Types, TypeOK
    <3> QED  BY <3>1 DEF VM
  <2> QED  BY <2>1, <1>18, <1>21 DEF OwnTask
<1>22. ASSUME NEW w \in Workers, ExecutePowerOn(w) PROVE Types'
  <2>1. [vms[w] EXCEPT !.power = "on"] \in VM
    BY <1>3 DEF VM
  <2> QED  BY <2>1, <1>18, <1>22 DEF OwnTask
<1>23. ASSUME NEW w \in Workers, ExecuteFails(w) PROVE Types'
  BY <1>3, <1>23 DEF ExecuteFails, Task
<1>24. ASSUME NEW w \in Workers, GuestApplies(w) PROVE Types'
  <2>1. PICK s \in Settings(req[w]) :
          vms' = [vms EXCEPT ![w].applied = @ \cup {s}]
    BY <1>24 DEF GuestApplies
  <2>2. s \in {"hostname", "domain", "nic"} \X Nat
    BY <2>1, <1>3, SettingsType
  <2> DEFINE a == vms[w].applied \cup {s}
  <2>3. a \in SUBSET ({"hostname", "domain", "nic"} \X Nat)
    <3>1. vms[w].applied \in SUBSET ({"hostname", "domain", "nic"} \X Nat)
      BY <1>3 DEF VM
    <3> QED  BY <3>1, <2>2
  <2> HIDE DEF a
  <2>4. [vms[w] EXCEPT !.applied = a] \in VM
    BY <2>3, <1>3 DEF VM
  <2>5. vms' \in [Workers -> VM]
    BY <2>1, <2>4 DEF a
  <2> QED  BY <2>5, <1>24 DEF GuestApplies
<1>25. ASSUME NEW w \in Workers, GuestTools(w) PROVE Types'
  <2>1. [vms[w] EXCEPT !.tools = ~@] \in VM
    <3>1. vms[w] \in VM
      BY <1>3
    <3> HIDE DEF Types, TypeOK
    <3> QED  BY <3>1 DEF VM
  <2>2. vms' \in [Workers -> VM]
    BY <2>1, <1>25 DEF GuestTools
  <2> QED  BY <2>2, <1>25 DEF GuestTools
<1>26. CASE UNCHANGED vars
  BY <1>26 DEF vars
<1> HIDE DEF Types, TypeOK
<1> QED
  BY <1>4, <1>5, <1>6, <1>8, <1>9, <1>10, <1>11, <1>12, <1>13, <1>14, <1>15,
     <1>16, <1>17, <1>19, <1>20, <1>21, <1>22, <1>23, <1>24, <1>25, <1>26,
     <1>27
     DEF Next, Call, Server, Guest

LEMMA BareIsBare ==
  /\ \A r : /\ Bare(r).power = "off" /\ Bare(r).disks = <<>>
            /\ Bare(r).resources = TemplateResources /\ Bare(r).applied = {}
  /\ NoVM.power = "none" /\ NoVM.disks = <<>>
  /\ NoVM.resources = TemplateResources /\ NoVM.applied = {}
BY DEF Bare, NoVM

-----------------------------------------------------------------------------
(* The invariant is inductive.                                             *)

\* A step of call w, its task or its guest leaves the other calls alone.
Local(w) ==
  /\ req' = req
  /\ \A v \in Workers \ {w} :
       /\ pc'[v] = pc[v] /\ next'[v] = next[v] /\ handle'[v] = handle[v]
       /\ task'[v] = task[v] /\ outcome'[v] = outcome[v] /\ vms'[v] = vms[v]

LEMMA LocalSuffices ==
  ASSUME IInv, Types', NEW w \in Workers, Local(w), At(w)'
  PROVE  IInv'
<1>1. \A v \in Workers : At(v)'
  <2>1. \A v \in Workers : At(v)
    BY DEF IInv, At
  <2>2. ASSUME NEW v \in Workers \ {w} PROVE At(v)'
    BY <2>1, <2>2 DEF At, Local
  <2> QED  BY <2>2
<1>2. \A v \in Workers : pc'[v] = "disks" => next'[v] <= Len(Disks(req'[v]))
  BY <1>1 DEF At, CallInv, Control, Ready, InFlight
<1> QED  BY <1>1, <1>2 DEF IInv, TypeOK, At

LEMMA FailStep ==
  ASSUME IInv, NEW w \in Workers, pc[w] # "done", Fail(w), Types',
         UNCHANGED <<req, next, handle, task, waited, vms>>
  PROVE  IInv'
<1>1. At(w)
  BY DEF IInv, At
<1>2. Local(w)
  BY DEF Fail, Local, IInv, TypeOK, Types
<1>3. /\ pc'[w] = "done"
      /\ outcome'[w] = (IF handle[w] = Nobody THEN "nilErr" ELSE "vmErr")
  BY DEF Fail, IInv, TypeOK, Types
<1>4. handle[w] \in {Nobody, w}
  BY <1>1 DEF At
<1>5. At(w)'
  BY <1>1, <1>3, <1>4 DEF At, CallInv, Control, Built, Ready, InFlight, Finished
<1> QED  BY <1>2, <1>5, LocalSuffices

\* Moving on to a step of which the machine has what it needs.
LEMMA GotoStep ==
  ASSUME IInv, NEW w \in Workers, pc[w] # "done", NEW p \in Steps \ {"done"},
         Goto(w, p), Types', Local(w),
         handle'[w] \in {Nobody, w},
         CallInv(req[w], p, next'[w], handle'[w], task'[w],
                 outcome[w], vms'[w])
  PROVE  IInv'
<1>1. pc'[w] = p /\ outcome'[w] = outcome[w] /\ req'[w] = req[w]
  BY DEF Goto, IInv, TypeOK, Types, Local
<1>2. At(w)'
  BY <1>1 DEF At
<1> QED  BY <1>2, LocalSuffices

LEMMA SubmitStep ==
  ASSUME IInv, NEW w \in Workers, NEW op \in Ops, NEW size, NEW res,
         Submit(w, op, size, res), Types',
         LET t == [op |-> op, state |-> "running",
                   size |-> size, resources |-> res]
         IN  /\ InFlight(req[w], next[w], t, vms[w])
             /\ \/ pc[w] = "clone" /\ op = "clone"
                \/ pc[w] = "disks" /\ op = "disk"
                \/ pc[w] = "resources" /\ op = "resources"
                \/ pc[w] = "power" /\ op = "power"
  PROVE  IInv'
<1> DEFINE t == [op |-> op, state |-> "running", size |-> size, resources |-> res]
<1>1. At(w)
  BY DEF IInv, At
<1>2. Types
  BY DEF IInv, TypeOK
<1>3. /\ task'[w] = t /\ task[w].state = "none"
      /\ UNCHANGED <<req, next, handle, waited, vms>>
  BY <1>2 DEF Submit, Types
<1>4. t.op = op /\ t.state = "running"
  OBVIOUS
<1> HIDE DEF t
<1>5. Local(w)
  BY <1>2 DEF Submit, Fail, Local, Types
<1>6. CASE UNCHANGED <<pc, outcome>>
  <2>1. At(w)'
    BY <1>1, <1>3, <1>4, <1>6
       DEF At, CallInv, Control, Built, Finished, t
  <2> QED  BY <2>1, <1>5, LocalSuffices
<1>7. CASE Fail(w)
  <2>1. /\ pc'[w] = "done"
        /\ outcome'[w] = IF handle[w] = Nobody THEN "nilErr" ELSE "vmErr"
    BY <1>2, <1>7 DEF Fail, Types
  <2>2. handle[w] \in {Nobody, w}
    BY <1>1 DEF At
  <2>3. At(w)'
    BY <1>1, <1>3, <1>4, <2>1, <2>2
       DEF At, CallInv, Control, Built, Finished, t
  <2> QED  BY <2>3, <1>5, LocalSuffices
<1> QED  BY <1>6, <1>7 DEF Submit

\* One lemma per kind of step.
LEMMA CallStep ==
  ASSUME IInv, Types', NEW w \in Workers, Call(w)
  PROVE  IInv'
<1>1. At(w)
  BY DEF IInv, At
<1>2. Types
  BY DEF IInv, TypeOK
<1>3. /\ req[w] \in Requests /\ next[w] \in Nat \ {0} /\ handle[w] \in {Nobody, w}
      /\ task[w] \in Task /\ vms[w] \in VM /\ w # Nobody
  BY <1>1, <1>2, NobodyAssumption DEF Types, At
<1>4. Disks(req[w]) \in Seq(Int) /\ vms[w].disks \in Seq(Int)
  BY <1>3, RequestTypes DEF VM
<1>5. CASE Begin(w)
  <2>1. CASE Validate(req[w])
    <3>1. CallInv(req[w], "find", next'[w], handle'[w], task'[w],
                  outcome[w], vms'[w])
      BY <1>1, <1>5 DEF Begin, At, CallInv, Control, Built, Ready, Finished
    <3>2. /\ Goto(w, "find") /\ pc[w] # "done" /\ Local(w)
          /\ handle'[w] \in {Nobody, w}
      BY <1>2, <1>3, <1>5, <2>1 DEF Begin, Goto, Local, Types
    <3> QED  BY <3>1, <3>2, GotoStep DEF Steps
  <2>2. CASE ~Validate(req[w])
    BY <1>5, <2>2, FailStep DEF Begin
  <2> QED  BY <2>1, <2>2
<1>6. CASE Find(w)
  <2>1. PICK p \in {"recommend", "clone"} : Goto(w, p)
    BY <1>6 DEF Find
  <2>2. CallInv(req[w], p, next'[w], handle'[w], task'[w],
                outcome[w], vms'[w])
    BY <1>1, <1>6 DEF Find, At, CallInv, Control, Built, Ready, Finished
  <2>3. pc[w] # "done" /\ Local(w) /\ handle'[w] \in {Nobody, w}
    BY <1>2, <1>3, <1>6, <2>1 DEF Find, Goto, Local, Types
  <2> QED  BY <2>1, <2>2, <2>3, GotoStep DEF Steps
<1>7. CASE Recommend(w)
  <2>1. CallInv(req[w], "clone", next'[w], handle'[w], task'[w],
                outcome[w], vms'[w])
    BY <1>1, <1>7 DEF Recommend, At, CallInv, Control, Built, Ready, Finished
  <2>2. /\ Goto(w, "clone") /\ pc[w] # "done" /\ Local(w)
        /\ handle'[w] \in {Nobody, w}
    BY <1>2, <1>3, <1>7 DEF Recommend, Goto, Local, Types
  <2> QED  BY <2>1, <2>2, GotoStep DEF Steps
<1>8. CASE StartClone(w)
  BY <1>8, SubmitStep DEF StartClone, InFlight, Ops
<1>9. CASE AddDisk(w)
  <2>1. Ready(req[w], pc[w], next[w], vms[w])
    BY <1>1, <1>9 DEF AddDisk, Submit, At, CallInv
  <2> QED  BY <1>9, <2>1, SubmitStep DEF AddDisk, InFlight, Ready, Ops
<1>10. CASE SetVMResources(w)
  <2>1. Ready(req[w], pc[w], next[w], vms[w])
    BY <1>1, <1>10 DEF SetVMResources, Submit, At, CallInv
  <2> QED  BY <1>10, <2>1, SubmitStep DEF SetVMResources, InFlight, Ready, Ops
<1>11. CASE PowerOnVM(w)
  <2>1. Ready(req[w], pc[w], next[w], vms[w])
    BY <1>1, <1>11 DEF PowerOnVM, Submit, At, CallInv
  <2> QED  BY <1>11, <2>1, SubmitStep DEF PowerOnVM, InFlight, Ready, Ops
<1>12. CASE StepFails(w)
  BY <1>12, FailStep DEF StepFails
<1>13. CASE WaitFails(w)
  BY <1>13, FailStep DEF WaitFails
<1>14. CASE TaskSucceeded(w)
  <2>1. /\ task'[w] = NoTask /\ NoTask.state = "none" /\ task[w].state = "success"
        /\ UNCHANGED <<req, waited, vms>>
    BY <1>2, <1>14 DEF TaskSucceeded, NoTask, Types
  <2>2. Local(w)
    BY <1>2, <1>14 DEF TaskSucceeded, Local, Types, Goto, Succeed
  <2>3. InFlight(req[w], next[w], task[w], vms[w])
    BY <1>1, <2>1 DEF At, CallInv
  <2>4. Control(pc[w], handle[w], task[w], outcome[w])
    BY <1>1 DEF At, CallInv
  <2>5. Built(req[w], next[w], handle[w], task[w], vms[w])
    BY <1>1 DEF At, CallInv
  <2>6. CASE pc[w] = "clone"
    <3> DEFINE p == StepAfterDisks(req[w], 1)
    <3>1. next'[w] = next[w] /\ handle'[w] = w /\ Goto(w, p)
      BY <1>2, <1>14, <2>6 DEF TaskSucceeded, Types
    <3>2. vms[w] = Bare(req[w]) /\ next[w] = 1
      BY <2>1, <2>4, <2>5, <2>6 DEF Control, Built
    <3>3. p \in {"disks", "resources", "power"}
      BY DEF StepAfterDisks
    <3>4. Ready(req[w], p, 1, vms[w])
      <4>1. /\ Bare(req[w]).disks = <<>> /\ Bare(req[w]).power = "off"
            /\ Bare(req[w]).resources = TemplateResources
        BY DEF Bare, NoVM
      <4>2. Len(Disks(req[w])) = 0 => Disks(req[w]) = <<>>
        BY <1>4
      <4> QED
        BY <3>2, <4>1, <4>2, <1>4 DEF Ready, StepAfterDisks, Complete
    <3>5. Built(req[w], 1, w, NoTask, vms[w])
      BY <1>3, <2>5, <3>2 DEF Built, Bare, NoVM
    <3> HIDE DEF p
    <3>6. CallInv(req[w], p, 1, w, NoTask, outcome[w], vms[w])
      BY <2>1, <2>4, <2>6, <3>3, <3>4, <3>5, <1>1, <1>3
         DEF CallInv, Control, Finished, At
    <3> QED
      BY <2>1, <2>2, <2>6, <3>1, <3>2, <3>3, <3>6, GotoStep DEF Steps
  <2>7. CASE pc[w] = "disks"
    <3> DEFINE n == next[w] + 1
               p == StepAfterDisks(req[w], n)
    <3>1. next'[w] = n /\ handle'[w] = handle[w] /\ Goto(w, p)
      BY <1>2, <1>14, <2>7 DEF TaskSucceeded, Types
    <3>2. /\ next[w] <= Len(Disks(req[w])) /\ Len(vms[w].disks) = next[w]
          /\ vms[w].resources = TemplateResources /\ vms[w].power = "off"
      BY <2>1, <2>3, <2>4, <2>7 DEF Control, InFlight
    <3>3. p \in {"disks", "resources", "power"}
      BY DEF StepAfterDisks
    <3>4. IsPrefix(vms[w].disks, Disks(req[w]))
      BY <2>5 DEF Built
    <3>5. n > Len(Disks(req[w])) => vms[w].disks = Disks(req[w])
      BY <3>2, <3>4, <1>3, <1>4, PrefixFull
    <3>6. Ready(req[w], p, n, vms[w])
      BY <3>2, <3>5, <1>3, <1>4 DEF Ready, StepAfterDisks, Complete
    <3>7. handle[w] = w
      BY <2>4, <2>7, <1>3 DEF Control
    <3>8. Built(req[w], n, w, NoTask, vms[w])
      BY <1>3, <2>5, <3>7 DEF Built
    <3> HIDE DEF p, n
    <3>9. CallInv(req[w], p, n, w, NoTask, outcome[w], vms[w])
      BY <2>1, <2>4, <2>7, <3>3, <3>6, <3>8, <1>1, <1>3
         DEF CallInv, Control, Finished, At
    <3> QED
      BY <2>1, <2>2, <2>7, <3>1, <3>3, <3>7, <3>9, GotoStep DEF Steps
  <2>8. CASE pc[w] = "resources"
    <3>1. next'[w] = next[w] /\ handle'[w] = handle[w] /\ Goto(w, "power")
      BY <1>2, <1>14, <2>8 DEF TaskSucceeded, Types
    <3>2. Ready(req[w], "power", next[w], vms[w])
      BY <2>1, <2>3, <2>4, <2>8 DEF Control, InFlight, Ready, Complete
    <3>3. CallInv(req[w], "power", next[w], handle[w], NoTask,
                  outcome[w], vms[w])
      BY <2>1, <2>4, <2>5, <2>8, <3>2, <1>1
         DEF CallInv, Control, Built, Finished, At
    <3> QED  BY <1>3, <2>1, <2>2, <2>8, <3>1, <3>3, GotoStep DEF Steps
  <2>9. CASE pc[w] = "power"
    <3>1. next'[w] = next[w] /\ handle'[w] = handle[w]
      BY <1>2, <1>14, <2>9 DEF TaskSucceeded, Types
    <3>2. vms[w].power = "on" /\ Complete(req[w], vms[w])
      BY <2>1, <2>3, <2>4, <2>9 DEF Control, InFlight
    <3>3. CASE NeedsCustomization(req[w])
      <4>1. Goto(w, "customization")
        BY <1>14, <2>9, <3>3 DEF TaskSucceeded
      <4>2. CallInv(req[w], "customization", next[w], handle[w], NoTask,
                    outcome[w], vms[w])
        BY <2>1, <2>4, <2>5, <2>9, <3>2, <1>1
           DEF CallInv, Control, Built, Ready, Finished, At
      <4> QED
        BY <1>3, <2>1, <2>2, <2>9, <3>1, <4>1, <4>2, GotoStep DEF Steps
    <3>4. CASE ~NeedsCustomization(req[w])
      <4>1. pc'[w] = "done" /\ outcome'[w] = "ok"
        BY <1>2, <1>14, <2>9, <3>4 DEF TaskSucceeded, Succeed, Types
      <4>2. At(w)'
        BY <2>1, <2>4, <2>5, <2>9, <3>1, <3>2, <4>1, <1>1
           DEF CallInv, Control, Built, Ready, Finished, At
      <4> QED  BY <2>2, <4>2, LocalSuffices
    <3> QED  BY <3>3, <3>4
  <2> QED  BY <2>6, <2>7, <2>8, <2>9, <1>14 DEF TaskSucceeded
<1>15. CASE CustomizationSeen(w)
  <2>1. /\ pc'[w] = "done" /\ outcome'[w] = "ok"
        /\ UNCHANGED <<req, next, handle, task, vms>> /\ Local(w)
    BY <1>2, <1>15 DEF CustomizationSeen, Succeed, Types, Local
  <2>2. At(w)'
    BY <1>1, <1>15, <2>1
       DEF CustomizationSeen, At, CallInv, Control, Built, Ready, Finished
  <2> QED  BY <2>1, <2>2, LocalSuffices
<1>16. CASE CustomizationGivenUp(w)
  <2>1. /\ pc'[w] = "done" /\ outcome'[w] = "ok"
        /\ UNCHANGED <<req, next, handle, task, vms>> /\ Local(w)
    BY <1>2, <1>16 DEF CustomizationGivenUp, Succeed, Types, Local
  <2>2. At(w)'
    BY <1>1, <1>16, <2>1
       DEF CustomizationGivenUp, At, CallInv, Control, Built, Ready, Finished
  <2> QED  BY <2>1, <2>2, LocalSuffices
<1>17. CASE PollGuest(w) \/ PollEnds(w)
  <2>1. PICK p \in {"customization", "poll"} :
          /\ Goto(w, p) /\ pc[w] \in {"customization", "poll"}
          /\ UNCHANGED <<req, next, handle, task, vms>>
    BY <1>17 DEF PollGuest, PollEnds
  <2>2. Local(w)
    BY <1>2, <2>1 DEF Goto, Types, Local
  <2>3. CallInv(req[w], p, next'[w], handle'[w], task'[w], outcome[w], vms'[w])
    BY <1>1, <2>1 DEF At, CallInv, Control, Built, Ready, Finished
  <2> QED  BY <1>3, <2>1, <2>2, <2>3, GotoStep DEF Steps
<1> QED
  BY <1>5, <1>6, <1>7, <1>8, <1>9, <1>10, <1>11, <1>12, <1>13, <1>14, <1>15,
     <1>16, <1>17 DEF Call

\* A task that ends changes the machine and its own state only.
LEMMA ExecuteStep ==
  ASSUME IInv, Types', NEW w \in Workers, NEW op, NEW vm, Execute(w, op, w, vm),
         LET t == [task[w] EXCEPT !.state = "success"]
         IN  /\ Built(req[w], next[w], handle[w], t, vm)
             /\ InFlight(req[w], next[w], t, vm)
             /\ vms[w].power # "on"
  PROVE  IInv'
<1> DEFINE t == [task[w] EXCEPT !.state = "success"]
<1>1. At(w)
  BY DEF IInv, At
<1>2. Types
  BY DEF IInv, TypeOK
<1>3. /\ task'[w] = t /\ vms'[w] = vm /\ Local(w)
      /\ UNCHANGED <<req, pc, next, handle, waited, outcome>>
  BY <1>2 DEF Execute, Types, Local
<1>4. task[w].state = "running" /\ t.state = "success" /\ t.op = task[w].op
  BY <1>2 DEF Execute, Types, Task
<1> HIDE DEF t
<1>5. Finished(req[w], pc[w], outcome[w], vm)
  BY <1>1, <1>4 DEF At, CallInv, Control, Finished
<1>6. At(w)'
  BY <1>1, <1>3, <1>4, <1>5 DEF At, CallInv, Control, t
<1> QED  BY <1>3, <1>6, LocalSuffices

LEMMA ServerStep ==
  ASSUME IInv, Types', NEW w \in Workers, Server(w)
  PROVE  IInv'
<1> DEFINE t == [task[w] EXCEPT !.state = "success"]
<1>1. /\ handle[w] \in {Nobody, w}
      /\ CallInv(req[w], pc[w], next[w], handle[w], task[w], outcome[w], vms[w])
  BY DEF IInv, At
<1>2. Types
  BY DEF IInv, TypeOK
<1>3. /\ req[w] \in Requests /\ next[w] \in Nat \ {0} /\ handle[w] \in {Nobody, w}
      /\ task[w] \in Task /\ vms[w] \in VM
  BY <1>1, <1>2 DEF Types
<1>4. Disks(req[w]) \in Seq(Int) /\ vms[w].disks \in Seq(Int)
  BY <1>3, RequestTypes DEF VM
<1>5. /\ t.op = task[w].op /\ t.size = task[w].size
      /\ t.resources = task[w].resources /\ t.state = "success"
  BY <1>3 DEF Task
<1> HIDE DEF t
<1>6. task[w].state = "running"
  BY DEF Server, ExecuteClone, ExecuteAddDisk, ExecuteReconfigure,
         ExecutePowerOn, ExecuteFails, Execute
<1>7. /\ InFlight(req[w], next[w], task[w], vms[w])
      /\ Built(req[w], next[w], handle[w], task[w], vms[w])
      /\ Control(pc[w], handle[w], task[w], outcome[w])
  BY <1>1, <1>6 DEF At, CallInv
<1>8. CASE ExecuteClone(w)
  <2>1. task[w].op = "clone" /\ handle[w] = Nobody
    BY <1>3, <1>6, <1>7, <1>8 DEF ExecuteClone, Execute, Control
  <2>2. Execute(w, "clone", w, Bare(req[w]))
    BY <1>8 DEF ExecuteClone, Bare
  <2>3. /\ Bare(req[w]).disks = <<>> /\ Bare(req[w]).applied = {}
        /\ Bare(req[w]).power = "off"
        /\ Bare(req[w]).resources = TemplateResources
    BY DEF Bare, NoVM
  <2>4. Built(req[w], next[w], handle[w], t, Bare(req[w]))
    BY <1>4, <1>5, <1>7, <2>1, <2>3, PrefixEmpty DEF Built
  <2>5. InFlight(req[w], next[w], t, Bare(req[w]))
    BY <1>5, <2>1 DEF InFlight
  <2>6. vms[w].power # "on"
    BY <1>6, <1>7, <2>1 DEF Built, NoVM
  <2> QED  BY <2>2, <2>4, <2>5, <2>6, ExecuteStep DEF t
<1>9. CASE ExecuteAddDisk(w)
  <2> DEFINE vm == [vms[w] EXCEPT !.disks = Append(@, task[w].size)]
  <2>1. task[w].op = "disk" /\ handle[w] # Nobody
    BY <1>3, <1>6, <1>7, <1>9 DEF ExecuteAddDisk, Execute, Control
  <2>2. Execute(w, "disk", w, vm)
    BY <1>9, OwnTasks DEF OwnTask
  <2>3. /\ vm.disks = Append(vms[w].disks, task[w].size)
        /\ vm.resources = vms[w].resources /\ vm.power = vms[w].power
        /\ vm.customize = vms[w].customize /\ vm.applied = vms[w].applied
    BY <1>3 DEF VM
  <2> HIDE DEF vm
  <2>4. /\ Len(vms[w].disks) + 1 = next[w] /\ next[w] <= Len(Disks(req[w]))
        /\ task[w].size = Disks(req[w])[next[w]]
        /\ vms[w].resources = TemplateResources /\ vms[w].power = "off"
    BY <1>3, <1>4, <1>6, <1>7, <2>1 DEF InFlight
  <2>5. IsPrefix(vm.disks, Disks(req[w])) /\ Len(vm.disks) = next[w]
    <3>1. IsPrefix(vms[w].disks, Disks(req[w]))
      BY <1>7 DEF Built
    <3>2. task[w].size \in Int /\ Len(vms[w].disks) < Len(Disks(req[w]))
      BY <1>3, <1>4, <2>4 DEF Task
    <3>3. vm.disks = Append(vms[w].disks,
                            Disks(req[w])[Len(vms[w].disks) + 1])
      BY <2>3, <2>4
    <3>4. IsPrefix(vm.disks, Disks(req[w]))
      BY <1>4, <3>1, <3>2, <3>3, PrefixGrows
    <3>5. Len(vm.disks) = Len(vms[w].disks) + 1
      BY <1>4, <2>3, <3>2
    <3> QED  BY <2>4, <3>4, <3>5
  <2>6. Built(req[w], next[w], handle[w], t, vm)
    BY <1>7, <2>1, <2>3, <2>4, <2>5 DEF Built
  <2>7. InFlight(req[w], next[w], t, vm)
    BY <1>5, <2>1, <2>3, <2>4, <2>5 DEF InFlight
  <2> QED  BY <2>2, <2>4, <2>6, <2>7, ExecuteStep DEF t
<1>10. CASE ExecuteReconfigure(w)
  <2> DEFINE vm == [vms[w] EXCEPT !.resources = task[w].resources]
  <2>1. task[w].op = "resources" /\ handle[w] # Nobody
    BY <1>3, <1>6, <1>7, <1>10 DEF ExecuteReconfigure, Execute, Control
  <2>2. Execute(w, "resources", w, vm)
    BY <1>10, OwnTasks DEF OwnTask
  <2>3. /\ vm.disks = vms[w].disks /\ vm.resources = task[w].resources
        /\ vm.power = vms[w].power /\ vm.customize = vms[w].customize
        /\ vm.applied = vms[w].applied
    BY <1>3 DEF VM
  <2> HIDE DEF vm
  <2>4. /\ NeedsResources(req[w]) /\ task[w].resources = Resources(req[w])
        /\ vms[w].disks = Disks(req[w]) /\ vms[w].power = "off"
    BY <1>6, <1>7, <2>1 DEF InFlight
  <2>5. Built(req[w], next[w], handle[w], t, vm)
    BY <1>7, <2>1, <2>3, <2>4 DEF Built, Complete
  <2>6. InFlight(req[w], next[w], t, vm)
    BY <1>5, <2>1, <2>3, <2>4 DEF InFlight
  <2> QED  BY <2>2, <2>4, <2>5, <2>6, ExecuteStep DEF t
<1>11. CASE ExecutePowerOn(w)
  <2> DEFINE vm == [vms[w] EXCEPT !.power = "on"]
  <2>1. task[w].op = "power" /\ handle[w] # Nobody
    BY <1>3, <1>6, <1>7, <1>11 DEF ExecutePowerOn, Execute, Control
  <2>2. Execute(w, "power", w, vm)
    BY <1>11, OwnTasks DEF OwnTask
  <2>3. /\ vm.disks = vms[w].disks /\ vm.resources = vms[w].resources
        /\ vm.power = "on" /\ vm.customize = vms[w].customize
    BY <1>3 DEF VM
  <2> HIDE DEF vm
  <2>4. Complete(req[w], vms[w])
    BY <1>7, <2>1 DEF InFlight
  <2>5. Built(req[w], next[w], handle[w], t, vm)
    BY <1>7, <2>1, <2>3, <2>4 DEF Built, Complete
  <2>6. InFlight(req[w], next[w], t, vm)
    BY <1>5, <2>1, <2>3, <2>4 DEF InFlight, Complete
  <2> QED  BY <1>11, <2>2, <2>5, <2>6, ExecuteStep, OwnTasks DEF t, OwnTask
<1>12. CASE ExecuteFails(w)
  <2> DEFINE f == [task[w] EXCEPT !.state = "error"]
  <2>1. /\ task'[w] = f /\ Local(w)
        /\ UNCHANGED <<req, pc, next, handle, waited, outcome, vms>>
    BY <1>2, <1>12 DEF ExecuteFails, Types, Local
  <2>2. /\ f.op = task[w].op /\ f.size = task[w].size
        /\ f.resources = task[w].resources /\ f.state = "error"
    BY <1>3 DEF Task
  <2> HIDE DEF f
  <2>3. At(w)'
    BY <1>1, <1>6, <1>7, <2>1, <2>2
       DEF At, CallInv, Control, Built, InFlight
  <2> QED  BY <2>1, <2>3, LocalSuffices
<1> QED  BY <1>8, <1>9, <1>10, <1>11, <1>12 DEF Server

LEMMA GuestStep ==
  ASSUME IInv, Types', NEW w \in Workers, Guest(w)
  PROVE  IInv'
<1>1. /\ handle[w] \in {Nobody, w}
      /\ CallInv(req[w], pc[w], next[w], handle[w], task[w], outcome[w], vms[w])
  BY DEF IInv, At
<1>2. Types /\ vms[w] \in VM
  BY DEF IInv, TypeOK, Types
<1>3. ASSUME NEW vm \in VM, vms' = [vms EXCEPT ![w] = vm], vms[w].power = "on",
             vm.power = "on", vm.disks = vms[w].disks,
             vm.resources = vms[w].resources, vm.customize = vms[w].customize,
             vms[w].applied \subseteq vm.applied,
             UNCHANGED <<req, pc, next, handle, ctx, task, waited, outcome>>
      PROVE  IInv'
  <2>1. vms'[w] = vm /\ Local(w)
    BY <1>2, <1>3 DEF Types, Local
  <2>2. Control(pc[w], handle[w], task[w], outcome[w])
    BY <1>1 DEF At, CallInv
  <2>3. handle[w] = w
    <3>1. handle[w] # Nobody
      BY <1>1, <1>3, BareIsBare DEF CallInv, Built
    <3> QED  BY <1>1, <3>1
  <2>4. Built(req[w], next[w], handle[w], task[w], vm)
    BY <1>1, <1>3, <2>3, NobodyAssumption DEF At, CallInv, Built, Complete
  <2>5. task[w].state = "none" => Ready(req[w], pc[w], next[w], vm)
    BY <1>1, <1>3 DEF At, CallInv, Ready, Complete
  <2>6. task[w].state # "none" => InFlight(req[w], next[w], task[w], vm)
    BY <1>1, <1>3 DEF At, CallInv, InFlight, Complete
  <2>7. Finished(req[w], pc[w], outcome[w], vm)
    BY <1>1, <1>3 DEF At, CallInv, Finished, Complete
  <2>8. At(w)'
    BY <1>1, <1>3, <2>1, <2>2, <2>4, <2>5, <2>6, <2>7 DEF At, CallInv
  <2> QED  BY <2>1, <2>8, LocalSuffices
<1>4. CASE GuestApplies(w)
  <2>1. PICK s \in Settings(req[w]) :
          vms' = [vms EXCEPT ![w].applied = @ \cup {s}]
    BY <1>4 DEF GuestApplies
  <2> DEFINE vm == [vms[w] EXCEPT !.applied = @ \cup {s}]
  <2>2. vms' = [vms EXCEPT ![w] = vm] /\ vms'[w] = vm
    BY <1>2, <2>1 DEF Types
  <2>3. vm \in VM
    BY <2>2 DEF Types
  <2>4. /\ vm.power = vms[w].power /\ vm.disks = vms[w].disks
        /\ vm.resources = vms[w].resources /\ vm.customize = vms[w].customize
        /\ vms[w].applied \subseteq vm.applied
    BY <1>2 DEF VM
  <2> HIDE DEF vm
  <2> QED  BY <1>3, <1>4, <2>2, <2>3, <2>4 DEF GuestApplies
<1>5. CASE GuestTools(w)
  <2> DEFINE vm == [vms[w] EXCEPT !.tools = ~@]
  <2>1. vms' = [vms EXCEPT ![w] = vm] /\ vms'[w] = vm
    BY <1>2, <1>5 DEF Types, GuestTools
  <2>2. vm \in VM
    BY <2>1 DEF Types
  <2>3. /\ vm.power = vms[w].power /\ vm.disks = vms[w].disks
        /\ vm.resources = vms[w].resources /\ vm.customize = vms[w].customize
        /\ vms[w].applied \subseteq vm.applied
    BY <1>2 DEF VM
  <2> HIDE DEF vm
  <2> QED  BY <1>3, <1>5, <2>1, <2>2, <2>3 DEF GuestTools
<1> QED  BY <1>4, <1>5 DEF Guest

LEMMA InitInv == Init => IInv
<1> SUFFICES ASSUME Init PROVE IInv
  OBVIOUS
<1>1. NoTask \in Task /\ NoVM \in VM
  BY DEF NoTask, NoVM, Task, VM, Ops, TemplateResources
<1>2. TypeOK
  BY <1>1 DEF Init, TypeOK, Types, Steps
<1>3. ASSUME NEW w \in Workers PROVE At(w)
  <2>1. /\ pc[w] = "idle" /\ next[w] = 1 /\ handle[w] = Nobody
        /\ task[w] = NoTask /\ outcome[w] = "pending"
        /\ vms[w] = NoVM
    BY DEF Init
  <2>2. /\ NoTask.state = "none" /\ NoVM.power = "none" /\ NoVM.applied = {}
        /\ NoVM.disks = <<>> /\ NoVM.resources = TemplateResources
    BY DEF NoTask, NoVM
  <2>3. IsPrefix(NoVM.disks, Disks(req[w]))
    BY <1>2, <2>2, PrefixEmpty, RequestTypes DEF TypeOK, Types
  <2> QED
    BY <2>1, <2>2, <2>3
       DEF At, CallInv, Control, Built, Ready, Finished
<1> QED  BY <1>2, <1>3 DEF IInv, At

LEMMA NextInv == IInv /\ [Next]_vars => IInv'
<1> SUFFICES ASSUME IInv, [Next]_vars PROVE IInv'
  OBVIOUS
<1>1. Types'
  BY TypesStep DEF IInv
<1>2. ASSUME NEW w \in Workers, Call(w) PROVE IInv'
  BY <1>1, <1>2, CallStep
<1>3. ASSUME NEW w \in Workers, Server(w) PROVE IInv'
  BY <1>1, <1>3, ServerStep
<1>4. ASSUME NEW w \in Workers, Guest(w) PROVE IInv'
  BY <1>1, <1>4, GuestStep
<1>5. ASSUME NEW w \in Workers, Cancel(w) \/ Expire(w) PROVE IInv'
  BY <1>1, <1>5 DEF Cancel, Expire, IInv, TypeOK, At
<1>6. CASE UNCHANGED vars
  BY <1>1, <1>6 DEF vars, IInv, TypeOK, At
<1> QED  BY <1>2, <1>3, <1>4, <1>5, <1>6 DEF Next

\* The inductive invariant holds in every reachable state.
THEOREM Inductive == Spec => []IInv
BY InitInv, NextInv, PTL DEF Spec

-----------------------------------------------------------------------------
(* What the runs check, for every number of calls and every request.       *)

\* Every variable keeps its type, and no call indexes past its last disk.
THEOREM TypeCorrect == Spec => []TypeOK
<1>1. IInv => TypeOK
  BY DEF IInv
<1> QED  BY <1>1, Inductive, PTL

\* No machine of CloneFromRequest is ever switched on, or changed once it is
\* on, without every disk and the resources its request asks for.
THEOREM FirstBootIsComplete == Spec => []BootsOnlyComplete
<1>1. IInv => BootsOnlyComplete
  BY DEF IInv, BootsOnlyComplete, At, CallInv, Built
<1> QED  BY <1>1, Inductive, PTL

\* Partial failure leaves a prefix of the requested disks, in order.
THEOREM PartialHardwareIsAPrefix == Spec => []HardwareFollowsRequest
<1>1. IInv => HardwareFollowsRequest
  BY DEF IInv, HardwareFollowsRequest, At, CallInv, Built
<1> QED  BY <1>1, Inductive, PTL

\* A nil error is returned only for a machine that is deployed as requested.
THEOREM SuccessIsDeployed == Spec => []SuccessMeansDeployed
<1>1. IInv => SuccessMeansDeployed
  BY DEF IInv, SuccessMeansDeployed, At, CallInv, Control, Built, Finished,
         TypeOK, Types
<1> QED  BY <1>1, Inductive, PTL

\* A machine whose call returned (nil, err) is at most a bare copy.
THEOREM OrphansAreBare == Spec => []OrphanStaysBare
<1>1. IInv => OrphanStaysBare
  <2> SUFFICES ASSUME IInv, NEW w \in Workers, outcome[w] = "nilErr"
               PROVE  /\ vms[w].power # "on" /\ vms[w].disks = <<>>
                      /\ vms[w].resources = TemplateResources
                      /\ vms[w].applied = {}
    BY DEF OrphanStaysBare
  <2>1. handle[w] = Nobody
    BY DEF IInv, At, CallInv, Control
  <2>2. vms[w] = NoVM \/ vms[w] = Bare(req[w])
    BY <2>1 DEF IInv, At, CallInv, Built
  <2> QED  BY <2>2, BareIsBare
<1> QED  BY <1>1, Inductive, PTL

-----------------------------------------------------------------------------
(* Action properties.                                                      *)

\* What one step does to the task, the hardware and the result of a call.
LEMMA StepEffects ==
  ASSUME IInv, [Next]_vars, NEW w \in Workers
  PROVE  \/ UNCHANGED <<task[w], vms[w], outcome[w]>>
         \/ /\ UNCHANGED <<task[w], outcome[w]>>
            /\ vms[w].power = "on" /\ vms'[w].power = "on"
            /\ vms'[w].disks = vms[w].disks
            /\ vms'[w].resources = vms[w].resources
         \/ outcome[w] = "pending" /\ UNCHANGED vms[w]
         \/ /\ task[w].state = "running" /\ task'[w].state # "running"
            /\ UNCHANGED <<outcome[w], handle[w], req[w]>>
<1>1. Types /\ At(w)
  BY DEF IInv, TypeOK, At
<1>2. CASE UNCHANGED vars
  BY <1>2 DEF vars
<1>3. ASSUME NEW v \in Workers, Call(v) PROVE UNCHANGED vms[w]
  BY <1>3 DEF Call, Begin, Find, Recommend, StartClone, AddDisk, SetVMResources,
       PowerOnVM, Submit, StepFails, TaskSucceeded, WaitFails,
       PollGuest, CustomizationSeen,
       PollEnds, CustomizationGivenUp
<1>4. ASSUME NEW v \in Workers, Call(v), v # w
      PROVE  UNCHANGED <<task[w], outcome[w]>>
  BY <1>1, <1>4
     DEF Call, Begin, Find, Recommend, StartClone, AddDisk, SetVMResources,
       PowerOnVM, Submit, StepFails, TaskSucceeded, WaitFails, Types, Goto, Fail,
       Succeed, PollGuest, CustomizationSeen,
       PollEnds, CustomizationGivenUp
<1>5. ASSUME Call(w) PROVE outcome[w] = "pending"
  <2>1. pc[w] # "done"
    BY <1>5
       DEF Call, Begin, Find, Recommend, StartClone, AddDisk, SetVMResources,
         PowerOnVM, StepFails, TaskSucceeded, WaitFails, PollGuest,
         CustomizationSeen, PollEnds, CustomizationGivenUp
  <2> QED  BY <2>1, <1>1 DEF At, CallInv, Control
<1>6. ASSUME NEW v \in Workers, Cancel(v) \/ Expire(v)
      PROVE  UNCHANGED <<task[w], vms[w], outcome[w]>>
  BY <1>6 DEF Cancel, Expire
<1>7. ASSUME NEW v \in Workers, Server(v), v # w
      PROVE  UNCHANGED <<task[w], vms[w], outcome[w]>>
  <2>1. ExecuteFails(v) \/ \E op, vm : Execute(v, op, v, vm)
    BY <1>7, OwnTasks DEF Server, ExecuteClone, OwnTask
  <2> QED  BY <1>1, <1>7, <2>1 DEF Execute, ExecuteFails, Types
<1>8. ASSUME Server(w)
      PROVE  /\ task[w].state = "running" /\ task'[w].state # "running"
             /\ UNCHANGED <<outcome[w], handle[w], req[w]>>
  <2>1. \A e \in {"success", "error"} :
          task' = [task EXCEPT ![w].state = e] => task'[w].state = e
    BY <1>1 DEF Types, Task
  <2> QED
    BY <1>8, <2>1 DEF Server, Execute, ExecuteClone, ExecuteAddDisk,
         ExecuteReconfigure, ExecutePowerOn, ExecuteFails
<1>9. ASSUME NEW v \in Workers, Guest(v), v # w
      PROVE  UNCHANGED <<task[w], vms[w], outcome[w]>>
  BY <1>1, <1>9 DEF Guest, GuestApplies, GuestTools, Types
<1>10. ASSUME Guest(w)
       PROVE  /\ UNCHANGED <<task[w], outcome[w]>>
              /\ vms[w].power = "on" /\ vms'[w].power = "on"
              /\ vms'[w].disks = vms[w].disks
              /\ vms'[w].resources = vms[w].resources
  BY <1>1, <1>10 DEF Guest, GuestApplies, GuestTools, Types, VM
<1> QED
  BY <1>2, <1>3, <1>4, <1>5, <1>6, <1>7, <1>8, <1>9, <1>10 DEF Next

\* A returned call starts no task, and a deployed machine is left alone.
THEOREM NothingActsAfterReturn == Spec => LateEffects
<1> DEFINE A == \A w \in Workers :
       outcome[w] # "pending" =>
         /\ task'[w].state = "running" => task[w].state = "running"
         /\ outcome[w] = "ok" =>
              /\ vms'[w].power = vms[w].power
              /\ vms'[w].disks = vms[w].disks
              /\ vms'[w].resources = vms[w].resources
<1>1. IInv /\ [Next]_vars => A
  <2> SUFFICES ASSUME IInv, [Next]_vars, NEW w \in Workers,
                      outcome[w] # "pending"
               PROVE  /\ task'[w].state = "running" => task[w].state = "running"
                      /\ outcome[w] = "ok" =>
                           /\ vms'[w].power = vms[w].power
                           /\ vms'[w].disks = vms[w].disks
                           /\ vms'[w].resources = vms[w].resources
    OBVIOUS
  <2>1. outcome[w] = "ok" => task[w].state = "none"
    BY DEF IInv, At, CallInv, Control
  <2> QED  BY <2>1, StepEffects
<1>2. IInv /\ [Next]_vars => [A]_vars
  BY <1>1
<1> QED  BY <1>2, Inductive, PTL DEF Spec, LateEffects

-----------------------------------------------------------------------------
(* Deploy implements Provisioning.                                         *)

LEMMA CompleteNeedsResources ==
  ASSUME NEW r \in Requests, NEW m, m.resources = TemplateResources,
         NeedsResources(r)
  PROVE  ~Complete(r, m)
BY RequestTypes DEF Complete

\* A change to the machine of one call, seen in Provisioning.
LEMMA MachineStep ==
  ASSUME TypeOK, Types', NEW w \in Workers, NEW vm, vms' = [vms EXCEPT ![w] = vm],
         UNCHANGED <<req, outcome>>, NEW s, s = Machine(w)'
  PROVE  [v \in Workers |-> Machine(v)]'
           = [[v \in Workers |-> Machine(v)] EXCEPT ![w] = s]
<1>1. \A v \in Workers \ {w} : Machine(v)' = Machine(v)
  BY DEF Machine, TypeOK, Types
<1> QED  BY <1>1

LEMMA RefinesStep ==
  ASSUME IInv, [Next]_vars
  PROVE  [P!Next]_(P!vars)
<1> DEFINE mach == [v \in Workers |-> Machine(v)]
<1>1. TypeOK /\ Types /\ Types' /\ \A w \in Workers : At(w)
  BY TypesStep DEF IInv, TypeOK, At
<1>2. ASSUME UNCHANGED <<req, vms>> PROVE mach' = mach
  BY <1>2 DEF Machine
<1>3. ASSUME UNCHANGED <<req, vms, outcome>> PROVE [P!Next]_(P!vars)
  BY <1>2, <1>3 DEF P!vars
<1>4. ASSUME NEW w \in Workers, Fail(w), pc[w] # "done",
             UNCHANGED <<req, vms>>
      PROVE  P!Next
  <2>1. mach' = mach /\ outcome[w] = "pending"
    BY <1>1, <1>2, <1>4 DEF At, CallInv, Control
  <2>2. CASE handle[w] # Nobody
    <3>1. vms[w].power # "none"
      BY <1>1, <2>2 DEF At, CallInv, Built
    <3>2. mach[w] # "absent"
      BY <3>1 DEF Machine
    <3> QED  BY <1>4, <2>1, <2>2, <3>2 DEF Fail, P!Next, P!Return
  <2>3. CASE handle[w] = Nobody
    <3>1. vms[w] = NoVM \/ vms[w] = Bare(req[w])
      BY <1>1, <2>3 DEF At, CallInv, Built
    <3>2. mach[w] \in {"absent", "bare", "complete"}
      BY <3>1, BareIsBare DEF Machine
    <3> QED  BY <1>4, <2>1, <2>3, <3>2 DEF Fail, P!Next, P!Return
  <2> QED  BY <2>2, <2>3
<1>5. ASSUME NEW w \in Workers, Succeed(w), pc[w] # "done", vms[w].power = "on",
             UNCHANGED <<req, vms>>
      PROVE  P!Next
  <2>1. mach' = mach /\ outcome[w] = "pending" /\ mach[w] = "running"
    BY <1>1, <1>2, <1>5 DEF At, CallInv, Control, Machine
  <2> QED  BY <1>5, <2>1 DEF Succeed, P!Next, P!Return
<1>6. ASSUME NEW w \in Workers, Call(w) PROVE [P!Next]_(P!vars)
  <2>1. UNCHANGED <<req, vms>>
    BY <1>6 DEF Call, Begin, Find, Recommend, StartClone, AddDisk, SetVMResources,
       PowerOnVM, Submit, StepFails, TaskSucceeded, WaitFails,
       PollGuest, CustomizationSeen,
       PollEnds, CustomizationGivenUp
  <2>2. \/ UNCHANGED outcome
        \/ Fail(w) /\ pc[w] # "done"
        \/ Succeed(w) /\ pc[w] \in {"customization", "poll"}
        \/ Succeed(w) /\ pc[w] = "power" /\ task[w].state = "success"
    BY <1>6 DEF Call, Begin, Find, Recommend, StartClone, AddDisk, SetVMResources,
       PowerOnVM, Submit, StepFails, TaskSucceeded, WaitFails, Goto,
       PollGuest, CustomizationSeen,
       PollEnds, CustomizationGivenUp
  <2>3. pc[w] \in {"customization", "poll"} => vms[w].power = "on"
    BY <1>1 DEF At, CallInv, Finished
  <2>4. pc[w] = "power" /\ task[w].state = "success" => vms[w].power = "on"
    BY <1>1 DEF At, CallInv, Control, InFlight
  <2> QED  BY <1>3, <1>4, <1>5, <2>1, <2>2, <2>3, <2>4
<1>7. ASSUME NEW w \in Workers, Server(w), ~ExecuteFails(w)
      PROVE  P!Next
  <2>1. /\ req[w] \in Requests /\ vms[w] \in VM /\ next[w] \in Nat \ {0}
        /\ task[w] \in Task /\ handle[w] \in {Nobody, w}
    BY <1>1 DEF Types, At
  <2>2. PICK op, vm : Execute(w, op, w, vm)
    BY <1>7, OwnTasks DEF Server, ExecuteClone, OwnTask
  <2>3. /\ vms' = [vms EXCEPT ![w] = vm] /\ vms'[w] = vm
        /\ UNCHANGED <<req, outcome>> /\ task[w].state = "running"
    BY <1>1, <2>2 DEF Execute, Types
  <2>4. mach' = [mach EXCEPT ![w] = Machine(w)']
    BY <1>1, <2>3, MachineStep
  <2>5. /\ Control(pc[w], handle[w], task[w], outcome[w])
        /\ Built(req[w], next[w], handle[w], task[w], vms[w])
        /\ InFlight(req[w], next[w], task[w], vms[w])
    BY <1>1, <2>3 DEF At, CallInv
  <2>6. Disks(req[w]) \in Seq(Int) /\ vms[w].disks \in Seq(Int)
    BY <2>1, RequestTypes DEF VM
  <2>7. handle[w] # Nobody => outcome[w] \in {"pending", "vmErr"}
    BY <1>1, <2>3, <2>5 DEF Control, Types
  <2>8. CASE ExecuteClone(w)
    <3>1. task[w].op = "clone"
      BY <2>8 DEF ExecuteClone, Execute
    <3>2. handle[w] = Nobody
      BY <2>1, <2>3, <2>5, <3>1 DEF Control
    <3>3. outcome[w] \in {"pending", "nilErr"}
      BY <1>1, <2>5, <3>2 DEF Control, Types
    <3>4. Machine(w) = "absent"
      BY <2>3, <2>5, <3>2, BareIsBare DEF Built, Machine
    <3>5. vms'[w] = Bare(req[w])
      BY <1>1, <2>8 DEF ExecuteClone, Execute, Bare, Types
    <3>6. Machine(w)' \in {"bare", "complete"}
      BY <2>3, <3>5, BareIsBare DEF Machine
    <3> QED  BY <2>3, <2>4, <3>3, <3>4, <3>6 DEF P!Next, P!Create
  <2>9. CASE ExecuteAddDisk(w)
    <3>1. task[w].op = "disk" /\ handle[w] # Nobody
      BY <2>1, <2>3, <2>5, <2>9 DEF ExecuteAddDisk, Execute, Control
    <3>2. Len(vms[w].disks) < Len(Disks(req[w])) /\ vms[w].power = "off"
      BY <2>1, <2>3, <2>5, <2>6, <3>1 DEF InFlight
    <3>3. ~Complete(req[w], vms[w])
      BY <2>6, <3>2 DEF Complete
    <3>4. Machine(w) \in {"bare", "partial"}
      BY <3>2, <3>3 DEF Machine
    <3>5. /\ vms'[w].disks = Append(vms[w].disks, task[w].size)
          /\ vms'[w].power = "off"
      BY <1>1, <2>1, <2>9, <3>2, OwnTasks DEF OwnTask, Execute, Types, VM
    <3>6. vms'[w].disks # <<>>
      <4>1. task[w].size \in Int
        BY <2>1 DEF Task
      <4>2. Len(Append(vms[w].disks, task[w].size)) = Len(vms[w].disks) + 1
        BY <2>6, <4>1
      <4>3. Len(vms[w].disks) \in Nat
        BY <2>6
      <4> QED  BY <3>5, <4>2, <4>3
    <3>7. Machine(w)' \in {"partial", "complete"}
      BY <3>5, <3>6 DEF Machine
    <3> QED  BY <2>3, <2>4, <2>7, <3>1, <3>4, <3>7 DEF P!Next, P!Build
  <2>10. CASE ExecuteReconfigure(w)
    <3>1. task[w].op = "resources" /\ handle[w] # Nobody
      BY <2>1, <2>3, <2>5, <2>10 DEF ExecuteReconfigure, Execute, Control
    <3>2. /\ NeedsResources(req[w]) /\ task[w].resources = Resources(req[w])
          /\ vms[w].disks = Disks(req[w]) /\ vms[w].power = "off"
          /\ vms[w].resources = TemplateResources
      BY <2>3, <2>5, <3>1 DEF InFlight
    <3>3. ~Complete(req[w], vms[w])
      BY <2>1, <3>2, CompleteNeedsResources
    <3>4. Machine(w) \in {"bare", "partial"}
      BY <3>2, <3>3 DEF Machine
    <3>5. /\ vms'[w].disks = vms[w].disks /\ vms'[w].power = "off"
          /\ vms'[w].resources = task[w].resources
      BY <1>1, <2>1, <2>10, <3>2, OwnTasks DEF OwnTask, Execute, Types, VM
    <3>6. Machine(w)' = "complete"
      BY <2>3, <3>2, <3>5 DEF Machine, Complete
    <3> QED  BY <2>3, <2>4, <2>7, <3>1, <3>4, <3>6 DEF P!Next, P!Build
  <2>11. CASE ExecutePowerOn(w)
    <3>1. task[w].op = "power" /\ handle[w] # Nobody
      BY <2>1, <2>3, <2>5, <2>11 DEF ExecutePowerOn, Execute, Control
    <3>2. Complete(req[w], vms[w]) /\ vms[w].power = "off"
      BY <2>5, <2>11, <3>1 DEF InFlight, ExecutePowerOn, Execute, At
    <3>3. Machine(w) = "complete"
      BY <3>2 DEF Machine
    <3>4. vms'[w].power = "on"
      BY <1>1, <2>1, <2>11, OwnTasks DEF OwnTask, Execute, Types, VM
    <3>5. Machine(w)' = "running"
      BY <3>4 DEF Machine
    <3> QED  BY <2>3, <2>4, <2>7, <3>1, <3>3, <3>5 DEF P!Next, P!Boot
  <2> QED  BY <1>7, <2>8, <2>9, <2>10, <2>11 DEF Server
<1>8. ASSUME NEW w \in Workers, Guest(w) PROVE [P!Next]_(P!vars)
  <2>1. /\ vms[w].power = "on" /\ vms'[w].power = "on"
        /\ UNCHANGED <<req, outcome>>
        /\ \A v \in Workers \ {w} : vms'[v] = vms[v]
    BY <1>1, <1>8 DEF Guest, GuestApplies, GuestTools, Types, VM
  <2>2. \A v \in Workers : Machine(v)' = Machine(v)
    BY <2>1 DEF Machine
  <2> QED  BY <2>1, <2>2 DEF P!vars
<1>9. ASSUME NEW w \in Workers, Cancel(w) \/ Expire(w) \/ ExecuteFails(w)
      PROVE  [P!Next]_(P!vars)
  BY <1>3, <1>9 DEF Cancel, Expire, ExecuteFails
<1>10. CASE UNCHANGED vars
  BY <1>3, <1>10 DEF vars
<1> QED  BY <1>6, <1>7, <1>8, <1>9, <1>10 DEF Next

\* CloneFromRequest keeps the promise that Provisioning states.
THEOREM Refinement == Spec => ImplementsProvisioning
<1>1. Init => P!Init
  <2> SUFFICES ASSUME Init PROVE P!Init
    OBVIOUS
  <2>1. \A w \in Workers : Machine(w) = "absent"
    BY BareIsBare DEF Init, Machine
  <2> QED  BY <2>1 DEF Init, P!Init
<1> QED  BY <1>1, RefinesStep, Inductive, PTL DEF Spec, ImplementsProvisioning, P!Spec

-----------------------------------------------------------------------------
(* A call comes to its end in a number of steps that is known beforehand.  *)

\* How far a call at step p with disk k next is from its end.
Stage(r, p, k) ==
  LET n == Len(Disks(r))
  IN  CASE p = "idle"          -> n + 7
        [] p = "find"          -> n + 6
        [] p = "recommend"     -> n + 5
        [] p = "clone"         -> n + 4
        [] p = "disks"         -> (n + 4) - k
        [] p = "resources"     -> 3
        [] p = "power"         -> 2
        [] p \in {"customization", "poll"} -> 1
        [] p = "done"          -> 0

\* A step submits its task, or ends with it; at most 2 * n + 15 in all, not
\* counting the polls.
StepsLeft(w) ==
  2 * Stage(req[w], pc[w], next[w])
    + (IF task[w].state = "none" THEN 1 ELSE 0)

Polls(w) == PollGuest(w) \/ PollEnds(w)

\* Whatever the server and the guest do, they do not send a call back; and
\* each step of its own, but for the polls of the guest, brings it nearer to
\* its end.
CallsRunOut ==
  [][\A w \in Workers :
       /\ StepsLeft(w)' <= StepsLeft(w)
       /\ Call(w) /\ ~Polls(w) => StepsLeft(w)' < StepsLeft(w)]_vars

LEMMA StageIs ==
  ASSUME NEW r \in Requests, NEW p \in Steps, NEW k \in Nat \ {0},
         p = "disks" => k <= Len(Disks(r))
  PROVE  /\ Stage(r, p, k) \in Nat
         /\ Stage(r, p, k) = 0 <=> p = "done"
<1>1. Len(Disks(r)) \in Nat
  BY RequestTypes
<1> QED  BY <1>1 DEF Stage, Steps

LEMMA StagesAre ==
  ASSUME TypeOK, TypeOK', NEW w \in Workers
  PROVE  /\ Stage(req[w], pc[w], next[w]) \in Nat
         /\ Stage(req[w], pc[w], next[w]) = 0 <=> pc[w] = "done"
         /\ Stage(req[w], pc[w], next[w])' \in Nat
         /\ Stage(req[w], pc[w], next[w])' = 0 <=> pc'[w] = "done"
<1>1. /\ req[w] \in Requests /\ pc[w] \in Steps /\ next[w] \in Nat \ {0}
      /\ pc[w] = "disks" => next[w] <= Len(Disks(req[w]))
  BY DEF TypeOK, Types
<1>2. /\ req'[w] \in Requests /\ pc'[w] \in Steps /\ next'[w] \in Nat \ {0}
      /\ pc'[w] = "disks" => next'[w] <= Len(Disks(req'[w]))
  BY DEF TypeOK, Types
<1> QED  BY <1>1, <1>2, StageIs

\* A call gets nearer to its end when its step changes, or when it submits.
LEMMA NearerIf ==
  ASSUME TypeOK, TypeOK', NEW w \in Workers,
         \/ Stage(req[w], pc[w], next[w])' < Stage(req[w], pc[w], next[w])
         \/ /\ UNCHANGED <<req, pc, next>>
            /\ task[w].state = "none" /\ task'[w].state # "none"
  PROVE  StepsLeft(w)' < StepsLeft(w)
<1> DEFINE a == Stage(req[w], pc[w], next[w])
           b == Stage(req[w], pc[w], next[w])'
           d == IF task[w].state = "none" THEN 1 ELSE 0
           e == IF task'[w].state = "none" THEN 1 ELSE 0
<1>1. a \in Nat /\ b \in Nat
  BY StagesAre
<1>2. b < a \/ (b = a /\ d = 1 /\ e = 0)
  OBVIOUS
<1>3. d \in {0, 1} /\ e \in {0, 1}
  OBVIOUS
<1>4. StepsLeft(w) = 2 * a + d /\ StepsLeft(w)' = 2 * b + e
  BY DEF StepsLeft
<1> HIDE DEF a, b, d, e
<1> QED  BY <1>1, <1>2, <1>3, <1>4

LEMMA FailNearer ==
  ASSUME TypeOK, TypeOK', NEW w \in Workers, pc[w] # "done",
         pc' = [pc EXCEPT ![w] = "done"], UNCHANGED <<req, next>>
  PROVE  StepsLeft(w)' < StepsLeft(w)
<1>1. pc'[w] = "done" /\ UNCHANGED <<req[w], next[w]>>
  BY DEF TypeOK, Types
<1>2. Stage(req[w], pc[w], next[w]) \in Nat \ {0}
  BY StagesAre
<1>3. Stage(req[w], pc[w], next[w])' = 0
  BY <1>1, StagesAre
<1> QED  BY <1>2, <1>3, NearerIf

LEMMA GotoNearer ==
  ASSUME TypeOK, TypeOK', NEW w \in Workers, NEW p \in Steps, Goto(w, p),
         UNCHANGED req,
         LET n == Len(Disks(req[w]))
         IN  CASE pc[w] = "idle"      -> p = "find"
               [] pc[w] = "find"      -> p \in {"recommend", "clone"}
               [] pc[w] = "recommend" -> p = "clone"
               [] pc[w] = "clone"     -> p \in {"disks", "resources", "power"}
               [] pc[w] = "disks"     -> \/ p = "disks" /\ next'[w] = next[w] + 1
                                         \/ p \in {"resources", "power"}
               [] pc[w] = "resources" -> p = "power"
               [] pc[w] = "power"     -> p = "customization"
               [] OTHER               -> FALSE
  PROVE  StepsLeft(w)' < StepsLeft(w)
<1> DEFINE r == req[w]
           n == Len(Disks(req[w]))
<1>1. r \in Requests /\ r' = r /\ n \in Nat /\ pc'[w] = p /\ pc[w] \in Steps
  BY RequestTypes DEF TypeOK, Types, Goto
<1>2. /\ next[w] \in Nat \ {0} /\ next'[w] \in Nat \ {0}
      /\ pc[w] = "disks" => next[w] <= n
      /\ p = "disks" => next'[w] <= n
  BY <1>1 DEF TypeOK, Types
<1>3. Stage(r, p, next'[w]) < Stage(r, pc[w], next[w])
  <2> HIDE DEF r
  <2>1. n = Len(Disks(r))
    BY DEF r
  <2> HIDE DEF n
  <2> QED  BY <1>1, <1>2, <2>1 DEF Stage, Steps, r, n
<1> QED  BY <1>1, <1>3, NearerIf

LEMMA SubmitNearer ==
  ASSUME TypeOK, TypeOK', NEW w \in Workers, pc[w] # "done",
         NEW op, NEW size, NEW res, Submit(w, op, size, res)
  PROVE  StepsLeft(w)' < StepsLeft(w)
<1>1. UNCHANGED <<req, next>>
  BY DEF Submit
<1>2. CASE UNCHANGED pc
  <2>1. task[w].state = "none" /\ task'[w].state = "running"
    BY DEF Submit, TypeOK, Types
  <2> QED  BY <1>1, <1>2, <2>1, NearerIf
<1>3. CASE Fail(w)
  BY <1>1, <1>3, FailNearer DEF Fail
<1> QED  BY <1>2, <1>3 DEF Submit

LEMMA CallNearer ==
  ASSUME TypeOK, TypeOK', NEW w \in Workers, Call(w), ~Polls(w)
  PROVE  StepsLeft(w)' < StepsLeft(w)
<1>1. CASE Begin(w)
  BY <1>1, FailNearer, GotoNearer DEF Begin, Fail, Steps
<1>2. CASE Find(w) \/ Recommend(w)
  BY <1>2, GotoNearer DEF Find, Recommend, Steps
<1>3. CASE StartClone(w) \/ AddDisk(w) \/ SetVMResources(w) \/ PowerOnVM(w)
  BY <1>3, SubmitNearer DEF StartClone, AddDisk, SetVMResources, PowerOnVM
<1>4. CASE StepFails(w) \/ WaitFails(w)
  BY <1>4, FailNearer DEF StepFails, WaitFails, Fail
<1>5. CASE TaskSucceeded(w)
  <2>1. UNCHANGED req
    BY <1>5 DEF TaskSucceeded
  <2>2. \A k : StepAfterDisks(req[w], k) \in {"disks", "resources", "power"}
    BY DEF StepAfterDisks
  <2>3. CASE pc[w] = "clone"
    BY <1>5, <2>1, <2>2, <2>3, GotoNearer DEF TaskSucceeded, Steps
  <2>4. CASE pc[w] = "disks"
    <3>1. next'[w] = next[w] + 1
      BY <1>5, <2>4 DEF TaskSucceeded, TypeOK, Types
    <3>2. Goto(w, StepAfterDisks(req[w], next[w] + 1))
      BY <1>5, <2>4 DEF TaskSucceeded
    <3> QED  BY <2>1, <2>2, <2>4, <3>1, <3>2, GotoNearer DEF Steps
  <2>5. CASE pc[w] = "resources"
    BY <1>5, <2>1, <2>5, GotoNearer DEF TaskSucceeded, Steps
  <2>6. CASE pc[w] = "power"
    <3>1. UNCHANGED next /\ (Goto(w, "customization") \/ Succeed(w))
      BY <1>5, <2>6 DEF TaskSucceeded
    <3> QED
      BY <2>1, <2>6, <3>1, FailNearer, GotoNearer DEF Succeed, Steps
  <2> QED  BY <1>5, <2>3, <2>4, <2>5, <2>6 DEF TaskSucceeded
<1>6. CASE CustomizationSeen(w) \/ CustomizationGivenUp(w)
  BY <1>6, FailNearer DEF CustomizationSeen, CustomizationGivenUp, Succeed
<1> QED  BY <1>1, <1>2, <1>3, <1>4, <1>5, <1>6 DEF Call, Polls

\* A poll leaves a call where it is.
LEMMA PollsKeepStepsLeft ==
  ASSUME TypeOK, TypeOK', NEW w \in Workers, Polls(w)
  PROVE  StepsLeft(w)' <= StepsLeft(w)
<1>1. /\ pc[w] \in {"customization", "poll"}
      /\ pc'[w] \in {"customization", "poll"}
      /\ UNCHANGED task
  BY DEF Polls, PollGuest, PollEnds, Goto, TypeOK, Types
<1> QED  BY <1>1 DEF StepsLeft, Stage

\* Nobody else takes a call further from its end.
LEMMA OthersKeepStepsLeft ==
  ASSUME TypeOK, TypeOK', [Next]_vars, NEW w \in Workers, ~Call(w)
  PROVE  StepsLeft(w)' <= StepsLeft(w)
<1>1. UNCHANGED <<req[w], pc[w], next[w]>>
      /\ (task[w].state # "none" <=> task'[w].state # "none")
  <2>1. CASE UNCHANGED vars
    BY <2>1 DEF vars
  <2>2. ASSUME NEW v \in Workers, v # w, Call(v)
        PROVE  UNCHANGED <<req[w], pc[w], next[w], task[w]>>
    BY <2>2
       DEF Call, Begin, Find, Recommend, StartClone, AddDisk, SetVMResources,
         PowerOnVM, Submit, StepFails, TaskSucceeded, WaitFails, Goto, Fail,
         Succeed, PollGuest, CustomizationSeen, PollEnds,
         CustomizationGivenUp, TypeOK, Types
  <2>3. ASSUME NEW v \in Workers, Cancel(v) \/ Expire(v) \/ Guest(v)
        PROVE  UNCHANGED <<req, pc, next, task>>
    BY <2>3 DEF Cancel, Expire, Guest, GuestApplies, GuestTools
  <2>4. ASSUME NEW v \in Workers, Server(v)
        PROVE  /\ UNCHANGED <<req, pc, next>>
               /\ task[w].state # "none" <=> task'[w].state # "none"
    <3>1. PICK e \in {"success", "error"} :
            /\ task[v].state = "running"
            /\ task' = [task EXCEPT ![v].state = e]
            /\ UNCHANGED <<req, pc, next>>
      BY <2>4 DEF Server, Execute, ExecuteClone, ExecuteAddDisk,
           ExecuteReconfigure, ExecutePowerOn, ExecuteFails
    <3> QED  BY <3>1 DEF TypeOK, Types, Task
  <2> QED  BY <2>1, <2>2, <2>3, <2>4 DEF Next
<1>2. Stage(req[w], pc[w], next[w]) \in Nat
  BY StagesAre
<1> QED  BY <1>1, <1>2 DEF StepsLeft

\* CloneFromRequest and the methods it calls have no way back and no retry but
\* for the polls of the guest: a call for n data disks is over after 2 * n + 15
\* other steps, or waits.
THEOREM CallsEnd == Spec => CallsRunOut
<1> DEFINE A == \A w \in Workers :
       /\ StepsLeft(w)' <= StepsLeft(w)
       /\ Call(w) /\ ~Polls(w) => StepsLeft(w)' < StepsLeft(w)
<1>1. ASSUME TypeOK, TypeOK', [Next]_vars PROVE A
  <2> SUFFICES ASSUME NEW w \in Workers
               PROVE  /\ StepsLeft(w)' <= StepsLeft(w)
                      /\ Call(w) /\ ~Polls(w)
                           => StepsLeft(w)' < StepsLeft(w)
    OBVIOUS
  <2>1. StepsLeft(w) \in Nat /\ StepsLeft(w)' \in Nat
    BY <1>1, StagesAre DEF StepsLeft
  <2> QED  BY <1>1, <2>1, CallNearer, PollsKeepStepsLeft, OthersKeepStepsLeft
<1>2. TypeOK /\ TypeOK' /\ [Next]_vars => [A]_vars
  BY <1>1
<1> QED  BY <1>2, TypeCorrect, PTL DEF Spec, CallsRunOut
=============================================================================
