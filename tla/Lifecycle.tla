----------------------------- MODULE Lifecycle ------------------------------
(***************************************************************************)
(* Power, snapshots and deletion of one virtual machine (vcenter.go):      *)
(* PowerOnVM, PowerOffVM, RestartVM, CreateSnapshot, DeleteSnapshot,       *)
(* DeleteAllSnapshots, RevertToSnapshot, DeleteVM and UnregisterVM, called *)
(* by several clients of the vCenter at once.                              *)
(*                                                                         *)
(* Most calls first read the machine and decide on what they read; what    *)
(* they then submit runs as a task of the server, later, and whether or    *)
(* not the caller still waits for it.                                      *)
(*                                                                         *)
(* Snapshots are numbered in the order in which they are taken.  The tree  *)
(* of snapshots is kept as its ancestor relation: a snapshot is in the     *)
(* list of children of the last one above it, siblings in order of age.    *)
(***************************************************************************)
EXTENDS Naturals, Sequences, SequencesExt, FiniteSetsExt

CONSTANTS
  Clients,                  \* the clients, each making one call
  Calls,                    \* the calls they may make
  Names,                    \* names of snapshots
  MaxSnapshots              \* how many snapshots are ever taken

Call == [op : {"powerOn", "powerOff", "restart", "create", "remove",
               "removeAll", "revert", "delete", "unregister"},
         name : Names,      \* of the snapshot
         children : BOOLEAN,   \* removeChildren of DeleteSnapshot
         suppress : BOOLEAN,   \* suppressPowerOn of RevertToSnapshot
         force : BOOLEAN]   \* of DeleteVM

ASSUME CallsAssumption == Calls \subseteq Call /\ MaxSnapshots \in Nat

VARIABLES
  call,      \* call[c]: the call of client c
  pc,        \* pc[c]: the step it is at
  seen,      \* seen[c]: what the call read of the machine
  task,      \* task[c]: the last task it submitted
  outcome,   \* outcome[c]: what it returned
  effects,   \* effects[c]: what the server did for it, in order (history)
  bare,      \* bare[c]: there was a moment without snapshots since the call
             \*          began (history)
  power,     \* the power state of the machine
  place,     \* whether the machine is in the inventory, and on disk
  tree       \* its snapshots

vars == <<call, pc, seen, task, outcome, effects, bare, power, place, tree>>
client == <<call, pc, seen, outcome>>

-----------------------------------------------------------------------------
(* The tree of snapshots.                                                  *)

Ids == 1..MaxSnapshots

\* Mutant: children are searched before their parent.
Before_ChildrenFirst(t, r, s) ==
  \/ s \in t.above[r]
  \/ /\ r # s /\ r \notin t.above[s] /\ s \notin t.above[r]
     /\ Min((t.above[r] \cup {r}) \ t.above[s])
          < Min((t.above[s] \cup {s}) \ t.above[r])

\* The search visits r before s: r is above s, or is in an older branch.
Before(t, r, s) ==
  \/ r \in t.above[s]
  \/ /\ r # s /\ s \notin t.above[r]
     /\ Min((t.above[r] \cup {r}) \ t.above[s])
          < Min((t.above[s] \cup {s}) \ t.above[r])

\* Mutant: the name is not compared.
Named_Any(t, n) == t.ids

Named(t, n) == {s \in t.ids : t.label[s] = n}

\* findSnapshotByName, for a name that is there.
FindSnapshot(t, n) ==
  CHOOSE s \in Named(t, n) : \A r \in Named(t, n) \ {s} : Before(t, s, r)

Parent(t, s) == IF t.above[s] = {} THEN 0 ELSE Max(t.above[s])

Take(t, n, p) ==
  LET new == t.made + 1
      up  == IF t.current = 0 THEN {} ELSE t.above[t.current] \cup {t.current}
  IN  [t EXCEPT !.ids = @ \cup {new}, !.made = new, !.current = new,
                !.label[new] = n, !.saved[new] = p, !.above[new] = up]

\* Removing a snapshot moves its children up, or removes them as well.
Prune(t, s, children) ==
  LET gone == {s} \cup {r \in t.ids : children /\ s \in t.above[r]}
  IN  [t EXCEPT !.ids = @ \ gone,
                !.above = [r \in Ids |-> @[r] \ gone],
                !.current = IF @ \in gone THEN Parent(t, s) ELSE @]

PruneAll(t) ==
  [t EXCEPT !.ids = {}, !.current = 0, !.above = [r \in Ids |-> {}]]

\* A machine with up to k snapshots, as an administrator may have left it.
Trees(k) ==
  UNION {{[ids |-> 1..n, made |-> n, current |-> n, above |-> up,
           label |-> names, saved |-> [s \in Ids |-> "off"]] :
             names \in {f \in [Ids -> Names] :
                          \A s \in Ids : s > n => f[s] = f[MaxSnapshots]},
             up \in {f \in [Ids -> SUBSET Ids] :
                       /\ \A s \in Ids : f[s] \subseteq 1..(s - 1)
                       /\ \A s \in Ids : s > n => f[s] = {}
                       /\ \A s \in Ids : \A r \in f[s] : f[r] \subseteq f[s]
                       /\ \A s \in Ids : \A r, q \in f[s] :
                            r < q => r \in f[q]}} : n \in 0..k}

-----------------------------------------------------------------------------
(* State.                                                                  *)

\* VirtualMachinePowerState.
Powers == {"on", "off", "suspended"}

NoTask == [op |-> "none", state |-> "none"]
Unread == [power |-> "off", ids |-> {}, made |-> 0, target |-> 0]

Init ==
  /\ call    \in [Clients -> Calls]
  /\ pc      = [c \in Clients |-> "idle"]
  /\ seen    = [c \in Clients |-> Unread]
  /\ task    = [c \in Clients |-> NoTask]
  /\ outcome = [c \in Clients |-> "pending"]
  /\ effects = [c \in Clients |-> <<>>]
  /\ bare    = [c \in Clients |-> FALSE]
  /\ power   \in Powers
  /\ place   = "inventory"
  /\ tree    \in Trees(MaxSnapshots - 1)

-----------------------------------------------------------------------------
(* The calls.                                                              *)

Goto(c, step) ==
  /\ pc' = [pc EXCEPT ![c] = step]
  /\ UNCHANGED outcome

Return(c, result) ==
  /\ pc' = [pc EXCEPT ![c] = "done"]
  /\ outcome' = [outcome EXCEPT ![c] = result]

\* The calls that read the machine first.
Readers == {"remove", "removeAll", "revert", "delete", "unregister"}

\* "unregister" is DeleteVM with deleteFromDisk = false; UnregisterVM is that
\* without force.
Deletes(c) == call[c].op \in {"delete", "unregister"}
Forced(c) == call[c].force

Begin(c) ==
  /\ pc[c] = "idle"
  /\ CASE call[c].op \in Readers  -> Goto(c, "read")
       [] call[c].op = "restart" -> Goto(c, "reboot")
       [] OTHER                  -> Goto(c, "submit")
  /\ bare' = [bare EXCEPT ![c] = tree.ids = {}]
  /\ UNCHANGED <<call, seen, task, effects, power, place, tree>>

\* Every error return that leaves nothing behind: a read that fails, a
\* request the server refuses, a context that is cancelled before it is sent.
StepFails(c) ==
  /\ pc[c] \in {"read", "powerOff", "submit"} /\ task[c].state = "none"
  /\ Return(c, "err")
  /\ UNCHANGED <<call, seen, task, effects, bare, power, place, tree>>

See(c, target) ==
  seen' = [seen EXCEPT ![c] = [power |-> power, ids |-> tree.ids,
                               made |-> tree.made, target |-> target]]

\* Mutant: the search may come back empty-handed and is used all the same.
ReadSnapshot_NotFoundIgnored(c) ==
  /\ pc[c] = "read" /\ place = "inventory"
  /\ call[c].op \in {"remove", "revert"}
  /\ See(c, IF Named(tree, call[c].name) = {} THEN 0
            ELSE FindSnapshot(tree, call[c].name))
  /\ Goto(c, "submit")
  /\ UNCHANGED <<call, task, effects, bare, power, place, tree>>

\* DeleteSnapshot and RevertToSnapshot look the name up in the tree.
ReadSnapshot(c) ==
  /\ pc[c] = "read" /\ place = "inventory"
  /\ call[c].op \in {"remove", "revert"}
  /\ IF Named(tree, call[c].name) = {}
     THEN Return(c, "err") /\ UNCHANGED seen
     ELSE /\ See(c, FindSnapshot(tree, call[c].name))
          /\ Goto(c, "submit")
  /\ UNCHANGED <<call, task, effects, bare, power, place, tree>>

\* DeleteAllSnapshots has nothing to do on a machine without snapshots.
ReadAll(c) ==
  /\ pc[c] = "read" /\ place = "inventory"
  /\ call[c].op = "removeAll"
  /\ See(c, 0)
  /\ IF tree.ids = {} THEN Return(c, "ok") ELSE Goto(c, "submit")
  /\ UNCHANGED <<call, task, effects, bare, power, place, tree>>

\* Mutants: the power state is checked, the snapshots are not; neither is.
ReadDelete_NoSnapshotCheck(c) ==
  /\ pc[c] = "read" /\ place = "inventory" /\ Deletes(c)
  /\ See(c, 0)
  /\ CASE power = "on" /\ ~Forced(c) -> Return(c, "err")
       [] power = "on" /\ Forced(c)  -> Goto(c, "powerOff")
       [] OTHER                      -> Goto(c, "submit")
  /\ UNCHANGED <<call, task, effects, bare, power, place, tree>>

ReadDelete_AlwaysPowerOff(c) ==
  /\ pc[c] = "read" /\ place = "inventory" /\ Deletes(c)
  /\ See(c, 0)
  /\ CASE power = "on"                                -> Goto(c, "powerOff")
       [] power # "on" /\ tree.ids # {} /\ ~Forced(c) -> Return(c, "err")
       [] OTHER                                       -> Goto(c, "submit")
  /\ UNCHANGED <<call, task, effects, bare, power, place, tree>>

\* DeleteVM decides on the power state and the snapshots of one reading.  Only
\* "on" is tested: a suspended machine is deleted like one that is off.
ReadDelete(c) ==
  /\ pc[c] = "read" /\ place = "inventory" /\ Deletes(c)
  /\ See(c, 0)
  /\ CASE power = "on" /\ ~Forced(c)                  -> Return(c, "err")
       [] power = "on" /\ Forced(c)                   -> Goto(c, "powerOff")
       [] power # "on" /\ tree.ids # {} /\ ~Forced(c) -> Return(c, "err")
       [] OTHER                                       -> Goto(c, "submit")
  /\ UNCHANGED <<call, task, effects, bare, power, place, tree>>

\* Submit a task.  The reply may be lost: the task runs, the call fails.
Submit(c, op) ==
  /\ task[c].state = "none"
  /\ task' = [task EXCEPT ![c] = [op |-> op, state |-> "running"]]
  /\ \/ UNCHANGED <<pc, outcome>>
     \/ Return(c, "err")
  /\ UNCHANGED <<call, seen, effects, bare, power, place, tree>>

SubmitOperation(c) ==
  /\ pc[c] = "submit" /\ call[c].op # "unregister"
  /\ Submit(c, IF call[c].op = "restart" THEN "reset" ELSE call[c].op)

\* The first step of a forced DeleteVM.
SubmitPowerOff(c) == pc[c] = "powerOff" /\ Submit(c, "powerOff")

\* UnregisterVM is a plain request, not a task.
Unregister(c) ==
  /\ pc[c] = "submit" /\ call[c].op = "unregister"
  /\ place = "inventory" /\ power # "on"
  /\ place' = "unregistered"
  /\ effects' = [effects EXCEPT ![c] = Append(@, "unregister")]
  /\ \E result \in {"ok", "err"} : Return(c, result)
  /\ UNCHANGED <<call, seen, task, bare, power, tree>>

\* So is RebootGuest.  An error, be it only a lost reply, leads to a reset.
RebootGuest(c) ==
  /\ pc[c] = "reboot"
  /\ \/ /\ power = "on" /\ place = "inventory"
        /\ effects' = [effects EXCEPT ![c] = Append(@, "reboot")]
        /\ Return(c, "ok") \/ Goto(c, "submit")
     \/ /\ Goto(c, "submit")
        /\ UNCHANGED effects
  /\ UNCHANGED <<call, seen, task, bare, power, place, tree>>

\* Mutant: a task that ended is a task that succeeded.
TaskEnds_AnyResult(c) ==
  /\ pc[c] \in {"submit", "powerOff"} /\ task[c].state \in {"success", "error"}
  /\ task' = [task EXCEPT ![c] = NoTask]
  /\ IF pc[c] = "powerOff" THEN Goto(c, "submit") ELSE Return(c, "ok")
  /\ UNCHANGED <<call, seen, effects, bare, power, place, tree>>

\* The wait for a task ends with its success.
TaskEnds(c) ==
  /\ pc[c] \in {"submit", "powerOff"} /\ task[c].state = "success"
  /\ task' = [task EXCEPT ![c] = NoTask]
  /\ IF pc[c] = "powerOff" THEN Goto(c, "submit") ELSE Return(c, "ok")
  /\ UNCHANGED <<call, seen, effects, bare, power, place, tree>>

\* The wait ends with an error: of the task, of the context, of the network.
WaitFails(c) ==
  /\ pc[c] \in {"submit", "powerOff"} /\ task[c].state # "none"
  /\ Return(c, "err")
  /\ UNCHANGED <<call, seen, task, effects, bare, power, place, tree>>

-----------------------------------------------------------------------------
(* The server.                                                             *)

Execute(c, op) ==
  /\ task[c] = [op |-> op, state |-> "running"]
  /\ place = "inventory"
  /\ task' = [task EXCEPT ![c].state = "success"]
  /\ effects' = [effects EXCEPT ![c] = Append(@, op)]
  /\ UNCHANGED client

SetTree(t) ==
  /\ tree' = t
  /\ bare' = [c \in Clients |-> bare[c] \/ t.ids = {}]

ExecutePower(c) ==
  /\ \/ Execute(c, "powerOn") /\ power # "on" /\ power' = "on"
     \/ Execute(c, "powerOff") /\ power # "off" /\ power' = "off"
     \/ Execute(c, "reset") /\ power = "on" /\ UNCHANGED power
  /\ UNCHANGED <<bare, place, tree>>

\* A snapshot with memory remembers that the machine was on; a suspended
\* machine may be suspended in its snapshot too.
ExecuteCreate(c) ==
  /\ Execute(c, "create")
  /\ tree.made < MaxSnapshots
  /\ \E p \in {"off", power} : SetTree(Take(tree, call[c].name, p))
  /\ UNCHANGED <<power, place>>

ExecuteRemove(c) ==
  /\ Execute(c, "remove")
  /\ seen[c].target \in tree.ids
  /\ SetTree(Prune(tree, seen[c].target, call[c].children))
  /\ UNCHANGED <<power, place>>

ExecuteRemoveAll(c) ==
  /\ Execute(c, "removeAll")
  /\ SetTree(PruneAll(tree))
  /\ UNCHANGED <<power, place>>

ExecuteRevert(c) ==
  /\ Execute(c, "revert")
  /\ seen[c].target \in tree.ids
  /\ SetTree([tree EXCEPT !.current = seen[c].target])
  /\ power' = IF call[c].suppress THEN "off" ELSE tree.saved[seen[c].target]
  /\ UNCHANGED place

\* A machine is destroyed with its snapshots, and never while it is on.
ExecuteDestroy(c) ==
  /\ Execute(c, "delete")
  /\ power # "on"
  /\ place' = "destroyed"
  /\ SetTree(PruneAll(tree))
  /\ UNCHANGED power

ExecuteFails(c) ==
  /\ task[c].state = "running"
  /\ task' = [task EXCEPT ![c].state = "error"]
  /\ UNCHANGED <<client, effects, bare, power, place, tree>>

-----------------------------------------------------------------------------
Library(c) ==
  \/ Begin(c) \/ StepFails(c) \/ ReadSnapshot(c) \/ ReadAll(c)
  \/ ReadDelete(c) \/ SubmitOperation(c) \/ SubmitPowerOff(c)
  \/ Unregister(c) \/ RebootGuest(c) \/ TaskEnds(c) \/ WaitFails(c)

Server(c) ==
  \/ ExecutePower(c) \/ ExecuteCreate(c) \/ ExecuteRemove(c)
  \/ ExecuteRemoveAll(c) \/ ExecuteRevert(c) \/ ExecuteDestroy(c)
  \/ ExecuteFails(c)

Next == \E c \in Clients : Library(c) \/ Server(c)

Spec == Init /\ [][Next]_vars

-----------------------------------------------------------------------------
(* Properties.                                                             *)

Tree == [ids : SUBSET Ids, made : 0..MaxSnapshots, current : 0..MaxSnapshots,
         above : [Ids -> SUBSET Ids], label : [Ids -> Names],
         saved : [Ids -> Powers]]

Tasks == {"powerOn", "powerOff", "reset", "create", "remove", "removeAll",
          "revert", "delete"}

\* The types of the variables; the snapshots form a forest; a call that acts
\* on one snapshot has found one.
TypeOK ==
  /\ call \in [Clients -> Calls]
  /\ pc \in [Clients -> {"idle", "read", "reboot", "powerOff", "submit",
                         "done"}]
  /\ seen \in [Clients -> [power : Powers, ids : SUBSET Ids,
                           made : 0..MaxSnapshots, target : 0..MaxSnapshots]]
  /\ task \in [Clients -> [op : Tasks \cup {"none"},
                           state : {"none", "running", "success", "error"}]]
  /\ outcome \in [Clients -> {"pending", "ok", "err"}]
  /\ effects \in [Clients -> Seq(Tasks \cup {"reboot", "unregister"})]
  /\ bare \in [Clients -> BOOLEAN]
  /\ power \in Powers
  /\ place \in {"inventory", "unregistered", "destroyed"}
  /\ tree \in Tree
  /\ tree.ids \subseteq 1..tree.made /\ tree.current \in tree.ids \cup {0}
  /\ \A s \in tree.ids : tree.above[s] \subseteq tree.ids \cap (1..(s - 1))
  /\ \A c \in Clients :
       pc[c] = "submit" /\ call[c].op \in {"remove", "revert"}
         => seen[c].target \in 1..tree.made

\* The sequences of effects on the server that a call stands for.
Asked(c) ==
  CASE call[c].op = "restart" ->
         {<<"reboot">>, <<"reset">>, <<"reboot", "reset">>}
    [] Deletes(c) /\ Forced(c) ->
         {<<call[c].op>>, <<"powerOff", call[c].op>>}
    [] OTHER -> {<<call[c].op>>}

\* Whatever is lost, late or refused, the server does for a call at most what
\* it asked for, in that order and once, and does it all before the call
\* returns success (unless there was nothing to remove).  Only a forced call
\* switches the machine off to delete it.
EffectsAreAsked ==
  \A c \in Clients :
    /\ \E e \in Asked(c) : IsPrefix(effects[c], e)
    /\ outcome[c] = "ok" =>
         effects[c] \in Asked(c) \cup
           (IF call[c].op = "removeAll" THEN {<<>>} ELSE {})

Destroys(c) ==
  task[c].op = "delete" /\ task[c].state = "running"
    /\ task'[c].state = "success"

\* A DeleteVM without force destroys no snapshot that was there when it
\* looked, even if its task runs long after its call has returned.
UnforcedSparesTheSeen ==
  [][\A c \in Clients :
       Destroys(c) /\ ~Forced(c) =>
         /\ tree.ids \cap seen[c].ids = {}
         /\ \A s \in tree.ids : s > seen[c].made]_vars

\* DeleteAllSnapshots returns nil only if there was a moment, between its
\* call and its return, at which the machine had no snapshots.
DeleteAllIsHonest ==
  \A c \in Clients :
    outcome[c] = "ok" /\ call[c].op = "removeAll" => bare[c]

\* A snapshot disappears only because some call removed the one it found
\* under the name it was given, or that one's children on request, or all.
OnlyTheNamedIsLost ==
  [][\A s \in tree.ids \ tree'.ids : \E c \in Clients :
       /\ task[c].state = "running" /\ task'[c].state = "success"
       /\ \/ task[c].op \in {"removeAll", "delete"}
          \/ /\ task[c].op = "remove"
             /\ \/ tree.label[s] = call[c].name
                \/ /\ call[c].children
                   /\ \E r \in tree.above[s] : tree.label[r] = call[c].name]_vars

\* Names need not be unique: the snapshot a call acts on is the outermost of
\* its name in its branch, still so when the server acts, so that deleting it
\* with its children leaves none of that name in the branch.
ActsOnOutermost ==
  \A c \in Clients :
    pc[c] = "submit" /\ call[c].op \in {"remove", "revert"} =>
      \A r \in tree.above[seen[c].target] : tree.label[r] # call[c].name

\* What DeleteVM says of its force parameter: "Allow deletion of powered-on
\* VMs or VMs with snapshots".
UnforcedNeedsNoSnapshots ==
  [][\A c \in Clients : Destroys(c) /\ ~Forced(c) => tree.ids = {}]_vars
=============================================================================
