-------------------------- MODULE LifecycleProofs ---------------------------
(***************************************************************************)
(* Proofs about Lifecycle, for any number of clients, calls and snapshots. *)
(*                                                                         *)
(* What has been done for a call is known from the step it is at and the   *)
(* state of its task (Control); what it has seen of the snapshots stays    *)
(* true because the tree is only ever followed by trees in which the       *)
(* snapshots that stay are where they were, or nearer to the root, and     *)
(* those that come are younger (Sight).                                    *)
(***************************************************************************)
EXTENDS SnapshotProofs, SequenceTheorems

Variables ==
  /\ call \in [Clients -> Calls]
  /\ pc \in [Clients -> {"idle", "read", "reboot", "powerOff", "submit",
                         "done"}]
  /\ seen \in [Clients -> [power : Powers, ids : SUBSET Ids,
                           made : 0..MaxSnapshots, target : 0..MaxSnapshots]]
  /\ task \in [Clients -> [op : Tasks \cup {"none"},
                           state : {"none", "running", "success", "error"}]]
  /\ outcome \in [Clients -> {"pending", "ok", "err"}]
  /\ effects \in [Clients -> Seq(Tasks \cup {"reboot", "unregister"})]
  /\ bare \in [Clients -> BOOLEAN]
  /\ power \in Powers
  /\ place \in {"inventory", "unregistered", "destroyed"}

\* The last effect a call asks for, and the effects without and with it.
Final(c) == IF call[c].op = "restart" THEN "reset" ELSE call[c].op

Begun(c) ==
  CASE call[c].op = "restart" -> {<<>>, <<"reboot">>}
    [] Deletes(c) /\ Forced(c) -> {<<>>, <<"powerOff">>}
    [] OTHER                   -> {<<>>}

Complete(c) ==
  CASE call[c].op = "restart" -> {<<"reset">>, <<"reboot", "reset">>}
    [] Deletes(c) /\ Forced(c) -> {<<call[c].op>>, <<"powerOff", call[c].op>>}
    [] OTHER                   -> {<<call[c].op>>}

\* The effects of a call that has no task.
Returned(c) ==
  CASE pc[c] # "done"     -> Begun(c)
    [] outcome[c] = "err" -> Begun(c) \cup Complete(c)
    [] outcome[c] = "ok"  ->
         Asked(c) \cup (IF call[c].op = "removeAll" THEN {<<>>} ELSE {})

Control(c) ==
  /\ task[c].op = "none" <=> task[c].state = "none"
  /\ pc[c] \in {"idle", "read", "reboot"} =>
       task[c].op = "none" /\ effects[c] = <<>>
  /\ pc[c] = "reboot" => call[c].op = "restart"
  /\ pc[c] = "powerOff" =>
       Deletes(c) /\ Forced(c) /\ task[c].op \in {"none", "powerOff"}
         /\ (task[c].op = "none" => effects[c] = <<>>)
  /\ pc[c] = "submit" => task[c].op \in {"none", Final(c)}
  /\ outcome[c] = "pending" <=> pc[c] # "done"
  /\ outcome[c] = "ok" => task[c].op = "none"
  /\ \/ task[c].op \in {"none", Final(c)}
     \/ task[c].op = "powerOff" /\ Deletes(c) /\ Forced(c)
  /\ task[c].op = "none" => effects[c] \in Returned(c)
  /\ task[c].op = Final(c) =>
       effects[c] \in IF task[c].state = "success"
                      THEN Complete(c) ELSE Begun(c)
  /\ task[c].op \notin {"none", Final(c)} =>
       effects[c] = IF task[c].state = "success" THEN <<"powerOff">> ELSE <<>>

\* A call has read the machine and acts on it.
Acts(c) == pc[c] = "submit" \/ task[c].op # "none"

Sight(c) ==
  /\ Acts(c) /\ call[c].op \in {"remove", "revert"} =>
       /\ seen[c].target \in 1..tree.made
       /\ tree.label[seen[c].target] = call[c].name
       /\ \A r \in tree.above[seen[c].target] : tree.label[r] # call[c].name
  /\ Acts(c) /\ call[c].op = "delete" /\ ~Forced(c) =>
       /\ seen[c].ids = {} /\ seen[c].made <= tree.made
       /\ \A s \in tree.ids : s > seen[c].made

Bare(c) ==
  /\ pc[c] # "idle" /\ tree.ids = {} => bare[c]
  /\ call[c].op = "removeAll" =>
       (outcome[c] = "ok" \/ task[c].state = "success" => bare[c])

Inv ==
  /\ Variables /\ Forest(tree)
  /\ \A c \in Clients : Control(c) /\ Sight(c) /\ Bare(c)

-----------------------------------------------------------------------------
(* Values.                                                                 *)

LEMMA CallIs ==
  ASSUME Variables, NEW c \in Clients
  PROVE  /\ call[c].op \in {"powerOn", "powerOff", "restart", "create",
                            "remove", "removeAll", "revert", "delete",
                            "unregister"}
         /\ call[c].name \in Names /\ call[c].children \in BOOLEAN
         /\ call[c].suppress \in BOOLEAN /\ call[c].force \in BOOLEAN
  <1>1. call[c] \in Call
    BY CallsAssumption DEF Variables
  <1> QED
    BY <1>1 DEF Call

LEMMA AppendIs ==
  ASSUME NEW S, NEW x \in S, NEW y \in S
  PROVE  Append(<<>>, x) = <<x>> /\ Append(<<x>>, y) = <<x, y>>
  <1> DEFINE s == Append(<<x>>, y)
             t == <<x, y>>
  <1>1. <<x>> \in Seq(S)
    OBVIOUS
  <1>2. /\ s \in Seq(S) /\ Len(s) = 2 /\ s[1] = x /\ s[2] = y
        /\ Append(<<>>, x) = <<x>>
    BY <1>1, AppendProperties
  <1>3. Len(t) = 2 /\ t[1] = x /\ t[2] = y /\ t \in Seq(S)
    OBVIOUS
  <1> HIDE DEF s, t
  <1>4. \A i \in 1..2 : s[i] = t[i]
    BY <1>2, <1>3
  <1>5. s = t
    BY <1>2, <1>3, <1>4, SeqEqual
  <1> QED
    BY <1>2, <1>5 DEF s, t

\* The last effect completes what has begun.
LEMMA EffectsAre ==
  ASSUME Variables, NEW c \in Clients
  PROVE  /\ <<>> \in Begun(c) /\ Final(c) # "none"
         /\ \A e \in Begun(c) : Append(e, Final(c)) \in Complete(c)
         /\ call[c].op = "restart" => <<"reboot">> \in Begun(c)
         /\ Deletes(c) /\ Forced(c) =>
              /\ Final(c) # "powerOff"
              /\ <<"powerOff">> \in Begun(c)
         /\ Append(<<>>, "powerOff") = <<"powerOff">>
         /\ Append(<<>>, "reboot") = <<"reboot">>
         /\ Complete(c) \subseteq Asked(c)
         /\ call[c].op = "restart" => <<"reboot">> \in Asked(c)
  <1>1. \A x, y \in Tasks \cup {"reboot", "unregister"} :
          Append(<<>>, x) = <<x>> /\ Append(<<x>>, y) = <<x, y>>
    BY AppendIs
  <1> /\ Final(c) \in Tasks \cup {"unregister"}
      /\ "powerOff" \in Tasks /\ "reset" \in Tasks /\ Final(c) # "none"
    BY CallIs DEF Final, Tasks
  <1>2. CASE call[c].op = "restart"
    BY <1>1, <1>2 DEF Begun, Complete, Final, Asked, Deletes
  <1>3. CASE Deletes(c) /\ Forced(c)
    BY <1>1, <1>3 DEF Begun, Complete, Final, Asked, Deletes
  <1>4. CASE call[c].op # "restart" /\ ~(Deletes(c) /\ Forced(c))
    BY <1>1, <1>4 DEF Begun, Complete, Final, Asked
  <1> QED
    BY <1>2, <1>3, <1>4

LEMMA PrefixIs ==
  ASSUME NEW x, NEW y
  PROVE  /\ IsPrefix(<<>>, <<x>>) /\ IsPrefix(<<>>, <<x, y>>)
         /\ IsPrefix(<<x>>, <<x>>) /\ IsPrefix(<<x>>, <<x, y>>)
         /\ IsPrefix(<<x, y>>, <<x, y>>)
  BY DEF IsPrefix

LEMMA InitHolds == Init => Inv
  <1> SUFFICES ASSUME Init PROVE Inv
    OBVIOUS
  <1>1. MaxSnapshots \in Nat
    BY CallsAssumption
  <1>2. PICK n \in 0..(MaxSnapshots - 1) :
          /\ tree.ids = 1..n /\ tree.made = n /\ tree.current = n
          /\ tree.label \in [Ids -> Names]
          /\ tree.saved = [s \in Ids |-> "off"]
          /\ tree.above \in [Ids -> SUBSET Ids]
          /\ \A s \in Ids : tree.above[s] \subseteq 1..(s - 1)
          /\ \A s \in Ids : \A r \in tree.above[s] :
               tree.above[r] \subseteq tree.above[s]
          /\ \A s \in Ids : \A r, q \in tree.above[s] :
               r < q => r \in tree.above[q]
          /\ tree = [ids |-> tree.ids, made |-> tree.made,
                     current |-> tree.current, above |-> tree.above,
                     label |-> tree.label, saved |-> tree.saved]
    BY DEF Init, Trees
  <1>3. n \in Nat /\ n <= MaxSnapshots /\ tree.ids \subseteq Ids
    BY <1>1, <1>2 DEF Ids
  <1>4. Forest(tree)
    <2>1. tree \in Tree
      BY <1>2, <1>3 DEF Tree, Powers
    <2>2. tree.current \in tree.ids \cup {0}
      BY <1>2, <1>3
    <2>3. ASSUME NEW s \in tree.ids PROVE tree.above[s] \subseteq tree.ids
      <3>1. s \in 1..n /\ s \in Ids
        BY <1>2, <1>3
      <3>2. 1..(s - 1) \subseteq 1..n
        BY <1>3, <3>1
      <3> QED
        BY <1>2, <3>1, <3>2
    <2> QED
      BY <1>2, <1>3, <2>1, <2>2, <2>3 DEF Forest
  <1>5. Variables
    <2>1. Unread \in [power : Powers, ids : SUBSET Ids,
                      made : 0..MaxSnapshots, target : 0..MaxSnapshots]
      BY <1>1 DEF Unread, Powers
    <2>2. NoTask \in [op : Tasks \cup {"none"},
                      state : {"none", "running", "success", "error"}]
      BY DEF NoTask
    <2> QED
      BY <2>1, <2>2 DEF Init, Variables
  <1>6. ASSUME NEW c \in Clients PROVE Control(c) /\ Sight(c) /\ Bare(c)
    <2>1. pc[c] = "idle" /\ task[c].op = "none" /\ task[c].state = "none"
          /\ effects[c] = <<>> /\ outcome[c] = "pending"
      BY <1>6 DEF Init, NoTask
    <2>2. Control(c)
      BY <1>5, <2>1, EffectsAre DEF Control, Returned
    <2> QED
      BY <2>1, <2>2 DEF Sight, Bare, Acts
  <1> QED
    BY <1>4, <1>5, <1>6 DEF Inv

-----------------------------------------------------------------------------
(* The calls.                                                              *)

\* The effects asked for depend on the call only.
LEMMA AskedStays ==
  ASSUME NEW c \in Clients, call' = call
  PROVE  /\ Final(c)' = Final(c) /\ Begun(c)' = Begun(c)
         /\ Complete(c)' = Complete(c) /\ Asked(c)' = Asked(c)
         /\ (Deletes(c)' <=> Deletes(c)) /\ Forced(c)' = Forced(c)
  BY DEF Final, Begun, Complete, Asked, Deletes, Forced

\* A step of a call changes its own variables, and leaves the tree.
LEMMA CallKeeps ==
  ASSUME Inv, NEW c \in Clients, Variables', UNCHANGED <<call, tree>>,
         \A d \in Clients : d # c =>
           /\ pc'[d] = pc[d] /\ seen'[d] = seen[d] /\ task'[d] = task[d]
           /\ outcome'[d] = outcome[d] /\ effects'[d] = effects[d]
           /\ bare'[d] = bare[d],
         Control(c)', Sight(c)', Bare(c)'
  PROVE  Inv'
  <1>1. Forest(tree)'
    BY DEF Inv
  <1>2. ASSUME NEW d \in Clients, d # c
        PROVE  Control(d)' /\ Sight(d)' /\ Bare(d)'
    <2>1. Returned(d)' = Returned(d)
      BY <1>2, AskedStays DEF Returned
    <2>2. Control(d)'
      BY <1>2, <2>1, AskedStays DEF Inv, Control
    <2>3. Sight(d)' /\ Bare(d)'
      BY <1>2 DEF Inv, Sight, Bare, Acts, Forced
    <2> QED
      BY <2>2, <2>3
  <1> QED
    BY <1>1, <1>2 DEF Inv

LEMMA BeginKeeps ==
  ASSUME Inv, NEW c \in Clients, Begin(c)
  PROVE  Inv'
  <1> USE DEF Inv
  <1>1. /\ pc[c] = "idle" /\ UNCHANGED <<call, seen, task, effects, tree>>
        /\ UNCHANGED <<power, place, outcome>>
        /\ pc' \in [Clients -> {"idle", "read", "reboot", "powerOff", "submit",
                                "done"}]
        /\ pc'[c] \in {"read", "reboot", "submit"}
        /\ (pc'[c] = "reboot" => call[c].op = "restart")
        /\ bare' \in [Clients -> BOOLEAN] /\ (bare'[c] <=> tree.ids = {})
        /\ \A d \in Clients : d # c => pc'[d] = pc[d] /\ bare'[d] = bare[d]
        /\ (pc'[c] = "submit" => call[c].op \notin Readers)
    BY DEF Begin, Goto, Variables
  <1>2. task[c].op = "none" /\ task[c].state = "none" /\ effects[c] = <<>>
        /\ outcome[c] = "pending"
    BY <1>1 DEF Control
  <1>3. Variables'
    BY <1>1 DEF Variables
  <1>4. Control(c)'
    BY <1>1, <1>2, AskedStays, EffectsAre DEF Control, Returned
  <1>5. Sight(c)' /\ Bare(c)'
    BY <1>1, <1>2 DEF Sight, Bare, Acts, Readers
  <1> QED
    BY <1>1, <1>3, <1>4, <1>5, CallKeeps

\* A call ends that has no task.
LEMMA ReturnKeeps ==
  ASSUME Inv, NEW c \in Clients, pc[c] \notin {"idle", "done"},
         task[c].op = "none",
         NEW result \in {"ok", "err"}, Return(c, result),
         UNCHANGED <<call, task, effects, bare, tree>>, Variables',
         \A d \in Clients : d # c => seen'[d] = seen[d],
         result = "ok" =>
           /\ effects[c] = <<>> /\ call[c].op = "removeAll"
           /\ tree.ids = {}
  PROVE  Inv'
  <1> USE DEF Inv
  <1>1. /\ pc'[c] = "done" /\ outcome'[c] = result
        /\ \A d \in Clients :
             d # c => pc'[d] = pc[d] /\ outcome'[d] = outcome[d]
    BY DEF Return, Variables
  <1>2. task[c].state = "none" /\ (pc[c] # "done" => effects[c] \in Begun(c))
    BY DEF Control, Returned
  <1>3. outcome[c] \in {"pending", "err", "ok"}
    BY DEF Variables
  <1>4. Control(c)'
    BY <1>1, <1>2, <1>3, AskedStays DEF Control, Returned
  <1>5. Sight(c)' /\ Bare(c)'
    BY <1>1, <1>2 DEF Sight, Bare, Acts
  <1> QED
    BY <1>1, <1>4, <1>5, CallKeeps

LEMMA StepFailsKeeps ==
  ASSUME Inv, NEW c \in Clients, StepFails(c)
  PROVE  Inv'
  <1>1. /\ pc[c] \notin {"idle", "done"} /\ task[c].op = "none"
        /\ Return(c, "err")
        /\ UNCHANGED <<call, seen, task, effects, bare, power, place, tree>>
    BY DEF StepFails, Inv, Control
  <1>2. Variables'
    BY <1>1 DEF Inv, Variables, Return
  <1> QED
    BY <1>1, <1>2, ReturnKeeps

\* What FindSnapshot finds is the outermost of its name in its branch.
LEMMA FoundIsOutermost ==
  ASSUME NEW t, Forest(t), NEW n, Named(t, n) # {}
  PROVE  LET s == FindSnapshot(t, n)
         IN  /\ s \in 1..t.made /\ t.label[s] = n
             /\ \A r \in t.above[s] : t.label[r] # n
  <1> DEFINE s == FindSnapshot(t, n)
  <1>1. s \in Named(t, n) /\ \A r \in Named(t, n) \ {s} : Before(t, s, r)
    BY FirstExists
  <1> HIDE DEF s
  <1>2. s \in t.ids /\ t.label[s] = n /\ s \in 1..t.made
    BY <1>1 DEF Named, Forest
  <1>3. ASSUME NEW r \in t.above[s], t.label[r] = n PROVE FALSE
    <2>1. r \in t.ids /\ r # s
      BY <1>2, PathIs
    <2>2. s \in t.above[r]
      BY <1>1, <1>3, <2>1 DEF Named, Before
    <2>3. r \in t.above[r]
      BY <1>3, <2>1, <2>2 DEF Forest
    <2> QED
      BY <2>1, <2>3, PathIs
  <1> QED
    BY <1>2, <1>3 DEF s

\* A call has read the machine and goes on.
LEMMA ReadKeeps ==
  ASSUME Inv, NEW c \in Clients, pc[c] = "read",
         NEW target \in 0..MaxSnapshots, See(c, target),
         NEW step \in {"powerOff", "submit"}, Goto(c, step),
         UNCHANGED <<call, task, effects, bare, power, place, tree>>,
         step = "powerOff" => Deletes(c) /\ Forced(c),
         call[c].op \in {"remove", "revert"} =>
           /\ target \in 1..tree.made
           /\ tree.label[target] = call[c].name
           /\ \A r \in tree.above[target] : tree.label[r] # call[c].name,
         call[c].op = "delete" /\ ~Forced(c) => tree.ids = {}
  PROVE  Inv'
  <1> USE DEF Inv
  <1>1. /\ pc' \in [Clients -> {"idle", "read", "reboot", "powerOff", "submit",
                                "done"}]
        /\ pc'[c] = step /\ outcome' = outcome
        /\ \A d \in Clients : d # c => pc'[d] = pc[d]
    BY DEF Goto, Variables
  <1>2. /\ task[c].op = "none" /\ task[c].state = "none" /\ effects[c] = <<>>
        /\ outcome[c] = "pending"
    BY DEF Control
  <1>3. /\ seen' \in [Clients -> [power : Powers, ids : SUBSET Ids,
                           made : 0..MaxSnapshots, target : 0..MaxSnapshots]]
        /\ seen'[c].target = target /\ seen'[c].ids = tree.ids
        /\ seen'[c].made = tree.made
        /\ \A d \in Clients : d # c => seen'[d] = seen[d]
    BY DEF See, Variables, Forest, Tree
  <1>4. Variables'
    BY <1>1, <1>3 DEF Variables
  <1>5. Control(c)'
    BY <1>1, <1>2, AskedStays, EffectsAre DEF Control, Returned
  <1>6. Sight(c)'
    BY <1>3, TreeIs DEF Sight, Forced
  <1>7. Bare(c)'
    BY <1>1, <1>2 DEF Bare
  <1> QED
    BY <1>1, <1>3, <1>4, <1>5, <1>6, <1>7, CallKeeps

LEMMA ReadsKeep ==
  ASSUME Inv, NEW c \in Clients,
         ReadSnapshot(c) \/ ReadAll(c) \/ ReadDelete(c)
  PROVE  Inv'
  <1> USE DEF Inv
  <1>1. /\ pc[c] = "read" /\ pc[c] \notin {"idle", "done"}
        /\ UNCHANGED <<call, task, effects, bare, power, place, tree>>
        /\ task[c].op = "none" /\ effects[c] = <<>>
    BY DEF ReadSnapshot, ReadAll, ReadDelete, Control
  <1>2. 0 \in 0..MaxSnapshots
    BY CallsAssumption
  <1>3. ASSUME NEW result \in {"ok", "err"}, Return(c, result),
               See(c, 0) \/ UNCHANGED seen,
               result = "ok" => call[c].op = "removeAll" /\ tree.ids = {}
        PROVE  Inv'
    <2>1. /\ seen' \in [Clients -> [power : Powers, ids : SUBSET Ids,
                           made : 0..MaxSnapshots, target : 0..MaxSnapshots]]
          /\ \A d \in Clients : d # c => seen'[d] = seen[d]
      <3>1. CASE See(c, 0)
        BY <1>2, <3>1 DEF Variables, See, Forest, Tree
      <3>2. CASE UNCHANGED seen
        BY <3>2 DEF Variables
      <3> QED
        BY <1>3, <3>1, <3>2
    <2>2. Variables'
      BY <1>1, <1>3, <2>1 DEF Variables, Return
    <2> QED
      BY <1>1, <1>3, <2>1, <2>2, ReturnKeeps
  <1>4. CASE ReadSnapshot(c)
    <2>1. CASE Named(tree, call[c].name) = {}
      BY <1>3, <1>4, <2>1 DEF ReadSnapshot
    <2>2. CASE Named(tree, call[c].name) # {}
      <3> DEFINE target == FindSnapshot(tree, call[c].name)
      <3>1. /\ target \in 1..tree.made
            /\ tree.label[target] = call[c].name
            /\ \A r \in tree.above[target] : tree.label[r] # call[c].name
        BY <2>2, FoundIsOutermost
      <3>2. See(c, target) /\ Goto(c, "submit")
            /\ call[c].op \in {"remove", "revert"}
        BY <1>4, <2>2 DEF ReadSnapshot
      <3> HIDE DEF target
      <3>3. target \in 0..MaxSnapshots
        BY <3>1, TreeIs
      <3> QED
        BY <1>1, <3>1, <3>2, <3>3, ReadKeeps
    <2> QED
      BY <2>1, <2>2
  <1>5. CASE ReadAll(c)
    <2>1. CASE tree.ids = {}
      BY <1>3, <1>5, <2>1 DEF ReadAll
    <2>2. CASE tree.ids # {}
      BY <1>1, <1>2, <1>5, <2>2, ReadKeeps DEF ReadAll
    <2> QED
      BY <2>1, <2>2
  <1>6. CASE ReadDelete(c)
    <2>1. power \in Powers
      BY DEF Variables
    <2>2. \/ Return(c, "err")
          \/ Goto(c, "powerOff") /\ Forced(c)
          \/ Goto(c, "submit") /\ (Forced(c) \/ tree.ids = {})
      BY <1>6, <2>1 DEF ReadDelete
    <2>3. See(c, 0) /\ Deletes(c) /\ call[c].op \notin {"remove", "revert"}
      BY <1>6 DEF ReadDelete, Deletes
    <2>4. CASE Return(c, "err")
      BY <1>3, <2>3, <2>4
    <2>5. CASE Goto(c, "powerOff") /\ Forced(c)
      BY <1>1, <1>2, <2>3, <2>5, ReadKeeps
    <2>6. CASE Goto(c, "submit") /\ (Forced(c) \/ tree.ids = {})
      BY <1>1, <1>2, <2>3, <2>6, ReadKeeps
    <2> QED
      BY <2>2, <2>4, <2>5, <2>6
  <1> QED
    BY <1>4, <1>5, <1>6

LEMMA SubmitKeeps ==
  ASSUME Inv, NEW c \in Clients, SubmitOperation(c) \/ SubmitPowerOff(c)
  PROVE  Inv'
  <1> USE DEF Inv
  <1>1. PICK op \in Tasks :
          /\ Submit(c, op)
          /\ \/ pc[c] = "submit" /\ op = Final(c)
             \/ pc[c] = "powerOff" /\ op = "powerOff"
    <2>1. CASE SubmitOperation(c)
      BY <2>1, CallIs DEF SubmitOperation, Final, Tasks
    <2>2. CASE SubmitPowerOff(c)
      BY <2>2 DEF SubmitPowerOff, Tasks
    <2> QED
      BY <2>1, <2>2
  <1>2. /\ task' \in [Clients -> [op : Tasks \cup {"none"},
                           state : {"none", "running", "success", "error"}]]
        /\ task'[c].op = op /\ task'[c].state = "running"
        /\ \A d \in Clients : d # c => task'[d] = task[d]
        /\ task[c].state = "none"
        /\ UNCHANGED <<call, seen, effects, bare, power, place, tree>>
    BY <1>1 DEF Submit, Variables
  <1>3. /\ pc' \in [Clients -> {"idle", "read", "reboot", "powerOff", "submit",
                                "done"}]
        /\ outcome' \in [Clients -> {"pending", "ok", "err"}]
        /\ \/ pc'[c] = pc[c] /\ outcome'[c] = outcome[c]
           \/ pc'[c] = "done" /\ outcome'[c] = "err"
        /\ \A d \in Clients :
             d # c => pc'[d] = pc[d] /\ outcome'[d] = outcome[d]
    BY <1>1 DEF Submit, Return, Variables
  <1>4. Variables'
    BY <1>2, <1>3 DEF Variables
  <1>5. op # "none"
    BY DEF Tasks
  <1>6. task[c].op = "none" /\ effects[c] \in Begun(c)
        /\ (pc[c] = "powerOff" =>
              effects[c] = <<>> /\ Deletes(c) /\ Forced(c)
                /\ Final(c) # "powerOff")
    BY <1>1, <1>2, EffectsAre DEF Control, Returned
  <1>7. Control(c)'
    BY <1>1, <1>2, <1>3, <1>5, <1>6, AskedStays DEF Control, Returned
  <1>8. Sight(c)'
    <2>1. CASE pc[c] = "submit"
      BY <1>2, <2>1 DEF Sight, Acts, Forced
    <2>2. CASE pc[c] = "powerOff"
      BY <1>2, <1>6, <2>2 DEF Sight, Deletes, Forced
    <2> QED
      BY <1>1, <2>1, <2>2
  <1>9. Bare(c)'
    BY <1>1, <1>2, <1>3 DEF Bare
  <1> QED
    BY <1>2, <1>3, <1>4, <1>7, <1>8, <1>9, CallKeeps

LEMMA UnregisterKeeps ==
  ASSUME Inv, NEW c \in Clients, Unregister(c)
  PROVE  Inv'
  <1> USE DEF Inv
  <1>1. /\ pc[c] = "submit" /\ call[c].op = "unregister"
        /\ place' = "unregistered"
        /\ effects' = [effects EXCEPT ![c] = Append(@, "unregister")]
        /\ UNCHANGED <<call, seen, task, bare, power, tree>>
    BY DEF Unregister
  <1>2. PICK result \in {"ok", "err"} : Return(c, result)
    BY DEF Unregister
  <1>3. /\ pc' \in [Clients -> {"idle", "read", "reboot", "powerOff", "submit",
                                "done"}]
        /\ outcome' \in [Clients -> {"pending", "ok", "err"}]
        /\ pc'[c] = "done" /\ outcome'[c] = result
        /\ \A d \in Clients :
             d # c => pc'[d] = pc[d] /\ outcome'[d] = outcome[d]
    BY <1>2 DEF Return, Variables
  <1>4. task[c].op = "none" /\ task[c].state = "none"
        /\ effects[c] \in Begun(c) /\ Final(c) = "unregister"
    <2>1. task[c].op \in Tasks \cup {"none"}
      BY DEF Variables
    <2> QED
      BY <1>1, <2>1 DEF Control, Returned, Final, Tasks
  <1>5. effects'[c] \in Complete(c)
        /\ \A d \in Clients : d # c => effects'[d] = effects[d]
    BY <1>1, <1>4, EffectsAre DEF Variables
  <1>6. effects' \in [Clients -> Seq(Tasks \cup {"reboot", "unregister"})]
    BY <1>1, AppendProperties DEF Variables
  <1>7. Variables'
    BY <1>1, <1>3, <1>6 DEF Variables
  <1>8. Control(c)'
    BY <1>1, <1>3, <1>4, <1>5, AskedStays, EffectsAre DEF Control, Returned
  <1>9. Sight(c)' /\ Bare(c)'
    BY <1>1, <1>3, <1>4 DEF Sight, Bare, Acts
  <1> QED
    BY <1>1, <1>3, <1>5, <1>7, <1>8, <1>9, CallKeeps

LEMMA RebootKeeps ==
  ASSUME Inv, NEW c \in Clients, RebootGuest(c)
  PROVE  Inv'
  <1> USE DEF Inv
  <1>1. /\ pc[c] = "reboot" /\ call[c].op = "restart"
        /\ task[c].op = "none" /\ task[c].state = "none" /\ effects[c] = <<>>
        /\ outcome[c] = "pending"
        /\ UNCHANGED <<call, seen, task, bare, power, place, tree>>
    BY DEF RebootGuest, Control
  <1>2. \/ effects' = effects
        \/ effects' = [effects EXCEPT ![c] = Append(@, "reboot")]
    BY DEF RebootGuest
  <1>3. effects' \in [Clients -> Seq(Tasks \cup {"reboot", "unregister"})]
        /\ \A d \in Clients : d # c => effects'[d] = effects[d]
    <2> DEFINE S == Seq(Tasks \cup {"reboot", "unregister"})
    <2>1. Append(effects[c], "reboot") \in S
      BY AppendProperties DEF Variables
    <2>2. effects \in [Clients -> S]
      BY DEF Variables
    <2> HIDE DEF S
    <2>3. effects' \in [Clients -> S]
          /\ \A d \in Clients : d # c => effects'[d] = effects[d]
      BY <1>2, <2>1, <2>2
    <2> QED
      BY <2>3 DEF S
  <1>4. effects'[c] = <<>> \/ effects'[c] = <<"reboot">>
    BY <1>1, <1>2, EffectsAre DEF Variables
  <1>5. /\ pc' \in [Clients -> {"idle", "read", "reboot", "powerOff", "submit",
                                "done"}]
        /\ outcome' \in [Clients -> {"pending", "ok", "err"}]
        /\ \/ /\ pc'[c] = "done" /\ outcome'[c] = "ok"
              /\ effects'[c] = <<"reboot">>
           \/ pc'[c] = "submit" /\ outcome'[c] = outcome[c]
        /\ \A d \in Clients :
             d # c => pc'[d] = pc[d] /\ outcome'[d] = outcome[d]
    <2>1. \/ /\ effects' = [effects EXCEPT ![c] = Append(@, "reboot")]
             /\ Return(c, "ok") \/ Goto(c, "submit")
          \/ Goto(c, "submit")
      BY DEF RebootGuest
    <2>2. CASE Goto(c, "submit")
      BY <2>2 DEF Goto, Variables
    <2>3. CASE /\ effects' = [effects EXCEPT ![c] = Append(@, "reboot")]
               /\ Return(c, "ok")
      <3>1. effects'[c] = <<"reboot">>
        BY <1>1, <2>3, EffectsAre DEF Variables
      <3> QED
        BY <2>3, <3>1 DEF Return, Variables
    <2> QED
      BY <2>1, <2>2, <2>3
  <1>6. Variables'
    BY <1>1, <1>3, <1>5 DEF Variables
  <1>7. Control(c)'
    BY <1>1, <1>4, <1>5, AskedStays, EffectsAre DEF Control, Returned
  <1>8. Sight(c)' /\ Bare(c)'
    BY <1>1, <1>5 DEF Sight, Bare, Acts
  <1> QED
    BY <1>1, <1>3, <1>5, <1>6, <1>7, <1>8, CallKeeps

LEMMA TaskEndsKeeps ==
  ASSUME Inv, NEW c \in Clients, TaskEnds(c)
  PROVE  Inv'
  <1> USE DEF Inv
  <1>1. /\ pc[c] \in {"submit", "powerOff"} /\ task[c].state = "success"
        /\ UNCHANGED <<call, seen, effects, bare, power, place, tree>>
        /\ outcome[c] = "pending" /\ task[c].op # "none"
    BY DEF TaskEnds, Control
  <1>2. /\ task' \in [Clients -> [op : Tasks \cup {"none"},
                           state : {"none", "running", "success", "error"}]]
        /\ task'[c].op = "none" /\ task'[c].state = "none"
        /\ \A d \in Clients : d # c => task'[d] = task[d]
    BY DEF TaskEnds, Variables, NoTask
  <1>3. /\ pc' \in [Clients -> {"idle", "read", "reboot", "powerOff", "submit",
                                "done"}]
        /\ outcome' \in [Clients -> {"pending", "ok", "err"}]
        /\ \/ /\ pc[c] = "powerOff"
              /\ pc'[c] = "submit" /\ outcome'[c] = outcome[c]
           \/ /\ pc[c] = "submit"
              /\ pc'[c] = "done" /\ outcome'[c] = "ok"
        /\ \A d \in Clients :
             d # c => pc'[d] = pc[d] /\ outcome'[d] = outcome[d]
    BY DEF TaskEnds, Return, Goto, Variables
  <1>4. Variables'
    BY <1>1, <1>2, <1>3 DEF Variables
  <1>5. Control(c)'
    <2>1. CASE pc[c] = "submit"
      <3>1. effects[c] \in Asked(c)
        BY <1>1, <2>1, EffectsAre DEF Control
      <3>2. Asked(c) \subseteq Returned(c)'
        BY <1>3, <2>1, AskedStays, <1>1 DEF Returned
      <3> QED
        BY <1>1, <1>2, <1>3, <2>1, <3>1, <3>2, AskedStays, EffectsAre
           DEF Control
    <2>2. CASE pc[c] = "powerOff"
      <3>1. effects[c] \in Begun(c)
        BY <1>1, <2>2, EffectsAre DEF Control
      <3>2. Returned(c)' = Begun(c)
        BY <1>3, <2>2, AskedStays, <1>1 DEF Returned
      <3> QED
        BY <1>1, <1>2, <1>3, <2>2, <3>1, <3>2, AskedStays, EffectsAre
           DEF Control
    <2> QED
      BY <1>1, <2>1, <2>2
  <1>6. Sight(c)'
    BY <1>1, <1>2, <1>3 DEF Sight, Acts, Forced
  <1>7. Bare(c)'
    BY <1>1, <1>2, <1>3 DEF Bare
  <1> QED
    BY <1>1, <1>2, <1>3, <1>4, <1>5, <1>6, <1>7, CallKeeps

LEMMA WaitFailsKeeps ==
  ASSUME Inv, NEW c \in Clients, WaitFails(c)
  PROVE  Inv'
  <1> USE DEF Inv
  <1>1. /\ pc[c] \in {"submit", "powerOff"} /\ task[c].op # "none"
        /\ UNCHANGED <<call, seen, task, effects, bare, power, place, tree>>
    BY DEF WaitFails, Control
  <1>2. /\ pc' \in [Clients -> {"idle", "read", "reboot", "powerOff", "submit",
                                "done"}]
        /\ outcome' \in [Clients -> {"pending", "ok", "err"}]
        /\ pc'[c] = "done" /\ outcome'[c] = "err"
        /\ \A d \in Clients :
             d # c => pc'[d] = pc[d] /\ outcome'[d] = outcome[d]
    BY DEF WaitFails, Return, Variables
  <1>3. Variables'
    BY <1>1, <1>2 DEF Variables
  <1>4. Control(c)'
    BY <1>1, <1>2, AskedStays DEF Control
  <1>5. Sight(c)'
    BY <1>1, <1>2 DEF Sight, Acts, Forced
  <1>6. Bare(c)'
    BY <1>1, <1>2 DEF Bare
  <1> QED
    BY <1>1, <1>2, <1>3, <1>4, <1>5, <1>6, CallKeeps

-----------------------------------------------------------------------------
(* The server.                                                             *)

\* A task that is carried out may leave another tree behind.
LEMMA ExecuteKeeps ==
  ASSUME Inv, NEW c \in Clients, NEW op, Execute(c, op),
         power' \in Powers,
         place' \in {"inventory", "unregistered", "destroyed"},
         Forest(tree'), Follows(tree, tree'),
         bare' \in [Clients -> BOOLEAN],
         \A d \in Clients :
           /\ bare[d] => bare'[d]
           /\ tree'.ids = {} => bare'[d] \/ tree.ids = {}
           /\ op = "removeAll" => bare'[d]
  PROVE  Inv'
  <1> USE DEF Inv
  <1>1. /\ task' \in [Clients -> [op : Tasks \cup {"none"},
                           state : {"none", "running", "success", "error"}]]
        /\ effects' \in [Clients -> Seq(Tasks \cup {"reboot", "unregister"})]
        /\ task[c].op = op /\ task[c].state = "running"
        /\ task'[c].op = op /\ task'[c].state = "success"
        /\ op \in Tasks /\ op # "none"
        /\ effects'[c] = Append(effects[c], op)
        /\ \A d \in Clients :
             d # c => task'[d] = task[d] /\ effects'[d] = effects[d]
        /\ UNCHANGED <<call, pc, seen, outcome>>
    <2>1. /\ task[c] = [op |-> op, state |-> "running"]
          /\ task' = [task EXCEPT ![c].state = "success"]
          /\ effects' = [effects EXCEPT ![c] = Append(@, op)]
          /\ UNCHANGED <<call, pc, seen, outcome>>
      BY DEF Execute, client
    <2>2. task[c].op = op /\ task[c].state = "running"
      BY <2>1
    <2>3. op \in Tasks /\ op # "none"
      BY <2>2 DEF Control, Variables, Tasks
    <2>4. effects' \in [Clients -> Seq(Tasks \cup {"reboot", "unregister"})]
      BY <2>1, <2>3, AppendProperties DEF Variables
    <2> QED
      BY <2>1, <2>2, <2>3, <2>4 DEF Variables
  <1>2. Variables'
    BY <1>1 DEF Variables
  <1>3. ASSUME NEW d \in Clients PROVE Control(d)'
    <2>1. CASE d # c
      <3>1. Returned(d)' = Returned(d)
        BY <1>1, <2>1, AskedStays DEF Returned
      <3> QED
        BY <1>1, <2>1, <3>1, AskedStays DEF Control
    <2>2. CASE d = c /\ op = Final(c)
      <3>1. effects[c] \in Begun(c)
        BY <1>1, <2>2 DEF Control
      <3>2. effects'[c] \in Complete(c)
        BY <1>1, <2>2, <3>1, EffectsAre
      <3> QED
        <4>1. /\ task'[c].op = Final(c)' /\ task'[c].state = "success"
              /\ task'[c].op # "none" /\ Final(c)' = Final(c)
              /\ Complete(c)' = Complete(c)
              /\ pc'[c] = pc[c] /\ outcome'[c] = outcome[c]
              /\ Deletes(c)' = Deletes(c) /\ Forced(c)' = Forced(c)
          BY <1>1, <2>2, AskedStays DEF Deletes
        <4>2. /\ pc[c] \notin {"idle", "read", "reboot"} /\ outcome[c] # "ok"
              /\ (outcome[c] = "pending" <=> pc[c] # "done")
              /\ (pc[c] = "powerOff" =>
                    Deletes(c) /\ Forced(c) /\ op = "powerOff")
          BY <1>1 DEF Control
        <4> HIDE DEF Inv
        <4>3. Control(c)'
          BY <1>1, <3>2, <4>1, <4>2 DEF Control
        <4> QED
          BY <2>2, <4>3
    <2>3. CASE d = c /\ op # Final(c)
      <3>1. effects[c] = <<>> /\ op = "powerOff" /\ Deletes(c) /\ Forced(c)
            /\ pc[c] # "submit"
        BY <1>1, <2>3 DEF Control
      <3>2. effects'[c] = <<"powerOff">>
        BY <1>1, <3>1, EffectsAre
      <3> QED
        <4>1. task'[c].op = "powerOff" /\ Final(c) # "powerOff"
          BY <1>1, <2>3, <3>1
        <4>2. pc[c] \notin {"idle", "read", "reboot"} /\ outcome[c] # "ok"
              /\ (outcome[c] = "pending" <=> pc[c] # "done")
          BY <1>1 DEF Control
        <4>3. /\ task'[c].state = "success" /\ pc'[c] = pc[c]
              /\ outcome'[c] = outcome[c] /\ Final(c)' = Final(c)
              /\ Deletes(c)' /\ Forced(c)'
          BY <1>1, <3>1, AskedStays
        <4> HIDE DEF Inv
        <4>4. Control(c)'
          BY <3>1, <3>2, <4>1, <4>2, <4>3 DEF Control
        <4> QED
          BY <2>3, <4>4
    <2> QED
      BY <2>1, <2>2, <2>3
  <1>4. ASSUME NEW d \in Clients PROVE Sight(d)'
    <2>1. Acts(d)' <=> Acts(d)
      BY <1>1 DEF Acts
    <2>2. ASSUME Acts(d), call[d].op \in {"remove", "revert"}
          PROVE  /\ seen[d].target \in 1..tree'.made
                 /\ tree'.label[seen[d].target] = call[d].name
                 /\ \A r \in tree'.above[seen[d].target] :
                      tree'.label[r] # call[d].name
      <3>1. /\ seen[d].target \in 1..tree.made
            /\ tree.label[seen[d].target] = call[d].name
            /\ \A r \in tree.above[seen[d].target] :
                 tree.label[r] # call[d].name
        BY <2>2 DEF Sight
      <3>2. tree.made \in Nat /\ tree'.made \in Nat /\ tree.made <= tree'.made
            /\ seen[d].target \in Ids
        BY <3>1, TreeIs DEF Follows, Ids
      <3>3. ASSUME NEW r \in tree'.above[seen[d].target]
            PROVE  tree'.label[r] # call[d].name
        <4>1. r \in tree.above[seen[d].target]
          BY <3>1 DEF Follows
        <4>2. r \in 1..tree.made
          <5>1. r \in 1..(seen[d].target - 1)
            BY <3>2, <4>1 DEF Forest
          <5> QED
            BY <3>1, <3>2, <5>1
        <4> QED
          BY <3>1, <4>1, <4>2 DEF Follows
      <3> QED
        BY <3>1, <3>2, <3>3 DEF Follows
    <2>3. ASSUME Acts(d), call[d].op = "delete", ~Forced(d)
          PROVE  /\ seen[d].ids = {} /\ seen[d].made <= tree'.made
                 /\ \A s \in tree'.ids : s > seen[d].made
      <3>1. /\ seen[d].ids = {} /\ seen[d].made <= tree.made
            /\ \A s \in tree.ids : s > seen[d].made
        BY <2>3 DEF Sight
      <3>2. /\ tree.made \in Nat /\ tree'.made \in Nat
            /\ tree'.ids \subseteq Nat /\ seen[d].made \in Nat
        BY TreeIs DEF Variables
      <3> QED
        BY <3>1, <3>2 DEF Follows
    <2> QED
      BY <1>1, <2>1, <2>2, <2>3 DEF Sight, Forced
  <1>5. ASSUME NEW d \in Clients PROVE Bare(d)'
    <2>1. CASE d # c
      BY <1>1, <2>1 DEF Bare
    <2>2. CASE d = c
      <3>1. pc[c] # "idle" /\ outcome[c] # "ok"
        BY <1>1 DEF Control
      <3>2. call[c].op = "removeAll" => op = "removeAll"
        BY <1>1 DEF Control, Final, Deletes
      <3> QED
        BY <1>1, <2>2, <3>1, <3>2 DEF Bare
    <2> QED
      BY <2>1, <2>2
  <1> QED
    BY <1>2, <1>3, <1>4, <1>5

LEMMA SetTreeIs ==
  ASSUME Variables, NEW t, SetTree(t)
  PROVE  /\ tree' = t /\ bare' \in [Clients -> BOOLEAN]
         /\ \A d \in Clients :
              (bare[d] => bare'[d]) /\ (t.ids = {} => bare'[d])
  BY DEF SetTree, Variables

LEMMA ServerKeeps ==
  ASSUME Inv, NEW c \in Clients,
         \/ ExecutePower(c) \/ ExecuteCreate(c) \/ ExecuteRemove(c)
         \/ ExecuteRemoveAll(c) \/ ExecuteRevert(c) \/ ExecuteDestroy(c)
  PROVE  Inv'
  <1> USE DEF Inv
  <1>1. power \in Powers
        /\ place \in {"inventory", "unregistered", "destroyed"}
    BY DEF Variables
  <1>2. ASSUME NEW op, op # "removeAll", Execute(c, op), NEW t, SetTree(t),
               Forest(t), Follows(tree, t), power' \in Powers,
               place' \in {"inventory", "unregistered", "destroyed"}
        PROVE  Inv'
    BY <1>2, SetTreeIs, ExecuteKeeps
  <1>3. CASE ExecutePower(c)
    <2>1. PICK op \in {"powerOn", "powerOff", "reset"} : Execute(c, op)
      BY <1>3 DEF ExecutePower
    <2>2. power' \in Powers /\ UNCHANGED <<bare, place, tree>>
      BY <1>1, <1>3 DEF ExecutePower, Powers
    <2>3. Follows(tree, tree')
      BY <2>2, TreeIs DEF Follows
    <2>4. bare' \in [Clients -> BOOLEAN]
      BY <2>2 DEF Variables
    <2> QED
      BY <1>1, <2>1, <2>2, <2>3, <2>4, ExecuteKeeps
  <1>4. CASE ExecuteCreate(c)
    <2>1. /\ Execute(c, "create") /\ tree.made < MaxSnapshots
          /\ UNCHANGED <<power, place>>
      BY <1>4 DEF ExecuteCreate
    <2>2. PICK p \in {"off", power} : SetTree(Take(tree, call[c].name, p))
      BY <1>4 DEF ExecuteCreate
    <2>3. Forest(Take(tree, call[c].name, p))
          /\ Follows(tree, Take(tree, call[c].name, p))
      BY <1>1, <2>1, CallIs, TakeIs DEF Powers
    <2> QED
      BY <1>1, <1>2, <2>1, <2>2, <2>3
  <1>5. CASE ExecuteRemove(c)
    <2> DEFINE t == Prune(tree, seen[c].target, call[c].children)
    <2>1. /\ Execute(c, "remove") /\ seen[c].target \in tree.ids
          /\ SetTree(t) /\ UNCHANGED <<power, place>>
      BY <1>5 DEF ExecuteRemove
    <2>2. Forest(t) /\ Follows(tree, t)
      BY <2>1, CallIs, PruneIs
    <2> QED
      BY <1>1, <1>2, <2>1, <2>2
  <1>6. CASE ExecuteRemoveAll(c)
    <2>1. Execute(c, "removeAll") /\ SetTree(PruneAll(tree))
          /\ UNCHANGED <<power, place>>
      BY <1>6 DEF ExecuteRemoveAll
    <2> QED
      BY <1>1, <2>1, PruneAllIs, SetTreeIs, ExecuteKeeps
  <1>7. CASE ExecuteRevert(c)
    <2> DEFINE t == [tree EXCEPT !.current = seen[c].target]
    <2>1. /\ Execute(c, "revert") /\ seen[c].target \in tree.ids
          /\ SetTree(t) /\ UNCHANGED place
      BY <1>7 DEF ExecuteRevert
    <2>2. power' \in Powers
      BY <1>7, <2>1, TreeIs DEF ExecuteRevert, Powers
    <2>3. Forest(t) /\ Follows(tree, t)
      BY <2>1, RevertIs
    <2> QED
      BY <1>1, <1>2, <2>1, <2>2, <2>3
  <1>8. CASE ExecuteDestroy(c)
    <2>1. Execute(c, "delete") /\ SetTree(PruneAll(tree))
          /\ UNCHANGED power /\ place' = "destroyed"
      BY <1>8 DEF ExecuteDestroy
    <2> QED
      BY <1>1, <1>2, <2>1, PruneAllIs
  <1> QED
    BY <1>3, <1>4, <1>5, <1>6, <1>7, <1>8

LEMMA ExecuteFailsKeeps ==
  ASSUME Inv, NEW c \in Clients, ExecuteFails(c)
  PROVE  Inv'
  <1> USE DEF Inv
  <1>1. /\ task' \in [Clients -> [op : Tasks \cup {"none"},
                           state : {"none", "running", "success", "error"}]]
        /\ task[c].state = "running"
        /\ task'[c].op = task[c].op /\ task'[c].state = "error"
        /\ \A d \in Clients : d # c => task'[d] = task[d]
        /\ UNCHANGED <<call, pc, seen, outcome, effects, bare, power, place,
                       tree>>
    BY DEF ExecuteFails, client, Variables
  <1>2. Variables'
    BY <1>1 DEF Variables
  <1>3. Control(c)'
    BY <1>1, AskedStays DEF Control
  <1>4. Sight(c)' /\ Bare(c)'
    BY <1>1 DEF Sight, Bare, Acts, Forced
  <1> QED
    BY <1>1, <1>2, <1>3, <1>4, CallKeeps

LEMMA StepKeeps ==
  ASSUME Inv, [Next]_vars
  PROVE  Inv'
  <1>1. CASE UNCHANGED vars
    <2>1. Variables' /\ Forest(tree)'
      BY <1>1 DEF Inv, vars, Variables
    <2>2. ASSUME NEW c \in Clients PROVE Control(c)'
      <3>1. Returned(c)' = Returned(c)
        BY <1>1, AskedStays DEF vars, Returned
      <3> QED
        BY <1>1, <3>1, AskedStays DEF Inv, vars, Control
    <2>3. ASSUME NEW c \in Clients PROVE Sight(c)' /\ Bare(c)'
      BY <1>1 DEF Inv, vars, Sight, Bare, Acts, Forced
    <2> QED
      BY <2>1, <2>2, <2>3 DEF Inv
  <1>2. ASSUME NEW c \in Clients, Library(c) PROVE Inv'
    BY <1>2, BeginKeeps, StepFailsKeeps, ReadsKeep, SubmitKeeps,
       UnregisterKeeps, RebootKeeps, TaskEndsKeeps, WaitFailsKeeps DEF Library
  <1>3. ASSUME NEW c \in Clients, Server(c) PROVE Inv'
    BY <1>3, ServerKeeps, ExecuteFailsKeeps DEF Server
  <1> QED
    BY <1>1, <1>2, <1>3 DEF Next

-----------------------------------------------------------------------------
(* The theorems.                                                           *)

\* What is done for a call is known from where it is, and what it has seen of
\* the snapshots stays true.
THEOREM Inductive == Spec => []Inv
  BY InitHolds, StepKeeps, PTL DEF Spec

\* The snapshots form a forest, and a call that acts on one has found one.
THEOREM TypeCorrect == Spec => []TypeOK
  <1>1. ASSUME Inv PROVE TypeOK
    <2>1. \A s \in tree.ids :
            tree.above[s] \subseteq tree.ids \cap (1..(s - 1))
      BY <1>1, TreeIs DEF Inv, Forest
    <2>2. /\ tree \in Tree /\ tree.ids \subseteq 1..tree.made
          /\ tree.current \in tree.ids \cup {0}
      BY <1>1 DEF Inv, Forest
    <2>3. \A c \in Clients :
            pc[c] = "submit" /\ call[c].op \in {"remove", "revert"}
              => seen[c].target \in 1..tree.made
      BY <1>1 DEF Inv, Sight, Acts
    <2> QED
      BY <1>1, <2>1, <2>2, <2>3 DEF Inv, Variables, TypeOK
  <1> QED
    BY <1>1, Inductive, PTL

\* The server does for a call at most what it asked for, in order and once,
\* and all of it before the call returns nil (RestartVM, DeleteVM and the
\* other calls).
THEOREM OnlyWhatIsAsked == Spec => []EffectsAreAsked
  <1>1. ASSUME Inv PROVE EffectsAreAsked
    <2> SUFFICES ASSUME NEW c \in Clients
                 PROVE  /\ \E e \in Asked(c) : IsPrefix(effects[c], e)
                        /\ outcome[c] = "ok" =>
                             effects[c] \in Asked(c) \cup
                               (IF call[c].op = "removeAll"
                                THEN {<<>>} ELSE {})
      BY DEF EffectsAreAsked
    <2> USE <1>1 DEF Inv
    <2>1. pc[c] \in {"idle", "read", "reboot", "powerOff", "submit", "done"}
          /\ outcome[c] \in {"pending", "ok", "err"}
      BY DEF Variables
    <2>2. outcome[c] = "ok" =>
            effects[c] \in Asked(c) \cup
              (IF call[c].op = "removeAll" THEN {<<>>} ELSE {})
      <3>1. ASSUME outcome[c] = "ok"
            PROVE  pc[c] = "done" /\ effects[c] \in Returned(c)
        BY <3>1 DEF Control
      <3> QED
        BY <3>1 DEF Returned
    <2>3. effects[c] \in Begun(c) \cup Asked(c) \cup {<<>>}
      BY <2>1, EffectsAre DEF Control, Returned
    <2>4. ASSUME NEW e \in Begun(c) \cup Asked(c) \cup {<<>>}
          PROVE  \E f \in Asked(c) : IsPrefix(e, f)
      <3>1. CASE call[c].op = "restart"
        <4>1. e \in {<<>>, <<"reboot">>, <<"reset">>, <<"reboot", "reset">>}
          BY <3>1 DEF Begun, Asked, Deletes
        <4>2. <<"reset">> \in Asked(c) /\ <<"reboot", "reset">> \in Asked(c)
          BY <3>1 DEF Asked, Deletes
        <4> QED
          BY <4>1, <4>2, PrefixIs
      <3>2. CASE call[c].op # "restart" /\ Deletes(c) /\ Forced(c)
        BY <3>2, PrefixIs DEF Begun, Asked
      <3>3. CASE call[c].op # "restart" /\ ~(Deletes(c) /\ Forced(c))
        BY <3>3, PrefixIs DEF Begun, Asked
      <3> QED
        BY <3>1, <3>2, <3>3
    <2> QED
      BY <2>2, <2>3, <2>4
  <1> QED
    BY <1>1, Inductive, PTL

\* No step of anyone gives a snapshot another name, puts a snapshot above one
\* that it was not above, or brings back one that is gone.  What a call has read
\* before it asks for a task is therefore never wrong later, only incomplete
\* (findSnapshotByName before DeleteSnapshot and RevertToSnapshot).
THEOREM TreeOnlyFollows == Spec => [][Follows(tree, tree')]_vars
  <1>1. ASSUME Inv, [Next]_vars PROVE Follows(tree, tree')
    <2> USE <1>1 DEF Inv
    <2>1. CASE UNCHANGED tree
      BY <2>1, TreeIs DEF Follows
    <2>2. ASSUME NEW c \in Clients, ExecuteCreate(c)
          PROVE  Follows(tree, tree')
      <3>1. /\ Execute(c, "create") /\ tree.made < MaxSnapshots
            /\ \E p \in {"off", power} : tree' = Take(tree, call[c].name, p)
        BY <2>2 DEF ExecuteCreate, SetTree
      <3>2. power \in Powers
        BY DEF Variables
      <3> QED
        BY <3>1, <3>2, CallIs, TakeIs DEF Powers
    <2>3. ASSUME NEW c \in Clients, ExecuteRemove(c)
          PROVE  Follows(tree, tree')
      <3>1. /\ seen[c].target \in tree.ids
            /\ tree' = Prune(tree, seen[c].target, call[c].children)
        BY <2>3 DEF ExecuteRemove, SetTree
      <3> QED
        BY <3>1, CallIs, PruneIs
    <2>4. ASSUME NEW c \in Clients, ExecuteRemoveAll(c) \/ ExecuteDestroy(c)
          PROVE  Follows(tree, tree')
      BY <2>4, PruneAllIs DEF ExecuteRemoveAll, ExecuteDestroy, SetTree
    <2>5. ASSUME NEW c \in Clients, ExecuteRevert(c)
          PROVE  Follows(tree, tree')
      BY <2>5, RevertIs DEF ExecuteRevert, SetTree
    <2> QED
      BY <2>1, <2>2, <2>3, <2>4, <2>5
         DEF Next, Library, Server, Begin, StepFails, ReadSnapshot, ReadAll,
             ReadDelete, SubmitOperation, SubmitPowerOff, Submit, Unregister,
             RebootGuest, TaskEnds, WaitFails, ExecutePower, ExecuteFails, vars
  <1> QED
    BY <1>1, Inductive, PTL DEF Spec

\* DeleteAllSnapshots returns nil only if there was a moment without
\* snapshots since it was called.
THEOREM NothingWasLeft == Spec => []DeleteAllIsHonest
  <1>1. Inv => DeleteAllIsHonest
    BY DEF Inv, Bare, DeleteAllIsHonest
  <1> QED
    BY <1>1, Inductive, PTL

\* DeleteSnapshot and RevertToSnapshot act on the outermost snapshot of the
\* name in its branch.
THEOREM Outermost == Spec => []ActsOnOutermost
  <1>1. Inv => ActsOnOutermost
    BY DEF Inv, Sight, Acts, ActsOnOutermost
  <1> QED
    BY <1>1, Inductive, PTL

\* DeleteVM without force destroys no snapshot it could have seen.
THEOREM TheSeenIsSpared == Spec => UnforcedSparesTheSeen
  <1>1. ASSUME Inv, [Next]_vars
        PROVE  \A c \in Clients :
                 Destroys(c) /\ ~Forced(c) =>
                   /\ tree.ids \cap seen[c].ids = {}
                   /\ \A s \in tree.ids : s > seen[c].made
    <2> SUFFICES ASSUME NEW c \in Clients, Destroys(c), ~Forced(c)
                 PROVE  /\ tree.ids \cap seen[c].ids = {}
                        /\ \A s \in tree.ids : s > seen[c].made
      OBVIOUS
    <2>1. task[c].op = "delete"
      BY DEF Destroys
    <2>2. call[c].op = "delete"
      BY <1>1, <2>1 DEF Inv, Control, Final
    <2> QED
      BY <1>1, <2>1, <2>2 DEF Inv, Sight, Acts
  <1> QED
    BY <1>1, Inductive, PTL DEF Spec, UnforcedSparesTheSeen

\* A snapshot disappears only by a call that found it, or one above it, under
\* the name it was given, or that removes all (DeleteSnapshot).
THEOREM OnlyTheNamed == Spec => OnlyTheNamedIsLost
  <1>1. ASSUME Inv, [Next]_vars
        PROVE  \A s \in tree.ids \ tree'.ids : \E c \in Clients :
                 /\ task[c].state = "running" /\ task'[c].state = "success"
                 /\ \/ task[c].op \in {"removeAll", "delete"}
                    \/ /\ task[c].op = "remove"
                       /\ \/ tree.label[s] = call[c].name
                          \/ /\ call[c].children
                             /\ \E r \in tree.above[s] :
                                  tree.label[r] = call[c].name
    <2> SUFFICES ASSUME NEW s \in tree.ids \ tree'.ids
                 PROVE  \E c \in Clients :
                   /\ task[c].state = "running" /\ task'[c].state = "success"
                   /\ \/ task[c].op \in {"removeAll", "delete"}
                      \/ /\ task[c].op = "remove"
                         /\ \/ tree.label[s] = call[c].name
                            \/ /\ call[c].children
                               /\ \E r \in tree.above[s] :
                                    tree.label[r] = call[c].name
      OBVIOUS
    <2> USE <1>1 DEF Inv
    <2>1. PICK c \in Clients :
            \/ ExecuteCreate(c) \/ ExecuteRemove(c) \/ ExecuteRemoveAll(c)
            \/ ExecuteRevert(c) \/ ExecuteDestroy(c)
      <3>1. tree' # tree
        OBVIOUS
      <3> QED
        BY <3>1 DEF Next, Library, Server, Begin, StepFails, ReadSnapshot,
                    ReadAll, ReadDelete, SubmitOperation, SubmitPowerOff,
                    Submit, Unregister, RebootGuest, TaskEnds, WaitFails,
                    ExecutePower, ExecuteFails, vars
    <2>2. ASSUME NEW op, Execute(c, op)
          PROVE  /\ task[c].op = op /\ task[c].state = "running"
                 /\ task'[c].state = "success" /\ task[c].op # "none"
      <3>1. /\ task[c] = [op |-> op, state |-> "running"]
            /\ task' = [task EXCEPT ![c].state = "success"]
        BY <2>2 DEF Execute
      <3>2. task[c].op = op /\ task[c].state = "running"
        BY <3>1
      <3> QED
        BY <3>1, <3>2 DEF Variables, Control
    <2>3. CASE ExecuteCreate(c)
      <3>1. PICK p : tree' = Take(tree, call[c].name, p)
        BY <2>3 DEF ExecuteCreate, SetTree
      <3>2. tree \in Tree
        BY DEF Forest
      <3>3. tree.ids \subseteq tree'.ids
        BY <3>1, <3>2 DEF Take, Tree
      <3> QED
        BY <3>3
    <2>4. CASE ExecuteRevert(c)
      <3>1. tree'.ids = tree.ids
        BY <2>4, RevertIs DEF ExecuteRevert, SetTree
      <3> QED
        BY <3>1
    <2>5. CASE ExecuteRemoveAll(c) \/ ExecuteDestroy(c)
      BY <2>2, <2>5 DEF ExecuteRemoveAll, ExecuteDestroy
    <2>6. CASE ExecuteRemove(c)
      <3> DEFINE found == seen[c].target
      <3>1. /\ Execute(c, "remove") /\ found \in tree.ids
            /\ tree' = Prune(tree, found, call[c].children)
        BY <2>6 DEF ExecuteRemove, SetTree
      <3>2. task[c].op = "remove" /\ call[c].op = "remove"
        BY <2>2, <3>1 DEF Control, Final
      <3>3. tree.label[found] = call[c].name
        BY <3>2 DEF Sight, Acts
      <3>4. tree \in Tree
        BY DEF Forest
      <3>5. s = found \/ (call[c].children /\ found \in tree.above[s])
        BY <3>1, <3>4 DEF Prune, Tree
      <3> QED
        BY <2>2, <3>1, <3>2, <3>3, <3>5
    <2> QED
      BY <2>1, <2>3, <2>4, <2>5, <2>6
  <1> QED
    BY <1>1, Inductive, PTL DEF Spec, OnlyTheNamedIsLost
=============================================================================
