---------------------------- MODULE FilesProofs -----------------------------
(***************************************************************************)
(* Proofs about Files, for any number of processes, credentials and        *)
(* secrets, and texts of any size: what is on disk after the last save,    *)
(* that credentials are kept, and that a template spares what it saw.      *)
(*                                                                         *)
(* The argument is the same for all of them: a write that is not disturbed *)
(* is alone, and alone it finds the file as opening left it, empty.  A     *)
(* store that is based on what is on disk has every credential saved, and  *)
(* only the process that opened the file can still have one.               *)
(***************************************************************************)
EXTENDS Files, TLAPS

\* A write that is not disturbed is the only one, and the file is empty.
Alone ==
  ~disturbed =>
    \A p, q \in Processes :
      pc[p] = "write" =>
        /\ file = Torn(0)
        /\ pc[q] = "write" => p = q

Sparing ==
  \A p \in Processes :
    /\ pc[p] = "open" /\ doc[p].form = "template" => file = Absent \/ absent[p]
    /\ pc[p] = "write" => file # Absent

\* What is written is the store, which stays as it is meanwhile.  Processes
\* that handle the configuration have none.
Held ==
  /\ \A p \in Processes : pc[p] \in {"open", "write"} => doc[p].names = store[p]
  /\ which = "config" => kept = {} /\ \A p \in Processes :
                                      store[p] = {} /\ basis[p] = "none"

\* While nobody has been careless, a store based on what is on disk, and what
\* is on disk itself, have all that was ever saved; and who writes the file is
\* the only one with such a store.
Kept ==
  which = "store" /\ ~careless =>
    /\ file = Absent => kept = {}
    /\ file.state = "whole" => kept \subseteq file.doc.names
    /\ \A p \in Processes : basis[p] = "disk" => kept \subseteq store[p]
    /\ \A p \in Processes : pc[p] = "write" =>
         /\ file.state = "torn" /\ basis[p] = "disk"
         /\ \A q \in Processes : basis[q] = "disk" => q = p

Inv == TypeOK /\ Alone /\ LastSaveIsThere /\ Sparing /\ Held /\ Kept

-----------------------------------------------------------------------------
(* The contents of a file.                                                 *)

LEMMA Sizes ==
  /\ MaxSize \in Nat /\ 0 \in 0..MaxSize
  /\ \A n \in 1..MaxSize : n \in 0..MaxSize /\ n # 0
  <1>1. MaxSize \in Nat \ {0}
    BY FilesAssumption
  <1> QED
    BY <1>1

LEMMA TornIs ==
  ASSUME NEW n \in 0..MaxSize
  PROVE  /\ Torn(n) \in Content /\ Torn(n) # Absent
         /\ Torn(n).state = "torn" /\ Torn(n).size = n
         /\ \A d : Torn(n) # Whole(d)
  BY DEF Torn, Absent, Whole, Content

LEMMA WholeIs ==
  ASSUME NEW d \in Doc
  PROVE  /\ Whole(d) \in Content /\ Whole(d) # Absent
         /\ Whole(d).state = "whole" /\ Whole(d).doc = d
         /\ Whole(d).size = d.size
  BY DEF Absent, Whole, Content

LEMMA AbsentIs == Absent \in Content /\ Absent.state = "absent"
  BY DEF Absent, Content

LEMMA NoDocIs == NoDoc \notin Doc /\ NoDoc.names = {}
  BY DEF NoDoc, Doc, Forms

LEMMA DocIs ==
  ASSUME NEW d \in Doc
  PROVE  d.size \in 1..MaxSize /\ d.names \subseteq Entries
  BY DEF Doc

LEMMA ContentIs ==
  ASSUME NEW f \in Content
  PROVE  /\ f.size \in 0..MaxSize
         /\ f.state = "whole" => f.doc \in Doc /\ f = Whole(f.doc)
  <1>1. CASE f = Absent
    BY <1>1, Sizes DEF Absent
  <1>2. CASE \E n \in 0..MaxSize : f = Torn(n)
    BY <1>2 DEF Torn
  <1>3. CASE \E d \in Doc : f = Whole(d)
    BY <1>3, DocIs, Sizes DEF Whole
  <1> QED
    BY <1>1, <1>2, <1>3 DEF Content

-----------------------------------------------------------------------------
(* The types, in three parts.                                              *)

Called ==
  /\ pc \in [Processes -> {"idle", "template", "open", "write"}]
  /\ doc \in [Processes -> Doc \cup {NoDoc}]
  /\ absent \in [Processes -> BOOLEAN]
  /\ \A p \in Processes : pc[p] \in {"open", "write"} <=> doc[p] # NoDoc

Remembered ==
  /\ store \in [Processes -> SUBSET Entries]
  /\ basis \in [Processes -> {"none", "disk", "past"}]

OnDisk ==
  /\ which \in {"config", "store"} /\ file \in Content
  /\ disturbed \in BOOLEAN /\ last \in Doc \cup {NoDoc}
  /\ kept \subseteq Entries /\ careless \in BOOLEAN

LEMMA Parts == TypeOK <=> Called /\ Remembered /\ OnDisk
  BY DEF TypeOK, Called, Remembered, OnDisk

LEMMA BeginMoves ==
  ASSUME TypeOK, NEW p \in Processes, NEW d \in Doc, BeginWrite(p, d)
  PROVE  /\ Called' /\ pc'[p] = "open" /\ doc'[p] = d
         /\ UNCHANGED <<disk, memory>>
         /\ \A q \in Processes : q # p => /\ pc'[q] = pc[q] /\ doc'[q] = doc[q]
                                          /\ absent'[q] = absent[q]
  BY NoDocIs DEF TypeOK, Called, BeginWrite

LEMMA FinishMoves ==
  ASSUME TypeOK, NEW p \in Processes, Finish(p)
  PROVE  /\ Called' /\ pc'[p] = "idle" /\ doc'[p] = NoDoc
         /\ \A q \in Processes : q # p => /\ pc'[q] = pc[q] /\ doc'[q] = doc[q]
                                          /\ absent'[q] = absent[q]
  BY NoDocIs DEF TypeOK, Called, Finish

LEMMA InitHolds == Init => Inv
  <1> SUFFICES ASSUME Init PROVE Inv
    OBVIOUS
  <1>1. TypeOK
    BY NoDocIs, AbsentIs DEF Init, TypeOK
  <1>2. Alone /\ Sparing /\ Held /\ Kept
    BY AbsentIs DEF Init, Alone, Sparing, Held, Kept
  <1>3. LastSaveIsThere
    BY DEF Init, LastSaveIsThere
  <1> QED
    BY <1>1, <1>2, <1>3 DEF Inv

-----------------------------------------------------------------------------
(* Steps before the file is opened, and steps in memory.                   *)

LEMMA PrepareKeeps ==
  ASSUME Inv, NEW p \in Processes, Called', UNCHANGED <<disk, memory>>,
         pc[p] # "write", pc'[p] # "write",
         \A q \in Processes : q # p => /\ pc'[q] = pc[q] /\ doc'[q] = doc[q]
                                       /\ absent'[q] = absent[q],
         pc'[p] = "open" => /\ doc'[p].names = store[p]
                            /\ doc'[p].form = "template" => file = Absent
  PROVE  Inv'
  <1> USE DEF Inv, disk, memory
  <1>1. TypeOK'
    BY DEF TypeOK, Called
  <1>2. \A q \in Processes : pc'[q] = "write" <=> pc[q] = "write"
    OBVIOUS
  <1>3. Alone'
    BY <1>2 DEF Alone
  <1>4. LastSaveIsThere'
    BY <1>2 DEF LastSaveIsThere, Settled, Writers
  <1>5. Sparing'
    BY <1>2 DEF Sparing
  <1>6. Held'
    BY <1>2 DEF Held
  <1>7. Kept'
    BY <1>2 DEF Kept
  <1> QED
    BY <1>1, <1>3, <1>4, <1>5, <1>6, <1>7

LEMMA MemoryKeeps ==
  ASSUME Inv, NEW p \in Processes, UNCHANGED <<disk, pc, doc, absent>>,
         pc[p] = "idle", which = "store",
         NEW names \in SUBSET Entries, NEW base \in {"none", "disk", "past"},
         store' = [store EXCEPT ![p] = names],
         basis' = [basis EXCEPT ![p] = base],
         base = "disk" /\ ~careless =>
           /\ kept \subseteq names
           /\ \A q \in Processes : pc[q] # "write"
  PROVE  Inv'
  <1> USE DEF Inv, disk
  <1>1. TypeOK'
    BY DEF TypeOK
  <1>2. Alone' /\ Sparing'
    BY DEF Alone, Sparing
  <1>3. LastSaveIsThere'
    BY DEF LastSaveIsThere, Settled, Writers
  <1>4. Held'
    BY DEF Held, TypeOK
  <1>5. Kept'
    BY DEF Kept, TypeOK
  <1> QED
    BY <1>1, <1>2, <1>3, <1>4, <1>5

LEMMA CallsKeep ==
  ASSUME Inv, NEW p \in Processes,
         \/ OpenFails(p) \/ Save(p) \/ EnsureConfigFile(p) \/ CreateTemplate(p)
         \/ SavePlaintext(p) \/ SaveEncrypted(p)
  PROVE  Inv'
  <1>1. TypeOK
    BY DEF Inv
  <1>2. ASSUME NEW d \in Doc, BeginWrite(p, d), pc[p] # "write",
               d.names = store[p], d.form = "template" => file = Absent
        PROVE  Inv'
    BY <1>1, <1>2, BeginMoves, PrepareKeeps
  <1>3. ASSUME Finish(p), UNCHANGED <<disk, memory>>, pc[p] # "write"
        PROVE  Inv'
    BY <1>1, <1>3, FinishMoves, PrepareKeeps
  <1>4. CASE OpenFails(p)
    BY <1>3, <1>4 DEF OpenFails
  <1>5. CASE Save(p)
    <2>1. PICK n \in 1..MaxSize :
            BeginWrite(p, [form |-> "config", names |-> {}, secret |-> "",
                           size |-> n])
      BY <1>5 DEF Save
    <2>2. [form |-> "config", names |-> {}, secret |-> "", size |-> n] \in Doc
      BY DEF Doc, Forms
    <2>3. store[p] = {} /\ pc[p] = "idle"
      BY <1>5 DEF Save, Inv, Held
    <2> QED
      BY <1>2, <2>1, <2>2, <2>3
  <1>6. CASE EnsureConfigFile(p)
    <2>1. /\ Called' /\ pc'[p] = "template" /\ pc[p] = "idle"
          /\ \A q \in Processes :
               q # p => /\ pc'[q] = pc[q] /\ doc'[q] = doc[q]
                        /\ absent'[q] = absent[q]
      BY <1>1, <1>6 DEF EnsureConfigFile, TypeOK, Called
    <2> QED
      BY <1>6, <2>1, PrepareKeeps DEF EnsureConfigFile
  <1>7. CASE CreateTemplate(p)
    <2>1. MaxSize \in 1..MaxSize
      <3>1. MaxSize \in Nat \ {0}
        BY FilesAssumption
      <3> QED
        BY <3>1
    <2>2. Template \in Doc /\ Template.names = {}
      BY <2>1 DEF Template, Doc, Forms
    <2>3. store[p] = {} /\ pc[p] # "write"
      BY <1>7 DEF CreateTemplate, Inv, Held
    <2> QED
      BY <1>2, <1>3, <1>7, <2>2, <2>3 DEF CreateTemplate
  <1>8. CASE SavePlaintext(p)
    <2>1. PICK n \in 1..MaxSize : BeginWrite(p, Plain(n, store[p]))
      BY <1>8 DEF SavePlaintext
    <2>2. /\ Plain(n, store[p]) \in Doc /\ Plain(n, store[p]).names = store[p]
          /\ Plain(n, store[p]).form = "plain"
      BY <1>1 DEF Plain, Doc, Forms, TypeOK
    <2>3. pc[p] = "idle"
      BY <1>8 DEF SavePlaintext
    <2> QED
      BY <1>2, <2>1, <2>2, <2>3
  <1>9. CASE SaveEncrypted(p)
    <2>1. PICK n \in 1..MaxSize, k \in Secrets :
            BeginWrite(p, Sealed(n, store[p], k))
      BY <1>9 DEF SaveEncrypted
    <2>2. /\ Sealed(n, store[p], k) \in Doc
          /\ Sealed(n, store[p], k).names = store[p]
          /\ Sealed(n, store[p], k).form = "sealed"
      BY <1>1 DEF Sealed, Doc, Forms, TypeOK
    <2>3. pc[p] = "idle"
      BY <1>9 DEF SaveEncrypted
    <2> QED
      BY <1>2, <2>1, <2>2, <2>3
  <1> QED
    BY <1>4, <1>5, <1>6, <1>7, <1>8, <1>9

LEMMA LoadsKeep ==
  ASSUME Inv, NEW p \in Processes,
         NewStore(p) \/ LoadPlaintext(p) \/ LoadEncrypted(p) \/ AddCredential(p)
  PROVE  Inv'
  <1> USE DEF Inv
  <1>1. TypeOK
    OBVIOUS
  <1>2. ASSUME NEW names \in SUBSET Entries, NEW base \in {"disk", "past"},
               LoadStore(p, names, base),
               base = "disk" => \/ file = Absent
                                \/ file.state = "whole" /\ names = file.doc.names
        PROVE  Inv'
    <2>1. ASSUME base = "disk", ~careless
          PROVE  kept \subseteq names /\ \A q \in Processes : pc[q] # "write"
      BY <1>2, <2>1, AbsentIs DEF Kept, LoadStore
    <2> QED
      BY <1>2, <2>1, MemoryKeeps DEF LoadStore
  <1>3. file.state = "whole" => file.doc.names \in SUBSET Entries
    BY <1>1, ContentIs, DocIs DEF TypeOK
  <1>4. CASE NewStore(p)
    BY <1>2, <1>4 DEF NewStore
  <1>5. CASE LoadPlaintext(p)
    BY <1>2, <1>3, <1>5 DEF LoadPlaintext
  <1>6. CASE LoadEncrypted(p)
    BY <1>2, <1>3, <1>6 DEF LoadEncrypted, Unsealed
  <1>7. CASE AddCredential(p)
    <2>1. PICK e \in Entries : store' = [store EXCEPT ![p] = store[p] \cup {e}]
      BY <1>7 DEF AddCredential
    <2>2. store[p] \cup {e} \in SUBSET Entries
      BY <1>1 DEF TypeOK
    <2>3. basis[p] \in {"none", "disk", "past"}
          /\ basis' = [basis EXCEPT ![p] = basis[p]]
      BY <1>1, <1>7 DEF TypeOK, AddCredential
    <2>4. which = "store" /\ pc[p] = "idle"
      BY <1>7 DEF AddCredential, Held, TypeOK
    <2>5. basis[p] = "disk" /\ ~careless =>
            /\ kept \subseteq store[p]
            /\ \A q \in Processes : pc[q] # "write"
      BY <2>4 DEF Kept
    <2>6. UNCHANGED <<disk, pc, doc, absent>>
      BY <1>7 DEF AddCredential
    <2> QED
      BY <2>1, <2>2, <2>3, <2>4, <2>5, <2>6, MemoryKeeps
  <1> QED
    BY <1>4, <1>5, <1>6, <1>7

-----------------------------------------------------------------------------
(* The file is opened, and written.                                        *)

LEMMA OpenKeeps ==
  ASSUME Inv, NEW p \in Processes, Open(p)
  PROVE  Inv'
  <1> USE DEF Inv, Open, Opened
  <1>1. file' = Torn(0) /\ file' # Absent /\ file'.state = "torn"
        /\ file' \in Content
    BY TornIs, Sizes
  <1>2. /\ pc[p] = "open" /\ pc'[p] = "write"
        /\ \A q \in Processes : q # p => pc'[q] = pc[q]
        /\ UNCHANGED <<which, doc, store, last, kept>>
    BY DEF TypeOK
  <1>3. /\ basis'[p] = basis[p]
        /\ \A q \in Processes : q # p => basis'[q] # "disk"
        /\ basis' \in [Processes -> {"none", "disk", "past"}]
    BY DEF TypeOK
  <1>4. TypeOK'
    <2>1. absent' \in [Processes -> BOOLEAN]
      BY DEF TypeOK
    <2>2. disturbed' \in BOOLEAN /\ careless' \in BOOLEAN
      BY DEF TypeOK
    <2>3. \A q \in Processes : pc'[q] \in {"open", "write"} <=> doc'[q] # NoDoc
      BY <1>2 DEF TypeOK
    <2>4. pc' \in [Processes -> {"idle", "template", "open", "write"}]
      BY DEF TypeOK
    <2> QED
      BY <1>1, <1>2, <1>3, <2>1, <2>2, <2>3, <2>4 DEF TypeOK
  <1>5. Alone'
    BY <1>1, <1>2 DEF Alone, Writers
  <1>6. LastSaveIsThere'
    BY <1>2 DEF LastSaveIsThere, Settled, Writers
  <1>7. Sparing'
    <2>1. ASSUME NEW q \in Processes, pc'[q] = "open",
                 doc'[q].form = "template"
          PROVE  absent'[q]
      BY <1>2, <2>1 DEF Sparing
    <2> QED
      BY <1>1, <2>1 DEF Sparing
  <1>8. Held'
    BY <1>2, <1>3 DEF Held
  <1>9. Kept'
    <2>1. SUFFICES ASSUME which = "store", ~careless' PROVE Kept'
      BY <1>2 DEF Kept
    <2>2. ~careless /\ basis[p] = "disk"
      BY <2>1 DEF TypeOK
    <2>3. kept \subseteq store[p]
      BY <2>1, <2>2 DEF Kept
    <2>4. \A q \in Processes : pc'[q] = "write" => q = p
      BY <1>2, <2>1, <2>2 DEF Kept
    <2> QED
      BY <1>1, <1>2, <1>3, <2>2, <2>3, <2>4 DEF Kept
  <1> QED
    BY <1>4, <1>5, <1>6, <1>7, <1>8, <1>9

LEMMA WriteKeeps ==
  ASSUME Inv, NEW p \in Processes, Write(p)
  PROVE  Inv'
  <1> USE DEF Inv
  <1>1. /\ pc[p] = "write" /\ doc[p] \in Doc /\ last' = doc[p]
        /\ kept' = kept \cup doc[p].names
        /\ UNCHANGED <<which, store, basis, disturbed, careless>>
    BY DEF Write, memory, TypeOK
  <1>2. /\ Called' /\ pc'[p] = "idle" /\ doc'[p] = NoDoc
        /\ \A q \in Processes : q # p => /\ pc'[q] = pc[q] /\ doc'[q] = doc[q]
                                         /\ absent'[q] = absent[q]
    BY FinishMoves DEF Write
  <1>3. /\ file' \in Content /\ file' # Absent
        /\ file' = IF file.size <= doc[p].size THEN Whole(doc[p])
                                               ELSE Torn(file.size)
    <2>1. file.size \in 0..MaxSize
      BY ContentIs DEF TypeOK
    <2> QED
      BY <1>1, <2>1, TornIs, WholeIs DEF Write
  <1>4. TypeOK'
    <2>1. kept' \subseteq Entries
      BY <1>1, DocIs DEF TypeOK
    <2> QED
      BY <1>1, <1>2, <1>3, <2>1 DEF TypeOK, Called
  <1>5. file = Torn(0) => file' = Whole(doc[p])
    <2>1. Torn(0).size = 0 /\ doc[p].size \in 1..MaxSize
      BY <1>1, TornIs, Sizes, DocIs
    <2>2. 0 <= doc[p].size
      BY <2>1, Sizes
    <2> QED
      BY <1>3, <2>1, <2>2
  <1>6. Alone'
    BY <1>1, <1>2 DEF Alone
  <1>7. LastSaveIsThere'
    <2>1. SUFFICES ASSUME ~disturbed PROVE file' = Whole(last') /\ last' # NoDoc
      BY <1>1 DEF LastSaveIsThere, Settled
    <2> QED
      BY <1>1, <1>5, <2>1, NoDocIs DEF Alone
  <1>8. Sparing'
    BY <1>1, <1>2, <1>3 DEF Sparing
  <1>9. Held'
    BY <1>1, <1>2 DEF Held
  <1>10. Kept'
    <2>1. SUFFICES ASSUME which = "store", ~careless PROVE Kept'
      BY <1>1 DEF Kept
    <2>2. /\ basis[p] = "disk" /\ kept \subseteq store[p]
          /\ \A q \in Processes : basis[q] = "disk" => q = p
      BY <1>1, <2>1 DEF Kept
    <2>3. doc[p].names = store[p]
      BY <1>1 DEF Held
    <2>4. kept' = store[p]
      BY <1>1, <2>2, <2>3
    <2>5. file'.state = "whole" => kept' \subseteq file'.doc.names
      <3>1. CASE file' = Whole(doc[p])
        BY <1>1, <2>3, <2>4, <3>1, WholeIs
      <3>2. CASE file' = Torn(file.size)
        BY <3>2, ContentIs, TornIs DEF TypeOK
      <3> QED
        BY <1>3, <3>1, <3>2
    <2>6. \A q \in Processes : pc'[q] # "write"
      BY <1>1, <1>2, <2>1, <2>2 DEF Kept
    <2> QED
      BY <1>1, <1>3, <2>2, <2>4, <2>5, <2>6 DEF Kept
  <1> QED
    BY <1>4, <1>6, <1>7, <1>8, <1>9, <1>10

\* A write that is cut short leaves the file as it is, or something torn.
LEMMA CutLeaves ==
  ASSUME TypeOK, NEW p \in Processes, pc[p] = "write", Cut(p)
  PROVE  /\ file' \in Content
         /\ file' = file \/ (file' # Absent /\ file'.state = "torn")
  <1>1. PICK n \in 0..(doc[p].size - 1) :
          file' = IF n = 0 THEN file
                  ELSE Torn(IF n > file.size THEN n ELSE file.size)
    BY DEF Cut
  <1>2. doc[p].size \in 1..MaxSize
    BY DocIs DEF TypeOK
  <1>3. n \in 0..MaxSize
    <2>1. MaxSize \in Nat
      BY Sizes
    <2> QED
      BY <1>1, <1>2, <2>1
  <1>4. file.size \in 0..MaxSize
    BY ContentIs DEF TypeOK
  <1>5. (IF n > file.size THEN n ELSE file.size) \in 0..MaxSize
    BY <1>3, <1>4
  <1> QED
    BY <1>1, <1>5, TornIs DEF TypeOK

\* A step ends the call of a process that was writing, without a whole text.
LEMMA CutKeeps ==
  ASSUME Inv, NEW p \in Processes, pc[p] = "write", Cut(p),
         \/ UNCHANGED memory
         \/ /\ store' = [store EXCEPT ![p] = {}]
            /\ basis' = [basis EXCEPT ![p] = "none"]
  PROVE  Inv'
  <1> USE DEF Inv, memory
  <1>1. /\ file' \in Content
        /\ file' = file \/ (file' # Absent /\ file'.state = "torn")
    BY CutLeaves
  <1>2. /\ Called' /\ pc'[p] = "idle" /\ doc'[p] = NoDoc
        /\ \A q \in Processes : q # p => /\ pc'[q] = pc[q] /\ doc'[q] = doc[q]
                                         /\ absent'[q] = absent[q]
    BY FinishMoves DEF Cut
  <1>3. UNCHANGED <<which, last, kept, careless>> /\ disturbed' = TRUE
    BY DEF Cut
  <1>4. /\ store' \in [Processes -> SUBSET Entries]
        /\ basis' \in [Processes -> {"none", "disk", "past"}]
        /\ \A q \in Processes : \/ store'[q] = store[q] /\ basis'[q] = basis[q]
                                \/ store'[q] = {} /\ basis'[q] = "none"
        /\ \A q \in Processes :
             q # p => store'[q] = store[q] /\ basis'[q] = basis[q]
    BY DEF TypeOK
  <1>5. TypeOK'
    BY <1>1, <1>2, <1>3, <1>4 DEF TypeOK, Called
  <1>6. Alone' /\ LastSaveIsThere'
    BY <1>3 DEF Alone, LastSaveIsThere, Settled
  <1>7. Sparing'
    BY <1>1, <1>2 DEF Sparing
  <1>8. Held'
    BY <1>2, <1>3, <1>4 DEF Held
  <1>9. Kept'
    <2>1. \A q \in Processes : pc'[q] = "write" => pc[q] = "write" /\ q # p
      BY <1>2
    <2> QED
      BY <1>1, <1>3, <1>4, <2>1 DEF Kept
  <1> QED
    BY <1>5, <1>6, <1>7, <1>8, <1>9

LEMMA CrashKeeps ==
  ASSUME Inv, NEW p \in Processes, Crash(p)
  PROVE  Inv'
  <1>1. CASE pc[p] = "write"
    BY <1>1, CutKeeps DEF Crash
  <1>2. CASE pc[p] # "write"
    <2> USE DEF Inv, disk
    <2>1. /\ Called' /\ pc'[p] = "idle" /\ doc'[p] = NoDoc
          /\ \A q \in Processes : q # p => /\ pc'[q] = pc[q]
                                           /\ doc'[q] = doc[q]
                                           /\ absent'[q] = absent[q]
      BY <1>2, FinishMoves DEF Crash
    <2>2. UNCHANGED <<which, file, disturbed, last, kept, careless>>
      BY <1>2 DEF Crash
    <2>3. /\ store' = [store EXCEPT ![p] = {}]
          /\ basis' = [basis EXCEPT ![p] = "none"]
      BY DEF Crash
    <2>4. \A q \in Processes : pc'[q] = "write" <=> pc[q] = "write"
      BY <1>2, <2>1
    <2>5. TypeOK'
      BY <2>1, <2>2, <2>3 DEF TypeOK, Called
    <2>6. Alone'
      BY <2>2, <2>4 DEF Alone
    <2>7. LastSaveIsThere'
      BY <2>2, <2>4 DEF LastSaveIsThere, Settled, Writers
    <2>8. Sparing'
      BY <2>1, <2>2 DEF Sparing
    <2>9. Held'
      BY <2>1, <2>2, <2>3 DEF Held, TypeOK
    <2>10. Kept'
      BY <1>2, <2>2, <2>3, <2>4 DEF Kept, TypeOK
    <2> QED
      BY <2>5, <2>6, <2>7, <2>8, <2>9, <2>10
  <1> QED
    BY <1>1, <1>2

LEMMA StepKeeps == Inv /\ [Next]_vars => Inv'
  <1> SUFFICES ASSUME Inv, [Next]_vars PROVE Inv'
    OBVIOUS
  <1>1. ASSUME NEW p \in Processes, WriteFails(p) PROVE Inv'
    BY <1>1, CutKeeps DEF WriteFails
  <1>2. CASE UNCHANGED vars
    BY <1>2 DEF vars, Inv, TypeOK, Alone, LastSaveIsThere, Settled, Writers,
       Sparing, Held, Kept
  <1> QED
    BY <1>1, <1>2, CallsKeep, LoadsKeep, OpenKeeps, WriteKeeps, CrashKeeps
       DEF Next

-----------------------------------------------------------------------------
\* The inductive invariant holds in every reachable state.
THEOREM Inductive == Spec => []Inv
  BY InitHolds, StepKeeps, PTL DEF Spec

\* The types of the variables; a process holds a text while it writes it.
THEOREM TypeCorrect == Spec => []TypeOK
  <1>1. Inv => TypeOK
    BY DEF Inv
  <1> QED
    BY Inductive, <1>1, PTL

\* Save, SavePlaintext and SaveEncrypted: the file has the text of the last
\* one that returned nil, unless a write was cut short or met another.
THEOREM SavedIsThere == Spec => []LastSaveIsThere
  <1>1. Inv => LastSaveIsThere
    BY DEF Inv
  <1> QED
    BY Inductive, <1>1, PTL

\* A credential once saved is in the store on disk, or that does not parse, as
\* long as every save was of a store that had been loaded from it.
THEOREM CredentialsAreKept == Spec => []KeepsCredentials
  <1>1. ASSUME Inv PROVE KeepsCredentials
    <2> SUFFICES ASSUME ~careless, file.state # "torn"
                 PROVE  kept \subseteq file.doc.names
      BY DEF KeepsCredentials
    <2>1. CASE which = "config"
      BY <1>1, <2>1 DEF Inv, Held
    <2>2. CASE which = "store"
      <3>1. file = Absent \/ file.state = "whole"
        BY <1>1, TornIs, WholeIs DEF Inv, TypeOK, Content
      <3> QED
        BY <1>1, <2>2, <3>1 DEF Inv, Kept
    <2> QED
      BY <1>1, <2>1, <2>2 DEF Inv, TypeOK
  <1> QED
    BY Inductive, <1>1, PTL

\* CreateVCenterConfigTemplate overwrites no file that was there when it
\* looked.
THEOREM TemplateSpares == Spec => TemplateSparesTheSeen
  <1>1. ASSUME Inv, [Next]_vars
        PROVE  \A p \in Processes :
                 pc[p] = "open" /\ pc'[p] = "write" /\ doc[p].form = "template"
                   => file = Absent \/ absent[p]
    BY <1>1 DEF Inv, Sparing
  <1> QED
    BY Inductive, <1>1, PTL DEF Spec, TemplateSparesTheSeen
=============================================================================
