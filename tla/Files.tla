------------------------------- MODULE Files -------------------------------
(***************************************************************************)
(* Configuration and credentials on disk (config.go, secrets.go), used by  *)
(* several processes that may be killed at any moment: Save, Load,         *)
(* CreateVCenterConfigTemplate and EnsureConfigFile of the configuration;  *)
(* SavePlaintext, SaveEncrypted, their loaders and AddCredential of the    *)
(* store.                                                                  *)
(*                                                                         *)
(* Every one of them writes with os.WriteFile, which empties the file and  *)
(* then writes it from the start, without a lock.  A file whose content is *)
(* cut off, or is the end of a longer text behind a shorter one, is not    *)
(* JSON.  An encrypted store opens with the secret that sealed it and with *)
(* no other.                                                               *)
(*                                                                         *)
(* The two files have nothing to do with each other: a behaviour is about  *)
(* one of them.                                                            *)
(***************************************************************************)
EXTENDS Naturals

CONSTANTS
  Processes,
  Entries,                  \* names of credentials
  Secrets,                  \* what keys are derived from
  MaxSize                   \* sizes of files are cut down to 1..MaxSize

ASSUME FilesAssumption ==
  MaxSize \in Nat \ {0} /\ "" \notin Secrets

VARIABLES
  which,     \* which of the two files this is about
  file,      \* what is on disk
  pc,        \* pc[p]: the step process p is at
  doc,       \* doc[p]: what it writes
  store,     \* store[p]: the credentials it has in memory
  basis,     \* basis[p]: what that store is based on (history)
  absent,    \* absent[p]: the configuration was created after the Stat of
             \*            the template it writes (history)
  disturbed, \* the last write was cut short, or was not alone (history)
  last,      \* what the last complete write wrote (history)
  kept,      \* the credentials of every save that returned nil (history)
  careless   \* a store was saved over one it was not based on (history)

vars == <<which, file, pc, doc, store, basis, absent, disturbed, last, kept,
          careless>>

Forms == {"config", "template", "plain", "sealed"}
Doc == [form : Forms, names : SUBSET Entries, secret : Secrets \cup {""},
        size : 1..MaxSize]
NoDoc == [form |-> "none", names |-> {}, secret |-> "", size |-> 0]

\* What is on disk: nothing, something that does not parse, or a document.
Absent == [state |-> "absent", doc |-> NoDoc, size |-> 0]
Torn(n) == [state |-> "torn", doc |-> NoDoc, size |-> n]
Whole(d) == [state |-> "whole", doc |-> d, size |-> d.size]

Init ==
  /\ file      = Absent
  /\ which     \in {"config", "store"}
  /\ pc        = [p \in Processes |-> "idle"]
  /\ doc       = [p \in Processes |-> NoDoc]
  /\ store     = [p \in Processes |-> {}]
  /\ basis     = [p \in Processes |-> "none"]
  /\ absent    = [p \in Processes |-> FALSE]
  /\ disturbed = FALSE
  /\ last      = NoDoc
  /\ kept      = {}
  /\ careless  = FALSE

disk == <<which, file, disturbed, last, kept, careless>>
memory == <<store, basis>>

-----------------------------------------------------------------------------
(* os.WriteFile.                                                           *)

Writers == {p \in Processes : pc[p] = "write"}

BeginWrite(p, d) ==
  /\ pc' = [pc EXCEPT ![p] = "open"]
  /\ doc' = [doc EXCEPT ![p] = d]
  /\ UNCHANGED <<disk, memory, absent>>

\* The call of the process is over.
Finish(p) ==
  /\ pc' = [pc EXCEPT ![p] = "idle"]
  /\ doc' = [doc EXCEPT ![p] = NoDoc]
  /\ absent' = [absent EXCEPT ![p] = FALSE]

\* The file cannot be opened, nor its directory made.
OpenFails(p) ==
  /\ pc[p] = "open"
  /\ Finish(p)
  /\ UNCHANGED <<disk, memory>>

\* Opening a file that is not there creates it, under the eyes of those that
\* have just seen that it is not; opening the store leaves nobody else with
\* one that is based on what is on disk.
Opened(p) ==
  /\ absent' = [q \in Processes |->
                  absent[q] \/ (q # p /\ file = Absent /\ pc[q] = "open")]
  /\ basis' = [q \in Processes |->
                 IF q # p /\ basis[q] = "disk" THEN "past" ELSE basis[q]]
  /\ careless' = (careless \/ (which = "store" /\ basis[p] # "disk"))
  /\ disturbed' = (Writers # {})
  /\ pc' = [pc EXCEPT ![p] = "write"]
  /\ UNCHANGED <<which, doc, store, last, kept>>

\* Mutant: the file is not emptied.
Open_Keeps(p) ==
  /\ pc[p] = "open"
  /\ file' = IF file = Absent THEN Torn(0) ELSE file
  /\ Opened(p)

Open(p) ==
  /\ pc[p] = "open"
  /\ file' = Torn(0)
  /\ Opened(p)

\* Mutant: the text goes to the end of the file.
Write_Appends(p) ==
  /\ pc[p] = "write"
  /\ file' = IF file.size = 0 THEN Whole(doc[p])
                              ELSE Torn(file.size + doc[p].size)
  /\ last' = doc[p]
  /\ kept' = kept \cup doc[p].names
  /\ Finish(p)
  /\ UNCHANGED <<which, memory, disturbed, careless>>

\* The text is written from the start of the file; if another process has put
\* a longer one there in the meantime, its end remains.
Write(p) ==
  /\ pc[p] = "write"
  /\ file' = IF file.size <= doc[p].size THEN Whole(doc[p])
                                         ELSE Torn(file.size)
  /\ last' = doc[p]
  /\ kept' = kept \cup doc[p].names
  /\ Finish(p)
  /\ UNCHANGED <<which, memory, disturbed, careless>>

\* Only a part of the text, if any, reaches the file.
Cut(p) ==
  /\ \E n \in 0..(doc[p].size - 1) :
       file' = IF n = 0 THEN file
               ELSE Torn(IF n > file.size THEN n ELSE file.size)
  /\ disturbed' = TRUE
  /\ Finish(p)
  /\ UNCHANGED <<which, last, kept, careless>>

\* The disk is full: WriteFile returns an error.
WriteFails(p) ==
  /\ pc[p] = "write"
  /\ Cut(p)
  /\ UNCHANGED memory

\* The process is killed, and started again later.
Crash(p) ==
  /\ pc[p] # "idle" \/ basis[p] # "none"
  /\ IF pc[p] = "write" THEN Cut(p) ELSE Finish(p) /\ UNCHANGED disk
  /\ store' = [store EXCEPT ![p] = {}]
  /\ basis' = [basis EXCEPT ![p] = "none"]

-----------------------------------------------------------------------------
(* The configuration.                                                      *)

\* Save of a configuration that Validate accepts.  It refuses the others, and
\* touches nothing.
Save(p) ==
  /\ pc[p] = "idle" /\ which = "config"
  /\ \E n \in 1..MaxSize :
       BeginWrite(p, [form |-> "config", names |-> {}, secret |-> "",
                      size |-> n])

\* EnsureConfigFile is content with any file; without one it creates the
\* template.
EnsureConfigFile(p) ==
  /\ pc[p] = "idle" /\ which = "config" /\ file = Absent
  /\ pc' = [pc EXCEPT ![p] = "template"]
  /\ UNCHANGED <<disk, doc, memory, absent>>

Template == [form |-> "template", names |-> {}, secret |-> "",
             size |-> MaxSize]

\* Mutant: the template does without a Stat of its own.
CreateTemplate_NoStat(p) ==
  /\ pc[p] \in {"idle", "template"} /\ which = "config"
  /\ BeginWrite(p, Template)

\* CreateVCenterConfigTemplate refuses a file that is there, and writes later.
CreateTemplate(p) ==
  /\ pc[p] \in {"idle", "template"} /\ which = "config"
  /\ IF file = Absent THEN BeginWrite(p, Template)
     ELSE Finish(p) /\ UNCHANGED <<disk, memory>>

-----------------------------------------------------------------------------
(* The store of credentials.                                               *)

Plain(n, names) ==
  [form |-> "plain", names |-> names, secret |-> "", size |-> n]

\* EncryptString and EncryptStringWithPassword make the same envelope.
Sealed(n, names, k) ==
  [form |-> "sealed", names |-> names, secret |-> k, size |-> n]

Unsealed(k) ==
  file.state = "whole" /\ file.doc.form = "sealed" /\ file.doc.secret = k

LoadStore(p, names, base) ==
  /\ pc[p] = "idle" /\ which = "store"
  /\ store' = [store EXCEPT ![p] = names]
  /\ basis' = [basis EXCEPT ![p] = base]
  /\ UNCHANGED <<disk, pc, doc, absent>>

\* The loader of plain text finds no credentials in the envelope of an
\* encrypted store, and takes that for an empty one.
LoadPlaintext(p) ==
  /\ file.state = "whole"
  /\ IF file.doc.form = "plain" THEN LoadStore(p, file.doc.names, "disk")
                                ELSE LoadStore(p, {}, "past")

\* Mutant: what cannot be opened is an empty store.
LoadEncrypted_ErrorIsEmpty(p) ==
  \E k \in Secrets :
    LoadStore(p, IF Unsealed(k) THEN file.doc.names ELSE {}, "disk")

\* A file that does not parse, or was sealed with another secret, is an error.
LoadEncrypted(p) ==
  \E k \in Secrets : Unsealed(k) /\ LoadStore(p, file.doc.names, "disk")

\* NewCredentialStore, right when there is no file.
NewStore(p) == LoadStore(p, {}, IF file = Absent THEN "disk" ELSE "past")

AddCredential(p) ==
  /\ pc[p] = "idle" /\ basis[p] # "none"
  /\ \E e \in Entries \ store[p] : store' = [store EXCEPT ![p] = @ \cup {e}]
  /\ UNCHANGED <<disk, pc, doc, basis, absent>>

SavePlaintext(p) ==
  /\ pc[p] = "idle" /\ basis[p] # "none"
  /\ \E n \in 1..MaxSize : BeginWrite(p, Plain(n, store[p]))

\* The store is marshalled and sealed before the file is touched: a key that
\* cannot be had leaves it as it is.
SaveEncrypted(p) ==
  /\ pc[p] = "idle" /\ basis[p] # "none"
  /\ \E n \in 1..MaxSize, k \in Secrets : BeginWrite(p, Sealed(n, store[p], k))

-----------------------------------------------------------------------------
Next ==
  \E p \in Processes :
    \/ OpenFails(p) \/ Open(p) \/ Write(p) \/ WriteFails(p) \/ Crash(p)
    \/ Save(p) \/ EnsureConfigFile(p) \/ CreateTemplate(p)
    \/ NewStore(p) \/ LoadPlaintext(p) \/ LoadEncrypted(p)
    \/ AddCredential(p) \/ SavePlaintext(p) \/ SaveEncrypted(p)

Spec == Init /\ [][Next]_vars

-----------------------------------------------------------------------------
(* Properties.                                                             *)

\* What can be on disk: a file is at most as long as the longest text.
Content == {Absent} \cup {Torn(n) : n \in 0..MaxSize}
             \cup {Whole(d) : d \in Doc}

\* The types of the variables; a process holds a text only while it writes.
TypeOK ==
  /\ which \in {"config", "store"}
  /\ file \in Content
  /\ pc \in [Processes -> {"idle", "template", "open", "write"}]
  /\ doc \in [Processes -> Doc \cup {NoDoc}]
  /\ store \in [Processes -> SUBSET Entries]
  /\ basis \in [Processes -> {"none", "disk", "past"}]
  /\ absent \in [Processes -> BOOLEAN]
  /\ disturbed \in BOOLEAN
  /\ last \in Doc \cup {NoDoc}
  /\ kept \subseteq Entries
  /\ careless \in BOOLEAN
  /\ \A p \in Processes :
       pc[p] \in {"open", "write"} <=> doc[p] # NoDoc

Settled == Writers = {} /\ ~disturbed

\* What was saved last is what is on disk, whole, as long as nobody is writing
\* and the last write was neither cut short nor met by another: it can be
\* loaded, and no write before it has left anything behind.
LastSaveIsThere ==
  Settled => file = IF last = NoDoc THEN Absent ELSE Whole(last)

\* Whatever is loaded with the wrong secret, cut short, killed or met by another
\* save, the store on disk has every credential that was saved, or does not parse
\* and is refused by every loader: it never passes for a store with fewer of them,
\* which the next save would make good.  This is so unless a process saved a store
\* over one it was not based on: a new one over an old one, one that it took for
\* empty because it was encrypted, or one that another process had changed.
KeepsCredentials ==
  ~careless => file.state = "torn" \/ kept \subseteq file.doc.names

\* A template overwrites only a file that was created after it had looked.
TemplateSparesTheSeen ==
  [][\A p \in Processes :
       pc[p] = "open" /\ pc'[p] = "write" /\ doc[p].form = "template"
         => file = Absent \/ absent[p]]_vars
=============================================================================
