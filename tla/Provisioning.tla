---------------------------- MODULE Provisioning ----------------------------
(***************************************************************************)
(* What CloneFromRequest promises its callers, with everything that it     *)
(* does on the way left out: each call owns at most one virtual machine,   *)
(* which appears as a bare copy of the template, is given its hardware,    *)
(* and is switched on only when the hardware is complete.  A call that     *)
(* returns no machine leaves at most a bare copy behind; a call that       *)
(* succeeds returns a machine that is running and is never rebuilt.        *)
(***************************************************************************)
CONSTANT Workers            \* the calls, one per goroutine

VARIABLES
  machine,                  \* machine[w]: how far the machine of call w is
  outcome                   \* outcome[w]: what call w returned, if it has

Stages   == {"absent", "bare", "partial", "complete", "running"}
Outcomes == {"pending", "ok", "vmErr", "nilErr"}

vars == <<machine, outcome>>

Init ==
  /\ machine = [w \in Workers |-> "absent"]
  /\ outcome = [w \in Workers |-> "pending"]

\* The copy may appear after the call has given up on it, never after the
\* call returned the machine.  A request for no hardware is complete at once.
Create(w) ==
  /\ machine[w] = "absent"
  /\ outcome[w] \in {"pending", "nilErr"}
  /\ \E s \in {"bare", "complete"} : machine' = [machine EXCEPT ![w] = s]
  /\ UNCHANGED outcome

\* Hardware is only added to a machine that is off, and never to one whose
\* call returned success or returned no machine.
Build(w) ==
  /\ machine[w] \in {"bare", "partial"}
  /\ outcome[w] \in {"pending", "vmErr"}
  /\ \E s \in {"partial", "complete"} : machine' = [machine EXCEPT ![w] = s]
  /\ UNCHANGED outcome

\* The first boot, which is what triggers the guest customization.
Boot(w) ==
  /\ machine[w] = "complete"
  /\ outcome[w] \in {"pending", "vmErr"}
  /\ machine' = [machine EXCEPT ![w] = "running"]
  /\ UNCHANGED outcome

Return(w) ==
  /\ outcome[w] = "pending"
  /\ \/ machine[w] = "running" /\ outcome' = [outcome EXCEPT ![w] = "ok"]
     \/ machine[w] # "absent"  /\ outcome' = [outcome EXCEPT ![w] = "vmErr"]
     \/ /\ machine[w] \in {"absent", "bare", "complete"}
        /\ outcome' = [outcome EXCEPT ![w] = "nilErr"]
  /\ UNCHANGED machine

Next == \E w \in Workers : Create(w) \/ Build(w) \/ Boot(w) \/ Return(w)

Spec == Init /\ [][Next]_vars
=============================================================================
