---------------------------- MODULE SharedClient ----------------------------
(***************************************************************************)
(* What the goroutines that share a Client are promised, with the lock and *)
(* the requests to vCenter left out: it has one current datacenter.  A     *)
(* call that is given the name of one makes it the current one, at one     *)
(* moment, or fails and changes nothing; and each getter says, at one      *)
(* moment, what is current.                                                *)
(***************************************************************************)
CONSTANTS Setters, Readers, Names, Getters

VARIABLES
  ready,     \* whether a constructor has given the client out
  current,   \* the current datacenter, or "" if there is none
  wanted,    \* wanted[c]: the datacenter that the call of c is to set, or ""
  told       \* told[c]: what c was told of the current datacenter

vars == <<ready, current, wanted, told>>

Untold == [g \in Getters |-> "unread"]

Init ==
  /\ ready   = FALSE
  /\ current = ""
  /\ wanted  = [c \in Setters |-> ""]
  /\ told    = [c \in Readers |-> Untold]

Begin(c) ==
  /\ wanted[c] = ""
  /\ \E n \in Names : wanted' = [wanted EXCEPT ![c] = n]
  /\ UNCHANGED <<ready, current, told>>

\* What was told of the datacenter before is forgotten.
Succeed(c) ==
  /\ wanted[c] # ""
  /\ ready' = TRUE /\ current' = wanted[c]
  /\ wanted' = [wanted EXCEPT ![c] = ""]
  /\ told' = [d \in Readers |-> Untold]

Fail(c) ==
  /\ wanted[c] # ""
  /\ wanted' = [wanted EXCEPT ![c] = ""]
  /\ UNCHANGED <<ready, current, told>>

\* A constructor that is given no name returns.
Open ==
  /\ ~ready /\ ready' = TRUE
  /\ UNCHANGED <<current, wanted, told>>

Tell(c, g) ==
  /\ ready /\ told[c][g] = "unread"
  /\ told' = [told EXCEPT ![c][g] = current]
  /\ UNCHANGED <<ready, current, wanted>>

Forget(c) ==
  /\ told' = [told EXCEPT ![c] = Untold]
  /\ UNCHANGED <<ready, current, wanted>>

Next ==
  \/ Open
  \/ \E c \in Setters : Begin(c) \/ Succeed(c) \/ Fail(c)
  \/ \E c \in Readers : Forget(c) \/ \E g \in Getters : Tell(c, g)

Spec == Init /\ [][Next]_vars
=============================================================================
