---------------------------- MODULE MCLifecycle -----------------------------
(***************************************************************************)
(* Instances of Lifecycle for TLC: two clients, each making any call, on a *)
(* machine with up to two snapshots, whose names may be the same.          *)
(***************************************************************************)
EXTENDS Lifecycle, TLC

Plain(op) == [op |-> op, name |-> "a", children |-> FALSE,
              suppress |-> FALSE, force |-> FALSE]

MCCalls ==
  {Plain(op) : op \in {"powerOn", "powerOff", "restart", "create",
                       "removeAll", "revert", "unregister"}}
    \cup {[Plain("create") EXCEPT !.name = "b"]}
    \cup {[Plain("remove") EXCEPT !.children = b] : b \in BOOLEAN}
    \cup {[Plain("revert") EXCEPT !.suppress = TRUE]}
    \cup {[Plain("delete") EXCEPT !.force = b] : b \in BOOLEAN}
    \cup {[Plain("unregister") EXCEPT !.force = TRUE]}

DeleteCalls == {Plain("delete"), Plain("create")}

Symmetry == Permutations(Clients)
=============================================================================
