----------------------------- MODULE MCDevices ------------------------------
(***************************************************************************)
(* Instances of Devices for TLC: three clients, a controller with three    *)
(* slots, and machines with one or two disks, one of them of one and a     *)
(* half gigabytes, or with labels and slots in different orders.           *)
(***************************************************************************)
EXTENDS Devices, TLC

Plain(op) == [op |-> op, disk |-> 0, gb |-> 0, adapter |-> 0,
              network |-> "lan", iso |-> "win", flag |-> FALSE]

DiskCalls ==
  {[Plain("addDisk") EXCEPT !.gb = 1]}
    \cup {[Plain("extendDisk") EXCEPT !.disk = 2, !.gb = n] : n \in 1..3}
    \cup {[Plain("removeDisk") EXCEPT !.disk = n] : n \in {2, 3}}

DriveCalls ==
  {[Plain("mount") EXCEPT !.flag = TRUE], [Plain("mount") EXCEPT !.iso = "linux"],
   [Plain("unmount") EXCEPT !.flag = TRUE], Plain("unmount"),
   Plain("connect"), Plain("disconnect")}

AdapterCalls ==
  {[Plain("changeNetwork") EXCEPT !.adapter = n, !.network = "dmz"] :
     n \in {1, 2}} \cup {Plain("addAdapter")}

\* Disks, adapters and the drive have no state in common, so that it is enough
\* to let the calls about each meet.
MCBatches == {DiskCalls, DriveCalls, AdapterCalls}

OS == [file |-> "os", label |-> 1, size |-> 4]
Data(n) == [file |-> "data", label |-> n, size |-> 3]
Empty == [medium |-> NoIso, connected |-> FALSE, atStart |-> FALSE,
          guestControl |-> FALSE]

MCMachines ==
  {[disks |-> d, adapters |-> <<"lan">>, drive |-> Empty] :
     d \in {(0 :> OS @@ 1 :> NoDisk @@ 2 :> NoDisk),
            (0 :> OS @@ 1 :> Data(2) @@ 2 :> NoDisk),
            (0 :> OS @@ 1 :> NoDisk @@ 2 :> Data(2))}}

Symmetry == Permutations(Clients)
=============================================================================
