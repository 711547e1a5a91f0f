------------------------------ MODULE MCSheet -------------------------------
(***************************************************************************)
(* Workbooks for TLC: one row with every kind of cell, and several rows    *)
(* with short and unnamed rows among them, names used twice, and rows that *)
(* cannot be converted.                                                    *)
(***************************************************************************)
EXTENDS Sheet

NoNic == [portGroup |-> FALSE, ip |-> "", mask |-> FALSE, gateway |-> ""]
Dhcp == [NoNic EXCEPT !.portGroup = TRUE, !.ip = "dhcp"]
Fixed == [portGroup |-> TRUE, ip |-> "valid", mask |-> TRUE,
          gateway |-> "given"]

Plain == [short |-> FALSE, name |-> "a", template |-> TRUE, cpus |-> "enough",
          memory |-> "enough", disks |-> "sizes", provisioning |-> TRUE,
          nics |-> <<Fixed, NoNic, NoNic>>, datacenter |-> TRUE]

Named(n) == [Plain EXCEPT !.name = n]
Short == [Named("") EXCEPT !.short = TRUE]

\* The first adapter in every form, and a second and a third one.
FirstNics == {[Plain EXCEPT !.nics[1] = nic] : nic \in Nic}
OtherNics ==
  {[Plain EXCEPT !.nics[k] = nic] :
     k \in 2..3, nic \in {Dhcp, Fixed, [Fixed EXCEPT !.gateway = ""],
                          [Fixed EXCEPT !.mask = FALSE, !.gateway = "dhcp"],
                          [Fixed EXCEPT !.ip = ""],
                          [Fixed EXCEPT !.portGroup = FALSE]}}

OtherCells ==
  {[Plain EXCEPT !.template = FALSE], [Plain EXCEPT !.provisioning = FALSE],
   [Plain EXCEPT !.datacenter = FALSE], [Plain EXCEPT !.disks = "none"],
   [Plain EXCEPT !.cpus = "few"], [Plain EXCEPT !.memory = "few"],
   [Plain EXCEPT !.cpus = "nan"], [Plain EXCEPT !.memory = "nan"],
   [Plain EXCEPT !.disks = "nan"], Named("")}

MCSheets ==
  {<<r>> : r \in FirstNics \cup OtherNics \cup OtherCells}
    \cup {<<Named(m), Named(n)>> : m, n \in {"a", "b", "", AllFile}}
    \cup {<<r, Named("b")>> : r \in OtherCells \cup {Short}}
    \cup {<<Named("b"), r, Plain>> : r \in {Named("a"), Named(""), Short}}
    \cup {<<Short>>, <<Plain, Short>>}
=============================================================================
