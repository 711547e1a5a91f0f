------------------------------ MODULE MCDeploy ------------------------------
(***************************************************************************)
(* Instances of Deploy for TLC: a few requests that between them take      *)
(* every branch of CloneFromRequest, and two that ask for one name.        *)
(***************************************************************************)
EXTENDS Deploy

Nic(ip) == [ip |-> ip, mask |-> IF ip = "" THEN "" ELSE "mask",
            gateway |-> IF ip = "" THEN "" ELSE "gw"]

\* Only the two fields Validate insists on: no disks, no resources and, since
\* nothing is to be customized, no wait.
Plain ==
  [name |-> "web", template |-> "t", cpus |-> 0, memoryGB |-> 0,
   disksGB |-> <<>>, diskGB |-> 0, adapters |-> <<>>,
   ip |-> "", mask |-> "", gateway |-> "",
   domain |-> "", dns |-> <<>>, suffixes |-> <<>>]

\* Two disks, resources with a default, a domain, a static and a DHCP adapter.
Full ==
  [Plain EXCEPT !.cpus = 4, !.disksGB = <<100, 50>>, !.domain = "corp",
                !.adapters = <<Nic("10.1.1.1"), Nic("")>>]

\* The deprecated single-disk and single-address fields.
Legacy ==
  [Plain EXCEPT !.name = "app", !.memoryGB = 8, !.diskGB = 20,
                !.ip = "10.1.1.2", !.mask = "mask", !.gateway = "gw"]

\* A static address without a gateway, which Validate refuses.
Invalid == [Plain EXCEPT !.ip = "10.1.1.3", !.mask = "mask"]

MCRequests == {Plain, Full, Legacy, Invalid}
=============================================================================
