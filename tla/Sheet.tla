-------------------------------- MODULE Sheet --------------------------------
(***************************************************************************)
(* Order sheets (excel.go): ValidateExcel, and ExcelToJSON, which writes   *)
(* one file per machine and then one file with all of them.                *)
(*                                                                         *)
(* Both read the workbook anew, and neither calls the other.  A workbook   *)
(* is the sequence of its rows below the header; the empty one stands for  *)
(* one that cannot be used: no file, no sheet, a required column missing.  *)
(* Cells are trimmed; numbers, addresses and sizes are told apart as far   *)
(* as the code does.                                                       *)
(***************************************************************************)
EXTENDS Naturals, Sequences, FiniteSetsExt

CONSTANTS
  Names,                    \* names of machines
  Sheets,                   \* the workbooks
  MaxConversions            \* how often ExcelToJSON is called

AllFile == "_all_vms"       \* the name of the combined file

VARIABLES
  sheet,       \* the workbook
  verdict,     \* what ValidateExcel last said of this workbook
  pc,          \* what ExcelToJSON is doing
  next,        \* the row whose configuration is written next
  conversions, \* how often it has begun to write
  files,       \* files[n]: the file of machine n, in the one output directory
  outcome      \* how its last call for this workbook ended

vars == <<sheet, verdict, pc, next, conversions, files, outcome>>

-----------------------------------------------------------------------------
(* Rows.                                                                   *)

Nic == [portGroup : BOOLEAN, ip : {"", "dhcp", "valid", "invalid"},
        mask : BOOLEAN, gateway : {"", "dhcp", "given"}]

Row == [short : BOOLEAN,    \* its last cell stands before the column of vm_name
        name : Names \cup {"", AllFile}, template : BOOLEAN,
        cpus : {"enough", "few", "nan"}, memory : {"enough", "few", "nan"},
        disks : {"none", "sizes", "nan"}, provisioning : BOOLEAN,
        nics : [1..3 -> Nic], datacenter : BOOLEAN]

\* GetRows cuts off the blank cells at the end of a row, and the blank rows at
\* the end of the sheet.  What is left may have a short row anywhere: a blank one
\* between two others or, where vm_name is not the first column, one that has
\* something before it only.
ASSUME SheetsAssumption ==
  /\ MaxConversions \in Nat
  /\ "" \notin Names /\ AllFile \notin Names
  /\ Sheets \subseteq Seq(Row) \ {<<>>}

\* readExcelRows skips the rows without a name, but reads the cell first.  The
\* rows it keeps have their numbers with them, and are used in that order.
Orders(s) == {i \in DOMAIN s : s[i].name # ""}
Later(s, i) == {j \in Orders(s) : j > i}
Ordered(s) == {s[i].name : i \in Orders(s)}

readExcelRows(s) ==
  CASE \E i \in DOMAIN s : s[i].short -> "panic"
    [] (\A i \in DOMAIN s : ~s[i].short) /\ Orders(s) = {} -> "error"
    [] OTHER -> "rows"

\* Mutant: no mask is asked for.
FirstNicFaulty_NoMask(nic) ==
  ~nic.portGroup \/ nic.ip = "invalid" \/ (nic.ip = "valid" /\ nic.gateway = "")

FirstNicFaulty(nic) ==
  \/ ~nic.portGroup
  \/ nic.ip = "invalid"
  \/ nic.ip = "valid" /\ (~nic.mask \/ nic.gateway = "")

\* A gateway on another adapter is a warning, or in strict mode an error.
ExtraGateway(r) ==
  \E k \in 2..3 : r.nics[k].portGroup /\ r.nics[k].gateway = "given"

\* Mutant: words pass for processors.
RowFaulty_AnyNumber(r, strict, cfg) ==
  \/ ~r.template \/ r.cpus = "few" \/ r.memory # "enough"
  \/ ~r.provisioning
  \/ FirstNicFaulty(r.nics[1])
  \/ strict /\ ExtraGateway(r)
  \/ ~cfg /\ ~r.datacenter

RowFaulty(r, strict, cfg) ==
  \/ ~r.template \/ r.cpus # "enough" \/ r.memory # "enough"
  \/ ~r.provisioning
  \/ FirstNicFaulty(r.nics[1])
  \/ strict /\ ExtraGateway(r)
  \/ ~cfg /\ ~r.datacenter

\* Mutant: names are not compared.
SheetAccepted_Duplicates(s, strict, cfg) ==
  \A i \in Orders(s) : ~RowFaulty(s[i], strict, cfg)

SheetAccepted(s, strict, cfg) ==
  /\ \A i \in Orders(s) : ~RowFaulty(s[i], strict, cfg)
  /\ \A i, j \in Orders(s) : s[i].name = s[j].name => i = j

-----------------------------------------------------------------------------
(* The configuration of a row (rowToConfig).                               *)

Convertible(r) == r.cpus # "nan" /\ r.memory # "nan" /\ r.disks # "nan"

normalizeIP(value) == IF value = "dhcp" THEN "" ELSE value

Adapter(nic) ==
  [ip |-> normalizeIP(nic.ip), mask |-> nic.mask,
   gateway |-> normalizeIP(nic.gateway)]

Adapters(r) ==
  [k \in {j \in 1..3 : r.nics[j].portGroup} |-> Adapter(r.nics[k])]

-----------------------------------------------------------------------------
NoFile == [whole |-> FALSE, conversion |-> 0, row |-> 0, names |-> {}]

Init ==
  /\ sheet       = <<>>
  /\ verdict     = "none"
  /\ pc          = "idle"
  /\ next        = 0
  /\ conversions = 0
  /\ files       = [n \in Names \cup {AllFile} |-> NoFile]
  /\ outcome     = "none"

directory == <<pc, next, conversions, files>>

\* Somebody provides a workbook, or takes it back to change it.
Provide ==
  /\ sheet = <<>>
  /\ sheet' \in Sheets
  /\ verdict' = "none" /\ outcome' = "none"
  /\ UNCHANGED directory

Withdraw ==
  /\ sheet # <<>> /\ pc = "idle"
  /\ sheet' = <<>>
  /\ verdict' = "none" /\ outcome' = "none"
  /\ UNCHANGED directory

-----------------------------------------------------------------------------
(* ValidateExcel.  The warnings of a call that is not strict leave the     *)
(* workbook valid.                                                         *)

ValidateExcel ==
  /\ pc = "idle"
  /\ \E strict, cfg \in BOOLEAN :
       verdict' =
         CASE readExcelRows(sheet) # "rows" -> readExcelRows(sheet)
           [] readExcelRows(sheet) = "rows"
                /\ ~SheetAccepted(sheet, strict, cfg) -> "invalid"
           [] OTHER -> IF strict THEN "strict" ELSE "valid"
  /\ UNCHANGED <<sheet, outcome, directory>>

-----------------------------------------------------------------------------
(* ExcelToJSON.                                                            *)

\* Every row is converted before the first file is written.
Reading ==
  IF readExcelRows(sheet) = "rows"
     /\ \E i \in Orders(sheet) : ~Convertible(sheet[i])
  THEN "badRow" ELSE readExcelRows(sheet)

ReadFails ==
  /\ pc = "idle" /\ Reading # "rows"
  /\ outcome' = Reading
  /\ UNCHANGED <<sheet, verdict, directory>>

\* Without an output directory the configurations are only returned; or the
\* directory cannot be made.
NoFiles ==
  /\ pc = "idle" /\ Reading = "rows"
  /\ outcome' \in {"listed", "ioError"}
  /\ UNCHANGED <<sheet, verdict, directory>>

\* Mutant: the combined file comes first, and the others after it.
BeginWriting_AllFirst ==
  /\ pc = "idle" /\ Reading = "rows" /\ conversions < MaxConversions
  /\ pc' = "rows" /\ next' = Min(Orders(sheet))
  /\ conversions' = conversions + 1
  /\ files' = [files EXCEPT ![AllFile] =
                 [whole |-> TRUE, conversion |-> conversions', row |-> 0,
                  names |-> Ordered(sheet)]]
  /\ outcome' = "none"
  /\ UNCHANGED <<sheet, verdict>>

BeginWriting ==
  /\ pc = "idle" /\ Reading = "rows" /\ conversions < MaxConversions
  /\ pc' = "rows" /\ next' = Min(Orders(sheet))
  /\ conversions' = conversions + 1
  /\ outcome' = "none"
  /\ UNCHANGED <<sheet, verdict, files>>

\* The file that is written next, and what goes into it.
Target == IF pc = "rows" THEN sheet[next].name ELSE AllFile

Content ==
  [whole |-> TRUE, conversion |-> conversions,
   row |-> IF pc = "rows" THEN next ELSE 0,
   names |-> IF pc = "rows" THEN {Target} ELSE Ordered(sheet)]

\* Mutant: the rows without a name are not skipped.
WriteRow_NoSkip ==
  /\ pc = "rows"
  /\ files' = [files EXCEPT ![Target] = Content]
  /\ IF next < Len(sheet)
     THEN next' = next + 1 /\ UNCHANGED pc
     ELSE next' = 0 /\ pc' = "all"
  /\ UNCHANGED <<sheet, verdict, conversions, outcome>>

WriteRow ==
  /\ pc = "rows"
  /\ files' = [files EXCEPT ![Target] = Content]
  /\ IF Later(sheet, next) # {}
     THEN next' = Min(Later(sheet, next)) /\ UNCHANGED pc
     ELSE next' = 0 /\ pc' = "all"
  /\ UNCHANGED <<sheet, verdict, conversions, outcome>>

WriteAll ==
  /\ pc = "all"
  /\ files' = [files EXCEPT ![AllFile] = Content]
  /\ pc' = "idle" /\ outcome' = "ok"
  /\ UNCHANGED <<sheet, verdict, next, conversions>>

\* A write fails or the process is killed, before the file is opened or after:
\* then the file is empty or cut off.
Stop ==
  /\ pc # "idle"
  /\ \/ UNCHANGED files
     \/ files' = [files EXCEPT ![Target] = [Content EXCEPT !.whole = FALSE]]
  /\ pc' = "idle" /\ next' = 0 /\ outcome' = "ioError"
  /\ UNCHANGED <<sheet, verdict, conversions>>

-----------------------------------------------------------------------------
Next ==
  \/ Provide \/ Withdraw \/ ValidateExcel
  \/ ReadFails \/ NoFiles \/ BeginWriting \/ WriteRow \/ WriteAll \/ Stop

Spec == Init /\ [][Next]_vars

-----------------------------------------------------------------------------
(* Properties.                                                             *)

\* The types of the variables; a row is written only while there is one.
TypeOK ==
  /\ sheet \in Sheets \cup {<<>>}
  /\ verdict \in {"none", "panic", "error", "invalid", "valid", "strict"}
  /\ pc \in {"idle", "rows", "all"}
  /\ IF pc = "rows" THEN next \in Orders(sheet) ELSE next = 0
  /\ conversions \in 0..MaxConversions
  /\ files \in [Names \cup {AllFile} ->
                  [whole : BOOLEAN, conversion : 0..conversions, row : Nat,
                   names : SUBSET (Names \cup {AllFile})]]
  /\ outcome \in {"none", "panic", "error", "badRow", "ioError", "listed",
                  "ok"}

Valid == verdict \in {"valid", "strict"}

\* ValidateExcel and ExcelToJSON read numbers each in their own way.  What the
\* first accepts the second converts, unless the size of a disk is not a
\* number: nothing else is left unchecked, and neither of them panics.
ValidConverts ==
  Valid => /\ outcome \notin {"panic", "error"}
           /\ outcome = "badRow" =>
                \E i \in DOMAIN sheet : sheet[i].disks = "nan"

\* Once a workbook that was found valid is converted, every row is in the file
\* of its machine, whatever earlier conversions left there, except for a
\* machine with the name of the combined file.
NoRowLost ==
  Valid /\ outcome = "ok" =>
    \A i \in Orders(sheet) :
      LET n == sheet[i].name
      IN /\ n \in files[AllFile].names
         /\ n # AllFile => /\ files[n].whole /\ files[n].row = i
                           /\ files[n].conversion = conversions

\* The combined file is written last: whoever finds it whole finds the file of
\* every machine in it, from the same conversion or a later one.
AllIsLast ==
  LET all == files[AllFile]
  IN all.whole => \A n \in all.names :
                    /\ files[n].conversion >= all.conversion
                    /\ files[n].conversion = all.conversion => files[n].whole

\* The rule of ServerRequest.Validate (vcenter.go) for one adapter.
StaticIsComplete(a) == a.ip # "" => a.mask /\ a.gateway # ""

\* What ValidateExcel accepts in strict mode and what a deployment accepts are
\* not the same.  They differ over a static address on another adapter than
\* the first, which strict mode wants without a gateway and a deployment with
\* one, and over "DHCP" as the gateway of the first, and over nothing else.
StrictVersusDeployment ==
  verdict = "strict" =>
    \A i \in Orders(sheet) :
      LET r == sheet[i]
          extra == \E k \in 2..3 :
                     r.nics[k].portGroup /\ r.nics[k].ip \notin {"", "dhcp"}
          noGateway == r.nics[1].ip = "valid" /\ r.nics[1].gateway = "dhcp"
      IN (\A k \in DOMAIN Adapters(r) : StaticIsComplete(Adapters(r)[k]))
           <=> ~extra /\ ~noGateway

\* The README says that a valid workbook has a mask for every address.
SheetNetworkChecked ==
  Valid => \A i \in Orders(sheet), k \in 1..3 :
             LET nic == sheet[i].nics[k]
             IN nic.portGroup /\ nic.ip \notin {"", "dhcp"} => nic.mask
=============================================================================
