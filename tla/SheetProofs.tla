---------------------------- MODULE SheetProofs -----------------------------
(***************************************************************************)
(* Proofs about Sheet, for any workbooks, names and number of conversions. *)
(*                                                                         *)
(* What ValidateExcel said of a workbook is still true of it, because a    *)
(* workbook is changed only by taking it back.  A conversion has stored    *)
(* the rows it has passed, each in the file of its machine unless a later  *)
(* row has the same name; and until it writes the combined file, the one   *)
(* that is there is older than it, or is the file of a machine with that   *)
(* name.                                                                   *)
(***************************************************************************)
EXTENDS Sheet, TLAPS, NaturalsInduction, WellFoundedInduction

\* Nobody takes a workbook back while it is converted.
InHand == pc # "idle" => sheet # <<>>

Verdicts ==
  Valid => /\ readExcelRows(sheet) = "rows"
           /\ \E cfg \in BOOLEAN : SheetAccepted(sheet, verdict = "strict", cfg)

Outcomes ==
  /\ outcome \in {"panic", "error"} => readExcelRows(sheet) = outcome
  /\ outcome = "badRow" => \E i \in Orders(sheet) : ~Convertible(sheet[i])

\* The file of row i is from this conversion, and from a row with this name.
Stored(i) ==
  LET file == files[sheet[i].name]
  IN /\ file.whole /\ file.conversion = conversions
     /\ file.row \in Orders(sheet) /\ sheet[file.row].name = sheet[i].name

Passed(i) == (pc = "rows" /\ i < next) \/ pc = "all" \/ outcome = "ok"

\* What a conversion has stored so far, and in the end.
Written ==
  /\ \A i \in Orders(sheet) :
       sheet[i].name # AllFile /\ Passed(i) => Stored(i)
  /\ outcome = "ok" => /\ pc = "idle"
                       /\ Ordered(sheet) \subseteq files[AllFile].names

\* A combined file of this conversion is not there yet.
NotYet ==
  pc = "rows" /\ files[AllFile].whole
    /\ files[AllFile].conversion = conversions
    => files[AllFile].names \subseteq {AllFile}

Inv ==
  TypeOK /\ InHand /\ Verdicts /\ Outcomes /\ Written /\ NotYet /\ AllIsLast

-----------------------------------------------------------------------------
(* Rows.                                                                   *)

LEMMA MinIsLeast ==
  ASSUME NEW S \in SUBSET Nat, S # {}
  PROVE  Min(S) \in S /\ \A y \in S : Min(S) <= y
  <1>1. PICK x \in S : \A y \in S : ~(<<y, x>> \in OpToRel(<, Nat))
    BY NatLessThanWellFounded, WFMin
  <1>2. \A y \in S : x =< y
    <2>1. ASSUME NEW y \in S, y < x PROVE FALSE
      BY <1>1, <2>1 DEF OpToRel
    <2> QED
      BY <2>1
  <1> QED
    BY <1>2 DEF Min

Machines == Names \cup {AllFile}
File == [whole : BOOLEAN, conversion : 0..conversions, row : Nat,
         names : SUBSET Machines]

\* A row with a name has the name of a machine, and a number.
LEMMA OrderIs ==
  ASSUME NEW s \in Sheets \cup {<<>>}
  PROVE  /\ Orders(s) \subseteq Nat
         /\ \A i \in Orders(s) : i \in DOMAIN s /\ s[i] \in Row
                                 /\ s[i].name \in Machines
         /\ Ordered(s) \subseteq Machines
         /\ s = <<>> => Orders(s) = {}
  <1>1. s \in Seq(Row)
    <2>1. CASE s = <<>>
      BY <2>1
    <2>2. CASE s \in Sheets
      BY <2>2, SheetsAssumption
    <2> QED
      BY <2>1, <2>2
  <1>2. DOMAIN s \subseteq Nat /\ \A i \in DOMAIN s : s[i] \in Row
    BY <1>1
  <1>3. \A i \in Orders(s) : i \in DOMAIN s /\ s[i].name # ""
    BY DEF Orders
  <1>4. \A r \in Row : r.name \in Names \cup {"", AllFile}
    BY DEF Row
  <1>5. \A i \in Orders(s) : s[i].name \in Machines
    BY <1>2, <1>3, <1>4 DEF Machines
  <1>6. s = <<>> => DOMAIN s = {}
    OBVIOUS
  <1> QED
    BY <1>2, <1>3, <1>5, <1>6 DEF Ordered

\* What can be converted has rows.
LEMMA RowsAreThere ==
  ASSUME NEW s, readExcelRows(s) = "rows"
  PROVE  Orders(s) # {}
  <1>1. CASE \E i \in DOMAIN s : s[i].short
    BY <1>1 DEF readExcelRows
  <1>2. CASE (\A i \in DOMAIN s : ~s[i].short) /\ Orders(s) = {}
    <2>1. ~\E i \in DOMAIN s : s[i].short
      BY <1>2
    <2>2. readExcelRows(s) = "error"
      BY <1>2, <2>1 DEF readExcelRows
    <2> QED
      BY <2>2
  <1> QED
    BY <1>1, <1>2

LEMMA ReadingIs ==
  ASSUME NEW s
  PROVE  readExcelRows(s) \in {"panic", "error", "rows"}
  BY DEF readExcelRows

-----------------------------------------------------------------------------
(* The workbook, and what is said of it.                                   *)

LEMMA InitHolds == Init => Inv
  <1> SUFFICES ASSUME Init PROVE Inv
    OBVIOUS
  <1>1. NoFile \in [whole : BOOLEAN, conversion : 0..0, row : Nat,
                    names : SUBSET Machines] /\ NoFile.whole = FALSE
    BY DEF NoFile
  <1>2. TypeOK
    <2>1. conversions = 0 /\ conversions \in 0..MaxConversions
      <3>1. MaxConversions \in Nat
        BY SheetsAssumption
      <3> QED
        BY <3>1 DEF Init
    <2>2. files \in [Machines -> File]
      BY <1>1, <2>1 DEF Init, Machines, File
    <2> QED
      BY <2>1, <2>2 DEF Init, TypeOK, Machines, File
  <1>3. Verdicts /\ Outcomes /\ InHand
    BY DEF Init, Verdicts, Valid, Outcomes, InHand
  <1>4. Written /\ NotYet
    BY DEF Init, Written, Passed, NotYet
  <1>5. AllIsLast
    BY <1>1 DEF Init, AllIsLast
  <1> QED
    BY <1>2, <1>3, <1>4, <1>5 DEF Inv

LEMMA ProvideKeeps == Inv /\ Provide => Inv'
  <1> SUFFICES ASSUME Inv, Provide PROVE Inv'
    OBVIOUS
  <1>1. /\ sheet = <<>> /\ sheet' \in Sheets
        /\ verdict' = "none" /\ outcome' = "none"
        /\ UNCHANGED <<pc, next, conversions, files>>
    BY DEF Provide, directory
  <1>2. pc = "idle"
    BY <1>1 DEF Inv, InHand
  <1>3. TypeOK'
    BY <1>1, <1>2 DEF Inv, TypeOK
  <1>4. Verdicts' /\ Outcomes' /\ InHand'
    BY <1>1, <1>2 DEF Verdicts, Valid, Outcomes, InHand
  <1>5. Written' /\ NotYet'
    BY <1>1, <1>2 DEF Written, Passed, NotYet
  <1>6. AllIsLast'
    BY <1>1 DEF Inv, AllIsLast
  <1> QED
    BY <1>3, <1>4, <1>5, <1>6 DEF Inv

LEMMA WithdrawKeeps == Inv /\ Withdraw => Inv'
  <1> SUFFICES ASSUME Inv, Withdraw PROVE Inv'
    OBVIOUS
  <1>1. /\ pc = "idle" /\ sheet' = <<>>
        /\ verdict' = "none" /\ outcome' = "none"
        /\ UNCHANGED <<pc, next, conversions, files>>
    BY DEF Withdraw, directory
  <1>2. TypeOK'
    BY <1>1 DEF Inv, TypeOK
  <1>3. Verdicts' /\ Outcomes' /\ InHand'
    BY <1>1 DEF Verdicts, Valid, Outcomes, InHand
  <1>4. Written' /\ NotYet'
    BY <1>1 DEF Written, Passed, NotYet
  <1>5. AllIsLast'
    BY <1>1 DEF Inv, AllIsLast
  <1> QED
    BY <1>2, <1>3, <1>4, <1>5 DEF Inv

LEMMA ValidateExcelKeeps == Inv /\ ValidateExcel => Inv'
  <1> SUFFICES ASSUME Inv, ValidateExcel PROVE Inv'
    OBVIOUS
  <1>1. /\ pc = "idle"
        /\ UNCHANGED <<sheet, outcome, pc, next, conversions, files>>
    BY DEF ValidateExcel, directory
  <1>2. PICK strict \in BOOLEAN, cfg \in BOOLEAN :
          verdict' =
            CASE readExcelRows(sheet) # "rows" -> readExcelRows(sheet)
              [] readExcelRows(sheet) = "rows"
                   /\ ~SheetAccepted(sheet, strict, cfg) -> "invalid"
              [] OTHER -> IF strict THEN "strict" ELSE "valid"
    BY DEF ValidateExcel
  <1>3. \/ /\ readExcelRows(sheet) # "rows"
           /\ verdict' = readExcelRows(sheet)
        \/ verdict' = "invalid"
        \/ /\ readExcelRows(sheet) = "rows"
           /\ SheetAccepted(sheet, strict, cfg)
           /\ verdict' = IF strict THEN "strict" ELSE "valid"
    BY <1>2
  <1>4. TypeOK'
    <2>1. verdict' \in {"none", "panic", "error", "invalid", "valid", "strict"}
      BY <1>3, ReadingIs
    <2> QED
      BY <1>1, <2>1 DEF Inv, TypeOK
  <1>5. Verdicts'
    <2> SUFFICES ASSUME Valid'
                 PROVE  /\ readExcelRows(sheet) = "rows"
                        /\ \E b \in BOOLEAN :
                             SheetAccepted(sheet, verdict' = "strict", b)
      BY <1>1 DEF Verdicts
    <2>1. /\ readExcelRows(sheet) = "rows"
          /\ SheetAccepted(sheet, strict, cfg)
          /\ verdict' = IF strict THEN "strict" ELSE "valid"
      BY <1>3, ReadingIs DEF Valid
    <2>2. (verdict' = "strict") = strict
      BY <2>1
    <2> QED
      BY <2>1, <2>2
  <1>6. Outcomes' /\ InHand'
    BY <1>1 DEF Inv, Outcomes, InHand
  <1>7. Written' /\ NotYet'
    BY <1>1 DEF Inv, Written, Passed, Stored, NotYet
  <1>8. AllIsLast'
    BY <1>1 DEF Inv, AllIsLast
  <1> QED
    BY <1>4, <1>5, <1>6, <1>7, <1>8 DEF Inv

-----------------------------------------------------------------------------
(* ExcelToJSON.                                                            *)

\* A call that writes nothing.
LEMMA ReturnsKeeps ==
  ASSUME Inv, pc = "idle",
         outcome' \in {"none", "panic", "error", "badRow", "ioError", "listed"},
         outcome' \in {"panic", "error"} => readExcelRows(sheet) = outcome',
         outcome' = "badRow" =>
           \E i \in Orders(sheet) : ~Convertible(sheet[i]),
         UNCHANGED <<sheet, verdict, pc, next, conversions, files>>
  PROVE  Inv'
  <1>1. TypeOK'
    BY DEF Inv, TypeOK
  <1>2. Verdicts' /\ Outcomes' /\ InHand'
    BY DEF Inv, Verdicts, Valid, Outcomes, InHand
  <1>3. Written' /\ NotYet'
    BY DEF Written, Passed, NotYet
  <1>4. AllIsLast'
    BY DEF Inv, AllIsLast
  <1> QED
    BY <1>1, <1>2, <1>3, <1>4 DEF Inv

LEMMA ReadFailsKeeps == Inv /\ ReadFails => Inv'
  <1> SUFFICES ASSUME Inv, ReadFails PROVE Inv'
    OBVIOUS
  <1>1. /\ pc = "idle" /\ Reading # "rows" /\ outcome' = Reading
        /\ UNCHANGED <<sheet, verdict, pc, next, conversions, files>>
    BY DEF ReadFails, directory
  <1>2. \/ /\ Reading = "badRow"
           /\ \E i \in Orders(sheet) : ~Convertible(sheet[i])
        \/ Reading = readExcelRows(sheet)
    BY DEF Reading
  <1>3. Reading \in {"panic", "error", "badRow"}
    BY <1>1, <1>2, ReadingIs
  <1> QED
    BY <1>1, <1>2, <1>3, ReadingIs, ReturnsKeeps

LEMMA NoFilesKeeps == Inv /\ NoFiles => Inv'
  BY ReturnsKeeps DEF NoFiles, directory

LEMMA BeginWritingKeeps == Inv /\ BeginWriting => Inv'
  <1> SUFFICES ASSUME Inv, BeginWriting PROVE Inv'
    OBVIOUS
  <1> DEFINE first == Min(Orders(sheet))
  <1>1. /\ pc = "idle" /\ Reading = "rows" /\ conversions < MaxConversions
        /\ pc' = "rows" /\ next' = first
        /\ conversions' = conversions + 1 /\ outcome' = "none"
        /\ UNCHANGED <<sheet, verdict, files>>
    BY DEF BeginWriting
  <1>2. readExcelRows(sheet) = "rows"
    BY <1>1 DEF Reading
  <1>3. sheet \in Sheets \cup {<<>>}
    BY DEF Inv, TypeOK
  <1>4. Orders(sheet) # {} /\ Orders(sheet) \subseteq Nat /\ sheet # <<>>
    BY <1>2, <1>3, RowsAreThere, OrderIs
  <1>5. /\ first \in Orders(sheet)
        /\ \A i \in Orders(sheet) : first <= i
    BY <1>4, MinIsLeast
  <1> HIDE DEF first
  <1>6. /\ conversions \in 0..MaxConversions /\ MaxConversions \in Nat
        /\ files \in [Machines -> File]
    BY SheetsAssumption DEF Inv, TypeOK, Machines, File
  <1>7. files' \in [Machines -> File']
    <2>1. File \subseteq File'
      BY <1>1, <1>6 DEF File
    <2> QED
      BY <1>1, <1>6, <2>1
  <1>8. TypeOK'
    <2>1. conversions' \in 0..MaxConversions
      BY <1>1, <1>6
    <2>2. /\ sheet' \in Sheets \cup {<<>>}
          /\ verdict' \in {"none", "panic", "error", "invalid", "valid", "strict"}
      BY <1>1, <1>3 DEF Inv, TypeOK
    <2> QED
      BY <1>1, <1>5, <1>7, <2>1, <2>2 DEF TypeOK, Machines, File
  <1>9. Verdicts' /\ Outcomes' /\ InHand'
    BY <1>1, <1>4 DEF Inv, Verdicts, Valid, Outcomes, InHand
  <1>10. Written'
    <2>1. \A i \in Orders(sheet) : ~(i < first)
      BY <1>4, <1>5
    <2> QED
      BY <1>1, <2>1 DEF Written, Passed
  <1>11. NotYet'
    <2>1. AllFile \in Machines
      BY DEF Machines
    <2>2. files[AllFile].conversion \in 0..conversions
      BY <1>6, <2>1 DEF File
    <2>3. files[AllFile].conversion # conversions + 1
      BY <1>6, <2>2
    <2> QED
      BY <1>1, <2>3 DEF NotYet
  <1>12. AllIsLast'
    BY <1>1 DEF Inv, AllIsLast
  <1> QED
    BY <1>8, <1>9, <1>10, <1>11, <1>12 DEF Inv

\* A file is stored for machine n, or for them all.
LEMMA Storing ==
  ASSUME TypeOK, NEW n \in Machines, NEW f \in File,
         files' = [files EXCEPT ![n] = f], UNCHANGED conversions
  PROVE  /\ files' \in [Machines -> File']
         /\ \A m \in Machines : files'[m] = IF m = n THEN f ELSE files[m]
  <1>1. files \in [Machines -> File]
    BY DEF TypeOK, Machines, File
  <1>2. File' = File
    BY DEF File
  <1> QED
    BY <1>1, <1>2

\* What is stored of this conversion spares the combined file, or is whole.
LEMMA StoringSpares ==
  ASSUME Inv, NEW n \in Machines \ {AllFile}, NEW f \in File,
         f.conversion = conversions,
         f.whole \/ (pc = "rows" /\ NotYet),
         files' = [files EXCEPT ![n] = f], UNCHANGED conversions
  PROVE  AllIsLast'
  <1>1. \A m \in Machines : files'[m] = IF m = n THEN f ELSE files[m]
    BY Storing DEF Inv
  <1>2. /\ AllFile \in Machines /\ files[AllFile] \in File
        /\ conversions \in Nat
    <2>1. MaxConversions \in Nat /\ conversions \in 0..MaxConversions
      BY SheetsAssumption DEF Inv, TypeOK
    <2> QED
      BY <2>1 DEF Inv, TypeOK, Machines, File
  <1>3. files'[AllFile] = files[AllFile]
    BY <1>1, <1>2
  <1> SUFFICES ASSUME files[AllFile].whole, NEW m \in files[AllFile].names
               PROVE  /\ files'[m].conversion >= files[AllFile].conversion
                      /\ files'[m].conversion = files[AllFile].conversion
                           => files'[m].whole
    BY <1>3 DEF AllIsLast
  <1>4. m \in Machines
    BY <1>2 DEF File
  <1>5. CASE m = n
    <2>1. files'[m] = f
      BY <1>1, <1>5
    <2>2. files[AllFile].conversion \in 0..conversions
      BY <1>2 DEF File
    <2>3. conversions >= files[AllFile].conversion
      BY <1>2, <2>2
    <2>4. files[AllFile].conversion = conversions => f.whole
      BY <1>5 DEF NotYet
    <2> QED
      BY <2>1, <2>3, <2>4
  <1>6. CASE m # n
    BY <1>1, <1>4, <1>6 DEF Inv, AllIsLast
  <1> QED
    BY <1>5, <1>6

\* The file that is written while the rows are, and then.
LEMMA ContentIs ==
  ASSUME Inv, pc # "idle"
  PROVE  /\ Content \in File /\ Target \in Machines
         /\ Content.whole = TRUE /\ Content.conversion = conversions
         /\ pc = "rows" =>
              /\ next \in Orders(sheet) /\ Target = sheet[next].name
              /\ Content.row = next /\ Content.names = {Target}
         /\ pc = "all" => Target = AllFile /\ Content.names = Ordered(sheet)
  <1>1. /\ pc \in {"rows", "all"}
        /\ pc = "rows" => next \in Orders(sheet)
        /\ sheet \in Sheets \cup {<<>>}
        /\ conversions \in 0..conversions
    <2>1. MaxConversions \in Nat /\ conversions \in 0..MaxConversions
      BY SheetsAssumption DEF Inv, TypeOK
    <2> QED
      BY <2>1 DEF Inv, TypeOK
  <1>2. CASE pc = "rows"
    <2>1. next \in Orders(sheet) /\ next \in Nat /\ Target = sheet[next].name
      BY <1>1, <1>2, OrderIs DEF Target
    <2>2. Target \in Machines
      BY <1>1, <2>1, OrderIs
    <2>3. Content = [whole |-> TRUE, conversion |-> conversions, row |-> next,
                     names |-> {Target}]
      BY <1>2 DEF Content
    <2> QED
      BY <1>1, <1>2, <2>1, <2>2, <2>3 DEF File
  <1>3. CASE pc = "all"
    <2>1. Content = [whole |-> TRUE, conversion |-> conversions, row |-> 0,
                     names |-> Ordered(sheet)]
      BY <1>3 DEF Content
    <2>2. Target = AllFile
      BY <1>3 DEF Target
    <2>3. Ordered(sheet) \subseteq Machines
      BY <1>1, OrderIs
    <2> QED
      BY <1>1, <1>3, <2>1, <2>2, <2>3 DEF File, Machines
  <1> QED
    BY <1>1, <1>2, <1>3

LEMMA WriteRowKeeps == Inv /\ WriteRow => Inv'
  <1> SUFFICES ASSUME Inv, WriteRow PROVE Inv'
    OBVIOUS
  <1> DEFINE n == Target
             f == Content
  <1>1. /\ pc = "rows" /\ files' = [files EXCEPT ![n] = f]
        /\ UNCHANGED <<sheet, verdict, conversions, outcome>>
        /\ \/ /\ Later(sheet, next) # {}
              /\ next' = Min(Later(sheet, next)) /\ pc' = "rows"
           \/ /\ Later(sheet, next) = {} /\ next' = 0 /\ pc' = "all"
    BY DEF WriteRow
  <1>2. /\ f \in File /\ n \in Machines
        /\ f.whole = TRUE /\ f.conversion = conversions
        /\ next \in Orders(sheet) /\ n = sheet[next].name
        /\ f.row = next /\ f.names = {n}
    BY <1>1, ContentIs
  <1> HIDE DEF n, f
  <1>3. /\ files' \in [Machines -> File']
        /\ \A m \in Machines : files'[m] = IF m = n THEN f ELSE files[m]
    BY <1>1, <1>2, Storing DEF Inv
  <1>4. /\ Orders(sheet) \subseteq Nat
        /\ \A i \in Orders(sheet) : sheet[i].name \in Machines
    BY OrderIs DEF Inv, TypeOK
  <1>5. /\ pc' = "rows" => next' \in Orders(sheet)
        /\ \A i \in Orders(sheet) : pc' = "rows" /\ i < next' => i <= next
        /\ pc' = "all" => next' = 0 /\ \A i \in Orders(sheet) : i <= next
        /\ pc' \in {"rows", "all"}
    <2>1. Later(sheet, next) \subseteq Orders(sheet)
      BY DEF Later
    <2>2. \A i \in Orders(sheet) : i <= next \/ i \in Later(sheet, next)
      BY <1>2, <1>4 DEF Later
    <2>3. CASE Later(sheet, next) # {}
      <3>1. /\ next' \in Later(sheet, next) /\ pc' = "rows"
            /\ \A i \in Later(sheet, next) : next' <= i
        BY <1>1, <1>4, <2>1, <2>3, MinIsLeast
      <3> QED
        BY <1>4, <2>1, <2>2, <3>1
    <2>4. CASE Later(sheet, next) = {}
      BY <1>1, <2>2, <2>4
    <2> QED
      BY <2>3, <2>4
  <1>6. TypeOK'
    BY <1>1, <1>3, <1>5 DEF Inv, TypeOK, Machines, File
  <1>7. Verdicts' /\ Outcomes' /\ InHand'
    BY <1>1 DEF Inv, Verdicts, Valid, Outcomes, InHand
  <1>8. outcome # "ok"
    BY <1>1 DEF Inv, Written
  <1>9. Written'
    <2> SUFFICES ASSUME NEW i \in Orders(sheet), sheet[i].name # AllFile,
                        i <= next
                 PROVE  Stored(i)'
      BY <1>1, <1>5, <1>8 DEF Written, Passed
    <2>1. CASE sheet[i].name = n
      BY <1>1, <1>2, <1>3, <2>1 DEF Stored
    <2>2. CASE sheet[i].name # n
      <3>1. i < next
        BY <1>2, <1>4, <2>2
      <3>2. Stored(i)
        BY <1>1, <3>1 DEF Inv, Written, Passed
      <3>3. files'[sheet[i].name] = files[sheet[i].name]
        BY <1>3, <1>4, <2>2
      <3> QED
        BY <1>1, <3>2, <3>3 DEF Stored
    <2> QED
      BY <2>1, <2>2
  <1>10. AllFile \in Machines
    BY DEF Machines
  <1>11. NotYet'
    BY <1>1, <1>2, <1>3, <1>10 DEF Inv, NotYet
  <1>12. AllIsLast'
    <2>1. CASE n = AllFile
      <3>1. files'[AllFile] = f /\ f.names = {AllFile}
        BY <1>2, <1>3, <1>10, <2>1
      <3>2. f.conversion \in Int
        BY <1>2 DEF File
      <3> QED
        BY <1>2, <3>1, <3>2 DEF AllIsLast
    <2>2. CASE n # AllFile
      BY <1>1, <1>2, <2>2, StoringSpares
    <2> QED
      BY <2>1, <2>2
  <1> QED
    BY <1>6, <1>7, <1>9, <1>11, <1>12 DEF Inv

LEMMA WriteAllKeeps == Inv /\ WriteAll => Inv'
  <1> SUFFICES ASSUME Inv, WriteAll PROVE Inv'
    OBVIOUS
  <1> DEFINE f == Content
  <1>1. /\ pc = "all" /\ pc' = "idle" /\ outcome' = "ok"
        /\ UNCHANGED <<sheet, verdict, next, conversions>>
    BY DEF WriteAll
  <1>2. /\ f \in File /\ f.whole = TRUE /\ f.conversion = conversions
        /\ f.names = Ordered(sheet) /\ AllFile \in Machines
    BY <1>1, ContentIs DEF Machines
  <1> HIDE DEF f
  <1>3. files' = [files EXCEPT ![AllFile] = f]
    BY DEF WriteAll, f
  <1>4. /\ files' \in [Machines -> File']
        /\ \A m \in Machines : files'[m] = IF m = AllFile THEN f ELSE files[m]
    BY <1>1, <1>2, <1>3, Storing DEF Inv
  <1>5. \A i \in Orders(sheet) : sheet[i].name \in Machines
    BY OrderIs DEF Inv, TypeOK
  <1>6. TypeOK'
    BY <1>1, <1>4 DEF Inv, TypeOK, Machines, File
  <1>7. Verdicts' /\ Outcomes' /\ InHand'
    BY <1>1 DEF Inv, Verdicts, Valid, Outcomes, InHand
  <1>8. \A i \in Orders(sheet) :
          sheet[i].name # AllFile =>
            Stored(i) /\ files'[sheet[i].name] = files[sheet[i].name]
    BY <1>1, <1>4, <1>5 DEF Inv, Written, Passed
  <1>9. Written'
    <2>1. \A i \in Orders(sheet) : sheet[i].name # AllFile => Stored(i)'
      BY <1>1, <1>8 DEF Stored
    <2> QED
      BY <1>1, <1>2, <1>4, <2>1 DEF Written, Ordered, Orders
  <1>10. NotYet'
    BY <1>1 DEF NotYet
  <1>11. AllIsLast'
    <2> SUFFICES ASSUME NEW m \in Ordered(sheet)
                 PROVE  files'[m].conversion = conversions /\ files'[m].whole
      <3>1. files'[AllFile] = f /\ conversions \in Int
        BY <1>2, <1>4 DEF Inv, TypeOK
      <3> QED
        BY <1>2, <3>1 DEF AllIsLast
    <2>1. CASE m = AllFile
      BY <1>2, <1>4, <2>1
    <2>2. CASE m # AllFile
      <3>1. PICK i \in Orders(sheet) : m = sheet[i].name
        BY DEF Ordered
      <3>2. Stored(i) /\ files'[m] = files[m]
        BY <1>8, <2>2, <3>1
      <3> QED
        BY <3>1, <3>2 DEF Stored
    <2> QED
      BY <2>1, <2>2
  <1> QED
    BY <1>6, <1>7, <1>9, <1>10, <1>11 DEF Inv

LEMMA StopKeeps == Inv /\ Stop => Inv'
  <1> SUFFICES ASSUME Inv, Stop PROVE Inv'
    OBVIOUS
  <1> DEFINE n == Target
             f == [Content EXCEPT !.whole = FALSE]
  <1>1. /\ pc # "idle" /\ pc' = "idle" /\ next' = 0 /\ outcome' = "ioError"
        /\ UNCHANGED <<sheet, verdict, conversions>>
        /\ UNCHANGED files \/ files' = [files EXCEPT ![n] = f]
    BY DEF Stop
  <1>2. /\ f \in File /\ n \in Machines
        /\ f.whole = FALSE /\ f.conversion = conversions
        /\ pc = "all" => n = AllFile
    BY <1>1, ContentIs DEF File
  <1> HIDE DEF n, f
  <1>3. files' \in [Machines -> File']
    <2>1. CASE UNCHANGED files
      <3>1. File' = File /\ files \in [Machines -> File]
        BY <1>1 DEF Inv, TypeOK, Machines, File
      <3> QED
        BY <2>1, <3>1
    <2>2. CASE files' = [files EXCEPT ![n] = f]
      BY <1>1, <1>2, <2>2, Storing DEF Inv
    <2> QED
      BY <1>1, <2>1, <2>2
  <1>4. TypeOK'
    BY <1>1, <1>3 DEF Inv, TypeOK, Machines, File
  <1>5. Verdicts' /\ Outcomes' /\ InHand'
    BY <1>1 DEF Inv, Verdicts, Valid, Outcomes, InHand
  <1>6. Written' /\ NotYet'
    BY <1>1 DEF Written, Passed, NotYet
  <1>7. AllIsLast'
    <2>1. CASE UNCHANGED files
      BY <1>1, <2>1 DEF Inv, AllIsLast
    <2>2. CASE files' = [files EXCEPT ![n] = f] /\ n = AllFile
      <3>1. files'[AllFile].whole = FALSE
        BY <1>1, <1>2, <2>2, Storing DEF Inv
      <3> QED
        BY <3>1 DEF AllIsLast
    <2>3. CASE files' = [files EXCEPT ![n] = f] /\ n # AllFile
      <3>1. pc = "rows"
        BY <1>1, <1>2, <2>3 DEF Inv, TypeOK
      <3> QED
        BY <1>1, <1>2, <2>3, <3>1, StoringSpares DEF Inv
    <2> QED
      BY <1>1, <2>1, <2>2, <2>3
  <1> QED
    BY <1>4, <1>5, <1>6, <1>7 DEF Inv

LEMMA StepKeeps == Inv /\ [Next]_vars => Inv'
  <1>1. Inv /\ UNCHANGED vars => Inv'
    <2> SUFFICES ASSUME Inv, UNCHANGED vars PROVE Inv'
      OBVIOUS
    <2>1. UNCHANGED <<sheet, verdict, pc, next, conversions, files, outcome>>
      BY DEF vars
    <2>2. TypeOK'
      BY <2>1 DEF Inv, TypeOK
    <2>3. Verdicts' /\ Outcomes' /\ InHand'
      BY <2>1 DEF Inv, Verdicts, Valid, Outcomes, InHand
    <2>4. Written' /\ NotYet'
      BY <2>1 DEF Inv, Written, Passed, Stored, NotYet
    <2>5. AllIsLast'
      BY <2>1 DEF Inv, AllIsLast
    <2> QED
      BY <2>2, <2>3, <2>4, <2>5 DEF Inv
  <1> QED
    BY <1>1, ProvideKeeps, WithdrawKeeps, ValidateExcelKeeps, ReadFailsKeeps,
       NoFilesKeeps, BeginWritingKeeps, WriteRowKeeps, WriteAllKeeps, StopKeeps
       DEF Next

-----------------------------------------------------------------------------
(* The theorems.                                                           *)

\* What was said of a workbook is true of it, and what a conversion has passed
\* is stored.
THEOREM Inductive == Spec => []Inv
  BY InitHolds, StepKeeps, PTL DEF Spec

\* ExcelToJSON writes the rows that have a name, and no others.
THEOREM TypeCorrect == Spec => []TypeOK
  <1>1. Inv => TypeOK
    BY DEF Inv
  <1> QED
    BY <1>1, Inductive, PTL

\* What ValidateExcel accepts, ExcelToJSON converts, unless the size of a disk
\* is not a number.
THEOREM ValidIsConvertible == Spec => []ValidConverts
  <1>1. Inv => ValidConverts
    <2> SUFFICES ASSUME Inv, Valid PROVE ValidConverts
      BY DEF ValidConverts
    <2>1. PICK cfg \in BOOLEAN : SheetAccepted(sheet, verdict = "strict", cfg)
      BY DEF Inv, Verdicts
    <2>2. outcome \notin {"panic", "error"}
      BY DEF Inv, Verdicts, Outcomes
    <2>3. ASSUME outcome = "badRow"
          PROVE  \E i \in DOMAIN sheet : sheet[i].disks = "nan"
      <3>1. PICK i \in Orders(sheet) : ~Convertible(sheet[i])
        BY <2>3 DEF Inv, Outcomes
      <3>2. sheet[i].cpus = "enough" /\ sheet[i].memory = "enough"
        BY <2>1 DEF SheetAccepted, RowFaulty
      <3>3. sheet[i].disks = "nan"
        BY <3>1, <3>2 DEF Convertible
      <3> QED
        BY <3>3 DEF Orders
    <2> QED
      BY <2>2, <2>3 DEF ValidConverts
  <1> QED
    BY <1>1, Inductive, PTL

\* After a conversion of a valid workbook each row is in the file of its
\* machine (ExcelToJSON).
THEOREM RowsAreKept == Spec => []NoRowLost
  <1>1. Inv => NoRowLost
    <2> SUFFICES ASSUME Inv, Valid, outcome = "ok", NEW i \in Orders(sheet)
                 PROVE  LET n == sheet[i].name
                        IN /\ n \in files[AllFile].names
                           /\ n # AllFile => /\ files[n].whole
                                             /\ files[n].row = i
                                             /\ files[n].conversion = conversions
      BY DEF NoRowLost
    <2> DEFINE n == sheet[i].name
    <2>1. n \in files[AllFile].names
      BY DEF Inv, Written, Ordered
    <2>2. ASSUME n # AllFile
          PROVE  /\ files[n].whole /\ files[n].row = i
                 /\ files[n].conversion = conversions
      <3>1. Stored(i)
        BY <2>2 DEF Inv, Written, Passed
      <3>2. PICK cfg \in BOOLEAN : SheetAccepted(sheet, verdict = "strict", cfg)
        BY DEF Inv, Verdicts
      <3> QED
        BY <3>1, <3>2 DEF Stored, SheetAccepted
    <2> QED
      BY <2>1, <2>2
  <1> QED
    BY <1>1, Inductive, PTL

\* ExcelToJSON writes _all_vms.json last.
THEOREM CombinedIsLast == Spec => []AllIsLast
  <1>1. Inv => AllIsLast
    BY DEF Inv
  <1> QED
    BY <1>1, Inductive, PTL

LEMMA FirstIsComplete ==
  ASSUME NEW nic \in Nic, ~FirstNicFaulty(nic)
  PROVE  StaticIsComplete(Adapter(nic)) <=>
           ~(nic.ip = "valid" /\ nic.gateway = "dhcp")
  BY DEF Nic, FirstNicFaulty, StaticIsComplete, Adapter, normalizeIP

LEMMA OtherIsComplete ==
  ASSUME NEW nic \in Nic, nic.gateway # "given"
  PROVE  StaticIsComplete(Adapter(nic)) <=> ~(nic.ip \notin {"", "dhcp"})
  BY DEF Nic, StaticIsComplete, Adapter, normalizeIP

\* A row that strict validation accepts (validateNetwork) and a deployment
\* does not (ServerRequest.Validate) has a static address on another adapter
\* than the first, or "DHCP" as the gateway of the first.
THEOREM WhereTheyDiffer == Spec => []StrictVersusDeployment
  <1>1. Inv => StrictVersusDeployment
    <2> SUFFICES ASSUME Inv, verdict = "strict", NEW i \in Orders(sheet)
                 PROVE  LET r == sheet[i]
                            extra == \E k \in 2..3 :
                                       r.nics[k].portGroup
                                         /\ r.nics[k].ip \notin {"", "dhcp"}
                            noGateway == /\ r.nics[1].ip = "valid"
                                         /\ r.nics[1].gateway = "dhcp"
                        IN (\A k \in DOMAIN Adapters(r) :
                              StaticIsComplete(Adapters(r)[k]))
                             <=> ~extra /\ ~noGateway
      BY DEF StrictVersusDeployment
    <2> DEFINE r == sheet[i]
               Complete(k) == StaticIsComplete(Adapter(r.nics[k]))
               static(k) == r.nics[k].ip \notin {"", "dhcp"}
    <2>1. PICK cfg \in BOOLEAN : ~RowFaulty(r, TRUE, cfg)
      BY DEF Inv, Verdicts, Valid, SheetAccepted
    <2>2. r \in Row
      BY OrderIs DEF Inv, TypeOK
    <2>3. \A k \in 1..3 : r.nics[k] \in Nic
      BY <2>2 DEF Row
    <2>4. /\ ~FirstNicFaulty(r.nics[1])
          /\ \A k \in 2..3 : r.nics[k].portGroup => r.nics[k].gateway # "given"
      BY <2>1 DEF RowFaulty, ExtraGateway
    <2> HIDE DEF r
    <2>5. /\ DOMAIN Adapters(r) = {j \in 1..3 : r.nics[j].portGroup}
          /\ \A k \in DOMAIN Adapters(r) : Adapters(r)[k] = Adapter(r.nics[k])
      BY DEF Adapters
    <2>6. Complete(1) <=> ~(r.nics[1].ip = "valid" /\ r.nics[1].gateway = "dhcp")
      BY <2>3, <2>4, FirstIsComplete
    <2>7. \A k \in 2..3 : r.nics[k].portGroup => (Complete(k) <=> ~static(k))
      <3> SUFFICES ASSUME NEW k \in 2..3, r.nics[k].portGroup
                   PROVE  Complete(k) <=> ~static(k)
        OBVIOUS
      <3>1. k \in 1..3
        OBVIOUS
      <3>2. r.nics[k] \in Nic
        BY <2>3, <3>1
      <3>3. r.nics[k].gateway # "given"
        BY <2>4
      <3> QED
        BY <3>2, <3>3, OtherIsComplete, Zenon
    <2>8. r.nics[1].portGroup
      BY <2>4 DEF FirstNicFaulty
    <2>9. (\A k \in DOMAIN Adapters(r) : StaticIsComplete(Adapters(r)[k])) <=>
            Complete(1) /\ \A k \in 2..3 : r.nics[k].portGroup => Complete(k)
      <3>1. 1 \in 1..3 /\ \A k \in 1..3 : k = 1 \/ k \in 2..3
        OBVIOUS
      <3>2. \A k \in 2..3 : k \in 1..3
        OBVIOUS
      <3>3. 1 \in DOMAIN Adapters(r)
        BY <2>5, <2>8, <3>1
      <3>4. \A k \in 2..3 : k \in DOMAIN Adapters(r) <=> r.nics[k].portGroup
        BY <2>5, <3>2
      <3>5. \A k \in DOMAIN Adapters(r) : k = 1 \/ k \in 2..3
        BY <2>5, <3>1
      <3>6. \A k \in DOMAIN Adapters(r) :
              StaticIsComplete(Adapters(r)[k]) <=> Complete(k)
        BY <2>5
      <3> HIDE DEF Complete
      <3> QED
        BY <3>3, <3>4, <3>5, <3>6, Zenon
    <2> HIDE DEF Complete
    <2>10. (\A k \in DOMAIN Adapters(r) : StaticIsComplete(Adapters(r)[k])) <=>
             /\ ~\E k \in 2..3 : r.nics[k].portGroup /\ static(k)
             /\ ~(r.nics[1].ip = "valid" /\ r.nics[1].gateway = "dhcp")
      BY <2>6, <2>7, <2>9, Zenon
    <2> QED
      BY <2>10 DEF r
  <1> QED
    BY <1>1, Inductive, PTL
=============================================================================
