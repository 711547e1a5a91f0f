--------------------------- MODULE SessionProofs ---------------------------
(***************************************************************************)
(* Proofs about Session: the lock keeps one writer at a time and no reader *)
(* beside it, and what the client caches, and what a goroutine has read of *)
(* it, belongs together, for any number of goroutines and datacenters.     *)
(*                                                                         *)
(* The finder is the last of the three fields that SetDatacenter assigns.  *)
(* The argument is that the other two agree with it except while a writer  *)
(* is between its assignments, that no reader is inside then, and that     *)
(* whatever has been read since the last assignment is still what the      *)
(* finder says.                                                            *)
(***************************************************************************)
EXTENDS Session, TLAPS

\* How far a writer has come with its assignments, and what the fields hold.
\* The client of a constructor, which is not shared, has its name beforehand.
Agrees(c) ==
  CASE pc[c] = "setName" ->
         client.datacenter = name[c]
    [] pc[c] = "setFinder" ->
         client.datacenter = name[c] /\ client.datacenterName = name[c]
    [] OTHER ->
         /\ client.datacenter = client.finder
         /\ client.shared => client.datacenterName = client.finder

Fields == ~Busy => /\ client.datacenter = client.finder
                   /\ client.datacenterName = client.finder

Writers == \A c \in Setters : pc[c] \in Writing => Agrees(c)

\* Until a client is shared it caches nothing and nobody else uses it.
Private ==
  ~client.shared =>
    /\ client.finder = ""
    /\ \A c \in Callers : pc[c] \notin {"rlock", "read", "lock"}

HasSession == client.shared \/ Busy => client.session # 0

\* A constructor begins without a client, and only one at a time.
OneLogin ==
  \A c \in Setters : pc[c] = "login" =>
    /\ client = NoClient /\ connects # 0
    /\ \A d \in Setters : pc[d] = "login" => c = d

Roles ==
  /\ \A c \in Setters : pc[c] \notin {"rlock", "read"}
  /\ \A c \in Readers : pc[c] \in {"idle", "rlock", "read"}

Recent ==
  \A c \in Readers : \A g \in Getters : got[c][g] \in {"unread", client.finder}

Inv ==
  /\ TypeOK /\ Fields /\ Writers /\ Private /\ HasSession /\ OneLogin /\ Roles
  /\ Recent

-----------------------------------------------------------------------------
Steps == {"idle", "login", "lock", "rlock", "read"} \cup Writing
Cached == Names \cup {""}
Clients == [shared : BOOLEAN, session : 0..MaxConnects, renews : BOOLEAN,
            datacenter : Cached, datacenterName : Cached, finder : Cached]

LEMMA ZeroFits == 0 \in 0..MaxConnects
  <1>1. MaxConnects \in Nat
    BY SessionAssumption
  <1> QED
    BY <1>1

LEMMA NoClientFields ==
  /\ NoClient \in Clients
  /\ NoClient.session = 0 /\ NoClient.shared = FALSE
  /\ NoClient.datacenter = "" /\ NoClient.datacenterName = ""
  /\ NoClient.finder = ""
  <1>1. "" \in Cached
    BY DEF Cached
  <1> QED
    BY <1>1, ZeroFits DEF NoClient, Clients

\* Where the goroutines are after the three ways of moving on.
Called ==
  /\ pc \in [Callers -> Steps]
  /\ name \in [Setters -> Cached]
  /\ ctx \in [Setters -> {"live", "over"}]

LEMMA GotoMoves ==
  ASSUME TypeOK, NEW c \in Callers, NEW step \in Steps, Goto(c, step)
  PROVE  /\ Called' /\ UNCHANGED name
         /\ \A d \in Callers : pc'[d] = IF d = c THEN step ELSE pc[d]
  BY DEF TypeOK, Called, Goto, Steps, Cached

LEMMA EnterMoves ==
  ASSUME TypeOK, NEW c \in Setters, NEW step \in Steps, NEW n \in Cached,
         EnterWith(c, step, n)
  PROVE  /\ Called'
         /\ \A d \in Callers : pc'[d] = IF d = c THEN step ELSE pc[d]
         /\ \A d \in Setters : name'[d] = IF d = c THEN n ELSE name[d]
  BY DEF TypeOK, Called, EnterWith, Steps, Cached, Callers

LEMMA ReturnMoves ==
  ASSUME TypeOK, NEW c \in Setters, Return(c)
  PROVE  /\ Called'
         /\ \A d \in Callers :
              pc'[d] = IF d = c THEN "idle"
                       ELSE IF pc[c] \in Writing /\ pc[d] = "rlock" THEN "read"
                       ELSE pc[d]
         /\ \A d \in Setters : d # c => name'[d] = name[d]
  BY DEF TypeOK, Called, Return, Steps, Cached, Callers

\* What TypeOK says of the rest.
Stored ==
  /\ client \in Clients
  /\ sessions \subseteq 1..MaxConnects
  /\ connects \in 0..MaxConnects
  /\ got \in [Readers -> [Getters -> Names \cup {"", "unread"}]]

LEMMA Parts == TypeOK <=> Called /\ Stored /\ OneWriter
  BY DEF TypeOK, Called, Stored, Steps, Cached, Clients

LEMMA InitInv == Init => Inv
  <1> SUFFICES ASSUME Init PROVE Inv
    OBVIOUS
  <1> USE SessionAssumption, NoClientFields DEF Init, Callers, Writing
  <1>1. OneWriter
    BY DEF OneWriter
  <1>2. Called
    BY DEF Called, Steps, Cached
  <1>6. Stored
    <2>1. connects \in 0..MaxConnects
      BY ZeroFits
    <2> QED
      BY <2>1 DEF Stored, Nothing
  <1>3. ~Busy
    BY DEF Busy
  <1>4. Fields /\ Writers /\ Private /\ HasSession /\ OneLogin /\ Roles
    BY <1>3 DEF Fields, Writers, Private, HasSession, OneLogin, Roles
  <1>5. Recent
    BY DEF Recent, Nothing
  <1> QED
    BY <1>1, <1>2, <1>4, <1>5, <1>6, Parts DEF Inv

LEMMA LoginFailsKeeps ==
  ASSUME Inv, NEW c \in Setters, LoginFails(c)
  PROVE  Inv'
  <1> USE SessionAssumption DEF Inv, Callers, Writing
  <1>1. /\ Called'
        /\ \A d \in Callers :
             pc'[d] = IF d = c THEN "idle"
                      ELSE IF pc[c] \in Writing /\ pc[d] = "rlock" THEN "read"
                      ELSE pc[d]
        /\ \A d \in Setters : d # c => name'[d] = name[d]
    BY ReturnMoves DEF LoginFails, Steps
  <1>2. UNCHANGED <<client, sessions, connects, got>>
    BY DEF LoginFails, server, TypeOK, Clients, Cached
  <1>0. Called /\ Stored /\ OneWriter
    BY Parts
  <1>3. OneWriter'
    <2>1. \A d \in Callers : pc'[d] = IF d = c THEN "idle" ELSE pc[d]
      BY <1>1 DEF LoginFails
    <2> QED
      BY <1>0, <2>1 DEF OneWriter
  <1>4. TypeOK'
    <2>1. Stored'
      BY <1>0, <1>2 DEF Stored, Nothing
    <2> QED
      BY <1>1, <1>3, <2>1 DEF TypeOK, Called, Stored, Steps, Cached, Clients
  <1>5. Fields'
    BY <1>1, <1>2
       DEF TypeOK, Fields, Writers, Agrees, OneWriter, Private, Busy,
           LoginFails
  <1>6. Writers'
    BY <1>0, <1>1, <1>2 DEF Writers, Agrees, OneWriter, LoginFails
  <1>7. Private'
    BY <1>1, <1>2 DEF Private, Roles, LoginFails
  <1>8. HasSession'
    BY <1>1, <1>2 DEF HasSession, Busy, Private, LoginFails
  <1>9. OneLogin'
    BY <1>1, <1>2, NoClientFields DEF OneLogin, HasSession, Busy, LoginFails
  <1>10. Roles'
    BY <1>1 DEF Roles
  <1>11. Recent'
    BY <1>1, <1>2 DEF Recent, Nothing
  <1> QED
    BY <1>4, <1>5, <1>6, <1>7, <1>8, <1>9, <1>10, <1>11

LEMMA LockKeeps ==
  ASSUME Inv, NEW c \in Setters, Lock(c)
  PROVE  Inv'
  <1> USE SessionAssumption DEF Inv, Callers, Writing
  <1>1. /\ Called' /\ UNCHANGED name
        /\ \A d \in Callers : pc'[d] = IF d = c THEN "drain" ELSE pc[d]
    BY GotoMoves DEF Lock, Steps
  <1>2. UNCHANGED <<client, sessions, connects, got>>
    BY DEF Lock, server, TypeOK, Clients, Cached
  <1>0. Called /\ Stored /\ OneWriter
    BY Parts
  <1>3. OneWriter'
    BY <1>0, <1>1 DEF OneWriter, Lock, Busy, Roles
  <1>4. TypeOK'
    <2>1. Stored'
      BY <1>0, <1>2 DEF Stored, Nothing
    <2> QED
      BY <1>1, <1>3, <2>1 DEF TypeOK, Called, Stored, Steps, Cached, Clients
  <1>5. Fields'
    BY <1>1, <1>2
       DEF TypeOK, Fields, Writers, Agrees, OneWriter, Private, Busy, Lock
  <1>6. Writers'
    BY <1>0, <1>1, <1>2 DEF Fields, Writers, Agrees, Lock, Busy
  <1>7. Private'
    BY <1>1, <1>2 DEF Private, Roles, Lock
  <1>8. HasSession'
    BY <1>1, <1>2 DEF HasSession, Busy, Private, Lock
  <1>9. OneLogin'
    BY <1>1, <1>2, NoClientFields DEF OneLogin, HasSession, Busy, Lock
  <1>10. Roles'
    BY <1>1 DEF Roles
  <1>11. Recent'
    BY <1>1, <1>2 DEF Recent, Nothing
  <1> QED
    BY <1>4, <1>5, <1>6, <1>7, <1>8, <1>9, <1>10, <1>11

LEMMA DrainKeeps ==
  ASSUME Inv, NEW c \in Setters, Drain(c)
  PROVE  Inv'
  <1> USE SessionAssumption DEF Inv, Callers, Writing
  <1>1. /\ Called' /\ UNCHANGED name
        /\ \A d \in Callers : pc'[d] = IF d = c THEN "lookup" ELSE pc[d]
    BY GotoMoves DEF Drain, Steps
  <1>2. UNCHANGED <<client, sessions, connects, got>>
    BY DEF Drain, server, TypeOK, Clients, Cached
  <1>0. Called /\ Stored /\ OneWriter
    BY Parts
  <1>3. OneWriter'
    BY <1>0, <1>1 DEF OneWriter, Drain, Busy, Roles
  <1>4. TypeOK'
    <2>1. Stored'
      BY <1>0, <1>2 DEF Stored, Nothing
    <2> QED
      BY <1>1, <1>3, <2>1 DEF TypeOK, Called, Stored, Steps, Cached, Clients
  <1>5. Fields'
    BY <1>1, <1>2
       DEF TypeOK, Fields, Writers, Agrees, OneWriter, Private, Busy, Drain
  <1>6. Writers'
    BY <1>0, <1>1, <1>2 DEF Writers, Agrees, OneWriter, Drain
  <1>7. Private'
    BY <1>1, <1>2 DEF Private, Roles, Drain
  <1>8. HasSession'
    BY <1>1, <1>2 DEF HasSession, Busy, Private, Drain
  <1>9. OneLogin'
    BY <1>1, <1>2, NoClientFields DEF OneLogin, HasSession, Busy, Drain
  <1>10. Roles'
    BY <1>1 DEF Roles
  <1>11. Recent'
    BY <1>1, <1>2 DEF Recent, Nothing
  <1> QED
    BY <1>4, <1>5, <1>6, <1>7, <1>8, <1>9, <1>10, <1>11

LEMMA AssignDatacenterKeeps ==
  ASSUME Inv, NEW c \in Setters, AssignDatacenter(c)
  PROVE  Inv'
  <1> USE SessionAssumption DEF Inv, Callers, Writing
  <1>1. /\ Called' /\ UNCHANGED name
        /\ \A d \in Callers : pc'[d] = IF d = c THEN "setName" ELSE pc[d]
    BY GotoMoves DEF AssignDatacenter, Steps
  <1>2. /\ client' \in Clients /\ UNCHANGED <<sessions, connects, got>>
        /\ client'.shared = client.shared /\ client'.session = client.session
        /\ client'.datacenter = name[c]
        /\ client'.datacenterName = client.datacenterName
        /\ client'.finder = client.finder
    BY DEF AssignDatacenter, server, TypeOK, Clients, Cached
  <1>0. Called /\ Stored /\ OneWriter
    BY Parts
  <1>3. OneWriter'
    <2>1. pc[c] = "setDatacenter"
      BY DEF AssignDatacenter
    <2>2. \A d \in Callers : pc'[d] \in Writing \/ pc'[d] = "read" =>
            /\ pc'[d] \in Writing => pc[d] \in Writing
            /\ pc'[d] = "read" => pc[d] = "read"
      BY <1>1, <2>1
    <2>3. \A d \in Callers : pc[d] \in Writing => d = c
      BY <1>0, <2>1 DEF OneWriter
    <2>4. \A d \in Callers : pc[d] # "read"
      BY <1>0, <2>1 DEF OneWriter
    <2> HIDE DEF Inv, Callers, Writing
    <2> QED
      BY <2>2, <2>3, <2>4 DEF OneWriter
  <1>4. TypeOK'
    <2>1. Stored'
      BY <1>0, <1>2 DEF Stored, Nothing
    <2> QED
      BY <1>1, <1>3, <2>1 DEF TypeOK, Called, Stored, Steps, Cached, Clients
  <1>5. Fields'
    BY <1>1, <1>2
       DEF TypeOK, Fields, Writers, Agrees, OneWriter, Private, Busy,
           AssignDatacenter
  <1>6. Writers'
    BY <1>0, <1>1, <1>2 DEF Writers, Agrees, OneWriter, AssignDatacenter
  <1>7. Private'
    BY <1>1, <1>2 DEF Private, Roles, AssignDatacenter
  <1>8. HasSession'
    BY <1>1, <1>2 DEF HasSession, Busy, Private, AssignDatacenter
  <1>9. OneLogin'
    BY <1>1, <1>2, NoClientFields
       DEF OneLogin, HasSession, Busy, AssignDatacenter
  <1>10. Roles'
    BY <1>1 DEF Roles
  <1>11. Recent'
    BY <1>1, <1>2 DEF Recent, Nothing
  <1> QED
    BY <1>4, <1>5, <1>6, <1>7, <1>8, <1>9, <1>10, <1>11

LEMMA AssignNameKeeps ==
  ASSUME Inv, NEW c \in Setters, AssignName(c)
  PROVE  Inv'
  <1> USE SessionAssumption DEF Inv, Callers, Writing
  <1>1. /\ Called' /\ UNCHANGED name
        /\ \A d \in Callers : pc'[d] = IF d = c THEN "setFinder" ELSE pc[d]
    BY GotoMoves DEF AssignName, Steps
  <1>2. /\ client' \in Clients /\ UNCHANGED <<sessions, connects, got>>
        /\ client'.shared = client.shared /\ client'.session = client.session
        /\ client'.datacenter = client.datacenter
        /\ client'.datacenterName = name[c]
        /\ client'.finder = client.finder
    BY DEF AssignName, server, TypeOK, Clients, Cached
  <1>0. Called /\ Stored /\ OneWriter
    BY Parts
  <1>3. OneWriter'
    <2>1. pc[c] = "setName"
      BY DEF AssignName
    <2>2. \A d \in Callers : pc'[d] \in Writing \/ pc'[d] = "read" =>
            /\ pc'[d] \in Writing => pc[d] \in Writing
            /\ pc'[d] = "read" => pc[d] = "read"
      BY <1>1, <2>1
    <2>3. \A d \in Callers : pc[d] \in Writing => d = c
      BY <1>0, <2>1 DEF OneWriter
    <2>4. \A d \in Callers : pc[d] # "read"
      BY <1>0, <2>1 DEF OneWriter
    <2> HIDE DEF Inv, Callers, Writing
    <2> QED
      BY <2>2, <2>3, <2>4 DEF OneWriter
  <1>4. TypeOK'
    <2>1. Stored'
      BY <1>0, <1>2 DEF Stored, Nothing
    <2> QED
      BY <1>1, <1>3, <2>1 DEF TypeOK, Called, Stored, Steps, Cached, Clients
  <1>5. Fields'
    BY <1>1, <1>2
       DEF TypeOK, Fields, Writers, Agrees, OneWriter, Private, Busy,
           AssignName
  <1>6. Writers'
    <2>1. \A d \in Setters : pc'[d] \in Writing => d = c
      BY <1>0, <1>1 DEF OneWriter, AssignName
    <2>2. client.datacenter = name[c]
      BY DEF Writers, Agrees, AssignName
    <2>3. Agrees(c)'
      BY <1>1, <1>2, <2>2 DEF Agrees
    <2> QED
      BY <2>1, <2>3 DEF Writers
  <1>7. Private'
    BY <1>1, <1>2 DEF Private, Roles, AssignName
  <1>8. HasSession'
    BY <1>1, <1>2 DEF HasSession, Busy, Private, AssignName
  <1>9. OneLogin'
    BY <1>1, <1>2, NoClientFields DEF OneLogin, HasSession, Busy, AssignName
  <1>10. Roles'
    BY <1>1 DEF Roles
  <1>11. Recent'
    BY <1>1, <1>2 DEF Recent, Nothing
  <1> QED
    BY <1>4, <1>5, <1>6, <1>7, <1>8, <1>9, <1>10, <1>11

LEMMA AssignFinderKeeps ==
  ASSUME Inv, NEW c \in Setters, AssignFinder(c)
  PROVE  Inv'
  <1> USE SessionAssumption DEF Inv, Callers, Writing
  <1>1. /\ Called'
        /\ \A d \in Callers :
             pc'[d] = IF d = c THEN "idle"
                      ELSE IF pc[c] \in Writing /\ pc[d] = "rlock" THEN "read"
                      ELSE pc[d]
        /\ \A d \in Setters : d # c => name'[d] = name[d]
    BY ReturnMoves DEF AssignFinder, Steps
  <1>2. /\ client' \in Clients /\ UNCHANGED <<sessions, connects>>
        /\ client'.shared = TRUE /\ client'.session = client.session
        /\ client'.datacenter = client.datacenter
        /\ client'.datacenterName = client.datacenterName
        /\ client'.finder = name[c]
        /\ got' = [d \in Readers |-> Nothing]
    BY DEF AssignFinder, server, TypeOK, Clients, Cached
  <1>0. Called /\ Stored /\ OneWriter
    BY Parts
  <1>3. OneWriter'
    <2>1. pc[c] = "setFinder"
      BY DEF AssignFinder
    <2>2. \A d \in Callers : pc'[d] \notin Writing
      BY <1>0, <1>1, <2>1 DEF OneWriter
    <2> HIDE DEF Inv, Callers, Writing
    <2> QED
      BY <2>2 DEF OneWriter
  <1>4. TypeOK'
    <2>1. Stored'
      BY <1>0, <1>2 DEF Stored, Nothing
    <2> QED
      BY <1>1, <1>3, <2>1 DEF TypeOK, Called, Stored, Steps, Cached, Clients
  <1>5. Fields'
    BY <1>1, <1>2
       DEF TypeOK, Fields, Writers, Agrees, OneWriter, Private, Busy,
           AssignFinder
  <1>6. Writers'
    <2>1. \A d \in Setters : pc'[d] \notin Writing
      BY <1>0, <1>1 DEF OneWriter, AssignFinder
    <2> QED
      BY <2>1 DEF Writers
  <1>7. Private'
    BY <1>1, <1>2 DEF Private, Roles, AssignFinder
  <1>8. HasSession'
    BY <1>1, <1>2 DEF HasSession, Busy, Private, AssignFinder
  <1>9. OneLogin'
    BY <1>1, <1>2, NoClientFields DEF OneLogin, HasSession, Busy, AssignFinder
  <1>10. Roles'
    BY <1>1 DEF Roles
  <1>11. Recent'
    BY <1>1, <1>2 DEF Recent, Nothing
  <1> QED
    BY <1>4, <1>5, <1>6, <1>7, <1>8, <1>9, <1>10, <1>11

LEMMA OneMore ==
  ASSUME NEW n \in 0..MaxConnects, n < MaxConnects
  PROVE  n + 1 \in 0..MaxConnects /\ n + 1 # 0
  <1>1. MaxConnects \in Nat
    BY SessionAssumption
  <1> QED
    BY <1>1

LEMMA NotZero ==
  ASSUME NEW n \in 0..MaxConnects, n # 0
  PROVE  n \in 1..MaxConnects
  <1>1. MaxConnects \in Nat
    BY SessionAssumption
  <1> QED
    BY <1>1

LEMMA ConnectKeeps ==
  ASSUME Inv, NEW c \in Setters, Connect(c)
  PROVE  Inv'
  <1> USE SessionAssumption DEF Inv, Callers, Writing
  <1>0. Called /\ Stored /\ OneWriter
    BY Parts
  <1>1. /\ Called'
        /\ \A d \in Callers : pc'[d] = IF d = c THEN "login" ELSE pc[d]
        /\ \A d \in Setters : d # c => name'[d] = name[d]
    <2>1. PICK n \in Cached : EnterWith(c, "login", n)
      BY DEF Connect, Cached
    <2> QED
      BY <2>1, EnterMoves DEF Steps
  <1>2. /\ client = NoClient /\ connects < MaxConnects
        /\ connects' = connects + 1 /\ UNCHANGED <<client, sessions, got>>
        /\ \A d \in Callers : pc[d] # "login"
    BY DEF Connect
  <1>3. OneWriter'
    <2>1. \A d \in Callers :
            pc'[d] \in Writing \cup {"read"} => pc'[d] = pc[d]
      BY <1>1
    <2> QED
      BY <1>0, <2>1 DEF OneWriter
  <1>4. TypeOK'
    <2>1. connects' \in 0..MaxConnects
      BY <1>0, <1>2, OneMore DEF Stored
    <2>2. Stored'
      BY <1>0, <1>2, <2>1 DEF Stored
    <2> QED
      BY <1>1, <1>3, <2>2 DEF TypeOK, Called, Stored, Steps, Cached, Clients
  <1>5. Fields'
    BY <1>1, <1>2 DEF Fields, Writers, Agrees, Busy, Connect
  <1>6. Writers'
    BY <1>0, <1>1, <1>2 DEF Writers, Agrees, OneWriter, Connect
  <1>7. Private'
    BY <1>1, <1>2 DEF Private, Roles, Connect
  <1>8. HasSession'
    BY <1>1, <1>2 DEF HasSession, Busy, Private, Connect
  <1>9. OneLogin'
    <2>1. connects' # 0
      BY <1>0, <1>2, OneMore DEF Stored
    <2> QED
      BY <1>1, <1>2, <2>1 DEF OneLogin
  <1>10. Roles'
    BY <1>1 DEF Roles
  <1>11. Recent'
    BY <1>1, <1>2 DEF Recent, Nothing
  <1> QED
    BY <1>4, <1>5, <1>6, <1>7, <1>8, <1>9, <1>10, <1>11

LEMMA SetDatacenterKeeps ==
  ASSUME Inv, NEW c \in Setters, SetDatacenter(c)
  PROVE  Inv'
  <1> USE SessionAssumption DEF Inv, Callers, Writing
  <1>0. Called /\ Stored /\ OneWriter
    BY Parts
  <1>1. /\ Called'
        /\ \A d \in Callers : pc'[d] = IF d = c THEN "lock" ELSE pc[d]
        /\ \A d \in Setters : d # c => name'[d] = name[d]
    <2>1. PICK n \in Cached : EnterWith(c, "lock", n)
      BY DEF SetDatacenter, Cached
    <2> QED
      BY <2>1, EnterMoves DEF Steps
  <1>2. client.shared /\ UNCHANGED <<client, sessions, connects, got>>
    BY DEF SetDatacenter, server
  <1>3. OneWriter'
    <2>1. \A d \in Callers :
            pc'[d] \in Writing \cup {"read"} => pc'[d] = pc[d]
      BY <1>1
    <2> QED
      BY <1>0, <2>1 DEF OneWriter
  <1>4. TypeOK'
    <2>1. Stored'
      BY <1>0, <1>2 DEF Stored, Nothing
    <2> QED
      BY <1>1, <1>3, <2>1 DEF TypeOK, Called, Stored, Steps, Cached, Clients
  <1>5. Fields'
    BY <1>1, <1>2 DEF Fields, Writers, Agrees, Busy, SetDatacenter
  <1>6. Writers'
    BY <1>1, <1>2 DEF Writers, Agrees
  <1>7. Private'
    BY <1>2 DEF Private
  <1>8. HasSession'
    BY <1>1, <1>2 DEF HasSession, Busy, Private, SetDatacenter
  <1>9. OneLogin'
    BY <1>1, <1>2, NoClientFields DEF OneLogin, HasSession, Busy, SetDatacenter
  <1>10. Roles'
    BY <1>1 DEF Roles
  <1>11. Recent'
    BY <1>1, <1>2 DEF Recent, Nothing
  <1> QED
    BY <1>4, <1>5, <1>6, <1>7, <1>8, <1>9, <1>10, <1>11

LEMMA CancelKeeps ==
  ASSUME Inv, NEW c \in Setters, Cancel(c)
  PROVE  Inv'
  <1> USE SessionAssumption DEF Inv, Callers, Writing
  <1>0. Called /\ Stored /\ OneWriter
    BY Parts
  <1>1. /\ Called' /\ UNCHANGED <<pc, name>>
    BY <1>0 DEF Called, Cancel
  <1>2. UNCHANGED <<client, sessions, connects, got>>
    BY DEF Cancel, server
  <1>3. OneWriter'
    BY <1>0, <1>1 DEF OneWriter, Cancel, Busy, Roles
  <1>4. TypeOK'
    <2>1. Stored'
      BY <1>0, <1>2 DEF Stored, Nothing
    <2> QED
      BY <1>1, <1>3, <2>1 DEF TypeOK, Called, Stored, Steps, Cached, Clients
  <1>5. Fields'
    BY <1>1, <1>2 DEF Fields, Writers, Agrees, Busy, Cancel
  <1>6. Writers'
    BY <1>1, <1>2 DEF Writers, Agrees
  <1>7. Private'
    BY <1>1, <1>2 DEF Private, Roles, Cancel
  <1>8. HasSession'
    BY <1>1, <1>2 DEF HasSession, Busy, Private, Cancel
  <1>9. OneLogin'
    BY <1>1, <1>2, NoClientFields DEF OneLogin, HasSession, Busy, Cancel
  <1>10. Roles'
    BY <1>1 DEF Roles
  <1>11. Recent'
    BY <1>1, <1>2 DEF Recent, Nothing
  <1> QED
    BY <1>4, <1>5, <1>6, <1>7, <1>8, <1>9, <1>10, <1>11

LEMMA LogoutKeeps ==
  ASSUME Inv, NEW c \in Setters, Logout(c)
  PROVE  Inv'
  <1> USE SessionAssumption DEF Inv, Callers, Writing
  <1>0. Called /\ Stored /\ OneWriter
    BY Parts
  <1>1. /\ Called' /\ UNCHANGED <<pc, name>>
    BY <1>0 DEF Called, Logout
  <1>2. UNCHANGED <<client, connects, got>> /\ sessions' \subseteq sessions
    BY DEF Logout
  <1>3. OneWriter'
    BY <1>0, <1>1 DEF OneWriter, Logout, Busy, Roles
  <1>4. TypeOK'
    <2>1. Stored'
      BY <1>0, <1>2 DEF Stored, Nothing
    <2> QED
      BY <1>1, <1>3, <2>1 DEF TypeOK, Called, Stored, Steps, Cached, Clients
  <1>5. Fields'
    BY <1>1, <1>2 DEF Fields, Writers, Agrees, Busy, Logout
  <1>6. Writers'
    BY <1>1, <1>2 DEF Writers, Agrees
  <1>7. Private'
    BY <1>1, <1>2 DEF Private, Roles, Logout
  <1>8. HasSession'
    BY <1>1, <1>2 DEF HasSession, Busy, Private, Logout
  <1>9. OneLogin'
    BY <1>1, <1>2, NoClientFields DEF OneLogin, HasSession, Busy, Logout
  <1>10. Roles'
    BY <1>1 DEF Roles
  <1>11. Recent'
    BY <1>1, <1>2 DEF Recent, Nothing
  <1> QED
    BY <1>4, <1>5, <1>6, <1>7, <1>8, <1>9, <1>10, <1>11

LEMMA LookupFindsKeeps ==
  ASSUME Inv, NEW c \in Setters, LookupFinds(c)
  PROVE  Inv'
  <1> USE SessionAssumption DEF Inv, Callers, Writing
  <1>0. Called /\ Stored /\ OneWriter
    BY Parts
  <1>1. /\ Called' /\ UNCHANGED name
        /\ \A d \in Callers : pc'[d] = IF d = c THEN "setDatacenter" ELSE pc[d]
    BY <1>0 DEF Called, Steps, LookupFinds
  <1>2. /\ sessions' \subseteq 1..MaxConnects
        /\ UNCHANGED <<client, connects, got>>
    <2>1. client.session \in 0..MaxConnects /\ client.session # 0
      BY <1>0 DEF Stored, Clients, HasSession, Busy, LookupFinds
    <2>2. client.session \in 1..MaxConnects
      BY <2>1, NotZero
    <2> QED
      BY <1>0, <2>2 DEF Stored, LookupFinds
  <1>3. OneWriter'
    <2>1. pc[c] = "lookup"
      BY DEF LookupFinds
    <2> QED
      BY <1>0, <1>1, <2>1 DEF OneWriter
  <1>4. TypeOK'
    <2>1. Stored'
      BY <1>0, <1>2 DEF Stored, Nothing
    <2> QED
      BY <1>1, <1>3, <2>1 DEF TypeOK, Called, Stored, Steps, Cached, Clients
  <1>5. Fields'
    BY <1>1, <1>2 DEF Fields, Writers, Agrees, Busy, LookupFinds
  <1>6. Writers'
    <2>1. pc[c] = "lookup"
      BY DEF LookupFinds
    <2>2. \A d \in Setters : pc'[d] \in Writing => d = c
      BY <1>0, <1>1, <2>1 DEF OneWriter
    <2>3. Agrees(c)'
      BY <1>1, <1>2, <2>1 DEF Writers, Agrees
    <2> QED
      BY <2>2, <2>3 DEF Writers
  <1>7. Private'
    BY <1>1, <1>2 DEF Private
  <1>8. HasSession'
    BY <1>1, <1>2 DEF HasSession, Busy, Private, LookupFinds
  <1>9. OneLogin'
    <2>1. client.session # 0
      BY DEF HasSession, Busy, LookupFinds
    <2> QED
      BY <1>1, <1>2, <2>1, NoClientFields DEF OneLogin
  <1>10. Roles'
    BY <1>1 DEF Roles
  <1>11. Recent'
    BY <1>1, <1>2 DEF Recent, Nothing
  <1> QED
    BY <1>4, <1>5, <1>6, <1>7, <1>8, <1>9, <1>10, <1>11

LEMMA LookupFailsKeeps ==
  ASSUME Inv, NEW c \in Setters, LookupFails(c)
  PROVE  Inv'
  <1> USE SessionAssumption DEF Inv, Callers, Writing
  <1>0. Called /\ Stored /\ OneWriter
    BY Parts
  <1>1. /\ Called'
        /\ \A d \in Callers :
             pc'[d] = IF d = c THEN "idle"
                      ELSE IF pc[c] \in Writing /\ pc[d] = "rlock" THEN "read"
                      ELSE pc[d]
        /\ \A d \in Setters : d # c => name'[d] = name[d]
    BY ReturnMoves DEF LookupFails
  <1>2. /\ client' \in Clients /\ UNCHANGED <<sessions, connects, got>>
        /\ client' = IF client.shared THEN client ELSE NoClient
    BY <1>0, NoClientFields DEF LookupFails, server, Stored
  <1>3. OneWriter'
    <2>1. pc[c] = "lookup"
      BY DEF LookupFails
    <2> QED
      BY <1>0, <1>1, <2>1 DEF OneWriter
  <1>4. TypeOK'
    <2>1. Stored'
      BY <1>0, <1>2 DEF Stored, Nothing
    <2> QED
      BY <1>1, <1>3, <2>1 DEF TypeOK, Called, Stored, Steps, Cached, Clients
  <1>5. Fields'
    BY <1>1, <1>2, NoClientFields
       DEF Fields, Writers, Agrees, Busy, LookupFails
  <1>6. Writers'
    BY <1>0, <1>1 DEF Writers, OneWriter, LookupFails
  <1>7. Private'
    BY <1>1, <1>2, NoClientFields DEF Private, Roles, LookupFails
  <1>8. HasSession'
    <2>1. ~Busy'
      BY <1>0, <1>1 DEF OneWriter, LookupFails, Busy
    <2> QED
      BY <1>2, <2>1, NoClientFields DEF HasSession
  <1>9. OneLogin'
    BY <1>1, NoClientFields DEF OneLogin, HasSession, Busy, LookupFails
  <1>10. Roles'
    BY <1>1 DEF Roles
  <1>11. Recent'
    <2>1. CASE client.shared
      BY <1>2, <2>1 DEF Recent
    <2>2. CASE ~client.shared
      BY <1>2, <2>2, NoClientFields DEF Recent, Private
    <2> QED
      BY <2>1, <2>2
  <1> QED
    BY <1>4, <1>5, <1>6, <1>7, <1>8, <1>9, <1>10, <1>11

LEMMA GetKeeps ==
  ASSUME Inv, NEW c \in Readers, Get(c)
  PROVE  Inv'
  <1> USE SessionAssumption DEF Inv, Callers, Writing
  <1>0. Called /\ Stored /\ OneWriter
    BY Parts
  <1>1. PICK step \in {"read", "rlock"} :
          /\ step = (IF Busy THEN "rlock" ELSE "read")
          /\ Called' /\ UNCHANGED name
          /\ \A d \in Callers : pc'[d] = IF d = c THEN step ELSE pc[d]
    BY GotoMoves DEF Get, Steps
  <1>2. client.shared /\ UNCHANGED <<client, sessions, connects, got>>
    BY DEF Get, server
  <1>3. OneWriter'
    <2>1. pc[c] = "idle" /\ (Busy => step = "rlock")
      BY <1>1 DEF Get
    <2> QED
      BY <1>0, <1>1, <2>1 DEF OneWriter, Busy
  <1>4. TypeOK'
    <2>1. Stored'
      BY <1>0, <1>2 DEF Stored, Nothing
    <2> QED
      BY <1>1, <1>3, <2>1 DEF TypeOK, Called, Stored, Steps, Cached, Clients
  <1>5. Fields'
    BY <1>1, <1>2 DEF Fields, Writers, Agrees, Busy, Get
  <1>6. Writers'
    BY <1>0, <1>1, <1>2 DEF Writers, Agrees, OneWriter, Get
  <1>7. Private'
    BY <1>2 DEF Private
  <1>8. HasSession'
    BY <1>1, <1>2 DEF HasSession, Busy, Private, Get
  <1>9. OneLogin'
    BY <1>1, <1>2, NoClientFields DEF OneLogin, HasSession, Busy, Get
  <1>10. Roles'
    BY <1>1 DEF Roles
  <1>11. Recent'
    BY <1>1, <1>2 DEF Recent, Nothing
  <1> QED
    BY <1>4, <1>5, <1>6, <1>7, <1>8, <1>9, <1>10, <1>11

\* Whoever is inside with the lock finds the three fields to belong together.
LEMMA ReadSeesFinder ==
  ASSUME Inv, NEW c \in Readers, pc[c] = "read"
  PROVE  client.shared /\ \A g \in Getters : client[g] = client.finder
  <1> USE DEF Inv, Callers, Writing
  <1>1. client.shared
    BY DEF Private
  <1>2. \A d \in Setters : pc[d] \in Writing => pc[d] = "drain"
    BY DEF TypeOK, OneWriter
  <1>3. client.datacenter = client.finder
        /\ client.datacenterName = client.finder
    BY <1>1, <1>2 DEF Fields, Writers, Agrees, Busy, Roles
  <1> QED
    BY <1>1, <1>3 DEF Getters

LEMMA ReadKeeps ==
  ASSUME Inv, NEW c \in Readers, Read(c)
  PROVE  Inv'
  <1> USE SessionAssumption DEF Inv, Callers, Writing
  <1>0. Called /\ Stored /\ OneWriter
    BY Parts
  <1>1. /\ Called' /\ UNCHANGED name
        /\ \A d \in Callers : pc'[d] = IF d = c THEN "idle" ELSE pc[d]
    BY GotoMoves DEF Read, Steps
  <1>2. /\ UNCHANGED <<client, sessions, connects>>
        /\ \E g \in Getters : got' = [got EXCEPT ![c][g] = client[g]]
    BY DEF Read, server
  <1>3. OneWriter'
    <2>1. pc[c] = "read"
      BY DEF Read
    <2> QED
      BY <1>0, <1>1, <2>1 DEF OneWriter
  <1>4. TypeOK'
    <2>1. \A g \in Getters : client[g] \in Cached
      BY <1>0 DEF Stored, Clients, Getters
    <2>2. PICK g \in Getters : got' = [got EXCEPT ![c][g] = client[g]]
      BY <1>2
    <2>3. client[g] \in Cached /\ Cached \subseteq Names \cup {"", "unread"}
      BY <2>1 DEF Cached
    <2>4. got' \in [Readers -> [Getters -> Names \cup {"", "unread"}]]
      BY <1>0, <2>2, <2>3 DEF Stored
    <2>5. Stored'
      BY <1>0, <1>2, <2>4 DEF Stored
    <2> QED
      BY <1>1, <1>3, <2>5 DEF TypeOK, Called, Stored, Steps, Cached, Clients
  <1>5. Fields'
    BY <1>1, <1>2 DEF Fields, Writers, Agrees, Busy, Read
  <1>6. Writers'
    <2>1. \A d \in Setters :
            pc'[d] \in Writing => pc[d] = pc'[d] /\ d # c
      BY <1>1
    <2> HIDE DEF Callers, Writing
    <2> QED
      BY <1>1, <1>2, <2>1 DEF Writers, Agrees
  <1>7. Private'
    BY <1>1, <1>2 DEF Private, Roles, Read
  <1>8. HasSession'
    BY <1>1, <1>2 DEF HasSession, Busy, Private, Read
  <1>9. OneLogin'
    BY <1>1, <1>2, NoClientFields DEF OneLogin, HasSession, Busy, Read
  <1>10. Roles'
    BY <1>1 DEF Roles
  <1>11. Recent'
    <2>4. \A g \in Getters : client[g] = client.finder
      BY ReadSeesFinder DEF Read
    <2>5. PICK g \in Getters : got' = [got EXCEPT ![c][g] = client[g]]
      BY <1>2
    <2>6. \A d \in Readers, h \in Getters :
            got'[d][h] = got[d][h] \/ got'[d][h] = client[h]
      BY <1>0, <2>5 DEF Stored
    <2> QED
      BY <1>2, <2>4, <2>6 DEF Recent
  <1> QED
    BY <1>4, <1>5, <1>6, <1>7, <1>8, <1>9, <1>10, <1>11

LEMMA ForgetKeeps ==
  ASSUME Inv, NEW c \in Readers, Forget(c)
  PROVE  Inv'
  <1> USE SessionAssumption DEF Inv, Callers, Writing
  <1>0. Called /\ Stored /\ OneWriter
    BY Parts
  <1>1. /\ Called' /\ UNCHANGED <<pc, name>>
    BY <1>0 DEF Called, Forget
  <1>2. /\ UNCHANGED <<client, sessions, connects>>
        /\ got' = [got EXCEPT ![c] = Nothing]
    BY DEF Forget, server
  <1>3. OneWriter'
    BY <1>0, <1>1 DEF OneWriter, Forget, Busy, Roles
  <1>4. TypeOK'
    <2>1. Stored'
      BY <1>0, <1>2 DEF Stored, Nothing
    <2> QED
      BY <1>1, <1>3, <2>1 DEF TypeOK, Called, Stored, Steps, Cached, Clients
  <1>5. Fields'
    BY <1>1, <1>2 DEF Fields, Writers, Agrees, Busy, Forget
  <1>6. Writers'
    BY <1>1, <1>2 DEF Writers, Agrees
  <1>7. Private'
    BY <1>1, <1>2 DEF Private, Roles, Forget
  <1>8. HasSession'
    BY <1>1, <1>2 DEF HasSession, Busy, Private, Forget
  <1>9. OneLogin'
    BY <1>1, <1>2, NoClientFields DEF OneLogin, HasSession, Busy, Forget
  <1>10. Roles'
    BY <1>1 DEF Roles
  <1>11. Recent'
    BY <1>0, <1>2 DEF Recent, Nothing, Stored
  <1> QED
    BY <1>4, <1>5, <1>6, <1>7, <1>8, <1>9, <1>10, <1>11

LEMMA SomeSession ==
  ASSUME NEW n \in 1..MaxConnects
  PROVE  n \in 0..MaxConnects /\ n # 0
  <1>1. MaxConnects \in Nat
    BY SessionAssumption
  <1> QED
    BY <1>1

\* Whoever has logged in is alone: there is no client yet.
LEMMA NewClientKeeps ==
  ASSUME Inv, NEW c \in Setters, NEW s \in 1..MaxConnects,
         NEW renews \in BOOLEAN, NewClient(c, s, renews)
  PROVE  Inv'
  <1> USE SessionAssumption DEF Inv, Callers, Writing
  <1>0. Called /\ Stored /\ OneWriter
    BY Parts
  <1>1. pc[c] = "login" /\ client = NoClient
    BY DEF NewClient, OneLogin
  <1>2. \A d \in Callers : d # c => pc[d] = "idle"
    <2>1. ~Busy
      BY <1>1, NoClientFields DEF HasSession
    <2>2. \A d \in Callers : pc[d] \notin {"rlock", "read", "lock"}
      BY <1>1, NoClientFields DEF Private
    <2>3. \A d \in Callers : pc[d] \in {"idle", "login"}
      BY <1>0, <2>1, <2>2 DEF Called, Steps, Busy
    <2>4. \A d \in Callers : d # c => pc[d] # "login"
      BY <1>1 DEF OneLogin, Roles
    <2> QED
      BY <2>3, <2>4
  <1>3. /\ client' \in Clients /\ UNCHANGED <<connects, got>>
        /\ client'.shared = (name[c] = "")
        /\ client'.session = s /\ client'.datacenter = ""
        /\ client'.datacenterName = name[c] /\ client'.finder = ""
    <2>1. name[c] \in Cached /\ s \in 0..MaxConnects
      BY <1>0, SomeSession DEF Called
    <2>2. UNCHANGED <<connects, got>>
      BY DEF NewClient
    <2>3. client' = [NoClient EXCEPT !.session = s, !.renews = renews,
                       !.datacenterName = name[c], !.shared = name[c] = ""]
      BY DEF NewClient
    <2> QED
      BY <2>1, <2>2, <2>3, NoClientFields DEF Clients
  <1>4. /\ Called' /\ \A d \in Callers : d # c => pc'[d] = "idle"
        /\ pc'[c] = IF name[c] = "" THEN "idle" ELSE "lookup"
    <2>1. CASE name[c] = ""
      <3>1. Return(c)
        BY <2>1 DEF NewClient
      <3> QED
        BY <1>1, <1>2, <2>1, <3>1, ReturnMoves
    <2>2. CASE name[c] # ""
      <3>1. Goto(c, "lookup")
        BY <2>2 DEF NewClient
      <3> QED
        BY <1>2, <2>2, <3>1, GotoMoves DEF Steps
    <2> QED
      BY <2>1, <2>2
  <1>5. TypeOK'
    <2>1. sessions' \subseteq 1..MaxConnects
      BY <1>0 DEF NewClient, Stored
    <2>2. Stored'
      BY <1>0, <1>3, <2>1 DEF Stored
    <2>3. OneWriter'
      BY <1>4 DEF OneWriter
    <2> QED
      BY <1>4, <2>2, <2>3 DEF TypeOK, Called, Stored, Steps, Cached, Clients
  <1>6. Fields'
    BY <1>3, <1>4 DEF Fields, Busy
  <1>7. Writers'
    BY <1>3, <1>4 DEF Writers, Agrees
  <1>8. Private'
    BY <1>3, <1>4 DEF Private
  <1>9. HasSession'
    BY <1>3, SomeSession DEF HasSession
  <1>10. OneLogin'
    BY <1>4 DEF OneLogin
  <1>11. Roles'
    BY <1>4 DEF Roles
  <1>12. Recent'
    BY <1>1, <1>3, NoClientFields DEF Recent
  <1> QED
    BY <1>5, <1>6, <1>7, <1>8, <1>9, <1>10, <1>11, <1>12

LEMMA LoginKeeps ==
  ASSUME Inv, NEW c \in Setters, Login(c) \/ LoginWithURL(c)
  PROVE  Inv'
  <1>1. sessions \cup {connects} \subseteq 1..MaxConnects
    <2>1. pc[c] = "login"
      BY DEF Login, LoginWithURL, NewClient
    <2>2. sessions \subseteq 1..MaxConnects /\ connects \in 0..MaxConnects
      BY DEF Inv, TypeOK
    <2>3. connects # 0
      BY <2>1 DEF Inv, OneLogin
    <2> QED
      BY <2>2, <2>3, NotZero
  <1> QED
    BY <1>1, NewClientKeeps DEF Login, LoginWithURL

LEMMA StepKeeps == Inv /\ [Next]_vars => Inv'
  <1> SUFFICES ASSUME Inv, [Next]_vars PROVE Inv'
    OBVIOUS
  <1>1. ASSUME NEW c \in Setters, Setter(c) PROVE Inv'
    BY <1>1, ConnectKeeps, LoginKeeps, LoginFailsKeeps, SetDatacenterKeeps,
       LockKeeps, DrainKeeps, LookupFindsKeeps, LookupFailsKeeps,
       AssignDatacenterKeeps, AssignNameKeeps, AssignFinderKeeps,
       LogoutKeeps, CancelKeeps DEF Setter, Answered, Assign
  <1>2. ASSUME NEW c \in Readers, Reader(c) PROVE Inv'
    BY <1>2, GetKeeps, ReadKeeps, ForgetKeeps DEF Reader
  <1>3. CASE UNCHANGED vars
    <2>1. TypeOK'
      BY <1>3 DEF vars, Inv, TypeOK, OneWriter
    <2>2. Fields' /\ Private' /\ HasSession' /\ Roles' /\ Recent'
      BY <1>3 DEF vars, Inv, Fields, Private, HasSession, Roles, Recent, Busy
    <2>3. Writers'
      BY <1>3 DEF vars, Inv, Writers, Agrees
    <2>4. OneLogin'
      BY <1>3 DEF vars, Inv, OneLogin
    <2> QED
      BY <2>1, <2>2, <2>3, <2>4 DEF Inv
  <1> QED
    BY <1>1, <1>2, <1>3 DEF Next

-----------------------------------------------------------------------------
\* The inductive invariant holds in every reachable state.
THEOREM Inductive == Spec => []Inv
  BY InitInv, StepKeeps, PTL DEF Spec

\* The types of the variables, and the lock: one SetDatacenter at a time is
\* past it, and no getter is inside with it once it has waited for them.
THEOREM TypeCorrect == Spec => []TypeOK
  <1>1. Inv => TypeOK
    BY DEF Inv
  <1> QED
    BY Inductive, <1>1, PTL

\* Between two calls of SetDatacenter the three fields of the Client belong to
\* one datacenter, whatever failed.
THEOREM FieldsBelongTogether == Spec => []CachedTogether
  <1>1. Inv => CachedTogether
    BY DEF Inv, Fields, CachedTogether
  <1> QED
    BY Inductive, <1>1, PTL

\* What GetFinder, GetDatacenter and GetDatacenterName return one after the
\* other belongs together, unless a SetDatacenter succeeds in between.
THEOREM ReadsBelongTogether == Spec => []GettersAgree
  <1>1. Inv => GettersAgree
    BY DEF Inv, Recent, GettersAgree
  <1> QED
    BY Inductive, <1>1, PTL

-----------------------------------------------------------------------------
(* Session implements SharedClient.                                        *)

\* A call has the name of a datacenter from its first request for it on, and
\* none when it has returned.
Asked ==
  \A c \in Setters :
    /\ pc[c] = "idle" => name[c] = ""
    /\ pc[c] \in {"lock"} \cup Writing => name[c] # ""

\* Most steps of a setter leave the names alone, and the steps of all others.
Alone(c) == UNCHANGED name /\ \A d \in Setters : d # c => pc'[d] = pc[d]

\* What such a step has to keep.
LEMMA AloneKeepsAsked ==
  ASSUME Asked, NEW c \in Setters, Alone(c),
         pc'[c] = "idle" => name[c] = "",
         pc'[c] \in {"lock"} \cup Writing => name[c] # ""
  PROVE  Asked'
  BY DEF Asked, Alone

LEMMA GotoKeepsAsked ==
  ASSUME TypeOK, Asked, NEW c \in Setters, NEW step \in Steps, Goto(c, step),
         step \in Writing, name[c] # ""
  PROVE  Asked'
  <1>1. Alone(c) /\ pc'[c] = step
    BY DEF TypeOK, Goto, Callers, Alone
  <1> QED
    BY <1>1, AloneKeepsAsked DEF Writing

LEMMA EnterKeepsAsked ==
  ASSUME TypeOK, Asked, NEW c \in Setters, NEW step \in {"login", "lock"},
         NEW n \in Names \cup {""}, EnterWith(c, step, n),
         step = "lock" => n # ""
  PROVE  Asked'
  <1>1. \A d \in Setters :
          /\ pc'[d] = IF d = c THEN step ELSE pc[d]
          /\ name'[d] = IF d = c THEN n ELSE name[d]
    BY EnterMoves DEF Steps, Cached, Callers
  <1> QED
    BY <1>1 DEF Asked, Writing

LEMMA ReturnKeepsAsked ==
  ASSUME Inv, Asked, NEW c \in Setters, Return(c)
  PROVE  Asked'
  <1>1. /\ pc'[c] = "idle" /\ name'[c] = ""
        /\ \A d \in Setters : d # c => name'[d] = name[d] /\ pc'[d] = pc[d]
    BY DEF Inv, TypeOK, Roles, Return, Callers
  <1> QED
    BY <1>1 DEF Asked, Writing

LEMMA InitAsked == Init => Asked
  BY DEF Init, Asked, Callers, Writing

LEMMA StepAsked == Inv /\ Asked /\ [Next]_vars => Asked'
  <1> SUFFICES ASSUME Inv, Asked, [Next]_vars PROVE Asked'
    OBVIOUS
  <1>0. TypeOK
    BY DEF Inv
  <1>1. ASSUME NEW c \in Setters, Setter(c) PROVE Asked'
    <2>1. CASE Connect(c)
      BY <1>0, <2>1, EnterKeepsAsked DEF Connect
    <2>2. CASE SetDatacenter(c)
      BY <1>0, <2>2, EnterKeepsAsked, SessionAssumption DEF SetDatacenter
    <2>3. CASE Login(c) \/ LoginWithURL(c)
      BY <1>0, <2>3, ReturnKeepsAsked, GotoKeepsAsked
         DEF Login, LoginWithURL, NewClient, Steps, Writing
    <2>4. CASE AssignFinder(c) \/ LoginFails(c) \/ LookupFails(c)
      BY <2>4, ReturnKeepsAsked DEF AssignFinder, LoginFails, LookupFails
    <2>5. CASE Lock(c) \/ Drain(c) \/ AssignDatacenter(c) \/ AssignName(c)
      <3>1. name[c] # ""
        BY <2>5
           DEF Asked, Lock, Drain, AssignDatacenter, AssignName, Writing
      <3>2. \E step \in Writing : Goto(c, step)
        BY <2>5
           DEF Lock, Drain, AssignDatacenter, AssignName, Writing
      <3> QED
        BY <1>0, <3>1, <3>2, GotoKeepsAsked DEF Steps
    <2>6. CASE LookupFinds(c)
      <3>1. pc'[c] = "setDatacenter" /\ Alone(c)
        BY <1>0, <2>6 DEF TypeOK, LookupFinds, Alone, Callers
      <3>2. name[c] # ""
        BY <2>6 DEF Asked, LookupFinds, Writing
      <3> QED
        BY <3>1, <3>2, AloneKeepsAsked
    <2>7. CASE Logout(c) \/ Cancel(c)
      BY <2>7 DEF Logout, Cancel, Asked
    <2> QED
      BY <1>1, <2>1, <2>2, <2>3, <2>4, <2>5, <2>6, <2>7
         DEF Setter, Answered, Assign
  <1>2. ASSUME NEW c \in Readers, Reader(c) PROVE Asked'
    <2>1. UNCHANGED name /\ \A d \in Setters : pc'[d] = pc[d]
      BY <1>0, <1>2, SessionAssumption
         DEF TypeOK, Reader, Get, Read, Forget, Goto, Callers
    <2> QED
      BY <2>1 DEF Asked
  <1>3. CASE UNCHANGED vars
    BY <1>3 DEF vars, Asked
  <1> QED
    BY <1>1, <1>2, <1>3 DEF Next

\* A step that changes nothing a goroutine can see.
LEMMA Unseen ==
  ASSUME client'.shared = client.shared, client'.finder = client.finder,
         UNCHANGED <<name, got>>
  PROVE  [S!Next]_(S!vars)
  BY DEF S!vars

\* The end of a call that changes nothing else.
LEMMA ReturnFails ==
  ASSUME TypeOK, NEW c \in Setters, Return(c), UNCHANGED got,
         client'.shared = client.shared, client'.finder = client.finder
  PROVE  [S!Next]_(S!vars)
  <1>1. name' = [name EXCEPT ![c] = ""]
    BY DEF Return
  <1>2. CASE name[c] = ""
    <2>1. name' = name
      BY <1>1, <1>2 DEF TypeOK
    <2> QED
      BY <2>1, Unseen
  <1>3. CASE name[c] # ""
    BY <1>1, <1>3 DEF S!Next, S!Fail
  <1> QED
    BY <1>2, <1>3

LEMMA RefinesStep ==
  ASSUME Inv, Asked, [Next]_vars
  PROVE  [S!Next]_(S!vars)
  <1>0. TypeOK
    BY DEF Inv
  <1>1. ASSUME NEW c \in Setters, Setter(c) PROVE [S!Next]_(S!vars)
    <2>1. ASSUME NEW step, NEW n \in Names, pc[c] = "idle",
                 EnterWith(c, step, n), UNCHANGED <<client, got>>
          PROVE  S!Next
      <3>1. name[c] = "" /\ name' = [name EXCEPT ![c] = n]
        BY <2>1 DEF Asked, EnterWith
      <3> QED
        BY <2>1, <3>1 DEF S!Next, S!Begin
    <2>2. CASE Connect(c)
      <3>1. PICK n \in Names \cup {""} : EnterWith(c, "login", n)
        BY <2>2 DEF Connect
      <3>2. pc[c] = "idle" /\ UNCHANGED <<client, got>>
        BY <2>2 DEF Connect
      <3>3. CASE n = ""
        <4>1. name[c] = "" /\ name' = [name EXCEPT ![c] = ""]
          BY <3>1, <3>2, <3>3 DEF Asked, EnterWith
        <4>2. name' = name
          BY <1>0, <4>1 DEF TypeOK
        <4> QED
          BY <3>2, <4>2, Unseen
      <3> QED
        BY <2>1, <3>1, <3>2, <3>3
    <2>3. CASE SetDatacenter(c)
      BY <2>1, <2>3 DEF SetDatacenter
    <2>4. CASE Login(c) \/ LoginWithURL(c)
      <3>1. /\ client = NoClient /\ UNCHANGED got
            /\ client'.finder = "" /\ client'.shared = (name[c] = "")
        BY <1>0, <2>4 DEF Inv, OneLogin, Login, LoginWithURL, NewClient,
                          NoClient
      <3>2. client.shared = FALSE /\ client.finder = ""
        BY <3>1, NoClientFields
      <3>3. UNCHANGED name
        <4>1. CASE name[c] = ""
          <5>1. name' = [name EXCEPT ![c] = ""]
            BY <2>4, <4>1 DEF Login, LoginWithURL, NewClient, Return
          <5> QED
            BY <1>0, <4>1, <5>1 DEF TypeOK
        <4>2. CASE name[c] # ""
          BY <2>4, <4>2 DEF Login, LoginWithURL, NewClient, Goto
        <4> QED
          BY <4>1, <4>2
      <3>4. CASE name[c] = ""
        BY <3>1, <3>2, <3>3, <3>4 DEF S!Next, S!Open
      <3>5. CASE name[c] # ""
        BY <3>1, <3>2, <3>3, <3>5, Unseen
      <3> QED
        BY <3>4, <3>5
    <2>5. CASE LoginFails(c)
      BY <1>0, <2>5, ReturnFails DEF LoginFails
    <2>6. CASE LookupFails(c)
      <3>1. CASE client.shared
        BY <1>0, <2>6, <3>1, ReturnFails DEF LookupFails
      <3>2. CASE client.shared = FALSE
        <4>1. client.finder = ""
          BY <3>2 DEF Inv, Private
        <4>2. client'.shared = FALSE /\ client'.finder = ""
          BY <2>6, <3>2, NoClientFields DEF LookupFails
        <4> QED
          BY <1>0, <2>6, <3>2, <4>1, <4>2, ReturnFails DEF LookupFails
      <3> QED
        BY <1>0, <3>1, <3>2 DEF TypeOK
    <2>7. CASE AssignFinder(c)
      <3>1. name[c] # ""
        BY <2>7 DEF Asked, AssignFinder, Writing
      <3>2. client'.shared = TRUE /\ client'.finder = name[c]
        BY <1>0, <2>7 DEF TypeOK, AssignFinder
      <3>3. /\ name' = [name EXCEPT ![c] = ""]
            /\ got' = [d \in Readers |-> Nothing]
        BY <2>7 DEF AssignFinder, Return
      <3>4. S!Succeed(c)
        BY <3>1, <3>2, <3>3 DEF S!Succeed, S!Untold, Nothing
      <3> QED
        BY <3>4 DEF S!Next
    <2>8. CASE Lock(c) \/ Drain(c) \/ LookupFinds(c) \/ Cancel(c) \/ Logout(c)
      BY <2>8, Unseen DEF Lock, Drain, LookupFinds, Cancel, Logout, Goto
    <2>9. CASE AssignDatacenter(c) \/ AssignName(c)
      <3>1. client'.shared = client.shared /\ client'.finder = client.finder
        BY <1>0, <2>9 DEF TypeOK, AssignDatacenter, AssignName
      <3> QED
        BY <2>9, <3>1, Unseen DEF AssignDatacenter, AssignName, Goto
    <2> QED
      BY <1>1, <2>2, <2>3, <2>4, <2>5, <2>6, <2>7, <2>8, <2>9
         DEF Setter, Answered, Assign
  <1>2. ASSUME NEW c \in Readers, Reader(c) PROVE [S!Next]_(S!vars)
    <2>1. CASE Get(c)
      BY <2>1, Unseen DEF Get, Goto
    <2>2. CASE Read(c)
      <3>1. PICK g \in Getters :
              got[c][g] = "unread" /\ got' = [got EXCEPT ![c][g] = client[g]]
        BY <2>2 DEF Read
      <3>2. client.shared /\ client[g] = client.finder
        BY <2>2, ReadSeesFinder DEF Read
      <3>3. S!Tell(c, g)
        BY <2>2, <3>1, <3>2 DEF S!Tell, Read, Goto
      <3> QED
        BY <3>3 DEF S!Next
    <2>3. CASE Forget(c)
      <3>1. S!Forget(c)
        BY <2>3 DEF Forget, S!Forget, S!Untold, Nothing
      <3> QED
        BY <3>1 DEF S!Next
    <2> QED
      BY <1>2, <2>1, <2>2, <2>3 DEF Reader
  <1>3. CASE UNCHANGED vars
    BY <1>3, Unseen DEF vars
  <1> QED
    BY <1>1, <1>2, <1>3 DEF Next

\* To the goroutines that share it, a Client is one datacenter that is set and
\* read at single moments, although SetDatacenter makes three assignments and
\* the getters ask one after the other.
THEOREM Refinement == Spec => ImplementsSharedClient
  <1>1. Init => S!Init
    BY NoClientFields DEF Init, S!Init, S!Untold, Nothing
  <1> QED
    BY <1>1, InitAsked, StepAsked, RefinesStep, Inductive, PTL
       DEF Spec, ImplementsSharedClient, S!Spec

-----------------------------------------------------------------------------
(* Nobody waits for ever by the lock alone.                                *)

\* Who waits for the lock as a reader waits for a writer that has it.
Woken == \A c \in Callers : pc[c] = "rlock" => Busy

\* What a call does by itself, or asks vCenter for.
CanGoOn(c) ==
  \/ pc[c] \in {"login", "lookup", "setDatacenter", "setName", "setFinder",
                "read"}
  \/ pc[c] = "lock" /\ ~Busy
  \/ pc[c] = "drain" /\ \A d \in Callers : pc[d] # "read"

NoCircularWait ==
  (\E c \in Callers : pc[c] # "idle") => \E c \in Callers : CanGoOn(c)

\* A step after which the writers are as before.
LEMMA SameWriters ==
  ASSUME TypeOK, Woken, NEW c \in Callers, NEW step \in Steps, Goto(c, step),
         pc[c] \in Writing => step \in Writing,
         step = "rlock" => Busy
  PROVE  Woken'
  <1>1. \A d \in Callers : pc'[d] = IF d = c THEN step ELSE pc[d]
    BY GotoMoves
  <1>2. Busy => Busy'
    BY <1>1 DEF Busy
  <1> QED
    BY <1>1, <1>2 DEF Woken

LEMMA ReturnWakes ==
  ASSUME Inv, Woken, NEW c \in Setters, Return(c)
  PROVE  Woken'
  <1>1. \A d \in Callers :
          pc'[d] = IF d = c THEN "idle"
                   ELSE IF pc[c] \in Writing /\ pc[d] = "rlock" THEN "read"
                   ELSE pc[d]
    BY ReturnMoves DEF Inv
  <1>2. CASE pc[c] \in Writing
    BY <1>1, <1>2 DEF Woken
  <1>3. CASE pc[c] \notin Writing
    <2>1. Busy => Busy'
      BY <1>1, <1>3 DEF Busy
    <2> QED
      BY <1>1, <1>3, <2>1 DEF Woken
  <1> QED
    BY <1>2, <1>3

LEMMA StepWoken == Inv /\ Woken /\ [Next]_vars => Woken'
  <1> SUFFICES ASSUME Inv, Woken, [Next]_vars PROVE Woken'
    OBVIOUS
  <1>0. TypeOK /\ Setters \subseteq Callers /\ Readers \subseteq Callers
    BY DEF Inv, Callers
  <1>1. ASSUME NEW c \in Setters, Setter(c) PROVE Woken'
    <2>1. CASE Connect(c) \/ SetDatacenter(c)
      <3>1. PICK step \in {"login", "lock"} :
              /\ pc' = [pc EXCEPT ![c] = step] /\ pc[c] = "idle"
        BY <2>1 DEF Connect, SetDatacenter, EnterWith
      <3>2. \A d \in Callers : pc'[d] = IF d = c THEN step ELSE pc[d]
        BY <1>0, <3>1 DEF TypeOK
      <3>3. Busy => Busy'
        BY <3>1, <3>2 DEF Busy, Writing
      <3> QED
        BY <3>2, <3>3 DEF Woken
    <2>2. CASE AssignFinder(c) \/ LoginFails(c) \/ LookupFails(c)
      BY <2>2, ReturnWakes DEF AssignFinder, LoginFails, LookupFails
    <2>3. CASE Login(c) \/ LoginWithURL(c)
      BY <1>0, <2>3, ReturnWakes, SameWriters
         DEF Login, LoginWithURL, NewClient, Steps, Writing
    <2>4. CASE Lock(c) \/ Drain(c) \/ AssignDatacenter(c) \/ AssignName(c)
      <3>1. \E step \in Writing : Goto(c, step)
        BY <2>4 DEF Lock, Drain, AssignDatacenter, AssignName, Writing
      <3> QED
        BY <1>0, <3>1, SameWriters DEF Steps, Writing
    <2>5. CASE LookupFinds(c)
      <3>1. \A d \in Callers :
              pc'[d] = IF d = c THEN "setDatacenter" ELSE pc[d]
        BY <1>0, <2>5 DEF TypeOK, LookupFinds
      <3>2. Busy'
        BY <1>0, <3>1 DEF Busy, Writing
      <3> QED
        BY <3>2 DEF Woken
    <2>6. CASE Logout(c) \/ Cancel(c)
      BY <2>6 DEF Logout, Cancel, Woken, Busy
    <2> QED
      BY <1>1, <2>1, <2>2, <2>3, <2>4, <2>5, <2>6 DEF Setter, Answered, Assign
  <1>2. ASSUME NEW c \in Readers, Reader(c) PROVE Woken'
    <2>1. CASE Get(c)
      BY <1>0, <2>1, SameWriters DEF Get, Steps, Writing
    <2>2. CASE Read(c)
      BY <1>0, <2>2, SameWriters DEF Read, Steps, Writing
    <2>3. CASE Forget(c)
      BY <2>3 DEF Forget, Woken, Busy
    <2> QED
      BY <1>2, <2>1, <2>2, <2>3 DEF Reader
  <1>3. CASE UNCHANGED vars
    BY <1>3 DEF vars, Woken, Busy
  <1> QED
    BY <1>1, <1>2, <1>3 DEF Next

\* Unless all calls have returned, there is one that needs nothing but itself
\* or an answer of vCenter: the lock alone, with its writers, its readers and
\* those who wait for either, never brings everybody to a halt.
THEOREM LockFreesItself == Spec => []NoCircularWait
  <1>1. Init => Woken
    BY DEF Init, Woken
  <1>2. Inv /\ Woken => NoCircularWait
    <2> SUFFICES ASSUME Inv, Woken, NEW c \in Callers, pc[c] # "idle"
                 PROVE  \E d \in Callers : CanGoOn(d)
      BY DEF NoCircularWait
    <2>1. \A d \in Callers : pc[d] \in Steps
      BY DEF Inv, TypeOK, Steps
    <2>2. CASE Busy
      <3>1. PICK d \in Callers : pc[d] \in Writing
        BY <2>2 DEF Busy
      <3>2. CASE \E e \in Callers : pc[e] = "read"
        BY <3>2 DEF CanGoOn
      <3> QED
        BY <3>1, <3>2 DEF CanGoOn, Writing
    <2>3. CASE ~Busy
      <3>1. pc[c] \in {"login", "lock", "read"}
        BY <2>1, <2>3 DEF Steps, Busy, Woken
      <3> QED
        BY <2>3, <3>1 DEF CanGoOn
    <2> QED
      BY <2>2, <2>3
  <1> QED
    BY <1>1, <1>2, StepWoken, Inductive, PTL DEF Spec
=============================================================================
