------------------------------ MODULE Session -------------------------------
(***************************************************************************)
(* The session (client.go): a Client that several goroutines share, from   *)
(* its constructor (ConnectWithPassword, ConnectWithSSPI, ConnectWithURL)  *)
(* to Logout, with the datacenter it caches under a read-write lock        *)
(* (SetDatacenter, GetFinder, GetDatacenter, GetDatacenterName).           *)
(*                                                                         *)
(* SetDatacenter holds the lock while it asks vCenter for the datacenter,  *)
(* so that one request without an answer keeps every other goroutine       *)
(* waiting, whatever the contexts of those.                                *)
(*                                                                         *)
(* A goroutine that both sets and reads is a setter and a reader that do   *)
(* not overlap.  A datacenter, and a finder for it, are written as the     *)
(* name the datacenter was found under.                                    *)
(***************************************************************************)
EXTENDS Naturals

CONSTANTS
  Setters,                  \* the goroutines that connect, set and log out
  Readers,                  \* those that use the getters
  Names,                    \* names of datacenters
  MaxConnects               \* how often a constructor is called

\* "" is no name, no datacenter and no cached finder.
ASSUME SessionAssumption ==
  /\ Setters \cap Readers = {}
  /\ "" \notin Names /\ "unread" \notin Names
  /\ MaxConnects \in Nat

Callers == Setters \cup Readers

VARIABLES
  client,    \* the Client: its session and what it caches
  sessions,  \* the sessions open on vCenter
  connects,  \* how often a constructor was called
  pc,        \* pc[c]: what goroutine c is doing
  name,      \* name[c]: the name its call was given
  ctx,       \* ctx[c]: whether the context of its call is still live
  got        \* got[c]: what its getters have returned since it began its
             \*         piece of work or, if that is later, since the last
             \*         SetDatacenter that succeeded (history)

vars == <<client, sessions, connects, pc, name, ctx, got>>
server == <<sessions, connects>>

NoClient == [shared |-> FALSE, session |-> 0, renews |-> FALSE,
             datacenter |-> "", datacenterName |-> "", finder |-> ""]

Getters == {"datacenter", "datacenterName", "finder"}
Nothing == [g \in Getters |-> "unread"]

Init ==
  /\ client   = NoClient
  /\ sessions = {}
  /\ connects = 0
  /\ pc     = [c \in Callers |-> "idle"]
  /\ name   = [c \in Setters |-> ""]
  /\ ctx    = [c \in Setters |-> "live"]
  /\ got    = [c \in Readers |-> Nothing]

-----------------------------------------------------------------------------
(* Calls, and the lock (sync.RWMutex).  Writers take turns; the one whose  *)
(* turn it is lets no new reader in and waits for those inside, and when   *)
(* it is done the readers that waited go first.                            *)

Writing == {"drain", "lookup", "setDatacenter", "setName", "setFinder"}
Busy == \E c \in Callers : pc[c] \in Writing

Goto(c, step) ==
  pc' = [pc EXCEPT ![c] = step] /\ UNCHANGED <<name, ctx>>

EnterWith(c, step, n) ==
  /\ pc' = [pc EXCEPT ![c] = step]
  /\ name' = [name EXCEPT ![c] = n]
  /\ UNCHANGED ctx

\* The goroutine gives the lock back, if it has it, and returns.
Return(c) ==
  /\ pc' = [d \in Callers |->
              IF d = c THEN "idle"
              ELSE IF pc[c] \in Writing /\ pc[d] = "rlock" THEN "read"
              ELSE pc[d]]
  /\ name' = [name EXCEPT ![c] = ""]
  /\ ctx' = [ctx EXCEPT ![c] = "live"]

\* Mutant: writers do not exclude each other.
Lock_Shared(c) ==
  /\ pc[c] = "lock"
  /\ Goto(c, "drain")
  /\ UNCHANGED <<client, server, got>>

Lock(c) ==
  /\ pc[c] = "lock" /\ ~Busy
  /\ Goto(c, "drain")
  /\ UNCHANGED <<client, server, got>>

Drain(c) ==
  /\ pc[c] = "drain" /\ \A d \in Callers : pc[d] # "read"
  /\ Goto(c, "lookup")
  /\ UNCHANGED <<client, server, got>>

-----------------------------------------------------------------------------
(* The constructors.                                                       *)

Connect(c) ==
  /\ pc[c] = "idle" /\ client = NoClient /\ connects < MaxConnects
  /\ \A d \in Callers : pc[d] # "login"
  /\ \E n \in Names \cup {""} : EnterWith(c, "login", n)
  /\ connects' = connects + 1
  /\ UNCHANGED <<client, sessions, got>>

LoginFails(c) ==
  /\ pc[c] = "login"
  /\ Return(c)
  /\ UNCHANGED <<client, server, got>>

\* The name is set before anything is known of it; without a name the client
\* is ready, else the constructor calls SetDatacenter, on a client that nobody
\* else has yet.
NewClient(c, s, renews) ==
  /\ pc[c] = "login"
  /\ sessions' = sessions \cup {s}
  /\ client' = [NoClient EXCEPT !.session = s, !.renews = renews,
                  !.datacenterName = name[c], !.shared = name[c] = ""]
  /\ IF name[c] = "" THEN Return(c) ELSE Goto(c, "lookup")
  /\ UNCHANGED <<connects, got>>

\* ConnectWithPassword and ConnectWithSSPI may find a session in the cache of
\* go-vcenter-auth, which also logs in again when it has ended.
Login(c) == \E s \in sessions \cup {connects} : NewClient(c, s, TRUE)

\* ConnectWithURL does without it.
LoginWithURL(c) == NewClient(c, connects, FALSE)

\* Logout does not take the lock, and leaves the client as it is.
Logout(c) ==
  /\ pc[c] = "idle" /\ client.shared
  /\ sessions' = sessions \ {client.session}
  /\ UNCHANGED <<client, connects, pc, name, ctx, got>>

-----------------------------------------------------------------------------
(* SetDatacenter.                                                          *)

SetDatacenter(c) ==
  /\ pc[c] = "idle" /\ client.shared
  /\ \E n \in Names : EnterWith(c, "lock", n)
  /\ UNCHANGED <<client, server, got>>

\* From here on the context is not looked at any more.
LookupFinds(c) ==
  /\ pc[c] = "lookup"
  /\ client.session \in sessions \/ client.renews
  /\ sessions' = sessions \cup {client.session}
  /\ pc' = [pc EXCEPT ![c] = "setDatacenter"]
  /\ ctx' = [ctx EXCEPT ![c] = "live"]
  /\ UNCHANGED <<client, connects, name, got>>

\* Mutants: the constructor returns its client all the same; a datacenter that
\* is not found is asked for again, under the lock.
LookupFails_KeepsClient(c) ==
  /\ pc[c] = "lookup"
  /\ client' = [client EXCEPT !.shared = TRUE]
  /\ Return(c)
  /\ UNCHANGED <<server, got>>

LookupFails_Retries(c) ==
  /\ pc[c] = "lookup"
  /\ Goto(c, "lookup")
  /\ UNCHANGED <<client, server, got>>

\* Whatever the error, it is reported as not found.  A constructor then drops
\* its client, and nobody can log its session out any more.
LookupFails(c) ==
  /\ pc[c] = "lookup"
  /\ client' = IF client.shared THEN client ELSE NoClient
  /\ Return(c)
  /\ UNCHANGED <<server, got>>

\* The three assignments; with the last one SetDatacenter returns.
AssignDatacenter(c) ==
  /\ pc[c] = "setDatacenter"
  /\ client' = [client EXCEPT !.datacenter = name[c]]
  /\ Goto(c, "setName")
  /\ UNCHANGED <<server, got>>

AssignName(c) ==
  /\ pc[c] = "setName"
  /\ client' = [client EXCEPT !.datacenterName = name[c]]
  /\ Goto(c, "setFinder")
  /\ UNCHANGED <<server, got>>

AssignFinder(c) ==
  /\ pc[c] = "setFinder"
  /\ client' = [client EXCEPT !.finder = name[c], !.shared = TRUE]
  /\ got' = [d \in Readers |-> Nothing]
  /\ Return(c)
  /\ UNCHANGED <<server>>

-----------------------------------------------------------------------------
(* The getters.                                                            *)

\* Mutant: the getters do without the lock.
Get_NoLock(c) ==
  /\ pc[c] = "idle" /\ client.shared
  /\ \E g \in Getters : got[c][g] = "unread"
  /\ Goto(c, "read")
  /\ UNCHANGED <<client, server, got>>

Get(c) ==
  /\ pc[c] = "idle" /\ client.shared
  /\ \E g \in Getters : got[c][g] = "unread"
  /\ Goto(c, IF Busy THEN "rlock" ELSE "read")
  /\ UNCHANGED <<client, server, got>>

\* Without a cached finder GetFinder makes one for no datacenter.
Read(c) ==
  /\ pc[c] = "read"
  /\ \E g \in Getters :
       /\ got[c][g] = "unread"
       /\ got' = [got EXCEPT ![c][g] = client[g]]
  /\ Goto(c, "idle")
  /\ UNCHANGED <<client, server>>

\* The goroutine starts its next piece of work with new values.
Forget(c) ==
  /\ pc[c] = "idle" /\ got[c] # Nothing
  /\ got' = [got EXCEPT ![c] = Nothing]
  /\ UNCHANGED <<client, server, pc, name, ctx>>

-----------------------------------------------------------------------------
(* The context of a call that takes one ends.                              *)

Cancel(c) ==
  /\ pc[c] \in {"login", "lock", "drain", "lookup"}
  /\ ctx' = [ctx EXCEPT ![c] = "over"]
  /\ UNCHANGED <<client, server, pc, name, got>>

-----------------------------------------------------------------------------
Answered(c) ==
  \/ Login(c) \/ LoginWithURL(c) \/ LoginFails(c)
  \/ LookupFinds(c) \/ LookupFails(c)

Assign(c) == AssignDatacenter(c) \/ AssignName(c) \/ AssignFinder(c)

Setter(c) ==
  \/ Connect(c) \/ Answered(c) \/ SetDatacenter(c) \/ Lock(c) \/ Drain(c)
  \/ Assign(c) \/ Logout(c) \/ Cancel(c)

Reader(c) == Get(c) \/ Read(c) \/ Forget(c)

Next == (\E c \in Setters : Setter(c)) \/ (\E c \in Readers : Reader(c))

Spec == Init /\ [][Next]_vars

\* A goroutine that can run does; a mutex of Go starves nobody; a request whose
\* context is over returns.  Nothing is assumed of the other requests.
Fairness ==
  /\ \A c \in Setters :
       /\ WF_vars(Drain(c) \/ Assign(c))
       /\ SF_vars(Lock(c))
       /\ WF_vars(ctx[c] = "over" /\ Answered(c))
  /\ \A c \in Readers : WF_vars(Read(c))

FairSpec == Spec /\ Fairness

-----------------------------------------------------------------------------
(* Properties.                                                             *)

OneWriter ==
  \A c, d \in Callers :
    pc[c] \in Writing =>
      /\ pc[d] \in Writing => c = d
      /\ pc[d] = "read" => pc[c] = "drain"

\* The types of the variables; one writer at a time, and no reader beside it.
TypeOK ==
  /\ client \in [shared : BOOLEAN, session : 0..MaxConnects,
                 renews : BOOLEAN, datacenter : Names \cup {""},
                 datacenterName : Names \cup {""}, finder : Names \cup {""}]
  /\ sessions \subseteq 1..MaxConnects
  /\ connects \in 0..MaxConnects
  /\ pc \in [Callers -> {"idle", "login", "lock", "rlock", "read"}
                          \cup Writing]
  /\ name \in [Setters -> Names \cup {""}]
  /\ ctx \in [Setters -> {"live", "over"}]
  /\ got \in [Readers -> [Getters -> Names \cup {"", "unread"}]]
  /\ OneWriter

\* What a client caches belongs together: the finder searches the datacenter,
\* and the name is the one it was found under.  A client that has been given
\* out has no name that it could not find.
CachedTogether ==
  ~Busy => /\ client.finder = client.datacenter
           /\ client.datacenterName = client.datacenter

\* A goroutine calls the getters one after another.  What they return belongs
\* together, unless a SetDatacenter has succeeded in between.
GettersAgree ==
  \A c \in Readers :
    \A g, h \in Getters :
      "unread" \notin {got[c][g], got[c][h]} => got[c][g] = got[c][h]

\* Session implements SharedClient.  A datacenter becomes the current one when
\* its finder is assigned: by the lock, nobody sees the three assignments one by
\* one, and what failed leaves no trace, not even the name that a constructor
\* sets before anything is known of it.
S == INSTANCE SharedClient
       WITH ready <- client.shared, current <- client.finder,
            wanted <- name, told <- got

ImplementsSharedClient == S!Spec

Awaiting(c) == pc[c] \in {"login", "lookup"} /\ ctx[c] = "live"

\* If no request to vCenter is left without an answer under a context that
\* never ends, then every call returns, the getters included, which have no
\* context and wait for the lock behind the request of another goroutine.
EveryCallReturns ==
  (\A c \in Setters : []<>~Awaiting(c))
    => \A c \in Callers : pc[c] # "idle" ~> pc[c] = "idle"
=============================================================================
