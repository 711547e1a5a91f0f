--------------------------- MODULE SnapshotProofs ---------------------------
(***************************************************************************)
(* Proofs about the tree of snapshots of Lifecycle: the order in which     *)
(* findSnapshotByName searches it is total, so that there is a first       *)
(* snapshot of a name; and what the server does to a tree leaves a forest  *)
(* in which the snapshots that stay keep their names and gain no ancestor. *)
(*                                                                         *)
(* The order is the lexicographic one of the paths from the root.  Two     *)
(* paths have a common part, all of it older than what is not common.      *)
(***************************************************************************)
EXTENDS Lifecycle, TLAPS, FiniteSetTheorems, WellFoundedInduction

Forest(t) ==
  /\ t \in Tree
  /\ t.ids \subseteq 1..t.made /\ t.current \in t.ids \cup {0}
  /\ \A s \in Ids : t.above[s] \subseteq 1..(s - 1)
  /\ \A s \in t.ids :
       /\ t.above[s] \subseteq t.ids
       /\ \A r \in t.above[s] : t.above[r] \subseteq t.above[s]
       /\ \A r, q \in t.above[s] : r < q => r \in t.above[q]

\* Snapshots keep their names and gain no ancestor; new ones are younger.
Follows(t, u) ==
  /\ t.made <= u.made
  /\ \A s \in u.ids : s \in t.ids \/ s > t.made
  /\ \A s \in 1..t.made :
       u.label[s] = t.label[s] /\ u.above[s] \subseteq t.above[s]

LEMMA MinIsLeast ==
  ASSUME NEW S \in SUBSET Nat, S # {}
  PROVE  Min(S) \in S /\ \A y \in S : Min(S) <= y
  <1>1. PICK x \in S : \A y \in S : ~(<<y, x>> \in OpToRel(<, Nat))
    BY NatLessThanWellFounded, WFMin
  <1>2. \A y \in S : x =< y
    <2>1. ASSUME NEW y \in S, y < x PROVE FALSE
      BY <1>1, <2>1 DEF OpToRel
    <2> QED
      BY <2>1
  <1> QED
    BY <1>2 DEF Min

LEMMA MaxIsIn ==
  ASSUME NEW n \in Nat, NEW S \in SUBSET (1..n), S # {}
  PROVE  Max(S) \in S
  <1> DEFINE D == {n - x : x \in S}
  <1>1. D \in SUBSET Nat /\ D # {}
    <2>1. \A x \in S : x \in Nat /\ x <= n
      OBVIOUS
    <2>2. \A x \in S : n - x \in Nat
      BY <2>1
    <2> QED
      BY <2>2
  <1>2. PICK x \in S : Min(D) = n - x
    BY <1>1, MinIsLeast
  <1>3. \A y \in S : x >= y
    BY <1>1, <1>2, MinIsLeast
  <1> QED
    BY <1>3 DEF Max

-----------------------------------------------------------------------------
(* The order of the search.                                                *)

Path(t, s) == t.above[s] \cup {s}

\* Before, for the paths of two snapshots neither of which is on the other's.
Older(A, B) ==
  \E a \in A \ B, b \in B \ A :
    /\ a < b
    /\ \A x \in A \ B : a <= x
    /\ \A x \in B \ A : b <= x

LEMMA PathIs ==
  ASSUME NEW t, Forest(t), NEW r \in t.ids, NEW s \in t.ids
  PROVE  /\ Path(t, r) \in SUBSET Nat /\ r \in Path(t, r)
         /\ \A x \in Path(t, r) : x <= r
         /\ \A x \in Path(t, r) \cap Path(t, s), y \in Path(t, r) :
              y < x => y \in Path(t, s)
         /\ r \in Path(t, s) => Path(t, r) \subseteq Path(t, s)
         /\ r \notin t.above[r] /\ t.above[r] \subseteq t.ids
  <1>1. t.ids \subseteq Ids /\ Ids \subseteq Nat
    BY CallsAssumption DEF Forest, Tree, Ids
  <1>2. /\ \A x \in t.above[r] : x \in Nat /\ x < r
        /\ \A x \in t.above[s] : x \in Nat /\ x < s
    BY <1>1 DEF Forest
  <1>3. ASSUME NEW x \in Path(t, r) \cap Path(t, s), NEW y \in Path(t, r),
               y < x
        PROVE  y \in Path(t, s)
    <2>1. y \in t.above[x]
      <3>1. y \in t.above[r]
        <4>1. r \in Nat /\ (x = r \/ (x \in Nat /\ x < r))
          BY <1>1, <1>2, <1>3 DEF Path
        <4>2. y # r
          BY <1>3, <4>1
        <4> QED
          BY <1>3, <4>2 DEF Path
      <3> QED
        BY <1>3, <3>1 DEF Path, Forest
    <2>2. t.above[x] \subseteq t.above[s]
      BY <1>3 DEF Path, Forest
    <2> QED
      BY <2>1, <2>2 DEF Path
  <1>4. r \in Path(t, s) => Path(t, r) \subseteq Path(t, s)
    BY DEF Path, Forest
  <1>5. /\ Path(t, r) \in SUBSET Nat /\ r \in Path(t, r)
        /\ \A x \in Path(t, r) : x <= r
    <2>1. r \in Nat
      BY <1>1
    <2> QED
      BY <1>2, <2>1 DEF Path
  <1>6. r \notin t.above[r] /\ t.above[r] \subseteq t.ids
    BY <1>1, <1>2 DEF Forest
  <1> QED
    BY <1>3, <1>4, <1>5, <1>6

LEMMA BeforeIs ==
  ASSUME NEW t, Forest(t), NEW r \in t.ids, NEW s \in t.ids
  PROVE  Before(t, r, s) <=> \/ r \in t.above[s]
                             \/ Older(Path(t, r), Path(t, s))
  <1> DEFINE A == Path(t, r)
             B == Path(t, s)
  <1>1. CASE r \in t.above[s]
    BY <1>1 DEF Before
  <1>2. CASE s \in t.above[r] \/ r = s
    <2>1. s \in A
      BY <1>2 DEF Path
    <2>2. B \subseteq A
      BY <2>1, PathIs
    <2>3. ~Older(A, B)
      BY <2>2 DEF Older
    <2> QED
      BY <1>2, <2>3 DEF Before
  <1>3. CASE r \notin t.above[s] /\ s \notin t.above[r] /\ r # s
    <2>1. /\ A \ t.above[s] = A \ B /\ B \ t.above[r] = B \ A
          /\ r \in A \ B /\ s \in B \ A
      BY <1>3 DEF Path
    <2>2. A \ B \in SUBSET Nat /\ B \ A \in SUBSET Nat
      BY PathIs
    <2>3. /\ Min(A \ B) \in A \ B /\ \A x \in A \ B : Min(A \ B) <= x
          /\ Min(B \ A) \in B \ A /\ \A x \in B \ A : Min(B \ A) <= x
      BY <2>1, <2>2, MinIsLeast
    <2>4. Before(t, r, s) <=> Min(A \ B) < Min(B \ A)
      BY <1>3, <2>1 DEF Before, Path
    <2> HIDE DEF A, B
    <2>5. Older(A, B) <=> Min(A \ B) < Min(B \ A)
      BY <2>2, <2>3 DEF Older
    <2> QED
      BY <1>3, <2>4, <2>5 DEF A, B
  <1> QED
    BY <1>1, <1>2, <1>3

LEMMA BeforeIsTotal ==
  ASSUME NEW t, Forest(t), NEW r \in t.ids, NEW s \in t.ids, r # s
  PROVE  Before(t, r, s) \/ Before(t, s, r)
  <1> DEFINE A == Path(t, r)
             B == Path(t, s)
  <1> SUFFICES ASSUME r \notin t.above[s], s \notin t.above[r]
               PROVE  Older(A, B) \/ Older(B, A)
    BY BeforeIs
  <1>1. r \in A \ B /\ s \in B \ A
    BY DEF Path
  <1>2. A \ B \in SUBSET Nat /\ B \ A \in SUBSET Nat
    BY PathIs
  <1>3. /\ Min(A \ B) \in A \ B /\ \A x \in A \ B : Min(A \ B) <= x
        /\ Min(B \ A) \in B \ A /\ \A x \in B \ A : Min(B \ A) <= x
    BY <1>1, <1>2, MinIsLeast
  <1> HIDE DEF A, B
  <1>4. Min(A \ B) < Min(B \ A) \/ Min(B \ A) < Min(A \ B)
    BY <1>2, <1>3
  <1> QED
    BY <1>3, <1>4 DEF Older

LEMMA BeforeIsTransitive ==
  ASSUME NEW t, Forest(t), NEW r \in t.ids, NEW s \in t.ids, NEW q \in t.ids,
         Before(t, r, s), Before(t, s, q)
  PROVE  Before(t, r, q)
  <1> DEFINE A == Path(t, r)
             B == Path(t, s)
             C == Path(t, q)
             Meet(X, Y) == \A x \in X \cap Y, y \in X : y < x => y \in Y
  <1>1. A \in SUBSET Nat /\ B \in SUBSET Nat /\ C \in SUBSET Nat
    BY PathIs
  <1>2. /\ Meet(A, B) /\ Meet(B, A) /\ Meet(A, C) /\ Meet(C, A)
        /\ Meet(B, C) /\ Meet(C, B)
    BY PathIs
  <1>3. SUFFICES r \in t.above[q] \/ Older(A, C)
    BY BeforeIs
  <1>4. /\ r \in t.above[s] \/ Older(A, B)
        /\ s \in t.above[q] \/ Older(B, C)
    BY BeforeIs
  <1>5. /\ r \in t.above[s] => A \subseteq B
        /\ s \in t.above[q] => B \subseteq C
        /\ q \in B => C \subseteq B
        /\ r \in C => A \subseteq C
        /\ r \in C /\ r # q => r \in t.above[q]
    BY PathIs DEF Path
  <1>6. CASE r \in t.above[s] /\ s \in t.above[q]
    BY <1>6 DEF Forest
  <1>7. CASE r \in t.above[s] /\ Older(B, C)
    <2>1. PICK b \in B \ C, c \in C \ B :
            /\ b < c
            /\ \A x \in B \ C : b <= x
            /\ \A x \in C \ B : c <= x
      BY <1>7 DEF Older
    <2>2. A \subseteq B /\ r \in A
      BY <1>5, <1>7 DEF Path
    <2>3. CASE b \in A
      <3>1. \A x \in A \ C : b <= x
        BY <2>1, <2>2
      <3>2. \A x \in C \ A : c <= x
        <4> SUFFICES ASSUME NEW x \in C \ A, x \in B PROVE FALSE
          BY <2>1
        <4> HIDE DEF A, B, C
        <4>1. x < b
          BY <1>1, <1>2, <2>1
        <4> QED
          BY <1>1, <1>2, <2>2, <2>3, <4>1
      <3> HIDE DEF A, B, C
      <3> QED
        BY <2>1, <2>2, <2>3, <3>1, <3>2 DEF Older
    <2>4. CASE b \notin A
      <3> HIDE DEF A, B, C
      <3>1. ASSUME NEW x \in A PROVE x \in C
        <4>1. x < b
          BY <1>1, <1>2, <2>1, <2>2, <2>4
        <4> QED
          BY <1>1, <2>1, <2>2, <4>1
      <3>2. r \in C
        BY <2>2, <3>1
      <3>3. r # q
        BY <1>5, <2>1, <2>2
      <3> QED
        BY <1>5, <3>2, <3>3
    <2> QED
      BY <2>3, <2>4
  <1>8. CASE Older(A, B) /\ s \in t.above[q]
    <2>1. PICK a \in A \ B, b \in B \ A :
            /\ a < b
            /\ \A x \in A \ B : a <= x
            /\ \A x \in B \ A : b <= x
      BY <1>8 DEF Older
    <2>2. B \subseteq C
      BY <1>5, <1>8
    <2> HIDE DEF A, B, C
    <2>3. a \notin C
      BY <1>1, <1>2, <2>1, <2>2
    <2>4. \A x \in A \ C : a <= x
      BY <2>1, <2>2
    <2>5. ASSUME NEW x \in C \ A PROVE b <= x
      <3>1. CASE x \in B
        BY <2>1, <3>1
      <3>2. CASE x \notin B
        BY <1>1, <1>2, <2>1, <2>2, <3>2
      <3> QED
        BY <3>1, <3>2
    <2> QED
      BY <2>1, <2>2, <2>3, <2>4, <2>5 DEF Older
  <1>9. CASE Older(A, B) /\ Older(B, C)
    <2>1. PICK a \in A \ B, b \in B \ A :
            /\ a < b
            /\ \A x \in A \ B : a <= x
            /\ \A x \in B \ A : b <= x
      BY <1>9 DEF Older
    <2>2. PICK d \in B \ C, c \in C \ B :
            /\ d < c
            /\ \A x \in B \ C : d <= x
            /\ \A x \in C \ B : c <= x
      BY <1>9 DEF Older
    <2> HIDE DEF A, B, C
    <2>3. a \in Nat /\ b \in Nat /\ c \in Nat /\ d \in Nat
      BY <1>1
    <2>4. CASE b < d
      <3>1. b \in C
        BY <2>1, <2>2, <2>3, <2>4
      <3>2. a \notin C
        BY <1>2, <2>1, <3>1
      <3>3. ASSUME NEW x \in A \ C PROVE a <= x
        BY <1>1, <2>1, <2>2, <2>3, <2>4
      <3>4. ASSUME NEW x \in C \ A PROVE b <= x
        BY <1>1, <2>1, <2>2, <2>3, <2>4
      <3> QED
        BY <2>1, <3>1, <3>2, <3>3, <3>4 DEF Older
    <2>5. CASE b = d
      <3>1. a \notin C
        BY <2>1, <2>2, <2>3, <2>5
      <3>2. c \notin A
        BY <1>2, <2>1, <2>2, <2>3, <2>5, <3>1
      <3>3. ASSUME NEW x \in A \ C PROVE a <= x
        BY <1>1, <2>1, <2>2, <2>3, <2>5
      <3>4. ASSUME NEW x \in C \ A PROVE c <= x
        <4>1. CASE x \in B
          BY <1>1, <1>2, <2>1, <2>2, <2>3, <2>5, <4>1
        <4> QED
          BY <2>2, <4>1
      <3> QED
        BY <2>1, <2>2, <2>3, <2>5, <3>1, <3>2, <3>3, <3>4 DEF Older
    <2>6. CASE d < b
      <3>1. d \in A
        BY <2>1, <2>2, <2>3, <2>6
      <3>2. d < a
        BY <1>2, <2>1, <2>2, <2>3, <3>1
      <3>3. c \notin A
        BY <1>2, <2>2, <2>3, <3>1
      <3>4. ASSUME NEW x \in A \ C PROVE d <= x
        BY <1>1, <2>1, <2>2, <2>3, <3>2
      <3>5. ASSUME NEW x \in C \ A PROVE c <= x
        <4>1. CASE x \in B
          BY <1>1, <1>2, <2>1, <2>2, <2>3, <2>6, <4>1
        <4> QED
          BY <2>2, <4>1
      <3> QED
        BY <2>2, <3>1, <3>3, <3>4, <3>5 DEF Older
    <2> QED
      BY <2>3, <2>4, <2>5, <2>6
  <1> QED
    BY <1>4, <1>6, <1>7, <1>8, <1>9

\* There is a first snapshot of a name: the one with the fewest before it.
LEMMA FirstExists ==
  ASSUME NEW t, Forest(t), NEW n, Named(t, n) # {}
  PROVE  /\ FindSnapshot(t, n) \in Named(t, n)
         /\ \A r \in Named(t, n) \ {FindSnapshot(t, n)} :
              Before(t, FindSnapshot(t, n), r)
  <1> DEFINE N == Named(t, n)
             Ahead(s) == {r \in N : Before(t, r, s)}
             Ranks == {Cardinality(Ahead(s)) : s \in N}
  <1>1. N \subseteq t.ids
    BY DEF Named
  <1>2. IsFiniteSet(N)
    <2>1. t.ids \subseteq 1..t.made /\ t.made \in Nat
      BY CallsAssumption DEF Forest, Tree
    <2>2. IsFiniteSet(1..t.made)
      BY <2>1, FS_Interval
    <2> QED
      BY <1>1, <2>1, <2>2, FS_Subset
  <1>3. \A s \in N : IsFiniteSet(Ahead(s)) /\ Cardinality(Ahead(s)) \in Nat
    BY <1>2, FS_Subset, FS_CardinalityType
  <1>4. Ranks \in SUBSET Nat /\ Ranks # {}
    BY <1>3
  <1>5. PICK s \in N :
          \A r \in N : Cardinality(Ahead(s)) <= Cardinality(Ahead(r))
    <2>1. Min(Ranks) \in Ranks /\ \A k \in Ranks : Min(Ranks) <= k
      BY <1>4, MinIsLeast
    <2>2. PICK s \in N : Min(Ranks) = Cardinality(Ahead(s))
      BY <2>1
    <2>3. \A r \in N : Cardinality(Ahead(r)) \in Ranks
      OBVIOUS
    <2> HIDE DEF Ranks
    <2> QED
      BY <2>1, <2>2, <2>3
  <1>6. ASSUME NEW r \in N \ {s}, ~Before(t, s, r) PROVE FALSE
    <2>1. Before(t, r, s)
      BY <1>1, <1>6, BeforeIsTotal
    <2>2. Ahead(r) \subseteq Ahead(s)
      BY <1>1, <2>1, BeforeIsTransitive
    <2>3. r \in Ahead(s) /\ r \notin Ahead(r)
      <3>1. ~Before(t, r, r)
        BY <1>1, PathIs DEF Before
      <3> QED
        BY <2>1, <3>1
    <2>4. Cardinality(Ahead(r)) < Cardinality(Ahead(s))
      BY <1>3, <2>2, <2>3, FS_Subset
    <2>5. Cardinality(Ahead(s)) <= Cardinality(Ahead(r))
      BY <1>5, <1>6
    <2> HIDE DEF Ahead
    <2> QED
      BY <1>3, <1>6, <2>4, <2>5
  <1> QED
    BY <1>6 DEF FindSnapshot

\* In every forest findSnapshotByName, asked for a name that there is, has one
\* answer: the snapshot of that name that comes before all the others of it.
THEOREM SearchIsDetermined ==
  ASSUME NEW t \in Tree, Forest(t), NEW n, Named(t, n) # {}
  PROVE  /\ FindSnapshot(t, n) \in Named(t, n)
         /\ \A s \in Named(t, n) :
              s = FindSnapshot(t, n)
                <=> \A r \in Named(t, n) \ {s} : Before(t, s, r)
  <1> DEFINE first == FindSnapshot(t, n)
  <1>1. /\ first \in Named(t, n)
        /\ \A r \in Named(t, n) \ {first} : Before(t, first, r)
    BY FirstExists
  <1> HIDE DEF first
  <1>2. ASSUME NEW s \in Named(t, n), s # first,
               \A r \in Named(t, n) \ {s} : Before(t, s, r)
        PROVE  FALSE
    <2>1. Before(t, s, first) /\ Before(t, first, s)
      BY <1>1, <1>2
    <2>2. s \in t.ids /\ first \in t.ids
      BY <1>1 DEF Named
    <2>3. Before(t, s, s)
      BY <2>1, <2>2, BeforeIsTransitive
    <2>4. ~Before(t, s, s)
      BY <2>2, PathIs DEF Before
    <2> QED
      BY <2>3, <2>4
  <1> QED
    BY <1>1, <1>2 DEF first

-----------------------------------------------------------------------------
(* What the server does to a tree.                                         *)

LEMMA TreeIs ==
  ASSUME NEW t, Forest(t)
  PROVE  /\ t.ids \subseteq Ids /\ Ids \subseteq Nat
         /\ t.made \in Nat /\ t.made <= MaxSnapshots /\ MaxSnapshots \in Nat
         /\ t.above \in [Ids -> SUBSET Ids] /\ t.label \in [Ids -> Names]
         /\ t.saved \in [Ids -> Powers]
         /\ t.current \in t.ids \cup {0}
  BY CallsAssumption DEF Forest, Tree, Ids

LEMMA TakeIs ==
  ASSUME NEW t, Forest(t), t.made < MaxSnapshots, NEW n \in Names,
         NEW p \in Powers
  PROVE  Forest(Take(t, n, p)) /\ Follows(t, Take(t, n, p))
  <1> DEFINE new == t.made + 1
             up == IF t.current = 0 THEN {}
                   ELSE t.above[t.current] \cup {t.current}
             u == Take(t, n, p)
  <1>1. new \in Ids /\ new \notin t.ids /\ \A s \in t.ids : s < new
    BY TreeIs DEF Forest, Ids
  <1>2. up \subseteq t.ids
    BY DEF Forest
  <1>3. up \subseteq 1..(new - 1)
    <2>1. new - 1 = t.made
      BY TreeIs
    <2> QED
      BY <1>2, <2>1 DEF Forest
  <1>4. /\ \A r \in up : t.above[r] \subseteq up
        /\ \A r, q \in up : r < q => r \in t.above[q]
    BY <1>1, TreeIs DEF Forest
  <1>5. /\ u.ids = t.ids \cup {new} /\ u.made = new /\ u.current = new
        /\ u.label = [t.label EXCEPT ![new] = n]
        /\ u.saved = [t.saved EXCEPT ![new] = p]
        /\ u.above = [t.above EXCEPT ![new] = up]
        /\ u = [ids |-> u.ids, made |-> u.made, current |-> u.current,
                label |-> u.label, saved |-> u.saved, above |-> u.above]
    <2>1. t \in [ids : SUBSET Ids, made : 0..MaxSnapshots,
                 current : 0..MaxSnapshots, above : [Ids -> SUBSET Ids],
                 label : [Ids -> Names], saved : [Ids -> Powers]]
      BY DEF Forest, Tree
    <2> HIDE DEF new, up
    <2>2. u = [t EXCEPT !.ids = @ \cup {new}, !.made = new, !.current = new,
                        !.label[new] = n, !.saved[new] = p, !.above[new] = up]
      BY DEF Take, new, up
    <2> QED
      BY <2>1, <2>2
  <1> HIDE DEF up
  <1>6. /\ u.above \in [Ids -> SUBSET Ids] /\ u.above[new] = up
        /\ u.label \in [Ids -> Names] /\ u.saved \in [Ids -> Powers]
        /\ \A s \in Ids : s # new => u.above[s] = t.above[s]
                                     /\ u.label[s] = t.label[s]
    BY <1>1, <1>2, <1>5, TreeIs
  <1>7. u.ids \subseteq Ids /\ u.made \in 0..MaxSnapshots
    BY <1>1, <1>5, TreeIs DEF Ids
  <1> HIDE DEF u
  <1>8. u \in Tree
    <2>1. u.current \in 0..MaxSnapshots
      BY <1>5, <1>7
    <2> QED
      BY <1>5, <1>6, <1>7, <2>1 DEF Tree
  <1>9. u.ids \subseteq 1..u.made /\ u.current \in u.ids
    BY <1>1, <1>5, TreeIs DEF Forest
  <1>10. \A s \in Ids : u.above[s] \subseteq 1..(s - 1)
    BY <1>3, <1>6 DEF Forest
  <1> HIDE DEF new
  <1>11. ASSUME NEW s \in u.ids
         PROVE  /\ u.above[s] \subseteq u.ids
                /\ \A r \in u.above[s] : u.above[r] \subseteq u.above[s]
                /\ \A r, q \in u.above[s] : r < q => r \in u.above[q]
    <2>1. \A r \in t.ids : r \in Ids /\ r # new /\ t.above[r] \subseteq t.ids
      BY <1>1, TreeIs DEF Forest
    <2>2. CASE s = new
      BY <1>2, <1>4, <1>5, <1>6, <2>1, <2>2
    <2>3. CASE s # new
      <3>1. s \in t.ids
        BY <1>5, <2>3
      <3> QED
        BY <1>5, <1>6, <2>1, <3>1 DEF Forest
    <2> QED
      BY <2>2, <2>3
  <1>12. Forest(u)
    BY <1>8, <1>9, <1>10, <1>11 DEF Forest
  <1>13. Follows(t, u)
    <2>1. \A s \in 1..t.made : s \in Ids /\ s # new
      BY TreeIs DEF Ids, new
    <2>2. t.made <= u.made /\ new > t.made
      BY <1>5, TreeIs DEF new
    <2> QED
      BY <1>5, <1>6, <2>1, <2>2 DEF Follows
  <1> QED
    BY <1>12, <1>13 DEF u

LEMMA PruneIs ==
  ASSUME NEW t, Forest(t), NEW s \in t.ids, NEW children \in BOOLEAN
  PROVE  Forest(Prune(t, s, children)) /\ Follows(t, Prune(t, s, children))
  <1> DEFINE gone == {s} \cup {r \in t.ids : children /\ s \in t.above[r]}
             u == Prune(t, s, children)
  <1>1. t \in [ids : SUBSET Ids, made : 0..MaxSnapshots,
               current : 0..MaxSnapshots, above : [Ids -> SUBSET Ids],
               label : [Ids -> Names], saved : [Ids -> Powers]]
    BY DEF Forest, Tree
  <1>2. s \in gone /\ gone \subseteq t.ids
    OBVIOUS
  <1>3. ASSUME t.above[s] # {}
        PROVE  Parent(t, s) \in t.above[s] /\ Parent(t, s) \in t.ids \ gone
    <2>1. s \in Ids /\ s - 1 \in Nat /\ t.above[s] \subseteq 1..(s - 1)
      BY TreeIs DEF Forest, Ids
    <2>2. Parent(t, s) \in t.above[s]
      BY <1>3, <2>1, MaxIsIn DEF Parent
    <2>3. Parent(t, s) \in t.ids
      BY <2>2 DEF Forest
    <2>4. Parent(t, s) \in Nat /\ Parent(t, s) < s
      BY <2>1, <2>2, <2>3, TreeIs
    <2>5. s \notin t.above[Parent(t, s)]
      <3>1. t.above[Parent(t, s)] \subseteq 1..(Parent(t, s) - 1)
        BY <2>3, TreeIs DEF Forest
      <3> QED
        BY <2>1, <2>4, <3>1 DEF Ids
    <2> QED
      BY <2>2, <2>3, <2>4, <2>5
  <1>4. Parent(t, s) \in (t.ids \ gone) \cup {0}
    BY <1>3 DEF Parent
  <1> HIDE DEF gone
  <1>5. /\ u.ids = t.ids \ gone /\ u.made = t.made
        /\ u.label = t.label /\ u.saved = t.saved
        /\ u.above = [r \in Ids |-> t.above[r] \ gone]
        /\ u.current = IF t.current \in gone THEN Parent(t, s) ELSE t.current
        /\ u = [ids |-> u.ids, made |-> u.made, current |-> u.current,
                label |-> u.label, saved |-> u.saved, above |-> u.above]
    <2>1. u = [t EXCEPT !.ids = @ \ gone,
                        !.above = [r \in Ids |-> @[r] \ gone],
                        !.current = IF @ \in gone THEN Parent(t, s) ELSE @]
      BY DEF Prune, gone
    <2> QED
      BY <1>1, <2>1
  <1> HIDE DEF u
  <1>6. u.current \in u.ids \cup {0}
    BY <1>4, <1>5, TreeIs
  <1>7. u \in Tree
    <2>1. u.current \in 0..MaxSnapshots
      BY <1>5, <1>6, TreeIs DEF Ids
    <2>2. u.above \in [Ids -> SUBSET Ids]
      BY <1>5, TreeIs
    <2> QED
      BY <1>1, <1>5, <2>1, <2>2 DEF Tree
  <1>8. Forest(u)
    BY <1>5, <1>6, <1>7, TreeIs DEF Forest
  <1>9. Follows(t, u)
    <2>1. \A r \in 1..t.made : r \in Ids
      BY TreeIs DEF Ids
    <2> QED
      BY <1>5, <2>1, TreeIs DEF Follows
  <1> QED
    BY <1>8, <1>9 DEF u

LEMMA PruneAllIs ==
  ASSUME NEW t, Forest(t)
  PROVE  /\ Forest(PruneAll(t)) /\ Follows(t, PruneAll(t))
         /\ PruneAll(t).ids = {}
  <1> DEFINE u == PruneAll(t)
  <1>1. t \in [ids : SUBSET Ids, made : 0..MaxSnapshots,
               current : 0..MaxSnapshots, above : [Ids -> SUBSET Ids],
               label : [Ids -> Names], saved : [Ids -> Powers]]
    BY DEF Forest, Tree
  <1>2. /\ u.ids = {} /\ u.made = t.made /\ u.current = 0
        /\ u.label = t.label /\ u.saved = t.saved
        /\ u.above = [r \in Ids |-> {}]
        /\ u = [ids |-> u.ids, made |-> u.made, current |-> u.current,
                label |-> u.label, saved |-> u.saved, above |-> u.above]
    <2>1. u = [t EXCEPT !.ids = {}, !.current = 0,
                        !.above = [r \in Ids |-> {}]]
      BY DEF PruneAll
    <2> HIDE DEF u
    <2>2. /\ u.ids = {} /\ u.made = t.made /\ u.current = 0
          /\ u.label = t.label /\ u.saved = t.saved
          /\ u.above = [r \in Ids |-> {}]
      BY <1>1, <2>1
    <2>3. u = [ids |-> u.ids, made |-> u.made, current |-> u.current,
               label |-> u.label, saved |-> u.saved, above |-> u.above]
      BY <1>1, <2>1
    <2> QED
      BY <2>2, <2>3
  <1> HIDE DEF u
  <1>3. u \in Tree
    BY <1>1, <1>2, TreeIs DEF Tree
  <1>4. Forest(u)
    BY <1>2, <1>3 DEF Forest
  <1>5. Follows(t, u)
    <2>1. \A r \in 1..t.made : r \in Ids
      BY TreeIs DEF Ids
    <2> QED
      BY <1>2, <2>1, TreeIs DEF Follows
  <1> QED
    BY <1>2, <1>4, <1>5 DEF u

LEMMA RevertIs ==
  ASSUME NEW t, Forest(t), NEW s \in t.ids
  PROVE  /\ Forest([t EXCEPT !.current = s])
         /\ Follows(t, [t EXCEPT !.current = s])
         /\ [t EXCEPT !.current = s].ids = t.ids
  <1> DEFINE u == [t EXCEPT !.current = s]
  <1>1. t \in [ids : SUBSET Ids, made : 0..MaxSnapshots,
               current : 0..MaxSnapshots, above : [Ids -> SUBSET Ids],
               label : [Ids -> Names], saved : [Ids -> Powers]]
    BY DEF Forest, Tree
  <1>2. /\ u.ids = t.ids /\ u.made = t.made /\ u.current = s
        /\ u.label = t.label /\ u.saved = t.saved /\ u.above = t.above
        /\ u = [ids |-> u.ids, made |-> u.made, current |-> u.current,
                label |-> u.label, saved |-> u.saved, above |-> u.above]
    BY <1>1
  <1> HIDE DEF u
  <1>3. u \in Tree
    <2>1. s \in 0..MaxSnapshots
      BY TreeIs DEF Ids
    <2> QED
      BY <1>1, <1>2, <2>1 DEF Tree
  <1>4. Forest(u)
    BY <1>2, <1>3 DEF Forest
  <1>5. Follows(t, u)
    BY <1>2, TreeIs DEF Follows
  <1> QED
    BY <1>2, <1>4, <1>5 DEF u
=============================================================================
